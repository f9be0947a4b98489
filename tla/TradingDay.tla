----------------------------- MODULE TradingDay -----------------------------
(***************************************************************************)
(* A trader, the journal and the two counsels: POST /trades/checklist,     *)
(* which is told today's losses by its caller, and the dashboard's filter, *)
(* which counts in the list of trades the page has loaded.  Neither has a  *)
(* say in POST /trades: a trader follows one of them or none.              *)
(*                                                                         *)
(* The page is that of who follows the filter; the others look at none.    *)
(* What the filter says is counted anew whenever the list changes or the   *)
(* checklist is opened; a word left over from the day before only forbids  *)
(* more.                                                                   *)
(***************************************************************************)
EXTENDS TradeRules, Sequences, FiniteSetsExt

CONSTANTS
  Assets,       \* tickers
  Guides,       \* whom traders follow: "checklist", "filter", "none"
  Plans,        \* plans of trades
  Exits,        \* exit prices
  Emotions,
  Minutes,      \* times of the day
  MaxOpen,      \* trades the trader has open at a time
  MaxTrades,    \* trades in the journal (bound)
  MaxLoads,     \* different answers to loadTrades on their way at a time (bound)
  MaxDays       \* midnights (bound)

ASSUME TradingAssumption ==
  /\ Guides \subseteq {"checklist", "filter", "none"}
  /\ MinRR \in Nat /\ MaxDailyLosses \in Nat \ {0} /\ DayLimit \in Nat \ {0}
  /\ Plans \subseteq [asset : Assets, direction : {"LONG", "SHORT"},
                       entry : Nat, stop : Nat, target : Nat]
  /\ Exits \subseteq Nat /\ Minutes \subseteq 0 .. 1439
  /\ MaxOpen \in Nat \ {0} /\ MaxTrades \in Nat /\ MaxLoads \in Nat /\ MaxDays \in Nat

VARIABLES
  guide,        \* whom the trader follows
  today,
  trades,       \* the journal
  shown,        \* state.trades of the dashboard
  loads,        \* what the answers to loadTrades that are on their way have read
  came,         \* whether one has come since the journal changed or the page was opened
  blind         \* whether a trade was ever opened or closed before it had, or with
                \* another one on its way

pageVars == <<shown, loads, came, blind>>

vars == <<guide, today, trades, pageVars>>

Open == {i \in 1 .. Len(trades) : trades[i].closed = -1}

\* The losses of a day, by the day on which they were taken.
LossesOf(day) == {i \in 1 .. Len(trades) : trades[i].closed = day /\ trades[i].result = "loss"}

\* What the filter counts: trades opened today, and the losses among them.
Today(list) == {i \in 1 .. Len(list) : list[i].opened = today}

\* Bug variant: the losses of all days.
AllLosses(list) == {i \in 1 .. Len(list) : list[i].result = "loss"}

TodayLosses(list) == {i \in Today(list) : list[i].result = "loss"}

FilterVerdict(list, minute) ==
  Filter(Cardinality(Today(list)), Cardinality(TodayLosses(list)), minute)

Intent(plan, emotion, setup) ==
  [emotion |-> emotion, rr |-> Ratio(plan), losses |-> Cardinality(LossesOf(today)),
   setup |-> setup]

-----------------------------------------------------------------------------
Init ==
  /\ guide \in Guides
  /\ today = 0
  /\ trades = <<>>
  /\ shown = <<>>
  /\ loads = {}
  /\ came = FALSE
  /\ blind = FALSE

\* loadTrades after a change is not waited for.  Its answer has read the journal as it
\* is now; one that reads it later is the answer to what is asked then.
Reload ==
  IF guide = "filter"
  THEN /\ loads' = loads \cup {trades'} /\ Cardinality(loads') <= MaxLoads
       /\ came' = FALSE
       /\ blind' = (blind \/ ~came \/ loads # {})
       /\ UNCHANGED shown
  ELSE UNCHANGED pageVars

\* What the trader lets himself do.
Allows(plan, emotion, minute) ==
  /\ guide = "checklist" =>
       Checklist(Intent(plan, emotion, TRUE), minute) # "NAO_OPERAR"
  /\ guide = "filter" => FilterVerdict(shown, minute) # "PARAR"

\* RecordTradeUseCase
Record(plan, emotion, minute) ==
  /\ Len(trades) < MaxTrades
  /\ Cardinality(Open) < MaxOpen
  /\ Valid(plan)
  /\ Allows(plan, emotion, minute)
  /\ trades' = Append(trades, [plan |-> plan, opened |-> today, closed |-> -1,
                               exit |-> 0, result |-> "none", r |-> 0])
  /\ Reload
  /\ UNCHANGED <<guide, today>>

\* CloseTradeUseCase: the result is the user's word; who follows a guide tells the
\* truth and gets out at the stop.
Close(i, exit, result) ==
  /\ i \in Open
  /\ LET plan == trades[i].plan
         r == Realized(plan, exit)
     IN  /\ guide # "none" =>
              /\ result = (IF exit = plan.entry THEN "breakeven" ELSE IF r > 0 THEN "win" ELSE "loss")
              /\ IF plan.direction = "LONG" THEN exit >= plan.stop ELSE exit <= plan.stop
         /\ trades' = [trades EXCEPT ![i] = [@ EXCEPT !.closed = today, !.exit = exit,
                                                      !.result = result, !.r = r]]
  /\ Reload
  /\ UNCHANGED <<guide, today>>

\* navTo("trades"), and its timer every five seconds.
Load ==
  /\ guide = "filter"
  /\ loads' = loads \cup {trades} /\ Cardinality(loads') <= MaxLoads
  /\ UNCHANGED <<guide, today, trades, shown, came, blind>>

\* There may be more answers that have read the same.
Leaves(list) == loads' \in {loads, loads \ {list}}

\* The rest of loadTrades: the list is replaced by whatever comes, or kept.
Arrive(list) ==
  /\ list \in loads /\ Leaves(list)
  /\ shown' = list
  /\ came' = TRUE
  /\ UNCHANGED <<guide, today, trades, blind>>

LoadFails(list) ==
  /\ list \in loads /\ Leaves(list)
  /\ UNCHANGED <<guide, today, trades, shown, came, blind>>

\* The page is opened or loaded again, on its first tab: init() asks for no trades,
\* nor does navTo("checklist").
Reopen ==
  /\ guide = "filter"
  /\ shown' = <<>>
  /\ loads' = {}
  /\ came' = FALSE
  /\ UNCHANGED <<guide, today, trades, blind>>

Midnight ==
  /\ today < MaxDays
  /\ today' = today + 1
  /\ UNCHANGED <<guide, trades, pageVars>>

Next ==
  \/ \E plan \in Plans, emotion \in Emotions, minute \in Minutes :
       Record(plan, emotion, minute)
  \/ \E i \in 1 .. Len(trades), exit \in Exits, result \in {"win", "loss", "breakeven"} :
       Close(i, exit, result)
  \/ Load \/ Reopen
  \/ \E list \in loads : Arrive(list) \/ LoadFails(list)
  \/ Midnight

Spec == Init /\ [][Next]_vars

-----------------------------------------------------------------------------
Trade ==
  [plan : Plans, opened : Nat, closed : Nat \cup {-1}, exit : Exits \cup {0},
   result : {"none", "win", "loss", "breakeven"}, r : Int]

TypeOK ==
  /\ guide \in Guides
  /\ today \in 0 .. MaxDays
  /\ trades \in Seq(Trade)
  /\ shown \in Seq(Trade)
  /\ loads \subseteq Seq(Trade)
  /\ came \in BOOLEAN /\ blind \in BOOLEAN
  /\ Cardinality(Open) <= MaxOpen

\* The R of each row, and what some of them add up to.
RSeries(rows) == [i \in 1 .. Len(rows) |-> rows[i].r]

Total(rs, ids) == MapThenSumSet(LAMBDA i : rs[i], ids)

\* A trader who follows the checklist is asked about the losses before a trade is
\* opened and takes them after: with several trades open a day costs more losses
\* than the limit, but at most one R for each of the trades open beyond the last
\* loss allowed, whatever is left over from the days before.
DayIsBounded ==
  guide = "checklist" =>
    LET worst == MaxDailyLosses - 1 + MaxOpen
    IN  \A day \in 0 .. today :
          /\ Cardinality(LossesOf(day)) <= worst
          /\ Total(RSeries(trades), LossesOf(day)) >= -100 * worst

\* Who follows the filter opens no more trades a day than it allows, if he changes
\* nothing before the list has come again, with no other answer on its way: the page
\* starts with an empty list, an answer may fail or be overtaken.  Whatever list it
\* has: where it says stop for the losses the checklist says so for any intent, and
\* when it says go the checklist has nothing against the hour.
CounselsAgree ==
  /\ guide = "filter" /\ ~blind => Cardinality(Today(trades)) <= DayLimit
  /\ \A list \in {shown, trades}, minute \in Minutes :
       /\ FilterVerdict(list, minute) = "OPERAR" => GoodTime(minute)
       /\ FilterVerdict(list, minute) = "PARAR" /\ Cardinality(Today(list)) < DayLimit =>
            \A plan \in Plans, emotion \in Emotions :
              Checklist(Intent(plan, emotion, TRUE), minute) = "NAO_OPERAR"

-----------------------------------------------------------------------------
(* What the documentation says and the code does not do.                   *)

\* README.md:74, the filter "checks consecutive losses": after two losses today it
\* does not say go.  A trade opened yesterday is not looked at.
FilterSeesLosses ==
  Cardinality(LossesOf(today)) >= 2 =>
    \A minute \in Minutes : FilterVerdict(trades, minute) # "OPERAR"

\* README.md:72, the checklist "blocks entry below threshold".
EntryIsBlocked == \A i \in 1 .. Len(trades) : Ratio(trades[i].plan) >= MinRR

\* domain/trade/value_objects.py:30, "the minimum threshold of 2:1": what the
\* checklist lets pass has it.
RatioIsAcceptable ==
  guide = "checklist" => \A i \in 1 .. Len(trades) : Ratio(trades[i].plan) >= 200
=============================================================================
