----------------------------- MODULE Performance ----------------------------
(***************************************************************************)
(* GET /analytics/performance beside the trader's journal: a report        *)
(* computed from the closed trades on every request, and saved.            *)
(*                                                                         *)
(* Numbers are fixed point, as the code rounds them: realised R in         *)
(* hundredths, percentages in tenths, averages and expectancy in           *)
(* thousandths of R.  get_by_status has no ORDER BY, so the rows come in   *)
(* any order.                                                              *)
(***************************************************************************)
EXTENDS TradingDay, SequencesExt

CONSTANTS
  Windows,      \* lengths of the bounded periods, in days
  ALL,          \* MetricPeriod.ALL_TIME, and "no asset filter"
  MaxReports    \* reports asked for (bound)

ASSUME PerformanceAssumption ==
  /\ Windows \subseteq Nat
  /\ ALL \notin Windows /\ ALL \notin Assets
  /\ MaxReports \in Nat

VARIABLE reports    \* performance_reports

reportVars == <<vars, reports>>

-----------------------------------------------------------------------------
(* The metrics, over rows in the order in which they were read.            *)

Greater(a, b) == IF a >= b THEN a ELSE b

\* The positions of the rows with a result.
Of(rows, result) == {i \in 1 .. Len(rows) : rows[i].result = result}

\* round(sum / len, 3), in thousandths.
Average(rs, ids) ==
  IF ids = {} THEN 0 ELSE Round(10 * Total(rs, ids), Cardinality(ids))

\* WinRate.pct
Pct(rows) ==
  IF rows = <<>> THEN 0 ELSE Round(1000 * Cardinality(Of(rows, "win")), Len(rows))

AverageWin(rows) == Average(RSeries(rows), Of(rows, "win"))

\* Bug variant: the losses keep their sign.
AverageLossSigned(rows) == Average(RSeries(rows), Of(rows, "loss"))

Sizes(rows) == [i \in 1 .. Len(rows) |-> Abs(rows[i].r)]

AverageLoss(rows) == Average(Sizes(rows), Of(rows, "loss"))

\* ExpectedValue.ev_r: whatever is no win counts as a loss.
ExpectedValue(rows) ==
  Round(Pct(rows) * AverageWin(rows) - (1000 - Pct(rows)) * AverageLoss(rows), 1000)

\* Bug variant: the peak starts with the first trade's result.
PassFromFirst(rs) ==
  LET after[n \in 0 .. Len(rs)] ==
        IF n = 0 THEN [running |-> 0, peak |-> 0, max |-> 0]
        ELSE LET before == after[n - 1]
                 running == before.running + rs[n]
                 peak == IF n = 1 THEN running ELSE Greater(before.peak, running)
             IN  [running |-> running, peak |-> peak,
                  max |-> Greater(before.max, peak - running)]
  IN  after

\* _compute_drawdown, the part the report shows: one pass over the rows.
Pass(rs) ==
  LET after[n \in 0 .. Len(rs)] ==
        IF n = 0 THEN [running |-> 0, peak |-> 0, max |-> 0]
        ELSE LET before == after[n - 1]
                 running == before.running + rs[n]
                 peak == Greater(before.peak, running)
             IN  [running |-> running, peak |-> peak,
                  max |-> Greater(before.max, peak - running)]
  IN  after

MaxDrawdown(rs) == Pass(rs)[Len(rs)].max

\* Bug variant: the win rate must not exceed the grade's bound.
GradeInverted(pct, ev) ==
  IF ev >= 300 /\ pct <= 550 THEN "A"
  ELSE IF ev >= 100 /\ pct <= 500 THEN "B"
  ELSE IF ev >= 0 /\ pct <= 450 THEN "C"
  ELSE IF ev >= -200 THEN "D"
  ELSE "F"

\* _grade
Grade(pct, ev) ==
  IF ev >= 300 /\ pct >= 550 THEN "A"
  ELSE IF ev >= 100 /\ pct >= 500 THEN "B"
  ELSE IF ev >= 0 /\ pct >= 450 THEN "C"
  ELSE IF ev >= -200 THEN "D"
  ELSE "F"

\* _compute: without trades a report of zeros with grade F.
Compute(rows) ==
  LET total == Total(RSeries(rows), 1 .. Len(rows))
  IN  [trades   |-> Len(rows),
       pct      |-> Pct(rows),
       total    |-> total,
       average  |-> IF rows = <<>> THEN 0 ELSE Round(total, Len(rows)),
       ev       |-> ExpectedValue(rows),
       drawdown |-> MaxDrawdown(RSeries(rows)),
       grade    |-> IF rows = <<>> THEN "F" ELSE Grade(Pct(rows), ExpectedValue(rows))]

\* ExpectedValue refuses a negative average win; Compute then raises.
Computable(rows) == AverageWin(rows) >= 0

\* The trades a query selects.
Selected(t, window, asset) ==
  /\ t.closed # -1
  /\ asset \in {ALL, t.plan.asset}
  /\ window = ALL \/ today - window <= t.closed

Ids(window, asset) == {i \in 1 .. Len(trades) : Selected(trades[i], window, asset)}

\* A bounded period begins at the hour at which it is asked for: of its first day it
\* leaves out what was closed earlier.
Early(window, asset) ==
  {i \in Ids(window, asset) : window # ALL /\ trades[i].closed = today - window}

\* Bug variant: the query reads one page.
ReadsPage(ids) ==
  {[k \in 1 .. (IF Len(order) > 2 THEN 2 ELSE Len(order)) |-> trades[order[k]]] :
     order \in SetToSeqs(ids)}

\* The trades with the given ids as a SELECT may return them.
Reads(ids) == {[k \in 1 .. Len(order) |-> trades[order[k]]] : order \in SetToSeqs(ids)}

-----------------------------------------------------------------------------
ReportInit == Init /\ reports = {}

\* GetPerformanceUseCase.execute; a report that cannot be computed is an error
\* and saves nothing.
GetPerformance(window, asset) ==
  /\ Cardinality(reports) < MaxReports
  /\ \E early \in SUBSET Early(window, asset) :
     \E rows \in Reads(Ids(window, asset) \ early) :
       /\ Computable(rows)
       /\ reports' = reports \cup {[window |-> window, asset |-> asset, on |-> today,
                                    numbers |-> Compute(rows)]}
  /\ UNCHANGED vars

ReportNext ==
  \/ Next /\ UNCHANGED reports
  \/ \E window \in Windows \cup {ALL}, asset \in Assets \cup {ALL} :
       GetPerformance(window, asset)

ReportSpec == ReportInit /\ [][ReportNext]_reportVars

-----------------------------------------------------------------------------
Numbers == [trades : Nat, pct : 0 .. 1000, total : Int, average : Int, ev : Int,
            drawdown : Nat, grade : {"A", "B", "C", "D", "F"}]

ReportsTyped ==
  /\ TypeOK
  /\ reports \subseteq [window : Windows \cup {ALL}, asset : Assets \cup {ALL},
                        on : 0 .. MaxDays, numbers : Numbers]

\* A report of the whole history can be had again: as long as no trade was closed
\* since, it gives the saved numbers, the drawdown excepted, in whatever order the rows
\* come now, and whatever was opened, and of other assets closed, in the meantime.
ReportsRepeat ==
  \A saved \in reports : saved.window = ALL =>
    \A rows \in Reads(Ids(ALL, saved.asset)) :
      LET now == Compute(rows)
      IN  now.trades = saved.numbers.trades =>
            now = [saved.numbers EXCEPT !.drawdown = now.drawdown]

\* Every win and every loss says what its R says.
Honest(rows) ==
  \A i \in 1 .. Len(rows) :
    CASE rows[i].result = "win"  -> rows[i].r >= 0
      [] rows[i].result = "loss" -> rows[i].r <= 0
      [] OTHER -> rows[i].r = 0

\* Falls of the cumulated R from any point, the start included, to a later one.
Falls(rs) == {-Total(rs, i .. j) : i, j \in 1 .. Len(rs)} \cup {0}

\* The figures are what they are called.  The one pass of _compute_drawdown finds
\* the largest fall; and without breakevens and with honest results the expectancy
\* is the average R of a trade up to the roundings on the way: half a thousandth
\* each of the result and of both averages, half a tenth of a percent of the win rate.
FiguresAreRight ==
  \A rows \in Reads(Ids(ALL, ALL)) :
    LET n == Len(rows)
        rs == RSeries(rows)
    IN  /\ MaxDrawdown(rs) = Max(Falls(rs))
        /\ Honest(rows) /\ Of(rows, "breakeven") = {} =>
             2000 * Abs(n * ExpectedValue(rows) - 10 * Total(rs, 1 .. n))
               <= n * (2000 + AverageWin(rows) + AverageLoss(rows))

\* Who follows the checklist and gets out at the stop sees no report of some days
\* whose drawdown is more than the rules let these days cost, in whatever order
\* the rows came.
ReportsFitTheRules ==
  guide = "checklist" =>
    \A saved \in reports : saved.window # ALL =>
      saved.numbers.drawdown
        <= 100 * (MaxDailyLosses - 1 + MaxOpen) * (saved.window + 1)

Rank(grade) == CASE grade = "A" -> 4 [] grade = "B" -> 3 [] grade = "C" -> 2
                 [] grade = "D" -> 1 [] grade = "F" -> 0

\* A trade closed as a win that is no smaller than the wins before it never lowers
\* the grade of the whole history, whatever the roundings and the order of the rows.
AWinNeverLowersTheGrade ==
  [][\A i \in Ids(ALL, ALL)' \ Ids(ALL, ALL) :
       \A before \in Reads(Ids(ALL, ALL)), after \in Reads(Ids(ALL, ALL))' :
         LET wins == Of(before, "win")
         IN  /\ trades'[i].result = "win" /\ trades'[i].r >= 0
             /\ Computable(before)
             /\ trades'[i].r * Cardinality(wins) >= Total(RSeries(before), wins)
             => Rank(Compute(after).grade) >= Rank(Compute(before).grade)]_reportVars

-----------------------------------------------------------------------------
(* What the code says of itself and does not do.                           *)

\* "Largest historical drawdown in R" (DrawdownMetric): the history is an order in
\* which the trades may have closed.
DrawdownIsHistorical ==
  \A rows \in Reads(Ids(ALL, ALL)) :
    \E history \in Reads(Ids(ALL, ALL)) :
      /\ \A i, j \in 1 .. Len(history) : i < j => history[i].closed <= history[j].closed
      /\ MaxDrawdown(RSeries(rows)) = MaxDrawdown(RSeries(history))

\* average_win_r is Field(ge=0): no set of closed trades makes it negative.
AverageWinIsNotNegative == \A rows \in Reads(Ids(ALL, ALL)) : AverageWin(rows) >= 0

\* "Positive EV means the strategy is mathematically profitable over time": honest
\* trades with a positive expectancy have made money.
PositiveIsProfitable ==
  \A rows \in Reads(Ids(ALL, ALL)) :
    Honest(rows) /\ ExpectedValue(rows) > 0 => Total(RSeries(rows), 1 .. Len(rows)) > 0

\* ExpectedValue is the "Statistical expectancy per trade": of honest trades, the
\* breakevens included, it is their average up to rounding.
ExpectancyIsAverage ==
  \A rows \in Reads(Ids(ALL, ALL)) :
    Honest(rows) =>
      2000 * Abs(Len(rows) * ExpectedValue(rows) - 10 * Total(RSeries(rows), 1 .. Len(rows)))
        <= Len(rows) * (2000 + AverageWin(rows) + AverageLoss(rows))
=============================================================================
