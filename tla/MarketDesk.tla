------------------------------ MODULE MarketDesk -----------------------------
(***************************************************************************)
(* Quotes every three seconds, on whatever page, with the bridge's ticks   *)
(* in between; and, as a page of its own, for the two share nothing but    *)
(* the source, the trends of the asset that is selected on the market      *)
(* page.  An answer is shown whenever it comes; a request that fails       *)
(* leaves everything as it was, without a word.                            *)
(***************************************************************************)
EXTENDS MarketFeed, MarketAdapters

CONSTANTS
  Feeds,        \* what Yahoo may answer: tables, or DOWN
  Featured,     \* the symbol of the sidebar, where it has a quote
  Tape,         \* symbol and price of each tick of the bridge
  Lines,        \* requests of the page in flight at a time (bound)
  MaxMoves,     \* changes of Yahoo's answers (bound)
  MaxSilences   \* failed requests (bound)

QUOTES == "quotes"

(* A row of a table: an hour, or a day.                                    *)
Rows == [open : Int, high : Int, low : Int, close : Int]

(* The bridge rounds what it sends to five decimals.  What has a ticker    *)
(* costs 0.05 at least, so that its spread is never rounded to nothing.    *)
ASSUME DeskAssumption ==
  /\ Featured \in Symbols
  /\ NONE \notin Symbols \cup {QUOTES} /\ QUOTES \notin Symbols
  /\ \A n \in Ticks : Tape[n].price \in Nat /\ Tape[n].price % 10 = 0
  /\ \A feed \in Feeds \ {DOWN}, sym \in Symbols \cap OnYahoo :
       LET table == feed[sym]["H1"]
       IN  /\ table \in Seq(Rows)
           /\ \A i \in 1 .. Len(table) : table[i].close >= 50000
  /\ MaxMoves \in Nat /\ MaxSilences \in Nat

VARIABLES
  yahoo,        \* what Yahoo answers at the moment
  moves,
  quotes,       \* state.quotes of each browser
  selected,     \* the asset whose card is selected
  grid,         \* the trends on each screen, and what they were asked for
  line,         \* requests: what for, and what has been read so far
  silences

deskVars == <<yahoo, moves, quotes, selected, grid, line, silences>>

Idle == [want |-> NONE, got |-> <<>>]

SymbolOrder == SetToSeq(Symbols)
TimeframeOrder == SetToSeq(Timeframes)

Reads == Symbols \cup {QUOTES}

(* How much is read for a request, one after the other.                    *)
Total(want) == IF want = QUOTES THEN Len(SymbolOrder) ELSE Len(TimeframeOrder)

InFlight(b, wants) == {r \in Lines : line[b][r].want \in wants}

DeskInit ==
  /\ yahoo = DOWN
  /\ moves = 0
  /\ quotes = [b \in Browsers |-> <<>>]
  /\ selected = [b \in Browsers |-> Featured]
  /\ grid = [b \in Browsers |-> [of |-> NONE, trends |-> <<>>]]
  /\ line = [b \in Browsers |-> [r \in Lines |-> Idle]]
  /\ silences = 0

Move ==
  /\ page \in {"market", "trends"} /\ moves < MaxMoves
  /\ yahoo' \in Feeds \ {yahoo}
  /\ moves' = moves + 1
  /\ UNCHANGED <<quotes, selected, grid, line, silences, feedVars, socketVars>>

Request(b, want) ==
  \E r \in Lines :
    /\ line[b][r] = Idle
    /\ line' = [line EXCEPT ![b][r].want = want]

(* loadQuotes: where posts are prompt, so are answers.                     *)
AskQuotes(b) ==
  /\ page \in {"market", "briefing"} /\ b \in Audience[page]
  /\ prompt => InFlight(b, {QUOTES}) = {}
  /\ Request(b, QUOTES)
  /\ UNCHANGED <<yahoo, moves, quotes, selected, grid, silences, feedVars, socketVars>>

(* selectMktAsset                                                          *)
Select(b, sym) ==
  /\ page = "trends" /\ b \in Audience[page]
  /\ prompt => InFlight(b, Symbols) = {}
  /\ selected' = [selected EXCEPT ![b] = sym]
  /\ Request(b, sym)
  /\ UNCHANGED <<yahoo, moves, quotes, grid, silences, feedVars, socketVars>>

(* get_quotes, get_symbol_timeframes: the adapter is asked once per symbol *)
(* or timeframe, and may answer otherwise each time.                       *)
Read(b, r) ==
  LET l == line[b][r]
      i == Len(l.got) + 1
  IN  /\ l.want \in Reads /\ i <= Total(l.want)
      /\ \E x \in IF l.want = QUOTES THEN Quotes(yahoo, SymbolOrder[i])
                  ELSE Trends(yahoo, l.want, TimeframeOrder[i]) :
           line' = [line EXCEPT ![b][r].got = Append(@, x)]
      /\ UNCHANGED <<yahoo, moves, quotes, selected, grid, silences, feedVars, socketVars>>

(* The quotes replace whatever the bridge has said; the trends are drawn   *)
(* without a look at the asset they are for.                               *)
Arrive(b, r) ==
  LET l == line[b][r]
  IN  /\ l.want \in Reads /\ Len(l.got) = Total(l.want)
      /\ line' = [line EXCEPT ![b][r] = Idle]
      /\ IF l.want = QUOTES
         THEN /\ quotes' = [quotes EXCEPT ![b] = l.got]
              /\ price' = [price EXCEPT ![b] = 0]
              /\ UNCHANGED grid
         ELSE /\ grid' = [grid EXCEPT ![b] = [of |-> l.want, trends |-> l.got]]
              /\ UNCHANGED <<quotes, price>>
      /\ UNCHANGED <<yahoo, moves, selected, silences, prompt, tick, ingest, stored, announced, socketVars>>

FailSilently(b, r) ==
  /\ line[b][r].want \in Reads /\ silences < MaxSilences
  /\ silences' = silences + 1
  /\ line' = [line EXCEPT ![b][r] = Idle]
  /\ UNCHANGED <<yahoo, moves, quotes, selected, grid, feedVars, socketVars>>

(* formatPrice: the last of the decimals that are shown.                   *)
ShownUnit(sym) ==
  CASE sym = "EURUSD"                     -> 10
    [] sym = "USDJPY"                     -> 1000
    [] sym \in {"IBOV", "WINQ", "WINFUT"} -> 1000000
    [] OTHER                              -> 10000

(* fmt, for some numbers: what is the same is shown the same.              *)
Formats(numbers, d) ==
  {f \in [numbers -> UNION {Rounded(n, d) : n \in numbers}] :
     \A n \in numbers : f[n] \in Rounded(n, d)}

(* A tick: the price as formatPrice shows it, bid and ask one basis point  *)
(* off the price itself, with five decimals, whatever the bridge has said  *)
(* of them; and ten thousand times the spread, with one.                   *)
TickBox(last) ==
  LET p == last.price
      unit == ShownUnit(last.symbol)
  IN  {[price |-> unit * shown, bid |-> p - 10 * below, ask |-> p + 10 * above,
        spread |-> 10 * spread, slack |-> unit \div 2, unit |-> 10] :
         shown \in Rounded(p, unit), below \in Rounded(p, 100000),
         above \in Rounded(p, 100000), spread \in Rounded(2 * p, 100000)}

(* A quote: all three as formatPrice shows them, the spread as it is, with *)
(* four decimals.                                                          *)
QuoteBox(q, sym) ==
  LET unit == ShownUnit(sym)
  IN  {[price |-> unit * f[q.price], bid |-> unit * f[q.bid], ask |-> unit * f[q.ask],
        spread |-> 100 * spread, slack |-> 0, unit |-> q.unit + unit + 50] :
         f \in Formats({q.price, q.bid, q.ask}, unit), spread \in Rounded(q.spread, 100)}

(* What the sidebar may show: the last tick, of any symbol, or the featured*)
(* quote.  The slack is how far rounding may have moved the price against  *)
(* bid and ask, the unit how far it may have moved the spread.             *)
Boxed(b) ==
  IF price[b] # 0 THEN TickBox(Tape[price[b]])
  ELSE IF quotes[b] = <<>> THEN {}
  ELSE UNION {QuoteBox(quotes[b][i], Featured) :
                i \in {j \in 1 .. Len(SymbolOrder) : SymbolOrder[j] = Featured}}

DeskNext ==
  \/ Move
  \/ \E b \in Browsers :
       \/ AskQuotes(b)
       \/ \E sym \in Symbols : Select(b, sym)
       \/ \E r \in Lines : Read(b, r) \/ Arrive(b, r) \/ FailSilently(b, r)
=============================================================================
