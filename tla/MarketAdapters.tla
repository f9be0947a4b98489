--------------------------- MODULE MarketAdapters ---------------------------
(***************************************************************************)
(* Quotes and trends as the adapters of infrastructure/market and the      *)
(* market router make them.                                                *)
(*                                                                         *)
(* A price is an integer of millionths.  Yahoo gives a table of rows for   *)
(* each symbol it knows and each interval, or nothing at all; the mock     *)
(* walks at random from a fixed price.  The bridge's adapter for MT5       *)
(* is wired to no route.                                                   *)
(***************************************************************************)
EXTENDS Integers, Sequences, SequencesExt

CONSTANTS
  Symbols,      \* _QUOTE_SYMBOLS
  OnYahoo,      \* those _YAHOO_MAP has a ticker for
  Timeframes,   \* _TIMEFRAMES_MTF
  Base,         \* _BASE_PRICES
  Drifts,       \* steps of the mock's walk, in thousandths (bound)
  DOWN          \* Yahoo does not answer

ASSUME AdaptersAssumption ==
  /\ IsFiniteSet(Symbols) /\ IsFiniteSet(Timeframes)
  /\ Base \in [Symbols -> Nat]
  /\ Drifts \subseteq Int

Distance(n, m) == IF n < m THEN m - n ELSE n - m

(* round(n / d): on a tie either neighbour, for the floats are only near   *)
(* the decimal numbers that are written.                                   *)
Rounded(n, d) == {q \in {n \div d, n \div d + 1} : 2 * Distance(n, q * d) <= d}

-----------------------------------------------------------------------------
(* Bars.                                                                   *)

(* OHLCVBar refuses what cannot be a candle, and _df_to_bars goes on with  *)
(* the next row.                                                           *)
Consistent(row) ==
  /\ row.low > 0
  /\ row.high >= row.open /\ row.high >= row.close
  /\ row.low <= row.open /\ row.low <= row.close

Bars(table) == SelectSeq(table, Consistent)

(* bars[-1], if there is one.                                              *)
LastBar(table) ==
  {table[i] : i \in {j \in 1 .. Len(table) :
                       /\ Consistent(table[j])
                       /\ \A k \in j + 1 .. Len(table) : ~Consistent(table[k])}}

(* The mock's close: open and close have two decimals, whatever the symbol. *)
MockCloses(sym) ==
  UNION {{10000 * close : close \in Rounded(open * (1000 + drift), 1000)} :
           open \in Rounded(Base[sym], 10000), drift \in Drifts}

(* The hour's rows serve four hours as well.                               *)
Interval(tf) == IF tf = "H4" THEN "H1" ELSE tf

-----------------------------------------------------------------------------
(* Quotes.                                                                 *)

(* The price, and half the spread on either side of it, to the decimals    *)
(* that are kept: unit is ten for Yahoo's five, ten thousand for the       *)
(* mock's two.                                                             *)
Around(price, spread, unit) ==
  {[price |-> last * unit, bid |-> bid * unit, ask |-> ask * unit,
    spread |-> spread, unit |-> unit] :
     last \in Rounded(price, unit),
     bid \in Rounded(2 * price - spread, 2 * unit),
     ask \in Rounded(2 * price + spread, 2 * unit)}

YahooQuotes(bar) ==
  UNION {Around(bar.close, 10 * s, 10) : s \in Rounded(bar.close, 50000)}

(* Its spread is two basis points of the price the walk starts from.      *)
MockQuotes(sym) ==
  UNION {Around(close, 100 * s, 10000) :
           s \in Rounded(Base[sym], 500000), close \in MockCloses(sym)}

Usable(yahoo, sym) == sym \in OnYahoo /\ yahoo # DOWN

(* get_snapshot for the hour, as get_quotes asks for it: the mock stands   *)
(* in also for a symbol without any usable row.                            *)
Quotes(yahoo, sym) ==
  LET last == IF Usable(yahoo, sym) THEN LastBar(yahoo[sym]["H1"]) ELSE {}
  IN  IF last # {} THEN UNION {YahooQuotes(bar) : bar \in last} ELSE MockQuotes(sym)

-----------------------------------------------------------------------------
(* Trends.                                                                 *)

(* Three thousandths either way.                                           *)
Trend(first, last) ==
  IF last - first > (3 * first) \div 1000 THEN "BULL"
  ELSE IF first - last > (3 * first) \div 1000 THEN "BEAR" ELSE "LATE"

(* Four of the mock's steps lie between the first and the last of five bars. *)
MockTrends ==
  {Trend(1000, 1000 + a + b + c + d) : a \in Drifts, b \in Drifts, c \in Drifts, d \in Drifts}

(* get_symbol_timeframes: the last five bars of get_historical.  An empty  *)
(* table stays empty, and counts as no trend.                              *)
Trends(yahoo, sym, tf) ==
  IF ~Usable(yahoo, sym) THEN MockTrends
  ELSE LET bars == Bars(yahoo[sym][Interval(tf)])
           five == SubSeq(bars, IF Len(bars) > 5 THEN Len(bars) - 4 ELSE 1, Len(bars))
       IN  IF Len(five) < 2 THEN {"LATE"} ELSE {Trend(Head(five).close, Last(five).close)}
=============================================================================
