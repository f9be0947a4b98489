---------------------------- MODULE MCTradingDay ----------------------------
(* TradingDay on small sets, for TLC. *)
EXTENDS TradingDay

Plan(direction, entry, stop, target) ==
  [asset |-> "a", direction |-> direction, entry |-> entry, stop |-> stop, target |-> target]

\* A long one that pays 1.5 R, a short one that pays 2.67, one that pays too
\* little, and one with its stop on the wrong side.
SmallPlans ==
  {Plan("LONG", 10, 8, 13), Plan("SHORT", 10, 13, 2), Plan("LONG", 10, 8, 11),
   Plan("SHORT", 10, 8, 13)}

\* A bound: the filter does not look at prices, so who follows it has one plan.
OnePlan ==
  guide = "filter" => \A i \in 1 .. Len(trades) : trades[i].plan = Plan("LONG", 10, 8, 13)

\* The edges of the two windows, a good time, and a late one.
Limits == {539, 540, 554, 601, 840, 899, 1080}
=============================================================================
