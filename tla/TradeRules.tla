----------------------------- MODULE TradeRules -----------------------------
(***************************************************************************)
(* What the code computes about a trade without keeping state: the         *)
(* geometry of its prices, its risk ratio, the R it realises, the          *)
(* checklist of the API and the filter of the dashboard.                   *)
(*                                                                         *)
(* Prices are integers, ratios and R hundredths, as the code rounds them;  *)
(* a time is a minute of the day, in the zone of server and browser alike. *)
(***************************************************************************)
EXTENDS Integers

CONSTANTS
  MinRR,           \* _MIN_RR, in hundredths: 150
  MaxDailyLosses,  \* _MAX_DAILY_LOSSES: 2
  DayLimit         \* trades a day after which the filter says PARAR: 5

\* n / d rounded to the nearest integer, ties to the even one: round().
Round(n, d) ==
  LET q == n \div d
      r == n % d
  IN  CASE 2 * r < d -> q
        [] 2 * r > d -> q + 1
        [] OTHER     -> q + (q % 2)

Abs(n) == IF n < 0 THEN -n ELSE n

-----------------------------------------------------------------------------
(* A plan: direction, entry, stop and target.                              *)

\* Trade.validate_price_geometry
Valid(plan) ==
  IF plan.direction = "LONG" THEN plan.stop < plan.entry /\ plan.entry < plan.target
  ELSE plan.target < plan.entry /\ plan.entry < plan.stop

\* RiskRatio.from_levels
Risk(plan) == Abs(plan.entry - plan.stop)
Reward(plan) == Abs(plan.target - plan.entry)

\* RiskRatio.rr
Ratio(plan) == Round(100 * Reward(plan), Risk(plan))

\* CloseTradeUseCase: r_realized.
Realized(plan, exit) ==
  IF plan.direction = "LONG" THEN Round(100 * (exit - plan.entry), Risk(plan))
  ELSE Round(100 * (plan.entry - exit), Risk(plan))

-----------------------------------------------------------------------------
(* ChecklistValidator.                                                     *)

Hour(minute) == minute \div 60

\* _check_time_window: the opening of B3, and 14h.
GoodTime(minute) ==
  /\ ~(Hour(minute) = 9 /\ minute % 60 < 15)
  /\ Hour(minute) # 14

\* Bug variant: the losses pass the limit before they block.
BlockingOneLate(intent) ==
  \/ intent.emotion \notin {"calmo", "confiante"}
  \/ intent.rr < MinRR
  \/ intent.losses > MaxDailyLosses
  \/ ~intent.setup

\* An intent: emotion, ratio, losses the caller counts, whether a setup is named.
Blocking(intent) ==
  \/ intent.emotion \notin {"calmo", "confiante"}
  \/ intent.rr < MinRR
  \/ intent.losses >= MaxDailyLosses
  \/ ~intent.setup

\* validate
Checklist(intent, minute) ==
  IF Blocking(intent) THEN "NAO_OPERAR"
  ELSE IF GoodTime(minute) THEN "OPERAR" ELSE "ATENCAO"

-----------------------------------------------------------------------------
(* updateFomoCount: n trades and so many losses among them.                *)

MacroTimes == {9 * 60 + 25, 9 * 60 + 30, 11 * 60 + 55, 15 * 60}

Risky(minute) == Hour(minute) < 9 \/ Hour(minute) = 14 \/ Hour(minute) >= 18

NearMacro(minute) == \E t \in MacroTimes : Abs(minute - t) <= 30

Filter(n, losses, minute) ==
  IF n >= DayLimit \/ losses >= 2 THEN "PARAR"
  ELSE IF n >= 3 \/ losses > 0 \/ Risky(minute) \/ NearMacro(minute) THEN "ATENCAO"
  ELSE "OPERAR"
=============================================================================
