--------------------------- MODULE TradeLifecycle ---------------------------
(***************************************************************************)
(* What the journal promises to whoever reads trades or listens to the     *)
(* "trading" channel, without requests, sessions, row locks or columns: a  *)
(* trade is opened, then closed, then learned from; it never goes back;    *)
(* and nothing is visible in the database before it was announced.         *)
(***************************************************************************)
CONSTANTS Trades

VARIABLES
  life,       \* "absent", "open" or "closed", for each trade
  announced,  \* the kinds of event published about each trade
  learned     \* the trades some memory record was drawn from

vars == <<life, announced, learned>>

TypeOK ==
  /\ life \in [Trades -> {"absent", "open", "closed"}]
  /\ announced \in [Trades -> SUBSET {"trade.opened", "trade.closed", "trade.reflected"}]
  /\ learned \subseteq Trades

Init ==
  /\ life = [t \in Trades |-> "absent"]
  /\ announced = [t \in Trades |-> {}]
  /\ learned = {}

\* What may be said about a trade, given what is true of it.
MayAnnounce(t, event) ==
  \/ event = "trade.opened" /\ life[t] = "absent"
  \/ event = "trade.closed" /\ life[t] # "absent"
  \/ event = "trade.reflected" /\ life[t] = "closed"

Announce(t, event) ==
  /\ MayAnnounce(t, event)
  /\ announced' = [announced EXCEPT ![t] = @ \cup {event}]
  /\ UNCHANGED <<life, learned>>

Open(t) ==
  /\ life[t] = "absent"
  /\ "trade.opened" \in announced[t]
  /\ life' = [life EXCEPT ![t] = "open"]
  /\ UNCHANGED <<announced, learned>>

Close(t) ==
  /\ life[t] = "open"
  /\ "trade.closed" \in announced[t]
  /\ life' = [life EXCEPT ![t] = "closed"]
  /\ UNCHANGED <<announced, learned>>

Learn(t) ==
  /\ life[t] = "closed"
  /\ "trade.reflected" \in announced[t]
  /\ learned' = learned \cup {t}
  /\ UNCHANGED <<life, announced>>

Next ==
  \E t \in Trades :
    \/ \E event \in {"trade.opened", "trade.closed", "trade.reflected"} :
         Announce(t, event)
    \/ Open(t)
    \/ Close(t)
    \/ Learn(t)

Spec == Init /\ [][Next]_vars
=============================================================================
