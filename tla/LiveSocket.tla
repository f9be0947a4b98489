------------------------------ MODULE LiveSocket -----------------------------
(***************************************************************************)
(* The dashboards' end of the live events (frontend/app.js, connectWS).    *)
(*                                                                         *)
(* What lies between a publish and a browser is modelled in EventDelivery; *)
(* here an event reaches every browser whose subscription has been taken,  *)
(* once or, when the publish is sent again, twice, and in order, or it is  *)
(* lost on the way.                                                        *)
(***************************************************************************)
EXTENDS Integers, Sequences

CONSTANTS
  Browsers,
  Audience,     \* the browsers that have each page open
  Copies,       \* how often one publish may reach Redis, by page
  MaxLosses,    \* connections and events lost (bound)
  NONE

Pages == {"chat", "trades", "analysis", "market", "trends", "briefing", "replay"}

ASSUME SocketAssumption ==
  /\ Audience \in [Pages -> SUBSET Browsers]
  /\ Copies \in [Pages -> SUBSET (Nat \ {0})]
  /\ MaxLosses \in Nat

VARIABLES
  page,         \* the page looked at
  link,         \* state of each browser's WebSocket
  inbox,        \* events on their way to each browser
  losses

socketVars == <<page, link, inbox, losses>>

Event(name, of, n) == [event |-> name, of |-> of, n |-> n]

Listening == {b \in Browsers : link[b] = "subscribed"}

SocketInit ==
  /\ link = [b \in Browsers |-> "closed"]
  /\ inbox = [b \in Browsers |-> <<>>]
  /\ losses = 0

(* RedisEventBus.publish, as the browsers see it.                          *)
Deliver(e) ==
  /\ \E copies \in Copies[page] :
       inbox' = [b \in Browsers |->
         IF b \in Listening THEN inbox[b] \o [i \in 1 .. copies |-> e] ELSE inbox[b]]
  /\ UNCHANGED <<page, link, losses>>

(* Redis has no subscriber at the moment, or the publish fails.            *)
Drop ==
  /\ losses < MaxLosses
  /\ losses' = losses + 1
  /\ UNCHANGED <<page, link, inbox>>

Announce(e) == Deliver(e) \/ Drop

(* onopen: the socket is OPEN for the page before the server has the       *)
(* subscription.                                                           *)
Open(b) ==
  /\ link[b] = "closed" /\ b \in Audience[page]
  /\ link' = [link EXCEPT ![b] = "open"]
  /\ UNCHANGED <<page, inbox, losses>>

Subscribe(b) ==
  /\ link[b] = "open"
  /\ link' = [link EXCEPT ![b] = "subscribed"]
  /\ UNCHANGED <<page, inbox, losses>>

(* onclose: what was on its way is gone; connectWS tries again for ever.   *)
Lose(b) ==
  /\ link[b] # "closed"
  /\ losses < MaxLosses
  /\ losses' = losses + 1
  /\ link' = [link EXCEPT ![b] = "closed"]
  /\ inbox' = [inbox EXCEPT ![b] = <<>>]
  /\ UNCHANGED page

(* onmessage takes the next event.                                         *)
Take(b) ==
  /\ inbox[b] # <<>>
  /\ inbox' = [inbox EXCEPT ![b] = Tail(@)]
  /\ UNCHANGED <<page, link, losses>>
=============================================================================
