---------------------------- MODULE EventDelivery ---------------------------
(***************************************************************************)
(* From a use case to the screen: a request publishes its change on Redis  *)
(* and commits it afterwards (get_db); Redis pub/sub hands it to the one   *)
(* EventBroadcaster if that is listening; the gateway fans it out to the   *)
(* clients subscribed by then; and a subscribe is answered with snapshots  *)
(* read from the database.                                                 *)
(***************************************************************************)
EXTENDS Gateway

CONSTANTS
  MaxRepeats,    \* how often a publish is sent again (bounds the model)
  MaxDrops,      \* how often the Redis subscription is lost (bounds the model)
  MaxMessages    \* a client subscribes only below this many messages (bound)

ASSUME DeliveryAssumption ==
  /\ MaxRepeats \in Nat
  /\ MaxDrops \in Nat
  /\ MaxMessages \in Nat

VARIABLES
  repeats,
  writer,        \* how far the request of each change is
  listening,     \* whether the broadcaster's pubsub is subscribed
  published,     \* every publish, in Redis' order
  drops

vars == <<committed, bus, gatewayVars, writer, listening, published, repeats, drops>>

-----------------------------------------------------------------------------
Init ==
  /\ GatewayInit
  /\ committed = {}
  /\ writer = [e \in Changes |-> "idle"]
  /\ listening = TRUE
  /\ published = <<>>
  /\ repeats = 0
  /\ drops = 0

\* PUBLISH reaches Redis: without a subscriber the event is dropped.
Announce(e) ==
  /\ published' = Append(published, e)
  /\ bus' = IF listening THEN Append(bus, e) ELSE bus

\* A use case's publish, its last call before the commit.
Publish(e) ==
  /\ writer[e] = "idle"
  /\ writer' = [writer EXCEPT ![e] = "published"]
  /\ Announce(e)
  /\ UNCHANGED <<committed, gatewayVars, listening, repeats, drops>>

\* retry_on_timeout: the answer to the publish was late, so it is sent again, and
\* others may have published meanwhile.
Repeat(e) ==
  /\ writer[e] = "published"
  /\ repeats < MaxRepeats
  /\ repeats' = repeats + 1
  /\ Announce(e)
  /\ UNCHANGED <<committed, gatewayVars, writer, listening, drops>>

Commit(e) ==
  /\ writer[e] = "published"
  /\ writer' = [writer EXCEPT ![e] = "done"]
  /\ committed' = committed \cup {e}
  /\ UNCHANGED <<bus, gatewayVars, listening, published, repeats, drops>>

\* The publish raised after all, or the commit failed.
RollBack(e) ==
  /\ writer[e] = "published"
  /\ writer' = [writer EXCEPT ![e] = "failed"]
  /\ UNCHANGED <<committed, bus, gatewayVars, listening, published, repeats, drops>>

\* The subscription's connection breaks, and with it goes what it had not
\* handed over.
Drop ==
  /\ listening
  /\ drops < MaxDrops
  /\ drops' = drops + 1
  /\ listening' = FALSE
  /\ bus' = <<>>
  /\ UNCHANGED <<committed, gatewayVars, writer, published, repeats>>

\* EventBroadcaster.run: after the pause it subscribes anew.
Resubscribe ==
  /\ ~listening
  /\ due \cup draining = {}
  /\ listening' = TRUE
  /\ UNCHANGED <<committed, bus, gatewayVars, writer, published, repeats, drops>>

\* The rest of the application goes on apart from what the gateway does.
Apart == UNCHANGED <<committed, writer, listening, published, repeats, drops>>

\* What the server does for a client once it has been told something.
Serve(c) ==
  /\ \/ Greeted(c)
     \/ \E ch \in Channels : ReadSnapshot(c, ch) \/ SkipSnapshot(c, ch)
     \/ PushSnapshot(c)
     \/ Pushed(c)
     \/ Subscribed(c)
     \/ ReceiveFails(c)
  /\ Apart

FanOut ==
  /\ \/ Route
     \/ \E c \in Clients, e \in Changes : StartSend(c, e) \/ EndSend(c, e)
  /\ Apart

Asks(c) ==
  /\ \/ Connect(c)
     \/ HangUp(c)
     \/ /\ Len(inbox[c]) < MaxMessages
        /\ \E channels \in SUBSET Channels \ {{}} :
             Subscribe(c, channels) \/ Unsubscribe(c, channels)
  /\ Apart

Application ==
  \/ \E e \in Changes :
       \/ Publish(e)
       \/ Repeat(e)
       \/ Commit(e)
       \/ RollBack(e)
  \/ Drop
  \/ Resubscribe

Next ==
  \/ Application
  \/ FanOut
  \/ \E c \in Clients : Asks(c) \/ Serve(c) \/ (PingFails(c) /\ Apart)

Spec == Init /\ [][Next]_vars

\* The event loop runs the broadcaster's task, its fan-outs and the endpoints,
\* and a send either returns or raises.  Clients need not do anything.
FairSpec ==
  /\ Spec
  /\ WF_vars(FanOut)
  /\ \A c \in Clients : WF_vars(Serve(c))

-----------------------------------------------------------------------------
Message == [kind : {"event", "snapshot"}, channel : Channels, knows : SUBSET Changes]

TypeOK ==
  /\ committed \subseteq Changes
  /\ bus \in Seq(Changes)
  /\ connections \subseteq Clients
  /\ subscriptions \in [connections -> SUBSET Channels]
  /\ endpoint \in [Clients -> EndpointSteps]
  /\ todo \in [Clients -> SUBSET Channels]
  /\ held \in [Clients -> Message \cup {NoMessage}]
  /\ socket \in [Clients -> {"none", "open", "closed"}]
  /\ inbox \in [Clients -> Seq(Message)]
  /\ due \subseteq targets
  /\ draining \subseteq targets
  /\ targets \subseteq Clients \X Changes
  /\ writer \in [Changes -> {"idle", "published", "done", "failed"}]
  /\ listening \in BOOLEAN
  /\ published \in Seq(Changes)
  /\ repeats \in 0 .. MaxRepeats
  /\ drops \in 0 .. MaxDrops

\* Never more registered clients than WS_MAX_CONNECTIONS ("Maximum concurrent
\* WS connections"), whatever the order of handshakes, failures and departures.
LimitKept == Cardinality(connections) <= MaxConnections

EventPlaces(c) == {i \in 1 .. Len(inbox[c]) : inbox[c][i].kind = "event"}

\* What a client gets is a subsequence of what was published: nothing twice unless
\* it was sent twice, nothing before its time, however the sends to it and to the
\* others interleave (the broadcaster awaits each fan-out).
EventsInOrder ==
  \A c \in Clients : \E at \in [EventPlaces(c) -> 1 .. Len(published)] :
    \A i \in EventPlaces(c) :
      /\ inbox[c][i] = EventMessage(published[at[i]])
      /\ \A j \in EventPlaces(c) : i < j => at[i] < at[j]

\* When a fan-out is over, the last event its targets have is this one, whoever else
\* of them failed (return_exceptions, and _send deregisters the failing client only).
FanOutReachesAll ==
  due \cup draining = {} =>
    \A c \in connections, e \in Changes : <<c, e>> \in targets /\ socket[c] = "open" =>
      \E i \in EventPlaces(c) :
        /\ inbox[c][i] = EventMessage(e)
        /\ \A j \in EventPlaces(c) : j <= i

\* The place of a client that has gone is given back: its endpoint or a failed
\* send deregisters it.
PlacesReturn == \A c \in Clients : socket[c] = "closed" ~> c \notin connections

\* An event the subscription has received gets to every client subscribed to
\* its channel that stays, unless the Redis connection is lost meanwhile.
EventsArrive ==
  \A c \in Clients : \A e \in Changes :
    LET subscribed == c \in connections /\ ChannelOf[e] \in subscriptions[c]
    IN  (subscribed /\ \E i \in 1 .. Len(bus) : bus[i] = e)
          ~> (~subscribed \/ socket[c] = "closed" \/ ~listening \/
              \E i \in 1 .. Len(inbox[c]) : inbox[c][i] = EventMessage(e))

-----------------------------------------------------------------------------
(* What the code or its documents say and the code does not do.            *)

\* "one slow client doesn't block others" (broadcast_to_channel): an event never
\* waits for a client's slow send while another client could have it.
SlowClientBlocksNobody ==
  bus # <<>> /\ due = {} /\ draining # {} =>
    \A c \in connections :
      ChannelOf[Head(bus)] \in subscriptions[c] => \E e \in Changes : <<c, e>> \in draining

Knows(c) == UNION {inbox[c][i].knows : i \in 1 .. Len(inbox[c])}

Quiet ==
  /\ \A e \in Changes : writer[e] # "published"
  /\ bus = <<>>
  /\ due \cup draining = {}
  /\ \A c \in Clients : endpoint[c] \in {"none", "receiving", "ended"}

\* "Ao reconectar -> novo snapshot + continuacao do stream" (the architecture's
\* Reconnect e Cold Start): once everything is quiet, a subscribed client knows
\* every committed change, from its snapshot or from the stream.
SnapshotPlusStream ==
  Quiet => \A c \in connections : socket[c] = "open" /\ endpoint[c] = "receiving" =>
             \A ch \in subscriptions[c] : committed \cap OfChannel(ch) \subseteq Knows(c)

\* "the client immediately sees current system state" (cold_start.py): the
\* snapshot contains what the client was already told of that channel.
SnapshotIsCurrent ==
  \A c \in Clients : \A i, j \in 1 .. Len(inbox[c]) :
    i < j /\ inbox[c][j].kind = "snapshot" /\ inbox[c][i].channel = inbox[c][j].channel
      => inbox[c][i].knows \subseteq inbox[c][j].knows
=============================================================================
