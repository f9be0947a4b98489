------------------------------- MODULE Gateway ------------------------------
(***************************************************************************)
(* The WebSocket side: WebSocketGateway (its two dictionaries), one         *)
(* websocket_endpoint coroutine with its heartbeat task per client, and the *)
(* EventBroadcaster, which takes the events of the Redis subscription one   *)
(* by one and waits for each fan-out to end.                                *)
(*                                                                         *)
(* An event is a change of some channel's state; a snapshot is the set of  *)
(* changes its reader found committed.  Who commits and publishes, and     *)
(* when, is left to the module that extends this one.                      *)
(***************************************************************************)
EXTENDS Naturals, FiniteSets, Sequences

CONSTANTS
  Clients,         \* client ids: one per connection, a reconnect has a new one
  Channels,        \* channels with a snapshot (_fetch)
  Changes,         \* the changes the application ever announces
  ChannelOf,       \* the channel a change is announced on
  MaxConnections,  \* WS_MAX_CONNECTIONS
  SnapshotsFail    \* whether the snapshot provider may fail

ASSUME GatewayAssumption ==
  /\ Changes \subseteq Nat
  /\ ChannelOf \in [Changes -> Channels]
  /\ MaxConnections \in Nat \ {0}
  /\ SnapshotsFail \in BOOLEAN

VARIABLES
  committed,       \* the changes a database session can read
  bus,             \* events the Redis subscription has not handed over yet
  subscriptions,   \* client -> its channels; its domain is that of _connections
  endpoint,        \* how far each client's coroutine is
  todo,            \* channels whose snapshot a subscribe still has to fetch
  held,            \* the snapshot a subscribe has read and not yet sent
  socket,          \* whether the client is still there
  inbox,           \* what each client that is still there got, in order
  targets,         \* the latest fan-out: pairs <<client, event>>
  due,             \* those whose _send has not started yet
  draining         \* those whose _send has not returned yet

gatewayVars == <<subscriptions, endpoint, todo, held, socket, inbox, targets, due, draining>>

-----------------------------------------------------------------------------
connections == DOMAIN subscriptions

EndpointSteps == {"none", "greeting", "receiving", "fetching", "pushing", "ended"}

EventMessage(e) == [kind |-> "event", channel |-> ChannelOf[e], knows |-> {e}]

SnapshotMessage(ch, known) == [kind |-> "snapshot", channel |-> ch, knows |-> known]

NoMessage == [kind |-> "none", knows |-> {}]

OfChannel(ch) == {e \in Changes : ChannelOf[e] = ch}

\* A message the client's socket takes, if the client is still there.
Deliver(c, message) ==
  inbox' = IF socket[c] = "open" THEN [inbox EXCEPT ![c] = Append(@, message)] ELSE inbox

\* The client is gone, and what it got no longer matters to anybody.
GoAway(c) ==
  /\ socket' = [socket EXCEPT ![c] = "closed"]
  /\ inbox' = [inbox EXCEPT ![c] = <<>>]

Without(c) == [d \in connections \ {c} |-> subscriptions[d]]

\* The end of a _send: it raises only when the client has gone, and then the
\* client is deregistered.
SendEnds(c) ==
  \/ UNCHANGED subscriptions
  \/ /\ socket[c] = "closed"
     /\ subscriptions' = Without(c)

-----------------------------------------------------------------------------
GatewayInit ==
  /\ bus = <<>>
  /\ subscriptions = [c \in {} |-> {}]
  /\ endpoint = [c \in Clients |-> "none"]
  /\ todo = [c \in Clients |-> {}]
  /\ held = [c \in Clients |-> NoMessage]
  /\ socket = [c \in Clients |-> "none"]
  /\ inbox = [c \in Clients |-> <<>>]
  /\ targets = {}
  /\ due = {}
  /\ draining = {}

(* The endpoint of one client.                                             *)

\* Bug variant: the limit itself is let in.
ConnectOneMore(c) ==
  /\ endpoint[c] = "none"
  /\ IF Cardinality(connections) > MaxConnections
     THEN /\ endpoint' = [endpoint EXCEPT ![c] = "ended"]
          /\ socket' = [socket EXCEPT ![c] = "closed"]
          /\ UNCHANGED subscriptions
     ELSE /\ endpoint' = [endpoint EXCEPT ![c] = "greeting"]
          /\ socket' = [socket EXCEPT ![c] = "open"]
          /\ subscriptions' = [d \in connections \cup {c} |->
                                 IF d = c THEN {} ELSE subscriptions[d]]
  /\ UNCHANGED <<bus, todo, held, inbox, targets, due, draining>>

\* connect: at the limit the handshake is refused.  accept hands the handshake
\* to the server without suspending, so nothing comes between the check and
\* the registration; the greeting is the first suspension.
Connect(c) ==
  /\ endpoint[c] = "none"
  /\ IF Cardinality(connections) >= MaxConnections
     THEN /\ endpoint' = [endpoint EXCEPT ![c] = "ended"]
          /\ socket' = [socket EXCEPT ![c] = "closed"]
          /\ UNCHANGED subscriptions
     ELSE /\ endpoint' = [endpoint EXCEPT ![c] = "greeting"]
          /\ socket' = [socket EXCEPT ![c] = "open"]
          /\ subscriptions' = [d \in connections \cup {c} |->
                                 IF d = c THEN {} ELSE subscriptions[d]]
  /\ UNCHANGED <<bus, todo, held, inbox, targets, due, draining>>

\* The greeting was sent or the client deregistered: connect returns True in
\* both cases and the receive loop starts.
Greeted(c) ==
  /\ endpoint[c] = "greeting"
  /\ SendEnds(c)
  /\ endpoint' = [endpoint EXCEPT ![c] = "receiving"]
  /\ UNCHANGED <<bus, todo, held, socket, inbox, targets, due, draining>>

\* Bug variant: the client is deregistered by failed sends only.
LeaveRegistered(c) ==
  /\ endpoint' = [endpoint EXCEPT ![c] = "ended"]
  /\ GoAway(c)
  /\ UNCHANGED <<bus, subscriptions, todo, held, targets, due, draining>>

\* The endpoint's finally clause: heartbeat cancelled, client deregistered; the
\* server closes the socket of an endpoint that has returned.
Leave(c) ==
  /\ endpoint' = [endpoint EXCEPT ![c] = "ended"]
  /\ GoAway(c)
  /\ subscriptions' = Without(c)
  /\ UNCHANGED <<bus, todo, held, targets, due, draining>>

\* handle_message, "subscribe": the channels count from now on, and the new ones
\* are fetched one after the other.  A client that a failed send has
\* deregistered meanwhile has no entry: KeyError, the endpoint ends.
Subscribe(c, channels) ==
  /\ endpoint[c] = "receiving"
  /\ socket[c] = "open"
  /\ IF c \notin connections
     THEN Leave(c)
     ELSE LET new == channels \ subscriptions[c]
          IN  /\ subscriptions' = [subscriptions EXCEPT ![c] = @ \cup channels]
              /\ todo' = [todo EXCEPT ![c] = new]
              /\ endpoint' = [endpoint EXCEPT ![c] = IF new = {} THEN @ ELSE "fetching"]
              /\ UNCHANGED <<bus, held, socket, inbox, targets, due, draining>>

\* handle_message, "unsubscribe": set.discard takes one argument, so a list of
\* several channels raises TypeError and the endpoint ends.
Unsubscribe(c, channels) ==
  /\ endpoint[c] = "receiving"
  /\ socket[c] = "open"
  /\ channels # {}
  /\ IF c \notin connections \/ Cardinality(channels) > 1
     THEN Leave(c)
     ELSE /\ subscriptions' = [subscriptions EXCEPT ![c] = @ \ channels]
          /\ UNCHANGED <<bus, endpoint, todo, held, socket, inbox, targets, due, draining>>

\* The snapshot provider's SELECT: what is committed now.
ReadSnapshot(c, ch) ==
  /\ endpoint[c] = "fetching"
  /\ ch \in todo[c]
  /\ held[c] = NoMessage
  /\ held' = [held EXCEPT ![c] = SnapshotMessage(ch, committed \cap OfChannel(ch))]
  /\ todo' = [todo EXCEPT ![c] = @ \ {ch}]
  /\ UNCHANGED <<bus, subscriptions, endpoint, socket, inbox, targets, due, draining>>

\* The provider failed (it returns None): the channel goes without a snapshot.
SkipSnapshot(c, ch) ==
  /\ SnapshotsFail
  /\ endpoint[c] = "fetching"
  /\ ch \in todo[c]
  /\ held[c] = NoMessage
  /\ todo' = [todo EXCEPT ![c] = @ \ {ch}]
  /\ UNCHANGED <<bus, subscriptions, endpoint, held, socket, inbox, targets, due, draining>>

\* The provider returned: the snapshot goes out, if the client is registered.
PushSnapshot(c) ==
  /\ endpoint[c] = "fetching"
  /\ held[c] # NoMessage
  /\ IF c \in connections
     THEN /\ Deliver(c, held[c])
          /\ endpoint' = [endpoint EXCEPT ![c] = "pushing"]
     ELSE UNCHANGED <<inbox, endpoint>>
  /\ held' = [held EXCEPT ![c] = NoMessage]
  /\ UNCHANGED <<bus, subscriptions, todo, socket, targets, due, draining>>

Pushed(c) ==
  /\ endpoint[c] = "pushing"
  /\ SendEnds(c)
  /\ endpoint' = [endpoint EXCEPT ![c] = "fetching"]
  /\ UNCHANGED <<bus, todo, held, socket, inbox, targets, due, draining>>

\* Every new channel is done: back to receive_json.
Subscribed(c) ==
  /\ endpoint[c] = "fetching"
  /\ todo[c] = {} /\ held[c] = NoMessage
  /\ endpoint' = [endpoint EXCEPT ![c] = "receiving"]
  /\ UNCHANGED <<bus, subscriptions, todo, held, socket, inbox, targets, due, draining>>

\* The client goes away, at any time.
HangUp(c) ==
  /\ socket[c] = "open"
  /\ GoAway(c)
  /\ UNCHANGED <<bus, subscriptions, endpoint, todo, held, targets, due, draining>>

\* receive_json raises: WebSocketDisconnect.
ReceiveFails(c) ==
  /\ endpoint[c] = "receiving"
  /\ socket[c] = "closed"
  /\ Leave(c)

\* The heartbeat's ping to a client that has gone.
PingFails(c) ==
  /\ endpoint[c] \in {"receiving", "fetching", "pushing"}
  /\ c \in connections
  /\ socket[c] = "closed"
  /\ subscriptions' = Without(c)
  /\ UNCHANGED <<bus, endpoint, todo, held, socket, inbox, targets, due, draining>>

(* The broadcaster.                                                        *)

\* Bug variant: the fan-out is started as a task and not waited for.
RouteUnawaited ==
  /\ bus # <<>>
  /\ targets' = {<<c, Head(bus)>> : c \in
                   {d \in connections : ChannelOf[Head(bus)] \in subscriptions[d]}}
  /\ due' = due \cup targets'
  /\ bus' = Tail(bus)
  /\ UNCHANGED <<subscriptions, endpoint, todo, held, socket, inbox, draining>>

\* EventBroadcaster._route and broadcast_to_channel up to the gather: the next
\* event is taken only when every _send of the one before has returned.
Route ==
  /\ bus # <<>>
  /\ due \cup draining = {}
  /\ targets' = {<<c, Head(bus)>> : c \in
                   {d \in connections : ChannelOf[Head(bus)] \in subscriptions[d]}}
  /\ due' = targets'
  /\ bus' = Tail(bus)
  /\ UNCHANGED <<subscriptions, endpoint, todo, held, socket, inbox, draining>>

\* One task of the gather starts: the client may have been deregistered since.
StartSend(c, e) ==
  /\ <<c, e>> \in due
  /\ due' = due \ {<<c, e>>}
  /\ IF c \in connections
     THEN /\ Deliver(c, EventMessage(e))
          /\ draining' = draining \cup {<<c, e>>}
     ELSE UNCHANGED <<inbox, draining>>
  /\ UNCHANGED <<bus, subscriptions, endpoint, todo, held, socket, targets>>

\* Bug variant: one failed send ends the fan-out.
EndSendAborting(c, e) ==
  /\ <<c, e>> \in draining
  /\ draining' = draining \ {<<c, e>>}
  /\ SendEnds(c)
  /\ due' = IF socket[c] = "closed" THEN {} ELSE due
  /\ UNCHANGED <<bus, endpoint, todo, held, socket, inbox, targets>>

EndSend(c, e) ==
  /\ <<c, e>> \in draining
  /\ draining' = draining \ {<<c, e>>}
  /\ SendEnds(c)
  /\ UNCHANGED <<bus, endpoint, todo, held, socket, inbox, targets, due>>
=============================================================================
