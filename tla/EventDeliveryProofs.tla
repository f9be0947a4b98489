------------------------ MODULE EventDeliveryProofs -------------------------
(***************************************************************************)
(* Safety of the delivery of events, for any number of clients, channels,  *)
(* changes, repeated publishes and lost subscriptions.                     *)
(***************************************************************************)
EXTENDS EventDelivery, Integers, FiniteSetTheorems, SequenceTheorems, TLAPS

-----------------------------------------------------------------------------
(* The inductive invariant.                                                *)

Limited == IsFiniteSet(connections) /\ LimitKept

\* Who has not come yet is neither registered nor addressed.
Strangers ==
  \A c \in Clients : endpoint[c] = "none" =>
    c \notin connections /\ \A e \in Changes : <<c, e>> \notin targets

HeldAreSnapshots == \A c \in Clients : held[c] # NoMessage => held[c].kind = "snapshot"

\* The events a client has come from the first n publishes, in their order.
Received(c, n) ==
  \E at \in [EventPlaces(c) -> 1 .. n] :
    \A i \in EventPlaces(c) :
      /\ inbox[c][i] = EventMessage(published[at[i]])
      /\ \A j \in EventPlaces(c) : i < j => at[i] < at[j]

\* Those the subscription has not handed over come after them, in their order.
Waiting(n) ==
  \E at \in [1 .. Len(bus) -> 1 .. Len(published)] :
    \A i \in 1 .. Len(bus) :
      /\ bus[i] = published[at[i]] /\ n < at[i]
      /\ \A j \in 1 .. Len(bus) : i < j => at[i] < at[j]

\* The latest fan-out is that of one publish.
Addressed(n) ==
  \A c \in Clients, e \in Changes : <<c, e>> \in targets => n # 0 /\ published[n] = e

\* The place of the latest fan-out among the publishes divides what was sent from
\* what is to be sent.
Divides(n) ==
  /\ Addressed(n)
  /\ Waiting(n)
  /\ \A c \in Clients :
       /\ Received(c, n)
       /\ \A e \in Changes : <<c, e>> \in due => Received(c, n - 1)

Divided == \E n \in 0 .. Len(published) : Divides(n)

LastIs(c, e) ==
  \E i \in EventPlaces(c) :
    /\ inbox[c][i] = EventMessage(e)
    /\ \A j \in EventPlaces(c) : j <= i

\* What a target that is still there has not got it will get.
Reached ==
  \A c \in connections, e \in Changes :
    <<c, e>> \in targets /\ socket[c] = "open" => <<c, e>> \in due \/ LastIs(c, e)

IInv == TypeOK /\ Limited /\ Strangers /\ HeldAreSnapshots /\ Divided /\ Reached

-----------------------------------------------------------------------------
(* Messages.                                                               *)

LEMMA Messages ==
  /\ \A e \in Changes : EventMessage(e) \in Message /\ EventMessage(e).kind = "event"
  /\ \A ch \in Channels, known \in SUBSET Changes :
       /\ SnapshotMessage(ch, known) \in Message
       /\ SnapshotMessage(ch, known).kind = "snapshot"
  /\ NoMessage \notin Message
  <1>1. \A e \in Changes : ChannelOf[e] \in Channels
    BY GatewayAssumption
  <1>2. \A m \in Message : m.kind # "none"
    BY DEF Message
  <1>3. NoMessage.kind = "none"
    BY DEF NoMessage
  <1> QED BY <1>1, <1>2, <1>3 DEF Message, EventMessage, SnapshotMessage

LEMMA InboxAre ==
  ASSUME TypeOK, NEW c \in Clients
  PROVE  /\ inbox[c] \in Seq(Message) /\ Len(inbox[c]) \in Nat
         /\ EventPlaces(c) \subseteq 1 .. Len(inbox[c])
         /\ EventPlaces(c) \subseteq Nat
         /\ published \in Seq(Changes) /\ Len(published) \in Nat
         /\ bus \in Seq(Changes) /\ Len(bus) \in Nat
  BY LenProperties DEF TypeOK, EventPlaces

\* The events in an inbox after a message.
LEMMA AfterMessage ==
  ASSUME TypeOK, NEW c \in Clients, NEW m \in Message, inbox'[c] = Append(inbox[c], m)
  PROVE  /\ \A i \in EventPlaces(c) : inbox'[c][i] = inbox[c][i]
         /\ m.kind # "event" => EventPlaces(c)' = EventPlaces(c)
         /\ m.kind = "event" =>
              /\ EventPlaces(c)' = EventPlaces(c) \cup {Len(inbox[c]) + 1}
              /\ inbox'[c][Len(inbox[c]) + 1] = m
              /\ \A i \in EventPlaces(c) : i < Len(inbox[c]) + 1
  <1> DEFINE k == Len(inbox[c]) + 1
  <1>1. inbox[c] \in Seq(Message) /\ Len(inbox[c]) \in Nat
    BY InboxAre
  <1>2. /\ Len(inbox'[c]) = k /\ inbox'[c][k] = m
        /\ \A i \in 1 .. Len(inbox[c]) : inbox'[c][i] = inbox[c][i]
    BY <1>1, AppendProperties
  <1>3. 1 .. k = 1 .. Len(inbox[c]) \cup {k} /\ \A i \in 1 .. Len(inbox[c]) : i < k
    BY <1>1
  <1> HIDE DEF k
  <1>4. EventPlaces(c)' = {i \in 1 .. k : inbox'[c][i].kind = "event"}
    BY <1>2 DEF EventPlaces
  <1> QED BY <1>2, <1>3, <1>4 DEF EventPlaces, k

-----------------------------------------------------------------------------
(* The registered clients.                                                 *)

\* Nobody registers.
Fewer ==
  /\ connections' \subseteq connections
  /\ subscriptions' \in [connections' -> SUBSET Channels]

LEMMA WithoutFewer ==
  ASSUME TypeOK, NEW c \in Clients, subscriptions' = Without(c)
  PROVE  Fewer /\ connections' = connections \ {c}
  BY DEF TypeOK, Without, connections, Fewer

LEMMA SendEndsFewer ==
  ASSUME TypeOK, NEW c \in Clients, SendEnds(c)
  PROVE  Fewer
  <1>1. CASE UNCHANGED subscriptions
    BY <1>1 DEF TypeOK, connections, Fewer
  <1>2. CASE subscriptions' = Without(c)
    BY <1>2, WithoutFewer
  <1> QED BY <1>1, <1>2 DEF SendEnds

LEMMA FewerLimited ==
  ASSUME Limited, Fewer
  PROVE  Limited'
  <1>1. connections' \in SUBSET connections
    BY DEF Fewer
  <1>2. /\ IsFiniteSet(connections') /\ Cardinality(connections') <= Cardinality(connections)
        /\ Cardinality(connections) \in Nat /\ Cardinality(connections') \in Nat
    BY <1>1, FS_Subset, FS_CardinalityType DEF Limited
  <1> QED BY <1>2, GatewayAssumption DEF Limited, LimitKept

-----------------------------------------------------------------------------
(* Steps that send no event.                                               *)

\* What a client gets in such a step.
Untold(c) ==
  \/ inbox'[c] = inbox[c]
  \/ inbox'[c] = <<>> /\ socket'[c] = "closed"
  \/ \E m \in Message : m.kind = "snapshot" /\ inbox'[c] = Append(inbox[c], m)

Calm ==
  /\ UNCHANGED <<published, targets, due>>
  /\ bus' \in {bus, <<>>}
  /\ \A c \in Clients :
       /\ Untold(c)
       /\ socket'[c] = "open" => socket[c] = "open" \/ endpoint[c] = "none"
       /\ c \in connections' => c \in connections \/ endpoint[c] = "none"
       /\ endpoint'[c] = "none" => endpoint[c] = "none" /\ c \notin connections'

LEMMA UntoldKeeps ==
  ASSUME TypeOK, NEW c \in Clients, Untold(c), UNCHANGED published
  PROVE  /\ \A n \in Int : Received(c, n) => Received(c, n)'
         /\ \A e \in Changes : LastIs(c, e) /\ socket'[c] = "open" => LastIs(c, e)'
  <1>1. CASE inbox'[c] = inbox[c]
    <2>1. EventPlaces(c)' = EventPlaces(c)
      BY <1>1 DEF EventPlaces
    <2> QED BY <1>1, <2>1 DEF Received, LastIs
  <1>2. CASE inbox'[c] = <<>> /\ socket'[c] = "closed"
    <2>1. EventPlaces(c)' = {}
      BY <1>2 DEF EventPlaces
    <2>2. ASSUME NEW n \in Int
          PROVE  Received(c, n)'
      <3>1. [i \in {} |-> 0] \in [EventPlaces(c)' -> 1 .. n]
        BY <2>1
      <3> QED BY <2>1, <3>1 DEF Received
    <2> QED BY <1>2, <2>2
  <1>3. CASE \E m \in Message : m.kind = "snapshot" /\ inbox'[c] = Append(inbox[c], m)
    <2>1. /\ EventPlaces(c)' = EventPlaces(c)
          /\ \A i \in EventPlaces(c) : inbox'[c][i] = inbox[c][i]
      BY <1>3, AfterMessage
    <2> QED BY <2>1 DEF Received, LastIs
  <1> QED BY <1>1, <1>2, <1>3 DEF Untold

LEMMA CalmKeeps ==
  ASSUME IInv, Calm, TypeOK', Limited', HeldAreSnapshots'
  PROVE  IInv'
  <1>1. \A c \in Clients : Untold(c) /\ UNCHANGED published
    BY DEF Calm
  <1>2. Strangers'
    BY DEF IInv, Calm, Strangers
  <1>3. Divided'
    <2>1. PICK n \in 0 .. Len(published) : Divides(n)
      BY DEF IInv, Divided
    <2>2. n \in Int /\ n - 1 \in Int /\ n \in 0 .. Len(published')
      BY DEF Calm
    <2>3. Addressed(n)'
      BY <2>1 DEF Calm, Divides, Addressed
    <2>4. Waiting(n)'
      <3>1. CASE bus' = bus
        BY <2>1, <3>1 DEF Calm, Divides, Waiting
      <3>2. CASE bus' = <<>>
        <4>1. 1 .. Len(bus') = {}
          BY <3>2
        <4>2. [i \in {} |-> 0] \in [1 .. Len(bus') -> 1 .. Len(published')]
          BY <4>1
        <4> QED BY <4>1, <4>2 DEF Waiting
      <3> QED BY <3>1, <3>2 DEF Calm
    <2>5. \A c \in Clients :
            /\ Received(c, n)'
            /\ \A e \in Changes : <<c, e>> \in due' => Received(c, n - 1)'
      BY <1>1, <2>1, <2>2, UntoldKeeps DEF IInv, Calm, Divides
    <2>6. Divides(n)'
      BY <2>3, <2>4, <2>5 DEF Divides
    <2> QED BY <2>2, <2>6 DEF Divided
  <1>4. Reached'
    <2> SUFFICES ASSUME NEW c \in connections', NEW e \in Changes,
                        <<c, e>> \in targets', socket'[c] = "open"
                 PROVE  <<c, e>> \in due' \/ LastIs(c, e)'
      BY DEF Reached
    <2>1. c \in Clients /\ <<c, e>> \in targets
      BY DEF IInv, TypeOK, Calm
    <2>2. endpoint[c] # "none"
      BY <2>1 DEF IInv, Strangers
    <2>3. c \in connections /\ socket[c] = "open"
      BY <2>1, <2>2 DEF Calm
    <2> QED BY <1>1, <2>1, <2>3, UntoldKeeps DEF IInv, Reached, Calm
  <1> QED BY <1>2, <1>3, <1>4 DEF IInv

-----------------------------------------------------------------------------
(* Each action keeps the invariant.                                        *)

LEMMA InitIInv ==
  ASSUME Init
  PROVE  IInv
  <1>1. connections = {} /\ Cardinality({}) = 0 /\ IsFiniteSet({})
    BY FS_EmptySet DEF Init, GatewayInit, connections
  <1>2. TypeOK
    <2>1. /\ <<>> \in Seq(Message) /\ bus \in Seq(Changes) /\ published \in Seq(Changes)
          /\ inbox \in [Clients -> Seq(Message)]
      BY EmptySeq DEF Init, GatewayInit
    <2>2. connections \subseteq Clients /\ subscriptions \in [connections -> SUBSET Channels]
      BY DEF Init, GatewayInit, connections
    <2>3. /\ endpoint \in [Clients -> EndpointSteps] /\ todo \in [Clients -> SUBSET Channels]
          /\ held \in [Clients -> Message \cup {NoMessage}]
          /\ socket \in [Clients -> {"none", "open", "closed"}]
      BY DEF Init, GatewayInit, EndpointSteps
    <2>4. /\ committed \subseteq Changes /\ due \subseteq targets /\ draining \subseteq targets
          /\ targets \subseteq Clients \X Changes
          /\ writer \in [Changes -> {"idle", "published", "done", "failed"}]
          /\ listening \in BOOLEAN
      BY DEF Init, GatewayInit
    <2>5. repeats \in 0 .. MaxRepeats /\ drops \in 0 .. MaxDrops
      BY DeliveryAssumption DEF Init
    <2> QED BY <2>1, <2>2, <2>3, <2>4, <2>5 DEF TypeOK
  <1>3. Limited
    BY <1>1, GatewayAssumption DEF Limited, LimitKept
  <1>4. Strangers /\ HeldAreSnapshots /\ Reached
    BY <1>1 DEF Init, GatewayInit, Strangers, HeldAreSnapshots, Reached
  <1>5. Divides(0)
    <2>1. \A c \in Clients : EventPlaces(c) = {}
      BY DEF Init, GatewayInit, EventPlaces
    <2>2. ASSUME NEW c \in Clients
          PROVE  Received(c, 0)
      <3>1. [i \in {} |-> 0] \in [EventPlaces(c) -> 1 .. 0]
        BY <2>1
      <3> QED BY <2>1, <3>1 DEF Received
    <2>3. Waiting(0)
      <3>1. 1 .. Len(bus) = {}
        BY DEF Init, GatewayInit
      <3>2. [i \in {} |-> 0] \in [1 .. Len(bus) -> 1 .. Len(published)]
        BY <3>1
      <3> QED BY <3>1, <3>2 DEF Waiting
    <2>4. Addressed(0) /\ due = {}
      BY DEF Init, GatewayInit, Addressed
    <2> QED BY <2>2, <2>3, <2>4 DEF Divides
  <1>6. Divided
    <2>1. 0 \in 0 .. Len(published)
      BY DEF Init
    <2> QED BY <1>5, <2>1 DEF Divided
  <1> QED BY <1>2, <1>3, <1>4, <1>6 DEF IInv

\* A change is published, for the first time or again.
LEMMA AnnounceIInv ==
  ASSUME IInv, NEW e \in Changes, Announce(e), UNCHANGED gatewayVars, TypeOK'
  PROVE  IInv'
  <1> DEFINE p == Len(published) + 1
  <1>1. /\ published' \in Seq(Changes) /\ Len(published) \in Nat /\ Len(published') = p
        /\ published'[p] = e /\ \A i \in 1 .. Len(published) : published'[i] = published[i]
    BY LenProperties, AppendProperties DEF IInv, TypeOK, Announce
  <1>2. /\ subscriptions' = subscriptions /\ endpoint' = endpoint /\ held' = held
        /\ socket' = socket /\ inbox' = inbox /\ targets' = targets /\ due' = due
        /\ connections' = connections /\ \A c \in Clients : EventPlaces(c)' = EventPlaces(c)
    BY DEF gatewayVars, connections, EventPlaces
  <1>3. Limited' /\ Strangers' /\ HeldAreSnapshots'
    BY <1>2 DEF IInv, Limited, LimitKept, Strangers, HeldAreSnapshots
  <1>4. Reached'
    <2>1. \A c \in Clients, f \in Changes : LastIs(c, f) => LastIs(c, f)'
      BY <1>2 DEF LastIs
    <2>2. connections \subseteq Clients /\ Reached
      BY DEF IInv, TypeOK
    <2> QED BY <1>2, <2>1, <2>2 DEF Reached
  <1>5. Divided'
    <2>1. PICK n \in 0 .. Len(published) : Divides(n)
      BY DEF IInv, Divided
    <2>2. n \in 0 .. Len(published') /\ n < p
      BY <1>1
    <2>3. Addressed(n)'
      BY <1>1, <1>2, <2>1 DEF Divides, Addressed
    <2>4. ASSUME NEW c \in Clients, NEW k \in 0 .. Len(published), Received(c, k)
          PROVE  Received(c, k)'
      <3>1. PICK at \in [EventPlaces(c) -> 1 .. k] :
              \A i \in EventPlaces(c) :
                /\ inbox[c][i] = EventMessage(published[at[i]])
                /\ \A j \in EventPlaces(c) : i < j => at[i] < at[j]
        BY <2>4 DEF Received
      <3>2. \A i \in EventPlaces(c) : at[i] \in 1 .. Len(published)
        OBVIOUS
      <3> QED BY <1>1, <1>2, <3>1, <3>2 DEF Received
    <2>5. Waiting(n)'
      <3>1. PICK at \in [1 .. Len(bus) -> 1 .. Len(published)] :
              \A i \in 1 .. Len(bus) :
                /\ bus[i] = published[at[i]] /\ n < at[i]
                /\ \A j \in 1 .. Len(bus) : i < j => at[i] < at[j]
        BY <2>1 DEF Divides, Waiting
      <3>2. CASE bus' = bus
        <4>1. at \in [1 .. Len(bus') -> 1 .. Len(published')]
          BY <1>1, <3>2
        <4> QED BY <1>1, <3>1, <3>2, <4>1 DEF Waiting
      <3>3. CASE bus' = Append(bus, e)
        <4> DEFINE k == Len(bus) + 1
                   to == [i \in 1 .. k |-> IF i = k THEN p ELSE at[i]]
        <4>1. /\ Len(bus) \in Nat /\ Len(bus') = k /\ bus'[k] = e
              /\ \A i \in 1 .. Len(bus) : bus'[i] = bus[i] /\ i < k
          BY <3>3, LenProperties, AppendProperties DEF IInv, TypeOK
        <4>2. \A i \in 1 .. k : i = k \/ i \in 1 .. Len(bus)
          BY <4>1
        <4>3. to \in [1 .. Len(bus') -> 1 .. Len(published')]
          BY <1>1, <4>1, <4>2
        <4>4. ASSUME NEW i \in 1 .. Len(bus')
              PROVE  bus'[i] = published'[to[i]] /\ n < to[i]
          BY <1>1, <2>2, <3>1, <4>1, <4>2
        <4>5. ASSUME NEW i \in 1 .. Len(bus'), NEW j \in 1 .. Len(bus'), i < j
              PROVE  to[i] < to[j]
          <5>1. i \in 1 .. Len(bus) /\ i # k /\ i \in 1 .. k /\ j \in 1 .. k
            BY <4>1, <4>2, <4>5
          <5>2. to[i] = at[i] /\ to[j] = IF j = k THEN p ELSE at[j]
            BY <5>1
          <5> HIDE DEF to, k
          <5>3. at[i] \in 1 .. Len(published) /\ Len(published) \in Nat
            BY <5>1, <3>1
          <5>4. CASE j = k
            <6>1. to[j] = Len(published) + 1
              BY <1>1, <5>2, <5>4
            <6> QED BY <5>2, <5>3, <6>1
          <5>5. CASE j # k
            <6>1. j \in 1 .. Len(bus)
              BY <4>2, <5>1, <5>5
            <6> QED BY <3>1, <4>5, <5>1, <5>2, <5>5, <6>1
          <5> QED BY <5>4, <5>5
        <4> HIDE DEF to
        <4> QED BY <4>3, <4>4, <4>5 DEF Waiting
      <3> QED BY <3>2, <3>3 DEF Announce
    <2>6. \A c \in Clients :
            /\ Received(c, n)'
            /\ \A f \in Changes : <<c, f>> \in due' => Received(c, n - 1)'
      <3>1. ASSUME NEW c \in Clients, NEW f \in Changes, <<c, f>> \in due'
            PROVE  Received(c, n - 1)'
        <4>1. n # 0 /\ n - 1 \in 0 .. Len(published) /\ Received(c, n - 1)
          BY <1>1, <1>2, <2>1, <3>1 DEF IInv, TypeOK, Divides, Addressed
        <4> QED BY <2>4, <4>1
      <3> QED BY <2>1, <2>4, <3>1 DEF Divides
    <2>7. Divides(n)'
      BY <2>3, <2>5, <2>6 DEF Divides
    <2> QED BY <2>2, <2>7 DEF Divided
  <1> QED BY <1>3, <1>4, <1>5 DEF IInv

\* The next event is taken: its place among the publishes is the new mark.
LEMMA RouteIInv ==
  ASSUME IInv, Route, Apart
  PROVE  IInv'
  <1> DEFINE e == Head(bus)
  <1>1. /\ bus # <<>> /\ bus' = Tail(bus) /\ due' = targets'
        /\ targets' = {<<c, e>> : c \in {d \in connections : ChannelOf[e] \in subscriptions[d]}}
        /\ UNCHANGED <<subscriptions, endpoint, todo, held, socket, inbox, draining>>
        /\ due \cup draining = {}
    BY DEF Route
  <1>2. /\ UNCHANGED <<committed, writer, listening, published, repeats, drops>>
        /\ connections' = connections /\ \A c \in Clients : EventPlaces(c)' = EventPlaces(c)
    BY <1>1 DEF Apart, connections, EventPlaces
  <1>3. /\ Len(bus) \in Nat /\ Len(bus) >= 1 /\ e \in Changes /\ e = bus[1]
        /\ bus' \in Seq(Changes) /\ Len(bus') = Len(bus) - 1
        /\ \A i \in 1 .. Len(bus') : bus'[i] = bus[i + 1]
    BY <1>1, LenProperties, HeadTailProperties DEF IInv, TypeOK
  <1> HIDE DEF e
  <1>4. \A c, f : <<c, f>> \in targets' => c \in connections /\ f = e
    BY <1>1
  <1>5. TypeOK'
    <2>1. targets' \subseteq Clients \X Changes
      BY <1>1, <1>3 DEF IInv, TypeOK
    <2>2. due' \subseteq targets' /\ draining' \subseteq targets'
      BY <1>1
    <2> QED BY <1>1, <1>2, <1>3, <2>1, <2>2 DEF IInv, TypeOK
  <1>6. Limited' /\ HeldAreSnapshots'
    BY <1>1, <1>2 DEF IInv, Limited, LimitKept, HeldAreSnapshots
  <1>7. Strangers'
    BY <1>1, <1>2, <1>4 DEF IInv, Strangers
  <1>8. Reached'
    BY <1>1 DEF Reached
  <1>9. Divided'
    <2>1. PICK n \in 0 .. Len(published) : Divides(n)
      BY DEF IInv, Divided
    <2>2. PICK at \in [1 .. Len(bus) -> 1 .. Len(published)] :
            \A i \in 1 .. Len(bus) :
              /\ bus[i] = published[at[i]] /\ n < at[i]
              /\ \A j \in 1 .. Len(bus) : i < j => at[i] < at[j]
      BY <2>1 DEF Divides, Waiting
    <2> DEFINE k == at[1]
               to == [i \in 1 .. Len(bus') |-> at[i + 1]]
    <2>3. /\ 1 \in 1 .. Len(bus) /\ k \in 0 .. Len(published) /\ n <= k - 1 /\ k # 0
          /\ published[k] = e /\ Len(published) \in Nat
      <3>1. 1 \in 1 .. Len(bus) /\ Len(published) \in Nat
        BY <1>3, LenProperties DEF IInv, TypeOK
      <3>2. k \in 1 .. Len(published) /\ n < k /\ bus[1] = published[k]
        BY <2>2, <3>1
      <3> QED BY <1>3, <3>1, <3>2
    <2>4. \A i \in 1 .. Len(bus') : i + 1 \in 1 .. Len(bus) /\ 1 < i + 1
      BY <1>3
    <2>5. Waiting(k)'
      <3>1. to \in [1 .. Len(bus') -> 1 .. Len(published')]
        BY <1>2, <2>4
      <3>2. ASSUME NEW i \in 1 .. Len(bus')
            PROVE  bus'[i] = published'[to[i]] /\ k < to[i]
        BY <1>2, <1>3, <2>2, <2>3, <2>4
      <3>3. ASSUME NEW i \in 1 .. Len(bus'), NEW j \in 1 .. Len(bus'), i < j
            PROVE  to[i] < to[j]
        <4>1. i + 1 < j + 1
          BY <3>3
        <4> QED BY <2>2, <2>4, <4>1
      <3> HIDE DEF to, k
      <3> QED BY <3>1, <3>2, <3>3 DEF Waiting
    <2>6. Addressed(k)'
      BY <1>2, <1>4, <2>3 DEF Addressed
    <2>7. ASSUME NEW c \in Clients, NEW q \in {k - 1, k}
          PROVE  Received(c, q)'
      <3>1. PICK in \in [EventPlaces(c) -> 1 .. n] :
              \A i \in EventPlaces(c) :
                /\ inbox[c][i] = EventMessage(published[in[i]])
                /\ \A j \in EventPlaces(c) : i < j => in[i] < in[j]
        BY <2>1 DEF Divides, Received
      <3>2. in \in [EventPlaces(c) -> 1 .. q]
        BY <2>3
      <3> QED BY <1>1, <1>2, <3>1, <3>2 DEF Received
    <2>8. Divides(k)'
      BY <2>5, <2>6, <2>7 DEF Divides
    <2> HIDE DEF k
    <2>9. k \in 0 .. Len(published')
      BY <1>2, <2>3
    <2> QED BY <2>8, <2>9 DEF Divided
  <1> QED BY <1>5, <1>6, <1>7, <1>8, <1>9 DEF IInv

\* One send of the fan-out.
LEMMA StartSendIInv ==
  ASSUME IInv, NEW c \in Clients, NEW e \in Changes, StartSend(c, e), Apart
  PROVE  IInv'
  <1>1. /\ <<c, e>> \in due /\ due' = due \ {<<c, e>>} /\ targets' = targets
        /\ UNCHANGED <<bus, subscriptions, endpoint, todo, held, socket>>
        /\ UNCHANGED <<committed, writer, listening, published, repeats, drops>>
        /\ connections' = connections
        /\ c \in connections /\ socket[c] = "open" =>
             inbox' = [inbox EXCEPT ![c] = Append(@, EventMessage(e))]
        /\ ~ (c \in connections /\ socket[c] = "open") => inbox' = inbox
        /\ draining' \subseteq draining \cup {<<c, e>>}
    BY DEF StartSend, Apart, Deliver, connections
  <1>2. TypeOK'
    <2>1. inbox' \in [Clients -> Seq(Message)]
      <3>1. /\ inbox \in [Clients -> Seq(Message)]
            /\ Append(inbox[c], EventMessage(e)) \in Seq(Message)
        BY Messages, AppendProperties, InboxAre DEF IInv, TypeOK
      <3> QED BY <1>1, <3>1
    <2>2. due' \subseteq targets' /\ draining' \subseteq targets'
      BY <1>1 DEF IInv, TypeOK
    <2> QED BY <1>1, <2>1, <2>2 DEF IInv, TypeOK
  <1>3. Limited' /\ HeldAreSnapshots' /\ Strangers'
    BY <1>1 DEF IInv, Limited, LimitKept, HeldAreSnapshots, Strangers
  <1>4. \A d \in Clients : d # c => inbox'[d] = inbox[d] /\ EventPlaces(d)' = EventPlaces(d)
    BY <1>1 DEF IInv, TypeOK, EventPlaces
  <1>5. PICK n \in 0 .. Len(published) : Divides(n)
    BY DEF IInv, Divided
  <1>6. \A d \in Clients, f \in Changes : <<d, f>> \in targets => f = e /\ n # 0
    <2>1. <<c, e>> \in targets
      BY <1>1 DEF IInv, TypeOK
    <2>2. published[n] = e
      BY <1>5, <2>1 DEF Divides, Addressed
    <2> QED BY <1>5, <2>2 DEF Divides, Addressed
  <1>7. published[n] = e /\ n # 0 /\ Received(c, n - 1) /\ n - 1 \in Nat
        /\ n \in 1 .. Len(published)
    BY <1>1, <1>5, InboxAre DEF IInv, TypeOK, Divides, Addressed
  <1> DEFINE k == Len(inbox[c]) + 1
  <1>8. ASSUME c \in connections, socket[c] = "open"
        PROVE  Received(c, n)' /\ LastIs(c, e)'
    <2>1. /\ EventPlaces(c)' = EventPlaces(c) \cup {k} /\ inbox'[c][k] = EventMessage(e)
          /\ \A i \in EventPlaces(c) : i < k /\ inbox'[c][i] = inbox[c][i]
          /\ k \in Nat
      <3>1. inbox'[c] = Append(inbox[c], EventMessage(e))
        BY <1>1, <1>8 DEF IInv, TypeOK
      <3>2. EventMessage(e) \in Message /\ EventMessage(e).kind = "event"
        BY Messages
      <3> QED BY <3>1, <3>2, AfterMessage, InboxAre DEF IInv
    <2> HIDE DEF k
    <2>2. EventPlaces(c) \subseteq Nat /\ k \notin EventPlaces(c)
      BY <2>1, InboxAre DEF IInv
    <2>3. Received(c, n)'
      <3>1. PICK at \in [EventPlaces(c) -> 1 .. n - 1] :
              \A i \in EventPlaces(c) :
                /\ inbox[c][i] = EventMessage(published[at[i]])
                /\ \A j \in EventPlaces(c) : i < j => at[i] < at[j]
        BY <1>7 DEF Received
      <3> DEFINE to == [i \in EventPlaces(c) \cup {k} |-> IF i = k THEN n ELSE at[i]]
      <3>2. \A i \in EventPlaces(c) : at[i] \in 1 .. n - 1 /\ at[i] < n /\ at[i] \in 1 .. n
        BY <1>7
      <3>3. to \in [EventPlaces(c)' -> 1 .. n]
        BY <1>7, <2>1, <3>2
      <3>4. ASSUME NEW i \in EventPlaces(c)'
            PROVE  inbox'[c][i] = EventMessage(published'[to[i]])
        BY <1>1, <1>7, <2>1, <2>2, <3>1
      <3>5. ASSUME NEW i \in EventPlaces(c)', NEW j \in EventPlaces(c)', i < j
            PROVE  to[i] < to[j]
        <4>1. i \in EventPlaces(c)
          BY <2>1, <2>2, <3>5
        <4> QED BY <2>1, <2>2, <3>1, <3>2, <3>5, <4>1
      <3> HIDE DEF to
      <3> QED BY <3>3, <3>4, <3>5 DEF Received
    <2>4. LastIs(c, e)'
      BY <2>1, <2>2 DEF LastIs
    <2> QED BY <2>3, <2>4
  <1>9. Received(c, n)'
    <2>1. CASE ~ (c \in connections /\ socket[c] = "open")
      <3>1. inbox' = inbox /\ EventPlaces(c)' = EventPlaces(c) /\ published' = published
        BY <1>1, <2>1 DEF EventPlaces
      <3> QED BY <1>5, <3>1 DEF Divides, Received
    <2> QED BY <1>8, <2>1
  <1>10. Divided'
    <2>1. Addressed(n)' /\ Waiting(n)'
      BY <1>1, <1>5 DEF Divides, Addressed, Waiting
    <2>2. ASSUME NEW d \in Clients, d # c
          PROVE  /\ Received(d, n)'
                 /\ \A f \in Changes : <<d, f>> \in due' => Received(d, n - 1)'
      <3>1. /\ inbox'[d] = inbox[d] /\ EventPlaces(d)' = EventPlaces(d)
            /\ published' = published /\ due' \subseteq due
        BY <1>1, <1>4, <2>2
      <3>2. \A q \in {n - 1, n} : Received(d, q) => Received(d, q)'
        BY <3>1 DEF Received
      <3> QED BY <1>5, <3>1, <3>2 DEF Divides
    <2>3. \A f \in Changes : <<c, f>> \notin due'
      BY <1>1, <1>6 DEF IInv, TypeOK
    <2>4. Divides(n)'
      BY <1>9, <2>1, <2>2, <2>3 DEF Divides
    <2>5. n \in 0 .. Len(published')
      BY <1>1
    <2> QED BY <2>4, <2>5 DEF Divided
  <1>11. Reached'
    <2> SUFFICES ASSUME NEW d \in connections', NEW f \in Changes,
                        <<d, f>> \in targets', socket'[d] = "open"
                 PROVE  <<d, f>> \in due' \/ LastIs(d, f)'
      BY DEF Reached
    <2>1. d \in Clients /\ d \in connections /\ f = e /\ socket[d] = "open"
      BY <1>1, <1>6 DEF IInv, TypeOK
    <2>2. CASE d = c
      BY <1>8, <2>1, <2>2
    <2>3. CASE d # c
      <3>1. <<d, f>> \in due \/ LastIs(d, f)
        BY <1>1, <2>1 DEF IInv, Reached
      <3> QED BY <1>1, <1>4, <2>1, <2>3, <3>1 DEF LastIs
    <2> QED BY <2>2, <2>3
  <1> QED BY <1>2, <1>3, <1>10, <1>11 DEF IInv

-----------------------------------------------------------------------------
(* The steps that send no event, one by one.                               *)

ApplicationTyped ==
  /\ committed \subseteq Changes
  /\ writer \in [Changes -> {"idle", "published", "done", "failed"}]
  /\ listening \in BOOLEAN
  /\ repeats \in 0 .. MaxRepeats
  /\ drops \in 0 .. MaxDrops

EndpointsTyped ==
  /\ endpoint \in [Clients -> EndpointSteps]
  /\ todo \in [Clients -> SUBSET Channels]
  /\ held \in [Clients -> Message \cup {NoMessage}]
  /\ socket \in [Clients -> {"none", "open", "closed"}]
  /\ inbox \in [Clients -> Seq(Message)]

LEMMA CalmIInv ==
  ASSUME IInv, Calm, Fewer, draining' \subseteq draining,
         ApplicationTyped', EndpointsTyped', HeldAreSnapshots'
  PROVE  IInv'
  <1>1. TypeOK'
    <2>1. bus' \in Seq(Changes)
      BY EmptySeq DEF IInv, TypeOK, Calm
    <2>2. connections' \subseteq Clients /\ subscriptions' \in [connections' -> SUBSET Channels]
      BY DEF IInv, TypeOK, Fewer
    <2> QED BY <2>1, <2>2 DEF IInv, TypeOK, Calm, ApplicationTyped, EndpointsTyped
  <1>2. Limited'
    BY FewerLimited DEF IInv
  <1> QED BY <1>1, <1>2, CalmKeeps

\* Only the application moves, or only the entry of a client.
LEMMA SameEndpoints ==
  ASSUME IInv, Fewer, draining' \subseteq draining, ApplicationTyped', bus' \in {bus, <<>>},
         UNCHANGED <<endpoint, todo, held, socket, inbox, targets, due, published>>
  PROVE  IInv'
  <1>1. EndpointsTyped' /\ HeldAreSnapshots'
    BY DEF IInv, TypeOK, EndpointsTyped, HeldAreSnapshots
  <1>2. Calm
    BY DEF IInv, Calm, Untold, Fewer, Strangers
  <1> QED BY <1>1, <1>2, CalmIInv

LEMMA SameClients ==
  ASSUME TypeOK, UNCHANGED subscriptions
  PROVE  Fewer
  BY DEF TypeOK, connections, Fewer

LEMMA ApartTyped ==
  ASSUME TypeOK, Apart
  PROVE  ApplicationTyped' /\ UNCHANGED published
  BY DEF TypeOK, Apart, ApplicationTyped

LEMMA PublishIInv ==
  ASSUME IInv, NEW e \in Changes, Publish(e) \/ Repeat(e)
  PROVE  IInv'
  <1>1. Announce(e) /\ UNCHANGED <<committed, gatewayVars, listening, drops>>
    BY DEF Publish, Repeat
  <1>2. writer' \in [Changes -> {"idle", "published", "done", "failed"}]
    BY DEF IInv, TypeOK, Publish, Repeat
  <1>3. repeats' \in 0 .. MaxRepeats
    <2>1. CASE Publish(e)
      BY <2>1 DEF IInv, TypeOK, Publish
    <2>2. CASE Repeat(e)
      BY <2>2, DeliveryAssumption DEF IInv, TypeOK, Repeat
    <2> QED BY <2>1, <2>2
  <1>4. published' \in Seq(Changes) /\ bus' \in Seq(Changes)
    BY <1>1, AppendProperties DEF IInv, TypeOK, Announce
  <1>5. TypeOK'
    BY <1>1, <1>2, <1>3, <1>4 DEF IInv, TypeOK, gatewayVars, connections
  <1> QED BY <1>1, <1>5, AnnounceIInv

LEMMA WriterIInv ==
  ASSUME IInv, NEW e \in Changes, Commit(e) \/ RollBack(e)
  PROVE  IInv'
  <1>1. /\ UNCHANGED <<bus, published, subscriptions, draining>>
        /\ UNCHANGED <<endpoint, todo, held, socket, inbox, targets, due>>
    BY DEF Commit, RollBack, gatewayVars
  <1>2. ApplicationTyped'
    BY DEF IInv, TypeOK, Commit, RollBack, ApplicationTyped
  <1>3. Fewer
    BY <1>1, SameClients DEF IInv
  <1> QED BY <1>1, <1>2, <1>3, SameEndpoints

LEMMA ConnectionIInv ==
  ASSUME IInv, Drop \/ Resubscribe
  PROVE  IInv'
  <1>1. /\ UNCHANGED <<published, subscriptions, draining>> /\ bus' \in {bus, <<>>}
        /\ UNCHANGED <<endpoint, todo, held, socket, inbox, targets, due>>
    BY DEF Drop, Resubscribe, gatewayVars
  <1>2. ApplicationTyped'
    <2>1. CASE Drop
      <3>1. drops' \in 0 .. MaxDrops
        BY <2>1, DeliveryAssumption DEF IInv, TypeOK, Drop
      <3>2. listening' \in BOOLEAN /\ UNCHANGED <<committed, writer, repeats>>
        BY <2>1 DEF Drop
      <3> QED BY <3>1, <3>2 DEF IInv, TypeOK, ApplicationTyped
    <2>2. CASE Resubscribe
      <3>1. listening' \in BOOLEAN /\ UNCHANGED <<committed, writer, repeats, drops>>
        BY <2>2 DEF Resubscribe
      <3> QED BY <3>1 DEF IInv, TypeOK, ApplicationTyped
    <2> QED BY <2>1, <2>2
  <1>3. Fewer
    BY <1>1, SameClients DEF IInv
  <1> QED BY <1>1, <1>2, <1>3, SameEndpoints

LEMMA EndSendIInv ==
  ASSUME IInv, NEW c \in Clients, NEW e \in Changes, EndSend(c, e), Apart
  PROVE  IInv'
  <1>1. /\ UNCHANGED <<endpoint, todo, held, socket, inbox, targets, due, bus>>
        /\ draining' \subseteq draining /\ SendEnds(c)
    BY DEF EndSend
  <1>2. Fewer
    BY <1>1, SendEndsFewer DEF IInv
  <1>3. ApplicationTyped' /\ UNCHANGED published
    BY ApartTyped DEF IInv
  <1> QED BY <1>1, <1>2, <1>3, SameEndpoints

LEMMA PingFailsIInv ==
  ASSUME IInv, NEW c \in Clients, PingFails(c), Apart
  PROVE  IInv'
  <1>1. /\ UNCHANGED <<endpoint, todo, held, socket, inbox, targets, due, bus, draining>>
        /\ subscriptions' = Without(c)
    BY DEF PingFails
  <1>2. Fewer
    BY <1>1, WithoutFewer DEF IInv
  <1>3. ApplicationTyped' /\ UNCHANGED published
    BY ApartTyped DEF IInv
  <1> QED BY <1>1, <1>2, <1>3, SameEndpoints

\* The endpoint of one client goes on, without a message.
LEMMA OneEndpoint ==
  ASSUME IInv, Fewer, Apart, UNCHANGED <<targets, due, draining, bus, socket, inbox>>,
         NEW c \in Clients, endpoint[c] # "none",
         NEW step \in EndpointSteps \ {"none"}, endpoint' = [endpoint EXCEPT ![c] = step],
         todo' \in [Clients -> SUBSET Channels],
         held' \in [Clients -> Message \cup {NoMessage}], HeldAreSnapshots'
  PROVE  IInv'
  <1>1. EndpointsTyped'
    BY DEF IInv, TypeOK, EndpointsTyped
  <1>2. ApplicationTyped' /\ UNCHANGED published
    BY ApartTyped DEF IInv
  <1>3. \A d \in Clients : endpoint'[d] = "none" => endpoint[d] = "none"
    BY DEF IInv, TypeOK
  <1>4. Calm
    BY <1>2, <1>3 DEF IInv, Calm, Untold, Fewer, Strangers
  <1> QED BY <1>1, <1>2, <1>4, CalmIInv

LEMMA SendReturnsIInv ==
  ASSUME IInv, NEW c \in Clients, Greeted(c) \/ Pushed(c), Apart
  PROVE  IInv'
  <1>1. /\ UNCHANGED <<todo, held, socket, inbox, targets, due, bus, draining>>
        /\ SendEnds(c) /\ endpoint[c] # "none"
        /\ \E step \in EndpointSteps \ {"none"} : endpoint' = [endpoint EXCEPT ![c] = step]
    BY DEF Greeted, Pushed, EndpointSteps
  <1>2. Fewer
    BY <1>1, SendEndsFewer DEF IInv
  <1>3. /\ todo' \in [Clients -> SUBSET Channels]
        /\ held' \in [Clients -> Message \cup {NoMessage}] /\ HeldAreSnapshots'
    BY <1>1 DEF IInv, TypeOK, HeldAreSnapshots
  <1> QED BY <1>1, <1>2, <1>3, OneEndpoint

LEMMA FetchIInv ==
  ASSUME IInv, NEW c \in Clients, NEW ch \in Channels,
         ReadSnapshot(c, ch) \/ SkipSnapshot(c, ch), Apart
  PROVE  IInv'
  <1>1. /\ UNCHANGED <<subscriptions, endpoint, socket, inbox, targets, due, bus, draining>>
        /\ endpoint[c] = "fetching" /\ todo' = [todo EXCEPT ![c] = @ \ {ch}]
    BY DEF ReadSnapshot, SkipSnapshot
  <1>2. Fewer
    BY <1>1, SameClients DEF IInv
  <1>3. todo' \in [Clients -> SUBSET Channels]
    BY <1>1 DEF IInv, TypeOK
  <1>4. held' \in [Clients -> Message \cup {NoMessage}] /\ HeldAreSnapshots'
    <2>1. CASE ReadSnapshot(c, ch)
      <3> DEFINE m == SnapshotMessage(ch, committed \cap OfChannel(ch))
      <3>1. m \in Message /\ m.kind = "snapshot"
        BY Messages DEF IInv, TypeOK
      <3>2. held' = [held EXCEPT ![c] = m]
        BY <2>1 DEF ReadSnapshot
      <3> HIDE DEF m
      <3> QED BY <3>1, <3>2 DEF IInv, TypeOK, HeldAreSnapshots
    <2>2. CASE SkipSnapshot(c, ch)
      BY <2>2 DEF SkipSnapshot, IInv, TypeOK, HeldAreSnapshots
    <2> QED BY <2>1, <2>2
  <1>5. endpoint' = [endpoint EXCEPT ![c] = "fetching"] /\ "fetching" \in EndpointSteps \ {"none"}
    BY <1>1 DEF IInv, TypeOK, EndpointSteps
  <1> QED BY <1>1, <1>2, <1>3, <1>4, <1>5, OneEndpoint

LEMMA SubscribedIInv ==
  ASSUME IInv, NEW c \in Clients, Subscribed(c), Apart
  PROVE  IInv'
  <1>1. /\ UNCHANGED <<subscriptions, todo, held, socket, inbox, targets, due, bus, draining>>
        /\ endpoint[c] # "none" /\ endpoint' = [endpoint EXCEPT ![c] = "receiving"]
        /\ "receiving" \in EndpointSteps \ {"none"}
    BY DEF Subscribed, EndpointSteps
  <1>2. Fewer
    BY <1>1, SameClients DEF IInv
  <1>3. /\ todo' \in [Clients -> SUBSET Channels]
        /\ held' \in [Clients -> Message \cup {NoMessage}] /\ HeldAreSnapshots'
    BY <1>1 DEF IInv, TypeOK, HeldAreSnapshots
  <1> QED BY <1>1, <1>2, <1>3, OneEndpoint

LEMMA PushSnapshotIInv ==
  ASSUME IInv, NEW c \in Clients, PushSnapshot(c), Apart
  PROVE  IInv'
  <1>1. /\ UNCHANGED <<subscriptions, todo, socket, targets, due, bus, draining>>
        /\ held[c] # NoMessage /\ held' = [held EXCEPT ![c] = NoMessage]
        /\ endpoint[c] = "fetching"
        /\ endpoint' \in {endpoint, [endpoint EXCEPT ![c] = "pushing"]}
        /\ inbox' \in {inbox, [inbox EXCEPT ![c] = Append(@, held[c])]}
    BY DEF PushSnapshot, Deliver
  <1>2. held[c] \in Message /\ held[c].kind = "snapshot"
    BY <1>1 DEF IInv, TypeOK, HeldAreSnapshots
  <1>3. ApplicationTyped' /\ UNCHANGED published
    BY ApartTyped DEF IInv
  <1>4. Fewer
    BY <1>1, SameClients DEF IInv
  <1>5. EndpointsTyped'
    <2>1. inbox \in [Clients -> Seq(Message)] /\ Append(inbox[c], held[c]) \in Seq(Message)
      BY <1>2, AppendProperties, InboxAre DEF IInv, TypeOK
    <2>2. inbox' \in [Clients -> Seq(Message)]
      BY <1>1, <2>1
    <2> QED BY <1>1, <2>2 DEF IInv, TypeOK, EndpointsTyped, EndpointSteps
  <1>6. HeldAreSnapshots'
    BY <1>1 DEF IInv, TypeOK, HeldAreSnapshots
  <1>7. \A d \in Clients : Untold(d)
    BY <1>1, <1>2 DEF IInv, TypeOK, Untold
  <1>8. \A d \in Clients : endpoint'[d] = "none" => endpoint[d] = "none"
    BY <1>1 DEF IInv, TypeOK
  <1>9. Calm
    BY <1>1, <1>3, <1>4, <1>7, <1>8 DEF IInv, Calm, Fewer, Strangers
  <1> QED BY <1>1, <1>3, <1>4, <1>5, <1>6, <1>9, CalmIInv

\* The client's socket closes.
LEMMA GoAwayIInv ==
  ASSUME IInv, NEW c \in Clients, GoAway(c), Fewer, Apart,
         UNCHANGED <<todo, held, targets, due, bus, draining>>,
         endpoint' \in {endpoint, [endpoint EXCEPT ![c] = "ended"]}
  PROVE  IInv'
  <1>1. socket' = [socket EXCEPT ![c] = "closed"] /\ inbox' = [inbox EXCEPT ![c] = <<>>]
    BY DEF GoAway
  <1>2. ApplicationTyped' /\ UNCHANGED published
    BY ApartTyped DEF IInv
  <1>3. EndpointsTyped'
    <2>1. <<>> \in Seq(Message)
      BY EmptySeq
    <2> QED BY <1>1, <2>1 DEF IInv, TypeOK, EndpointsTyped, EndpointSteps
  <1>4. HeldAreSnapshots'
    BY DEF IInv, HeldAreSnapshots
  <1>5. \A d \in Clients : Untold(d) /\ (socket'[d] = "open" => socket[d] = "open")
    BY <1>1 DEF IInv, TypeOK, Untold
  <1>6. \A d \in Clients : endpoint'[d] = "none" => endpoint[d] = "none"
    BY DEF IInv, TypeOK
  <1>7. Calm
    BY <1>2, <1>5, <1>6 DEF IInv, Calm, Fewer, Strangers
  <1> QED BY <1>2, <1>3, <1>4, <1>7, CalmIInv

LEMMA LeaveIInv ==
  ASSUME IInv, NEW c \in Clients, Leave(c), Apart
  PROVE  IInv'
  <1>1. Fewer
    BY WithoutFewer DEF IInv, Leave
  <1> QED BY <1>1, GoAwayIInv DEF Leave

LEMMA HangUpIInv ==
  ASSUME IInv, NEW c \in Clients, HangUp(c), Apart
  PROVE  IInv'
  <1>1. Fewer
    BY SameClients DEF IInv, HangUp
  <1> QED BY <1>1, GoAwayIInv DEF HangUp

\* Below the limit the client is registered: nobody else is, so the limit is kept.
LEMMA ConnectIInv ==
  ASSUME IInv, NEW c \in Clients, Connect(c), Apart
  PROVE  IInv'
  <1>1. /\ UNCHANGED <<bus, todo, held, inbox, targets, due, draining>> /\ endpoint[c] = "none"
    BY DEF Connect
  <1>2. ApplicationTyped' /\ UNCHANGED published
    BY ApartTyped DEF IInv
  <1>3. HeldAreSnapshots' /\ c \notin connections
    BY <1>1 DEF IInv, HeldAreSnapshots, Strangers
  <1>4. CASE Cardinality(connections) >= MaxConnections
    <2>1. /\ endpoint' = [endpoint EXCEPT ![c] = "ended"]
          /\ socket' = [socket EXCEPT ![c] = "closed"] /\ UNCHANGED subscriptions
      BY <1>4 DEF Connect
    <2>2. Fewer
      BY <2>1, SameClients DEF IInv
    <2>3. EndpointsTyped'
      BY <1>1, <2>1 DEF IInv, TypeOK, EndpointsTyped, EndpointSteps
    <2>4. \A d \in Clients :
            /\ endpoint'[d] = "none" => endpoint[d] = "none"
            /\ socket'[d] = "open" => socket[d] = "open"
            /\ Untold(d)
      BY <1>1, <2>1 DEF IInv, TypeOK, Untold
    <2>5. Calm
      BY <1>1, <1>2, <2>2, <2>4 DEF IInv, Calm, Fewer, Strangers
    <2> QED BY <1>1, <1>2, <1>3, <2>2, <2>3, <2>5, CalmIInv
  <1>5. CASE ~ (Cardinality(connections) >= MaxConnections)
    <2>1. /\ endpoint' = [endpoint EXCEPT ![c] = "greeting"]
          /\ socket' = [socket EXCEPT ![c] = "open"]
          /\ subscriptions' = [d \in connections \cup {c} |->
                                 IF d = c THEN {} ELSE subscriptions[d]]
      BY <1>5 DEF Connect
    <2>2. connections' = connections \cup {c}
      BY <2>1 DEF connections
    <2>3. subscriptions' \in [connections' -> SUBSET Channels]
      BY <2>1, <2>2 DEF IInv, TypeOK
    <2>4. EndpointsTyped'
      BY <1>1, <2>1 DEF IInv, TypeOK, EndpointsTyped, EndpointSteps
    <2>5. TypeOK'
      BY <1>1, <1>2, <2>2, <2>3, <2>4 DEF IInv, TypeOK, ApplicationTyped, EndpointsTyped
    <2>6. Limited'
      <3>1. IsFiniteSet(connections) /\ Cardinality(connections) \in Nat
        BY FS_CardinalityType DEF IInv, Limited
      <3>2. IsFiniteSet(connections') /\ Cardinality(connections') = Cardinality(connections) + 1
        BY <1>3, <2>2, <3>1, FS_AddElement
      <3> QED BY <1>5, <3>1, <3>2, GatewayAssumption DEF Limited, LimitKept
    <2>7. \A d \in Clients :
            /\ endpoint'[d] = "none" => endpoint[d] = "none" /\ d # c
            /\ socket'[d] = "open" => socket[d] = "open" \/ endpoint[d] = "none"
            /\ Untold(d)
      BY <1>1, <2>1 DEF IInv, TypeOK, Untold
    <2>8. Calm
      BY <1>1, <1>2, <2>2, <2>7 DEF IInv, Calm, Strangers
    <2> QED BY <1>3, <2>5, <2>6, <2>8, CalmKeeps
  <1> QED BY <1>4, <1>5

LEMMA SubscribeIInv ==
  ASSUME IInv, NEW c \in Clients, NEW channels \in SUBSET Channels,
         Subscribe(c, channels), Apart
  PROVE  IInv'
  <1>1. CASE c \notin connections
    <2>1. Leave(c)
      BY <1>1 DEF Subscribe
    <2> QED BY <2>1, LeaveIInv
  <1>2. CASE c \in connections
    <2> DEFINE new == channels \ subscriptions[c]
               step == IF new = {} THEN "receiving" ELSE "fetching"
    <2>1. /\ subscriptions' = [subscriptions EXCEPT ![c] = @ \cup channels]
          /\ todo' = [todo EXCEPT ![c] = new]
          /\ endpoint[c] = "receiving"
          /\ endpoint' = [endpoint EXCEPT ![c] = IF new = {} THEN @ ELSE "fetching"]
          /\ UNCHANGED <<bus, held, socket, inbox, targets, due, draining>>
      BY <1>2 DEF Subscribe
    <2>2. endpoint' = [endpoint EXCEPT ![c] = step] /\ step \in EndpointSteps \ {"none"}
      BY <2>1 DEF EndpointSteps
    <2>3. new \in SUBSET Channels
      OBVIOUS
    <2> HIDE DEF new, step
    <2>4. Fewer
      BY <2>1 DEF IInv, TypeOK, connections, Fewer
    <2>5. /\ todo' \in [Clients -> SUBSET Channels]
          /\ held' \in [Clients -> Message \cup {NoMessage}] /\ HeldAreSnapshots'
      BY <2>1, <2>3 DEF IInv, TypeOK, HeldAreSnapshots
    <2>6. endpoint[c] # "none"
      BY <2>1
    <2> QED BY <2>1, <2>2, <2>4, <2>5, <2>6, OneEndpoint
  <1> QED BY <1>1, <1>2

LEMMA UnsubscribeIInv ==
  ASSUME IInv, NEW c \in Clients, NEW channels \in SUBSET Channels,
         Unsubscribe(c, channels), Apart
  PROVE  IInv'
  <1>1. CASE c \notin connections \/ Cardinality(channels) > 1
    <2>1. Leave(c)
      BY <1>1 DEF Unsubscribe
    <2> QED BY <2>1, LeaveIInv
  <1>2. CASE ~ (c \notin connections \/ Cardinality(channels) > 1)
    <2>1. /\ subscriptions' = [subscriptions EXCEPT ![c] = @ \ channels]
          /\ UNCHANGED <<bus, endpoint, todo, held, socket, inbox, targets, due, draining>>
      BY <1>2 DEF Unsubscribe
    <2>2. Fewer
      BY <2>1 DEF IInv, TypeOK, connections, Fewer
    <2>3. ApplicationTyped' /\ UNCHANGED published
      BY ApartTyped DEF IInv
    <2> QED BY <2>1, <2>2, <2>3, SameEndpoints
  <1> QED BY <1>1, <1>2

LEMMA StutterIInv ==
  ASSUME IInv, UNCHANGED vars
  PROVE  IInv'
  <1>1. /\ UNCHANGED <<endpoint, todo, held, socket, inbox, targets, due, bus, draining>>
        /\ UNCHANGED <<published, subscriptions>> /\ Apart
    BY DEF vars, gatewayVars, Apart
  <1>2. Fewer /\ ApplicationTyped'
    BY <1>1, SameClients, ApartTyped DEF IInv
  <1> QED BY <1>1, <1>2, SameEndpoints

LEMMA ApplicationIInv ==
  ASSUME IInv, Application
  PROVE  IInv'
  BY PublishIInv, WriterIInv, ConnectionIInv DEF Application

LEMMA FanOutIInv ==
  ASSUME IInv, FanOut
  PROVE  IInv'
  BY RouteIInv, StartSendIInv, EndSendIInv DEF FanOut

LEMMA AsksIInv ==
  ASSUME IInv, NEW c \in Clients, Asks(c)
  PROVE  IInv'
  <1>1. ASSUME NEW channels \in SUBSET Channels \ {{}},
               Subscribe(c, channels) \/ Unsubscribe(c, channels), Apart
        PROVE  IInv'
    BY <1>1, SubscribeIInv, UnsubscribeIInv
  <1> QED BY <1>1, ConnectIInv, HangUpIInv DEF Asks

LEMMA ServeIInv ==
  ASSUME IInv, NEW c \in Clients, Serve(c)
  PROVE  IInv'
  <1>1. ASSUME ReceiveFails(c), Apart
        PROVE  IInv'
    BY <1>1, LeaveIInv DEF ReceiveFails
  <1>2. ASSUME NEW ch \in Channels, ReadSnapshot(c, ch) \/ SkipSnapshot(c, ch), Apart
        PROVE  IInv'
    BY <1>2, FetchIInv
  <1>3. ASSUME Greeted(c) \/ Pushed(c) \/ Subscribed(c) \/ PushSnapshot(c), Apart
        PROVE  IInv'
    BY <1>3, SendReturnsIInv, SubscribedIInv, PushSnapshotIInv
  <1> QED BY <1>1, <1>2, <1>3 DEF Serve

LEMMA StepIInv ==
  ASSUME IInv, [Next]_vars
  PROVE  IInv'
  BY ApplicationIInv, FanOutIInv, AsksIInv, ServeIInv, PingFailsIInv, StutterIInv DEF Next

-----------------------------------------------------------------------------
(* What the invariant says of the clients.                                 *)

LEMMA IInvOrders ==
  ASSUME IInv
  PROVE  EventsInOrder
  <1>1. PICK n \in 0 .. Len(published) : Divides(n)
    BY DEF IInv, Divided
  <1> SUFFICES ASSUME NEW c \in Clients
               PROVE  \E at \in [EventPlaces(c) -> 1 .. Len(published)] :
                        \A i \in EventPlaces(c) :
                          /\ inbox[c][i] = EventMessage(published[at[i]])
                          /\ \A j \in EventPlaces(c) : i < j => at[i] < at[j]
    BY DEF EventsInOrder
  <1>2. PICK at \in [EventPlaces(c) -> 1 .. n] :
          \A i \in EventPlaces(c) :
            /\ inbox[c][i] = EventMessage(published[at[i]])
            /\ \A j \in EventPlaces(c) : i < j => at[i] < at[j]
    BY <1>1 DEF Divides, Received
  <1>3. at \in [EventPlaces(c) -> 1 .. Len(published)]
    BY InboxAre DEF IInv
  <1> QED BY <1>2, <1>3

LEMMA IInvReaches ==
  ASSUME IInv
  PROVE  FanOutReachesAll
  BY DEF IInv, Reached, LastIs, FanOutReachesAll

-----------------------------------------------------------------------------
(* The theorems.                                                           *)

\* The invariant holds, in whatever order requests publish and commit, sends return
\* and fail, clients come, subscribe and go, and Redis is lost and found.
THEOREM Invariance == Spec => []IInv
  <1>1. Init => IInv
    BY InitIInv
  <1>2. IInv /\ [Next]_vars => IInv'
    BY StepIInv
  <1> QED BY <1>1, <1>2, PTL DEF Spec

\* The two dictionaries, the endpoints and the fan-out keep their shape.
THEOREM TypeCorrect == Spec => []TypeOK
  <1>1. IInv => TypeOK
    BY DEF IInv
  <1> QED BY <1>1, Invariance, PTL

\* WebSocketGateway.connect: never more clients than WS_MAX_CONNECTIONS.
THEOREM WithinLimit == Spec => []LimitKept
  <1>1. IInv => LimitKept
    BY DEF IInv, Limited
  <1> QED BY <1>1, Invariance, PTL

\* The broadcaster waits for each fan-out (EventBroadcaster._route): every client gets
\* the events in the order in which they were published, none before its time and
\* none more often than it was published.
THEOREM OrderKept == Spec => []EventsInOrder
  <1>1. IInv => EventsInOrder
    BY IInvOrders
  <1> QED BY <1>1, Invariance, PTL

\* broadcast_to_channel, gather with return_exceptions: when it returns every target
\* that is still registered and connected has the event, whoever failed.
THEOREM AllReached == Spec => []FanOutReachesAll
  <1>1. IInv => FanOutReachesAll
    BY IInvReaches
  <1> QED BY <1>1, Invariance, PTL
=============================================================================
