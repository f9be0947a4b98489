------------------------- MODULE TradeJournalProofs -------------------------
(***************************************************************************)
(* Proofs about TradeJournal for any number of requests and trades.  The   *)
(* invariant IInv says what a request in flight carries: its copy of the   *)
(* row may be stale, but only within bounds that make its merge harmless.  *)
(***************************************************************************)
EXTENDS TradeJournal, TLAPS

Active(q) == pc[q] \in {"loaded", "reread", "written", "published"}

OwnEvent(q) == [event |-> EventOf(op[q]), trade |-> trade[q], by |-> q]

ClosedEvent(t, q) == [event |-> "trade.closed", trade |-> t, by |-> q]

\* A request is given its endpoint and its trade when it arrives.
Started ==
  \A q \in Requests :
    IF pc[q] = "idle"
    THEN op[q] = "none" /\ base[q] = NoRow
    ELSE op[q] \in {"record", "close", "reflect"} /\ trade[q] \in Trades

\* Every trade has one creator, whose uncommitted row nobody else sees.
Creating ==
  /\ \A t \in Trades : db[t] # NoRow =>
       \E q \in Requests : op[q] = "record" /\ trade[q] = t
  /\ \A p, q \in Requests :
       op[p] = "record" /\ op[q] = "record" /\ trade[p] = trade[q] => p = q
  /\ \A q \in Requests : op[q] = "record" /\ Active(q) =>
       /\ pc[q] \in {"written", "published"}
       /\ view[q] = NewTrade
       /\ base[q] = NoRow
       /\ db[trade[q]] = NoRow

\* A close or a reflection works on a trade that exists, carries a closed
\* trade, and read "closed" again only if the trade still is.
Editing ==
  \A q \in Requests : op[q] \in {"close", "reflect"} /\ Active(q) =>
    /\ db[trade[q]].status # "absent"
    /\ op[q] = "reflect" => db[trade[q]].status = "closed"
    /\ view[q].status = "closed"
    /\ pc[q] # "loaded" /\ base[q].status = "closed"
         => db[trade[q]].status = "closed"

\* What a request carries in its copy is its own or was committed.
Carrying ==
  \A q \in Requests : Active(q) =>
    /\ view[q].closed_at \notin {NULL, q} =>
         ClosedEvent(trade[q], view[q].closed_at) \in events
    /\ view[q].closed_at = q => op[q] = "close"
    /\ view[q].reflection \notin {NULL, q} =>
         [source_trade_id |-> trade[q], by |-> view[q].reflection] \in records
    /\ view[q].reflection = q => op[q] = "reflect"
    /\ \A p \in (view[q].notes \cup {view[q].closed_at, view[q].reflection}) \ {NULL, q} :
         pc[p] = "done"

\* A request that got past its publish has been heard.
Said == \A q \in Requests : pc[q] \in {"published", "done"} => OwnEvent(q) \in events

\* The author named in a row knows that it committed.
IInv ==
  /\ TypeOK
  /\ Started
  /\ Creating
  /\ Editing
  /\ Carrying
  /\ Said
  /\ NoSilentChange
  /\ ReflectionIsRemembered
  /\ OnlyCommittedShows

-----------------------------------------------------------------------------
(* The merge of two rows over a third is a row.                            *)
LEMMA MergeType ==
  ASSUME NEW v \in Row, NEW b \in Row, NEW c \in Row
  PROVE  Merge(v, b, c) \in Row
  BY DEF Merge, Row

\* Each column of a merge is the writer's or the one already committed.
LEMMA MergeColumns ==
  ASSUME NEW v \in Row, NEW b \in Row, NEW c \in Row
  PROVE  /\ Merge(v, b, c).status = IF v.status # b.status THEN v.status ELSE c.status
         /\ Merge(v, b, c).closed_at \in {v.closed_at, c.closed_at}
         /\ Merge(v, b, c).reflection \in {v.reflection, c.reflection}
         /\ Merge(v, b, c).notes \in {v.notes, c.notes}
  BY DEF Merge, Row

\* An insert is a merge over no row: it writes the new trade.
LEMMA MergeInsert == Merge(NewTrade, NoRow, NoRow) = NewTrade
  BY DEF Merge, NewTrade, NoRow

LEMMA InitIInv == Init => IInv
  <1> SUFFICES ASSUME Init PROVE IInv
    OBVIOUS
  <1>1. TypeOK
    BY DEF Init, TypeOK, Row, NoRow, Steps
  <1>2. Started /\ Creating /\ Editing /\ Carrying /\ Said
    BY NullAssumption DEF Init, Started, Creating, Editing, Carrying, Said, Active, NoRow
  <1>3. NoSilentChange /\ ReflectionIsRemembered /\ OnlyCommittedShows
    BY DEF Init, NoSilentChange, ReflectionIsRemembered, OnlyCommittedShows, NoRow
  <1>4. QED
    BY <1>1, <1>2, <1>3 DEF IInv

-----------------------------------------------------------------------------
(* The actions of a request, one lemma each.                               *)

LEMMA ArriveIInv ==
  ASSUME IInv, NEW q \in Requests, NEW o \in {"record", "close", "reflect"},
         NEW t \in Trades, NEW v \in Row, NEW s \in {"written", "loaded", "failed"},
         Arrive(q, o, t, v, s),
         o = "record" => /\ \A p \in Requests : op[p] = "record" => trade[p] # t
                         /\ s = "written" /\ v = NewTrade /\ base[q] = NoRow
                         /\ db[t] = NoRow,
         o # "record" /\ s # "failed" =>
           /\ s = "loaded"
           /\ db[t].status # "absent"
           /\ o = "reflect" => db[t].status = "closed"
           /\ v.status = "closed"
           /\ v.closed_at \in {q, db[t].closed_at}
           /\ v.closed_at = q => o = "close"
           /\ v.reflection \in {q, db[t].reflection}
           /\ v.reflection = q => o = "reflect"
           /\ v.notes \subseteq db[t].notes \cup {q}
  PROVE  IInv'
  <1> USE DEF IInv
  <1>1. TypeOK'
    BY DEF TypeOK, Arrive, Steps
  <1>2. Started'
    BY DEF TypeOK, Started, Arrive
  <1>3. Creating'
    BY DEF TypeOK, Started, Creating, Arrive, Active
  <1>4. Editing'
    BY DEF TypeOK, Editing, Arrive, Active
  <1>5. Carrying'
    <2> SUFFICES ASSUME NEW p \in Requests, Active(p)'
                 PROVE  /\ view'[p].closed_at \notin {NULL, p} =>
                             ClosedEvent(trade'[p], view'[p].closed_at) \in events'
                        /\ view'[p].closed_at = p => op'[p] = "close"
                        /\ view'[p].reflection \notin {NULL, p} =>
                             [source_trade_id |-> trade'[p], by |-> view'[p].reflection]
                               \in records'
                        /\ view'[p].reflection = p => op'[p] = "reflect"
                        /\ \A r \in (view'[p].notes \cup {view'[p].closed_at,
                                       view'[p].reflection}) \ {NULL, p} :
                             pc'[r] = "done"
      BY DEF Carrying
    <2>1. \A r \in Requests : pc[r] = "done" => pc'[r] = "done"
      BY DEF Arrive, TypeOK
    <2>2. CASE p # q
      BY <2>1, <2>2 DEF Arrive, TypeOK, Carrying, Active, Row, ClosedEvent
    <2>3. CASE p = q /\ o = "record"
      BY <2>3, NullAssumption DEF Arrive, TypeOK, NewTrade, NoRow
    <2>4. CASE p = q /\ o # "record"
      <3>1. /\ view'[p] = v /\ trade'[p] = t /\ op'[p] = o /\ pc'[p] = s
            /\ UNCHANGED <<events, records>>
        BY <2>4 DEF Arrive, TypeOK
      <3>2. s = "loaded"
        BY <2>4, <3>1 DEF Active
      <3>3. v.closed_at \notin {NULL, q} => ClosedEvent(t, v.closed_at) \in events
        BY <2>4, <3>2 DEF NoSilentChange, ClosedEvent
      <3>4. v.reflection \notin {NULL, q} =>
              [source_trade_id |-> t, by |-> v.reflection] \in records
        BY <2>4, <3>2 DEF ReflectionIsRemembered
      <3>5. \A r \in (v.notes \cup {v.closed_at, v.reflection}) \ {NULL, q} : pc'[r] = "done"
        BY <2>1, <2>4, <3>2 DEF OnlyCommittedShows, TypeOK, Row
      <3>6. QED
        BY <2>4, <3>1, <3>2, <3>3, <3>4, <3>5
    <2>5. QED
      BY <2>2, <2>3, <2>4
  <1>6. Said'
    <2> SUFFICES ASSUME NEW p \in Requests, pc'[p] \in {"published", "done"}
                 PROVE  OwnEvent(p)' \in events'
      BY DEF Said
    <2>1. p # q /\ pc'[p] = pc[p] /\ op'[p] = op[p] /\ trade'[p] = trade[p]
      BY DEF Arrive, TypeOK
    <2>2. QED
      BY <2>1 DEF Said, Arrive, OwnEvent
  <1>7. NoSilentChange' /\ ReflectionIsRemembered'
    BY DEF NoSilentChange, ReflectionIsRemembered, Arrive
  <1>8. OnlyCommittedShows'
    BY DEF OnlyCommittedShows, Arrive, TypeOK, Row, Record
  <1>9. QED
    BY <1>1, <1>2, <1>3, <1>4, <1>5, <1>6, <1>7, <1>8

LEMMA RecordSaveIInv ==
  ASSUME IInv, NEW q \in Requests, NEW t \in Trades, RecordSave(q, t)
  PROVE  IInv'
  <1>1. NewTrade \in Row
    BY DEF NewTrade, NoRow, Row
  <1>2. db[t] = NoRow /\ base[q] = NoRow
    BY DEF RecordSave, Arrive, IInv, Started, Creating
  <1>3. QED
    BY <1>1, <1>2, ArriveIInv DEF RecordSave

LEMMA CloseLoadIInv ==
  ASSUME IInv, NEW q \in Requests, NEW t \in Trades, NEW exit \in Prices,
         NEW result \in Results, NEW withNotes \in BOOLEAN,
         CloseLoad(q, t, exit, result, withNotes)
  PROVE  IInv'
  <1> DEFINE v == [db[t] EXCEPT !.status = "closed", !.exit = exit,
                                !.result = result, !.closed_at = q,
                                !.notes = IF withNotes THEN @ \cup {q} ELSE @]
  <1>1. db[t] \in Row /\ NoRow \in Row
    BY DEF IInv, TypeOK, Row, NoRow
  <1>2. CASE Arrive(q, "close", t, v, "loaded") /\ Closable(db[t])
    <2>1. /\ v \in Row
          /\ v.status = "closed" /\ v.closed_at = q
          /\ v.reflection = db[t].reflection
          /\ v.notes \subseteq db[t].notes \cup {q}
      BY <1>1 DEF Row
    <2>2. v.reflection # q
      BY <2>1, <1>2, NullAssumption DEF IInv, OnlyCommittedShows, Arrive
    <2>3. QED
      BY <1>2, <2>1, <2>2, ArriveIInv DEF Closable
  <1>3. CASE Arrive(q, "close", t, NoRow, "failed")
    BY <1>1, <1>3, ArriveIInv
  <1>4. QED
    BY <1>2, <1>3 DEF CloseLoad

LEMMA ReflectLoadIInv ==
  ASSUME IInv, NEW q \in Requests, NEW t \in Trades, ReflectLoad(q, t)
  PROVE  IInv'
  <1> DEFINE v == [db[t] EXCEPT !.reflection = q]
  <1>1. db[t] \in Row /\ NoRow \in Row
    BY DEF IInv, TypeOK, Row, NoRow
  <1>2. CASE Arrive(q, "reflect", t, v, "loaded") /\ Reflectable(db[t])
    <2>1. /\ v \in Row
          /\ v.status = "closed" /\ v.closed_at = db[t].closed_at
          /\ v.reflection = q
          /\ v.notes \subseteq db[t].notes \cup {q}
      BY <1>1, <1>2 DEF Row, Reflectable
    <2>2. v.closed_at # q
      BY <2>1, <1>2, NullAssumption DEF IInv, OnlyCommittedShows, Arrive, TypeOK, Row
    <2>3. QED
      BY <1>2, <2>1, <2>2, ArriveIInv DEF Reflectable
  <1>3. CASE Arrive(q, "reflect", t, NoRow, "failed")
    BY <1>1, <1>3, ArriveIInv
  <1>4. QED
    BY <1>2, <1>3 DEF ReflectLoad

\* While a request runs, only its step and its second read change.
LEMMA RereadIInv ==
  ASSUME IInv, NEW q \in Requests, Reread(q)
  PROVE  IInv'
  <1> USE DEF IInv
  <1>1. trade[q] \in Trades /\ op[q] \in {"record", "close", "reflect"}
    BY DEF Reread, Started
  <1>2. op[q] # "record"
    BY DEF Reread, Creating, Active
  <1>3. TypeOK'
    BY <1>1 DEF TypeOK, Reread, Steps
  <1>4. Started'
    BY DEF TypeOK, Started, Reread
  <1>5. Creating'
    BY <1>2 DEF TypeOK, Creating, Reread, Active
  <1>6. Editing'
    BY <1>1 DEF TypeOK, Editing, Reread, Active
  <1>7. Carrying'
    BY DEF TypeOK, Carrying, Reread, Active, ClosedEvent
  <1>8. Said'
    BY DEF TypeOK, Said, Reread, OwnEvent
  <1>9. NoSilentChange' /\ ReflectionIsRemembered'
    BY DEF NoSilentChange, ReflectionIsRemembered, Reread
  <1>10. OnlyCommittedShows'
    BY DEF OnlyCommittedShows, Reread, TypeOK
  <1>11. QED
    BY <1>3, <1>4, <1>5, <1>6, <1>7, <1>8, <1>9, <1>10

LEMMA WriteIInv ==
  ASSUME IInv, NEW q \in Requests, Write(q)
  PROVE  IInv'
  <1> USE DEF IInv
  <1>1. trade[q] \in Trades
    BY DEF Write, Started
  <1>2. TypeOK'
    BY <1>1 DEF TypeOK, Write, Steps
  <1>3. Started' /\ Creating' /\ Editing'
    BY DEF TypeOK, Started, Creating, Editing, Write, Active
  <1>4. Carrying'
    BY DEF TypeOK, Carrying, Write, Active, ClosedEvent
  <1>5. Said'
    BY DEF TypeOK, Said, Write, OwnEvent
  <1>6. NoSilentChange' /\ ReflectionIsRemembered'
    BY DEF NoSilentChange, ReflectionIsRemembered, Write
  <1>7. OnlyCommittedShows'
    BY DEF OnlyCommittedShows, Write, TypeOK
  <1>8. QED
    BY <1>2, <1>3, <1>4, <1>5, <1>6, <1>7

LEMMA PublishIInv ==
  ASSUME IInv, NEW q \in Requests, Publish(q)
  PROVE  IInv'
  <1> USE DEF IInv
  <1>1. trade[q] \in Trades /\ op[q] \in {"record", "close", "reflect"}
    BY DEF Publish, Started
  <1>2. events' = events \cup {OwnEvent(q)} /\ OwnEvent(q) \in Event
    BY <1>1 DEF Publish, OwnEvent, EventOf, Event
  <1>3. TypeOK'
    BY <1>2 DEF TypeOK, Publish, Steps
  <1>4. Started' /\ Creating' /\ Editing'
    BY DEF TypeOK, Started, Creating, Editing, Publish, Active
  <1>5. Carrying'
    BY <1>2 DEF TypeOK, Carrying, Publish, Active, ClosedEvent
  <1>6. Said'
    BY <1>2 DEF TypeOK, Said, Publish, OwnEvent
  <1>7. NoSilentChange' /\ ReflectionIsRemembered'
    BY <1>2 DEF NoSilentChange, ReflectionIsRemembered, Publish
  <1>8. OnlyCommittedShows'
    BY DEF OnlyCommittedShows, Publish, TypeOK
  <1>9. QED
    BY <1>3, <1>4, <1>5, <1>6, <1>7, <1>8

LEMMA AbortIInv ==
  ASSUME IInv, NEW q \in Requests, Abort(q)
  PROVE  IInv'
  <1> USE DEF IInv
  <1>1. NoRow \in Row
    BY DEF NoRow, Row
  <1>2. TypeOK'
    BY <1>1 DEF TypeOK, Abort, EndSession, Steps
  <1>3. Started' /\ Creating' /\ Editing'
    BY DEF TypeOK, Started, Creating, Editing, Abort, EndSession, Active
  <1>4. Carrying'
    BY DEF TypeOK, Carrying, Abort, EndSession, Active, ClosedEvent
  <1>5. Said'
    BY DEF TypeOK, Said, Abort, EndSession, OwnEvent
  <1>6. NoSilentChange' /\ ReflectionIsRemembered'
    BY DEF NoSilentChange, ReflectionIsRemembered, Abort, EndSession
  <1>7. OnlyCommittedShows'
    BY DEF OnlyCommittedShows, Abort, EndSession, TypeOK
  <1>8. QED
    BY <1>2, <1>3, <1>4, <1>5, <1>6, <1>7

\* What a commit leaves: a new trade where there was none, or a closed one
\* where there was one.
LEMMA CommitRow ==
  ASSUME IInv, NEW q \in Requests, Commit(q)
  PROVE  /\ trade[q] \in Trades /\ op[q] \in {"record", "close", "reflect"}
         /\ db' = [db EXCEPT ![trade[q]] = Merge(view[q], base[q], db[trade[q]])]
         /\ db'[trade[q]] \in Row
         /\ op[q] = "record" => db[trade[q]] = NoRow /\ db'[trade[q]] = NewTrade
         /\ op[q] # "record" => db[trade[q]].status # "absent" /\ db'[trade[q]].status = "closed"
         /\ op[q] = "reflect" => db[trade[q]].status = "closed"
         /\ OwnEvent(q) \in events /\ OwnEvent(q)' = OwnEvent(q)
  <1> USE DEF IInv
  <1> DEFINE t == trade[q]
             n == Merge(view[q], base[q], db[t])
  <1>1. /\ t \in Trades /\ op[q] \in {"record", "close", "reflect"}
        /\ Active(q) /\ pc[q] = "published"
    BY DEF Commit, Started, Active
  <1>2. /\ view[q] \in Row /\ base[q] \in Row /\ db[t] \in Row
    BY <1>1 DEF TypeOK
  <1>3. n \in Row
    BY <1>2, MergeType
  <1>4. db' = [db EXCEPT ![t] = n] /\ db'[t] = n
    BY <1>1 DEF Commit, TypeOK
  <1>5. op[q] = "record" => db[t] = NoRow /\ n = NewTrade
    BY <1>1, MergeInsert DEF Creating
  <1>6. op[q] # "record" => db[t].status # "absent" /\ n.status = "closed"
    BY <1>1, <1>2, MergeColumns DEF Editing
  <1>7. op[q] = "reflect" => db[t].status = "closed"
    BY <1>1 DEF Editing
  <1>8. OwnEvent(q) \in events /\ OwnEvent(q)' = OwnEvent(q)
    BY <1>1 DEF Said, OwnEvent, Commit, EndSession
  <1>9. QED
    BY <1>1, <1>3, <1>4, <1>5, <1>6, <1>7, <1>8

\* The row a commit leaves may mix its writer's copy with what others had
\* committed; every author it names had committed, and is in the events.
LEMMA CommitIInv ==
  ASSUME IInv, NEW q \in Requests, Commit(q)
  PROVE  IInv'
  <1> USE DEF IInv
  <1> DEFINE t == trade[q]
             n == Merge(view[q], base[q], db[t])
  <1>1. /\ t \in Trades /\ op[q] \in {"record", "close", "reflect"}
        /\ Active(q) /\ pc[q] = "published"
    BY DEF Commit, Started, Active
  <1>2. /\ view[q] \in Row /\ base[q] \in Row /\ db[t] \in Row /\ NoRow \in Row
    BY <1>1 DEF TypeOK, NoRow, Row
  <1>3. n \in Row
    BY <1>2, MergeType
  <1>4. /\ db' = [db EXCEPT ![t] = n]
        /\ pc' = [pc EXCEPT ![q] = "done"]
        /\ UNCHANGED <<events, op, trade>>
        /\ \A p \in Requests : p # q => view'[p] = view[p] /\ base'[p] = base[p]
    BY DEF Commit, EndSession, TypeOK
  <1>5. /\ records \subseteq records'
        /\ op[q] = "reflect" => [source_trade_id |-> t, by |-> q] \in records'
        /\ \A m \in records' :
             m \in records \/ (op[q] = "reflect" /\ m = [source_trade_id |-> t, by |-> q])
    BY DEF Commit
  <1>6. op[q] = "record" => n = NewTrade
    BY <1>1, <1>4, CommitRow DEF TypeOK
  <1>7. op[q] # "record" => n.status = "closed" /\ db[t].status # "absent"
    BY <1>1, <1>4, CommitRow DEF TypeOK
  <1>8. /\ n.closed_at \in {view[q].closed_at, db[t].closed_at}
        /\ n.reflection \in {view[q].reflection, db[t].reflection}
        /\ n.notes \in {view[q].notes, db[t].notes}
    BY <1>2, MergeColumns
  <1>9. OwnEvent(q) \in events
    BY <1>1 DEF Said
  <1>10. \A p \in Requests : pc'[p] = "done" <=> (pc[p] = "done" \/ p = q)
    BY <1>4 DEF TypeOK
  <1>11. \A p \in Requests : Active(p)' => p # q /\ Active(p) /\ pc'[p] = pc[p]
    BY <1>4 DEF TypeOK, Active
  <1>12. TypeOK'
    BY <1>1, <1>2, <1>3 DEF TypeOK, Commit, EndSession, Record, Steps
  <1>13. Started'
    BY <1>1, <1>4 DEF TypeOK, Started
  <1>14. Creating'
    <2>1. ASSUME NEW p \in Requests, op[p] = "record", Active(p)'
          PROVE  db'[trade[p]] = NoRow
      <3>1. db[trade[p]] = NoRow /\ p # q
        BY <2>1, <1>11 DEF Creating
      <3>2. trade[p] # t
        BY <2>1, <3>1, <1>1, <1>7 DEF Creating, NoRow
      <3>3. QED
        BY <3>1, <3>2, <1>4, <1>1 DEF TypeOK
    <2>2. ASSUME NEW u \in Trades, db'[u] # NoRow
          PROVE  \E p \in Requests : op[p] = "record" /\ trade[p] = u
      <3>1. CASE op[q] = "record" /\ u = t
        BY <3>1
      <3>2. CASE op[q] # "record" /\ u = t
        BY <3>2, <1>7 DEF Creating, NoRow
      <3>3. CASE u # t
        BY <3>3, <2>2, <1>4 DEF Creating, TypeOK
      <3>4. QED
        BY <3>1, <3>2, <3>3
    <2>3. QED
      BY <2>1, <2>2, <1>4, <1>11 DEF Creating
  <1>15. Editing'
    <2> SUFFICES ASSUME NEW p \in Requests, op[p] \in {"close", "reflect"}, Active(p)'
                 PROVE  /\ db'[trade[p]].status # "absent"
                        /\ op[p] = "reflect" => db'[trade[p]].status = "closed"
                        /\ view'[p].status = "closed"
                        /\ pc'[p] # "loaded" /\ base'[p].status = "closed"
                             => db'[trade[p]].status = "closed"
      BY <1>4 DEF Editing
    <2>1. p # q /\ Active(p) /\ pc'[p] = pc[p] /\ view'[p] = view[p] /\ base'[p] = base[p]
      BY <1>4, <1>11
    <2>2. CASE trade[p] # t
      BY <2>1, <2>2, <1>4 DEF Editing, TypeOK
    <2>3. CASE trade[p] = t
      <3>1. op[q] # "record"
        BY <2>1, <2>3, <1>1 DEF Creating, Editing, NoRow
      <3>2. db'[t].status = "closed"
        BY <3>1, <1>1, <1>4, <1>7 DEF TypeOK
      <3>3. QED
        BY <2>1, <2>3, <3>2 DEF Editing
    <2>4. QED
      BY <2>2, <2>3
  <1>16. Carrying'
    BY <1>4, <1>5, <1>10, <1>11 DEF Carrying, ClosedEvent, TypeOK, Row
  <1>17. Said'
    BY <1>4, <1>9 DEF Said, OwnEvent, TypeOK
  <1>18. NoSilentChange'
    <2>1. ASSUME NEW u \in Trades, db'[u].status # "absent"
          PROVE  \E p \in Requests :
                   [event |-> "trade.opened", trade |-> u, by |-> p] \in events
      <3>1. CASE u = t /\ op[q] = "record"
        BY <3>1, <1>9 DEF OwnEvent, EventOf
      <3>2. CASE u = t /\ op[q] # "record"
        BY <3>2, <1>7 DEF NoSilentChange
      <3>3. CASE u # t
        BY <3>3, <2>1, <1>4 DEF NoSilentChange, TypeOK
      <3>4. QED
        BY <3>1, <3>2, <3>3
    <2>2. ASSUME NEW u \in Trades, db'[u].closed_at # NULL
          PROVE  ClosedEvent(u, db'[u].closed_at) \in events
      <3>1. CASE u = t /\ n.closed_at = q /\ view[q].closed_at = q
        BY <3>1, <1>1, <1>4, <1>9 DEF Carrying, OwnEvent, EventOf, ClosedEvent, TypeOK
      <3>2. CASE u = t /\ n.closed_at = view[q].closed_at /\ view[q].closed_at # q
        BY <3>2, <2>2, <1>1, <1>4 DEF Carrying, ClosedEvent, TypeOK
      <3>3. CASE u # t \/ n.closed_at = db[t].closed_at
        BY <3>3, <2>2, <1>4 DEF NoSilentChange, ClosedEvent, TypeOK
      <3>4. QED
        BY <3>1, <3>2, <3>3, <1>8
    <2>3. ASSUME NEW m \in records'
          PROVE  [event |-> "trade.reflected", trade |-> m.source_trade_id,
                  by |-> m.by] \in events
      BY <2>3, <1>5, <1>9 DEF NoSilentChange, OwnEvent, EventOf
    <2>4. QED
      BY <2>1, <2>2, <2>3, <1>4 DEF NoSilentChange, ClosedEvent
  <1>19. ReflectionIsRemembered'
    <2> SUFFICES ASSUME NEW u \in Trades, db'[u].reflection # NULL
                 PROVE  [source_trade_id |-> u, by |-> db'[u].reflection] \in records'
      BY DEF ReflectionIsRemembered
    <2>1. CASE u # t \/ n.reflection = db[t].reflection
      BY <2>1, <1>4, <1>5 DEF ReflectionIsRemembered, TypeOK
    <2>2. CASE u = t /\ n.reflection = view[q].reflection
      BY <2>2, <1>1, <1>4, <1>5 DEF Carrying, TypeOK
    <2>3. QED
      BY <2>1, <2>2, <1>8
  <1>20. OnlyCommittedShows'
    <2>1. ASSUME NEW u \in Trades,
                 NEW p \in db'[u].notes \cup ({db'[u].closed_at, db'[u].reflection} \ {NULL})
          PROVE  pc'[p] = "done"
      <3>1. p \in Requests /\ p # NULL
        BY <2>1, <1>12, NullAssumption DEF TypeOK, Row
      <3>2. CASE p \in db[u].notes \cup {db[u].closed_at, db[u].reflection}
        BY <3>1, <3>2, <1>10 DEF OnlyCommittedShows
      <3>3. CASE u = t /\ p \in view[q].notes \cup {view[q].closed_at, view[q].reflection}
        BY <3>1, <3>3, <1>1, <1>10 DEF Carrying
      <3>4. CASE u = t
        <4>1. db'[u] = n
          BY <3>4, <1>1, <1>4 DEF TypeOK
        <4>2. p \in n.notes \/ p = n.closed_at \/ p = n.reflection
          BY <4>1, <2>1
        <4>3. QED
          BY <4>2, <3>2, <3>3, <3>4, <1>8
      <3>5. CASE u # t
        BY <2>1, <3>2, <3>5, <1>4 DEF TypeOK
      <3>6. QED
        BY <3>4, <3>5
    <2>2. ASSUME NEW m \in records'
          PROVE  pc'[m.by] = "done"
      BY <2>2, <1>5, <1>10 DEF OnlyCommittedShows, TypeOK, Record
    <2>3. QED
      BY <2>1, <2>2 DEF OnlyCommittedShows
  <1>21. QED
    BY <1>12, <1>13, <1>14, <1>15, <1>16, <1>17, <1>18, <1>19, <1>20

LEMMA NextIInv == IInv /\ [Next]_vars => IInv'
  <1> SUFFICES ASSUME IInv, [Next]_vars PROVE IInv'
    OBVIOUS
  <1>1. CASE UNCHANGED vars
    <2> USE <1>1 DEF vars, IInv
    <2>1. TypeOK' /\ Started' /\ Creating' /\ Editing'
      BY DEF TypeOK, Started, Creating, Editing, Active
    <2>2. Carrying' /\ Said'
      BY DEF Carrying, Said, Active, ClosedEvent, OwnEvent
    <2>3. NoSilentChange' /\ ReflectionIsRemembered' /\ OnlyCommittedShows'
      BY DEF NoSilentChange, ReflectionIsRemembered, OnlyCommittedShows
    <2>4. QED
      BY <2>1, <2>2, <2>3
  <1>2. ASSUME NEW q \in Requests, NEW t \in Trades, RecordSave(q, t)
        PROVE  IInv'
    BY <1>2, RecordSaveIInv
  <1>3. ASSUME NEW q \in Requests, NEW t \in Trades, NEW exit \in Prices,
               NEW result \in Results, NEW withNotes \in BOOLEAN,
               CloseLoad(q, t, exit, result, withNotes)
        PROVE  IInv'
    BY <1>3, CloseLoadIInv
  <1>4. ASSUME NEW q \in Requests, NEW t \in Trades, ReflectLoad(q, t)
        PROVE  IInv'
    BY <1>4, ReflectLoadIInv
  <1>5. ASSUME NEW q \in Requests, Serve(q)
        PROVE  IInv'
    BY <1>5, RereadIInv, WriteIInv, PublishIInv, CommitIInv DEF Serve
  <1>6. ASSUME NEW q \in Requests, Abort(q)
        PROVE  IInv'
    BY <1>6, AbortIInv
  <1>7. QED
    BY <1>1, <1>2, <1>3, <1>4, <1>5, <1>6 DEF Next

-----------------------------------------------------------------------------
(* The theorems.                                                           *)

\* IInv holds throughout, whatever the requests, trades and interleaving.
THEOREM Invariance == Spec => []IInv
  BY InitIInv, NextIInv, PTL DEF Spec

\* Every variable keeps its type, however requests interleave and fail.
THEOREM TypeCorrect == Spec => []TypeOK
  BY Invariance, PTL DEF IInv

\* Nothing becomes visible in the database that was not published before
\* (publish precedes commit in every use case, and get_db rolls back).
THEOREM NothingSilent == Spec => []NoSilentChange
  BY Invariance, PTL DEF IInv

\* The reflection of a trade is always the content of a memory record.
THEOREM ReflectionRemembered == Spec => []ReflectionIsRemembered
  BY Invariance, PTL DEF IInv

\* Failed and running requests leave no trace in the committed data.
THEOREM NoTraceOfOthers == Spec => []OnlyCommittedShows
  BY Invariance, PTL DEF IInv

\* Only a commit changes rows and records, and only a publish adds an event.
LEMMA VisibleSteps ==
  ASSUME [Next]_vars
  PROVE  \/ UNCHANGED <<db, records, events>>
         \/ \E q \in Requests : Publish(q) \/ Commit(q)
  <1>1. ASSUME NEW q, NEW o, NEW t, NEW v, NEW s, Arrive(q, o, t, v, s)
        PROVE  UNCHANGED <<db, records, events>>
    BY <1>1 DEF Arrive
  <1>2. ASSUME NEW q \in Requests, NEW t \in Trades, RecordSave(q, t)
        PROVE  UNCHANGED <<db, records, events>>
    BY <1>1, <1>2 DEF RecordSave
  <1>3. ASSUME NEW q \in Requests, NEW t \in Trades, NEW exit \in Prices,
               NEW result \in Results, NEW withNotes \in BOOLEAN,
               CloseLoad(q, t, exit, result, withNotes)
        PROVE  UNCHANGED <<db, records, events>>
    BY <1>1, <1>3 DEF CloseLoad
  <1>4. ASSUME NEW q \in Requests, NEW t \in Trades, ReflectLoad(q, t)
        PROVE  UNCHANGED <<db, records, events>>
    BY <1>1, <1>4 DEF ReflectLoad
  <1>5. ASSUME NEW q \in Requests, Reread(q) \/ Write(q) \/ Abort(q)
        PROVE  UNCHANGED <<db, records, events>>
    BY <1>5 DEF Reread, Write, Abort, EndSession
  <1>6. CASE UNCHANGED vars
    BY <1>6 DEF vars
  <1>7. QED
    BY <1>2, <1>3, <1>4, <1>5, <1>6 DEF Next, Serve

\* No trade disappears and no closed trade opens again, although requests
\* merge stale copies over the row.
THEOREM ClosedStaysClosed == Spec => ClosedIsFinal
  <1> DEFINE Final == \A t \in Trades :
               /\ db[t].status # "absent" => db'[t].status # "absent"
               /\ db[t].status = "closed" => db'[t].status = "closed"
  <1>1. IInv /\ [Next]_vars => [Final]_vars
    <2> SUFFICES ASSUME IInv, [Next]_vars, NEW t \in Trades
                 PROVE  /\ db[t].status # "absent" => db'[t].status # "absent"
                        /\ db[t].status = "closed" => db'[t].status = "closed"
      OBVIOUS
    <2>1. CASE UNCHANGED db
      BY <2>1
    <2>2. ASSUME NEW q \in Requests, Commit(q), trade[q] = t
          PROVE  /\ db[t].status # "absent" => db'[t].status # "absent"
                 /\ db[t].status = "closed" => db'[t].status = "closed"
      BY <2>2, CommitRow DEF NoRow, NewTrade
    <2>3. ASSUME NEW q \in Requests, Commit(q), trade[q] # t
          PROVE  db'[t] = db[t]
      BY <2>3, CommitRow DEF IInv, TypeOK
    <2>4. ASSUME NEW q \in Requests, Publish(q)
          PROVE  UNCHANGED db
      BY <2>4 DEF Publish
    <2>5. QED
      BY <2>1, <2>2, <2>3, <2>4, VisibleSteps
  <1>2. QED
    BY <1>1, Invariance, PTL DEF Spec, ClosedIsFinal

-----------------------------------------------------------------------------
(* TradeJournal implements TradeLifecycle.                                 *)

life == [t \in Trades |-> db[t].status]
announced == [t \in Trades |-> Announced(t)]
learned == {m.source_trade_id : m \in records}

LEMMA PublishAnnounces ==
  ASSUME IInv, NEW q \in Requests, Publish(q)
  PROVE  Lifecycle!Next
  <1> USE DEF IInv
  <1> DEFINE t == trade[q]
             e == EventOf(op[q])
  <1>1. t \in Trades /\ op[q] \in {"record", "close", "reflect"} /\ Active(q)
    BY DEF Publish, Started, Active
  <1>2. e \in {"trade.opened", "trade.closed", "trade.reflected"}
    BY <1>1 DEF EventOf
  <1>3. /\ op[q] = "record" => e = "trade.opened" /\ db[t].status = "absent"
        /\ op[q] = "close" => e = "trade.closed" /\ db[t].status # "absent"
        /\ op[q] = "reflect" => e = "trade.reflected" /\ db[t].status = "closed"
    BY <1>1 DEF EventOf, Creating, Editing, NoRow
  <1>4. Lifecycle!MayAnnounce(t, e)
    BY <1>1, <1>3 DEF Lifecycle!MayAnnounce
  <1>5. ASSUME NEW u \in Trades
        PROVE  Announced(u)' = IF u = t THEN Announced(u) \cup {e} ELSE Announced(u)
    <2>1. events' = events \cup {OwnEvent(q)}
      BY DEF Publish, OwnEvent
    <2>2. OwnEvent(q).trade = t /\ OwnEvent(q).event = e
      BY DEF OwnEvent
    <2>3. CASE u = t
      BY <2>1, <2>2, <2>3 DEF Announced
    <2>4. CASE u # t
      BY <2>1, <2>2, <2>4 DEF Announced
    <2>5. QED
      BY <2>3, <2>4
  <1>6. announced' = [announced EXCEPT ![t] = @ \cup {e}]
    BY <1>1, <1>5 DEF announced
  <1>7. UNCHANGED <<life, learned>>
    BY DEF Publish, life, learned
  <1>8. Lifecycle!Announce(t, e)
    BY <1>4, <1>6, <1>7 DEF Lifecycle!Announce, life, announced, learned
  <1>9. QED
    BY <1>1, <1>2, <1>8 DEF Lifecycle!Next

LEMMA CommitFollows ==
  ASSUME IInv, NEW q \in Requests, Commit(q)
  PROVE  [Lifecycle!Next]_(Lifecycle!vars)
  <1> USE DEF IInv
  <1>0. PICK t \in Trades : t = trade[q]
    BY CommitRow
  <1>1. /\ t \in Trades /\ trade[q] = t
        /\ op[q] \in {"record", "close", "reflect"}
        /\ db \in [Trades -> Row]
    BY <1>0, CommitRow DEF TypeOK
  <1>2. announced' = announced
    BY DEF Commit, EndSession, Announced, announced
  <1>3. life' = [life EXCEPT ![t] = db'[t].status]
    BY <1>1, CommitRow DEF life
  <1>4. EventOf(op[q]) \in announced[t]
    <2>1. OwnEvent(q) \in events
      BY <1>1, CommitRow
    <2>2. OwnEvent(q).trade = t /\ OwnEvent(q).event = EventOf(op[q])
      BY <1>1 DEF OwnEvent
    <2>3. EventOf(op[q]) \in Announced(t)
      BY <2>1, <2>2 DEF Announced
    <2>4. QED
      BY <1>1, <2>3 DEF announced
  <1>5. learned' = IF op[q] = "reflect" THEN learned \cup {t} ELSE learned
    <2>1. CASE op[q] = "reflect"
      <3> DEFINE m == [source_trade_id |-> t, by |-> q]
      <3>1. records' = records \cup {m} /\ m.source_trade_id = t
        BY <1>1, <2>1 DEF Commit
      <3>2. QED
        BY <2>1, <3>1 DEF learned
    <2>2. CASE op[q] # "reflect"
      BY <1>1, <2>2 DEF Commit, learned
    <2>3. QED
      BY <2>1, <2>2
  <1>6. CASE op[q] = "record"
    <2>1. db[t].status = "absent" /\ db'[t].status = "open"
      BY <1>1, <1>6, CommitRow DEF NoRow, NewTrade
    <2>2. "trade.opened" \in announced[t]
      BY <1>4, <1>6 DEF EventOf
    <2>3. Lifecycle!Open(t)
      BY <1>1, <1>2, <1>3, <1>5, <1>6, <2>1, <2>2
         DEF Lifecycle!Open, life, announced, learned
    <2>4. Lifecycle!Next
      BY <1>1, <2>3 DEF Lifecycle!Next
    <2>5. QED
      BY <2>4
  <1>7. CASE op[q] = "close" /\ db[t].status = "open"
    <2>1. Lifecycle!Close(t)
      BY <1>1, <1>2, <1>3, <1>4, <1>5, <1>7, CommitRow
         DEF Lifecycle!Close, life, announced, learned, EventOf
    <2>2. Lifecycle!Next
      BY <1>1, <2>1 DEF Lifecycle!Next
    <2>3. QED
      BY <2>2
  <1>8. CASE op[q] = "close" /\ db[t].status # "open"
    <2>1. db[t].status = "closed" /\ db'[t].status = "closed"
      BY <1>1, <1>8, CommitRow DEF Row
    <2>2. life' = life
      BY <1>1, <1>3, <2>1 DEF life
    <2>3. QED
      BY <1>2, <1>5, <1>8, <2>2 DEF Lifecycle!vars, life, announced, learned
  <1>9. CASE op[q] = "reflect"
    <2>1. db[t].status = "closed" /\ db'[t].status = "closed"
      BY <1>1, <1>9, CommitRow
    <2>2. life' = life
      BY <1>1, <1>3, <2>1 DEF life
    <2>3. Lifecycle!Learn(t)
      BY <1>1, <1>2, <1>4, <1>5, <1>9, <2>1, <2>2
         DEF Lifecycle!Learn, life, announced, learned, EventOf
    <2>4. Lifecycle!Next
      BY <1>1, <2>3 DEF Lifecycle!Next
    <2>5. QED
      BY <2>4
  <1>10. QED
    BY <1>1, <1>6, <1>7, <1>8, <1>9

\* The journal keeps what TradeLifecycle promises: trades move forward only,
\* each move was announced before, and lessons come from closed trades.
THEOREM ImplementsLifecycle == Spec => FollowsLifecycle
  <1>1. Init => Lifecycle!Init
    BY DEF Init, Lifecycle!Init, NoRow, Announced
  <1>2. IInv /\ [Next]_vars => [Lifecycle!Next]_(Lifecycle!vars)
    <2> SUFFICES ASSUME IInv, [Next]_vars
                 PROVE  [Lifecycle!Next]_(Lifecycle!vars)
      OBVIOUS
    <2>1. CASE UNCHANGED <<db, records, events>>
      BY <2>1 DEF Lifecycle!vars, Announced
    <2>2. ASSUME NEW q \in Requests, Publish(q)
          PROVE  Lifecycle!Next
      BY <2>2, PublishAnnounces
    <2>3. ASSUME NEW q \in Requests, Commit(q)
          PROVE  [Lifecycle!Next]_(Lifecycle!vars)
      BY <2>3, CommitFollows
    <2>4. QED
      BY <2>1, <2>2, <2>3, VisibleSteps
  <1>3. QED
    BY <1>1, <1>2, Invariance, PTL DEF Spec, FollowsLifecycle, Lifecycle!Spec
=============================================================================
