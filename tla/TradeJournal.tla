---------------------------- MODULE TradeJournal ----------------------------
(***************************************************************************)
(* The trading journal: POST /trades, PUT /trades/{id}/close and           *)
(* POST /trades/{id}/reflect, served concurrently over PostgreSQL (READ    *)
(* COMMITTED) and announced on Redis.                                      *)
(*                                                                         *)
(* Every request owns one database session (get_db): it commits when the   *)
(* handler returns and rolls back when anything in it raises.  A handler   *)
(* reads the trade, edits the domain object, and repository.update reads   *)
(* the row again and writes the columns that differ from that second read. *)
(* The event is published before the commit.  Each await between these     *)
(* steps lets the other requests run, so each step is an action.           *)
(***************************************************************************)

CONSTANTS
  Requests,   \* the HTTP requests that ever arrive (bounds the model)
  Trades,     \* trade ids; every POST /trades draws a fresh one
  Prices,     \* exit prices; r_realized is a function of the exit price
  Results,    \* the TradeResult values a closing user may send
  NULL        \* a SQL NULL

ASSUME NullAssumption == NULL \notin Requests \cup Prices \cup Results

VARIABLES
  db,         \* committed row of each trade
  records,    \* committed memory records, by source trade and author
  events,     \* everything ever published on the "trading" channel
  lock,       \* holder of the row lock PostgreSQL gives an UPDATE
  pc,         \* how far each request is
  op,         \* the endpoint each request called
  trade,      \* the trade each request is about
  view,       \* its domain object, edited in memory
  base        \* the row as repository.update read it again

vars == <<db, records, events, lock, pc, op, trade, view, base>>

-----------------------------------------------------------------------------
(* Rows.  The columns no endpoint changes after the insert are left out.   *)
(* exit stands for exit and r_realized; closed_at is a clock reading, so   *)
(* it is named by the request that took it, as a reflection text is by the *)
(* request that obtained it and a note by the request that sent it.        *)

Row == [status     : {"absent", "open", "closed"},
        exit       : Prices \cup {NULL},
        result     : Results \cup {NULL},
        closed_at  : Requests \cup {NULL},
        notes      : SUBSET Requests,
        reflection : Requests \cup {NULL}]

NoRow == [status |-> "absent", exit |-> NULL, result |-> NULL,
          closed_at |-> NULL, notes |-> {}, reflection |-> NULL]

NewTrade == [NoRow EXCEPT !.status = "open"]

Record == [source_trade_id : Trades, by : Requests]

Event == [event : {"trade.opened", "trade.closed", "trade.reflected"},
          trade : Trades, by : Requests]

Steps == {"idle", "loaded", "reread", "written", "published", "done", "failed"}

\* The UPDATE a flush emits: the columns of the merged object v that differ
\* from the row b loaded by session.get, over the row's committed version c.
Merge(v, b, c) ==
  LET Column(new, old, current) == IF new # old THEN new ELSE current
  IN  [status     |-> Column(v.status, b.status, c.status),
       exit       |-> Column(v.exit, b.exit, c.exit),
       result     |-> Column(v.result, b.result, c.result),
       closed_at  |-> Column(v.closed_at, b.closed_at, c.closed_at),
       notes      |-> Column(v.notes, b.notes, c.notes),
       reflection |-> Column(v.reflection, b.reflection, c.reflection)]

-----------------------------------------------------------------------------
Init ==
  /\ db = [t \in Trades |-> NoRow]
  /\ records = {}
  /\ events = {}
  /\ lock = [t \in Trades |-> NULL]
  /\ pc = [q \in Requests |-> "idle"]
  /\ op = [q \in Requests |-> "none"]
  /\ trade = [q \in Requests |-> NULL]
  /\ view = [q \in Requests |-> NoRow]
  /\ base = [q \in Requests |-> NoRow]

\* Request q arrives, and its handler gets as far as its first database round
\* trip: it ends at step s with domain object v.
Arrive(q, o, t, v, s) ==
  /\ pc[q] = "idle"
  /\ pc' = [pc EXCEPT ![q] = s]
  /\ op' = [op EXCEPT ![q] = o]
  /\ trade' = [trade EXCEPT ![q] = t]
  /\ view' = [view EXCEPT ![q] = v]
  /\ UNCHANGED <<db, records, events, lock, base>>

\* RecordTradeUseCase: the trade is constructed with a fresh uuid and inserted;
\* no other session sees the row before the commit.
RecordSave(q, t) ==
  /\ \A p \in Requests : op[p] = "record" => trade[p] # t
  /\ Arrive(q, "record", t, NewTrade, "written")

\* Bug variant: only "already closed" is refused, a missing trade is not.
ClosableIfMissing(row) == row.status # "closed"

Closable(row) == row.status = "open"

\* CloseTradeUseCase: get_by_id, the two guards, and the edits, which no await
\* separates from the read.  withNotes: the body carried notes.
CloseLoad(q, t, exit, result, withNotes) ==
  \/ /\ Closable(db[t])
     /\ Arrive(q, "close", t,
               [db[t] EXCEPT !.status = "closed",
                             !.exit = exit,
                             !.result = result,
                             !.closed_at = q,
                             !.notes = IF withNotes THEN @ \cup {q} ELSE @],
               "loaded")
  \/ /\ ~Closable(db[t])            \* 404 not found, 422 already closed
     /\ Arrive(q, "close", t, NoRow, "failed")

\* Bug variant: any trade may be reflected on.
ReflectableWhenOpen(row) == row.status # "absent"

\* ReflectOnTradeUseCase: get_by_id and the three guards; then the AI is asked.
\* The answer comes at any later time, or never (Abort).
Reflectable(row) ==
  /\ row.status = "closed"
  /\ row.exit # NULL
  /\ row.result # NULL

ReflectLoad(q, t) ==
  \/ /\ Reflectable(db[t])
     /\ Arrive(q, "reflect", t, [db[t] EXCEPT !.reflection = q], "loaded")
  \/ /\ ~Reflectable(db[t])         \* 404 not found, 422 must be closed
     /\ Arrive(q, "reflect", t, NoRow, "failed")

\* repository.update, session.get: the first read's row object is gone with
\* get_by_id's frame, so this is a fresh SELECT of what is committed now.
Reread(q) ==
  /\ pc[q] = "loaded"
  /\ pc' = [pc EXCEPT ![q] = "reread"]
  /\ base' = [base EXCEPT ![q] = db[trade[q]]]
  /\ UNCHANGED <<db, records, events, lock, op, trade, view>>

\* repository.update, merge and flush: the UPDATE waits for the row lock and
\* holds it until the transaction ends.  (updated_at always differs, so there
\* always is an UPDATE.)  A reflect request then inserts its memory record.
Write(q) ==
  /\ pc[q] = "reread"
  /\ lock[trade[q]] = NULL
  /\ lock' = [lock EXCEPT ![trade[q]] = q]
  /\ pc' = [pc EXCEPT ![q] = "written"]
  /\ UNCHANGED <<db, records, events, op, trade, view, base>>

\* Bug variant: one kind of event serves a close and an edit alike.
EventOfRenamed(o) == IF o = "record" THEN "trade.opened" ELSE "trade.updated"

EventOf(o) == CASE o = "record"  -> "trade.opened"
                [] o = "close"   -> "trade.closed"
                [] o = "reflect" -> "trade.reflected"

\* Bug variant: a publish that fails is logged and forgotten.
PublishBestEffort(q) ==
  /\ pc[q] = "written"
  /\ \/ UNCHANGED events
     \/ events' = events \cup
          {[event |-> EventOf(op[q]), trade |-> trade[q], by |-> q]}
  /\ pc' = [pc EXCEPT ![q] = "published"]
  /\ UNCHANGED <<db, records, lock, op, trade, view, base>>

\* RedisEventBus.publish, the use case's last call.
Publish(q) ==
  /\ pc[q] = "written"
  /\ events' = events \cup
       {[event |-> EventOf(op[q]), trade |-> trade[q], by |-> q]}
  /\ pc' = [pc EXCEPT ![q] = "published"]
  /\ UNCHANGED <<db, records, lock, op, trade, view, base>>

\* Bug variant: the session is closed without ending its transaction.
EndSessionKeepingLock(q, s) ==
  /\ pc' = [pc EXCEPT ![q] = s]
  /\ view' = [view EXCEPT ![q] = NoRow]
  /\ base' = [base EXCEPT ![q] = NoRow]
  /\ UNCHANGED <<lock, events, op, trade>>

\* The end of a transaction gives back the row lock and closes the session.
EndSession(q, s) ==
  /\ lock' = [t \in Trades |-> IF lock[t] = q THEN NULL ELSE lock[t]]
  /\ pc' = [pc EXCEPT ![q] = s]
  /\ view' = [view EXCEPT ![q] = NoRow]
  /\ base' = [base EXCEPT ![q] = NoRow]
  /\ UNCHANGED <<events, op, trade>>

\* Bug variant: a trade that has a memory record gets no second one.
CommitOneRecordPerTrade(q) ==
  LET t == trade[q]
  IN  /\ pc[q] = "published"
      /\ db' = [db EXCEPT ![t] = Merge(view[q], base[q], @)]
      /\ records' = IF op[q] = "reflect" /\ \A m \in records : m.source_trade_id # t
                    THEN records \cup {[source_trade_id |-> t, by |-> q]}
                    ELSE records
      /\ EndSession(q, "done")

\* get_db after the handler returned: the transaction becomes visible at once.
\* For an insert base is NoRow, and Merge writes every column of the new trade.
Commit(q) ==
  LET t == trade[q]
  IN  /\ pc[q] = "published"
      /\ db' = [db EXCEPT ![t] = Merge(view[q], base[q], @)]
      /\ records' = IF op[q] = "reflect"
                    THEN records \cup {[source_trade_id |-> t, by |-> q]}
                    ELSE records
      /\ EndSession(q, "done")

\* Bug variant: get_db commits in a finally clause.
AbortCommitting(q) ==
  /\ pc[q] \in {"loaded", "reread", "written", "published"}
  /\ EndSession(q, "failed")
  /\ db' = IF pc[q] \in {"written", "published"}
           THEN [db EXCEPT ![trade[q]] = Merge(view[q], base[q], @)]
           ELSE db
  /\ UNCHANGED records

\* get_db on any exception: a database error, the AI provider's failure, Redis
\* refusing the publish, a failed commit, the client's or the server's end.
Abort(q) ==
  /\ pc[q] \in {"loaded", "reread", "written", "published"}
  /\ EndSession(q, "failed")
  /\ UNCHANGED <<db, records>>

Serve(q) == Reread(q) \/ Write(q) \/ Publish(q) \/ Commit(q)

Next ==
  \E q \in Requests :
    \/ \E t \in Trades :
         \/ RecordSave(q, t)
         \/ \E exit \in Prices, result \in Results, withNotes \in BOOLEAN :
              CloseLoad(q, t, exit, result, withNotes)
         \/ ReflectLoad(q, t)
    \/ Serve(q)
    \/ Abort(q)

Spec == Init /\ [][Next]_vars

\* The event loop keeps running the coroutines it has started, and each call
\* they await answers or raises (Redis: socket_timeout, the AI SDK: its own
\* timeout).  Nothing promises that requests arrive, or that they fail.
FairSpec == Spec /\ \A q \in Requests : WF_vars(Serve(q))

-----------------------------------------------------------------------------
TypeOK ==
  /\ db \in [Trades -> Row]
  /\ records \subseteq Record
  /\ events \subseteq Event
  /\ lock \in [Trades -> Requests \cup {NULL}]
  /\ pc \in [Requests -> Steps]
  /\ op \in [Requests -> {"none", "record", "close", "reflect"}]
  /\ trade \in [Requests -> Trades \cup {NULL}]
  /\ view \in [Requests -> Row]
  /\ base \in [Requests -> Row]

\* No committed change is silent: whatever a reader of the database can see was
\* announced by the request that wrote it, for the publish comes before the
\* commit and its failure rolls the work back (record_trade.py, close_trade.py,
\* reflect_on_trade.py, get_db).
NoSilentChange ==
  /\ \A t \in Trades :
       /\ db[t].status # "absent" =>
            \E q \in Requests :
              [event |-> "trade.opened", trade |-> t, by |-> q] \in events
       /\ db[t].closed_at # NULL =>
            [event |-> "trade.closed", trade |-> t, by |-> db[t].closed_at] \in events
  /\ \A m \in records :
       [event |-> "trade.reflected", trade |-> m.source_trade_id, by |-> m.by] \in events

\* The text shown on a trade is the text some memory record holds: both writes
\* of ReflectOnTradeUseCase are one transaction, and no stale copy of the
\* column outlives its record.
ReflectionIsRemembered ==
  \A t \in Trades : db[t].reflection # NULL =>
    [source_trade_id |-> t, by |-> db[t].reflection] \in records

\* Only requests that committed left anything behind: a rolled back or running
\* request shows in no row and in no memory record, not even through another
\* request that copied what it had read (get_db).
OnlyCommittedShows ==
  /\ \A t \in Trades :
       \A q \in db[t].notes \cup ({db[t].closed_at, db[t].reflection} \ {NULL}) :
         pc[q] = "done"
  /\ \A m \in records : pc[m.by] = "done"

\* "Data integrity is non-negotiable - no deletions allowed" (Trade), and no
\* endpoint takes a closed trade back to open, however stale the copy is that
\* a late request merges over the row.
ClosedIsFinal ==
  [][\A t \in Trades :
       /\ db[t].status # "absent" => db'[t].status # "absent"
       /\ db[t].status = "closed" => db'[t].status = "closed"]_vars

\* Every request that reached its handler ends: nobody waits forever on a row
\* lock (get_db ends every transaction; no handler takes two row locks).
RequestsEnd ==
  \A q \in Requests : pc[q] # "idle" ~> pc[q] \in {"done", "failed"}

\* What the journal promises to its readers, TradeLifecycle, is kept.
Announced(t) == {e.event : e \in {x \in events : x.trade = t}}

Lifecycle == INSTANCE TradeLifecycle WITH
  life <- [t \in Trades |-> db[t].status],
  announced <- [t \in Trades |-> Announced(t)],
  learned <- {m.source_trade_id : m \in records}

FollowsLifecycle == Lifecycle!Spec

-----------------------------------------------------------------------------
(* What the code says of itself and does not do.                           *)

\* A trade is closed by one request: the others are told it "is already
\* closed" (close_trade.py, the second guard).
ClosedOnce ==
  \A p, q \in Requests :
    /\ op[p] = "close" /\ pc[p] = "done"
    /\ op[q] = "close" /\ pc[q] = "done"
    /\ trade[p] = trade[q]
    => p = q

\* Saving a reflection updates the reflection: "trade_repo.update_reflection"
\* (docs/oracle_architecture_final.md, the application services' table).
ReflectOnlyReflects ==
  [][\A q \in Requests :
       op[q] = "reflect" /\ pc'[q] = "done" /\ pc[q] # "done" =>
         LET t == trade[q]
         IN  db'[t] = [db[t] EXCEPT !.reflection = db'[t].reflection]]_vars

\* trade.opened is "Fired immediately after a trade is recorded as open"
\* (domain/trade/events.py): a trade that was announced is in the journal once
\* its request has ended.
OpenedWasRecorded ==
  \A e \in events : e.event = "trade.opened" /\ pc[e.by] \in {"done", "failed"} =>
    db[e.trade].status # "absent"
=============================================================================
