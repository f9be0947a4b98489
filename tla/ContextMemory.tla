---------------------------- MODULE ContextMemory ---------------------------
(***************************************************************************)
(* Analyses and the conversation they leave behind, for one asset: POST    *)
(* /analyses asks the AI, completes its ChartAnalysis, appends a turn to   *)
(* the asset's active context session (which it creates if there is none), *)
(* publishes and commits; GET /memory/context loads or creates the         *)
(* session; DELETE /memory/session/{id} expires one.  Assets share         *)
(* nothing.                                                                *)
(*                                                                         *)
(* The append reads the session three times: get_active_session for the    *)
(* id, get_session for the turns, merge for the row it compares with.      *)
(***************************************************************************)
EXTENDS Naturals, FiniteSets, Sequences

CONSTANTS
  Requests,     \* the HTTP requests that ever arrive (bounds the model)
  Crowds,       \* how many of them the clients may keep open at a time
  Budget        \* TokenBudget.history_budget, a turn counting for one token

ASSUME MemoryAssumption ==
  /\ IsFiniteSet(Requests)
  /\ 0 \notin Requests
  /\ Crowds \subseteq Nat
  /\ Budget \in Nat

VARIABLES
  crowd,     \* how many requests they do keep open, one being a lone user
  db,        \* committed row of each context session
  analyses,  \* committed status of each request's ChartAnalysis
  events,    \* the requests whose analysis.completed was published
  created,   \* how many session ids were drawn; a later one is newer
  lock,      \* holder of the row lock PostgreSQL gives an UPDATE
  pc,        \* how far each request is
  op,        \* the endpoint each request called
  draft,     \* the status of its ChartAnalysis in its own transaction
  session,   \* the context session it works on, 0 for none
  view,      \* its ContextSession object
  base       \* the row that update_session's merge found

vars == <<crowd, db, analyses, events, created, lock, pc, op, draft, session, view, base>>

-----------------------------------------------------------------------------
\* Every request creates at most one session.
Sessions == 1 .. Cardinality(Requests)

Row == [status : {"absent", "active", "expired"}, turns : Seq(Requests), tokens : Nat]

NoRow == [status |-> "absent", turns |-> <<>>, tokens |-> 0]

Status == {"none", "pending", "completed", "failed"}

Steps == {"idle", "asking", "attaching", "attached", "loaded", "reread", "written",
          "ready", "raised", "done", "failed"}

InFlight == {q \in Requests : pc[q] \notin {"idle", "done", "failed"}}

Running == Steps \ {"idle", "done", "failed"}

Active == {s \in Sessions : db[s].status = "active"}

\* get_active_session: ORDER BY created_at DESC LIMIT 1.
Newest(S) == CHOOSE s \in S : \A r \in S : r <= s

\* Bug variant: the oldest turn makes room, whether there is one or not.
AppendedTrimming(row, q) == [row EXCEPT !.turns = <<q>>, !.tokens = @ - 1]

\* SaveContextUseCase.execute: one more turn and its tokens.  The status of the
\* session is not looked at.
Appended(row, q) == [row EXCEPT !.turns = Append(@, q), !.tokens = @ + 1]

\* The UPDATE of a flush: the columns of v that differ from the row b it was
\* merged into, over the committed version c.
Merge(v, b, c) ==
  LET Column(new, old, current) == IF new # old THEN new ELSE current
  IN  [status |-> Column(v.status, b.status, c.status),
       turns  |-> Column(v.turns, b.turns, c.turns),
       tokens |-> Column(v.tokens, b.tokens, c.tokens)]

-----------------------------------------------------------------------------
Init ==
  /\ crowd \in Crowds
  /\ db = [s \in Sessions |-> NoRow]
  /\ analyses = [q \in Requests |-> "none"]
  /\ events = {}
  /\ created = 0
  /\ lock = [s \in Sessions |-> 0]
  /\ pc = [q \in Requests |-> "idle"]
  /\ op = [q \in Requests |-> "none"]
  /\ draft = [q \in Requests |-> "none"]
  /\ session = [q \in Requests |-> 0]
  /\ view = [q \in Requests |-> NoRow]
  /\ base = [q \in Requests |-> NoRow]

Arrive(q, o, p) ==
  /\ pc[q] = "idle"
  /\ Cardinality(InFlight) < crowd
  /\ pc' = [pc EXCEPT ![q] = p]
  /\ op' = [op EXCEPT ![q] = o]

\* RunAnalysisUseCase up to the AI call: a PENDING row is flushed, history, news
\* and calendar are read (news and calendar failing is logged only).
StartAnalysis(q) ==
  /\ Arrive(q, "analyse", "asking")
  /\ draft' = [draft EXCEPT ![q] = "pending"]
  /\ UNCHANGED <<crowd, db, analyses, events, created, lock, session, view, base>>

\* The AI answered: the parsed answer completes the analysis.  Without any
\* reasoning in it the context is left alone.
AIAnswers(q, reasoned) ==
  /\ pc[q] = "asking"
  /\ draft' = [draft EXCEPT ![q] = "completed"]
  /\ pc' = [pc EXCEPT ![q] = IF reasoned THEN "attaching" ELSE "written"]
  /\ UNCHANGED <<crowd, db, analyses, events, created, lock, op, session, view, base>>

\* Bug variant: the failure is recorded and the request goes on.
AIFailsQuietly(q) ==
  /\ pc[q] = "asking"
  /\ draft' = [draft EXCEPT ![q] = "failed"]
  /\ pc' = [pc EXCEPT ![q] = "ready"]
  /\ UNCHANGED <<crowd, db, analyses, events, created, lock, op, session, view, base>>

\* The AI failed: the analysis is marked FAILED and RuntimeError raised.
AIFails(q) ==
  /\ pc[q] = "asking"
  /\ draft' = [draft EXCEPT ![q] = "failed"]
  /\ pc' = [pc EXCEPT ![q] = "raised"]
  /\ UNCHANGED <<crowd, db, analyses, events, created, lock, op, session, view, base>>

\* LoadContextUseCase._create_session, and for an analysis the append to the
\* session only its own transaction sees.
Create(q, row, p) ==
  /\ created' = created + 1
  /\ session' = [session EXCEPT ![q] = created + 1]
  /\ view' = [view EXCEPT ![q] = row]
  /\ pc' = [pc EXCEPT ![q] = p]

\* Bug variant: every analysis begins a session.
AttachFresh(q) ==
  /\ pc[q] = "attaching"
  /\ Create(q, Appended([NoRow EXCEPT !.status = "active"], q), "written")
  /\ UNCHANGED <<crowd, db, analyses, events, lock, op, draft, base>>

\* LoadContextUseCase.execute in an analysis: the newest active session there is.
Attach(q) ==
  /\ pc[q] = "attaching"
  /\ IF Active # {}
     THEN /\ session' = [session EXCEPT ![q] = Newest(Active)]
          /\ pc' = [pc EXCEPT ![q] = "attached"]
          /\ UNCHANGED <<created, view>>
     ELSE Create(q, Appended([NoRow EXCEPT !.status = "active"], q), "written")
  /\ UNCHANGED <<crowd, db, analyses, events, lock, op, draft, base>>

\* GET /memory/context: load the active session or create one.
GetContext(q) ==
  /\ pc[q] = "idle"
  /\ Cardinality(InFlight) < crowd
  /\ op' = [op EXCEPT ![q] = "context"]
  /\ IF Active # {}
     THEN /\ pc' = [pc EXCEPT ![q] = "done"]
          /\ UNCHANGED <<created, session, view>>
     ELSE Create(q, [NoRow EXCEPT !.status = "active"], "ready")
  /\ UNCHANGED <<crowd, db, analyses, events, lock, draft, base>>

\* DELETE /memory/session/{id}: the row is read, and an UPDATE is due unless it
\* is expired already or does not exist.
Expire(q, s) ==
  /\ IF db[s].status = "active"
     THEN /\ Arrive(q, "expire", "reread")
          /\ session' = [session EXCEPT ![q] = s]
          /\ view' = [view EXCEPT ![q] = [db[s] EXCEPT !.status = "expired"]]
          /\ base' = [base EXCEPT ![q] = db[s]]
     ELSE /\ Arrive(q, "expire", "done")
          /\ UNCHANGED <<session, view, base>>
  /\ UNCHANGED <<crowd, db, analyses, events, created, lock, draft>>

\* SaveContextUseCase.execute: get_session and the append.
LoadTurns(q) ==
  /\ pc[q] = "attached"
  /\ view' = [view EXCEPT ![q] = Appended(db[session[q]], q)]
  /\ pc' = [pc EXCEPT ![q] = "loaded"]
  /\ UNCHANGED <<crowd, db, analyses, events, created, lock, op, draft, session, base>>

\* update_session, merge: a fresh SELECT.
Reread(q) ==
  /\ pc[q] = "loaded"
  /\ base' = [base EXCEPT ![q] = db[session[q]]]
  /\ pc' = [pc EXCEPT ![q] = "reread"]
  /\ UNCHANGED <<crowd, db, analyses, events, created, lock, op, draft, session, view>>

\* update_session and expire_session, flush: the UPDATE takes the row lock and
\* keeps it to the end of the transaction.  An expire publishes nothing.
Write(q) ==
  /\ pc[q] = "reread"
  /\ lock[session[q]] = 0
  /\ lock' = [lock EXCEPT ![session[q]] = q]
  /\ pc' = [pc EXCEPT ![q] = IF op[q] = "analyse" THEN "written" ELSE "ready"]
  /\ UNCHANGED <<crowd, db, analyses, events, created, op, draft, session, view, base>>

\* analysis.completed, the use case's last call.
Publish(q) ==
  /\ pc[q] = "written"
  /\ events' = events \cup {q}
  /\ pc' = [pc EXCEPT ![q] = "ready"]
  /\ UNCHANGED <<crowd, db, analyses, created, lock, op, draft, session, view, base>>

\* The end of a transaction gives back the row lock and closes the session.
EndSession(q, p) ==
  /\ lock' = [s \in Sessions |-> IF lock[s] = q THEN 0 ELSE lock[s]]
  /\ pc' = [pc EXCEPT ![q] = p]
  /\ draft' = [draft EXCEPT ![q] = "none"]
  /\ view' = [view EXCEPT ![q] = NoRow]
  /\ base' = [base EXCEPT ![q] = NoRow]
  /\ UNCHANGED <<crowd, events, created, op, session>>

\* get_db after the handler returned: both rows become visible at once.
Commit(q) ==
  /\ pc[q] = "ready"
  /\ db' = [s \in Sessions |->
              IF s = session[q] THEN Merge(view[q], base[q], db[s]) ELSE db[s]]
  /\ analyses' = [analyses EXCEPT ![q] = draft[q]]
  /\ EndSession(q, "done")

\* get_db on any exception: AI failure, an answer that does not fit its column, a
\* database error, Redis refusing the publish, a failed commit.
Abort(q) ==
  /\ pc[q] \in Running
  /\ EndSession(q, "failed")
  /\ UNCHANGED <<crowd, db, analyses>>

Serve(q) ==
  \/ AIAnswers(q, TRUE) \/ AIAnswers(q, FALSE) \/ AIFails(q)
  \/ Attach(q) \/ LoadTurns(q) \/ Reread(q) \/ Write(q) \/ Publish(q)
  \/ Commit(q)

Next ==
  \E q \in Requests :
    \/ StartAnalysis(q)
    \/ GetContext(q)
    \/ \E s \in Sessions : Expire(q, s)
    \/ Serve(q)
    \/ Abort(q)

Spec == Init /\ [][Next]_vars

-----------------------------------------------------------------------------
TypeOK ==
  /\ crowd \in Crowds
  /\ db \in [Sessions -> Row]
  /\ analyses \in [Requests -> Status]
  /\ events \subseteq Requests
  /\ created \in 0 .. Cardinality(Requests)
  /\ lock \in [Sessions -> Requests \cup {0}]
  /\ pc \in [Requests -> Steps]
  /\ op \in [Requests -> {"none", "analyse", "context", "expire"}]
  /\ draft \in [Requests -> Status]
  /\ session \in [Requests -> Sessions \cup {0}]
  /\ view \in [Requests -> Row]
  /\ base \in [Requests -> Row]
  /\ \A s \in Sessions : lock[s] # 0 =>
       /\ pc[lock[s]] \in {"written", "ready"}
       /\ session[lock[s]] = s

TurnsOf(s) == {db[s].turns[i] : i \in 1 .. Len(db[s].turns)}

\* Only completed analyses are ever visible, each announced before: the PENDING
\* and FAILED rows run_analysis writes are rolled back with their request.  A turn
\* stands once, in one session, and belongs to one of them: the append and the
\* analysis are one transaction, and no copy of the turns that a rolled back request
\* had made is ever taken up by another.
OnlyWholeAnalyses ==
  /\ \A q \in Requests :
       analyses[q] # "none" => analyses[q] = "completed" /\ q \in events
  /\ \A s \in Sessions :
       /\ Cardinality(TurnsOf(s)) = Len(db[s].turns)
       /\ \A q \in TurnsOf(s) :
            /\ analyses[q] = "completed"
            /\ \A r \in Sessions \ {s} : q \notin TurnsOf(r)

Dialogue == INSTANCE Conversation WITH
  Authors <- Requests,
  active <- Active,
  known <- {s \in Sessions : db[s].status # "absent"},
  turns <- [s \in Sessions |-> db[s].turns],
  tokens <- [s \in Sessions |-> db[s].tokens]

\* To a lone user, who keeps one request open at a time, the memory is one
\* conversation: ContextMemory implements Conversation.
FollowsConversation ==
  /\ Dialogue!Init
  /\ [][crowd = 1 => [Dialogue!Next]_(Dialogue!vars)]_vars

-----------------------------------------------------------------------------
(* What the code or its documents say and the code does not do.            *)

\* "One active session per asset at a time" (ContextSession).
OneActiveSession == Cardinality(Active) <= 1

\* "Transitions to EXPIRED after inactivity or manual close" (ContextSession):
\* a session that was closed is not active again.
ExpiredStaysExpired ==
  [][\A s \in Sessions : db[s].status = "expired" => db'[s].status = "expired"]_vars

\* "Append a message to the given session" (SaveContextUseCase): the turns that
\* were there stay.
AppendKeepsTurns ==
  [][\A s \in Sessions :
       /\ Len(db[s].turns) <= Len(db'[s].turns)
       /\ SubSeq(db'[s].turns, 1, Len(db[s].turns)) = db[s].turns]_vars

\* "trimmed automatically when context window budget is exceeded" (README.md).
BudgetKept == \A s \in Sessions : db[s].tokens <= Budget
=============================================================================
