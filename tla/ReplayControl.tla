---------------------------- MODULE ReplayControl ---------------------------
(***************************************************************************)
(* Replay sessions: POST /replay, PUT /replay/{id}/next, /finish and POST  *)
(* /replay/{id}/annotate, served concurrently over PostgreSQL (READ        *)
(* COMMITTED) and announced on Redis.                                      *)
(*                                                                         *)
(* A handler reads the session, decides the new position from that copy,   *)
(* and the repository reads the row again, assigns the columns of its      *)
(* operation and flushes those whose value changed.  The events follow,    *)
(* one await each, and the commit comes last (get_db).                     *)
(***************************************************************************)
EXTENDS Integers, FiniteSets

CONSTANTS
  Requests,     \* the HTTP requests that ever arrive (bounds the model)
  Sessions,     \* replay session ids; every POST /replay draws a fresh one
  Ranges,       \* lengths of the requested time ranges, in minutes
  Interval,     \* minutes of one frame (_timeframe_minutes)
  MaxFrames,    \* _MAX_FRAMES, 300 in the code
  Crowds,       \* how many requests the clients may keep open at a time
  NULL          \* no commentary

ASSUME ReplayAssumption ==
  /\ Ranges \subseteq Int
  /\ Interval \in Nat \ {0}
  /\ MaxFrames \in Nat \ {0}
  /\ Crowds \subseteq Nat
  /\ NULL \notin Requests

VARIABLES
  crowd,    \* how many requests they do keep open, one being a lone viewer
  db,       \* committed row of each session
  events,   \* everything ever published on the "replay" channel
  lock,     \* holder of the row lock PostgreSQL gives an UPDATE
  pc,       \* how far each request is
  op,       \* the endpoint each request called
  session,  \* the session it is about
  goal,     \* what it decided from its first read
  base      \* the row as the repository read it again

vars == <<crowd, db, events, lock, pc, op, session, goal, base>>

-----------------------------------------------------------------------------
FrameIndex == 0 .. MaxFrames - 1

\* The columns that change; speed never does.  frames is frames_json, of which
\* only the commentary ever changes, named by the request that obtained it.
Row == [state  : {"absent", "idle", "playing", "completed"},
        frame  : -1 .. MaxFrames - 1,
        total  : 0 .. MaxFrames,
        frames : [FrameIndex -> Requests \cup {NULL}]]

NoRow == [state |-> "absent", frame |-> 0, total |-> 0,
          frames |-> [i \in FrameIndex |-> NULL]]

\* next and finish decide a state and a position, annotate a frame.
Goal == [state : {"idle", "playing", "completed"}, frame : -1 .. MaxFrames - 1]

NoGoal == [state |-> "idle", frame |-> 0]

Event == [event : {"replay.started", "replay.frame_advanced", "replay.completed",
                   "replay.frame_annotated"},
          session : Sessions, at : -1 .. MaxFrames, by : Requests]

Steps == {"idle", "loaded", "reread", "written", "framed", "published", "done", "failed"}

InFlight == {q \in Requests : pc[q] \notin {"idle", "done", "failed"}}

Lesser(a, b) == IF a <= b THEN a ELSE b

\* Bug variant: the last partial interval gets a frame of its own.
FrameCountRoundedUp(minutes) == (minutes \div Interval) + 1

\* _generate_frames: how many frames a range has.
FrameCount(minutes) == Lesser(minutes \div Interval, MaxFrames)

\* _to_domain: ReplaySession refuses a row whose current_frame is negative.
Loadable(row) == row.state # "absent" /\ row.frame >= 0

\* Bug variant: the position is compared with the number of frames.
NextGoalPastEnd(row) ==
  LET frame == Lesser(row.frame + 1, row.total)
  IN  [state |-> IF frame >= row.total THEN "completed" ELSE "playing", frame |-> frame]

\* ControlReplayUseCase.next_frame: where one step leads.
NextGoal(row) ==
  LET frame == Lesser(row.frame + 1, row.total - 1)
  IN  [state |-> IF frame >= row.total - 1 THEN "completed" ELSE "playing",
       frame |-> frame]

\* ControlReplayUseCase.finish: completed, at the last frame.
FinishGoal(row) == [state |-> "completed", frame |-> row.total - 1]

\* The attributes q assigns to the row it has read again.
Assigned(q) ==
  IF op[q] = "annotate"
  THEN [base[q] EXCEPT !.frames = [@ EXCEPT ![goal[q].frame] = q]]
  ELSE [base[q] EXCEPT !.state = goal[q].state, !.frame = goal[q].frame]

\* The UPDATE of a flush: the columns of v that differ from the row b it was
\* loaded from, over the committed version c.
Merge(v, b, c) ==
  LET Column(new, old, current) == IF new # old THEN new ELSE current
  IN  [state  |-> Column(v.state, b.state, c.state),
       frame  |-> Column(v.frame, b.frame, c.frame),
       total  |-> c.total,
       frames |-> Column(v.frames, b.frames, c.frames)]

-----------------------------------------------------------------------------
Init ==
  /\ crowd \in Crowds
  /\ db = [s \in Sessions |-> NoRow]
  /\ events = {}
  /\ lock = [s \in Sessions |-> NULL]
  /\ pc = [q \in Requests |-> "idle"]
  /\ op = [q \in Requests |-> "none"]
  /\ session = [q \in Requests |-> NULL]
  /\ goal = [q \in Requests |-> NoGoal]
  /\ base = [q \in Requests |-> NoRow]

\* Request q arrives and ends its first database round trip at step p.
Arrive(q, o, s, g, p) ==
  /\ pc[q] = "idle"
  /\ Cardinality(InFlight) < crowd
  /\ pc' = [pc EXCEPT ![q] = p]
  /\ op' = [op EXCEPT ![q] = o]
  /\ session' = [session EXCEPT ![q] = s]
  /\ goal' = [goal EXCEPT ![q] = g]
  /\ UNCHANGED <<crowd, db, events, lock>>

\* CreateReplayUseCase: TimeRange refuses an empty range; otherwise a row with a
\* fresh uuid is inserted, which no other session sees before the commit.
CreateSave(q, s, minutes) ==
  /\ \A p \in Requests : op[p] = "create" => session[p] # s
  /\ IF minutes > 0
     THEN /\ Arrive(q, "create", s, NoGoal, "written")
          /\ base' = [base EXCEPT ![q] =
                        [NoRow EXCEPT !.state = "idle", !.total = FrameCount(minutes)]]
     ELSE /\ Arrive(q, "create", s, NoGoal, "failed")        \* 422
          /\ UNCHANGED base

\* ControlReplayUseCase.next_frame up to its first write: a completed session
\* answers at once, an unloadable one is a 404.
NextLoad(q, s) ==
  /\ UNCHANGED base
  /\ \/ /\ ~Loadable(db[s])
        /\ Arrive(q, "next", s, NoGoal, "failed")
     \/ /\ Loadable(db[s])
        /\ db[s].state = "completed"
        /\ Arrive(q, "next", s, NoGoal, "done")
     \/ /\ Loadable(db[s])
        /\ db[s].state # "completed"
        /\ Arrive(q, "next", s, NextGoal(db[s]), "loaded")

\* ControlReplayUseCase.finish up to its write: no look at the state.
FinishLoad(q, s) ==
  /\ UNCHANGED base
  /\ \/ /\ ~Loadable(db[s])
        /\ Arrive(q, "finish", s, NoGoal, "failed")
     \/ /\ Loadable(db[s])
        /\ Arrive(q, "finish", s, FinishGoal(db[s]), "loaded")

\* AnnotateFrameUseCase up to the AI's answer, which comes at any later time or
\* never (Abort).
AnnotateLoad(q, s, i) ==
  /\ UNCHANGED base
  /\ \/ /\ ~(Loadable(db[s]) /\ i < db[s].total)             \* 404, 422
        /\ Arrive(q, "annotate", s, NoGoal, "failed")
     \/ /\ Loadable(db[s]) /\ i < db[s].total
        /\ Arrive(q, "annotate", s, [NoGoal EXCEPT !.frame = i], "loaded")

\* update_state and save_frame_annotation, session.get: a fresh SELECT.
Reread(q) ==
  /\ pc[q] = "loaded"
  /\ pc' = [pc EXCEPT ![q] = "reread"]
  /\ base' = [base EXCEPT ![q] = db[session[q]]]
  /\ UNCHANGED <<crowd, db, events, lock, op, session, goal>>

\* The flush: the UPDATE waits for the row lock and holds it to the end of the
\* transaction (updated_at always differs, so there always is an UPDATE).
Write(q) ==
  /\ pc[q] = "reread"
  /\ lock[session[q]] = NULL
  /\ lock' = [lock EXCEPT ![session[q]] = q]
  /\ pc' = [pc EXCEPT ![q] = "written"]
  /\ UNCHANGED <<crowd, db, events, op, session, goal, base>>

Say(q, e, at) ==
  events' = events \cup {[event |-> e, session |-> session[q], at |-> at, by |-> q]}

\* next_frame, first publish: the frame advanced to, if the session has frames.
PublishFrame(q) ==
  /\ pc[q] = "written"
  /\ op[q] = "next"
  /\ IF base[q].total > 0
     THEN Say(q, "replay.frame_advanced", goal[q].frame)
     ELSE UNCHANGED events
  /\ pc' = [pc EXCEPT ![q] = "framed"]
  /\ UNCHANGED <<crowd, db, lock, op, session, goal, base>>

\* Bug variant: a publish that fails is logged and forgotten.
PublishLastBestEffort(q) ==
  /\ \/ pc[q] = "written" /\ op[q] # "next"
     \/ pc[q] = "framed"
  /\ \/ UNCHANGED events
     \/ CASE op[q] = "create" -> Say(q, "replay.started", base[q].total)
          [] op[q] = "annotate" -> Say(q, "replay.frame_annotated", goal[q].frame)
          [] OTHER -> Say(q, "replay.completed", goal[q].frame + 1)
  /\ pc' = [pc EXCEPT ![q] = "published"]
  /\ UNCHANGED <<crowd, db, lock, op, session, goal, base>>

\* The use cases' last publish; a next that does not complete has none.
PublishLast(q) ==
  /\ \/ pc[q] = "written" /\ op[q] # "next"
     \/ pc[q] = "framed"
  /\ CASE op[q] = "create" -> Say(q, "replay.started", base[q].total)
       [] op[q] = "annotate" -> Say(q, "replay.frame_annotated", goal[q].frame)
       [] OTHER -> IF goal[q].state = "completed"
                   THEN Say(q, "replay.completed", goal[q].frame + 1)
                   ELSE UNCHANGED events
  /\ pc' = [pc EXCEPT ![q] = "published"]
  /\ UNCHANGED <<crowd, db, lock, op, session, goal, base>>

\* The end of a transaction gives back the row lock and closes the session.
EndSession(q, p) ==
  /\ lock' = [s \in Sessions |-> IF lock[s] = q THEN NULL ELSE lock[s]]
  /\ pc' = [pc EXCEPT ![q] = p]
  /\ base' = [base EXCEPT ![q] = NoRow]
  /\ UNCHANGED <<crowd, events, op, session, goal>>

\* get_db after the handler returned: the transaction becomes visible at once.
Commit(q) ==
  /\ pc[q] = "published"
  /\ db' = [db EXCEPT ![session[q]] =
              IF op[q] = "create" THEN base[q] ELSE Merge(Assigned(q), base[q], @)]
  /\ EndSession(q, "done")

\* get_db on any exception: a database error, the AI provider's failure, Redis
\* refusing a publish, a failed commit, the client's or the server's end.  What
\* was published before stays published.
Abort(q) ==
  /\ pc[q] \in {"loaded", "reread", "written", "framed", "published"}
  /\ EndSession(q, "failed")
  /\ UNCHANGED db

Serve(q) == Reread(q) \/ Write(q) \/ PublishFrame(q) \/ PublishLast(q) \/ Commit(q)

Next ==
  \E q \in Requests :
    \/ \E s \in Sessions :
         \/ \E minutes \in Ranges : CreateSave(q, s, minutes)
         \/ NextLoad(q, s)
         \/ FinishLoad(q, s)
         \/ \E i \in FrameIndex : AnnotateLoad(q, s, i)
    \/ Serve(q)
    \/ Abort(q)

Spec == Init /\ [][Next]_vars

-----------------------------------------------------------------------------
\* Every variable has its type, and whoever holds a row is past its write and waits
\* for no row itself: no cycle of waiting requests.
TypeOK ==
  /\ crowd \in Crowds
  /\ db \in [Sessions -> Row]
  /\ events \subseteq Event
  /\ lock \in [Sessions -> Requests \cup {NULL}]
  /\ pc \in [Requests -> Steps]
  /\ op \in [Requests -> {"none", "create", "next", "finish", "annotate"}]
  /\ session \in [Requests -> Sessions \cup {NULL}]
  /\ goal \in [Requests -> Goal]
  /\ base \in [Requests -> Row]
  /\ \A s \in Sessions : lock[s] # NULL =>
       /\ pc[lock[s]] \in {"written", "framed", "published"}
       /\ session[lock[s]] = s

\* A session with frames always stands on one of them, whatever the order in
\* which steps and finishes write, and never on the frame after the last
\* (next_frame's min, finish's total_frames - 1).
StandsOnAFrame ==
  \A s \in Sessions : db[s].total > 0 => db[s].frame \in 0 .. db[s].total - 1

\* What a session shows was published before it became visible, for a publish that
\* fails rolls the step back: a frame other than the first or the last by its
\* frame_advanced, completion by a completed event, and the commentary of a frame by
\* the request that was asked for that frame of that session, and has committed.
NothingSilent ==
  \A s \in Sessions :
    /\ db[s].frame \notin {0, db[s].total - 1} =>
         \E q \in Requests : [event |-> "replay.frame_advanced", session |-> s,
                              at |-> db[s].frame, by |-> q] \in events
    /\ db[s].state = "completed" =>
         \E q \in Requests : [event |-> "replay.completed", session |-> s,
                              at |-> db[s].total, by |-> q] \in events
    /\ \A i \in FrameIndex :
         LET q == db[s].frames[i]
         IN  q # NULL =>
               /\ i < db[s].total
               /\ pc[q] = "done"
               /\ [event |-> "replay.frame_annotated", session |-> s, at |-> i,
                   by |-> q] \in events

\* To a lone viewer, who keeps one request open at a time, a session is what a
\* viewer expects: ReplayControl implements ReplayPlayback.
Playback(s) == INSTANCE ReplayPlayback WITH
  Authors <- Requests,
  state <- db[s].state,
  frame <- db[s].frame,
  total <- db[s].total,
  comments <- db[s].frames

FollowsPlayback ==
  /\ \A s \in Sessions : Playback(s)!Init
  /\ [][crowd = 1 => \A s \in Sessions : [Playback(s)!Next]_(Playback(s)!vars)]_vars

-----------------------------------------------------------------------------
(* What the code or its documents say and the code does not do.            *)

\* current_frame is never negative: Field(default=0, ge=0) of ReplaySession.
CurrentFrameIsIndex == \A s \in Sessions : db[s].frame >= 0

\* finish "Terminate[s] the replay session" (README.md, Replay endpoints): once
\* a finish succeeded the session is completed, at its last frame.
FinishTerminates ==
  \A q \in Requests : op[q] = "finish" /\ pc[q] = "done" =>
    LET row == db[session[q]]
    IN  row.state = "completed" /\ row.frame = row.total - 1

\* next "Advance[s] one frame" (README.md, Replay endpoints): the step it
\* commits goes from the frame the session is on to the following one.
NextAdvancesOneFrame ==
  [][\A q \in Requests :
       op[q] = "next" /\ pc[q] = "published" /\ pc'[q] = "done" =>
         LET row == db[session[q]]
         IN  db'[session[q]].frame = Lesser(row.frame + 1, row.total - 1)]_vars

\* The commentary is "persist[ed] to the replay session" (AnnotateFrameUseCase):
\* when an annotation succeeds, the frames commented before keep a comment.
CommentsPersist ==
  [][\A s \in Sessions : \A i \in FrameIndex :
       db[s].frames[i] # NULL => db'[s].frames[i] # NULL]_vars

\* replay.completed means "All frames consumed" (README.md, WebSocket events):
\* unless somebody finished the session, every frame was sent before.
AllFramesConsumed ==
  \A e \in events :
    e.event = "replay.completed" /\ op[e.by] = "next" =>
      \A i \in 0 .. e.at - 1 :
        \E f \in events : f.event = "replay.frame_advanced" /\ f.session = e.session
                          /\ f.at = i
=============================================================================
