------------------------- MODULE ReplayControlProofs -------------------------
(***************************************************************************)
(* Safety of the replay sessions and the refinement of ReplayPlayback, for *)
(* any number of requests and sessions, and any ranges and intervals.      *)
(***************************************************************************)
EXTENDS ReplayControl, FiniteSetTheorems, TLAPS

-----------------------------------------------------------------------------
(* What the operators compute.                                             *)

\* A range yields no more frames than the session may have.
LEMMA FrameCountType ==
  ASSUME NEW minutes \in Ranges, minutes > 0
  PROVE  FrameCount(minutes) \in 0 .. MaxFrames
  <1>1. minutes \in Int /\ Interval \in Nat \ {0} /\ MaxFrames \in Nat
    BY ReplayAssumption
  <1>2. minutes \div Interval \in Nat
    BY <1>1
  <1> QED BY <1>1, <1>2 DEF FrameCount, Lesser

\* A step leads to a frame of the session, if it has any, and completes it at the
\* last only.
LEMMA NextGoalIs ==
  ASSUME NEW row \in Row, row.frame >= 0
  PROVE  LET g == NextGoal(row) IN
         /\ g \in Goal
         /\ g.frame = row.total - 1 \/ g.frame \in 1 .. row.total - 1
         /\ g.state = "completed" => g.frame = row.total - 1
  <1>1. row.frame \in 0 .. MaxFrames - 1 /\ row.total \in 0 .. MaxFrames /\ MaxFrames \in Nat
    BY ReplayAssumption DEF Row
  <1> QED BY <1>1 DEF NextGoal, Goal, Lesser

\* What a flush leaves of a row when another request has committed meanwhile.
LEMMA MergeColumns ==
  ASSUME NEW v \in Row, NEW b \in Row, NEW c \in Row
  PROVE  LET n == Merge(v, b, c) IN
         /\ n \in Row /\ n.total = c.total
         /\ n.state \in {v.state, c.state} /\ n.frame \in {v.frame, c.frame}
         /\ n.frames \in {v.frames, c.frames}
         /\ v.state = b.state => n.state = c.state
         /\ v.frame = b.frame => n.frame = c.frame
         /\ v.frames = b.frames => n.frames = c.frames
  BY DEF Merge, Row

\* Over the row it was loaded from a flush writes what was assigned.
LEMMA MergeOwn ==
  ASSUME NEW v \in Row, NEW b \in Row, v.total = b.total
  PROVE  Merge(v, b, b) = v
  BY DEF Merge, Row

-----------------------------------------------------------------------------
(* The inductive invariant.                                                *)

Active(q) == pc[q] \in {"loaded", "reread", "written", "framed", "published"}

Advanced(q) == [event |-> "replay.frame_advanced", session |-> session[q],
                at |-> goal[q].frame, by |-> q]

Completed(q) == [event |-> "replay.completed", session |-> session[q],
                 at |-> goal[q].frame + 1, by |-> q]

Annotated(q) == [event |-> "replay.frame_annotated", session |-> session[q],
                 at |-> goal[q].frame, by |-> q]

\* A request has its endpoint and its session from its arrival on.
Started ==
  \A q \in Requests :
    /\ pc[q] = "idle" => op[q] = "none"
    /\ Active(q) => session[q] \in Sessions /\ op[q] # "none"
    /\ pc[q] \in {"loaded", "reread"} => op[q] # "create"
    /\ pc[q] = "framed" => op[q] = "next"

\* The row a POST /replay inserts.
Made(n) == [NoRow EXCEPT !.state = "idle", !.total = n]

\* A session has one creator, and is empty to everybody before the commit.
Creating ==
  /\ \A q \in Requests : op[q] = "create" /\ Active(q) =>
       /\ db[session[q]] = NoRow
       /\ \E n \in 0 .. MaxFrames : base[q] = Made(n)
       /\ \A p \in Requests : op[p] = "create" /\ session[p] = session[q] => p = q
  /\ \A s \in Sessions : db[s] # NoRow =>
       db[s].state # "absent" /\ \E q \in Requests : op[q] = "create" /\ session[q] = s

\* What a request of endpoint o may have decided about a session of so many frames.
Decided(o, g, total) ==
  /\ o = "annotate" => g.frame \in 0 .. total - 1
  /\ o = "finish" => g.frame = total - 1 /\ g.state = "completed"
  /\ o = "next" =>
       /\ g.frame = total - 1 \/ g.frame \in 1 .. total - 1
       /\ g.state = "completed" => g.frame = total - 1

\* It fits the frames of its session, however many others have moved that since.
Moving ==
  \A q \in Requests : Active(q) /\ op[q] # "create" =>
    /\ db[session[q]] # NoRow
    /\ pc[q] # "loaded" => base[q].total = db[session[q]].total
    /\ Decided(op[q], goal[q], db[session[q]].total)

Authored(s, frames, total) ==
  \A i \in FrameIndex : frames[i] # NULL =>
    /\ i < total
    /\ pc[frames[i]] = "done"
    /\ [event |-> "replay.frame_annotated", session |-> s, at |-> i, by |-> frames[i]] \in events

\* The comments in a copy of the row are those of requests that have committed.
Carrying ==
  \A q \in Requests : Active(q) /\ pc[q] # "loaded" /\ op[q] # "create" =>
    Authored(session[q], base[q].frames, base[q].total)

\* A request that is past a publish was heard.
Said ==
  \A q \in Requests :
    /\ op[q] = "next" /\ pc[q] \in {"framed", "published"} /\ base[q].total > 0 =>
         Advanced(q) \in events
    /\ op[q] \in {"next", "finish"} /\ pc[q] = "published" /\ goal[q].state = "completed" =>
         Completed(q) \in events
    /\ op[q] = "annotate" /\ pc[q] = "published" => Annotated(q) \in events

IInv ==
  /\ TypeOK /\ Started /\ Creating /\ Moving /\ Carrying /\ Said
  /\ StandsOnAFrame /\ NothingSilent

LEMMA InitIInv == Init => IInv
  <1> SUFFICES ASSUME Init PROVE IInv
    OBVIOUS
  <1> USE DEF Init
  <1>1. MaxFrames \in Nat \ {0} /\ NULL \notin Requests
    BY ReplayAssumption
  <1>2. NoRow \in Row /\ NoGoal \in Goal
    BY <1>1 DEF NoRow, Row, NoGoal, Goal, FrameIndex
  <1>3. TypeOK
    BY <1>2 DEF TypeOK, Steps
  <1>4. Started /\ Creating /\ Moving /\ Carrying /\ Said
    BY DEF Started, Creating, Moving, Carrying, Said, Active
  <1>5. StandsOnAFrame /\ NothingSilent
    BY <1>1 DEF StandsOnAFrame, NothingSilent, NoRow
  <1> QED BY <1>3, <1>4, <1>5 DEF IInv

-----------------------------------------------------------------------------
(* Each action preserves it.                                               *)

\* What is visible stays as it was published as long as nothing is committed.
LEMMA Unseen ==
  ASSUME IInv, UNCHANGED db, events \subseteq events',
         \A p \in Requests : pc[p] = "done" => pc'[p] = "done"
  PROVE  StandsOnAFrame' /\ NothingSilent'
  <1>1. StandsOnAFrame'
    BY DEF IInv, StandsOnAFrame
  <1>2. ASSUME NEW s \in Sessions
        PROVE  \A i \in FrameIndex :
                 LET q == db'[s].frames[i]
                 IN  q # NULL =>
                       /\ i < db'[s].total
                       /\ pc'[q] = "done"
                       /\ [event |-> "replay.frame_annotated", session |-> s, at |-> i,
                           by |-> q] \in events'
    <2> SUFFICES ASSUME NEW i \in FrameIndex, db[s].frames[i] # NULL
                 PROVE  /\ i < db[s].total
                        /\ pc'[db[s].frames[i]] = "done"
                        /\ [event |-> "replay.frame_annotated", session |-> s, at |-> i,
                            by |-> db[s].frames[i]] \in events'
      OBVIOUS
    <2>1. db[s].frames[i] \in Requests
      BY DEF IInv, TypeOK, Row
    <2>2. /\ i < db[s].total
          /\ pc[db[s].frames[i]] = "done"
          /\ [event |-> "replay.frame_annotated", session |-> s, at |-> i,
              by |-> db[s].frames[i]] \in events
      BY DEF IInv, NothingSilent
    <2> QED BY <2>1, <2>2
  <1>3. ASSUME NEW s \in Sessions
        PROVE  /\ db'[s].frame \notin {0, db'[s].total - 1} =>
                    \E q \in Requests : [event |-> "replay.frame_advanced", session |-> s,
                                         at |-> db'[s].frame, by |-> q] \in events'
               /\ db'[s].state = "completed" =>
                    \E q \in Requests : [event |-> "replay.completed", session |-> s,
                                         at |-> db'[s].total, by |-> q] \in events'
    BY DEF IInv, NothingSilent
  <1>4. NothingSilent'
    BY <1>2, <1>3 DEF NothingSilent
  <1> QED BY <1>1, <1>4

\* The same of the comments in a copy of a row.
LEMMA AuthoredStays ==
  ASSUME IInv, events \subseteq events',
         \A p \in Requests : pc[p] = "done" => pc'[p] = "done",
         NEW s \in Sessions, NEW row \in Row, Authored(s, row.frames, row.total)
  PROVE  \A i \in FrameIndex : row.frames[i] # NULL =>
           /\ i < row.total
           /\ pc'[row.frames[i]] = "done"
           /\ [event |-> "replay.frame_annotated", session |-> s, at |-> i,
               by |-> row.frames[i]] \in events'
  <1> SUFFICES ASSUME NEW i \in FrameIndex, row.frames[i] # NULL
               PROVE  /\ i < row.total
                      /\ pc'[row.frames[i]] = "done"
                      /\ [event |-> "replay.frame_annotated", session |-> s, at |-> i,
                          by |-> row.frames[i]] \in events'
    OBVIOUS
  <1>1. row.frames[i] \in Requests
    BY DEF Row
  <1> QED BY <1>1 DEF Authored

\* A request goes one step further without a commit, with its copy of the row or a
\* fresh one.
LEMMA ServingIInv ==
  ASSUME IInv, NEW q \in Requests, Active(q), NEW p \in Steps, NEW b \in Row,
         UNCHANGED <<db, op, session, goal>>, events \subseteq events',
         pc' = [pc EXCEPT ![q] = p],
         base' = [base EXCEPT ![q] = b],
         p # "failed" =>
           /\ p \in {"reread", "written", "framed", "published"}
           /\ p = "framed" => op[q] = "next"
           /\ p = "reread" => op[q] # "create"
           /\ \/ b = base[q] /\ pc[q] # "loaded"
              \/ b = db[session[q]] /\ op[q] # "create"
  PROVE  Started' /\ Creating' /\ Moving' /\ Carrying' /\ StandsOnAFrame' /\ NothingSilent'
  <1>1. /\ pc'[q] = p /\ base'[q] = b /\ session[q] \in Sessions /\ op[q] # "none"
        /\ \A r \in Requests \ {q} : pc'[r] = pc[r] /\ base'[r] = base[r]
        /\ \A r \in Requests : pc[r] = "done" => pc'[r] = "done"
    BY DEF IInv, TypeOK, Started, Active
  <1>2. Started'
    BY <1>1 DEF IInv, Started, Active
  <1>3. Creating'
    <2>1. ASSUME NEW r \in Requests, op[r] = "create", Active(r)'
          PROVE  Active(r) /\ base'[r] = base[r]
      BY <1>1, <2>1 DEF Active
    <2>2. ASSUME NEW r \in Requests, op[r] = "create", Active(r)'
          PROVE  /\ db[session[r]] = NoRow
                 /\ \E n \in 0 .. MaxFrames : base'[r] = Made(n)
                 /\ \A t \in Requests : op[t] = "create" /\ session[t] = session[r] => t = r
      BY <2>1, <2>2 DEF IInv, Creating
    <2> QED BY <2>2 DEF IInv, Creating
  <1>4. Moving'
    <2>1. ASSUME NEW r \in Requests, op[r] # "create", Active(r)'
          PROVE  /\ db[session[r]] # NoRow
                 /\ pc'[r] # "loaded" => base'[r].total = db[session[r]].total
                 /\ Decided(op[r], goal[r], db[session[r]].total)
      <3>1. CASE r = q
        BY <1>1, <2>1, <3>1 DEF IInv, Moving, Active
      <3>2. CASE r # q
        BY <1>1, <2>1, <3>2 DEF IInv, Moving, Active
      <3> QED BY <3>1, <3>2
    <2> QED BY <2>1 DEF Moving
  <1>5. Carrying'
    <2>1. ASSUME NEW r \in Requests, op[r] # "create", Active(r)', pc'[r] # "loaded"
          PROVE  /\ session[r] \in Sessions /\ base'[r] \in Row
                 /\ Authored(session[r], base'[r].frames, base'[r].total)
      <3>1. CASE r = q /\ b = base[q] /\ pc[q] # "loaded"
        BY <1>1, <2>1, <3>1 DEF IInv, Carrying
      <3>2. CASE r = q /\ b = db[session[q]]
        <4>1. Authored(session[q], db[session[q]].frames, db[session[q]].total)
          BY <1>1 DEF IInv, NothingSilent, Authored
        <4> QED BY <1>1, <3>2, <4>1
      <3>3. CASE r # q
        BY <1>1, <2>1, <3>3 DEF IInv, TypeOK, Carrying, Started, Active
      <3> QED BY <1>1, <2>1, <3>1, <3>2, <3>3 DEF Active
    <2>2. ASSUME NEW r \in Requests, op'[r] # "create", Active(r)', pc'[r] # "loaded"
          PROVE  Authored(session[r], base[r].frames, base[r].total)'
      <3>1. /\ session[r] \in Sessions /\ base'[r] \in Row
            /\ Authored(session[r], base'[r].frames, base'[r].total)
        BY <2>1, <2>2
      <3> QED BY <1>1, <3>1, AuthoredStays DEF Authored
    <2> QED BY <2>2 DEF Carrying, Active
  <1>6. StandsOnAFrame' /\ NothingSilent'
    BY <1>1, Unseen
  <1> QED BY <1>2, <1>3, <1>4, <1>5, <1>6

\* A request arrives: a create has inserted a row by then, the others have decided
\* or are answered at once.
LEMMA ArrivingIInv ==
  ASSUME IInv, NEW q \in Requests, NEW s \in Sessions, NEW g \in Goal,
         NEW o \in {"create", "next", "finish", "annotate"},
         NEW p \in {"loaded", "written", "done", "failed"},
         Arrive(q, o, s, g, p),
         base' \in [Requests -> Row], \A r \in Requests \ {q} : base'[r] = base[r],
         p = "loaded" => o # "create" /\ db[s] # NoRow /\ Decided(o, g, db[s].total),
         p = "written" => o = "create" /\ \E n \in 0 .. MaxFrames : base'[q] = Made(n),
         o = "create" => \A r \in Requests : op[r] = "create" => session[r] # s
  PROVE  IInv'
  <1>1. /\ pc[q] = "idle" /\ op[q] = "none"
        /\ pc'[q] = p /\ op'[q] = o /\ session'[q] = s /\ goal'[q] = g
        /\ \A r \in Requests \ {q} :
             /\ pc'[r] = pc[r] /\ op'[r] = op[r] /\ session'[r] = session[r]
             /\ goal'[r] = goal[r] /\ base'[r] = base[r]
        /\ \A r \in Requests : pc[r] = "done" => pc'[r] = "done"
        /\ UNCHANGED <<crowd, db, events, lock>>
    BY DEF IInv, TypeOK, Started, Arrive
  <1>2. TypeOK'
    <2>1. ASSUME NEW t \in Sessions, lock[t] # NULL
          PROVE  pc'[lock[t]] \in {"written", "framed", "published"} /\ session'[lock[t]] = t
      BY <1>1, <2>1 DEF IInv, TypeOK
    <2>2. /\ pc' \in [Requests -> Steps] /\ goal' \in [Requests -> Goal]
          /\ op' \in [Requests -> {"none", "create", "next", "finish", "annotate"}]
          /\ session' \in [Requests -> Sessions \cup {NULL}]
      BY DEF IInv, TypeOK, Steps, Arrive
    <2> QED BY <1>1, <2>1, <2>2 DEF IInv, TypeOK
  <1>3. Started'
    BY <1>1 DEF IInv, Started, Active
  <1>4. Creating'
    <2>1. ASSUME NEW r \in Requests, op'[r] = "create", Active(r)'
          PROVE  /\ db[session'[r]] = NoRow
                 /\ \E n \in 0 .. MaxFrames : base'[r] = Made(n)
                 /\ \A t \in Requests : op'[t] = "create" /\ session'[t] = session'[r] => t = r
      <3>1. CASE r = q
        <4>1. db[s] = NoRow
          BY <1>1, <2>1, <3>1 DEF IInv, Creating
        <4>2. \E n \in 0 .. MaxFrames : base'[q] = Made(n)
          BY <1>1, <2>1, <3>1 DEF Active
        <4> QED BY <1>1, <2>1, <3>1, <4>1, <4>2
      <3>2. CASE r # q
        <4>1. op[r] = "create" /\ Active(r)
          BY <1>1, <2>1, <3>2 DEF Active
        <4> QED BY <1>1, <3>2, <4>1 DEF IInv, Creating
      <3> QED BY <3>1, <3>2
    <2>2. ASSUME NEW t \in Sessions, db[t] # NoRow
          PROVE  /\ db[t].state # "absent"
                 /\ \E r \in Requests : op'[r] = "create" /\ session'[r] = t
      BY <1>1, <2>2 DEF IInv, Creating
    <2> QED BY <1>1, <2>1, <2>2 DEF Creating
  <1>5. Moving'
    <2>1. ASSUME NEW r \in Requests, op'[r] # "create", Active(r)'
          PROVE  /\ db[session'[r]] # NoRow
                 /\ pc'[r] # "loaded" => base'[r].total = db[session'[r]].total
                 /\ Decided(op'[r], goal'[r], db[session'[r]].total)
      <3>1. CASE r = q
        BY <1>1, <2>1, <3>1 DEF Active
      <3>2. CASE r # q
        BY <1>1, <2>1, <3>2 DEF IInv, Moving, Active
      <3> QED BY <3>1, <3>2
    <2> QED BY <1>1, <2>1 DEF Moving
  <1>6. Carrying'
    <2>1. ASSUME NEW r \in Requests, op'[r] # "create", Active(r)', pc'[r] # "loaded"
          PROVE  Authored(session[r], base[r].frames, base[r].total)'
      <3>1. /\ r # q /\ session'[r] \in Sessions /\ base'[r] \in Row
            /\ Authored(session'[r], base'[r].frames, base'[r].total)
        BY <1>1, <2>1 DEF IInv, TypeOK, Started, Carrying, Active
      <3> QED BY <1>1, <3>1, AuthoredStays DEF Authored
    <2> QED BY <2>1 DEF Carrying, Active
  <1>7. Said'
    BY <1>1 DEF IInv, Said, Advanced, Completed, Annotated
  <1>8. StandsOnAFrame' /\ NothingSilent'
    BY <1>1, Unseen
  <1> QED BY <1>2, <1>3, <1>4, <1>5, <1>6, <1>7, <1>8 DEF IInv

\* One that keeps to the rows it finds.
LEMMA LoadingIInv ==
  ASSUME IInv, NEW q \in Requests, NEW s \in Sessions,
         NEW o \in {"next", "finish", "annotate"}, NEW g \in Goal,
         NEW p \in {"loaded", "done", "failed"},
         Arrive(q, o, s, g, p), UNCHANGED base,
         p = "loaded" => db[s] # NoRow /\ Decided(o, g, db[s].total)
  PROVE  IInv'
  <1>1. base' \in [Requests -> Row] /\ \A r \in Requests : base'[r] = base[r]
    BY DEF IInv, TypeOK
  <1>2. /\ o \in {"create", "next", "finish", "annotate"} /\ o # "create"
        /\ p \in {"loaded", "written", "done", "failed"} /\ p # "written"
    OBVIOUS
  <1> QED BY <1>1, <1>2, ArrivingIInv

LEMMA CreateSaveIInv ==
  ASSUME IInv, NEW q \in Requests, NEW s \in Sessions, NEW minutes \in Ranges,
         CreateSave(q, s, minutes)
  PROVE  IInv'
  <1>1. NoGoal \in Goal /\ NoRow \in Row /\ minutes \in Int /\ base \in [Requests -> Row]
    BY ReplayAssumption DEF NoGoal, Goal, NoRow, Row, FrameIndex, IInv, TypeOK
  <1>2. CASE minutes > 0
    <2>1. FrameCount(minutes) \in 0 .. MaxFrames
      BY <1>2, FrameCountType
    <2>2. Made(FrameCount(minutes)) \in Row
      BY <1>1, <2>1 DEF Made, Row
    <2>3. base' = [base EXCEPT ![q] = Made(FrameCount(minutes))]
      BY <1>2 DEF CreateSave, Made
    <2>4. /\ base' \in [Requests -> Row] /\ \A r \in Requests \ {q} : base'[r] = base[r]
          /\ \E n \in 0 .. MaxFrames : base'[q] = Made(n)
      BY <1>1, <2>1, <2>2, <2>3
    <2>5. /\ Arrive(q, "create", s, NoGoal, "written")
          /\ \A r \in Requests : op[r] = "create" => session[r] # s
      BY <1>2 DEF CreateSave
    <2> QED BY <1>1, <2>4, <2>5, ArrivingIInv
  <1>3. CASE ~(minutes > 0)
    <2>1. /\ Arrive(q, "create", s, NoGoal, "failed") /\ base' = base
          /\ \A r \in Requests : op[r] = "create" => session[r] # s
      BY <1>3 DEF CreateSave
    <2> QED BY <1>1, <2>1, ArrivingIInv
  <1> QED BY <1>2, <1>3

LEMMA LoadableIs ==
  ASSUME IInv, NEW s \in Sessions, Loadable(db[s])
  PROVE  db[s] \in Row /\ db[s] # NoRow /\ db[s].frame >= 0
  BY DEF IInv, TypeOK, Loadable, NoRow

LEMMA NoGoalIsGoal == NoGoal \in Goal
  BY ReplayAssumption DEF NoGoal, Goal

LEMMA NextLoadIInv ==
  ASSUME IInv, NEW q \in Requests, NEW s \in Sessions, NextLoad(q, s)
  PROVE  IInv'
  <1>1. CASE Arrive(q, "next", s, NoGoal, "failed") \/ Arrive(q, "next", s, NoGoal, "done")
    BY <1>1, NoGoalIsGoal, LoadingIInv DEF NextLoad
  <1>2. CASE Loadable(db[s]) /\ Arrive(q, "next", s, NextGoal(db[s]), "loaded")
    <2>1. Decided("next", NextGoal(db[s]), db[s].total) /\ NextGoal(db[s]) \in Goal
      BY <1>2, LoadableIs, NextGoalIs DEF Decided
    <2> QED BY <2>1, <1>2, LoadableIs, LoadingIInv DEF NextLoad
  <1> QED BY <1>1, <1>2 DEF NextLoad

LEMMA FinishLoadIInv ==
  ASSUME IInv, NEW q \in Requests, NEW s \in Sessions, FinishLoad(q, s)
  PROVE  IInv'
  <1>1. CASE Arrive(q, "finish", s, NoGoal, "failed")
    BY <1>1, NoGoalIsGoal, LoadingIInv DEF FinishLoad
  <1>2. CASE Loadable(db[s]) /\ Arrive(q, "finish", s, FinishGoal(db[s]), "loaded")
    <2>1. db[s].total \in 0 .. MaxFrames /\ MaxFrames \in Nat
      BY <1>2, LoadableIs, ReplayAssumption DEF Row
    <2>2. Decided("finish", FinishGoal(db[s]), db[s].total) /\ FinishGoal(db[s]) \in Goal
      BY <2>1 DEF Decided, FinishGoal, Goal
    <2> QED BY <2>2, <1>2, LoadableIs, LoadingIInv DEF FinishLoad
  <1> QED BY <1>1, <1>2 DEF FinishLoad

LEMMA AnnotateLoadIInv ==
  ASSUME IInv, NEW q \in Requests, NEW s \in Sessions, NEW i \in FrameIndex,
         AnnotateLoad(q, s, i)
  PROVE  IInv'
  <1> DEFINE g == [NoGoal EXCEPT !.frame = i]
  <1>1. g \in Goal /\ g.frame = i
    BY ReplayAssumption DEF Goal, NoGoal, FrameIndex
  <1>2. CASE Arrive(q, "annotate", s, NoGoal, "failed")
    BY <1>2, NoGoalIsGoal, LoadingIInv DEF AnnotateLoad
  <1>3. CASE Loadable(db[s]) /\ i < db[s].total /\ Arrive(q, "annotate", s, g, "loaded")
    <2>1. Decided("annotate", g, db[s].total)
      BY <1>1, <1>3, LoadableIs, ReplayAssumption DEF Decided, FrameIndex, Row
    <2> HIDE DEF g
    <2> QED BY <1>1, <1>3, <2>1, LoadableIs, LoadingIInv DEF AnnotateLoad
  <1> QED BY <1>2, <1>3 DEF AnnotateLoad

\* The second read finds the same frames, and only comments of the committed.
LEMMA RereadIInv ==
  ASSUME IInv, NEW q \in Requests, Reread(q)
  PROVE  IInv'
  <1>1. Active(q) /\ session[q] \in Sessions /\ op[q] # "create" /\ db[session[q]] \in Row
    BY DEF IInv, TypeOK, Started, Active, Reread
  <1>2. TypeOK'
    BY <1>1 DEF IInv, TypeOK, Steps, Reread
  <1>3. Said'
    BY DEF IInv, TypeOK, Said, Advanced, Completed, Annotated, Reread
  <1>4. Started' /\ Creating' /\ Moving' /\ Carrying' /\ StandsOnAFrame' /\ NothingSilent'
    BY <1>1, ServingIInv DEF Reread, Steps
  <1> QED BY <1>2, <1>3, <1>4 DEF IInv

\* A step that keeps the copy of the row.
LEMMA KeepingIInv ==
  ASSUME IInv, NEW q \in Requests, Active(q), pc[q] # "loaded",
         NEW p \in {"written", "framed", "published"},
         p = "framed" => op[q] = "next",
         UNCHANGED <<db, op, session, goal, base>>, events \subseteq events',
         pc' = [pc EXCEPT ![q] = p]
  PROVE  Started' /\ Creating' /\ Moving' /\ Carrying' /\ StandsOnAFrame' /\ NothingSilent'
  <1>1. base[q] \in Row /\ base' = [base EXCEPT ![q] = base[q]] /\ p \in Steps
    BY DEF IInv, TypeOK, Steps
  <1> QED BY <1>1, ServingIInv

LEMMA WriteIInv ==
  ASSUME IInv, NEW q \in Requests, Write(q)
  PROVE  IInv'
  <1>1. Active(q) /\ session[q] \in Sessions
    BY DEF IInv, Started, Active, Write
  <1>2. TypeOK'
    BY <1>1, ReplayAssumption DEF IInv, TypeOK, Steps, Write
  <1>3. Said'
    BY DEF IInv, TypeOK, Said, Advanced, Completed, Annotated, Write
  <1>4. Started' /\ Creating' /\ Moving' /\ Carrying' /\ StandsOnAFrame' /\ NothingSilent'
    BY <1>1, KeepingIInv DEF Write
  <1> QED BY <1>2, <1>3, <1>4 DEF IInv

\* A publish is heard of a frame of the session.
LEMMA GoalIsPublishable ==
  ASSUME IInv, NEW q \in Requests, Active(q)
  PROVE  /\ session[q] \in Sessions
         /\ goal[q].frame \in -1 .. MaxFrames /\ goal[q].frame + 1 \in -1 .. MaxFrames
         /\ base[q].total \in -1 .. MaxFrames
  <1>1. goal[q] \in Goal /\ base[q] \in Row /\ MaxFrames \in Nat
    BY ReplayAssumption DEF IInv, TypeOK
  <1>2. session[q] \in Sessions
    BY DEF IInv, Started
  <1> QED BY <1>1, <1>2 DEF Goal, Row

LEMMA PublishFrameIInv ==
  ASSUME IInv, NEW q \in Requests, PublishFrame(q)
  PROVE  IInv'
  <1>1. Active(q) /\ op[q] = "next"
    BY DEF Active, PublishFrame
  <1>2. events \subseteq events' /\ events' \subseteq Event
    BY <1>1, GoalIsPublishable DEF IInv, TypeOK, Event, PublishFrame, Say
  <1>3. TypeOK'
    BY <1>1, <1>2 DEF IInv, TypeOK, Steps, PublishFrame
  <1>4. base[q].total > 0 => Advanced(q) \in events'
    BY DEF Advanced, PublishFrame, Say
  <1>5. Said'
    BY <1>1, <1>2, <1>4 DEF IInv, TypeOK, Said, Advanced, Completed, Annotated, PublishFrame
  <1>6. Started' /\ Creating' /\ Moving' /\ Carrying' /\ StandsOnAFrame' /\ NothingSilent'
    BY <1>1, <1>2, KeepingIInv DEF PublishFrame
  <1> QED BY <1>3, <1>5, <1>6 DEF IInv

LEMMA PublishLastIInv ==
  ASSUME IInv, NEW q \in Requests, PublishLast(q)
  PROVE  IInv'
  <1>1. Active(q) /\ pc[q] # "loaded" /\ op[q] \in {"create", "next", "finish", "annotate"}
    BY DEF IInv, TypeOK, Started, Active, PublishLast
  <1>2. /\ op[q] = "create" => Say(q, "replay.started", base[q].total)
        /\ op[q] = "annotate" => Say(q, "replay.frame_annotated", goal[q].frame)
        /\ op[q] \in {"next", "finish"} => IF goal[q].state = "completed"
                                           THEN Say(q, "replay.completed", goal[q].frame + 1)
                                           ELSE UNCHANGED events
    BY DEF PublishLast
  <1>3. events \subseteq events' /\ events' \subseteq Event
    BY <1>1, <1>2, GoalIsPublishable DEF IInv, TypeOK, Event, Say
  <1>4. TypeOK'
    BY <1>1, <1>3 DEF IInv, TypeOK, Steps, PublishLast
  <1>5. /\ op[q] \in {"next", "finish"} /\ goal[q].state = "completed" =>
             Completed(q) \in events'
        /\ op[q] = "annotate" => Annotated(q) \in events'
    BY <1>2 DEF Completed, Annotated, Say
  <1>6. op[q] = "next" /\ base[q].total > 0 => Advanced(q) \in events
    BY DEF IInv, Said, PublishLast
  <1>7. Said'
    BY <1>3, <1>5, <1>6 DEF IInv, TypeOK, Said, Advanced, Completed, Annotated, PublishLast
  <1>8. Started' /\ Creating' /\ Moving' /\ Carrying' /\ StandsOnAFrame' /\ NothingSilent'
    BY <1>1, <1>3, KeepingIInv DEF PublishLast
  <1> QED BY <1>4, <1>7, <1>8 DEF IInv

LEMMA AbortIInv ==
  ASSUME IInv, NEW q \in Requests, Abort(q)
  PROVE  IInv'
  <1>1. Active(q) /\ NoRow \in Row
    BY ReplayAssumption DEF Active, Abort, NoRow, Row, FrameIndex
  <1>2. TypeOK'
    BY <1>1, ReplayAssumption DEF IInv, TypeOK, Steps, Abort, EndSession
  <1>3. Said'
    BY DEF IInv, TypeOK, Said, Advanced, Completed, Annotated, Abort, EndSession
  <1>4. Started' /\ Creating' /\ Moving' /\ Carrying' /\ StandsOnAFrame' /\ NothingSilent'
    BY <1>1, ServingIInv DEF Abort, EndSession, Steps
  <1> QED BY <1>2, <1>3, <1>4 DEF IInv

\* What a commit makes visible: the new session, the new position or the new
\* comments, and of the other columns what others have committed.
LEMMA CommittedRow ==
  ASSUME IInv, NEW q \in Requests, Commit(q)
  PROVE  LET s == session[q]
             row == db[s]
             new == db'[s]
         IN  /\ s \in Sessions /\ row \in Row /\ new \in Row
             /\ op[q] \in {"create", "next", "finish", "annotate"}
             /\ op[q] = "create" =>
                  /\ new.state = "idle" /\ new.frame = 0
                  /\ \A i \in FrameIndex : new.frames[i] = NULL
             /\ op[q] # "create" => row # NoRow /\ new.total = row.total
             /\ op[q] \in {"next", "finish"} =>
                  /\ new.state \in {goal[q].state, row.state}
                  /\ new.frame \in {goal[q].frame, row.frame}
                  /\ new.frames = row.frames
             /\ op[q] = "annotate" =>
                  /\ new.state = row.state /\ new.frame = row.frame
                  /\ new.frames \in {[base[q].frames EXCEPT ![goal[q].frame] = q], row.frames}
  <1> DEFINE s == session[q]
  <1>1. /\ Active(q) /\ s \in Sessions /\ op[q] \in {"create", "next", "finish", "annotate"}
        /\ db[s] \in Row /\ base[q] \in Row /\ goal[q] \in Goal
        /\ db \in [Sessions -> Row]
    BY DEF IInv, TypeOK, Started, Active, Commit
  <1>2. CASE op[q] = "create"
    <2>1. db'[s] = base[q]
      BY <1>1, <1>2 DEF Commit
    <2>2. PICK n \in 0 .. MaxFrames : base[q] = Made(n)
      BY <1>1, <1>2 DEF IInv, Creating
    <2>3. /\ Made(n).state = "idle" /\ Made(n).frame = 0
          /\ \A i \in FrameIndex : Made(n).frames[i] = NULL
      BY DEF Made, NoRow
    <2> QED BY <1>1, <1>2, <2>1, <2>2, <2>3
  <1>3. CASE op[q] # "create"
    <2>1. db'[s] = Merge(Assigned(q), base[q], db[s])
      BY <1>1, <1>3 DEF Commit
    <2>2. db[s] # NoRow
      BY <1>1, <1>3 DEF IInv, Moving
    <2>3. /\ Assigned(q) \in Row
          /\ op[q] = "annotate" =>
               /\ Assigned(q).state = base[q].state /\ Assigned(q).frame = base[q].frame
               /\ Assigned(q).frames = [base[q].frames EXCEPT ![goal[q].frame] = q]
          /\ op[q] # "annotate" =>
               /\ Assigned(q).state = goal[q].state /\ Assigned(q).frame = goal[q].frame
               /\ Assigned(q).frames = base[q].frames
      BY <1>1 DEF Assigned, Row, Goal
    <2> QED BY <1>1, <1>3, <2>1, <2>2, <2>3, MergeColumns
  <1> QED BY <1>2, <1>3

LEMMA CommitIInv ==
  ASSUME IInv, NEW q \in Requests, Commit(q)
  PROVE  IInv'
  <1> DEFINE s == session[q]
             row == db[s]
             new == db'[s]
  <1>1. /\ Active(q) /\ pc[q] = "published" /\ pc'[q] = "done" /\ base'[q] = NoRow
        /\ \A r \in Requests \ {q} : pc'[r] = pc[r] /\ base'[r] = base[r]
        /\ \A t \in Sessions \ {s} : db'[t] = db[t]
        /\ \A r \in Requests : pc[r] = "done" => pc'[r] = "done"
        /\ UNCHANGED <<crowd, events, op, session, goal>>
    BY DEF IInv, TypeOK, Active, Commit, EndSession
  <1>2. /\ s \in Sessions /\ row \in Row /\ new \in Row /\ goal[q] \in Goal
        /\ base[q] \in Row
    BY CommittedRow DEF IInv, TypeOK
  <1>3. op[q] # "create" =>
          /\ row # NoRow /\ row.state # "absent" /\ new.total = row.total
          /\ base[q].total = row.total /\ Decided(op[q], goal[q], row.total)
    BY <1>1, <1>2, CommittedRow DEF IInv, Moving, Creating
  <1>4. new.state # "absent" /\ new # NoRow
    <2>1. goal[q].state # "absent"
      BY <1>2 DEF Goal
    <2>2. /\ new.state \in {"idle", goal[q].state, row.state}
          /\ op[q] = "create" => new.state = "idle"
      BY CommittedRow
    <2>3. new.state # "absent"
      BY <1>3, <2>1, <2>2
    <2> QED BY <2>3 DEF NoRow
  <1>5. \A r \in Requests : r # q /\ Active(r) /\ session[r] = s =>
          op[r] # "create" /\ op[q] # "create"
    BY <1>1, <1>2, <1>3 DEF IInv, Creating, Moving
  <1>6. TypeOK'
    <2>1. /\ NoRow \in Row /\ NULL \notin Requests
          /\ db' \in [Sessions -> Row]
      BY <1>2, ReplayAssumption DEF NoRow, Row, FrameIndex, IInv, TypeOK, Commit
    <2> QED BY <2>1 DEF IInv, TypeOK, Steps, Commit, EndSession
  <1>7. Started'
    BY <1>1 DEF IInv, Started, Active
  <1>8. Creating'
    <2>1. ASSUME NEW r \in Requests, op[r] = "create", Active(r)'
          PROVE  /\ db'[session[r]] = NoRow
                 /\ \E n \in 0 .. MaxFrames : base'[r] = Made(n)
                 /\ \A t \in Requests : op[t] = "create" /\ session[t] = session[r] => t = r
      <3>1. r # q /\ Active(r) /\ session[r] \in Sessions
        BY <1>1, <2>1 DEF IInv, Started, Active
      <3>2. session[r] # s
        BY <1>5, <2>1, <3>1
      <3> QED BY <1>1, <2>1, <3>1, <3>2 DEF IInv, Creating
    <2>2. ASSUME NEW t \in Sessions, db'[t] # NoRow
          PROVE  /\ db'[t].state # "absent"
                 /\ \E r \in Requests : op[r] = "create" /\ session[r] = t
      <3>1. CASE t = s
        BY <1>2, <1>3, <1>4, <3>1 DEF IInv, Creating
      <3>2. CASE t # s
        BY <1>1, <2>2, <3>2 DEF IInv, Creating
      <3> QED BY <3>1, <3>2
    <2> QED BY <1>1, <2>1, <2>2 DEF Creating
  <1>9. Moving'
    <2>1. ASSUME NEW r \in Requests, op[r] # "create", Active(r)'
          PROVE  /\ db'[session[r]] # NoRow
                 /\ pc'[r] # "loaded" => base'[r].total = db'[session[r]].total
                 /\ Decided(op[r], goal[r], db'[session[r]].total)
      <3>1. r # q /\ Active(r) /\ session[r] \in Sessions
        BY <1>1, <2>1 DEF IInv, Started, Active
      <3>2. /\ db'[session[r]].total = db[session[r]].total
            /\ db'[session[r]] # NoRow
        BY <1>1, <1>3, <1>4, <1>5, <2>1, <3>1 DEF IInv, Moving
      <3> QED BY <1>1, <2>1, <3>1, <3>2 DEF IInv, Moving
    <2> QED BY <1>1, <2>1 DEF Moving
  <1>10. Carrying'
    <2>1. ASSUME NEW r \in Requests, op'[r] # "create", Active(r)', pc'[r] # "loaded"
          PROVE  Authored(session[r], base[r].frames, base[r].total)'
      <3>1. /\ r # q /\ session[r] \in Sessions /\ base'[r] \in Row
            /\ Authored(session[r], base'[r].frames, base'[r].total)
        BY <1>1, <2>1 DEF IInv, TypeOK, Started, Carrying, Active
      <3> QED BY <1>1, <3>1, AuthoredStays DEF Authored
    <2> QED BY <2>1 DEF Carrying, Active
  <1>11. Said'
    BY <1>1 DEF IInv, Said, Advanced, Completed, Annotated
  <1>12. StandsOnAFrame'
    <2>1. row.total > 0 => row.frame \in 0 .. row.total - 1
      BY <1>2 DEF IInv, StandsOnAFrame
    <2>2. new.total > 0 => new.frame \in 0 .. new.total - 1
      <3>1. new.total \in Nat
        BY <1>2, ReplayAssumption DEF Row
      <3>2. CASE new.frame = 0
        BY <3>1, <3>2
      <3>3. CASE op[q] # "create" /\ new.frame = row.frame
        BY <1>3, <2>1, <3>1, <3>3
      <3>4. CASE op[q] \in {"next", "finish"} /\ new.frame = goal[q].frame
        BY <1>3, <3>1, <3>4 DEF Decided
      <3> QED BY <3>2, <3>3, <3>4, CommittedRow
    <2> QED BY <1>1, <2>2 DEF IInv, StandsOnAFrame
  <1>13. new.frame \notin {0, new.total - 1} =>
           \E r \in Requests : [event |-> "replay.frame_advanced", session |-> s,
                                at |-> new.frame, by |-> r] \in events
    <2>1. CASE op[q] # "create" /\ new.frame = row.frame
      BY <1>2, <1>3, <2>1 DEF IInv, NothingSilent
    <2>2. CASE op[q] = "next" /\ new.frame = goal[q].frame /\ new.frame # new.total - 1
      <3>1. base[q].total > 0
        BY <1>2, <1>3, <2>2 DEF Decided, Goal, Row
      <3>2. Advanced(q) \in events
        BY <1>1, <2>2, <3>1 DEF IInv, Said
      <3> QED BY <2>2, <3>2 DEF Advanced
    <2> QED BY <1>3, <2>1, <2>2, CommittedRow DEF Decided
  <1>14. new.state = "completed" =>
           \E r \in Requests : [event |-> "replay.completed", session |-> s,
                                at |-> new.total, by |-> r] \in events
    <2>1. CASE op[q] # "create" /\ new.state = row.state
      BY <1>2, <1>3, <2>1 DEF IInv, NothingSilent
    <2>2. CASE op[q] \in {"next", "finish"} /\ goal[q].state = "completed"
      <3>1. goal[q].frame + 1 = new.total
        BY <1>2, <1>3, <2>2 DEF Decided, Goal, Row
      <3>2. Completed(q) \in events
        BY <1>1, <2>2 DEF IInv, Said
      <3> QED BY <3>1, <3>2 DEF Completed
    <2> QED BY <2>1, <2>2, CommittedRow
  <1>15. ASSUME NEW i \in FrameIndex, new.frames[i] # NULL
         PROVE  /\ i < new.total
                /\ pc'[new.frames[i]] = "done"
                /\ [event |-> "replay.frame_annotated", session |-> s, at |-> i,
                    by |-> new.frames[i]] \in events
    <2>1. new.frames[i] \in Requests
      BY <1>2, <1>15 DEF Row
    <2>2. CASE op[q] # "create" /\ new.frames = row.frames
      BY <1>1, <1>2, <1>3, <1>15, <2>1, <2>2 DEF IInv, NothingSilent
    <2>3. CASE op[q] = "annotate" /\ new.frames = [base[q].frames EXCEPT ![goal[q].frame] = q]
      <3>1. CASE i = goal[q].frame
        <4>1. new.frames[i] = q
          BY <1>2, <2>3, <3>1 DEF Row
        <4>2. Annotated(q) \in events /\ goal[q].frame < new.total
          BY <1>1, <1>2, <1>3, <2>3 DEF IInv, Said, Decided, Row
        <4> QED BY <1>1, <3>1, <4>1, <4>2 DEF Annotated
      <3>2. CASE i # goal[q].frame
        <4>1. new.frames[i] = base[q].frames[i]
          BY <1>2, <2>3, <3>2 DEF Row
        <4> QED BY <1>1, <1>3, <1>15, <2>1, <2>3, <4>1 DEF IInv, Carrying, Authored
      <3> QED BY <3>1, <3>2
    <2> QED BY <1>15, <2>2, <2>3, CommittedRow
  <1>16. NothingSilent'
    <2> SUFFICES ASSUME NEW t \in Sessions
                 PROVE  /\ db'[t].frame \notin {0, db'[t].total - 1} =>
                             \E r \in Requests :
                               [event |-> "replay.frame_advanced", session |-> t,
                                at |-> db'[t].frame, by |-> r] \in events
                        /\ db'[t].state = "completed" =>
                             \E r \in Requests :
                               [event |-> "replay.completed", session |-> t,
                                at |-> db'[t].total, by |-> r] \in events
                        /\ \A i \in FrameIndex : db'[t].frames[i] # NULL =>
                             /\ i < db'[t].total
                             /\ pc'[db'[t].frames[i]] = "done"
                             /\ [event |-> "replay.frame_annotated", session |-> t,
                                 at |-> i, by |-> db'[t].frames[i]] \in events
      BY <1>1 DEF NothingSilent
    <2>1. CASE t = s
      BY <1>13, <1>14, <1>15, <2>1
    <2>2. CASE t # s
      <3>1. db'[t] = db[t] /\ db[t] \in Row
        BY <1>1, <2>2 DEF IInv, TypeOK
      <3>2. \A i \in FrameIndex : db[t].frames[i] # NULL => db[t].frames[i] \in Requests
        BY <3>1 DEF Row
      <3> QED BY <1>1, <3>1, <3>2 DEF IInv, NothingSilent
    <2> QED BY <2>1, <2>2
  <1> QED BY <1>6, <1>7, <1>8, <1>9, <1>10, <1>11, <1>12, <1>16 DEF IInv

LEMMA NextIInv == IInv /\ [Next]_vars => IInv'
  <1> SUFFICES ASSUME IInv, [Next]_vars PROVE IInv'
    OBVIOUS
  <1>1. CASE UNCHANGED vars
    <2> USE <1>1 DEF vars, IInv
    <2>1. TypeOK'
      BY DEF TypeOK
    <2>2. Started' /\ Creating'
      BY DEF Started, Creating, Active
    <2>3. Moving'
      BY DEF Moving, Active
    <2>4. Carrying' /\ Said'
      BY DEF Carrying, Authored, Said, Advanced, Completed, Annotated, Active
    <2>5. StandsOnAFrame' /\ NothingSilent'
      BY Unseen
    <2> QED BY <2>1, <2>2, <2>3, <2>4, <2>5
  <1>2. ASSUME NEW q \in Requests, NEW s \in Sessions, NEW minutes \in Ranges,
               CreateSave(q, s, minutes)
        PROVE  IInv'
    BY <1>2, CreateSaveIInv
  <1>3. ASSUME NEW q \in Requests, NEW s \in Sessions, NextLoad(q, s)
        PROVE  IInv'
    BY <1>3, NextLoadIInv
  <1>4. ASSUME NEW q \in Requests, NEW s \in Sessions, FinishLoad(q, s)
        PROVE  IInv'
    BY <1>4, FinishLoadIInv
  <1>5. ASSUME NEW q \in Requests, NEW s \in Sessions, NEW i \in FrameIndex,
               AnnotateLoad(q, s, i)
        PROVE  IInv'
    BY <1>5, AnnotateLoadIInv
  <1>6. ASSUME NEW q \in Requests, Serve(q) \/ Abort(q)
        PROVE  IInv'
    BY <1>6, RereadIInv, WriteIInv, PublishFrameIInv, PublishLastIInv, CommitIInv, AbortIInv
       DEF Serve
  <1> QED BY <1>1, <1>2, <1>3, <1>4, <1>5, <1>6 DEF Next

THEOREM Invariance == Spec => []IInv
  BY InitIInv, NextIInv, PTL DEF Spec

\* Every variable keeps its type, and no two requests wait for each other's rows,
\* however the handlers interleave and fail.
THEOREM TypeCorrect == Spec => []TypeOK
  BY Invariance, PTL DEF IInv

\* A session with frames stands on one of them, although next and finish write
\* positions decided on a copy that may be stale.
THEOREM OnAFrame == Spec => []StandsOnAFrame
  BY Invariance, PTL DEF IInv

\* Position, completion and commentary of a session were published before they
\* became visible, and a comment is that of a request that committed it.
THEOREM PublishedFirst == Spec => []NothingSilent
  BY Invariance, PTL DEF IInv

-----------------------------------------------------------------------------
(* A lone viewer: ReplayControl implements ReplayPlayback.                 *)

\* Of the requests of a lone viewer one is in flight, and it has read the row
\* that is there still.
Fresh(q) ==
  LET row == db[session[q]] IN
  op[q] # "create" =>
    /\ pc[q] # "loaded" => base[q] = row
    /\ op[q] = "next" => row.state # "completed" /\ goal[q] = NextGoal(row)
    /\ op[q] = "finish" => goal[q] = FinishGoal(row)

Alone ==
  /\ IsFiniteSet(InFlight)
  /\ crowd = 1 => \A q \in InFlight : Fresh(q) /\ \A p \in InFlight : p = q

LEMMA InFlightIs ==
  ASSUME TypeOK
  PROVE  \A q \in Requests : q \in InFlight <=> Active(q)
  BY DEF TypeOK, Steps, InFlight, Active

LEMMA InitAlone == Init => Alone
  <1> SUFFICES ASSUME Init PROVE Alone
    OBVIOUS
  <1>1. InFlight = {}
    BY DEF Init, InFlight
  <1> QED BY <1>1, FS_EmptySet DEF Alone

\* A lone viewer's request arrives when no other is in flight.
LEMMA ArriveAlone ==
  ASSUME IInv, Alone, NEW q \in Requests, NEW s, NEW o, NEW g, NEW p,
         Arrive(q, o, s, g, p),
         p \in {"loaded", "written", "done", "failed"},
         p = "written" => o = "create",
         p = "loaded" => /\ o = "next" => db[s].state # "completed" /\ g = NextGoal(db[s])
                         /\ o = "finish" => g = FinishGoal(db[s])
  PROVE  Alone'
  <1>1. /\ pc'[q] = p /\ op'[q] = o /\ session'[q] = s /\ goal'[q] = g
        /\ \A r \in Requests \ {q} : pc'[r] = pc[r]
        /\ UNCHANGED <<crowd, db>> /\ Cardinality(InFlight) < crowd
    BY DEF IInv, TypeOK, Arrive
  <1>2. InFlight' \subseteq InFlight \cup {q}
    BY <1>1 DEF InFlight
  <1>3. IsFiniteSet(InFlight')
    BY <1>2, FS_AddElement, FS_Subset DEF Alone
  <1>4. ASSUME crowd = 1
        PROVE  \A r \in InFlight' : r = q
    <2>1. Cardinality(InFlight) = 0
      BY <1>1, <1>4, FS_CardinalityType DEF Alone
    <2> QED BY <1>2, <2>1, FS_EmptySet DEF Alone
  <1>5. ASSUME q \in InFlight'
        PROVE  Fresh(q)'
    <2>1. p \in {"loaded", "written"}
      BY <1>1, <1>5 DEF InFlight
    <2> QED BY <1>1, <2>1 DEF Fresh
  <1> QED BY <1>1, <1>3, <1>4, <1>5 DEF Alone

\* It goes on with the row it has read, nobody else being there to change it.
LEMMA ServeAlone ==
  ASSUME IInv, Alone, NEW q \in Requests,
         Reread(q) \/ Write(q) \/ PublishFrame(q) \/ PublishLast(q)
  PROVE  Alone'
  <1>1. Active(q) /\ pc[q] \in Steps \ {"idle", "published", "done", "failed"}
    BY DEF Active, Steps, Reread, Write, PublishFrame, PublishLast
  <1>2. /\ \A r \in Requests \ {q} : pc'[r] = pc[r]
        /\ pc'[q] \in {"reread", "written", "framed", "published"}
        /\ UNCHANGED <<crowd, db, op, session, goal>>
        /\ op[q] # "create" => base'[q] = db[session[q]] \/ (base'[q] = base[q] /\ pc[q] # "loaded")
    BY DEF IInv, TypeOK, Reread, Write, PublishFrame, PublishLast
  <1>3. InFlight' = InFlight /\ q \in InFlight
    BY <1>1, <1>2 DEF InFlight, Active
  <1>4. ASSUME Fresh(q)
        PROVE  Fresh(q)'
    BY <1>2, <1>4 DEF Fresh
  <1> QED BY <1>2, <1>3, <1>4 DEF Alone

LEMMA EndAlone ==
  ASSUME IInv, Alone, NEW q \in Requests, Commit(q) \/ Abort(q)
  PROVE  Alone'
  <1>1. /\ \A r \in Requests \ {q} : pc'[r] = pc[r]
        /\ pc'[q] \in {"done", "failed"} /\ pc[q] \notin {"idle", "done", "failed"}
        /\ UNCHANGED crowd
    BY DEF IInv, TypeOK, Commit, Abort, EndSession
  <1>2. InFlight' \subseteq InFlight /\ q \in InFlight /\ q \notin InFlight'
    BY <1>1 DEF InFlight
  <1>3. IsFiniteSet(InFlight')
    BY <1>2, FS_Subset DEF Alone
  <1> QED BY <1>1, <1>2, <1>3 DEF Alone

LEMMA NextAlone == IInv /\ Alone /\ [Next]_vars => Alone'
  <1> SUFFICES ASSUME IInv, Alone, [Next]_vars PROVE Alone'
    OBVIOUS
  <1>1. CASE UNCHANGED vars
    BY <1>1 DEF vars, Alone, Fresh, InFlight
  <1>2. ASSUME NEW q \in Requests, NEW s \in Sessions, NEW minutes \in Ranges,
               CreateSave(q, s, minutes)
        PROVE  Alone'
    BY <1>2, ArriveAlone DEF CreateSave
  <1>3. ASSUME NEW q \in Requests, NEW s \in Sessions, NextLoad(q, s)
        PROVE  Alone'
    BY <1>3, ArriveAlone DEF NextLoad
  <1>4. ASSUME NEW q \in Requests, NEW s \in Sessions, FinishLoad(q, s)
        PROVE  Alone'
    BY <1>4, ArriveAlone DEF FinishLoad
  <1>5. ASSUME NEW q \in Requests, NEW s \in Sessions, NEW i \in FrameIndex,
               AnnotateLoad(q, s, i)
        PROVE  Alone'
    BY <1>5, ArriveAlone DEF AnnotateLoad
  <1>6. ASSUME NEW q \in Requests, Serve(q) \/ Abort(q)
        PROVE  Alone'
    BY <1>6, ServeAlone, EndAlone DEF Serve
  <1> QED BY <1>1, <1>2, <1>3, <1>4, <1>5, <1>6 DEF Next

\* Only a commit changes rows.
LEMMA VisibleSteps ==
  ASSUME [Next]_vars
  PROVE  UNCHANGED db \/ \E q \in Requests : Commit(q)
  <1>1. ASSUME NEW q \in Requests, NEW s \in Sessions, NEW minutes \in Ranges,
               CreateSave(q, s, minutes)
        PROVE  UNCHANGED db
    BY <1>1 DEF CreateSave, Arrive
  <1>2. ASSUME NEW q \in Requests, NEW s \in Sessions, NEW i \in FrameIndex,
               NextLoad(q, s) \/ FinishLoad(q, s) \/ AnnotateLoad(q, s, i)
        PROVE  UNCHANGED db
    BY <1>2 DEF NextLoad, FinishLoad, AnnotateLoad, Arrive
  <1>3. ASSUME NEW q \in Requests,
               Reread(q) \/ Write(q) \/ PublishFrame(q) \/ PublishLast(q) \/ Abort(q)
        PROVE  UNCHANGED db
    BY <1>3 DEF Reread, Write, PublishFrame, PublishLast, Abort
  <1>4. CASE UNCHANGED vars
    BY <1>4 DEF vars
  <1>5. 0 \in FrameIndex
    BY ReplayAssumption DEF FrameIndex
  <1> QED BY <1>1, <1>2, <1>3, <1>4, <1>5 DEF Next, Serve

\* A lone request's commit takes its session where ReplayPlayback says.
LEMMA CommitFollows ==
  ASSUME IInv, Alone, crowd = 1, NEW q \in Requests, Commit(q), NEW s \in Sessions
  PROVE  [Playback(s)!Next]_(Playback(s)!vars)
  <1>1. CASE s # session[q]
    <2>1. db'[s] = db[s]
      BY <1>1 DEF IInv, TypeOK, Commit
    <2> QED BY <2>1 DEF Playback!vars
  <1>2. CASE s = session[q]
    <2>1. /\ q \in InFlight /\ Active(q) /\ Fresh(q) /\ pc[q] = "published"
          /\ db[s] \in Row /\ base[q] \in Row /\ goal[q] \in Goal
          /\ op[q] \in {"create", "next", "finish", "annotate"}
      BY CommittedRow DEF IInv, TypeOK, Alone, InFlight, Active, Commit
    <2>2. CASE op[q] = "create"
      <3>1. PICK n \in 0 .. MaxFrames : db[s] = NoRow /\ base[q] = Made(n)
        BY <1>2, <2>1, <2>2 DEF IInv, Creating
      <3>2. db'[s] = Made(n)
        BY <1>2, <2>2, <3>1 DEF IInv, TypeOK, Commit
      <3>3. Playback(s)!Create
        BY <3>1, <3>2 DEF Playback!Create, NoRow, Made
      <3> QED BY <3>3 DEF Playback!Next
    <2>3. CASE op[q] # "create"
      <3>1. base[q] = db[s]
        BY <1>2, <2>1, <2>3 DEF Fresh
      <3>2. Assigned(q) \in Row /\ Assigned(q).total = base[q].total
        BY <2>1 DEF Assigned, Row, Goal
      <3>3. db'[s] = Assigned(q)
        BY <1>2, <2>1, <2>3, <3>1, <3>2, MergeOwn DEF IInv, TypeOK, Commit
      <3>4. db[s].state # "absent" /\ Decided(op[q], goal[q], db[s].total)
        BY <1>2, <2>1, <2>3 DEF IInv, Moving, Creating
      <3>5. CASE op[q] = "annotate"
        <4>1. /\ db'[s] = [db[s] EXCEPT !.frames = [@ EXCEPT ![goal[q].frame] = q]]
              /\ goal[q].frame \in 0 .. db[s].total - 1
          BY <3>1, <3>3, <3>4, <3>5 DEF Assigned, Decided
        <4>2. goal[q].frame \in 0 .. MaxFrames - 1 /\ goal[q].frame < db[s].total
          BY <2>1, <4>1, ReplayAssumption DEF Row
        <4>3. Playback(s)!Annotate(goal[q].frame, q)
          BY <2>1, <3>4, <4>1, <4>2 DEF Playback!Annotate, Row
        <4> QED BY <4>2, <4>3 DEF Playback!Next
      <3>6. CASE op[q] \in {"next", "finish"}
        <4>1. db'[s] = [db[s] EXCEPT !.state = goal[q].state, !.frame = goal[q].frame]
          BY <3>1, <3>3, <3>6 DEF Assigned
        <4>2. /\ db'[s].state = goal[q].state /\ db'[s].frame = goal[q].frame
              /\ db'[s].total = db[s].total /\ db'[s].frames = db[s].frames
          BY <2>1, <4>1 DEF Row
        <4>3. CASE op[q] = "finish"
          <5>1. Playback(s)!Finish
            BY <1>2, <2>1, <3>4, <4>2, <4>3 DEF Fresh, FinishGoal, Playback!Finish
          <5> QED BY <5>1 DEF Playback!Next
        <4>4. CASE op[q] = "next"
          <5>1. goal[q] = NextGoal(db[s]) /\ db[s].state \in {"idle", "playing"}
            BY <1>2, <2>1, <3>4, <4>4 DEF Fresh, Row
          <5>2. db[s].frame \in Int /\ db[s].total \in Int
            BY <2>1 DEF Row
          <5>3. Playback(s)!Step
            BY <4>2, <5>1, <5>2 DEF NextGoal, Lesser, Playback!Step
          <5> QED BY <5>3 DEF Playback!Next
        <4> QED BY <3>6, <4>3, <4>4
      <3> QED BY <2>1, <2>3, <3>5, <3>6
    <2> QED BY <2>2, <2>3
  <1> QED BY <1>1, <1>2

\* To a viewer who keeps one request open at a time a session behaves like one
\* ReplayPlayback, whatever fails: the handlers' stale copies need two requests.
THEOREM PlaybackFollowed == Spec => FollowsPlayback
  <1>1. Init => \A s \in Sessions : Playback(s)!Init
    <2> SUFFICES ASSUME Init, NEW s \in Sessions PROVE Playback(s)!Init
      OBVIOUS
    <2>1. db[s] = NoRow
      BY DEF Init
    <2> QED BY <2>1 DEF NoRow, FrameIndex, Playback!Init
  <1>2. IInv /\ Alone /\ [Next]_vars =>
          [crowd = 1 => \A s \in Sessions : [Playback(s)!Next]_(Playback(s)!vars)]_vars
    <2> SUFFICES ASSUME IInv, Alone, [Next]_vars, crowd = 1, NEW s \in Sessions
                 PROVE  [Playback(s)!Next]_(Playback(s)!vars)
      OBVIOUS
    <2>1. CASE UNCHANGED db
      BY <2>1 DEF Playback!vars
    <2> QED BY <2>1, VisibleSteps, CommitFollows
  <1> QED BY <1>1, <1>2, InitIInv, NextIInv, InitAlone, NextAlone, PTL DEF Spec, FollowsPlayback
=============================================================================
