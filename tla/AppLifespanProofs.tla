-------------------------- MODULE AppLifespanProofs -------------------------
(***************************************************************************)
(* Safety of starts, upgrades and stops, for any number of processes with  *)
(* any images, however often they stop and migrations are taken back.      *)
(***************************************************************************)
EXTENDS AppLifespan, TLAPS

-----------------------------------------------------------------------------
(* The chain of the scripts.                                               *)

(* What the database may be: the first scripts of the chain and no others. *)
Stage1 ==
  [version |-> "40fb4096fd3f",
   tables  |-> {"trades"}]

Stage2 ==
  [version |-> "37cbf7b705a0",
   tables  |-> {"trades", "chart_analyses"}]

Stage3 ==
  [version |-> "b9f1a2e3c4d5",
   tables  |-> {"trades", "chart_analyses", "context_sessions", "memory_records"}]

Stage4 ==
  [version |-> "c2d3e4f5a6b7",
   tables  |-> {"trades", "chart_analyses", "context_sessions", "memory_records",
               "performance_reports"}]

Stage5 ==
  [version |-> "d4e5f6a7b8c9",
   tables  |-> {"trades", "chart_analyses", "context_sessions", "memory_records",
               "performance_reports", "replay_sessions"}]

Stages == {Empty, Stage1, Stage2, Stage3, Stage4, Stage5}

LEMMA NoneIsNoRevision ==
  /\ NONE # "40fb4096fd3f" /\ NONE # "37cbf7b705a0" /\ NONE # "b9f1a2e3c4d5"
  /\ NONE # "c2d3e4f5a6b7" /\ NONE # "d4e5f6a7b8c9"
  BY NoneAssumption
     DEF Scripts, trades, chart_analyses, memory_tables, performance_reports,
         replay_sessions

(* An upgrade by the script that follows leads from stage to stage.        *)
LEMMA StageUp ==
  ASSUME NEW x \in Stages, NEW s \in Scripts, s.down_revision = x.version
  PROVE  Upgrade(x, s) \in Stages /\ x.tables \subseteq Upgrade(x, s).tables
<1> USE NoneIsNoRevision
    DEF Stages, Empty, Stage1, Stage2, Stage3, Stage4, Stage5, Upgrade,
        trades, chart_analyses, memory_tables,
        performance_reports, replay_sessions
<1>1. CASE s = trades BY <1>1
<1>2. CASE s = chart_analyses BY <1>2
<1>3. CASE s = memory_tables BY <1>3
<1>4. CASE s = performance_reports BY <1>4
<1>5. CASE s = replay_sessions BY <1>5
<1> QED BY <1>1, <1>2, <1>3, <1>4, <1>5 DEF Scripts

(* Taking back the script it stands at leads to the stage before.          *)
LEMMA StageDown ==
  ASSUME NEW x \in Stages, NEW s \in Scripts, s.revision = x.version
  PROVE  Downgrade(x, s) \in Stages
<1>1. CASE s = trades
  <2>1. x = Stage1
    BY <1>1, NoneIsNoRevision
       DEF trades, Stages, Empty, Stage1, Stage2, Stage3, Stage4, Stage5
  <2>2. Stage1.tables \ s.tables = Empty.tables
    BY <1>1 DEF trades, Stage1, Empty
  <2>3. Downgrade(x, s) = Empty
    BY <1>1, <2>1, <2>2 DEF Downgrade, trades, Empty
  <2> QED BY <2>3 DEF Stages
<1>2. CASE s = chart_analyses
  <2>1. x = Stage2
    BY <1>2, NoneIsNoRevision
       DEF chart_analyses, Stages, Empty, Stage1, Stage2, Stage3, Stage4, Stage5
  <2>2. Stage2.tables \ s.tables = Stage1.tables
    BY <1>2 DEF chart_analyses, Stage2, Stage1
  <2>3. Downgrade(x, s) = Stage1
    BY <1>2, <2>1, <2>2 DEF Downgrade, chart_analyses, Stage1
  <2> QED BY <2>3 DEF Stages
<1>3. CASE s = memory_tables
  <2>1. x = Stage3
    BY <1>3, NoneIsNoRevision
       DEF memory_tables, Stages, Empty, Stage1, Stage2, Stage3, Stage4, Stage5
  <2>2. Stage3.tables \ s.tables = Stage2.tables
    BY <1>3 DEF memory_tables, Stage3, Stage2
  <2>3. Downgrade(x, s) = Stage2
    BY <1>3, <2>1, <2>2 DEF Downgrade, memory_tables, Stage2
  <2> QED BY <2>3 DEF Stages
<1>4. CASE s = performance_reports
  <2>1. x = Stage4
    BY <1>4, NoneIsNoRevision
       DEF performance_reports, Stages, Empty, Stage1, Stage2, Stage3, Stage4, Stage5
  <2>2. Stage4.tables \ s.tables = Stage3.tables
    BY <1>4 DEF performance_reports, Stage4, Stage3
  <2>3. Downgrade(x, s) = Stage3
    BY <1>4, <2>1, <2>2 DEF Downgrade, performance_reports, Stage3
  <2> QED BY <2>3 DEF Stages
<1>5. CASE s = replay_sessions
  <2>1. x = Stage5
    BY <1>5, NoneIsNoRevision
       DEF replay_sessions, Stages, Empty, Stage1, Stage2, Stage3, Stage4, Stage5
  <2>2. Stage5.tables \ s.tables = Stage4.tables
    BY <1>5 DEF replay_sessions, Stage5, Stage4
  <2>3. Downgrade(x, s) = Stage4
    BY <1>5, <2>1, <2>2 DEF Downgrade, replay_sessions, Stage4
  <2> QED BY <2>3 DEF Stages
<1> QED BY <1>1, <1>2, <1>3, <1>4, <1>5 DEF Scripts

(* At every stage the tables are those of the scripts up to the version.   *)
LEMMA StageIsConsistent ==
  ASSUME NEW x \in Stages
  PROVE  Consistent(x)
<1> DEFINE Continued(s) ==
             s.tables \subseteq x.tables =>
               \/ x.version = s.revision
               \/ \E t \in Scripts : t.down_revision = s.revision /\ t.tables \subseteq x.tables
<1> SUFFICES ASSUME NEW s \in Scripts
             PROVE  /\ s.tables \subseteq x.tables \/ s.tables \cap x.tables = {}
                    /\ Continued(s)
                    /\ x.version = s.revision => s.tables \subseteq x.tables
  BY DEF Consistent, Following
<1>1. \/ s.tables \subseteq x.tables
      \/ s.tables \cap x.tables = {}
  BY DEF Scripts, Stages, Empty, Stage1, Stage2, Stage3, Stage4, Stage5, trades,
         chart_analyses, memory_tables, performance_reports, replay_sessions
<1>2. x.version = s.revision => s.tables \subseteq x.tables
  BY NoneIsNoRevision
     DEF Scripts, Stages, Empty, Stage1, Stage2, Stage3, Stage4, Stage5, trades,
         chart_analyses, memory_tables, performance_reports, replay_sessions
<1>3. Continued(s)
  <2>1. CASE s = trades
    <3>1. s.tables \subseteq x.tables =>
            x.version = s.revision \/ chart_analyses.tables \subseteq x.tables
      BY <2>1, NoneIsNoRevision
        DEF Stages, Empty, Stage1, Stage2, Stage3, Stage4, Stage5, trades,
            chart_analyses, memory_tables, performance_reports, replay_sessions
    <3>2. chart_analyses \in Scripts /\ chart_analyses.down_revision = s.revision
      BY <2>1 DEF Scripts, trades, chart_analyses
    <3> QED BY <3>1, <3>2
  <2>2. CASE s = chart_analyses
    <3>1. s.tables \subseteq x.tables =>
            x.version = s.revision \/ memory_tables.tables \subseteq x.tables
      BY <2>2, NoneIsNoRevision
        DEF Stages, Empty, Stage1, Stage2, Stage3, Stage4, Stage5, trades,
            chart_analyses, memory_tables, performance_reports, replay_sessions
    <3>2. memory_tables \in Scripts /\ memory_tables.down_revision = s.revision
      BY <2>2 DEF Scripts, chart_analyses, memory_tables
    <3> QED BY <3>1, <3>2
  <2>3. CASE s = memory_tables
    <3>1. s.tables \subseteq x.tables =>
            x.version = s.revision \/ performance_reports.tables \subseteq x.tables
      BY <2>3, NoneIsNoRevision
        DEF Stages, Empty, Stage1, Stage2, Stage3, Stage4, Stage5, trades,
            chart_analyses, memory_tables, performance_reports, replay_sessions
    <3>2. performance_reports \in Scripts /\ performance_reports.down_revision = s.revision
      BY <2>3 DEF Scripts, memory_tables, performance_reports
    <3> QED BY <3>1, <3>2
  <2>4. CASE s = performance_reports
    <3>1. s.tables \subseteq x.tables =>
            x.version = s.revision \/ replay_sessions.tables \subseteq x.tables
      BY <2>4, NoneIsNoRevision
        DEF Stages, Empty, Stage1, Stage2, Stage3, Stage4, Stage5, trades,
            chart_analyses, memory_tables, performance_reports, replay_sessions
    <3>2. replay_sessions \in Scripts /\ replay_sessions.down_revision = s.revision
      BY <2>4 DEF Scripts, performance_reports, replay_sessions
    <3> QED BY <3>1, <3>2
  <2>5. CASE s = replay_sessions
    BY <2>5, NoneIsNoRevision
      DEF Stages, Empty, Stage1, Stage2, Stage3, Stage4, Stage5, trades,
          chart_analyses, memory_tables, performance_reports, replay_sessions
  <2> QED BY <2>1, <2>2, <2>3, <2>4, <2>5 DEF Scripts
<1> QED BY <1>1, <1>2, <1>3

LEMMA StageInSchema ==
  ASSUME NEW x \in Stages
  PROVE  x \in Schema
<1>1. "trades" \in Tables(Scripts) /\ "chart_analyses" \in Tables(Scripts)
  BY DEF Tables, Scripts, trades, chart_analyses
<1>2. "context_sessions" \in Tables(Scripts) /\ "memory_records" \in Tables(Scripts)
  BY DEF Tables, Scripts, memory_tables
<1>3. "performance_reports" \in Tables(Scripts) /\ "replay_sessions" \in Tables(Scripts)
  BY DEF Tables, Scripts, performance_reports, replay_sessions
<1>4. x.version \in {NONE} \cup {s.revision : s \in Scripts}
  BY DEF Stages, Empty, Stage1, Stage2, Stage3, Stage4, Stage5,
     Scripts, trades, chart_analyses, memory_tables,
     performance_reports, replay_sessions
<1>5. /\ x.tables \subseteq Tables(Scripts)
      /\ x = [version |-> x.version, tables |-> x.tables]
  BY <1>1, <1>2, <1>3 DEF Stages, Empty, Stage1, Stage2, Stage3, Stage4, Stage5
<1> QED BY <1>4, <1>5 DEF Schema

-----------------------------------------------------------------------------
(* An image and its head.                                                  *)

Closed(I) ==
  /\ I \in (SUBSET Scripts) \ {{}}
  /\ \A s \in I : s.down_revision = NONE \/ \E t \in I : t.revision = s.down_revision

(* An image holds the scripts up to one of them.                           *)
LEMMA ImageIsPrefix ==
  ASSUME NEW I, Closed(I)
  PROVE  \/ I = {trades}
         \/ I = {trades, chart_analyses}
         \/ I = {trades, chart_analyses, memory_tables}
         \/ I = {trades, chart_analyses, memory_tables, performance_reports}
         \/ I = Scripts
<1> DEFINE Follows(s, t) == s \in I => t \in I
<1>1. ASSUME NEW s \in I, s.down_revision # NONE
      PROVE  \E t \in I : t \in Scripts /\ t.revision = s.down_revision
  BY <1>1 DEF Closed
<1>2. Follows(chart_analyses, trades)
  <2> SUFFICES ASSUME chart_analyses \in I
               PROVE  trades \in I
    OBVIOUS
  <2>1. PICK t \in I : t \in Scripts /\ t.revision = chart_analyses.down_revision
    BY <1>1, NoneIsNoRevision DEF chart_analyses
  <2>2. t = trades
    BY <2>1 DEF Scripts, trades, chart_analyses, memory_tables, performance_reports,
       replay_sessions
  <2> QED BY <2>1, <2>2
<1>3. Follows(memory_tables, chart_analyses)
  <2> SUFFICES ASSUME memory_tables \in I
               PROVE  chart_analyses \in I
    OBVIOUS
  <2>1. PICK t \in I : t \in Scripts /\ t.revision = memory_tables.down_revision
    BY <1>1, NoneIsNoRevision DEF memory_tables
  <2>2. t = chart_analyses
    BY <2>1 DEF Scripts, trades, chart_analyses, memory_tables, performance_reports,
       replay_sessions
  <2> QED BY <2>1, <2>2
<1>4. Follows(performance_reports, memory_tables)
  <2> SUFFICES ASSUME performance_reports \in I
               PROVE  memory_tables \in I
    OBVIOUS
  <2>1. PICK t \in I : t \in Scripts /\ t.revision = performance_reports.down_revision
    BY <1>1, NoneIsNoRevision DEF performance_reports
  <2>2. t = memory_tables
    BY <2>1 DEF Scripts, trades, chart_analyses, memory_tables, performance_reports,
       replay_sessions
  <2> QED BY <2>1, <2>2
<1>5. Follows(replay_sessions, performance_reports)
  <2> SUFFICES ASSUME replay_sessions \in I
               PROVE  performance_reports \in I
    OBVIOUS
  <2>1. PICK t \in I : t \in Scripts /\ t.revision = replay_sessions.down_revision
    BY <1>1, NoneIsNoRevision DEF replay_sessions
  <2>2. t = performance_reports
    BY <2>1 DEF Scripts, trades, chart_analyses, memory_tables, performance_reports,
       replay_sessions
  <2> QED BY <2>1, <2>2
<1> QED BY <1>2, <1>3, <1>4, <1>5 DEF Closed, Scripts

(* Its head is the only revision in it that none of its scripts follows.   *)
LEMMA HeadIs ==
  ASSUME NEW I, Closed(I), NEW s \in I, \A t \in I : t.down_revision # s.revision
  PROVE  Head(I) = s.revision
<1>1. ASSUME NEW t \in I, \A u \in I : u.down_revision # t.revision
      PROVE  t.revision = s.revision
  <2> USE NoneIsNoRevision, <1>1
      DEF trades, chart_analyses, memory_tables, performance_reports, replay_sessions
  <2>1. CASE I = {trades} BY <2>1
  <2>2. CASE I = {trades, chart_analyses} BY <2>2
  <2>3. CASE I = {trades, chart_analyses, memory_tables} BY <2>3
  <2>4. CASE I = {trades, chart_analyses, memory_tables, performance_reports} BY <2>4
  <2>5. CASE I = Scripts BY <2>5 DEF Scripts
  <2> QED BY <2>1, <2>2, <2>3, <2>4, <2>5, ImageIsPrefix
<1> DEFINE v == CHOOSE v \in {u.revision : u \in I} : \A u \in I : u.down_revision # v
<1>2. v \in {u.revision : u \in I} /\ \A u \in I : u.down_revision # v
  <2>1. \E x \in {u.revision : u \in I} : \A u \in I : u.down_revision # x
    OBVIOUS
  <2> QED BY <2>1
<1> HIDE DEF v
<1>3. v = s.revision BY <1>1, <1>2
<1> QED BY <1>3 DEF Head, v

(* Where no script of an image is left to run, the version is the image's  *)
(* head and all its tables are there.                                      *)
LEMMA AtTheHead ==
  ASSUME NEW I, Closed(I), NEW x \in Stages, Known(I, x.version),
         Following(I, x.version) = {}
  PROVE  x.version = Head(I) /\ Tables(I) \subseteq x.tables
<1>1. \A t \in I : t.down_revision # x.version
  BY DEF Following
<1>2. x.version # NONE
  <2>1. trades \in I BY ImageIsPrefix DEF Scripts
  <2> QED BY <2>1, <1>1 DEF trades
<1>3. PICK s \in I : s.revision = x.version
  BY <1>2 DEF Known
<1>4. x.version = Head(I)
  BY <1>1, <1>3, HeadIs
<1>5. ASSUME NEW t \in I
      PROVE  t.tables \subseteq x.tables
  <2> USE NoneIsNoRevision, <1>1, <1>2, <1>3, <1>5
      DEF Stages, Empty, Stage1, Stage2, Stage3, Stage4, Stage5, trades,
          chart_analyses, memory_tables, performance_reports,
          replay_sessions
  <2>1. CASE I = {trades} BY <2>1
  <2>2. CASE I = {trades, chart_analyses} BY <2>2
  <2>3. CASE I = {trades, chart_analyses, memory_tables} BY <2>3
  <2>4. CASE I = {trades, chart_analyses, memory_tables, performance_reports} BY <2>4
  <2>5. CASE I = Scripts BY <2>5 DEF Scripts
  <2> QED BY <2>1, <2>2, <2>3, <2>4, <2>5, ImageIsPrefix
<1> QED BY <1>4, <1>5 DEF Tables

LEMMA ImagesAreClosed ==
  ASSUME NEW w \in Workers
  PROVE  Closed(Image[w])
  BY ImageAssumption DEF Closed

-----------------------------------------------------------------------------
(* The inductive invariant.                                                *)

(* The committed database is at a stage.                                   *)
Staged == schema \in Stages

(* So is what each upgrade sees, at a version of its image.                *)
Underway ==
  \A w \in Workers : phase[w] = "upgrading" =>
    mine[w] \in Stages /\ Known(Image[w], mine[w].version)

(* One upgrade at a time has uncommitted tables, and nothing that is       *)
(* committed is missing among its own.                                     *)
Alone ==
  \A w \in holder :
    /\ holder = {w}
    /\ schema.tables \subseteq mine[w].tables

(* What the others saw is still there, unless something was taken back.    *)
Seen ==
  \A w \in Workers \ (stale \cup holder) :
    phase[w] = "upgrading" => mine[w].tables \subseteq schema.tables

(* Until then the version is the head of somebody's image.                 *)
AtAHead ==
  rollbacks = 0 => schema = Empty \/ \E w \in Workers : schema.version = Head(Image[w])

Inv ==
  /\ TypeOK /\ Staged /\ Underway /\ Alone /\ Seen /\ TablesAreThere /\ AtAHead

LEMMA InitInv == Init => Inv
<1> SUFFICES ASSUME Init PROVE Inv
  OBVIOUS
<1>1. Empty \in Stages /\ Empty \in Schema
  BY StageInSchema DEF Stages
<1>2. TypeOK
  BY <1>1, BoundsAssumption DEF Init, TypeOK, Phases
<1> QED BY <1>1, <1>2
        DEF Init, Inv, Staged, Underway, Alone, Seen, TablesAreThere, AtAHead

-----------------------------------------------------------------------------
(* Each action preserves it.                                               *)

(* A process that ends, whatever it was doing.                             *)
LEMMA EndedKeeps ==
  ASSUME Inv, NEW w \in Workers, Ended(w),
         UNCHANGED <<schema, mine, rollbacks>>, stops' \in 0 .. MaxStops
  PROVE  Inv'
<1> USE DEF Inv, Ended
<1>1. TypeOK'
  BY DEF TypeOK, Phases
<1>2. Staged' /\ AtAHead'
  BY DEF Staged, AtAHead
<1>3. Underway' /\ Alone' /\ Seen' /\ TablesAreThere'
  BY DEF TypeOK, Underway, Alone, Seen, TablesAreThere
<1> QED BY <1>1, <1>2, <1>3

LEMMA StartKeeps ==
  ASSUME Inv, NEW w \in Workers, Start(w)
  PROVE  Inv'
<1> USE DEF Inv, Start
<1>1. TypeOK'
  BY DEF TypeOK, Phases
<1>2. Staged' /\ AtAHead'
  BY DEF Staged, AtAHead
<1>3. Underway' /\ Alone' /\ Seen' /\ TablesAreThere'
  BY DEF TypeOK, Underway, Alone, Seen, TablesAreThere
<1> QED BY <1>1, <1>2, <1>3

LEMMA ReadVersionKeeps ==
  ASSUME Inv, NEW w \in Workers, ReadVersion(w)
  PROVE  Inv'
<1>1. CASE Ended(w) /\ UNCHANGED <<schema, mine, stops, rollbacks>>
  BY <1>1, EndedKeeps DEF Inv, TypeOK
<1>2. CASE ~ (Ended(w) /\ UNCHANGED mine)
  <2> USE DEF Inv
  <2>1. /\ phase[w] = "starting" /\ Known(Image[w], schema.version)
        /\ phase' = [phase EXCEPT ![w] = "upgrading"]
        /\ mine' = [mine EXCEPT ![w] = schema]
        /\ UNCHANGED <<holder, open, stale, schema, stops, rollbacks>>
    BY <1>2 DEF ReadVersion
  <2>2. TypeOK'
    BY <2>1 DEF TypeOK, Phases
  <2>3. Staged' /\ AtAHead'
    BY <2>1 DEF Staged, AtAHead
  <2>4. Underway' /\ Alone' /\ Seen' /\ TablesAreThere'
    BY <2>1 DEF TypeOK, Staged, Underway, Alone, Seen, TablesAreThere
  <2> QED BY <2>2, <2>3, <2>4
<1> QED BY <1>1, <1>2 DEF ReadVersion

(* A script that runs moves its process's own schema on and makes it the   *)
(* holder; one that finds the database changed ends its process.           *)
LEMMA RunScriptKeeps ==
  ASSUME Inv, NEW w \in Workers, RunScript(w)
  PROVE  Inv'
<1>1. CASE Ended(w) /\ UNCHANGED <<schema, mine, stops, rollbacks>>
  BY <1>1, EndedKeeps DEF Inv, TypeOK
<1>2. CASE ~ (Ended(w) /\ UNCHANGED mine)
  <2> USE DEF Inv
  <2>1. PICK s \in Following(Image[w], mine[w].version) :
          /\ phase[w] = "upgrading" /\ holder \subseteq {w}
          /\ w \in holder \/ schema = mine[w]
          /\ mine' = [mine EXCEPT ![w] = Upgrade(@, s)]
          /\ holder' = {w}
          /\ UNCHANGED <<phase, open, stale, schema, stops, rollbacks>>
    BY <1>2 DEF RunScript
  <2>2. /\ mine[w] \in Stages
        /\ s \in Image[w] /\ s \in Scripts /\ s.down_revision = mine[w].version
    BY <2>1, ImageAssumption DEF Underway, Following
  <2>3. /\ mine'[w] = Upgrade(mine[w], s)
        /\ mine'[w] \in Stages /\ mine'[w] \in Schema
        /\ mine[w].tables \subseteq mine'[w].tables
    BY <2>1, <2>2, StageUp, StageInSchema DEF TypeOK
  <2>4. TypeOK'
    BY <2>1, <2>3 DEF TypeOK
  <2>5. Staged' /\ AtAHead' /\ TablesAreThere'
    BY <2>1 DEF Staged, AtAHead, TablesAreThere
  <2>6. Known(Image[w], mine'[w].version)
    BY <2>2, <2>3 DEF Upgrade, Known
  <2>7. Underway'
    BY <2>1, <2>3, <2>6 DEF TypeOK, Underway
  <2>8. Alone' /\ Seen'
    BY <2>1, <2>3 DEF TypeOK, Alone, Seen
  <2> QED BY <2>4, <2>5, <2>7, <2>8
<1> QED BY <1>1, <1>2 DEF RunScript

(* A commit adds to the database and leaves it at the head of the image.   *)
LEMMA CommitUpgradeKeeps ==
  ASSUME Inv, NEW w \in Workers, CommitUpgrade(w)
  PROVE  Inv'
<1> USE DEF Inv, CommitUpgrade
<1>1. /\ mine[w] \in Stages /\ mine[w].version = Head(Image[w])
      /\ Tables(Image[w]) \subseteq mine[w].tables
  BY AtTheHead, ImagesAreClosed DEF Underway
<1>2. schema' \in Stages /\ schema' \in Schema /\ schema.tables \subseteq schema'.tables
  BY <1>1, StageInSchema DEF Staged, Alone
<1>3. TypeOK'
  BY <1>2 DEF TypeOK, Phases
<1>4. AtAHead'
  BY <1>1 DEF AtAHead
<1>5. Underway' /\ Alone' /\ Seen'
  BY <1>2 DEF TypeOK, Underway, Alone, Seen
<1>6. w \notin stale => Tables(Image[w]) \subseteq schema'.tables
  BY <1>1 DEF TypeOK, Seen
<1>7. TablesAreThere'
  BY <1>2, <1>6 DEF TypeOK, TablesAreThere
<1> QED BY <1>2, <1>3, <1>4, <1>5, <1>7 DEF Staged

LEMMA ServeKeeps ==
  ASSUME Inv, NEW w \in Workers, Serve(w)
  PROVE  Inv'
<1> USE DEF Inv
<1>1. PICK tasks \in {Tasks, Tasks \ {"scheduler"}} :
        /\ phase[w] = "upgraded"
        /\ phase' = [phase EXCEPT ![w] = "serving"]
        /\ open' = [open EXCEPT ![w] = Connections \cup tasks]
        /\ UNCHANGED <<schema, mine, holder, stale, stops, rollbacks>>
  BY DEF Serve
<1>2. TypeOK'
  BY <1>1 DEF TypeOK, Phases
<1>3. Staged' /\ AtAHead'
  BY <1>1 DEF Staged, AtAHead
<1>4. Underway' /\ Alone' /\ Seen' /\ TablesAreThere'
  BY <1>1 DEF TypeOK, Underway, Alone, Seen, TablesAreThere
<1> QED BY <1>2, <1>3, <1>4

LEMMA StopKeeps ==
  ASSUME Inv, NEW w \in Workers, Stop(w)
  PROVE  Inv'
<1> USE DEF Inv, Stop
<1>1. TypeOK'
  BY BoundsAssumption DEF TypeOK, Phases
<1>2. Staged' /\ AtAHead'
  BY DEF Staged, AtAHead
<1>3. Underway' /\ Alone' /\ Seen' /\ TablesAreThere'
  BY DEF TypeOK, Underway, Alone, Seen, TablesAreThere
<1> QED BY <1>1, <1>2, <1>3

LEMMA CloseKeeps ==
  ASSUME Inv, NEW w \in Workers, Close(w)
  PROVE  Inv'
<1>1. CASE open[w] = {}
  BY <1>1, EndedKeeps DEF Close, Inv, TypeOK
<1>2. CASE open[w] # {}
  <2> USE DEF Inv
  <2>1. PICK r \in open[w] :
          /\ phase[w] = "stopping"
          /\ open' = [open EXCEPT ![w] = @ \ {r}]
          /\ UNCHANGED <<phase, holder, stale, schema, mine, stops, rollbacks>>
    BY <1>2 DEF Close
  <2>2. TypeOK'
    BY <2>1 DEF TypeOK
  <2>3. Staged' /\ AtAHead' /\ Underway' /\ Alone' /\ Seen' /\ TablesAreThere'
    BY <2>1 DEF Staged, AtAHead, Underway, Alone, Seen, TablesAreThere
  <2> QED BY <2>2, <2>3
<1> QED BY <1>1, <1>2

LEMMA CrashKeeps ==
  ASSUME Inv, NEW w \in Workers, Crash(w)
  PROVE  Inv'
<1>1. stops' \in 0 .. MaxStops
  BY BoundsAssumption DEF Crash, Inv, TypeOK
<1> QED BY <1>1, EndedKeeps DEF Crash

(* What is taken back is missing only for those who were up: no upgrade    *)
(* has uncommitted tables, and whoever is up becomes stale.                *)
LEMMA RollbackKeeps ==
  ASSUME Inv, Rollback
  PROVE  Inv'
<1> USE DEF Inv
<1>1. PICK s \in Scripts :
        /\ holder = {} /\ rollbacks < MaxRollbacks
        /\ rollbacks' = rollbacks + 1
        /\ s.revision = schema.version
        /\ schema' = Downgrade(schema, s)
        /\ stale' = {w \in Workers : phase[w] # "down"}
        /\ UNCHANGED <<phase, mine, holder, open, stops>>
  BY DEF Rollback
<1>2. schema' \in Stages /\ schema' \in Schema
  BY <1>1, StageDown, StageInSchema DEF Staged
<1>3. TypeOK'
  BY <1>1, <1>2, BoundsAssumption DEF TypeOK
<1>4. AtAHead'
  BY <1>1, BoundsAssumption DEF TypeOK, AtAHead
<1>5. Underway' /\ Alone' /\ Seen' /\ TablesAreThere'
  BY <1>1 DEF Underway, Alone, Seen, TablesAreThere
<1> QED BY <1>2, <1>3, <1>4, <1>5 DEF Staged

-----------------------------------------------------------------------------
(* The theorems.                                                           *)

LEMMA Safety == Spec => []Inv
<1>1. Inv /\ [Next]_vars => Inv'
  <2> SUFFICES ASSUME Inv, [Next]_vars
               PROVE  Inv'
    OBVIOUS
  <2>1. CASE Rollback
    BY <2>1, RollbackKeeps
  <2>2. ASSUME NEW w \in Workers, Own(w) \/ Stop(w) \/ Crash(w)
        PROVE  Inv'
    BY <2>2, StartKeeps, ReadVersionKeeps, RunScriptKeeps, CommitUpgradeKeeps,
       ServeKeeps, CloseKeeps, StopKeeps, CrashKeeps DEF Own
  <2>3. CASE UNCHANGED vars
    BY <2>3 DEF vars, Inv, TypeOK, Staged, Underway, Alone, Seen, TablesAreThere,
       AtAHead
  <2> QED BY <2>1, <2>2, <2>3 DEF Next
<1> QED BY InitInv, <1>1, PTL DEF Spec

(* The variables keep their sets, and a process that is not upgrading      *)
(* holds nobody up.                                                        *)
THEOREM TypeCorrect == Spec => []TypeOK
<1>1. Inv => TypeOK
  BY DEF Inv
<1> QED BY <1>1, Safety, PTL

(* However many processes upgrade at once, die and come back, and however  *)
(* often a migration is taken back, the tables are those of the scripts up *)
(* to the version, and no reader finds an upgrade half done.               *)
THEOREM UpgradesAreWhole == Spec => []WholeUpgrades
<1>1. Inv => WholeUpgrades
  BY StageIsConsistent DEF Inv, Staged, AtAHead, WholeUpgrades
<1> QED BY <1>1, Safety, PTL

(* A process that takes requests finds every table of its image, unless    *)
(* one was taken back while it was up.                                     *)
THEOREM ServesWithTables == Spec => []TablesAreThere
<1>1. Inv => TablesAreThere
  BY DEF Inv
<1> QED BY <1>1, Safety, PTL
=============================================================================
