------------------------- MODULE ContextMemoryProofs -------------------------
(***************************************************************************)
(* Safety of the context memory and the refinement of Conversation, for    *)
(* any number of requests and sessions.                                    *)
(***************************************************************************)
EXTENDS ContextMemory, Integers, FiniteSetTheorems, SequenceTheorems, TLAPS

-----------------------------------------------------------------------------
(* What the operators compute.                                             *)

\* A set of bounded numbers has a largest: the newest session is there.
LEMMA SmallestOf ==
  ASSUME NEW T \in SUBSET Nat, T # {}
  PROVE  \E x \in T : \A y \in T : x <= y
  <1> DEFINE R == OpToRel(<, Nat)
  <1>1. IsWellFoundedOn(R, Nat)
    BY NatLessThanWellFounded
  <1>2. \A x, y \in Nat : x < y => <<x, y>> \in R
    BY DEF OpToRel
  <1> HIDE DEF R
  <1>3. PICK x \in T : \A y \in T : ~ (<<y, x>> \in R)
    BY <1>1, WFMin
  <1>4. ASSUME NEW y \in T
        PROVE  x <= y
    <2>1. x \in Nat /\ y \in Nat /\ ~ (y < x)
      BY <1>2, <1>3
    <2> QED BY <2>1
  <1> QED BY <1>4

LEMMA LargestOf ==
  ASSUME NEW n \in Nat, NEW T \in SUBSET (0 .. n), T # {}
  PROVE  \E x \in T : \A y \in T : y <= x
  <1> DEFINE U == {n - x : x \in T}
  <1>1. U \in SUBSET Nat /\ U # {}
    <2>1. \A x \in T : n - x \in Nat
      OBVIOUS
    <2> QED BY <2>1
  <1> HIDE DEF U
  <1>2. PICK u \in U : \A y \in U : u <= y
    BY <1>1, SmallestOf
  <1> USE DEF U
  <1>3. PICK x \in T : u = n - x
    OBVIOUS
  <1>4. ASSUME NEW y \in T
        PROVE  y <= x
    <2>1. u <= n - y
      BY <1>2
    <2> QED BY <1>3, <2>1
  <1> QED BY <1>4

LEMMA SessionsAre ==
  /\ IsFiniteSet(Requests) /\ Cardinality(Requests) \in Nat /\ 0 \notin Requests
  /\ \A s \in Sessions : s \in Nat /\ s # 0 /\ s <= Cardinality(Requests)
  /\ 0 \notin Sessions
  BY MemoryAssumption, FS_CardinalityType DEF Sessions

LEMMA NewestIs ==
  ASSUME Active # {}
  PROVE  Newest(Active) \in Active
  <1>1. Active \in SUBSET (0 .. Cardinality(Requests)) /\ Cardinality(Requests) \in Nat
    BY SessionsAre DEF Active
  <1>2. \E s \in Active : \A r \in Active : r <= s
    BY <1>1, LargestOf
  <1> QED BY <1>2 DEF Newest

LEMMA NoRowIsRow == NoRow \in Row /\ NoRow.turns = <<>> /\ <<>> \in Seq(Requests)
  BY EmptySeq DEF NoRow, Row

LEMMA AppendedIs ==
  ASSUME NEW row \in Row, NEW q \in Requests
  PROVE  /\ Appended(row, q) \in Row
         /\ Appended(row, q).status = row.status
         /\ Appended(row, q).turns = Append(row.turns, q)
         /\ Appended(row, q).tokens = row.tokens + 1
  <1>1. row.turns \in Seq(Requests) /\ Append(row.turns, q) \in Seq(Requests)
    BY AppendProperties DEF Row
  <1> DEFINE more == Append(row.turns, q)
  <1>2. Appended(row, q) = [row EXCEPT !.turns = more, !.tokens = @ + 1]
    BY DEF Appended
  <1> HIDE DEF more
  <1>3. Appended(row, q) \in [status : {row.status}, turns : {more}, tokens : {row.tokens + 1}]
    BY <1>2 DEF Row
  <1>4. row.status \in {"absent", "active", "expired"} /\ row.tokens + 1 \in Nat
    BY DEF Row
  <1> QED BY <1>1, <1>3, <1>4 DEF Row, more

\* What a flush leaves of a row.
LEMMA MergeColumns ==
  ASSUME NEW v \in Row, NEW b \in Row, NEW c \in Row
  PROVE  LET n == Merge(v, b, c) IN
         /\ n \in Row
         /\ v.turns # b.turns => n.turns = v.turns
         /\ v.turns = b.turns => n.turns = c.turns
         /\ b = c => n = v
  BY DEF Merge, Row

-----------------------------------------------------------------------------
(* The inductive invariant.                                                *)

\* The analysis of p is committed, and its turn went to session s.
Author(p, s) == pc[p] = "done" /\ session[p] = s /\ analyses[p] = "completed"

Distinct(turns) == \A i, j \in 1 .. Len(turns) : turns[i] = turns[j] => i = j

Sound(s, turns) ==
  /\ \A i \in 1 .. Len(turns) : Author(turns[i], s)
  /\ Distinct(turns)

Whole == \A s \in Sessions : Sound(s, db[s].turns)

\* The requests that will draw no session id any more.
Used == {q \in Requests : pc[q] \notin {"idle", "asking", "attaching"}}

\* Every id was drawn by a request of its own, and no row has one that was not.
Counted ==
  /\ created <= Cardinality(Used)
  /\ \A s \in Sessions : s > created => db[s] = NoRow

\* The status of an analysis by how far its request is.
Drafted(q) ==
  /\ analyses[q] # "none" => pc[q] = "done" /\ analyses[q] = "completed" /\ q \in events
  /\ pc[q] = "idle" => op[q] = "none"
  /\ pc[q] \in {"asking", "attaching", "attached", "loaded", "written"} => op[q] = "analyse"
  /\ op[q] = "analyse" /\ pc[q] \in Running \ {"asking", "raised"} => draft[q] = "completed"
  /\ op[q] # "analyse" => draft[q] = "none"
  /\ op[q] = "analyse" /\ pc[q] = "ready" => q \in events

\* The copies a request holds of its session: old turns are those of committed
\* analyses, and the only new one is its own.
Copied(q) ==
  /\ session[q] <= created
  /\ pc[q] \in {"idle", "asking", "attaching"} =>
       session[q] = 0 /\ view[q] = NoRow /\ base[q] = NoRow
  /\ pc[q] \in {"attached", "loaded", "reread"} => session[q] # 0
  /\ op[q] = "analyse" /\ pc[q] \in {"loaded", "reread", "written", "ready"}
       /\ session[q] # 0 =>
         \E old \in Seq(Requests) :
           view[q].turns = Append(old, q) /\ Sound(session[q], old)
  /\ op[q] = "analyse" /\ pc[q] \in Running => Sound(session[q], base[q].turns)
  /\ op[q] # "analyse" => view[q].turns = base[q].turns

IInv ==
  /\ TypeOK /\ Counted /\ Whole
  /\ \A q \in Requests : Drafted(q) /\ Copied(q)

LEMMA EmptyIsSound == \A s : Sound(s, <<>>) /\ Sound(s, <<>>)'
  BY DEF Sound, Distinct

LEMMA InitIInv == Init => IInv
  <1> SUFFICES ASSUME Init PROVE IInv
    OBVIOUS
  <1> USE DEF Init
  <1>1. TypeOK
    BY SessionsAre, NoRowIsRow DEF TypeOK, Steps, Status
  <1>2. Counted
    <2>1. Used = {}
      BY DEF Used
    <2> QED BY <2>1, FS_EmptySet DEF Counted
  <1>3. Whole
    BY NoRowIsRow, EmptyIsSound DEF Whole
  <1>4. ASSUME NEW q \in Requests PROVE Drafted(q) /\ Copied(q)
    BY DEF Drafted, Copied, Running
  <1> QED BY <1>1, <1>2, <1>3, <1>4 DEF IInv

-----------------------------------------------------------------------------
(* Each action preserves it.                                               *)

\* A step of one request leaves the state of request r alone.
Same(r) ==
  /\ pc'[r] = pc[r] /\ op'[r] = op[r] /\ draft'[r] = draft[r] /\ session'[r] = session[r]
  /\ view'[r] = view[r] /\ base'[r] = base[r] /\ analyses'[r] = analyses[r]

\* What is sound stays sound while a request takes a step that is not done.
LEMMA SoundStays ==
  ASSUME IInv, NEW q \in Requests, pc[q] # "done",
         \A r \in Requests \ {q} : Same(r),
         NEW s, NEW turns \in Seq(Requests), Sound(s, turns)
  PROVE  \A i \in 1 .. Len(turns) : Author(turns[i], s)'
  <1> SUFFICES ASSUME NEW i \in 1 .. Len(turns)
               PROVE  Author(turns[i], s)'
    OBVIOUS
  <1>1. turns[i] \in Requests /\ Author(turns[i], s)
    BY ElementOfSeq DEF Sound
  <1> QED BY <1>1 DEF Author, Same

LEMMA OthersStay ==
  ASSUME IInv, NEW q \in Requests, pc[q] # "done",
         \A r \in Requests \ {q} : Same(r),
         events \subseteq events', created \in Nat, created' \in Nat, created <= created'
  PROVE  \A r \in Requests \ {q} : Drafted(r)' /\ Copied(r)'
  <1> SUFFICES ASSUME NEW r \in Requests \ {q}
               PROVE  Drafted(r)' /\ Copied(r)'
    OBVIOUS
  <1>1. Drafted(r) /\ Copied(r) /\ Same(r)
    BY DEF IInv
  <1>2. Drafted(r)'
    BY <1>1 DEF Drafted, Same
  <1>3. ASSUME op[r] = "analyse", pc[r] \in {"loaded", "reread", "written", "ready"},
               session[r] # 0
        PROVE  \E old \in Seq(Requests) :
                 view'[r].turns = Append(old, r) /\ Sound(session[r], old)'
    <2>1. PICK old \in Seq(Requests) : view[r].turns = Append(old, r) /\ Sound(session[r], old)
      BY <1>1, <1>3 DEF Copied
    <2>2. Sound(session[r], old)'
      BY <1>1, <2>1, SoundStays DEF Sound, Distinct, Same
    <2> QED BY <1>1, <2>1, <2>2 DEF Same
  <1>4. ASSUME op[r] = "analyse", pc[r] \in Running
        PROVE  Sound(session[r], base[r].turns)'
    <2>1. base[r].turns \in Seq(Requests) /\ Sound(session[r], base[r].turns)
      BY <1>1, <1>4 DEF Copied, IInv, TypeOK, Row
    <2> QED BY <1>1, <2>1, SoundStays DEF Sound, Distinct, Same
  <1>5. session[r] <= created'
    BY <1>1, SessionsAre DEF Copied, IInv, TypeOK
  <1>6. Copied(r)'
    BY <1>1, <1>3, <1>4, <1>5 DEF Copied, Same
  <1> QED BY <1>2, <1>6

LEMMA WholeStays ==
  ASSUME IInv, NEW q \in Requests, pc[q] # "done", UNCHANGED db,
         \A r \in Requests \ {q} : Same(r)
  PROVE  Whole'
  <1> SUFFICES ASSUME NEW s \in Sessions
               PROVE  Sound(s, db[s].turns)'
    BY DEF Whole
  <1>1. db[s].turns \in Seq(Requests) /\ Sound(s, db[s].turns)
    BY DEF IInv, TypeOK, Row, Whole
  <1> QED BY <1>1, SoundStays DEF Sound, Distinct

LEMMA CountedStays ==
  ASSUME IInv, NEW q \in Requests, UNCHANGED db,
         NEW p \in Steps, pc' = [pc EXCEPT ![q] = p],
         pc[q] \notin {"idle", "asking", "attaching"} =>
           p \notin {"idle", "asking", "attaching"},
         \/ created' = created
         \/ /\ created' = created + 1
            /\ pc[q] \in {"idle", "attaching"}
            /\ p \notin {"idle", "asking", "attaching"}
  PROVE  Counted' /\ created' \in 0 .. Cardinality(Requests) /\ created <= created'
  <1>1. /\ Used \subseteq Used' /\ Used' \subseteq Requests
        /\ created' # created => q \in Used' /\ q \notin Used
    BY DEF IInv, TypeOK, Used
  <1>2. /\ IsFiniteSet(Requests) /\ Cardinality(Requests) \in Nat
        /\ IsFiniteSet(Used) /\ IsFiniteSet(Used')
        /\ Cardinality(Used) \in Nat /\ Cardinality(Used') \in Nat
        /\ Cardinality(Used) <= Cardinality(Used')
        /\ Cardinality(Used') <= Cardinality(Requests)
    BY <1>1, SessionsAre, FS_Subset, FS_CardinalityType
  <1>3. created' # created => Cardinality(Used) + 1 <= Cardinality(Used')
    <2> SUFFICES ASSUME q \in Used', q \notin Used
                 PROVE  Cardinality(Used) + 1 <= Cardinality(Used')
      BY <1>1
    <2>1. Used \cup {q} \in SUBSET Used' /\ Cardinality(Used \cup {q}) = Cardinality(Used) + 1
      BY <1>1, <1>2, FS_AddElement
    <2> QED BY <1>2, <2>1, FS_Subset
  <1>4. created \in Nat /\ created <= Cardinality(Used)
    BY <1>2 DEF IInv, TypeOK, Counted
  <1>5. created' \in Nat /\ created <= created' /\ created' <= Cardinality(Used')
    BY <1>2, <1>3, <1>4
  <1>6. \A s \in Sessions : s > created' => db[s] = NoRow
    BY <1>4, <1>5, SessionsAre DEF IInv, Counted
  <1> QED BY <1>2, <1>5, <1>6 DEF Counted

\* Request q goes on to p and commits nothing.
Moves(q, p) ==
  /\ pc[q] # "done" /\ p \in Steps /\ pc' = [pc EXCEPT ![q] = p]
  /\ UNCHANGED <<db, analyses>> /\ events \subseteq events'
  /\ \A r \in Requests \ {q} :
       /\ op'[r] = op[r] /\ draft'[r] = draft[r] /\ session'[r] = session[r]
       /\ view'[r] = view[r] /\ base'[r] = base[r]
  /\ pc[q] \notin {"idle", "asking", "attaching"} =>
       p \notin {"idle", "asking", "attaching"}
  /\ \/ created' = created
     \/ /\ created' = created + 1
        /\ pc[q] \in {"idle", "attaching"}
        /\ p \notin {"idle", "asking", "attaching"}

LEMMA MovesSame ==
  ASSUME IInv, NEW q \in Requests, NEW p, Moves(q, p)
  PROVE  pc[q] # "done" /\ \A r \in Requests \ {q} : Same(r)
  BY DEF Same, Moves, IInv, TypeOK

\* Such a step has to be looked at for its own request only.
LEMMA StepIInv ==
  ASSUME IInv, NEW q \in Requests, NEW p, Moves(q, p), TypeOK', Drafted(q)', Copied(q)'
  PROVE  IInv'
  <1>1. Counted' /\ created' \in 0 .. Cardinality(Requests) /\ created <= created'
    BY CountedStays DEF Moves
  <1>2. Whole'
    BY MovesSame, WholeStays DEF Moves
  <1>3. \A r \in Requests \ {q} : Drafted(r)' /\ Copied(r)'
    <2>1. created \in Nat /\ created' \in Nat
      BY <1>1, SessionsAre DEF IInv, TypeOK
    <2> QED BY <1>1, <2>1, MovesSame, OthersStay DEF Moves
  <1> QED BY <1>1, <1>2, <1>3 DEF IInv

LEMMA StartAnalysisIInv ==
  ASSUME IInv, NEW q \in Requests, StartAnalysis(q)
  PROVE  IInv'
  <1>1. pc[q] = "idle" /\ Drafted(q) /\ Copied(q)
    BY DEF IInv, StartAnalysis, Arrive
  <1>2. TypeOK'
    BY <1>1 DEF IInv, TypeOK, Steps, Status, StartAnalysis, Arrive
  <1>3. Drafted(q)'
    BY <1>1 DEF IInv, TypeOK, Drafted, Running, StartAnalysis, Arrive
  <1>4. Copied(q)'
    <2>1. /\ pc'[q] = "asking" /\ session'[q] = 0 /\ view'[q] = NoRow /\ base'[q] = NoRow
          /\ created' = created /\ session[q] = 0
      BY <1>1 DEF IInv, TypeOK, Copied, StartAnalysis, Arrive
    <2> QED BY <1>1, <2>1, NoRowIsRow, EmptyIsSound DEF Copied
  <1>5. Moves(q, "asking")
    BY <1>1 DEF IInv, TypeOK, Steps, Moves, StartAnalysis, Arrive
  <1> QED BY <1>2, <1>3, <1>4, <1>5, StepIInv

\* The AI answers or fails.
LEMMA AskedIInv ==
  ASSUME IInv, NEW q \in Requests, pc[q] = "asking",
         NEW p \in {"attaching", "written", "raised"}, NEW d \in {"completed", "failed"},
         pc' = [pc EXCEPT ![q] = p], draft' = [draft EXCEPT ![q] = d],
         p # "raised" => d = "completed",
         UNCHANGED <<crowd, db, analyses, events, created, lock, op, session, view, base>>
  PROVE  IInv'
  <1>1. op[q] = "analyse" /\ Drafted(q) /\ Copied(q)
    BY DEF IInv, Drafted
  <1>2. TypeOK'
    BY <1>1 DEF IInv, TypeOK, Steps, Status
  <1>3. Drafted(q)'
    BY <1>1 DEF IInv, TypeOK, Drafted, Running
  <1>4. Copied(q)'
    <2>1. /\ pc'[q] = p /\ session'[q] = 0 /\ view'[q] = NoRow /\ base'[q] = NoRow
          /\ session[q] = 0
      BY <1>1 DEF IInv, TypeOK, Copied
    <2> QED BY <1>1, <2>1, NoRowIsRow, EmptyIsSound DEF Copied
  <1>5. Moves(q, p)
    BY <1>1 DEF IInv, TypeOK, Steps, Moves
  <1> QED BY <1>2, <1>3, <1>4, <1>5, StepIInv

LEMMA AIAnswersIInv ==
  ASSUME IInv, NEW q \in Requests, NEW reasoned \in BOOLEAN, AIAnswers(q, reasoned)
  PROVE  IInv'
  <1> DEFINE p == IF reasoned THEN "attaching" ELSE "written"
  <1>1. p \in {"attaching", "written", "raised"} /\ pc' = [pc EXCEPT ![q] = p] /\ p # "raised"
    BY DEF AIAnswers
  <1> HIDE DEF p
  <1> QED BY <1>1, AskedIInv DEF AIAnswers

LEMMA AIFailsIInv ==
  ASSUME IInv, NEW q \in Requests, AIFails(q)
  PROVE  IInv'
  BY AskedIInv DEF AIFails

\* The next id is free.
LEMMA FreshIs ==
  ASSUME IInv, NEW q \in Requests, pc[q] \in {"idle", "attaching"}
  PROVE  /\ created \in Nat /\ created + 1 \in Sessions
         /\ created + 1 \in 0 .. Cardinality(Requests) /\ created + 1 # 0
  <1>1. /\ Used \cup {q} \in SUBSET Requests /\ Used \in SUBSET Requests /\ q \notin Used
        /\ IsFiniteSet(Requests) /\ Cardinality(Requests) \in Nat
    BY SessionsAre DEF Used
  <1>2. IsFiniteSet(Used) /\ Cardinality(Used) \in Nat
    BY <1>1, FS_Subset, FS_CardinalityType
  <1>3. Cardinality(Used \cup {q}) = Cardinality(Used) + 1
    BY <1>1, <1>2, FS_AddElement
  <1>4. Cardinality(Used) + 1 <= Cardinality(Requests)
    BY <1>1, <1>3, FS_Subset
  <1>5. created \in Nat /\ created <= Cardinality(Used)
    BY <1>1 DEF IInv, TypeOK, Counted
  <1> QED BY <1>1, <1>2, <1>4, <1>5 DEF Sessions

\* The row of a session begun by an analysis.
First(q) == Appended([NoRow EXCEPT !.status = "active"], q)

LEMMA FirstIs ==
  ASSUME NEW q \in Requests
  PROVE  /\ [NoRow EXCEPT !.status = "active"] \in Row
         /\ [NoRow EXCEPT !.status = "active"].turns = <<>>
         /\ First(q) \in Row /\ First(q).turns = Append(<<>>, q)
         /\ First(q).status = "active" /\ First(q).tokens = 1
  <1> DEFINE row == [NoRow EXCEPT !.status = "active"]
  <1>1. row \in Row /\ row.status = "active" /\ row.turns = <<>> /\ row.tokens = 0
    BY NoRowIsRow DEF NoRow, Row
  <1> HIDE DEF row
  <1>2. First(q) = Appended(row, q)
    BY DEF First, row
  <1>3. /\ First(q) \in Row /\ First(q).turns = Append(<<>>, q)
        /\ First(q).status = "active" /\ First(q).tokens = 1
    BY <1>1, <1>2, AppendedIs
  <1> QED BY <1>1, <1>3 DEF row

LEMMA AttachIInv ==
  ASSUME IInv, NEW q \in Requests, Attach(q)
  PROVE  IInv'
  <1>1. pc[q] = "attaching" /\ op[q] = "analyse" /\ Drafted(q) /\ Copied(q)
    BY DEF IInv, Drafted, Attach
  <1>2. CASE Active # {}
    <2> DEFINE s == Newest(Active)
    <2>1. s \in Sessions /\ db[s].status = "active"
      BY <1>2, NewestIs DEF Active
    <2>2. s <= created /\ s # 0
      BY <2>1, SessionsAre DEF IInv, TypeOK, Counted, NoRow
    <2> HIDE DEF s
    <2>3. /\ session' = [session EXCEPT ![q] = s] /\ pc' = [pc EXCEPT ![q] = "attached"]
          /\ UNCHANGED <<crowd, db, analyses, events, lock, op, draft, base, created, view>>
      BY <1>2 DEF Attach, s
    <2>4. TypeOK'
      BY <1>1, <2>1, <2>3 DEF IInv, TypeOK, Steps
    <2>5. Drafted(q)'
      BY <1>1, <2>3 DEF IInv, TypeOK, Drafted, Running
    <2>6. Copied(q)'
      <3>1. /\ pc'[q] = "attached" /\ session'[q] = s /\ view'[q] = NoRow
            /\ base'[q] = NoRow
        BY <1>1, <2>3 DEF IInv, TypeOK, Copied
      <3> QED BY <1>1, <2>2, <2>3, <3>1, NoRowIsRow, EmptyIsSound DEF Copied
    <2>7. Moves(q, "attached")
      BY <1>1, <2>3 DEF IInv, TypeOK, Steps, Moves
    <2> QED BY <2>4, <2>5, <2>6, <2>7, StepIInv
  <1>3. CASE Active = {}
    <2>1. /\ created' = created + 1 /\ session' = [session EXCEPT ![q] = created + 1]
          /\ view' = [view EXCEPT ![q] = First(q)] /\ pc' = [pc EXCEPT ![q] = "written"]
          /\ UNCHANGED <<crowd, db, analyses, events, lock, op, draft, base>>
      BY <1>3 DEF Attach, Create, First
    <2>2. TypeOK'
      BY <1>1, <2>1, FreshIs, FirstIs DEF IInv, TypeOK, Steps
    <2>3. Drafted(q)'
      BY <1>1, <2>1 DEF IInv, TypeOK, Drafted, Running
    <2>4. Copied(q)'
      <3>1. /\ pc'[q] = "written" /\ session'[q] = created' /\ created' \in Nat
            /\ view'[q].turns = Append(<<>>, q) /\ base'[q] = NoRow /\ op'[q] = "analyse"
        BY <1>1, <2>1, FreshIs, FirstIs DEF IInv, TypeOK, Copied
      <3>2. \E old \in Seq(Requests) :
              view'[q].turns = Append(old, q) /\ Sound(session[q], old)'
        <4>1. /\ <<>> \in Seq(Requests) /\ view'[q].turns = Append(<<>>, q)
              /\ Sound(session[q], <<>>)'
          BY <3>1, NoRowIsRow, EmptyIsSound DEF Sound
        <4> QED BY <4>1
      <3> QED BY <3>1, <3>2, NoRowIsRow, EmptyIsSound DEF Copied
    <2>5. Moves(q, "written")
      BY <1>1, <2>1 DEF IInv, TypeOK, Steps, Moves
    <2> QED BY <2>2, <2>3, <2>4, <2>5, StepIInv
  <1> QED BY <1>2, <1>3

\* There is nothing to do for it.
LEMMA DoneAtOnceIInv ==
  ASSUME IInv, NEW q \in Requests, pc[q] = "idle", NEW o \in {"context", "expire"},
         pc' = [pc EXCEPT ![q] = "done"], op' = [op EXCEPT ![q] = o],
         UNCHANGED <<crowd, db, analyses, events, created, lock, draft, session, view, base>>
  PROVE  IInv'
  <1>1. op[q] = "none" /\ Drafted(q) /\ Copied(q)
    BY DEF IInv, Drafted
  <1>2. TypeOK'
    BY <1>1 DEF IInv, TypeOK, Steps
  <1>3. Drafted(q)'
    BY <1>1 DEF IInv, TypeOK, Drafted, Running
  <1>4. Copied(q)'
    <2>1. /\ pc'[q] = "done" /\ session'[q] = 0 /\ view'[q] = NoRow /\ base'[q] = NoRow
          /\ session[q] = 0 /\ op'[q] # "analyse"
      BY <1>1 DEF IInv, TypeOK, Copied
    <2> QED BY <1>1, <2>1 DEF Copied
  <1>5. Moves(q, "done")
    BY <1>1 DEF IInv, TypeOK, Steps, Moves
  <1> QED BY <1>2, <1>3, <1>4, <1>5, StepIInv

LEMMA GetContextIInv ==
  ASSUME IInv, NEW q \in Requests, GetContext(q)
  PROVE  IInv'
  <1>1. pc[q] = "idle" /\ op[q] = "none" /\ Drafted(q) /\ Copied(q)
    BY DEF IInv, Drafted, GetContext
  <1>2. CASE Active # {}
    <2>1. /\ pc' = [pc EXCEPT ![q] = "done"] /\ op' = [op EXCEPT ![q] = "context"]
          /\ UNCHANGED <<crowd, db, analyses, events, created, lock, draft, session, view, base>>
      BY <1>2 DEF GetContext
    <2> QED BY <2>1, <1>1, DoneAtOnceIInv
  <1>3. CASE Active = {}
    <2> DEFINE row == [NoRow EXCEPT !.status = "active"]
    <2>1. row \in Row /\ row.turns = <<>>
      BY FirstIs
    <2> HIDE DEF row
    <2>2. /\ created' = created + 1 /\ session' = [session EXCEPT ![q] = created + 1]
          /\ view' = [view EXCEPT ![q] = row] /\ pc' = [pc EXCEPT ![q] = "ready"]
          /\ op' = [op EXCEPT ![q] = "context"]
          /\ UNCHANGED <<crowd, db, analyses, events, lock, draft, base>>
      BY <1>3 DEF GetContext, Create, row
    <2>3. TypeOK'
      BY <1>1, <2>1, <2>2, FreshIs DEF IInv, TypeOK, Steps
    <2>4. Drafted(q)'
      BY <1>1, <2>2 DEF IInv, TypeOK, Drafted, Running
    <2>5. Copied(q)'
      <3>1. /\ pc'[q] = "ready" /\ session'[q] = created' /\ created' \in Nat
            /\ view'[q].turns = <<>> /\ base'[q] = NoRow /\ op'[q] = "context"
        BY <1>1, <2>1, <2>2, FreshIs DEF IInv, TypeOK, Copied
      <3> QED BY <3>1, NoRowIsRow DEF Copied
    <2>6. Moves(q, "ready")
      BY <1>1, <2>2 DEF IInv, TypeOK, Steps, Moves
    <2> QED BY <2>3, <2>4, <2>5, <2>6, StepIInv
  <1> QED BY <1>2, <1>3

LEMMA ExpireIInv ==
  ASSUME IInv, NEW q \in Requests, NEW s \in Sessions, Expire(q, s)
  PROVE  IInv'
  <1>1. pc[q] = "idle" /\ op[q] = "none" /\ Drafted(q) /\ Copied(q)
    BY DEF IInv, Drafted, Expire, Arrive
  <1>2. CASE db[s].status = "active"
    <2> DEFINE row == [db[s] EXCEPT !.status = "expired"]
    <2>1. db[s] \in Row /\ row \in Row /\ row.turns = db[s].turns
      <3>1. db[s] \in Row
        BY DEF IInv, TypeOK
      <3> QED BY <3>1 DEF Row
    <2>2. s <= created /\ s # 0
      BY <1>2, SessionsAre DEF IInv, TypeOK, Counted, NoRow
    <2> HIDE DEF row
    <2>3. /\ session' = [session EXCEPT ![q] = s] /\ pc' = [pc EXCEPT ![q] = "reread"]
          /\ view' = [view EXCEPT ![q] = row] /\ base' = [base EXCEPT ![q] = db[s]]
          /\ op' = [op EXCEPT ![q] = "expire"]
          /\ UNCHANGED <<crowd, db, analyses, events, created, lock, draft>>
      BY <1>2 DEF Expire, Arrive, row
    <2>4. TypeOK'
      BY <1>1, <2>1, <2>3 DEF IInv, TypeOK, Steps
    <2>5. Drafted(q)'
      BY <1>1, <2>3 DEF IInv, TypeOK, Drafted, Running
    <2>6. Copied(q)'
      <3>1. /\ pc'[q] = "reread" /\ session'[q] = s /\ view'[q].turns = base'[q].turns
            /\ op'[q] = "expire"
        BY <2>1, <2>3 DEF IInv, TypeOK
      <3> QED BY <2>2, <2>3, <3>1 DEF Copied
    <2>7. Moves(q, "reread")
      BY <1>1, <2>3 DEF IInv, TypeOK, Steps, Moves
    <2> QED BY <2>4, <2>5, <2>6, <2>7, StepIInv
  <1>3. CASE db[s].status # "active"
    <2>1. /\ pc' = [pc EXCEPT ![q] = "done"] /\ op' = [op EXCEPT ![q] = "expire"]
          /\ UNCHANGED <<crowd, db, analyses, events, created, lock, draft, session, view, base>>
      BY <1>3 DEF Expire, Arrive
    <2> QED BY <2>1, <1>1, DoneAtOnceIInv
  <1> QED BY <1>2, <1>3

\* A request goes on with the copies it has.
LEMMA KeepingCopies ==
  ASSUME IInv, NEW q \in Requests, pc[q] \in Running,
         NEW p \in Steps \ {"idle", "asking", "attaching", "attached"}, Moves(q, p),
         p \in Running => pc[q] \in {"reread", "written"} /\ p \in {"written", "ready"},
         UNCHANGED <<op, session, created>>,
         p \in Running => UNCHANGED <<view, base>>,
         p \notin Running => view'[q] = NoRow /\ base'[q] = NoRow
  PROVE  Copied(q)'
  <1>1. Copied(q) /\ pc'[q] = p
    BY DEF IInv, TypeOK, Moves
  <1>2. CASE p \notin Running
    BY <1>1, <1>2 DEF Copied, Running, Steps
  <1>3. CASE p \in Running
    <2>1. p \in {"written", "ready"} /\ pc[q] \in {"reread", "written"} /\ UNCHANGED <<view, base>>
      BY <1>3
    <2>2. ASSUME op[q] = "analyse", session[q] # 0
          PROVE  \E old \in Seq(Requests) :
                   view[q].turns = Append(old, q) /\ Sound(session[q], old)'
      <3>1. PICK old \in Seq(Requests) : view[q].turns = Append(old, q) /\ Sound(session[q], old)
        BY <1>1, <2>1, <2>2 DEF Copied
      <3>2. Sound(session[q], old)'
        BY <3>1, MovesSame, SoundStays DEF Sound, Distinct
      <3> QED BY <3>1, <3>2
    <2>3. ASSUME op[q] = "analyse"
          PROVE  Sound(session[q], base[q].turns)'
      <3>1. base[q].turns \in Seq(Requests) /\ Sound(session[q], base[q].turns)
        BY <1>1, <2>1, <2>3 DEF Copied, IInv, TypeOK, Row, Running
      <3> QED BY <2>1, <3>1, MovesSame, SoundStays DEF Sound, Distinct
    <2> QED BY <1>1, <2>1, <2>2, <2>3 DEF Copied
  <1> QED BY <1>2, <1>3

LEMMA LoadTurnsIInv ==
  ASSUME IInv, NEW q \in Requests, LoadTurns(q)
  PROVE  IInv'
  <1>1. pc[q] = "attached" /\ op[q] = "analyse" /\ Drafted(q) /\ Copied(q)
    BY DEF IInv, Drafted, LoadTurns
  <1> DEFINE s == session[q]
  <1>2. /\ s \in Sessions /\ db[s] \in Row /\ base[q] \in Row
        /\ Appended(db[s], q) \in Row /\ Appended(db[s], q).turns = Append(db[s].turns, q)
        /\ db[s].turns \in Seq(Requests) /\ base[q].turns \in Seq(Requests)
    <2>1. s \in Sessions /\ db[s] \in Row /\ base[q] \in Row
      BY <1>1 DEF IInv, TypeOK, Copied
    <2> QED BY <2>1, AppendedIs DEF Row
  <1>3. TypeOK'
    BY <1>1, <1>2 DEF IInv, TypeOK, Steps, LoadTurns
  <1>4. Drafted(q)'
    BY <1>1 DEF IInv, TypeOK, Drafted, Running, LoadTurns
  <1>5. Moves(q, "loaded")
    BY <1>1 DEF IInv, TypeOK, Steps, Moves, LoadTurns
  <1>6. Sound(s, db[s].turns)'
    <2>1. Sound(s, db[s].turns)
      BY <1>2 DEF IInv, Whole
    <2> QED BY <1>2, <1>5, <2>1, MovesSame, SoundStays DEF Sound, Distinct, LoadTurns
  <1>7. Sound(s, base[q].turns)'
    <2>1. Sound(s, base[q].turns)
      BY <1>1 DEF Copied, Running, Steps
    <2> QED BY <1>2, <1>5, <2>1, MovesSame, SoundStays DEF Sound, Distinct, LoadTurns
  <1>8. Copied(q)'
    <2>1. /\ pc'[q] = "loaded" /\ UNCHANGED <<session, base, created, db, op>>
          /\ view'[q] = Appended(db[s], q)
      BY <1>1 DEF IInv, TypeOK, LoadTurns
    <2>2. \E old \in Seq(Requests) : view'[q].turns = Append(old, q) /\ Sound(s, old)'
      <3>1. view'[q].turns = Append(db[s].turns, q) /\ Sound(s, db[s].turns)'
        BY <1>2, <1>6, <2>1
      <3> QED BY <1>2, <2>1, <3>1
    <2> QED BY <1>1, <1>7, <2>1, <2>2 DEF Copied
  <1> QED BY <1>3, <1>4, <1>5, <1>8, StepIInv

LEMMA RereadIInv ==
  ASSUME IInv, NEW q \in Requests, Reread(q)
  PROVE  IInv'
  <1>1. pc[q] = "loaded" /\ op[q] = "analyse" /\ Drafted(q) /\ Copied(q)
    BY DEF IInv, Drafted, Reread
  <1> DEFINE s == session[q]
  <1>2. s \in Sessions /\ db[s] \in Row /\ db[s].turns \in Seq(Requests)
    <2>1. s \in Sessions /\ db[s] \in Row
      BY <1>1 DEF IInv, TypeOK, Copied
    <2> QED BY <2>1 DEF Row
  <1>3. TypeOK'
    BY <1>1, <1>2 DEF IInv, TypeOK, Steps, Reread
  <1>4. Drafted(q)'
    BY <1>1 DEF IInv, TypeOK, Drafted, Running, Reread
  <1>5. Moves(q, "reread")
    BY <1>1 DEF IInv, TypeOK, Steps, Moves, Reread
  <1>6. Sound(s, db[s].turns)'
    <2>1. Sound(s, db[s].turns)
      BY <1>2 DEF IInv, Whole
    <2> QED BY <1>2, <1>5, <2>1, MovesSame, SoundStays DEF Sound, Distinct, Reread
  <1>7. PICK old \in Seq(Requests) : view[q].turns = Append(old, q) /\ Sound(s, old)
    BY <1>1 DEF Copied
  <1>8. Sound(s, old)'
    BY <1>5, <1>7, MovesSame, SoundStays DEF Sound, Distinct, Reread
  <1>9. Copied(q)'
    <2>1. /\ pc'[q] = "reread" /\ UNCHANGED <<session, view, created, db, op>>
          /\ base'[q] = db[s]
      BY <1>1 DEF IInv, TypeOK, Reread
    <2> QED BY <1>1, <1>6, <1>7, <1>8, <2>1 DEF Copied
  <1> QED BY <1>3, <1>4, <1>5, <1>9, StepIInv

LEMMA WriteIInv ==
  ASSUME IInv, NEW q \in Requests, Write(q)
  PROVE  IInv'
  <1> DEFINE p == IF op[q] = "analyse" THEN "written" ELSE "ready"
  <1>1. pc[q] = "reread" /\ session[q] \in Sessions /\ Drafted(q)
    BY DEF IInv, TypeOK, Copied, Write
  <1>2. TypeOK'
    BY <1>1, SessionsAre DEF IInv, TypeOK, Steps, Write
  <1>3. Drafted(q)'
    BY <1>1 DEF IInv, TypeOK, Drafted, Running, Write
  <1>4. Moves(q, p) /\ p \in {"written", "ready"}
    BY <1>1 DEF IInv, TypeOK, Steps, Moves, Write
  <1> HIDE DEF p
  <1>5. Copied(q)'
    BY <1>1, <1>4, KeepingCopies DEF Write, Steps, Running
  <1> QED BY <1>2, <1>3, <1>4, <1>5, StepIInv

LEMMA PublishIInv ==
  ASSUME IInv, NEW q \in Requests, Publish(q)
  PROVE  IInv'
  <1>1. pc[q] = "written" /\ op[q] = "analyse" /\ Drafted(q)
    BY DEF IInv, Drafted, Publish
  <1>2. TypeOK'
    BY <1>1 DEF IInv, TypeOK, Steps, Publish
  <1>3. Drafted(q)'
    BY <1>1 DEF IInv, TypeOK, Drafted, Running, Publish
  <1>4. Moves(q, "ready")
    BY <1>1 DEF IInv, TypeOK, Steps, Moves, Publish
  <1>5. Copied(q)'
    BY <1>1, <1>4, KeepingCopies DEF Publish, Steps, Running
  <1> QED BY <1>2, <1>3, <1>4, <1>5, StepIInv

LEMMA AbortIInv ==
  ASSUME IInv, NEW q \in Requests, Abort(q)
  PROVE  IInv'
  <1>1. pc[q] \in Running /\ Drafted(q)
    BY DEF IInv, Abort
  <1>2. TypeOK'
    BY <1>1, NoRowIsRow, SessionsAre DEF IInv, TypeOK, Steps, Status, Abort, EndSession
  <1>3. Drafted(q)'
    BY <1>1 DEF IInv, TypeOK, Drafted, Running, Steps, Abort, EndSession
  <1>4. Moves(q, "failed")
    BY <1>1 DEF IInv, TypeOK, Steps, Running, Moves, Abort, EndSession
  <1>5. view'[q] = NoRow /\ base'[q] = NoRow /\ UNCHANGED <<op, session, created>>
    BY DEF IInv, TypeOK, Abort, EndSession
  <1>6. Copied(q)'
    BY <1>1, <1>4, <1>5, KeepingCopies DEF Steps, Running
  <1> QED BY <1>2, <1>3, <1>4, <1>6, StepIInv

\* The turns that a commit leaves in the row: to the old ones of its copy an analysis
\* has added its own, and any other request has nothing to add.
LEMMA CommittedTurns ==
  ASSUME IInv, NEW q \in Requests, Commit(q), session[q] \in Sessions
  PROVE  /\ db'[session[q]] \in Row
         /\ op[q] # "analyse" => db'[session[q]].turns = db[session[q]].turns
         /\ op[q] = "analyse" =>
              \E old \in Seq(Requests) :
                db'[session[q]].turns = Append(old, q) /\ Sound(session[q], old)
  <1> DEFINE s == session[q]
  <1>1. /\ pc[q] = "ready" /\ Copied(q) /\ s # 0
        /\ view[q] \in Row /\ base[q] \in Row /\ db[s] \in Row
        /\ db'[s] = Merge(view[q], base[q], db[s])
    BY SessionsAre DEF IInv, TypeOK, Commit
  <1>2. /\ db'[s] \in Row
        /\ view[q].turns # base[q].turns => db'[s].turns = view[q].turns
        /\ view[q].turns = base[q].turns => db'[s].turns = db[s].turns
    BY <1>1, MergeColumns
  <1>3. CASE op[q] # "analyse"
    BY <1>1, <1>2, <1>3 DEF Copied
  <1>4. CASE op[q] = "analyse"
    <2>1. PICK old \in Seq(Requests) : view[q].turns = Append(old, q) /\ Sound(s, old)
      BY <1>1, <1>4 DEF Copied
    <2>2. Sound(s, base[q].turns)
      BY <1>1, <1>4 DEF Copied, Running, Steps
    <2>3. /\ Len(view[q].turns) = Len(old) + 1 /\ Len(old) \in Nat
          /\ view[q].turns[Len(old) + 1] = q
      BY <2>1, AppendProperties, LenProperties
    <2>4. view[q].turns # base[q].turns
      BY <1>1, <2>2, <2>3 DEF Sound, Author
    <2> QED BY <1>2, <1>4, <2>1, <2>4
  <1> QED BY <1>2, <1>3, <1>4

LEMMA CommitIInv ==
  ASSUME IInv, NEW q \in Requests, Commit(q)
  PROVE  IInv'
  <1>1. /\ pc[q] = "ready" /\ Drafted(q) /\ Copied(q)
        /\ pc'[q] = "done" /\ analyses'[q] = draft[q] /\ session'[q] = session[q]
        /\ op'[q] = op[q] /\ draft'[q] = "none" /\ view'[q] = NoRow /\ base'[q] = NoRow
        /\ UNCHANGED <<events, created>>
    BY DEF IInv, TypeOK, Commit, EndSession
  <1>2. \A r \in Requests \ {q} : Same(r)
    BY DEF Same, IInv, TypeOK, Commit, EndSession
  <1>3. /\ session[q] \in Sessions => db'[session[q]] \in Row
        /\ \A t \in Sessions : t # session[q] => db'[t] = db[t]
        /\ \A t \in Sessions : db'[t] \in Row
    BY CommittedTurns DEF IInv, TypeOK, Commit
  <1>4. TypeOK'
    <2>1. db' \in [Sessions -> Row]
      BY <1>3 DEF Commit
    <2> QED BY <1>1, <2>1, NoRowIsRow, SessionsAre
            DEF IInv, TypeOK, Steps, Status, Commit, EndSession
  <1>5. Counted'
    <2>1. Used' = Used
      BY <1>1, <1>2 DEF Used, Same
    <2>2. created \in Nat /\ session[q] <= created
      BY <1>1, SessionsAre DEF Copied, IInv, TypeOK
    <2>3. ASSUME NEW t \in Sessions, t > created
          PROVE  db'[t] = NoRow
      <3>1. t # session[q] /\ db[t] = NoRow
        BY <2>2, <2>3, SessionsAre DEF IInv, Counted
      <3> QED BY <1>3, <3>1
    <2> QED BY <1>1, <2>1, <2>3 DEF IInv, Counted
  <1>6. \A r \in Requests \ {q} : Drafted(r)' /\ Copied(r)'
    BY <1>1, <1>2, OthersStay, SessionsAre DEF IInv, TypeOK
  <1>7. Drafted(q)'
    BY <1>1 DEF Drafted, Running, Steps
  <1>8. Copied(q)'
    BY <1>1 DEF Copied, Running, Steps
  <1>9. ASSUME NEW t \in Sessions
        PROVE  Sound(t, db[t].turns)'
    <2>1. CASE t # session[q] \/ op[q] # "analyse"
      <3>1. db[t].turns \in Seq(Requests) /\ Sound(t, db[t].turns)
        BY DEF IInv, TypeOK, Row, Whole
      <3>2. db'[t].turns = db[t].turns
        BY <1>3, <2>1, CommittedTurns
      <3> QED BY <1>1, <1>2, <3>1, <3>2, SoundStays DEF Sound, Distinct
    <2>2. CASE t = session[q] /\ op[q] = "analyse"
      <3>1. PICK old \in Seq(Requests) : db'[t].turns = Append(old, q) /\ Sound(t, old)
        BY <2>2, CommittedTurns
      <3>2. /\ Len(db'[t].turns) = Len(old) + 1 /\ Len(old) \in Nat
            /\ db'[t].turns[Len(old) + 1] = q
            /\ \A i \in 1 .. Len(old) : db'[t].turns[i] = old[i]
        BY <3>1, AppendProperties, LenProperties
      <3>3. \A i \in 1 .. Len(old) : Author(old[i], t)' /\ old[i] # q
        <4>1. \A i \in 1 .. Len(old) : Author(old[i], t)'
          BY <1>1, <1>2, <3>1, SoundStays
        <4>2. \A i \in 1 .. Len(old) : old[i] # q
          BY <1>1, <3>1 DEF Sound, Author
        <4> QED BY <4>1, <4>2
      <3>4. Author(q, t)'
        BY <1>1, <2>2 DEF Author, Drafted, Running, Steps
      <3>5. \A i \in 1 .. Len(old) + 1 : i \in 1 .. Len(old) \/ i = Len(old) + 1
        BY <3>2
      <3>6. \A i \in 1 .. Len(old) + 1 : Author(db[t].turns[i], t)'
        BY <3>2, <3>3, <3>4, <3>5
      <3>7. \A i, j \in 1 .. Len(old) + 1 : db'[t].turns[i] = db'[t].turns[j] => i = j
        BY <3>1, <3>2, <3>3, <3>5 DEF Sound, Distinct
      <3> QED BY <3>2, <3>6, <3>7 DEF Sound, Distinct
    <2> QED BY <2>1, <2>2
  <1>10. Whole'
    BY <1>9 DEF Whole
  <1> QED BY <1>4, <1>5, <1>6, <1>7, <1>8, <1>10 DEF IInv

LEMMA NextIInv == IInv /\ [Next]_vars => IInv'
  <1> SUFFICES ASSUME IInv, [Next]_vars PROVE IInv'
    OBVIOUS
  <1>1. CASE UNCHANGED vars
    <2> USE <1>1 DEF vars, IInv
    <2>1. TypeOK' /\ Counted'
      BY DEF TypeOK, Counted, Used
    <2>2. Whole'
      BY DEF Whole, Sound, Author, Distinct
    <2>3. ASSUME NEW q \in Requests
          PROVE  Drafted(q)' /\ Copied(q)'
      BY DEF Drafted, Copied, Sound, Author, Distinct
    <2> QED BY <2>1, <2>2, <2>3
  <1>2. ASSUME NEW q \in Requests, StartAnalysis(q) \/ GetContext(q) \/ Abort(q)
        PROVE  IInv'
    BY <1>2, StartAnalysisIInv, GetContextIInv, AbortIInv
  <1>3. ASSUME NEW q \in Requests, NEW s \in Sessions, Expire(q, s)
        PROVE  IInv'
    BY <1>3, ExpireIInv
  <1>4. ASSUME NEW q \in Requests, Serve(q)
        PROVE  IInv'
    <2>1. CASE AIAnswers(q, TRUE) \/ AIAnswers(q, FALSE) \/ AIFails(q)
      BY <2>1, AIAnswersIInv, AIFailsIInv
    <2>2. CASE Attach(q) \/ LoadTurns(q) \/ Reread(q) \/ Write(q) \/ Publish(q) \/ Commit(q)
      BY <2>2, AttachIInv, LoadTurnsIInv, RereadIInv, WriteIInv, PublishIInv, CommitIInv
    <2> QED BY <1>4, <2>1, <2>2 DEF Serve
  <1> QED BY <1>1, <1>2, <1>3, <1>4 DEF Next

THEOREM Invariance == Spec => []IInv
  BY InitIInv, NextIInv, PTL DEF Spec

\* Every variable keeps its type, session ids never run out, and the holder of a
\* row's lock waits for nobody, however the handlers interleave and fail.
THEOREM TypeCorrect == Spec => []TypeOK
  BY Invariance, PTL DEF IInv

-----------------------------------------------------------------------------
(* A turn stands once, in one session, and belongs to a committed analysis. *)

LEMMA DistinctCount ==
  ASSUME NEW S, NEW turns \in Seq(S), Distinct(turns)
  PROVE  Cardinality({turns[i] : i \in 1 .. Len(turns)}) = Len(turns)
  <1> DEFINE T == {turns[i] : i \in 1 .. Len(turns)}
             n == Len(turns)
  <1>1. n \in Nat /\ turns \in [1 .. n -> T]
    BY LenProperties
  <1>2. turns \in Bijection(1 .. n, T)
    BY <1>1 DEF Distinct, Bijection, Injection, Surjection, IsInjective
  <1>3. ExistsBijection(1 .. n, T)
    BY <1>2 DEF ExistsBijection
  <1> QED BY <1>1, <1>3, FS_CountingElements

\* What the append promises although it reads the session three times and locks it
\* last: no turn of a request that failed, none twice, and none in two sessions.
THEOREM WholeAnalyses == Spec => []OnlyWholeAnalyses
  <1>1. IInv => OnlyWholeAnalyses
    <2> SUFFICES ASSUME IInv PROVE OnlyWholeAnalyses
      OBVIOUS
    <2>1. ASSUME NEW q \in Requests, analyses[q] # "none"
          PROVE  analyses[q] = "completed" /\ q \in events
      BY <2>1 DEF IInv, Drafted
    <2>2. ASSUME NEW s \in Sessions
          PROVE  Cardinality(TurnsOf(s)) = Len(db[s].turns)
      BY DistinctCount, ZenonT(60) DEF TurnsOf, IInv, TypeOK, Row, Whole, Sound
    <2>3. ASSUME NEW s \in Sessions, NEW q \in TurnsOf(s)
          PROVE  Author(q, s)
      BY <2>3 DEF TurnsOf, IInv, Whole, Sound
    <2>4. ASSUME NEW s \in Sessions, NEW q \in TurnsOf(s), NEW r \in Sessions \ {s}
          PROVE  analyses[q] = "completed" /\ q \notin TurnsOf(r)
      BY <2>3, <2>4 DEF Author
    <2>5. ASSUME NEW s \in Sessions, NEW q \in TurnsOf(s)
          PROVE  analyses[q] = "completed"
      BY <2>3, <2>5 DEF Author
    <2> QED BY <2>1, <2>2, <2>4, <2>5 DEF OnlyWholeAnalyses
  <1> QED BY <1>1, Invariance, PTL

-----------------------------------------------------------------------------
(* A lone user: ContextMemory implements Conversation.                     *)

\* What a lone user's request makes of the rows, which nobody changes meanwhile: it
\* begins a session, adds a turn to the newest active one, or closes one.
Begun(q) ==
  /\ Active = {} /\ db[session[q]] = NoRow /\ base[q] = NoRow
  /\ view[q].status = "active"
  /\ \/ op[q] = "analyse" /\ view[q].turns = <<q>> /\ view[q].tokens = 1
     \/ op[q] # "analyse" /\ view[q].turns = <<>> /\ view[q].tokens = 0

Added(q) ==
  /\ op[q] = "analyse" /\ session[q] \in Active
  /\ view[q] = Appended(db[session[q]], q)
  /\ pc[q] # "loaded" => base[q] = db[session[q]]

Closed(q) ==
  /\ op[q] # "analyse" /\ session[q] \in Active
  /\ view[q] = [db[session[q]] EXCEPT !.status = "expired"]
  /\ base[q] = db[session[q]]

Fresh(q) ==
  /\ pc[q] = "attached" => session[q] \in Active
  /\ pc[q] \in {"loaded", "reread", "written", "ready"} /\ session[q] # 0 =>
       Begun(q) \/ Added(q) \/ Closed(q)

\* It is the only request in flight.
Alone == crowd = 1 => \A q \in InFlight : Fresh(q) /\ \A p \in InFlight : p = q

LEMMA InitAlone == Init => Alone
  BY DEF Init, Alone, InFlight

\* When a lone user's request arrives no other is in flight.
LEMMA NobodyElse ==
  ASSUME crowd = 1, Cardinality(InFlight) < crowd
  PROVE  InFlight = {}
  <1>1. IsFiniteSet(InFlight)
    BY SessionsAre, FS_Subset DEF InFlight
  <1>2. Cardinality(InFlight) \in Nat
    BY <1>1, FS_CardinalityType
  <1> QED BY <1>1, <1>2, FS_EmptySet

\* A step of the only request in flight.
LEMMA StepAlone ==
  ASSUME IInv, Alone, NEW q \in Requests, \A r \in Requests \ {q} : pc'[r] = pc[r],
         UNCHANGED crowd,
         q \in InFlight \/ Cardinality(InFlight) < crowd,
         crowd = 1 /\ (q \in InFlight => Fresh(q)) /\ q \in InFlight' => Fresh(q)'
  PROVE  Alone'
  <1> SUFFICES ASSUME crowd = 1
               PROVE  \A r \in InFlight' : Fresh(r)' /\ \A p \in InFlight' : p = r
    BY DEF Alone
  <1>1. \A r \in InFlight : r = q
    BY NobodyElse DEF Alone
  <1>2. \A r \in InFlight' : r = q
    BY <1>1 DEF InFlight
  <1>3. q \in InFlight => Fresh(q)
    BY DEF Alone
  <1> QED BY <1>2, <1>3

LEMMA ArriveAlone ==
  ASSUME IInv, Alone, NEW q \in Requests,
         StartAnalysis(q) \/ GetContext(q) \/ \E s \in Sessions : Expire(q, s)
  PROVE  Alone'
  <1>1. /\ pc[q] = "idle" /\ Cardinality(InFlight) < crowd /\ Copied(q)
        /\ \A r \in Requests \ {q} : pc'[r] = pc[r]
        /\ UNCHANGED <<crowd, db>>
    BY DEF IInv, TypeOK, StartAnalysis, GetContext, Create, Expire, Arrive
  <1>2. CASE StartAnalysis(q)
    <2>1. pc'[q] = "asking"
      BY <1>2 DEF IInv, TypeOK, StartAnalysis, Arrive
    <2> QED BY <1>1, <2>1, StepAlone DEF Fresh
  <1>3. CASE GetContext(q)
    <2>1. CASE Active # {}
      <3>1. pc'[q] = "done"
        BY <1>3, <2>1 DEF IInv, TypeOK, GetContext
      <3> QED BY <1>1, <3>1, StepAlone DEF InFlight
    <2>2. CASE Active = {}
      <3>1. /\ pc'[q] = "ready" /\ op'[q] = "context" /\ session'[q] = created + 1
            /\ view'[q] = [NoRow EXCEPT !.status = "active"] /\ base'[q] = NoRow
        BY <1>1, <1>3, <2>2 DEF IInv, TypeOK, Copied, GetContext, Create
      <3>2. db[created + 1] = NoRow
        BY <1>1, FreshIs, SessionsAre DEF IInv, Counted
      <3>3. Begun(q)'
        BY <1>1, <2>2, <3>1, <3>2 DEF Begun, Active, NoRow
      <3> QED BY <1>1, <3>1, <3>3, StepAlone DEF Fresh
    <2> QED BY <2>1, <2>2
  <1>4. ASSUME NEW s \in Sessions, Expire(q, s)
        PROVE  Alone'
    <2>1. CASE db[s].status # "active"
      <3>1. pc'[q] = "done"
        BY <1>4, <2>1 DEF IInv, TypeOK, Expire, Arrive
      <3> QED BY <1>1, <3>1, StepAlone DEF InFlight
    <2>2. CASE db[s].status = "active"
      <3>1. /\ pc'[q] = "reread" /\ op'[q] = "expire" /\ session'[q] = s
            /\ view'[q] = [db[s] EXCEPT !.status = "expired"] /\ base'[q] = db[s]
        BY <1>4, <2>2 DEF IInv, TypeOK, Expire, Arrive
      <3>2. Closed(q)'
        BY <1>1, <1>4, <2>2, <3>1 DEF Closed, Active
      <3> QED BY <1>1, <3>1, <3>2, StepAlone DEF Fresh
    <2> QED BY <2>1, <2>2
  <1> QED BY <1>2, <1>3, <1>4

LEMMA ServeAlone ==
  ASSUME IInv, Alone, NEW q \in Requests,
         \/ AIAnswers(q, TRUE) \/ AIAnswers(q, FALSE) \/ AIFails(q)
         \/ Attach(q) \/ LoadTurns(q) \/ Reread(q) \/ Write(q) \/ Publish(q)
  PROVE  Alone'
  <1>1. /\ q \in InFlight /\ Copied(q) /\ Drafted(q)
        /\ \A r \in Requests \ {q} : pc'[r] = pc[r]
        /\ UNCHANGED <<crowd, db, op>>
    BY DEF IInv, TypeOK, InFlight, AIAnswers, AIFails, Attach, Create, LoadTurns, Reread, Write,
           Publish
  <1>2. CASE AIAnswers(q, TRUE) \/ AIAnswers(q, FALSE) \/ AIFails(q)
    <2>1. pc'[q] \in {"attaching", "written", "raised"} /\ session'[q] = 0
      BY <1>1, <1>2 DEF IInv, TypeOK, Copied, AIAnswers, AIFails
    <2> QED BY <1>1, <2>1, StepAlone DEF Fresh
  <1>3. CASE Attach(q)
    <2>1. CASE Active # {}
      <3>1. pc'[q] = "attached" /\ session'[q] \in Active
        BY <1>3, <2>1, NewestIs, SessionsAre DEF IInv, TypeOK, Active, Attach
      <3> QED BY <1>1, <3>1, StepAlone DEF Fresh, Active
    <2>2. CASE Active = {}
      <3>1. /\ pc[q] = "attaching" /\ pc'[q] = "written" /\ op'[q] = "analyse"
            /\ session'[q] = created + 1 /\ view'[q] = First(q) /\ base'[q] = NoRow
        BY <1>1, <1>3, <2>2 DEF IInv, TypeOK, Drafted, Copied, Attach, Create, First
      <3>2. db[created + 1] = NoRow
        BY <3>1, FreshIs, SessionsAre DEF IInv, Counted
      <3>3. Begun(q)'
        <4>1. Append(<<>>, q) = <<q>>
          OBVIOUS
        <4> QED BY <1>1, <2>2, <3>1, <3>2, <4>1, FirstIs DEF Begun, Active
      <3> QED BY <1>1, <3>1, <3>3, StepAlone DEF Fresh
    <2> QED BY <2>1, <2>2
  <1>4. CASE LoadTurns(q)
    <2>1. /\ pc[q] = "attached" /\ pc'[q] = "loaded" /\ op'[q] = "analyse"
          /\ session'[q] = session[q] /\ view'[q] = Appended(db[session[q]], q)
      BY <1>1, <1>4 DEF IInv, TypeOK, Drafted, LoadTurns
    <2>2. ASSUME Fresh(q)
          PROVE  Added(q)'
      BY <1>1, <2>1, <2>2 DEF Fresh, Added, Active
    <2> QED BY <1>1, <2>1, <2>2, StepAlone DEF Fresh
  <1>5. CASE Reread(q)
    <2>1. /\ pc[q] = "loaded" /\ pc'[q] = "reread" /\ base'[q] = db[session[q]]
          /\ op[q] = "analyse" /\ UNCHANGED <<op, session, view>> /\ session[q] # 0
      BY <1>1, <1>5 DEF IInv, TypeOK, Drafted, Copied, Reread
    <2>2. ASSUME Fresh(q)
          PROVE  Begun(q)' \/ Added(q)'
      BY <1>1, <2>1, <2>2 DEF Fresh, Begun, Added, Closed, Active
    <2> QED BY <1>1, <2>1, <2>2, StepAlone DEF Fresh
  <1>6. CASE Write(q) \/ Publish(q)
    <2>1. /\ pc[q] \in {"reread", "written"} /\ pc'[q] \in {"written", "ready"}
          /\ UNCHANGED <<op, session, view, base>>
      BY <1>6 DEF IInv, TypeOK, Write, Publish
    <2>2. ASSUME Fresh(q), session[q] # 0
          PROVE  Begun(q)' \/ Added(q)' \/ Closed(q)'
      BY <1>1, <2>1, <2>2 DEF Fresh, Begun, Added, Closed, Active
    <2> QED BY <1>1, <2>1, <2>2, StepAlone DEF Fresh
  <1> QED BY <1>2, <1>3, <1>4, <1>5, <1>6

LEMMA EndAlone ==
  ASSUME IInv, Alone, NEW q \in Requests, Commit(q) \/ Abort(q)
  PROVE  Alone'
  <1>1. /\ q \in InFlight /\ q \notin InFlight' /\ UNCHANGED crowd
        /\ \A r \in Requests \ {q} : pc'[r] = pc[r]
    BY DEF IInv, TypeOK, InFlight, Running, Commit, Abort, EndSession
  <1> QED BY <1>1, StepAlone

LEMMA NextAlone == IInv /\ Alone /\ [Next]_vars => Alone'
  <1> SUFFICES ASSUME IInv, Alone, [Next]_vars PROVE Alone'
    OBVIOUS
  <1>1. CASE UNCHANGED vars
    BY <1>1 DEF vars, Alone, Fresh, Begun, Added, Closed, Active, InFlight
  <1>2. ASSUME NEW q \in Requests,
               StartAnalysis(q) \/ GetContext(q) \/ \E s \in Sessions : Expire(q, s)
        PROVE  Alone'
    BY <1>2, ArriveAlone
  <1>3. ASSUME NEW q \in Requests, Serve(q) \/ Abort(q)
        PROVE  Alone'
    BY <1>3, ServeAlone, EndAlone DEF Serve
  <1> QED BY <1>1, <1>2, <1>3 DEF Next

\* Only a commit changes rows.
LEMMA VisibleSteps ==
  ASSUME [Next]_vars
  PROVE  UNCHANGED db \/ \E q \in Requests : Commit(q)
  <1>1. CASE UNCHANGED vars
    BY <1>1 DEF vars
  <1>2. ASSUME NEW q \in Requests,
               StartAnalysis(q) \/ GetContext(q) \/ \E s \in Sessions : Expire(q, s)
        PROVE  UNCHANGED db
    BY <1>2 DEF StartAnalysis, GetContext, Expire
  <1>3. ASSUME NEW q \in Requests,
               \/ AIAnswers(q, TRUE) \/ AIAnswers(q, FALSE) \/ AIFails(q)
               \/ Attach(q) \/ LoadTurns(q) \/ Reread(q) \/ Write(q) \/ Publish(q) \/ Abort(q)
        PROVE  UNCHANGED db
    BY <1>3 DEF AIAnswers, AIFails, Attach, LoadTurns, Reread, Write, Publish, Abort
  <1> QED BY <1>1, <1>2, <1>3 DEF Next, Serve

LEMMA CommitFollows ==
  ASSUME IInv, Alone, crowd = 1, NEW q \in Requests, Commit(q)
  PROVE  [Dialogue!Next]_(Dialogue!vars)
  <1> DEFINE s == session[q]
  <1>1. /\ pc[q] = "ready" /\ q \in InFlight /\ Fresh(q) /\ s \in Sessions \cup {0}
        /\ view[q] \in Row /\ base[q] \in Row /\ db \in [Sessions -> Row]
    BY DEF IInv, TypeOK, Alone, InFlight, Commit
  <1>2. CASE s = 0
    <2>1. \A t \in Sessions : db'[t] = db[t]
      BY <1>2, SessionsAre DEF Commit
    <2> QED BY <2>1 DEF Dialogue!vars, Active
  <1>3. CASE s # 0
    <2>1. Begun(q) \/ Added(q) \/ Closed(q)
      BY <1>1, <1>3 DEF Fresh
    <2>2. s \in Sessions /\ base[q] = db[s] /\ db[s] \in Row
      BY <1>1, <1>3, <2>1 DEF Begun, Added, Closed
    <2>3. /\ db'[s] = view[q]
          /\ \A t \in Sessions : t # s => db'[t] = db[t]
      BY <1>1, <2>2, MergeColumns DEF Commit
    <2>4. /\ Active' = {t \in Sessions : IF t = s THEN view[q].status = "active" ELSE t \in Active}
          /\ {t \in Sessions : db'[t].status # "absent"} =
               {t \in Sessions : IF t = s THEN view[q].status # "absent"
                                 ELSE db[t].status # "absent"}
          /\ [t \in Sessions |-> db'[t].turns] =
               [[t \in Sessions |-> db[t].turns] EXCEPT ![s] = view[q].turns]
          /\ [t \in Sessions |-> db'[t].tokens] =
               [[t \in Sessions |-> db[t].tokens] EXCEPT ![s] = view[q].tokens]
      BY <2>2, <2>3 DEF Active
    <2>5. CASE Begun(q)
      <3>1. PICK first \in {<<>>, <<q>>} :
              view[q].turns = first /\ view[q].tokens = Len(first)
        BY <2>5 DEF Begun
      <3>2. /\ Active = {} /\ db[s].status = "absent" /\ view[q].status = "active"
        BY <2>5 DEF Begun, NoRow
      <3>3. Dialogue!Begin(s, first)
        BY <2>2, <2>4, <3>1, <3>2 DEF Dialogue!Begin
      <3> QED BY <2>2, <3>3 DEF Dialogue!Next
    <2>6. CASE Added(q)
      <3>1. /\ s \in Active /\ view[q].status = db[s].status
            /\ view[q].turns = Append(db[s].turns, q) /\ view[q].tokens = db[s].tokens + 1
        BY <2>2, <2>6, AppendedIs DEF Added
      <3>2. Active' = Active
        BY <2>4, <3>1 DEF Active
      <3>3. {t \in Sessions : db'[t].status # "absent"} = {t \in Sessions : db[t].status # "absent"}
        BY <2>4, <3>1
      <3>4. Dialogue!Add(s, q)
        BY <2>2, <2>4, <3>1, <3>2, <3>3 DEF Dialogue!Add
      <3> QED BY <2>2, <3>4 DEF Dialogue!Next
    <2>7. CASE Closed(q)
      <3>1. /\ s \in Active /\ view[q].status = "expired" /\ view[q].turns = db[s].turns
            /\ view[q].tokens = db[s].tokens
        BY <2>2, <2>7 DEF Closed, Row
      <3>2. Active' = Active \ {s}
        BY <2>4, <3>1 DEF Active
      <3>3. {t \in Sessions : db'[t].status # "absent"} = {t \in Sessions : db[t].status # "absent"}
        BY <2>4, <3>1 DEF Active
      <3>4. /\ [t \in Sessions |-> db'[t].turns] = [t \in Sessions |-> db[t].turns]
            /\ [t \in Sessions |-> db'[t].tokens] = [t \in Sessions |-> db[t].tokens]
        BY <2>3, <3>1
      <3>5. Dialogue!Close(s)
        BY <3>2, <3>3, <3>4 DEF Dialogue!Close
      <3> QED BY <2>2, <3>5 DEF Dialogue!Next
    <2> QED BY <2>1, <2>5, <2>6, <2>7
  <1> QED BY <1>2, <1>3

\* To a user who keeps one request open at a time the memory of an asset is one
\* conversation, whatever fails: two active sessions, a session that is active again
\* and a lost turn need two requests.
THEOREM ConversationFollowed == Spec => FollowsConversation
  <1>1. Init => Dialogue!Init
    BY DEF Init, Active, NoRow, Dialogue!Init
  <1>2. IInv /\ Alone /\ [Next]_vars => [crowd = 1 => [Dialogue!Next]_(Dialogue!vars)]_vars
    <2> SUFFICES ASSUME IInv, Alone, [Next]_vars, crowd = 1
                 PROVE  [Dialogue!Next]_(Dialogue!vars)
      OBVIOUS
    <2>1. CASE UNCHANGED db
      BY <2>1 DEF Dialogue!vars, Active
    <2> QED BY <2>1, VisibleSteps, CommitFollows
  <1> QED BY <1>1, <1>2, InitIInv, NextIInv, InitAlone, NextAlone, PTL DEF Spec, FollowsConversation
=============================================================================
