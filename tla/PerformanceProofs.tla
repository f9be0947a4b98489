-------------------------- MODULE PerformanceProofs -------------------------
(***************************************************************************)
(* What the two counsels bring a trader who follows them, and what the     *)
(* reports of the analytics tell of it: for any journal, any number of     *)
(* days and any order in which the rows are read.                          *)
(***************************************************************************)
EXTENDS Performance, FiniteSetTheorems, SequenceTheorems, TLAPS

-----------------------------------------------------------------------------
(* Induction over numbers and finite sets.                                 *)

LEMMA SmallestOf ==
  ASSUME NEW T \in SUBSET Nat, T # {}
  PROVE  \E x \in T : \A y \in T : x <= y
  <1> DEFINE R == OpToRel(<, Nat)
  <1>1. IsWellFoundedOn(R, Nat)
    BY NatLessThanWellFounded
  <1>2. \A x, y \in Nat : x < y => <<x, y>> \in R
    BY DEF OpToRel
  <1> HIDE DEF R
  <1>3. PICK x \in T : \A y \in T : ~ (<<y, x>> \in R)
    BY <1>1, WFMin
  <1>4. ASSUME NEW y \in T
        PROVE  x <= y
    <2>1. x \in Nat /\ y \in Nat /\ ~ (y < x)
      BY <1>2, <1>3
    <2> QED BY <2>1
  <1> QED BY <1>4

\* A set of numbers with 0 and the successor of each of its numbers is all of them.
LEMMA AllNumbers ==
  ASSUME NEW T \in SUBSET Nat, 0 \in T, \A k \in T : k + 1 \in T
  PROVE  \A k \in Nat : k \in T
  <1> DEFINE U == Nat \ T
  <1> SUFFICES ASSUME U # {} PROVE FALSE
    OBVIOUS
  <1>1. PICK m \in U : \A y \in U : m <= y
    BY SmallestOf
  <1>2. m \in Nat /\ m # 0 /\ m \notin T
    OBVIOUS
  <1>3. m - 1 \in Nat /\ ~ (m <= m - 1)
    BY <1>2
  <1>4. m - 1 \in T
    BY <1>1, <1>3
  <1>5. (m - 1) + 1 = m
    BY <1>2
  <1> QED BY <1>2, <1>4, <1>5

\* What holds of a set as soon as it holds of it without any one of its members,
\* holds of every finite set; P is the set of those of which it holds.
LEMMA FewerFirst ==
  ASSUME NEW ids, IsFiniteSet(ids), NEW P,
         \A s \in SUBSET ids : (\A x \in s : s \ {x} \in P) => s \in P
  PROVE  \A s \in SUBSET ids : s \in P
  <1> DEFINE T == {k \in Nat : \A s \in SUBSET ids : Cardinality(s) <= k => s \in P}
  <1>1. \A s \in SUBSET ids :
          /\ IsFiniteSet(s) /\ Cardinality(s) \in Nat
          /\ Cardinality(s) = 0 <=> s = {}
          /\ \A x \in s : s \ {x} \in SUBSET ids /\ Cardinality(s \ {x}) = Cardinality(s) - 1
    BY FS_Subset, FS_CardinalityType, FS_EmptySet, FS_RemoveElement
  <1>2. 0 \in T
    <2>1. \A s \in SUBSET ids : Cardinality(s) <= 0 => s = {}
      BY <1>1
    <2> QED BY <2>1
  <1>3. ASSUME NEW k \in T
        PROVE  k + 1 \in T
    <2>1. ASSUME NEW s \in SUBSET ids, Cardinality(s) <= k + 1
          PROVE  s \in P
      <3>1. \A x \in s : s \ {x} \in SUBSET ids /\ Cardinality(s \ {x}) <= k
        BY <1>1, <2>1
      <3> QED BY <3>1
    <2> QED BY <2>1
  <1>4. \A k \in Nat : k \in T
    <2>1. T \in SUBSET Nat
      OBVIOUS
    <2> HIDE DEF T
    <2> QED BY <1>2, <1>3, <2>1, AllNumbers
  <1> QED BY <1>1, <1>4

-----------------------------------------------------------------------------
(* Totals.                                                                 *)

\* The function by which MapThenFoldSet adds up, on a set D of sets.
Chosen(s) == CHOOSE x \in s : TRUE

Summing(rs, D, g) ==
  [s \in D |-> IF s = {} THEN 0 ELSE rs[Chosen(s)] + g[s \ {Chosen(s)}]]

LEMMA ChosenIs ==
  ASSUME NEW s, s # {}
  PROVE  Chosen(s) \in s
  BY DEF Chosen

\* There is one for every finite set,
LEMMA SummingExists ==
  ASSUME NEW rs, NEW ids, IsFiniteSet(ids)
  PROVE  \E g : g = Summing(rs, SUBSET ids, g)
  <1> DEFINE Some(k) == {s \in SUBSET ids : Cardinality(s) <= k}
             Sum(g, s) == IF s = {} THEN 0 ELSE rs[Chosen(s)] + g[s \ {Chosen(s)}]
             T == {k \in Nat : \E g : g = Summing(rs, Some(k), g)}
             N == Cardinality(ids)
  <1>1. \A s \in SUBSET ids :
          /\ IsFiniteSet(s) /\ Cardinality(s) \in Nat /\ Cardinality(s) <= N
          /\ s # {} => /\ s \ {Chosen(s)} \in SUBSET ids
                       /\ Cardinality(s \ {Chosen(s)}) = Cardinality(s) - 1
          /\ Cardinality(s) = 0 <=> s = {}
    <2> TAKE s \in SUBSET ids
    <2>1. IsFiniteSet(s) /\ Cardinality(s) \in Nat /\ Cardinality(s) <= N
      BY FS_Subset, FS_CardinalityType
    <2>2. s # {} => Cardinality(s \ {Chosen(s)}) = Cardinality(s) - 1
      BY <2>1, ChosenIs, FS_RemoveElement
    <2> QED BY <2>1, <2>2, FS_EmptySet
  <1>2. 0 \in T
    <2> DEFINE g == [s \in Some(0) |-> 0]
    <2>1. ASSUME NEW s \in Some(0)
          PROVE  s = {}
      <3>1. s \in SUBSET ids /\ Cardinality(s) <= 0
        OBVIOUS
      <3>2. Cardinality(s) \in Nat
        BY <1>1, <3>1
      <3>3. Cardinality(s) = 0
        BY <3>1, <3>2
      <3> QED BY <1>1, <3>1, <3>3
    <2>2. g = Summing(rs, Some(0), g)
      BY <2>1 DEF Summing
    <2> QED BY <2>2
  <1>3. ASSUME NEW k \in T
        PROVE  k + 1 \in T
    <2>1. PICK g : g = Summing(rs, Some(k), g)
      OBVIOUS
    <2>2. \A s \in Some(k) : g[s] = Sum(g, s)
      BY <2>1 DEF Summing
    <2> DEFINE h == [s \in Some(k + 1) |-> IF s \in Some(k) THEN g[s] ELSE Sum(g, s)]
    <2>3. ASSUME NEW s \in Some(k + 1)
          PROVE  h[s] = Sum(h, s)
      <3>1. s # {} => s \ {Chosen(s)} \in Some(k) /\ s \ {Chosen(s)} \in Some(k + 1)
        BY <1>1
      <3>2. s # {} => h[s \ {Chosen(s)}] = g[s \ {Chosen(s)}]
        BY <3>1
      <3>3. h[s] = Sum(g, s)
        BY <2>2
      <3> HIDE DEF h
      <3> QED BY <3>2, <3>3
    <2>4. h = Summing(rs, Some(k + 1), h)
      BY <2>3 DEF Summing
    <2>5. k + 1 \in Nat
      OBVIOUS
    <2> HIDE DEF h
    <2> QED BY <2>4, <2>5
  <1> HIDE DEF T
  <1>4. \A k \in Nat : k \in T
    <2>1. T \in SUBSET Nat
      BY DEF T
    <2> QED BY <1>2, <1>3, <2>1, AllNumbers
  <1>5. PICK g : g = Summing(rs, Some(N), g)
    BY <1>1, <1>4 DEF T
  <1>6. Some(N) = SUBSET ids
    BY <1>1
  <1> QED BY <1>5, <1>6

\* and what it says of a set does not depend on the set around it.
LEMMA SummingAgree ==
  ASSUME NEW rs, NEW ids, IsFiniteSet(ids), NEW few \in SUBSET ids
  PROVE  \A g, h : g = Summing(rs, SUBSET ids, g) /\ h = Summing(rs, SUBSET few, h) =>
           h[few] = g[few]
  <1> SUFFICES ASSUME NEW g, g = Summing(rs, SUBSET ids, g),
                      NEW h, h = Summing(rs, SUBSET few, h)
               PROVE  h[few] = g[few]
    OBVIOUS
  <1> DEFINE P == {s \in SUBSET few : h[s] = g[s]}
  <1>1. IsFiniteSet(few)
    BY FS_Subset
  <1>2. ASSUME NEW s \in SUBSET few, \A x \in s : s \ {x} \in P
        PROVE  s \in P
    <2>1. /\ g[s] = IF s = {} THEN 0 ELSE rs[Chosen(s)] + g[s \ {Chosen(s)}]
          /\ h[s] = IF s = {} THEN 0 ELSE rs[Chosen(s)] + h[s \ {Chosen(s)}]
      <3>1. s \in SUBSET ids
        OBVIOUS
      <3> QED BY <3>1 DEF Summing
    <2>2. s # {} => h[s \ {Chosen(s)}] = g[s \ {Chosen(s)}]
      BY <1>2, ChosenIs
    <2> QED BY <2>1, <2>2
  <1> HIDE DEF P
  <1>3. few \in P
    BY <1>1, <1>2, FewerFirst
  <1> QED BY <1>3 DEF P

LEMMA TotalUnfolds ==
  ASSUME NEW rs, NEW ids, IsFiniteSet(ids)
  PROVE  Total(rs, ids) = IF ids = {} THEN 0
                          ELSE rs[Chosen(ids)] + Total(rs, ids \ {Chosen(ids)})
  <1> DEFINE It(S) == CHOOSE g : g = Summing(rs, SUBSET S, g)
  <1>1. \A S : Total(rs, S) = It(S)[S]
    BY DEF Total, MapThenSumSet, MapThenFoldSet, Summing, Chosen
  <1>2. ASSUME NEW S \in SUBSET ids
        PROVE  IsFiniteSet(S) /\ It(S) = Summing(rs, SUBSET S, It(S))
    <2>1. IsFiniteSet(S)
      BY FS_Subset
    <2> QED BY <2>1, SummingExists
  <1> HIDE DEF It
  <1>3. It(ids)[ids] = IF ids = {} THEN 0 ELSE rs[Chosen(ids)] + It(ids)[ids \ {Chosen(ids)}]
    BY <1>2 DEF Summing
  <1>4. ids # {} => It(ids)[ids \ {Chosen(ids)}] = Total(rs, ids \ {Chosen(ids)})
    <2> DEFINE few == ids \ {Chosen(ids)}
    <2>1. few \in SUBSET ids
      OBVIOUS
    <2>2. It(few)[few] = It(ids)[few]
      <3>1. It(few) = Summing(rs, SUBSET few, It(few)) /\ It(ids) = Summing(rs, SUBSET ids, It(ids))
        BY <1>2, <2>1
      <3> HIDE DEF few
      <3> QED BY <2>1, <3>1, SummingAgree
    <2> QED BY <1>1, <2>2
  <1> QED BY <1>1, <1>3, <1>4

LEMMA TotalNone ==
  \A rs : Total(rs, {}) = 0
  BY TotalUnfolds, FS_EmptySet

LEMMA TotalType ==
  ASSUME NEW rs, NEW ids, IsFiniteSet(ids), \A i \in ids : rs[i] \in Int
  PROVE  \A s \in SUBSET ids : Total(rs, s) \in Int
  <1> DEFINE P == {s \in SUBSET ids : Total(rs, s) \in Int}
  <1>1. ASSUME NEW s \in SUBSET ids, \A x \in s : s \ {x} \in P
        PROVE  s \in P
    <2>1. Total(rs, s) = IF s = {} THEN 0 ELSE rs[Chosen(s)] + Total(rs, s \ {Chosen(s)})
      BY FS_Subset, TotalUnfolds
    <2>2. s # {} => Chosen(s) \in s
      BY ChosenIs
    <2> QED BY <1>1, <2>1, <2>2
  <1>2. \A s \in SUBSET ids : s \in P
    <2> HIDE DEF P
    <2> QED BY <1>1, FewerFirst
  <1> QED BY <1>2

\* A total of integers can be taken up in any order.
LEMMA TotalRemove ==
  ASSUME NEW rs, NEW ids, IsFiniteSet(ids), \A i \in ids : rs[i] \in Int
  PROVE  /\ Total(rs, ids) \in Int
         /\ \A x \in ids : Total(rs, ids) = rs[x] + Total(rs, ids \ {x})
  <1> DEFINE P == {s \in SUBSET ids : \A x \in s : Total(rs, s) = rs[x] + Total(rs, s \ {x})}
  <1>1. ASSUME NEW s \in SUBSET ids, \A x \in s : s \ {x} \in P
        PROVE  s \in P
    <2>1. IsFiniteSet(s)
      BY FS_Subset
    <2>2. ASSUME NEW x \in s
          PROVE  Total(rs, s) = rs[x] + Total(rs, s \ {x})
      <3> DEFINE c == Chosen(s)
      <3>1. c \in s /\ rs[c] \in Int /\ rs[x] \in Int
        BY <2>2, ChosenIs
      <3>2. Total(rs, s) = rs[c] + Total(rs, s \ {c})
        BY <2>1, <2>2, TotalUnfolds
      <3> HIDE DEF c
      <3>3. CASE x = c
        BY <3>2, <3>3
      <3>4. CASE x # c
        <4> DEFINE rest == Total(rs, s \ {c, x})
        <4>1. /\ Total(rs, s \ {c}) = rs[x] + Total(rs, (s \ {c}) \ {x})
              /\ Total(rs, s \ {x}) = rs[c] + Total(rs, (s \ {x}) \ {c})
          BY <1>1, <3>1, <3>4
        <4>2. (s \ {c}) \ {x} = s \ {c, x} /\ (s \ {x}) \ {c} = s \ {c, x}
          OBVIOUS
        <4>3. rest \in Int
          BY TotalType
        <4> HIDE DEF rest
        <4>4. Total(rs, s \ {c}) = rs[x] + rest /\ Total(rs, s \ {x}) = rs[c] + rest
          BY <4>1, <4>2 DEF rest
        <4> QED BY <3>1, <3>2, <4>3, <4>4
      <3> QED BY <3>3, <3>4
    <2> QED BY <2>2
  <1>2. \A s \in SUBSET ids : s \in P
    <2> HIDE DEF P
    <2> QED BY <1>1, FewerFirst
  <1> QED BY <1>2, TotalType

\* Bounds, and totals of series that agree.
LEMMA TotalBounded ==
  ASSUME NEW rs, NEW ids, IsFiniteSet(ids), NEW b \in Int,
         \A i \in ids : rs[i] \in Int /\ rs[i] >= b
  PROVE  Total(rs, ids) >= b * Cardinality(ids)
  <1> DEFINE P == {s \in SUBSET ids : Total(rs, s) >= b * Cardinality(s)}
  <1>1. ASSUME NEW s \in SUBSET ids, \A x \in s : s \ {x} \in P
        PROVE  s \in P
    <2>1. IsFiniteSet(s) /\ Cardinality(s) \in Nat /\ Total(rs, s) \in Int
      BY FS_Subset, FS_CardinalityType, TotalType
    <2>2. CASE s = {}
      <3>1. Cardinality(s) = 0 /\ Total(rs, s) = 0
        BY <2>2, FS_EmptySet, TotalNone
      <3> QED BY <3>1
    <2>3. CASE s # {}
      <3>1. PICK x \in s : TRUE
        BY <2>3
      <3> DEFINE k == Cardinality(s \ {x})
      <3>2. /\ Total(rs, s) = rs[x] + Total(rs, s \ {x}) /\ Total(rs, s \ {x}) \in Int
            /\ rs[x] \in Int /\ rs[x] >= b
        BY <2>1, TotalRemove, TotalType
      <3>3. Cardinality(s) = k + 1 /\ k \in Int
        <4>1. Cardinality(s \ {x}) = Cardinality(s) - 1
          BY <2>1, <3>1, FS_RemoveElement
        <4> QED BY <2>1, <4>1
      <3>4. Total(rs, s \ {x}) >= b * k
        BY <1>1
      <3> HIDE DEF k
      <3>5. b * (k + 1) = b * k + b /\ b * k \in Int
        BY <3>3
      <3>6. Total(rs, s) >= b * (k + 1)
        BY <3>2, <3>3, <3>4, <3>5
      <3> QED BY <3>3, <3>6
    <2> QED BY <2>2, <2>3
  <1>2. \A s \in SUBSET ids : s \in P
    <2> HIDE DEF P
    <2> QED BY <1>1, FewerFirst
  <1> QED BY <1>2

LEMMA TotalEqual ==
  ASSUME NEW rs, NEW qs, NEW ids, IsFiniteSet(ids),
         \A i \in ids : rs[i] \in Int /\ qs[i] = rs[i]
  PROVE  Total(qs, ids) = Total(rs, ids)
  <1> DEFINE P == {s \in SUBSET ids : Total(qs, s) = Total(rs, s)}
  <1>1. ASSUME NEW s \in SUBSET ids, \A x \in s : s \ {x} \in P
        PROVE  s \in P
    <2>1. IsFiniteSet(s)
      BY FS_Subset
    <2>2. CASE s = {}
      BY <2>2, TotalNone
    <2>3. CASE s # {}
      <3> DEFINE c == Chosen(s)
      <3>1. c \in s /\ qs[c] = rs[c]
        BY <2>3, ChosenIs
      <3>2. /\ Total(rs, s) = rs[c] + Total(rs, s \ {c})
            /\ Total(qs, s) = qs[c] + Total(qs, s \ {c})
        BY <2>1, <2>3, TotalUnfolds
      <3> HIDE DEF c
      <3> QED BY <1>1, <3>1, <3>2
    <2> QED BY <2>2, <2>3
  <1>2. \A s \in SUBSET ids : s \in P
    <2> HIDE DEF P
    <2> QED BY <1>1, FewerFirst
  <1> QED BY <1>2

LEMMA TotalNegated ==
  ASSUME NEW rs, NEW qs, NEW ids, IsFiniteSet(ids),
         \A i \in ids : rs[i] \in Int /\ qs[i] = - rs[i]
  PROVE  Total(qs, ids) = - Total(rs, ids)
  <1> DEFINE P == {s \in SUBSET ids : Total(qs, s) = - Total(rs, s)}
  <1>1. ASSUME NEW s \in SUBSET ids, \A x \in s : s \ {x} \in P
        PROVE  s \in P
    <2>1. IsFiniteSet(s)
      BY FS_Subset
    <2>2. CASE s = {}
      BY <2>2, TotalNone
    <2>3. CASE s # {}
      <3> DEFINE c == Chosen(s)
      <3>1. c \in s /\ rs[c] \in Int /\ qs[c] = - rs[c]
        BY <2>3, ChosenIs
      <3>2. /\ Total(rs, s) = rs[c] + Total(rs, s \ {c})
            /\ Total(qs, s) = qs[c] + Total(qs, s \ {c})
        BY <2>1, <2>3, TotalUnfolds
      <3> HIDE DEF c
      <3>3. Total(rs, s \ {c}) \in Int /\ Total(qs, s \ {c}) = - Total(rs, s \ {c})
        BY <1>1, <3>1, TotalType
      <3> QED BY <3>1, <3>2, <3>3
    <2> QED BY <2>2, <2>3
  <1>2. \A s \in SUBSET ids : s \in P
    <2> HIDE DEF P
    <2> QED BY <1>1, FewerFirst
  <1> QED BY <1>2

\* The total of two parts.
LEMMA TotalSplit ==
  ASSUME NEW rs, NEW all, IsFiniteSet(all), \A i \in all : rs[i] \in Int,
         NEW ids \in SUBSET all
  PROVE  Total(rs, all) = Total(rs, ids) + Total(rs, all \ ids)
  <1> DEFINE P == {s \in SUBSET ids : Total(rs, all) = Total(rs, s) + Total(rs, all \ s)}
  <1>1. ASSUME NEW s \in SUBSET ids, \A x \in s : s \ {x} \in P
        PROVE  s \in P
    <2>1. /\ IsFiniteSet(s) /\ IsFiniteSet(all \ s)
          /\ Total(rs, s) \in Int /\ Total(rs, all \ s) \in Int /\ Total(rs, all) \in Int
      BY FS_Subset, TotalType
    <2>2. CASE s = {}
      <3>1. Total(rs, s) = 0 /\ all \ s = all
        BY <2>2, TotalNone
      <3> QED BY <2>1, <3>1
    <2>3. CASE s # {}
      <3>1. PICK x \in s : TRUE
        BY <2>3
      <3> DEFINE u == s \ {x}
                 rest == all \ u
      <3>2. /\ rs[x] \in Int /\ Total(rs, s) = rs[x] + Total(rs, u)
        BY <2>1, TotalRemove
      <3>3. Total(rs, all) = Total(rs, u) + Total(rs, rest)
        BY <1>1
      <3>4. x \in rest /\ rest \ {x} = all \ s /\ rest \in SUBSET all /\ u \in SUBSET all
        OBVIOUS
      <3> HIDE DEF rest, u
      <3>5. Total(rs, rest) = rs[x] + Total(rs, all \ s)
        <4>1. IsFiniteSet(rest) /\ \A i \in rest : rs[i] \in Int
          BY <3>4, FS_Subset
        <4> QED BY <3>4, <4>1, TotalRemove
      <3>6. Total(rs, u) \in Int /\ Total(rs, rest) \in Int
        BY <3>4, TotalType
      <3>7. Total(rs, all) = Total(rs, s) + Total(rs, all \ s)
        BY <2>1, <3>2, <3>3, <3>5, <3>6
      <3> QED BY <3>7
    <2> QED BY <2>2, <2>3
  <1>2. \A s \in SUBSET ids : s \in P
    <2> HIDE DEF P
    <2> QED BY <1>1, FewerFirst, FS_Subset
  <1> QED BY <1>2

\* A total does not see the places of its terms: f says where they are.
Moves(f, ids, there, rs, qs) ==
  /\ \A i \in ids : f[i] \in there /\ rs[f[i]] \in Int /\ qs[i] = rs[f[i]]
  /\ \A y \in there : \E i \in ids : f[i] = y
  /\ \A i, j \in ids : f[i] = f[j] => i = j

LEMMA TotalMoved ==
  ASSUME NEW rs, NEW qs, NEW ids, IsFiniteSet(ids), NEW there, NEW f,
         Moves(f, ids, there, rs, qs)
  PROVE  Total(qs, ids) = Total(rs, there)
  <1> DEFINE Image(s) == {f[i] : i \in s}
             P == {s \in SUBSET ids :
                     IsFiniteSet(Image(s)) /\ Total(qs, s) = Total(rs, Image(s))}
  <1> USE DEF Moves
  <1>1. ASSUME NEW s \in SUBSET ids, \A x \in s : s \ {x} \in P
        PROVE  s \in P
    <2>1. IsFiniteSet(s)
      BY FS_Subset
    <2>2. CASE s = {}
      <3>1. Image(s) = {}
        BY <2>2
      <3>2. Total(qs, s) = 0 /\ Total(rs, {}) = 0
        BY <2>2, TotalNone
      <3> QED BY <3>1, <3>2, FS_EmptySet
    <2>3. CASE s # {}
      <3>1. PICK x \in s : TRUE
        BY <2>3
      <3>2. f[x] \in Image(s) /\ Image(s) \ {f[x]} = Image(s \ {x})
        OBVIOUS
      <3>0. IsFiniteSet(Image(s))
        <4>1. IsFiniteSet(Image(s \ {x}))
          BY <1>1, <3>1
        <4>2. Image(s) = Image(s \ {x}) \cup {f[x]}
          OBVIOUS
        <4> DEFINE few == Image(s \ {x})
                   y == f[x]
        <4>3. IsFiniteSet(few)
          BY <4>1
        <4> HIDE DEF few, y
        <4>4. IsFiniteSet(few \cup {y})
          BY <4>3, FS_AddElement
        <4> QED BY <4>2, <4>4 DEF few, y
      <3>3. Total(rs, Image(s)) = rs[f[x]] + Total(rs, Image(s) \ {f[x]})
        <4>1. \A y \in Image(s) : rs[y] \in Int
          OBVIOUS
        <4> HIDE DEF Image
        <4> QED BY <3>0, <3>2, <4>1, TotalRemove
      <3>4. Total(qs, s) = qs[x] + Total(qs, s \ {x})
        <4>1. \A i \in s : qs[i] \in Int
          OBVIOUS
        <4> QED BY <2>1, <3>1, <4>1, TotalRemove
      <3>5. Total(qs, s \ {x}) = Total(rs, Image(s \ {x}))
        BY <1>1, <3>1
      <3>6. qs[x] = rs[f[x]]
        BY <3>1
      <3>7. Total(qs, s) = Total(rs, Image(s))
        BY <3>2, <3>3, <3>4, <3>5, <3>6
      <3> QED BY <3>0, <3>7
    <2> QED BY <2>2, <2>3
  <1>2. \A s \in SUBSET ids : s \in P
    <2> HIDE DEF P
    <2> QED BY <1>1, FewerFirst
  <1>3. there = Image(ids)
    OBVIOUS
  <1> QED BY <1>2, <1>3

-----------------------------------------------------------------------------
(* Rounding.                                                               *)

LEMMA Quotient ==
  ASSUME NEW n \in Int, NEW d \in Nat \ {0}
  PROVE  /\ n \div d \in Int /\ n % d \in Int
         /\ n = d * (n \div d) + (n % d)
         /\ 0 <= n % d /\ n % d < d
  OBVIOUS

\* round() goes to the nearest integer, and from halfway to the even one.
LEMMA RoundIs ==
  ASSUME NEW n \in Int, NEW d \in Nat \ {0}, NEW k, k = Round(n, d)
  PROVE  /\ k \in Int /\ d * k \in Int
         /\ 2 * (d * k) - d <= 2 * n /\ 2 * n <= 2 * (d * k) + d
         /\ 2 * (d * k) - d = 2 * n \/ 2 * n = 2 * (d * k) + d => k % 2 = 0
  <1> DEFINE q == n \div d
             r == n % d
  <1>1. q \in Int /\ r \in Int /\ d * q \in Int /\ n = d * q + r /\ 0 <= r /\ r < d
    BY Quotient
  <1>2. d * (q + 1) = d * q + d
    BY <1>1
  <1>3. q % 2 \in {0, 1} /\ (q % 2 = 1 => (q + 1) % 2 = 0)
    BY <1>1
  <1>4. /\ 2 * r < d => k = q
        /\ 2 * r > d => k = q + 1
        /\ 2 * r = d => k = q + (q % 2)
    <2>1. 2 * r < d => Round(n, d) = q
      BY <1>1 DEF Round
    <2>2. 2 * r > d => Round(n, d) = q + 1
      BY <1>1 DEF Round
    <2>3. 2 * r = d => Round(n, d) = q + (q % 2)
      BY <1>1 DEF Round
    <2> QED BY <2>1, <2>2, <2>3
  <1> DEFINE D == d * q
  <1>0. D \in Int /\ n = D + r
    BY <1>1
  <1> HIDE DEF q, r, D
  <1>5. CASE k = q
    <2>1. 2 * r <= d /\ (2 * r = d => k % 2 = 0)
      BY <1>1, <1>3, <1>4, <1>5
    <2>2. k \in Int /\ d * k = D
      BY <1>1, <1>5 DEF D
    <2> QED BY <1>1, <1>0, <2>1, <2>2
  <1>6. CASE k = q + 1
    <2>1. 2 * r >= d /\ (2 * r = d => k % 2 = 0)
      BY <1>1, <1>3, <1>4, <1>6
    <2>2. k \in Int /\ d * k = D + d
      BY <1>1, <1>2, <1>6 DEF D
    <2> QED BY <1>1, <1>0, <2>1, <2>2
  <1>7. k = q \/ k = q + 1
    BY <1>1, <1>3, <1>4
  <1> QED BY <1>5, <1>6, <1>7

LEMMA ProductOrder ==
  ASSUME NEW x \in Int, NEW y \in Int, NEW m \in Nat, x <= y
  PROVE  m * x \in Int /\ m * y \in Int /\ m * x <= m * y
  OBVIOUS

LEMMA ProductStrict ==
  ASSUME NEW x \in Int, NEW y \in Int, NEW m \in Nat \ {0}, m * x <= m * y
  PROVE  x <= y /\ (m * x = m * y => x = y)
  OBVIOUS

\* A larger fraction does not round to a smaller number.
LEMMA RoundMonotone ==
  ASSUME NEW a \in Int, NEW b \in Nat \ {0}, NEW c \in Int, NEW d \in Nat \ {0},
         a * d <= c * b
  PROVE  Round(a, b) <= Round(c, d)
  <1> DEFINE j == Round(a, b)
             k == Round(c, d)
  <1>1. /\ j \in Int /\ b * j \in Int
        /\ 2 * (b * j) - b <= 2 * a
        /\ 2 * (b * j) - b = 2 * a => j % 2 = 0
    BY RoundIs
  <1>2. /\ k \in Int /\ d * k \in Int
        /\ 2 * c <= 2 * (d * k) + d
        /\ 2 * c = 2 * (d * k) + d => k % 2 = 0
    BY RoundIs
  <1> HIDE DEF j, k
  <1> DEFINE x == 2 * (b * j) - b
             y == 2 * (d * k) + d
             m == b * d
  <1>3. x \in Int /\ y \in Int /\ m \in Nat /\ m >= 1
    BY <1>1, <1>2
  <1>4. d * x = m * (2 * j - 1) /\ b * y = m * (2 * k + 1)
    BY <1>1, <1>2
  <1>5. d * x <= d * (2 * a) /\ b * (2 * c) <= b * y
    BY <1>1, <1>2, <1>3, ProductOrder
  <1>6. d * (2 * a) <= b * (2 * c) /\ d * (2 * a) \in Int /\ b * (2 * c) \in Int
    <2>1. a * d \in Int /\ c * b \in Int
      OBVIOUS
    <2>2. d * (2 * a) = 2 * (a * d) /\ b * (2 * c) = 2 * (c * b)
      OBVIOUS
    <2> QED BY <2>1, <2>2
  <1>7. d * x \in Int /\ b * y \in Int
    BY <1>3
  <1> HIDE DEF x, y, m
  <1>8. m * (2 * j - 1) <= m * (2 * k + 1)
    BY <1>4, <1>5, <1>6, <1>7
  <1>9. 2 * j - 1 \in Int /\ 2 * k + 1 \in Int /\ m \in Nat \ {0}
    BY <1>1, <1>2, <1>3
  <1>10. 2 * j - 1 <= 2 * k + 1
    BY <1>8, <1>9, ProductStrict
  <1> SUFFICES ASSUME ~ (j <= k)
               PROVE  FALSE
    BY DEF j, k
  <1>11. j = k + 1
    BY <1>1, <1>2, <1>10
  <1>12. m * (2 * j - 1) = m * (2 * k + 1)
    <2>1. 2 * j - 1 = 2 * k + 1
      BY <1>2, <1>11
    <2> QED BY <2>1
  <1>13. d * x = d * (2 * a) /\ b * (2 * c) = b * y
    BY <1>4, <1>5, <1>6, <1>7, <1>12
  <1>14. x = 2 * a /\ 2 * c = y
    <2>1. 2 * a \in Int /\ 2 * c \in Int
      OBVIOUS
    <2> QED BY <1>3, <1>6, <1>7, <1>13, <2>1, ProductStrict
  <1>15. j % 2 = 0 /\ k % 2 = 0
    BY <1>1, <1>2, <1>14 DEF x, y
  <1> QED BY <1>1, <1>2, <1>11, <1>15

\* Rounding does not pass a whole number.
LEMMA RoundKeeps ==
  ASSUME NEW n \in Int, NEW d \in Nat \ {0}, NEW m \in Int
  PROVE  /\ Round(n, d) \in Int
         /\ m * d <= n => m <= Round(n, d)
         /\ n <= m * d => Round(n, d) <= m
  <1>1. Round(n, d) \in Int
    BY RoundIs
  <1>2. Round(m, 1) = m
    BY DEF Round
  <1>3. m * d \in Int /\ n * 1 = n
    OBVIOUS
  <1>4. ASSUME m * d <= n
        PROVE  Round(m, 1) <= Round(n, d)
    BY <1>3, <1>4, RoundMonotone
  <1>5. ASSUME n <= m * d
        PROVE  Round(n, d) <= Round(m, 1)
    BY <1>3, <1>5, RoundMonotone
  <1> QED BY <1>1, <1>2, <1>4, <1>5

LEMMA RoundPositive ==
  ASSUME NEW n \in Nat, NEW d \in Nat \ {0}
  PROVE  Round(n, d) \in Nat
  <1>1. 0 * d = 0
    OBVIOUS
  <1>2. Round(n, d) \in Int
    BY RoundIs
  <1>3. Round(0, d) = 0
    <2>1. 0 \div d = 0 /\ 0 % d = 0
      OBVIOUS
    <2> QED BY <2>1 DEF Round
  <1>4. 0 * d <= n * d
    BY <1>1, ProductOrder
  <1>5. Round(0, d) <= Round(n, d)
    BY <1>4, RoundMonotone
  <1> QED BY <1>2, <1>3, <1>5

-----------------------------------------------------------------------------
(* The pass of _compute_drawdown.                                          *)

\* One step of _compute_drawdown, and the pass so far.
Further(before, r) ==
  LET running == before.running + r
      peak == Greater(before.peak, running)
  IN  [running |-> running, peak |-> peak, max |-> Greater(before.max, peak - running)]

Passing(rs, D, g) ==
  [n \in D |-> IF n = 0 THEN [running |-> 0, peak |-> 0, max |-> 0]
               ELSE Further(g[n - 1], rs[n])]

LEMMA PassingExists ==
  ASSUME NEW rs, NEW N \in Nat
  PROVE  \E g : g = Passing(rs, 0 .. N, g)
  <1> DEFINE T == {k \in Nat : \E g : g = Passing(rs, 0 .. k, g)}
  <1>1. 0 \in T
    <2> DEFINE g == [n \in 0 .. 0 |-> [running |-> 0, peak |-> 0, max |-> 0]]
    <2>1. g = Passing(rs, 0 .. 0, g)
      BY DEF Passing
    <2> QED BY <2>1
  <1>2. ASSUME NEW k \in T
        PROVE  k + 1 \in T
    <2>1. PICK g : g = Passing(rs, 0 .. k, g)
      OBVIOUS
    <2> DEFINE h == [n \in 0 .. k + 1 |-> IF n = k + 1 THEN Further(g[k], rs[k + 1]) ELSE g[n]]
    <2>2. ASSUME NEW n \in 0 .. k + 1
          PROVE  h[n] = IF n = 0 THEN [running |-> 0, peak |-> 0, max |-> 0]
                        ELSE Further(h[n - 1], rs[n])
      <3>1. CASE n = k + 1
        <4>1. n # 0 /\ n - 1 = k /\ n - 1 \in 0 .. k + 1 /\ n - 1 # k + 1
          BY <3>1
        <4>2. h[n - 1] = g[k] /\ h[n] = Further(g[k], rs[n])
          BY <3>1, <4>1
        <4> HIDE DEF h
        <4> QED BY <4>1, <4>2
      <3>2. CASE n # k + 1
        <4>1. n \in 0 .. k /\ (n # 0 => n - 1 \in 0 .. k /\ n - 1 # k + 1 /\ n - 1 \in 0 .. k + 1)
          BY <3>2
        <4>2. h[n] = g[n] /\ (n # 0 => h[n - 1] = g[n - 1])
          BY <3>2, <4>1
        <4>3. g[n] = IF n = 0 THEN [running |-> 0, peak |-> 0, max |-> 0]
                     ELSE Further(g[n - 1], rs[n])
          BY <2>1, <4>1 DEF Passing
        <4> HIDE DEF h
        <4> QED BY <4>2, <4>3
      <3> QED BY <3>1, <3>2
    <2>3. h = Passing(rs, 0 .. k + 1, h)
      BY <2>2 DEF Passing
    <2>4. k + 1 \in Nat
      OBVIOUS
    <2> HIDE DEF h
    <2> QED BY <2>3, <2>4
  <1> HIDE DEF T
  <1>3. \A k \in Nat : k \in T
    <2>1. T \in SUBSET Nat
      BY DEF T
    <2> QED BY <1>1, <1>2, <2>1, AllNumbers
  <1> QED BY <1>3 DEF T

LEMMA PassUnfolds ==
  ASSUME NEW rs, Len(rs) \in Nat
  PROVE  /\ Pass(rs)[0] = [running |-> 0, peak |-> 0, max |-> 0]
         /\ \A n \in 1 .. Len(rs) : Pass(rs)[n] = Further(Pass(rs)[n - 1], rs[n])
  <1> DEFINE It == CHOOSE g : g = Passing(rs, 0 .. Len(rs), g)
  <1>1. Pass(rs) = It
    BY DEF Pass, Passing, Further
  <1>2. It = Passing(rs, 0 .. Len(rs), It)
    BY PassingExists
  <1> HIDE DEF It
  <1>3. It[0] = [running |-> 0, peak |-> 0, max |-> 0]
    BY <1>2 DEF Passing
  <1>4. ASSUME NEW n \in 1 .. Len(rs)
        PROVE  It[n] = Further(It[n - 1], rs[n])
    <2>1. n \in 0 .. Len(rs) /\ n # 0
      OBVIOUS
    <2> QED BY <1>2, <2>1 DEF Passing
  <1> QED BY <1>1, <1>3, <1>4

LEMMA PrefixSums ==
  ASSUME NEW rs, Len(rs) \in Nat, \A i \in 1 .. Len(rs) : rs[i] \in Int
  PROVE  /\ \A k \in 0 .. Len(rs) : Total(rs, 1 .. k) \in Int
         /\ Total(rs, 1 .. 0) = 0
         /\ \A k \in 1 .. Len(rs) : Total(rs, 1 .. k) = Total(rs, 1 .. (k - 1)) + rs[k]
         /\ \A i, j \in 1 .. Len(rs) :
              - Total(rs, i .. j) =
                IF i <= j THEN Total(rs, 1 .. (i - 1)) - Total(rs, 1 .. j) ELSE 0
  <1> DEFINE n == Len(rs)
  <1>1. IsFiniteSet(1 .. n) /\ \A S \in SUBSET (1 .. n) : IsFiniteSet(S)
    <2>1. IsFiniteSet(1 .. n)
      BY FS_Interval
    <2> QED BY <2>1, FS_Subset
  <1>2. \A S \in SUBSET (1 .. n) : Total(rs, S) \in Int
    BY <1>1, TotalType
  <1>3. Total(rs, 1 .. 0) = 0
    <2>1. 1 .. 0 = {}
      OBVIOUS
    <2> QED BY <2>1, TotalNone
  <1>4. ASSUME NEW i \in 1 .. n, NEW j \in 1 .. n, i <= j
        PROVE  Total(rs, 1 .. j) = Total(rs, 1 .. (i - 1)) + Total(rs, i .. j)
    <2> DEFINE all == 1 .. j
               ids == 1 .. (i - 1)
    <2>1. all \in SUBSET (1 .. n) /\ ids \in SUBSET all /\ all \ ids = i .. j
      BY <1>4
    <2>2. IsFiniteSet(all)
      BY <1>1, <2>1
    <2>4. \A x \in all : rs[x] \in Int
      BY <2>1
    <2>5. ids \in SUBSET all
      BY <2>1
    <2> HIDE DEF all, ids
    <2>3. Total(rs, all) = Total(rs, ids) + Total(rs, all \ ids)
      BY <2>2, <2>4, <2>5, TotalSplit
    <2> QED BY <2>1, <2>3 DEF all, ids
  <1>5. ASSUME NEW i \in 1 .. n
        PROVE  Total(rs, i .. i) = rs[i]
    <2>1. i .. i = {i} /\ {i} \in SUBSET (1 .. n) /\ {i} \ {i} = {} /\ rs[i] \in Int
      OBVIOUS
    <2>2. Total(rs, {i}) = rs[i] + Total(rs, {})
      <3>1. IsFiniteSet({i}) /\ \A x \in {i} : rs[x] \in Int
        BY <1>1, <2>1
      <3> QED BY <2>1, <3>1, TotalRemove
    <2> QED BY <2>1, <2>2, TotalNone
  <1>6. ASSUME NEW i \in 1 .. n, NEW j \in 1 .. n, ~ (i <= j)
        PROVE  Total(rs, i .. j) = 0
    <2>1. i .. j = {}
      BY <1>6
    <2> QED BY <2>1, TotalNone
  <1>7. \A k \in 0 .. n : Total(rs, 1 .. k) \in Int
    <2>1. \A k \in 0 .. n : 1 .. k \in SUBSET (1 .. n)
      OBVIOUS
    <2> QED BY <1>2, <2>1
  <1>8. \A i, j \in 1 .. n : Total(rs, i .. j) \in Int
    <2>1. \A i, j \in 1 .. n : i .. j \in SUBSET (1 .. n)
      OBVIOUS
    <2> QED BY <1>2, <2>1
  <1>9. \A k \in 1 .. n : Total(rs, 1 .. k) = Total(rs, 1 .. (k - 1)) + rs[k]
    <2> TAKE k \in 1 .. n
    <2>1. k <= k
      OBVIOUS
    <2> QED BY <1>4, <1>5, <2>1
  <1>10. \A i, j \in 1 .. n :
           - Total(rs, i .. j) =
             IF i <= j THEN Total(rs, 1 .. (i - 1)) - Total(rs, 1 .. j) ELSE 0
    <2> TAKE i, j \in 1 .. n
    <2>1. i - 1 \in 0 .. n /\ j \in 0 .. n
      OBVIOUS
    <2>2. /\ Total(rs, 1 .. (i - 1)) \in Int /\ Total(rs, 1 .. j) \in Int
          /\ Total(rs, i .. j) \in Int
      BY <1>7, <1>8, <2>1
    <2>3. CASE i <= j
      <3>1. Total(rs, 1 .. j) = Total(rs, 1 .. (i - 1)) + Total(rs, i .. j)
        BY <1>4, <2>3
      <3> QED BY <2>2, <2>3, <3>1
    <2>4. CASE ~ (i <= j)
      <3>1. Total(rs, i .. j) = 0
        BY <1>6, <2>4
      <3> QED BY <2>4, <3>1
    <2> QED BY <2>3, <2>4
  <1> QED BY <1>3, <1>7, <1>9, <1>10

LEMMA GreaterIs ==
  ASSUME NEW a \in Int, NEW b \in Int
  PROVE  /\ Greater(a, b) \in Int /\ Greater(a, b) >= a /\ Greater(a, b) >= b
         /\ Greater(a, b) = a \/ Greater(a, b) = b
  BY DEF Greater

\* After k rows: the sum so far, the highest of the sums so far, and the largest fall
\* between two of them.
LEMMA PassFinds ==
  ASSUME NEW rs, Len(rs) \in Nat, \A i \in 1 .. Len(rs) : rs[i] \in Int
  PROVE  \A k \in 0 .. Len(rs) :
           LET S(i) == Total(rs, 1 .. i)
               p == Pass(rs)[k]
           IN  /\ p.running = S(k) /\ p.peak \in Int /\ p.max \in Int
               /\ \A i \in 0 .. k : p.peak >= S(i)
               /\ \E i \in 0 .. k : p.peak = S(i)
               /\ \A i, j \in 0 .. k : i <= j => p.max >= S(i) - S(j)
               /\ \E i, j \in 0 .. k : i <= j /\ p.max = S(i) - S(j)
  <1> DEFINE n == Len(rs)
             S(i) == Total(rs, 1 .. i)
             p(k) == Pass(rs)[k]
             Found(k) == /\ p(k).running = S(k) /\ p(k).peak \in Int /\ p(k).max \in Int
                         /\ \A i \in 0 .. k : p(k).peak >= S(i)
                         /\ \E i \in 0 .. k : p(k).peak = S(i)
                         /\ \A i, j \in 0 .. k : i <= j => p(k).max >= S(i) - S(j)
                         /\ \E i, j \in 0 .. k : i <= j /\ p(k).max = S(i) - S(j)
             T == {k \in Nat : k <= n => Found(k)}
  <1>1. /\ \A k \in 0 .. n : S(k) \in Int
        /\ S(0) = 0
        /\ \A k \in 1 .. n : S(k) = S(k - 1) + rs[k]
    BY PrefixSums
  <1>2. /\ p(0) = [running |-> 0, peak |-> 0, max |-> 0]
        /\ \A k \in 1 .. n : p(k) = Further(p(k - 1), rs[k])
    BY PassUnfolds
  <1> HIDE DEF S, p
  <1>3. Found(0)
    <2>1. p(0).running = 0 /\ p(0).peak = 0 /\ p(0).max = 0
      BY <1>2
    <2>2. 0 .. 0 = {0} /\ S(0) = 0
      BY <1>1
    <2> QED BY <2>1, <2>2
  <1>4. ASSUME NEW k \in T
        PROVE  k + 1 \in T
    <2> SUFFICES ASSUME k + 1 <= n PROVE Found(k + 1)
      BY SMTT(30)
    <2> DEFINE m == k + 1
    <2>1. /\ k \in Nat /\ m \in 1 .. n /\ m - 1 = k /\ k \in 0 .. n
          /\ 0 .. m = (0 .. k) \cup {m} /\ k \in 0 .. k /\ m \in 0 .. m
          /\ \A i \in 0 .. k : i \in 0 .. m /\ i <= m /\ ~ (m <= i)
      OBVIOUS
    <2>2. Found(k)
      BY <2>1
    <2>3. /\ \A i \in 0 .. k : S(i) \in Int
          /\ S(m) \in Int /\ rs[m] \in Int /\ S(m) = S(k) + rs[m]
      BY <1>1, <2>1
    <2>4. p(m) = Further(p(k), rs[m])
      BY <1>2, <2>1
    <2>0. p(k).running = S(k) /\ p(k).peak \in Int /\ p(k).max \in Int
      BY <2>2
    <2> DEFINE top == Greater(p(k).peak, S(m))
    <2>5. /\ p(m).running = S(m) /\ p(m).peak = top
          /\ p(m).max = Greater(p(k).max, top - S(m))
      <3> DEFINE running == p(k).running + rs[m]
      <3>1. /\ p(m).running = running /\ p(m).peak = Greater(p(k).peak, running)
            /\ p(m).max = Greater(p(k).max, Greater(p(k).peak, running) - running)
        BY <2>4 DEF Further
      <3>2. running = S(m)
        BY <2>0, <2>3
      <3> HIDE DEF running
      <3> QED BY <3>1, <3>2
    <2> HIDE DEF m
    <2>6. /\ top \in Int /\ top >= p(k).peak /\ top >= S(m)
          /\ top = p(k).peak \/ top = S(m)
      BY <2>0, <2>3, GreaterIs
    <2> HIDE DEF top
    <2>7. /\ p(m).max \in Int /\ p(m).max >= p(k).max /\ p(m).max >= top - S(m)
          /\ p(m).max = p(k).max \/ p(m).max = top - S(m)
      <3>1. top - S(m) \in Int
        BY <2>3, <2>6
      <3> QED BY <2>0, <2>5, <3>1, GreaterIs
    <2>8. \A i \in 0 .. m : p(m).peak >= S(i)
      <3>1. \A i \in 0 .. k : p(k).peak >= S(i) /\ S(i) \in Int /\ p(k).peak \in Int
        BY <2>2, <2>3
      <3>2. \A i \in 0 .. k : top >= S(i)
        BY <2>6, <3>1
      <3> QED BY <2>1, <2>5, <2>6, <3>2
    <2>9. \E i \in 0 .. m : p(m).peak = S(i)
      BY <2>1, <2>2, <2>5, <2>6
    <2>10. \A i, j \in 0 .. m : i <= j => p(m).max >= S(i) - S(j)
      <3> SUFFICES ASSUME NEW i \in 0 .. m, NEW j \in 0 .. m, i <= j
                   PROVE  p(m).max >= S(i) - S(j)
        OBVIOUS
      <3>1. CASE j = m
        <4>1. top >= S(i) /\ S(i) \in Int
          BY <2>1, <2>3, <2>5, <2>8
        <4>2. S(j) = S(m) /\ S(m) \in Int
          BY <2>3, <3>1
        <4>3. p(m).max >= top - S(m) /\ p(m).max \in Int /\ top \in Int
          BY <2>6, <2>7
        <4> QED BY <4>1, <4>2, <4>3
      <3>2. CASE j # m
        <4>1. j \in 0 .. k /\ i \in 0 .. k
          BY <2>1, <3>2
        <4>2. p(k).max >= S(i) - S(j)
          BY <2>2, <4>1
        <4>3. S(i) \in Int /\ S(j) \in Int /\ p(k).max \in Int
          BY <2>0, <2>3, <4>1
        <4> QED BY <2>7, <4>2, <4>3
      <3> QED BY <3>1, <3>2
    <2>11. \E i, j \in 0 .. m : i <= j /\ p(m).max = S(i) - S(j)
      <3>1. CASE p(m).max = p(k).max
        <4>1. PICK i \in 0 .. k, j \in 0 .. k : i <= j /\ p(k).max = S(i) - S(j)
          BY <2>2
        <4> QED BY <2>1, <3>1, <4>1
      <3>2. CASE p(m).max = top - S(m)
        <4>1. PICK i \in 0 .. m : top = S(i)
          BY <2>5, <2>9
        <4>2. i <= m
          BY <2>1
        <4> QED BY <2>1, <3>2, <4>1, <4>2
      <3> QED BY <2>7, <3>1, <3>2
    <2>12. p(m).peak \in Int
      BY <2>5, <2>6
    <2>13. Found(m)
      BY <2>5, <2>7, <2>8, <2>9, <2>10, <2>11, <2>12
    <2> QED BY <2>13 DEF m
  <1>5. \A k \in Nat : k \in T
    <2>1. T \in SUBSET Nat /\ 0 \in T
      BY <1>3
    <2> HIDE DEF T
    <2> QED BY <1>4, <2>1, AllNumbers
  <1>6. ASSUME NEW k \in 0 .. n
        PROVE  Found(k)
    <2>1. k \in T /\ k <= n
      BY <1>5
    <2> QED BY <2>1
  <1> HIDE DEF T
  <1> QED BY <1>6 DEF S, p

\* The figure of the report is the largest of the falls.
LEMMA DrawdownIsMax ==
  ASSUME NEW rs, Len(rs) \in Nat, \A i \in 1 .. Len(rs) : rs[i] \in Int
  PROVE  /\ MaxDrawdown(rs) \in Nat
         /\ MaxDrawdown(rs) = Max(Falls(rs))
         /\ MaxDrawdown(rs) = 0 \/ \E i, j \in 1 .. Len(rs) :
              i <= j /\ MaxDrawdown(rs) = - Total(rs, i .. j)
  <1> DEFINE n == Len(rs)
             S(i) == Total(rs, 1 .. i)
             falls == Falls(rs)
             m == MaxDrawdown(rs)
  <1>1. /\ m \in Int
        /\ \A i, j \in 0 .. n : i <= j => m >= S(i) - S(j)
        /\ \E i, j \in 0 .. n : i <= j /\ m = S(i) - S(j)
    <2>1. n \in 0 .. n
      OBVIOUS
    <2> QED BY <2>1, PassFinds DEF MaxDrawdown
  <1>2. /\ \A k \in 0 .. n : S(k) \in Int
        /\ \A i, j \in 1 .. n :
             - Total(rs, i .. j) = IF i <= j THEN S(i - 1) - S(j) ELSE 0
    BY PrefixSums
  <1> HIDE DEF m, S
  <1>3. m >= 0
    <2>1. 0 \in 0 .. n /\ S(0) \in Int
      BY <1>2
    <2>2. m >= S(0) - S(0)
      BY <1>1, <2>1
    <2> QED BY <1>1, <2>1, <2>2
  <1>4. m = 0 \/ \E i, j \in 1 .. n : i <= j /\ m = - Total(rs, i .. j)
    <2>1. PICK i \in 0 .. n, j \in 0 .. n : i <= j /\ m = S(i) - S(j)
      BY <1>1
    <2>2. CASE i = j
      BY <1>2, <2>1, <2>2
    <2>3. CASE i # j
      <3> DEFINE a == i + 1
      <3>1. a \in 1 .. n /\ j \in 1 .. n /\ a <= j /\ a - 1 = i
        BY <2>1, <2>3
      <3>2. m = - Total(rs, a .. j)
        BY <1>2, <2>1, <3>1
      <3> QED BY <3>1, <3>2
    <2> QED BY <2>2, <2>3
  <1>5. m \in falls
    BY <1>4 DEF Falls
  <1>6. \A x \in falls : m >= x
    <2>1. ASSUME NEW i \in 1 .. n, NEW j \in 1 .. n
          PROVE  m >= - Total(rs, i .. j)
      <3>1. i - 1 \in 0 .. n /\ j \in 0 .. n /\ (i <= j => i - 1 <= j)
        OBVIOUS
      <3>2. i <= j => m >= S(i - 1) - S(j)
        BY <1>1, <3>1
      <3>3. - Total(rs, i .. j) = IF i <= j THEN S(i - 1) - S(j) ELSE 0
        BY <1>2
      <3> QED BY <1>3, <3>2, <3>3
    <2> QED BY <1>3, <2>1 DEF Falls
  <1>7. falls \in SUBSET Int
    BY <1>2 DEF Falls
  <1> HIDE DEF falls
  <1>8. m = Max(falls)
    <2> DEFINE x == Max(falls)
    <2>1. x \in falls /\ \A y \in falls : x >= y
      BY <1>5, <1>6 DEF Max
    <2> HIDE DEF x
    <2>2. x >= m /\ m >= x /\ x \in Int /\ m \in Int
      BY <1>1, <1>5, <1>6, <1>7, <2>1
    <2>3. m = x
      BY <2>2
    <2> QED BY <2>3 DEF x
  <1> QED BY <1>1, <1>3, <1>4, <1>8 DEF m, falls

-----------------------------------------------------------------------------
(* Rows in any order.                                                      *)

\* The rows with the given ids, in any order.
Orders(list, ids) == {[k \in 1 .. Len(order) |-> list[order[k]]] : order \in SetToSeqs(ids)}

LEMMA LengthIs ==
  ASSUME NEW n \in Nat, NEW f, DOMAIN f = 1 .. n, f = [k \in 1 .. n |-> f[k]]
  PROVE  Len(f) = n
  <1> DEFINE S == {f[k] : k \in 1 .. n}
  <1>1. f \in [1 .. n -> S]
    OBVIOUS
  <1>2. f \in Seq(S)
    BY <1>1, IsASeq
  <1> QED BY <1>2, LenProperties

LEMMA RowsAre ==
  ASSUME NEW list, NEW ids, IsFiniteSet(ids), NEW rows \in Orders(list, ids)
  PROVE  /\ Len(rows) = Cardinality(ids) /\ Len(rows) \in Nat
         /\ rows = <<>> <=> ids = {}
         /\ \E f : /\ \A k \in 1 .. Len(rows) : f[k] \in ids /\ rows[k] = list[f[k]]
                   /\ \A j, k \in 1 .. Len(rows) : f[j] = f[k] => j = k
                   /\ \A i \in ids : \E k \in 1 .. Len(rows) : f[k] = i
  <1> DEFINE n == Cardinality(ids)
  <1>1. n \in Nat
    BY FS_CardinalityType
  <1>2. PICK f \in SetToSeqs(ids) : rows = [k \in 1 .. Len(f) |-> list[f[k]]]
    BY DEF Orders
  <1>3. f \in [1 .. n -> ids] /\ \A j, k \in 1 .. n : f[j] = f[k] => j = k
    BY DEF SetToSeqs
  <1> HIDE DEF n
  <1>4. Len(f) = n
    <2>1. DOMAIN f = 1 .. n /\ f = [k \in 1 .. n |-> f[k]]
      BY <1>3
    <2> QED BY <1>1, <2>1, LengthIs
  <1>5. DOMAIN rows = 1 .. n /\ \A k \in 1 .. n : rows[k] = list[f[k]]
    BY <1>2, <1>4
  <1>6. Len(rows) = n
    <2>1. rows = [k \in 1 .. n |-> rows[k]]
      BY <1>2, <1>4
    <2> QED BY <1>1, <1>5, <2>1, LengthIs
  <1>7. \A i \in ids : \E k \in 1 .. n : f[k] = i
    <2>1. f \in Injection(1 .. n, ids)
      BY <1>3 DEF Injection, IsInjective
    <2>2. Cardinality(1 .. n) = Cardinality(ids)
      <3>1. Cardinality(1 .. n) = n
        BY <1>1, FS_Interval
      <3> QED BY <3>1 DEF n
    <2>3. f \in Surjection(1 .. n, ids)
      BY <2>1, <2>2, FS_Injection
    <2> QED BY <2>3 DEF Surjection
  <1>8. \A k \in 1 .. n : f[k] \in ids
    BY <1>3
  <1>9. Len(rows) = Cardinality(ids) /\ Len(rows) \in Nat
    BY <1>1, <1>6 DEF n
  <1>10. rows = <<>> <=> ids = {}
    <2>1. n = 0 <=> ids = {}
      BY FS_EmptySet DEF n
    <2>2. rows = <<>> => n = 0
      BY <1>6
    <2>3. n = 0 => rows = <<>>
      <3>1. rows = [k \in 1 .. n |-> list[f[k]]]
        BY <1>2, <1>4
      <3>2. n = 0 => 1 .. n = {}
        OBVIOUS
      <3> QED BY <3>1, <3>2
    <2> QED BY <2>1, <2>2, <2>3
  <1> QED BY <1>3, <1>5, <1>6, <1>7, <1>8, <1>9, <1>10

\* The rows of the ids with a result.
With(list, ids, result) == {i \in ids : list[i].result = result}

\* A series over the rows is one over the list.
Alike(list, ids, rs, rows, qs) ==
  /\ \A i \in ids : rs[i] \in Int
  /\ \A k \in 1 .. Len(rows) : \A i \in ids : rows[k] = list[i] => qs[k] = rs[i]

\* Whatever the order of the rows, there are as many of a result, and a series over
\* the rows adds up to what it adds up to over the ids.
LEMMA RowsMoved ==
  ASSUME NEW list, Len(list) \in Nat, NEW ids \in SUBSET (1 .. Len(list)),
         NEW rows \in Orders(list, ids)
  PROVE  \A result :
           /\ IsFiniteSet(With(list, ids, result))
           /\ Of(rows, result) = {} <=> With(list, ids, result) = {}
           /\ Cardinality(Of(rows, result)) = Cardinality(With(list, ids, result))
           /\ \A rs, qs :
                Alike(list, ids, rs, rows, qs)
                => /\ Total(qs, Of(rows, result)) = Total(rs, With(list, ids, result))
                   /\ Total(qs, 1 .. Len(rows)) = Total(rs, ids)
  <1> TAKE result
  <1> DEFINE n == Len(rows)
  <1>1. IsFiniteSet(ids)
    <2>1. IsFiniteSet(1 .. Len(list))
      BY FS_Interval
    <2> QED BY <2>1, FS_Subset
  <1>2. n \in Nat /\ IsFiniteSet(1 .. n)
    BY <1>1, RowsAre, FS_Interval
  <1>3. PICK f : /\ \A k \in 1 .. n : f[k] \in ids /\ rows[k] = list[f[k]]
                 /\ \A j, k \in 1 .. n : f[j] = f[k] => j = k
                 /\ \A i \in ids : \E k \in 1 .. n : f[k] = i
    BY <1>1, RowsAre
  <1>5. ASSUME NEW some \in SUBSET (1 .. n), NEW which,
               \A k \in some : f[k] \in which, \A i \in which : \E k \in some : f[k] = i
        PROVE  /\ Cardinality(some) = Cardinality(which)
               /\ \A rs, qs :
                    Alike(list, ids, rs, rows, qs) => Total(qs, some) = Total(rs, which)
    <2>1. IsFiniteSet(some)
      BY <1>2, FS_Subset
    <2> DEFINE g == [k \in some |-> f[k]]
    <2>2. /\ g \in [some -> which]
          /\ \A y \in which : \E i \in some : g[i] = y
          /\ \A i, j \in some : g[i] = g[j] => i = j
          /\ \A i \in some : g[i] \in ids /\ rows[i] = list[g[i]] /\ i \in 1 .. n
      BY <1>3, <1>5
    <2> HIDE DEF g
    <2>4. ASSUME NEW rs, NEW qs, Alike(list, ids, rs, rows, qs)
          PROVE  Total(qs, some) = Total(rs, which)
      <3>1. Moves(g, some, which, rs, qs)
        BY <2>2, <2>4 DEF Alike, Moves
      <3> QED BY <2>1, <3>1, TotalMoved
    <2>5. g \in Bijection(some, which)
      BY <2>2 DEF Bijection, Injection, Surjection, IsInjective
    <2>6. ExistsBijection(some, which)
      BY <2>5 DEF ExistsBijection
    <2> QED BY <2>1, <2>4, <2>6, FS_Bijection
  <1> DEFINE some == Of(rows, result)
             which == With(list, ids, result)
  <1>6. 1 .. n \in SUBSET (1 .. n)
    OBVIOUS
  <1>7. /\ some \in SUBSET (1 .. n)
        /\ \A k \in some : f[k] \in which
        /\ \A i \in which : \E k \in some : f[k] = i
    <2>1. some \in SUBSET (1 .. n)
      BY DEF Of
    <2>2. \A k \in some : f[k] \in which
      BY <1>3 DEF Of, With
    <2>3. ASSUME NEW i \in which
          PROVE  \E k \in some : f[k] = i
      <3>1. i \in ids /\ list[i].result = result
        BY DEF With
      <3>2. PICK k \in 1 .. n : f[k] = i
        BY <1>3, <3>1
      <3>3. k \in some
        BY <1>3, <3>1, <3>2 DEF Of
      <3> QED BY <3>2, <3>3
    <2> QED BY <2>1, <2>2, <2>3
  <1>8. IsFiniteSet(which)
    BY <1>1, FS_Subset DEF With
  <1> HIDE DEF some, which
  <1>9. some = {} <=> which = {}
    BY <1>7
  <1>10. Cardinality(some) = Cardinality(which)
    BY <1>5, <1>7
  <1>11. ASSUME NEW rs, NEW qs, Alike(list, ids, rs, rows, qs)
         PROVE  Total(qs, some) = Total(rs, which) /\ Total(qs, 1 .. n) = Total(rs, ids)
    <2>1. Total(qs, some) = Total(rs, which)
      BY <1>5, <1>7, <1>11, ZenonT(60)
    <2>2. Total(qs, 1 .. n) = Total(rs, ids)
      BY <1>3, <1>5, <1>6, <1>11, ZenonT(60)
    <2> QED BY <2>1, <2>2
  <1> QED BY <1>8, <1>9, <1>10, <1>11 DEF some, which

-----------------------------------------------------------------------------
(* Figures from ids.                                                       *)

\* The figures of a report from the ids of its trades, and a drawdown.
PctOf(list, ids) ==
  IF ids = {} THEN 0
  ELSE Round(1000 * Cardinality(With(list, ids, "win")), Cardinality(ids))

WinOf(list, ids) == Average(RSeries(list), With(list, ids, "win"))

LossOf(list, ids) == Average(Sizes(list), With(list, ids, "loss"))

ValueOf(pct, win, loss) == Round(pct * win - (1000 - pct) * loss, 1000)

EvOf(list, ids) == ValueOf(PctOf(list, ids), WinOf(list, ids), LossOf(list, ids))

Figures(list, ids, drawdown) ==
  LET total == Total(RSeries(list), ids)
  IN  [trades   |-> Cardinality(ids),
       pct      |-> PctOf(list, ids),
       total    |-> total,
       average  |-> IF ids = {} THEN 0 ELSE Round(total, Cardinality(ids)),
       ev       |-> EvOf(list, ids),
       drawdown |-> drawdown,
       grade    |-> IF ids = {} THEN "F" ELSE Grade(PctOf(list, ids), EvOf(list, ids))]

\* The ids of rows of a list with an R for each row.
Listed(list, ids) ==
  /\ Len(list) \in Nat /\ ids \in SUBSET (1 .. Len(list))
  /\ \A i \in 1 .. Len(list) : list[i].r \in Int

LEMMA SeriesAre ==
  ASSUME NEW rows, Len(rows) \in Nat
  PROVE  /\ Len(RSeries(rows)) = Len(rows)
         /\ \A i \in 1 .. Len(rows) :
              RSeries(rows)[i] = rows[i].r /\ Sizes(rows)[i] = Abs(rows[i].r)
  <1> DEFINE rs == RSeries(rows)
             n == Len(rows)
  <1>1. DOMAIN rs = 1 .. n /\ rs = [k \in 1 .. n |-> rs[k]]
    BY DEF RSeries
  <1>2. \A i \in 1 .. n : rs[i] = rows[i].r /\ Sizes(rows)[i] = Abs(rows[i].r)
    BY DEF RSeries, Sizes
  <1> HIDE DEF rs
  <1>3. Len(rs) = n
    BY <1>1, LengthIs
  <1> QED BY <1>2, <1>3 DEF rs

LEMMA FiguresAre ==
  ASSUME NEW list, NEW ids, Listed(list, ids), NEW rows \in Orders(list, ids)
  PROVE  /\ IsFiniteSet(ids) /\ Len(rows) = Cardinality(ids) /\ Len(rows) \in Nat
         /\ Len(RSeries(rows)) = Len(rows)
         /\ \A i \in 1 .. Len(rows) : RSeries(rows)[i] \in Int
         /\ Cardinality(Of(rows, "win")) = Cardinality(With(list, ids, "win"))
         /\ Cardinality(Of(rows, "loss")) = Cardinality(With(list, ids, "loss"))
         /\ Total(RSeries(rows), Of(rows, "win")) = Total(RSeries(list), With(list, ids, "win"))
         /\ Total(RSeries(rows), 1 .. Len(rows)) = Total(RSeries(list), ids)
         /\ Pct(rows) = PctOf(list, ids)
         /\ AverageWin(rows) = WinOf(list, ids)
         /\ AverageLoss(rows) = LossOf(list, ids)
         /\ ExpectedValue(rows) = EvOf(list, ids)
         /\ Compute(rows) = Figures(list, ids, MaxDrawdown(RSeries(rows)))
  <1> USE DEF Listed
  <1> DEFINE n == Len(rows)
             rs == RSeries(list)
             qs == RSeries(rows)
             as == Sizes(list)
             bs == Sizes(rows)
             W == With(list, ids, "win")
             L == With(list, ids, "loss")
  <1>1. IsFiniteSet(ids)
    <2>1. IsFiniteSet(1 .. Len(list))
      BY FS_Interval
    <2> QED BY <2>1, FS_Subset
  <1>2. n = Cardinality(ids) /\ n \in Nat
    BY <1>1, RowsAre
  <1>3. /\ \A i \in ids : rs[i] \in Int /\ rs[i] = list[i].r
        /\ \A i \in ids : as[i] \in Int /\ as[i] = Abs(list[i].r)
    <2>1. \A i \in 1 .. Len(list) :
            rs[i] = list[i].r /\ as[i] = Abs(list[i].r) /\ list[i].r \in Int
      BY SeriesAre
    <2> QED BY <2>1 DEF Abs
  <1>4. /\ \A k \in 1 .. n : \A i \in ids : rows[k] = list[i] => qs[k] = rs[i]
        /\ \A k \in 1 .. n : \A i \in ids : rows[k] = list[i] => bs[k] = as[i]
    <2>1. \A k \in 1 .. n : qs[k] = rows[k].r /\ bs[k] = Abs(rows[k].r)
      BY <1>2, SeriesAre
    <2> QED BY <1>3, <2>1
  <1>5. \A k \in 1 .. n : qs[k] \in Int
    <2>1. \A k \in 1 .. n : \E i \in ids : rows[k] = list[i]
      <3>1. PICK f : \A k \in 1 .. n : f[k] \in ids /\ rows[k] = list[f[k]]
        BY <1>1, RowsAre
      <3> QED BY <3>1
    <2> QED BY <1>3, <1>4, <2>1
  <1>6. Len(qs) = n
    BY <1>2, SeriesAre
  <1> HIDE DEF rs, qs, as, bs
  <1>7. /\ Of(rows, "win") = {} <=> W = {}
        /\ Cardinality(Of(rows, "win")) = Cardinality(W)
        /\ Of(rows, "loss") = {} <=> L = {}
        /\ Cardinality(Of(rows, "loss")) = Cardinality(L)
    BY RowsMoved
  <1>8. /\ Total(qs, Of(rows, "win")) = Total(rs, W)
        /\ Total(bs, Of(rows, "loss")) = Total(as, L)
        /\ Total(qs, 1 .. n) = Total(rs, ids)
    <2>1. Alike(list, ids, rs, rows, qs) /\ Alike(list, ids, as, rows, bs)
      BY <1>3, <1>4 DEF Alike
    <2>2. ASSUME NEW some, NEW other, NEW result, Alike(list, ids, some, rows, other)
          PROVE  /\ Total(other, Of(rows, result)) = Total(some, With(list, ids, result))
                 /\ Total(other, 1 .. Len(rows)) = Total(some, ids)
      BY <2>2, RowsMoved
    <2> HIDE DEF W, L
    <2>3. Total(qs, Of(rows, "win")) = Total(rs, W) /\ Total(qs, 1 .. n) = Total(rs, ids)
      BY <2>1, <2>2 DEF W
    <2>4. Total(bs, Of(rows, "loss")) = Total(as, L)
      BY <2>1, <2>2 DEF L
    <2> QED BY <2>3, <2>4
  <1>9. rows = <<>> <=> ids = {}
    BY <1>1, RowsAre
  <1>10. Pct(rows) = PctOf(list, ids)
    BY <1>2, <1>7, <1>9 DEF Pct, PctOf
  <1>11. AverageWin(rows) = WinOf(list, ids)
    BY <1>7, <1>8 DEF AverageWin, WinOf, Average, rs, qs
  <1>12. AverageLoss(rows) = LossOf(list, ids)
    BY <1>7, <1>8 DEF AverageLoss, LossOf, Average, as, bs
  <1>13. ExpectedValue(rows) = EvOf(list, ids)
    BY <1>10, <1>11, <1>12 DEF ExpectedValue, EvOf, ValueOf
  <1>14. Compute(rows) = Figures(list, ids, MaxDrawdown(qs))
    <2>1. Total(RSeries(rows), 1 .. Len(rows)) = Total(RSeries(list), ids)
      BY <1>8 DEF rs, qs
    <2>2. Len(rows) = Cardinality(ids)
      BY <1>2
    <2> QED BY <1>9, <1>10, <1>13, <2>1, <2>2 DEF Compute, Figures, qs
  <1>15. /\ Cardinality(Of(rows, "win")) = Cardinality(With(list, ids, "win"))
         /\ Cardinality(Of(rows, "loss")) = Cardinality(With(list, ids, "loss"))
         /\ Total(RSeries(rows), Of(rows, "win")) = Total(RSeries(list), With(list, ids, "win"))
         /\ Total(RSeries(rows), 1 .. Len(rows)) = Total(RSeries(list), ids)
    BY <1>7, <1>8 DEF rs, qs
  <1> QED BY <1>1, <1>2, <1>5, <1>6, <1>10, <1>11, <1>12, <1>13, <1>14, <1>15 DEF qs

-----------------------------------------------------------------------------
(* The roundings of the expectancy.                                        *)

\* x is y up to half of d.
Within(x, y, d) == 2 * x - d <= 2 * y /\ 2 * y <= 2 * x + d

LEMMA ShareIs ==
  ASSUME NEW n \in Nat, NEW w \in Nat, n = 0 => w = 0,
         NEW p, p = IF n = 0 THEN 0 ELSE Round(1000 * w, n)
  PROVE  p \in Int /\ Within(n * p, 1000 * w, n)
  <1>1. CASE n = 0
    <2>1. p = 0 /\ w = 0 /\ n * p = 0
      BY <1>1
    <2> QED BY <1>1, <2>1 DEF Within
  <1>2. CASE n # 0
    <2> DEFINE m == 1000 * w
    <2>1. m \in Int /\ n \in Nat \ {0}
      BY <1>2
    <2>2. p = Round(m, n)
      BY <1>2
    <2> HIDE DEF m
    <2>3. /\ p \in Int /\ n * p \in Int
          /\ 2 * (n * p) - n <= 2 * m /\ 2 * m <= 2 * (n * p) + n
      BY <2>1, <2>2, RoundIs
    <2> QED BY <2>3 DEF Within, m
  <1> QED BY <1>1, <1>2

\* n trades, w won and l lost: pct, the averages and the expectancy are each rounded
\* once; the errors are e, x, y and z.
Nearly(n, w, l, A, B, p, u, v, ev) ==
  /\ n \in Nat /\ w \in Nat /\ l \in Nat /\ w + l = n
  /\ A \in Int /\ B \in Int /\ p \in Int /\ u \in Nat /\ v \in Nat /\ ev \in Int
  /\ Within(n * p, 1000 * w, n) /\ Within(w * u, 10 * A, w) /\ Within(l * v, 10 * B, l)
  /\ Within(1000 * ev, p * u - (1000 - p) * v, 1000)

LEMMA ExpectancyNear ==
  ASSUME NEW n, NEW w, NEW l, NEW A, NEW B, NEW p, NEW u, NEW v, NEW ev,
         Nearly(n, w, l, A, B, p, u, v, ev)
  PROVE  2000 * Abs(n * ev - 10 * (A - B)) <= n * (2000 + u + v)
  <1>0. /\ n \in Nat /\ w \in Nat /\ l \in Nat /\ w + l = n
        /\ A \in Int /\ B \in Int /\ p \in Int /\ u \in Nat /\ v \in Nat /\ ev \in Int
        /\ Within(n * p, 1000 * w, n) /\ Within(w * u, 10 * A, w) /\ Within(l * v, 10 * B, l)
        /\ Within(1000 * ev, p * u - (1000 - p) * v, 1000)
    BY DEF Nearly
  <1> USE <1>0
  <1> DEFINE e == n * p - 1000 * w
             S == u + v
             V == p * u - (1000 - p) * v
             x == w * u
             y == l * v
             eS == e * S
             nS == n * S
             nE == n * ev
  <1>1. /\ n * p \in Int /\ e \in Int /\ S \in Nat /\ V \in Int
        /\ x \in Int /\ y \in Int /\ eS \in Int /\ nS \in Int /\ nE \in Int
    <2>1. n * p \in Int /\ S \in Nat /\ p * u \in Int /\ (1000 - p) * v \in Int
      OBVIOUS
    <2>2. e \in Int
      BY <2>1
    <2> HIDE DEF e, S
    <2> QED BY <2>1, <2>2
  <1>2. n * V = 1000 * x - 1000 * y + eS
    <2>1. n * V = (n * p) * u - 1000 * (n * v) + (n * p) * v
      OBVIOUS
    <2>2. n * p = 1000 * w + e
      BY <1>1
    <2>3. (1000 * w + e) * u = 1000 * x + e * u /\ (1000 * w + e) * v = 1000 * (w * v) + e * v
      <3> HIDE DEF e
      <3> QED BY <1>1
    <2>4. n * v = w * v + y
      OBVIOUS
    <2>5. eS = e * u + e * v
      <3> HIDE DEF e
      <3> QED BY <1>1
    <2>6. e * u \in Int /\ e * v \in Int /\ w * v \in Int
      <3> HIDE DEF e
      <3> QED BY <1>1
    <2> HIDE DEF e, x, y, eS, V
    <2> QED BY <1>1, <2>1, <2>2, <2>3, <2>4, <2>5, <2>6
  <1>3. - nS <= 2 * eS /\ 2 * eS <= nS
    <2>1. - n <= 2 * e /\ 2 * e <= n
      BY <1>1 DEF Within
    <2> HIDE DEF e, S
    <2>2. S * (- n) <= S * (2 * e) /\ S * (2 * e) <= S * n
      BY <1>1, <2>1, ProductOrder
    <2>3. S * (2 * e) = 2 * eS /\ S * n = nS /\ S * (- n) = - nS
      BY <1>1
    <2> QED BY <2>2, <2>3
  <1>4. 2000 * nE - 1000 * n <= 2 * (n * V) /\ 2 * (n * V) <= 2000 * nE + 1000 * n
    <2>1. 2000 * ev - 1000 <= 2 * V /\ 2 * V <= 2000 * ev + 1000
      BY DEF Within
    <2> HIDE DEF V
    <2>2. n * (2000 * ev - 1000) <= n * (2 * V) /\ n * (2 * V) <= n * (2000 * ev + 1000)
      <3>1. 2000 * ev - 1000 \in Int /\ 2 * V \in Int /\ 2000 * ev + 1000 \in Int
        BY <1>1
      <3> QED BY <2>1, <3>1, ProductOrder
    <2>3. /\ n * (2000 * ev - 1000) = 2000 * nE - 1000 * n
          /\ n * (2 * V) = 2 * (n * V)
          /\ n * (2000 * ev + 1000) = 2000 * nE + 1000 * n
      BY <1>1
    <2> QED BY <2>2, <2>3
  <1>5. /\ 2 * x - w <= 20 * A /\ 20 * A <= 2 * x + w
        /\ 2 * y - l <= 20 * B /\ 20 * B <= 2 * y + l
    BY DEF Within
  <1>6. n * (2000 + u + v) = 2000 * n + nS
    OBVIOUS
  <1> DEFINE nV == n * V
  <1>7. nV \in Int /\ nV = 1000 * x - 1000 * y + eS
        /\ 2000 * nE - 1000 * n <= 2 * nV /\ 2 * nV <= 2000 * nE + 1000 * n
    BY <1>1, <1>2, <1>4
  <1> HIDE DEF e, S, V, x, y, eS, nS, nE, nV
  <1>8. /\ 2000 * (nE - 10 * (A - B)) <= 2000 * n + nS
        /\ - 2000 * (nE - 10 * (A - B)) <= 2000 * n + nS
    BY <1>1, <1>3, <1>5, <1>7
  <1>9. 2000 * Abs(nE - 10 * (A - B)) <= 2000 * n + nS
    BY <1>1, <1>8 DEF Abs
  <1> QED BY <1>6, <1>9 DEF nE

LEMMA AverageIs ==
  ASSUME NEW rs, NEW ids, IsFiniteSet(ids), \A i \in ids : rs[i] \in Int,
         NEW w, w = Cardinality(ids), NEW a, a = Average(rs, ids),
         NEW T, T = Total(rs, ids)
  PROVE  /\ w \in Nat /\ a \in Int /\ T \in Int /\ w * a \in Int
         /\ Within(w * a, 10 * T, w)
         /\ (\A i \in ids : rs[i] >= 0) => a >= 0 /\ T >= 0
  <1>1. w \in Nat /\ T \in Int /\ (w = 0 <=> ids = {})
    BY FS_CardinalityType, FS_EmptySet, TotalRemove
  <1>2. (\A i \in ids : rs[i] >= 0) => T >= 0
    <2> SUFFICES ASSUME \A i \in ids : rs[i] >= 0
                 PROVE  T >= 0
      OBVIOUS
    <2>1. \A i \in ids : rs[i] \in Int /\ rs[i] >= 0
      OBVIOUS
    <2>2. T >= 0 * w
      BY <2>1, TotalBounded
    <2> QED BY <1>1, <2>2
  <1>3. CASE ids = {}
    <2>1. w = 0 /\ a = 0 /\ T = 0
      BY <1>1, <1>3, TotalNone DEF Average
    <2>2. w * a = 0
      BY <2>1
    <2>3. Within(w * a, 10 * T, w)
      BY <2>1, <2>2 DEF Within
    <2>4. w \in Nat /\ a \in Int /\ T \in Int /\ w * a \in Int /\ a >= 0 /\ T >= 0
      BY <2>1, <2>2
    <2> QED BY <2>3, <2>4
  <1>4. CASE ids # {}
    <2>1. w \in Nat \ {0} /\ 10 * T \in Int /\ a = Round(10 * T, w)
      BY <1>1, <1>4 DEF Average
    <2>2. /\ a \in Int /\ w * a \in Int
          /\ 2 * (w * a) - w <= 2 * (10 * T) /\ 2 * (10 * T) <= 2 * (w * a) + w
      BY <2>1, RoundIs
    <2>3. T >= 0 => a >= 0
      <3>1. ASSUME T >= 0
            PROVE  a >= 0
        <4>1. 10 * T \in Nat
          BY <1>1, <3>1
        <4>2. Round(10 * T, w) \in Nat
          BY <2>1, <4>1, RoundPositive
        <4> QED BY <2>1, <4>2
      <3> QED BY <3>1
    <2>5. Within(w * a, 10 * T, w)
      BY <2>2 DEF Within
    <2>6. w \in Nat /\ a \in Int /\ T \in Int /\ w * a \in Int
      BY <1>1, <2>2
    <2> QED BY <1>2, <2>3, <2>5, <2>6
  <1> QED BY <1>3, <1>4

LEMMA TermsAre ==
  ASSUME NEW list, NEW ids, Listed(list, ids), NEW i \in ids
  PROVE  /\ RSeries(list)[i] \in Int /\ RSeries(list)[i] = list[i].r
         /\ Sizes(list)[i] \in Int /\ Sizes(list)[i] >= 0
         /\ Sizes(list)[i] = Abs(list[i].r)
  <1>1. Len(list) \in Nat /\ list[i].r \in Int /\ i \in 1 .. Len(list)
    BY DEF Listed
  <1>2. RSeries(list)[i] = list[i].r /\ Sizes(list)[i] = Abs(list[i].r)
    BY <1>1, SeriesAre
  <1> DEFINE r == list[i].r
  <1>3. Abs(r) \in Int /\ Abs(r) >= 0
    <2>1. r \in Int
      BY <1>1
    <2> HIDE DEF r
    <2> QED BY <2>1 DEF Abs
  <1> QED BY <1>1, <1>2, <1>3

LEMMA PartsAre ==
  ASSUME NEW list, NEW ids, Listed(list, ids)
  PROVE  /\ IsFiniteSet(ids) /\ Cardinality(ids) \in Nat
         /\ Cardinality(ids) = 0 <=> ids = {}
         /\ \A i \in ids : RSeries(list)[i] \in Int
         /\ \A i \in ids : Sizes(list)[i] \in Int /\ Sizes(list)[i] >= 0
  <1>1. IsFiniteSet(ids)
    <2>1. IsFiniteSet(1 .. Len(list))
      BY FS_Interval DEF Listed
    <2> QED BY <2>1, FS_Subset DEF Listed
  <1>2. Cardinality(ids) \in Nat /\ (Cardinality(ids) = 0 <=> ids = {})
    BY <1>1, FS_CardinalityType, FS_EmptySet
  <1> QED BY <1>1, <1>2, TermsAre

LEMMA WithIs ==
  ASSUME NEW list, NEW ids, IsFiniteSet(ids), NEW result
  PROVE  /\ With(list, ids, result) \in SUBSET ids
         /\ IsFiniteSet(With(list, ids, result))
         /\ Cardinality(With(list, ids, result)) \in Nat
         /\ Cardinality(With(list, ids, result)) <= Cardinality(ids)
  <1>1. With(list, ids, result) \in SUBSET ids
    BY DEF With
  <1> QED BY <1>1, FS_Subset, FS_CardinalityType

LEMMA FiguresTyped ==
  ASSUME NEW list, NEW ids, Listed(list, ids), NEW d \in Nat
  PROVE  /\ PctOf(list, ids) \in 0 .. 1000
         /\ WinOf(list, ids) \in Int
         /\ LossOf(list, ids) \in Nat
         /\ EvOf(list, ids) \in Int
         /\ Figures(list, ids, d) \in Numbers
  <1> DEFINE w == Cardinality(With(list, ids, "win"))
             n == Cardinality(ids)
             pct == PctOf(list, ids)
             win == WinOf(list, ids)
             loss == LossOf(list, ids)
             total == Total(RSeries(list), ids)
  <1>0. IsFiniteSet(ids)
    BY PartsAre
  <1>1. w \in Nat /\ n \in Nat /\ w <= n /\ (n = 0 <=> ids = {})
    BY <1>0, PartsAre, WithIs
  <1>2. pct \in 0 .. 1000
    <2>1. CASE ids = {}
      BY <2>1 DEF PctOf
    <2>2. CASE ids # {}
      <3>2. pct = Round(1000 * w, n)
        BY <2>2 DEF PctOf
      <3> HIDE DEF w, n, pct
      <3>0. n \in Nat \ {0} /\ w \in Nat /\ w <= n
        BY <1>1, <2>2
      <3>1. 1000 * w \in Int /\ 0 * n <= 1000 * w /\ 1000 * w <= 1000 * n
        BY <3>0
      <3>3. pct \in Int /\ 0 <= pct /\ pct <= 1000
        BY <3>0, <3>1, <3>2, RoundKeeps
      <3> QED BY <3>3
    <2> QED BY <2>1, <2>2
  <1>3. win \in Int
    <2> DEFINE W == With(list, ids, "win")
    <2>1. IsFiniteSet(W) /\ \A i \in W : RSeries(list)[i] \in Int
      BY <1>0, PartsAre, WithIs
    <2> HIDE DEF W
    <2>2. Average(RSeries(list), W) \in Int
      BY <2>1, AverageIs
    <2> QED BY <2>2 DEF WinOf, W
  <1>4. loss \in Int /\ loss >= 0
    <2> DEFINE L == With(list, ids, "loss")
    <2>1. IsFiniteSet(L) /\ \A i \in L : Sizes(list)[i] \in Int /\ Sizes(list)[i] >= 0
      BY <1>0, PartsAre, WithIs
    <2> HIDE DEF L
    <2>2. Average(Sizes(list), L) \in Int /\ Average(Sizes(list), L) >= 0
      BY <2>1, AverageIs
    <2> QED BY <2>2 DEF LossOf, L
  <1>5. EvOf(list, ids) \in Int
    <2> HIDE DEF pct, win, loss
    <2>1. pct * win - (1000 - pct) * loss \in Int /\ 1000 \in Nat \ {0}
      BY <1>2, <1>3, <1>4
    <2>2. Round(pct * win - (1000 - pct) * loss, 1000) \in Int
      BY <2>1, RoundIs
    <2> QED BY <2>2 DEF EvOf, ValueOf, pct, win, loss
  <1>6. total \in Int
    BY PartsAre, TotalRemove
  <1>7. (IF ids = {} THEN 0 ELSE Round(total, n)) \in Int
    <2> HIDE DEF total, n
    <2> QED BY <1>1, <1>6, RoundIs
  <1>8. (IF ids = {} THEN "F" ELSE Grade(pct, EvOf(list, ids))) \in {"A", "B", "C", "D", "F"}
    BY DEF Grade
  <1>9. Figures(list, ids, d) \in Numbers
    BY <1>1, <1>2, <1>5, <1>6, <1>7, <1>8 DEF Figures, Numbers
  <1> QED BY <1>2, <1>3, <1>4, <1>5, <1>9

\* Wins and losses that say what their R says.
Sound(list, ids) ==
  \A i \in ids : \/ /\ list[i].result = "win"
                     /\ list[i].r >= 0
                  \/ /\ list[i].result = "loss"
                     /\ list[i].r <= 0

\* Of honest wins and losses the expectancy is the average, up to the roundings.
LEMMA ExpectancyIs ==
  ASSUME NEW list, NEW ids, Listed(list, ids),
         Sound(list, ids)
  PROVE  /\ WinOf(list, ids) \in Nat
         /\ 2000 * Abs(Cardinality(ids) * EvOf(list, ids) - 10 * Total(RSeries(list), ids))
              <= Cardinality(ids) * (2000 + WinOf(list, ids) + LossOf(list, ids))
  <1> DEFINE W == With(list, ids, "win")
             L == With(list, ids, "loss")
             rs == RSeries(list)
             as == Sizes(list)
             n == Cardinality(ids)
             w == Cardinality(W)
             l == Cardinality(L)
             p == PctOf(list, ids)
             u == WinOf(list, ids)
             v == LossOf(list, ids)
             ev == EvOf(list, ids)
             A == Total(rs, W)
             B == Total(as, L)
  <1>1. /\ IsFiniteSet(ids) /\ n \in Nat /\ (n = 0 <=> ids = {})
        /\ W \in SUBSET ids /\ IsFiniteSet(W) /\ w \in Nat
        /\ L \in SUBSET ids /\ IsFiniteSet(L) /\ l \in Nat
    BY PartsAre, WithIs
  <1>0. \A i \in ids : rs[i] \in Int /\ as[i] \in Int /\ as[i] >= 0
    BY PartsAre
  <1>2. /\ \A i \in W : rs[i] \in Int /\ rs[i] >= 0
        /\ \A i \in L : rs[i] \in Int /\ as[i] = - rs[i]
    <2>1. \A i \in ids : rs[i] = list[i].r /\ as[i] = Abs(list[i].r) /\ rs[i] \in Int
      <3>1. \A i \in ids : RSeries(list)[i] \in Int /\ RSeries(list)[i] = list[i].r
        BY TermsAre
      <3>2. \A i \in ids : Sizes(list)[i] = Abs(list[i].r)
        BY TermsAre
      <3> QED BY <3>1, <3>2
    <2>0. W \in SUBSET ids /\ L \in SUBSET ids
      BY <1>1
    <2>2. \A i \in W : i \in ids /\ list[i].r >= 0
      BY DEF With, Sound
    <2>3. \A i \in L : i \in ids /\ list[i].r <= 0
      BY DEF With, Sound
    <2>4. \A r \in Int : r <= 0 => Abs(r) = - r
      BY DEF Abs
    <2> HIDE DEF W, L, rs, as
    <2>5. \A i \in W : rs[i] \in Int /\ rs[i] >= 0
      BY <2>0, <2>1, <2>2
    <2>6. \A i \in L : rs[i] \in Int /\ as[i] = - rs[i]
      BY <2>0, <2>1, <2>3, <2>4
    <2> QED BY <2>5, <2>6
  <1>3. L = ids \ W
    BY DEF With, Sound
  <1>4. w + l = n
    <2>1. ids \cap W = W
      BY <1>1
    <2>3. IsFiniteSet(ids) /\ n \in Nat /\ w \in Nat
      BY <1>1
    <2> HIDE DEF W, L
    <2>2. Cardinality(ids \ W) = n - Cardinality(ids \cap W)
      BY <2>3, FS_Difference
    <2>4. l = n - w
      BY <1>3, <2>1, <2>2
    <2> HIDE DEF n, w, l
    <2>5. l \in Nat
      BY <1>1
    <2> QED BY <2>3, <2>4, <2>5
  <1> HIDE DEF W, L, rs, as
  <1>5. Total(rs, ids) = A - B /\ B \in Int
    <2>1. Total(rs, ids) = A + Total(rs, L)
      <3>1. IsFiniteSet(ids) /\ W \in SUBSET ids /\ \A i \in ids : rs[i] \in Int
        BY <1>0, <1>1
      <3>2. Total(rs, ids) = Total(rs, W) + Total(rs, ids \ W)
        <4>1. IsFiniteSet(ids)
          BY <3>1
        <4>2. W \in SUBSET ids
          BY <3>1
        <4>3. \A i \in ids : rs[i] \in Int
          BY <3>1
        <4> QED BY <4>1, <4>2, <4>3, TotalSplit
      <3> QED BY <1>3, <3>2
    <2>2. B = - Total(rs, L)
      BY <1>1, <1>2, TotalNegated
    <2>3. A \in Int /\ Total(rs, L) \in Int
      BY <1>1, <1>2, TotalRemove
    <2> QED BY <2>1, <2>2, <2>3
  <1>6. u = Average(rs, W) /\ v = Average(as, L)
    BY DEF WinOf, LossOf, W, L, rs, as
  <1>7. /\ u \in Int /\ u >= 0 /\ A \in Int
        /\ Within(w * u, 10 * A, w)
    BY <1>1, <1>2, <1>6, AverageIs
  <1>8. /\ v \in Int /\ v >= 0
        /\ Within(l * v, 10 * B, l)
    <2>1. \A i \in L : as[i] \in Int /\ as[i] >= 0
      BY <1>0, <1>1
    <2> QED BY <1>1, <1>6, <2>1, AverageIs
  <1>9. p \in Int /\ Within(n * p, 1000 * w, n)
    <2>1. p = IF n = 0 THEN 0 ELSE Round(1000 * w, n)
      BY <1>1 DEF PctOf, W
    <2>2. n \in Nat /\ w \in Nat /\ l \in Nat
      BY <1>1
    <2> HIDE DEF n, w, l, p
    <2>3. n = 0 => w = 0
      BY <1>4, <2>2
    <2> QED BY <2>1, <2>2, <2>3, ShareIs
  <1>10. ev = Round(p * u - (1000 - p) * v, 1000)
    BY DEF EvOf, ValueOf
  <1> HIDE DEF n, w, l, p, u, v, ev, A, B
  <1>11. ev \in Int /\ Within(1000 * ev, p * u - (1000 - p) * v, 1000)
    <2> DEFINE V == p * u - (1000 - p) * v
    <2>1. V \in Int /\ 1000 \in Nat \ {0}
      BY <1>7, <1>8, <1>9
    <2> HIDE DEF V
    <2>2. ev = Round(V, 1000)
      BY <1>10 DEF V
    <2>3. ev \in Int /\ 2 * (1000 * ev) - 1000 <= 2 * V /\ 2 * V <= 2 * (1000 * ev) + 1000
      BY <2>1, <2>2, RoundIs
    <2> QED BY <2>3 DEF V, Within
  <1>12. u \in Nat /\ v \in Nat
    BY <1>7, <1>8
  <1>13. 2000 * Abs(n * ev - 10 * (A - B)) <= n * (2000 + u + v)
    <2>1. n \in Nat /\ w \in Nat /\ l \in Nat /\ A \in Int /\ B \in Int /\ p \in Int
      BY <1>1, <1>5, <1>7, <1>9
    <2>2. Nearly(n, w, l, A, B, p, u, v, ev)
      BY <1>4, <1>7, <1>8, <1>9, <1>11, <1>12, <2>1 DEF Nearly
    <2> QED BY <2>2, ExpectancyNear
  <1> QED BY <1>5, <1>12, <1>13 DEF n, u, v, ev, rs

-----------------------------------------------------------------------------
(* The inductive invariant.                                                *)

\* Losses that a day can bring: the last one allowed and the trades then open.
Worst == MaxDailyLosses - 1 + MaxOpen

\* What a row of the journal says of the past.
Told(t) ==
  /\ Valid(t.plan)
  /\ t.opened <= today /\ t.closed <= today
  /\ t.closed = -1 <=> t.result = "none"
  /\ t.closed # -1 => t.opened <= t.closed

AllTold == \A i \in 1 .. Len(trades) : Told(trades[i])

\* Who follows the checklist is out at the stop, and calls a loss what lost.
Stopped ==
  guide = "checklist" =>
    \A i \in 1 .. Len(trades) :
      trades[i].r >= -100 /\ (trades[i].result # "loss" => trades[i].r >= 0)

\* The open trades are the losses still to come.
Pending ==
  guide = "checklist" =>
    /\ \A day \in 0 .. today : Cardinality(LossesOf(day)) <= Worst
    /\ Cardinality(LossesOf(today)) + Cardinality(Open) <= Worst

\* As long as nothing was changed before the list had come, all answers on their way
\* have read the journal as it is, and so has the one that came.
Faithful ==
  guide = "filter" /\ ~blind =>
    /\ Cardinality(Today(trades)) <= DayLimit
    /\ \A list \in loads : list = trades
    /\ came => shown = trades

\* A list of the page is the journal of some moment before.
Older(list) ==
  /\ Len(list) <= Len(trades)
  /\ \A i \in 1 .. Len(list) :
       /\ list[i].opened = trades[i].opened
       /\ list[i].result # "none" => list[i] = trades[i]

Copies == {shown, trades} \cup loads

AllOlder == \A list \in Copies : Older(list)

IInv == TypeOK /\ AllTold /\ Stopped /\ Pending /\ Faithful /\ AllOlder

LEMMA RealizedIs ==
  ASSUME NEW plan \in Plans, NEW exit \in Exits, Valid(plan)
  PROVE  /\ Realized(plan, exit) \in Int
         /\ (IF plan.direction = "LONG" THEN exit >= plan.stop ELSE exit <= plan.stop) =>
              Realized(plan, exit) >= -100
         /\ exit = plan.entry => Realized(plan, exit) >= 0
  <1>1. /\ exit \in Nat /\ plan.entry \in Nat /\ plan.stop \in Nat
        /\ plan.direction \in {"LONG", "SHORT"}
    BY TradingAssumption
  <1>2. Risk(plan) \in Nat \ {0}
    BY <1>1 DEF Risk, Abs, Valid
  <1>3. CASE plan.direction = "LONG"
    <2> DEFINE n == 100 * (exit - plan.entry)
    <2>1. n \in Int /\ Risk(plan) = plan.entry - plan.stop
      BY <1>1, <1>3 DEF Risk, Abs, Valid
    <2>2. /\ exit >= plan.stop => -100 * Risk(plan) <= n
          /\ exit = plan.entry => 0 * Risk(plan) <= n
      BY <1>1, <2>1
    <2>3. Realized(plan, exit) = Round(n, Risk(plan))
      BY <1>3 DEF Realized
    <2> HIDE DEF n
    <2> QED BY <1>2, <1>3, <2>1, <2>2, <2>3, RoundKeeps
  <1>4. CASE plan.direction # "LONG"
    <2> DEFINE n == 100 * (plan.entry - exit)
    <2>1. n \in Int /\ Risk(plan) = plan.stop - plan.entry
      BY <1>1, <1>4 DEF Risk, Abs, Valid
    <2>2. /\ exit <= plan.stop => -100 * Risk(plan) <= n
          /\ exit = plan.entry => 0 * Risk(plan) <= n
      BY <1>1, <2>1
    <2>3. Realized(plan, exit) = Round(n, Risk(plan))
      BY <1>4 DEF Realized
    <2> HIDE DEF n
    <2> QED BY <1>2, <1>4, <2>1, <2>2, <2>3, RoundKeeps
  <1> QED BY <1>3, <1>4

\* The filter says go only where the checklist likes the hour.
LEMMA GoIsGood ==
  ASSUME NEW minute \in Minutes, NEW n, NEW losses, Filter(n, losses, minute) = "OPERAR"
  PROVE  GoodTime(minute)
  <1>1. minute \in Int
    BY TradingAssumption
  <1>2. ~ Risky(minute) /\ ~ NearMacro(minute)
    BY DEF Filter
  <1>3. Hour(minute) # 14
    BY <1>2 DEF Risky
  <1>4. Abs(minute - 565) > 30
    BY <1>1, <1>2 DEF NearMacro, MacroTimes, Abs
  <1>5. minute < 535 \/ minute > 595
    BY <1>1, <1>4 DEF Abs
  <1>6. ~ (Hour(minute) = 9 /\ minute % 60 < 15)
    BY <1>1, <1>5 DEF Hour
  <1> QED BY <1>3, <1>6 DEF GoodTime

-----------------------------------------------------------------------------
(* The counted sets.                                                       *)

LEMMA CountsAre ==
  ASSUME TypeOK
  PROVE  /\ Len(trades) \in Nat
         /\ \A i \in 1 .. Len(trades) : trades[i] \in Trade
         /\ IsFiniteSet(Open) /\ Cardinality(Open) \in Nat
         /\ \A day : IsFiniteSet(LossesOf(day)) /\ Cardinality(LossesOf(day)) \in Nat
         /\ IsFiniteSet(Today(trades)) /\ Cardinality(Today(trades)) \in Nat
         /\ IsFiniteSet(TodayLosses(trades)) /\ Cardinality(TodayLosses(trades)) \in Nat
  <1>1. Len(trades) \in Nat /\ \A i \in 1 .. Len(trades) : trades[i] \in Trade
    BY LenProperties, ElementOfSeq DEF TypeOK
  <1>2. IsFiniteSet(1 .. Len(trades))
    BY <1>1, FS_Interval
  <1>3. \A S \in SUBSET (1 .. Len(trades)) : IsFiniteSet(S) /\ Cardinality(S) \in Nat
    BY <1>2, FS_Subset, FS_CardinalityType
  <1>4. /\ Open \in SUBSET (1 .. Len(trades))
        /\ \A day : LossesOf(day) \in SUBSET (1 .. Len(trades))
        /\ Today(trades) \in SUBSET (1 .. Len(trades))
        /\ TodayLosses(trades) \in SUBSET (1 .. Len(trades))
    BY DEF Open, LossesOf, Today, TodayLosses
  <1> QED BY <1>1, <1>3, <1>4

LEMMA ConstantsAre ==
  /\ MaxDailyLosses \in Nat /\ MaxDailyLosses >= 1
  /\ MaxOpen \in Nat /\ MaxOpen >= 1 /\ DayLimit \in Nat /\ DayLimit >= 1
  /\ Worst \in Nat /\ MaxOpen <= Worst /\ MaxDays \in Nat
  BY TradingAssumption DEF Worst

-----------------------------------------------------------------------------
(* The reload after a change.                                              *)

LEMMA Reloaded ==
  ASSUME TypeOK, trades' \in Seq(Trade), Reload
  PROVE  /\ shown' \in Seq(Trade) /\ loads' \subseteq Seq(Trade)
         /\ came' \in BOOLEAN /\ blind' \in BOOLEAN
         /\ shown' = shown /\ loads' \subseteq loads \cup {trades'}
         /\ guide = "filter" /\ ~blind' =>
              ~blind /\ came /\ ~came' /\ loads' = {trades'}
  <1>1. CASE guide = "filter"
    <2>1. /\ loads' = loads \cup {trades'} /\ came' = FALSE /\ shown' = shown
          /\ blind' = (blind \/ ~came \/ loads # {})
      BY <1>1 DEF Reload
    <2>2. blind' \in BOOLEAN /\ (~blind' => ~blind /\ came /\ loads = {})
      BY <2>1 DEF TypeOK
    <2> QED BY <2>1, <2>2 DEF TypeOK
  <1>2. CASE guide # "filter"
    BY <1>2 DEF Reload, TypeOK, pageVars
  <1> QED BY <1>1, <1>2

\* The lists of the page after a change, and that the journal is its own copy.
LEMMA CopiesAre ==
  ASSUME TypeOK
  PROVE  /\ \A list \in Copies :
              list \in Seq(Trade) /\ Len(list) \in Nat
                /\ \A i \in 1 .. Len(list) : list[i] \in Trade
         /\ Older(trades)
  <1>1. \A list \in Copies : list \in Seq(Trade)
    BY DEF Copies, TypeOK
  <1>2. \A list \in Copies : Len(list) \in Nat /\ \A i \in 1 .. Len(list) : list[i] \in Trade
    BY <1>1, LenProperties, ElementOfSeq
  <1>3. Older(trades)
    BY <1>2 DEF Older, Copies
  <1> QED BY <1>1, <1>2, <1>3

\* What the page does to its lists when the journal stays.
PageMoves == Load \/ Reopen \/ \E list \in loads : Arrive(list) \/ LoadFails(list)

LEMMA PageIs ==
  ASSUME TypeOK, PageMoves
  PROVE  /\ guide' = guide /\ today' = today /\ trades' = trades /\ blind' = blind
         /\ came' \in BOOLEAN
         /\ shown' \in {shown, <<>>} \cup loads
         /\ loads' \subseteq loads \cup {trades}
         /\ came' => (came /\ shown' = shown) \/ shown' \in loads
  <1>1. CASE Load
    BY <1>1 DEF Load, TypeOK
  <1>2. CASE Reopen
    BY <1>2 DEF Reopen
  <1>3. CASE \E list \in loads : Arrive(list) \/ LoadFails(list)
    <2>1. PICK list \in loads : Arrive(list) \/ LoadFails(list)
      BY <1>3
    <2>2. loads' \in {loads, loads \ {list}}
      BY <2>1 DEF Arrive, LoadFails, Leaves
    <2>3. CASE Arrive(list)
      BY <2>1, <2>2, <2>3 DEF Arrive
    <2>4. CASE LoadFails(list)
      BY <2>2, <2>4 DEF LoadFails, TypeOK
    <2> QED BY <2>1, <2>3, <2>4
  <1> QED BY <1>1, <1>2, <1>3 DEF PageMoves

-----------------------------------------------------------------------------
(* Each action keeps the invariant.                                        *)

LEMMA InitIInv ==
  ASSUME Init
  PROVE  IInv
  <1>1. Len(trades) = 0 /\ 1 .. Len(trades) = {} /\ trades \in Seq(Trade) /\ shown \in Seq(Trade)
    BY EmptySeq DEF Init
  <1>2. /\ Open = {} /\ Today(trades) = {} /\ \A day : LossesOf(day) = {}
    BY <1>1 DEF Open, LossesOf, Today
  <1>3. /\ Cardinality(Open) = 0 /\ Cardinality(Today(trades)) = 0
        /\ \A day : Cardinality(LossesOf(day)) = 0
    BY <1>2, FS_EmptySet
  <1>4. TypeOK
    <2>1. Cardinality(Open) <= MaxOpen /\ 0 \in 0 .. MaxDays
      BY <1>3, ConstantsAre
    <2> QED BY <1>1, <2>1 DEF TypeOK, Init
  <1>5. AllTold /\ Stopped
    BY <1>1 DEF AllTold, Stopped
  <1>6. Pending
    BY <1>3, ConstantsAre DEF Pending
  <1>7. Faithful
    <2>1. Cardinality(Today(trades)) <= DayLimit /\ loads = {} /\ came = FALSE
      BY <1>3, ConstantsAre DEF Init
    <2> QED BY <2>1 DEF Faithful
  <1>8. AllOlder
    BY <1>1 DEF Init, AllOlder, Copies, Older
  <1> QED BY <1>4, <1>5, <1>6, <1>7, <1>8 DEF IInv

LEMMA RecordIInv ==
  ASSUME IInv, NEW plan \in Plans, NEW emotion \in Emotions, NEW minute \in Minutes,
         Record(plan, emotion, minute)
  PROVE  IInv'
  <1> USE ConstantsAre DEF IInv
  <1> DEFINE t == [plan |-> plan, opened |-> today, closed |-> -1,
                   exit |-> 0, result |-> "none", r |-> 0]
             k == Len(trades) + 1
  <1>1. /\ trades' = Append(trades, t) /\ guide' = guide /\ today' = today
        /\ Valid(plan) /\ Allows(plan, emotion, minute) /\ Reload
        /\ Cardinality(Open) < MaxOpen
    BY DEF Record
  <1>2. today \in Nat /\ today <= MaxDays
    BY DEF TypeOK
  <1>3. /\ t \in Trade /\ t.plan = plan /\ t.opened = today /\ t.closed = -1
        /\ t.result = "none" /\ t.r = 0
    BY <1>2 DEF Trade
  <1> HIDE DEF t
  <1>4. /\ trades' \in Seq(Trade) /\ Len(trades') = k /\ Len(trades) \in Nat
        /\ \A i \in 1 .. Len(trades) : trades'[i] = trades[i]
        /\ trades'[k] = t
    BY <1>1, <1>3, CountsAre, AppendProperties DEF TypeOK
  <1>5. /\ 1 .. Len(trades') = 1 .. Len(trades) \cup {k} /\ k \notin 1 .. Len(trades)
    BY <1>4
  <1>6. /\ Open' = Open \cup {k} /\ k \notin Open
        /\ \A day \in Nat : LossesOf(day)' = LossesOf(day)
        /\ Today(trades)' = Today(trades) \cup {k} /\ k \notin Today(trades)
    BY <1>1, <1>3, <1>4, <1>5 DEF Open, LossesOf, Today
  <1>7. /\ Cardinality(Open') = Cardinality(Open) + 1
        /\ Cardinality(Today(trades)') = Cardinality(Today(trades)) + 1
    BY <1>6, CountsAre, FS_AddElement
  <1>8. TypeOK'
    BY <1>1, <1>4, <1>7, CountsAre, Reloaded DEF TypeOK
  <1>9. AllTold'
    BY <1>1, <1>2, <1>3, <1>4, <1>5 DEF AllTold, Told
  <1>10. Stopped'
    BY <1>1, <1>3, <1>4, <1>5 DEF Stopped
  <1>11. Pending'
    <2> SUFFICES ASSUME guide = "checklist"
                 PROVE  /\ \A day \in 0 .. today : Cardinality(LossesOf(day)') <= Worst
                        /\ Cardinality(LossesOf(today)') + Cardinality(Open') <= Worst
      BY <1>1 DEF Pending
    <2>1. Cardinality(LossesOf(today)) < MaxDailyLosses
      BY <1>1, CountsAre DEF Allows, Checklist, Blocking, Intent
    <2>2. Cardinality(LossesOf(today)') + Cardinality(Open') <= Worst
      <3>1. LossesOf(today)' = LossesOf(today)
        BY <1>1, <1>2, <1>6
      <3>2. Cardinality(LossesOf(today)) \in Nat /\ Cardinality(Open) \in Nat
        BY CountsAre
      <3> QED BY <1>1, <1>7, <2>1, <3>1, <3>2 DEF Worst
    <2>3. \A day \in 0 .. today : Cardinality(LossesOf(day)') <= Worst
      BY <1>2, <1>6 DEF Pending
    <2> QED BY <2>2, <2>3
  <1>12. Faithful'
    <2> SUFFICES ASSUME guide = "filter", ~ blind'
                 PROVE  /\ Cardinality(Today(trades)') <= DayLimit
                        /\ loads' = {trades'} /\ ~ came'
      BY <1>1 DEF Faithful
    <2>1. ~ blind /\ came /\ ~ came' /\ loads' = {trades'}
      BY <1>1, <1>4, Reloaded
    <2>2. shown = trades
      BY <2>1 DEF Faithful
    <2>3. Cardinality(Today(trades)) < DayLimit
      BY <1>1, <2>2, CountsAre DEF Allows, FilterVerdict, Filter
    <2> QED BY <1>7, <2>1, <2>3, CountsAre
  <1>13. AllOlder'
    <2>1. ASSUME NEW list \in Copies PROVE Older(list)'
      <3>1. Older(list) /\ Len(list) \in Nat
        BY <2>1, CopiesAre DEF AllOlder
      <3>2. \A i \in 1 .. Len(list) : i \in 1 .. Len(trades) /\ trades'[i] = trades[i]
        BY <1>4, <3>1 DEF Older
      <3> QED BY <1>4, <3>1, <3>2 DEF Older
    <2>2. Older(trades)'
      BY <1>4 DEF Older
    <2>3. \A list \in Copies' : list \in Copies \/ list = trades'
      BY <1>1, <1>4, Reloaded DEF Copies
    <2> QED BY <2>1, <2>2, <2>3 DEF AllOlder
  <1> QED BY <1>8, <1>9, <1>10, <1>11, <1>12, <1>13

LEMMA CloseIInv ==
  ASSUME IInv, NEW i \in 1 .. Len(trades), NEW exit \in Exits,
         NEW result \in {"win", "loss", "breakeven"}, Close(i, exit, result)
  PROVE  IInv'
  <1> USE ConstantsAre DEF IInv
  <1> DEFINE plan == trades[i].plan
             r == Realized(plan, exit)
             t == [trades[i] EXCEPT !.closed = today, !.exit = exit, !.result = result, !.r = r]
  <1>1. /\ trades' = [trades EXCEPT ![i] = t] /\ guide' = guide /\ today' = today
        /\ Reload /\ i \in Open
        /\ guide = "checklist" =>
             /\ IF plan.direction = "LONG" THEN exit >= plan.stop ELSE exit <= plan.stop
             /\ result # "loss" => exit = plan.entry \/ r > 0
    BY DEF Close
  <1>2. today \in Nat /\ today <= MaxDays
    BY DEF TypeOK
  <1>3. trades[i] \in Trade /\ Valid(plan) /\ trades[i].opened <= today /\ trades[i].closed = -1
    BY <1>1, CountsAre DEF AllTold, Told, Open
  <1>4. r \in Int /\ (guide = "checklist" => r >= -100 /\ (result # "loss" => r >= 0))
    <2>1. /\ r \in Int /\ (exit = plan.entry => r >= 0)
          /\ (IF plan.direction = "LONG" THEN exit >= plan.stop ELSE exit <= plan.stop) => r >= -100
      BY <1>1, <1>3, RealizedIs DEF Trade
    <2> HIDE DEF r
    <2> QED BY <1>1, <2>1
  <1> HIDE DEF r
  <1>5. /\ t \in Trade /\ t.plan = plan /\ t.opened = trades[i].opened /\ t.closed = today
        /\ t.result = result /\ t.r = r
    BY <1>2, <1>3, <1>4 DEF Trade
  <1> HIDE DEF t, plan
  <1>6. /\ trades' \in Seq(Trade) /\ Len(trades') = Len(trades) /\ trades'[i] = t
        /\ \A j \in 1 .. Len(trades) : j # i => trades'[j] = trades[j]
    BY <1>1, <1>5, ExceptSeq DEF TypeOK
  <1>7. /\ Open' = Open \ {i}
        /\ \A day \in Nat : day # today => LossesOf(day)' = LossesOf(day)
        /\ LossesOf(today)' \in {LossesOf(today), LossesOf(today) \cup {i}}
        /\ Today(trades)' = Today(trades)
    <2>1. Open' = Open \ {i}
      BY <1>2, <1>5, <1>6 DEF Open
    <2>2. \A day \in Nat : day # today => LossesOf(day)' = LossesOf(day)
      BY <1>2, <1>3, <1>5, <1>6 DEF LossesOf
    <2>3. LossesOf(today)' \in {LossesOf(today), LossesOf(today) \cup {i}}
      <3>1. \A j \in 1 .. Len(trades) : j # i =>
              (j \in LossesOf(today)' <=> j \in LossesOf(today))
        BY <1>1, <1>6 DEF LossesOf
      <3>2. i \notin LossesOf(today)
        BY <1>2, <1>3 DEF LossesOf
      <3>3. /\ LossesOf(today) \subseteq 1 .. Len(trades)
            /\ LossesOf(today)' \subseteq 1 .. Len(trades)
        BY <1>6 DEF LossesOf
      <3> QED BY <3>1, <3>2, <3>3, SMTT(30)
    <2>4. Today(trades)' = Today(trades)
      BY <1>1, <1>5, <1>6 DEF Today
    <2> QED BY <2>1, <2>2, <2>3, <2>4
  <1>8. /\ Cardinality(Open') = Cardinality(Open) - 1
        /\ Cardinality(LossesOf(today)') \in Nat
        /\ Cardinality(LossesOf(today)') <= Cardinality(LossesOf(today)) + 1
        /\ Cardinality(Open) \in Nat /\ Cardinality(LossesOf(today)) \in Nat
        /\ Cardinality(Open) >= 1
    <2>1. /\ IsFiniteSet(Open) /\ Cardinality(Open) \in Nat
          /\ IsFiniteSet(LossesOf(today)) /\ Cardinality(LossesOf(today)) \in Nat
      BY CountsAre
    <2>2. Cardinality(Open \ {i}) = Cardinality(Open) - 1
      BY <1>1, <2>1, FS_RemoveElement
    <2>3. Cardinality(LossesOf(today) \cup {i}) \in
            {Cardinality(LossesOf(today)), Cardinality(LossesOf(today)) + 1}
      BY <2>1, FS_AddElement
    <2>4. Cardinality(LossesOf(today)') \in
            {Cardinality(LossesOf(today)), Cardinality(LossesOf(today)) + 1}
      BY <1>7, <2>3
    <2>5. Cardinality(Open) >= 1
      BY <1>1, <2>1, FS_EmptySet
    <2> QED BY <1>7, <2>1, <2>2, <2>4, <2>5
  <1>9. TypeOK'
    BY <1>1, <1>6, <1>8, CountsAre, Reloaded DEF TypeOK
  <1>10. AllTold'
    BY <1>1, <1>2, <1>3, <1>5, <1>6 DEF AllTold, Told, plan
  <1>11. Stopped'
    BY <1>1, <1>4, <1>5, <1>6 DEF Stopped
  <1>12. Pending'
    <2> SUFFICES ASSUME guide = "checklist"
                 PROVE  /\ \A day \in 0 .. today : Cardinality(LossesOf(day)') <= Worst
                        /\ Cardinality(LossesOf(today)') + Cardinality(Open') <= Worst
      BY <1>1 DEF Pending
    <2>1. Cardinality(LossesOf(today)') + Cardinality(Open') <= Worst
      <3>1. Cardinality(LossesOf(today)) + Cardinality(Open) <= Worst
        BY DEF Pending
      <3> QED BY <1>8, <3>1
    <2>2. ASSUME NEW day \in 0 .. today
          PROVE  Cardinality(LossesOf(day)') <= Worst
      <3>1. CASE day = today
        <4>1. Cardinality(LossesOf(today)') <= Worst
          BY <1>8, <2>1
        <4> QED BY <1>1, <3>1, <4>1
      <3>2. CASE day # today
        BY <1>2, <1>7, <3>2 DEF Pending
      <3> QED BY <3>1, <3>2
    <2> QED BY <2>1, <2>2
  <1>13. Faithful'
    <2> SUFFICES ASSUME guide = "filter", ~ blind'
                 PROVE  /\ Cardinality(Today(trades)') <= DayLimit
                        /\ loads' = {trades'} /\ ~ came'
      BY <1>1 DEF Faithful
    <2>1. ~ blind /\ ~ came' /\ loads' = {trades'}
      BY <1>1, <1>6, Reloaded
    <2> QED BY <1>7, <2>1 DEF Faithful
  <1>14. AllOlder'
    <2>1. ASSUME NEW list \in Copies PROVE Older(list)'
      <3>1. Older(list) /\ Len(list) \in Nat
        BY <2>1, CopiesAre DEF AllOlder
      <3>2. ASSUME NEW j \in 1 .. Len(list)
            PROVE  /\ list[j].opened = trades'[j].opened
                   /\ list[j].result # "none" => list[j] = trades'[j]
        <4>1. j \in 1 .. Len(trades) /\ list[j].opened = trades[j].opened
              /\ (list[j].result # "none" => list[j] = trades[j])
          BY <1>6, <3>1, CountsAre DEF Older
        <4>2. trades[i].result = "none"
          BY <1>3 DEF AllTold, Told
        <4>3. CASE j = i
          BY <1>5, <1>6, <4>1, <4>2, <4>3
        <4>4. CASE j # i
          BY <1>6, <4>1, <4>4
        <4> QED BY <4>3, <4>4
      <3> QED BY <1>6, <3>1, <3>2 DEF Older
    <2>2. Older(trades)'
      BY <1>6 DEF Older
    <2>3. \A list \in Copies' : list \in Copies \/ list = trades'
      BY <1>1, <1>6, Reloaded DEF Copies
    <2> QED BY <2>1, <2>2, <2>3 DEF AllOlder
  <1> QED BY <1>9, <1>10, <1>11, <1>12, <1>13, <1>14

LEMMA PageIInv ==
  ASSUME IInv, PageMoves
  PROVE  IInv'
  <1> USE DEF IInv
  <1>1. /\ guide' = guide /\ today' = today /\ trades' = trades /\ blind' = blind
        /\ came' \in BOOLEAN
        /\ shown' \in {shown, <<>>} \cup loads
        /\ loads' \subseteq loads \cup {trades}
        /\ came' => (came /\ shown' = shown) \/ shown' \in loads
    BY PageIs
  <1>2. Open' = Open /\ Today(trades)' = Today(trades) /\ \A day : LossesOf(day)' = LossesOf(day)
    BY <1>1 DEF Open, Today, LossesOf
  <1>3. TypeOK'
    <2>1. <<>> \in Seq(Trade)
      BY EmptySeq
    <2>2. shown' \in Seq(Trade) /\ loads' \subseteq Seq(Trade)
      BY <1>1, <2>1 DEF TypeOK
    <2> QED BY <1>1, <1>2, <2>2 DEF TypeOK
  <1>4. AllTold' /\ Stopped'
    BY <1>1 DEF AllTold, Told, Stopped
  <1>5. Pending' /\ Faithful'
    BY <1>1, <1>2 DEF Pending, Faithful
  <1>6. AllOlder'
    <2>1. \A list \in Copies' : list \in Copies \/ list = <<>>
      BY <1>1 DEF Copies
    <2>2. Older(<<>>)
      <3>1. Len(<<>>) = 0 /\ Len(trades) \in Nat
        BY CountsAre, EmptySeq
      <3> QED BY <3>1 DEF Older
    <2>3. \A list : Older(list) => Older(list)'
      BY <1>1 DEF Older
    <2> QED BY <2>1, <2>2, <2>3 DEF AllOlder
  <1> QED BY <1>3, <1>4, <1>5, <1>6

LEMMA MidnightIInv ==
  ASSUME IInv, Midnight
  PROVE  IInv'
  <1> USE ConstantsAre DEF IInv
  <1>1. /\ trades' = trades /\ guide' = guide /\ shown' = shown /\ loads' = loads
        /\ came' = came /\ blind' = blind /\ today' = today + 1 /\ today < MaxDays
    BY DEF Midnight, pageVars
  <1>2. today \in Nat /\ today' \in 0 .. MaxDays
    BY <1>1 DEF TypeOK
  <1>3. \A i \in 1 .. Len(trades) :
          /\ trades[i].opened \in Int /\ trades[i].closed \in Int
          /\ trades[i].opened <= today /\ trades[i].closed <= today
    BY CountsAre DEF AllTold, Told, Trade
  <1>4. Open' = Open /\ \A day : LossesOf(day)' = LossesOf(day)
    BY <1>1 DEF Open, LossesOf
  <1>5. LossesOf(today + 1) = {} /\ Today(trades)' = {} /\ Cardinality({}) = 0
    BY <1>1, <1>2, <1>3, FS_EmptySet DEF LossesOf, Today
  <1>6. TypeOK'
    BY <1>1, <1>2, <1>4 DEF TypeOK
  <1>7. AllTold'
    BY <1>1, <1>2, <1>3 DEF AllTold, Told
  <1>8. Stopped'
    BY <1>1 DEF Stopped
  <1>9. Pending'
    <2> SUFFICES ASSUME guide = "checklist"
                 PROVE  /\ \A day \in 0 .. today + 1 : Cardinality(LossesOf(day)) <= Worst
                        /\ Cardinality(LossesOf(today + 1)) + Cardinality(Open) <= Worst
      BY <1>1, <1>4 DEF Pending
    <2>1. Cardinality(LossesOf(today + 1)) = 0
      BY <1>5
    <2>2. Cardinality(LossesOf(today + 1)) + Cardinality(Open) <= Worst
      BY <2>1, CountsAre DEF TypeOK
    <2>3. \A day \in 0 .. today : Cardinality(LossesOf(day)) <= Worst
      BY DEF Pending
    <2>4. \A day \in 0 .. today + 1 : day \in 0 .. today \/ day = today + 1
      BY <1>2
    <2> QED BY <2>1, <2>2, <2>3, <2>4
  <1>10. Faithful'
    BY <1>1, <1>5 DEF Faithful
  <1>11. AllOlder'
    BY <1>1 DEF AllOlder, Copies, Older
  <1> QED BY <1>6, <1>7, <1>8, <1>9, <1>10, <1>11

LEMMA StutterIInv ==
  ASSUME IInv, UNCHANGED vars
  PROVE  IInv'
  <1>1. /\ trades' = trades /\ guide' = guide /\ today' = today /\ shown' = shown
        /\ loads' = loads /\ came' = came /\ blind' = blind
    BY DEF vars, pageVars
  <1>2. Open' = Open /\ Today(trades)' = Today(trades) /\ \A day : LossesOf(day)' = LossesOf(day)
    BY <1>1 DEF Open, Today, LossesOf
  <1>3. TypeOK'
    BY <1>1, <1>2 DEF IInv, TypeOK
  <1>4. AllTold' /\ Stopped'
    BY <1>1 DEF IInv, AllTold, Told, Stopped
  <1>5. Pending' /\ Faithful'
    BY <1>1, <1>2 DEF IInv, Pending, Faithful
  <1>6. AllOlder'
    BY <1>1 DEF IInv, AllOlder, Copies, Older
  <1> QED BY <1>3, <1>4, <1>5, <1>6 DEF IInv

LEMMA StepIInv ==
  ASSUME IInv, [Next]_vars
  PROVE  IInv'
  <1>1. ASSUME NEW plan \in Plans, NEW emotion \in Emotions, NEW minute \in Minutes,
               Record(plan, emotion, minute)
        PROVE  IInv'
    BY <1>1, RecordIInv
  <1>2. ASSUME NEW i \in 1 .. Len(trades), NEW exit \in Exits,
               NEW result \in {"win", "loss", "breakeven"}, Close(i, exit, result)
        PROVE  IInv'
    BY <1>2, CloseIInv
  <1> QED BY <1>1, <1>2, PageIInv, MidnightIInv, StutterIInv DEF Next, PageMoves

-----------------------------------------------------------------------------
(* What the invariant says of the counsels.                                *)

LEMMA IInvBounds ==
  ASSUME IInv
  PROVE  DayIsBounded
  <1> SUFFICES ASSUME guide = "checklist", NEW day \in 0 .. today
               PROVE  /\ Cardinality(LossesOf(day)) <= Worst
                      /\ Total(RSeries(trades), LossesOf(day)) >= -100 * Worst
    BY DEF DayIsBounded, Worst
  <1>1. Cardinality(LossesOf(day)) <= Worst
    BY DEF IInv, Pending
  <1>2. IsFiniteSet(LossesOf(day)) /\ Cardinality(LossesOf(day)) \in Nat
    BY CountsAre DEF IInv
  <1>3. \A i \in LossesOf(day) : trades[i].r \in Int /\ trades[i].r >= -100
    BY CountsAre DEF IInv, Stopped, LossesOf, Trade
  <1>4. /\ Total(RSeries(trades), LossesOf(day)) \in Int
        /\ Total(RSeries(trades), LossesOf(day)) >= -100 * Cardinality(LossesOf(day))
    <2>1. Listed(trades, LossesOf(day))
      BY CountsAre DEF IInv, Trade, Listed, LossesOf
    <2>2. \A i \in LossesOf(day) : RSeries(trades)[i] \in Int /\ RSeries(trades)[i] >= -100
      BY <1>3, <2>1, TermsAre
    <2> QED BY <1>2, <2>2, TotalBounded, TotalRemove
  <1> QED BY <1>1, <1>2, <1>4, ConstantsAre

LEMMA IInvAgrees ==
  ASSUME IInv, MaxDailyLosses <= 2
  PROVE  CounselsAgree
  <1>1. guide = "filter" /\ ~ blind => Cardinality(Today(trades)) <= DayLimit
    BY DEF IInv, Faithful
  <1>2. ASSUME NEW list, NEW minute \in Minutes, FilterVerdict(list, minute) = "OPERAR"
        PROVE  GoodTime(minute)
    BY <1>2, GoIsGood DEF FilterVerdict
  <1>3. ASSUME NEW list \in {shown, trades}, NEW minute \in Minutes,
               FilterVerdict(list, minute) = "PARAR",
               Cardinality(Today(list)) < DayLimit, NEW plan \in Plans, NEW emotion \in Emotions
        PROVE  Checklist(Intent(plan, emotion, TRUE), minute) = "NAO_OPERAR"
    <2>1. IsFiniteSet(LossesOf(today)) /\ Cardinality(LossesOf(today)) \in Nat
      BY CountsAre DEF IInv
    <2>2. list \in Copies /\ Older(list) /\ Len(list) \in Nat
      BY <1>3, CopiesAre DEF IInv, AllOlder, Copies
    <2>3. TodayLosses(list) \in SUBSET LossesOf(today)
      <3>1. \A i \in 1 .. Len(trades) :
              /\ trades[i].closed \in Int /\ trades[i].closed <= today
              /\ trades[i].result = "loss" => trades[i].opened <= trades[i].closed
        BY CountsAre DEF IInv, AllTold, Told, Trade
      <3>2. today \in Int
        BY ConstantsAre DEF IInv, TypeOK
      <3>3. \A i \in TodayLosses(list) :
              /\ i \in 1 .. Len(trades) /\ trades[i].opened = today
              /\ trades[i].result = "loss"
        BY <2>2, CountsAre DEF TodayLosses, Today, Older, IInv
      <3> QED BY <3>1, <3>2, <3>3 DEF LossesOf
    <2>4. /\ Cardinality(TodayLosses(list)) \in Nat
          /\ Cardinality(TodayLosses(list)) <= Cardinality(LossesOf(today))
      BY <2>1, <2>3, FS_Subset, FS_CardinalityType
    <2>5. Cardinality(Today(list)) \in Nat
      <3>1. IsFiniteSet(1 .. Len(list)) /\ Today(list) \in SUBSET (1 .. Len(list))
        BY <2>2, FS_Interval DEF Today
      <3> QED BY <3>1, FS_Subset, FS_CardinalityType
    <2>6. Cardinality(TodayLosses(list)) >= 2
      BY <1>3, <2>4, <2>5, ConstantsAre DEF FilterVerdict, Filter
    <2>7. Cardinality(LossesOf(today)) >= MaxDailyLosses
      BY <2>1, <2>4, <2>6, ConstantsAre
    <2> QED BY <2>7 DEF Checklist, Blocking, Intent
  <1> QED BY <1>1, <1>2, <1>3 DEF CounselsAgree

\* The trades of which a saved report can tell.
Past(saved) ==
  {i \in 1 .. Len(trades) :
     trades[i].closed # -1 /\ saved.asset \in {ALL, trades[i].plan.asset}}

\* A report keeps the figures of some of them.
Remembered ==
  \A saved \in reports :
    \E ids \in SUBSET Past(saved) : saved.numbers = Figures(trades, ids, saved.numbers.drawdown)

ReportsInv == IInv /\ ReportsTyped /\ Remembered /\ ReportsFitTheRules

\* The figures do not look at the rest of the list.
LEMMA FiguresKept ==
  ASSUME NEW list, NEW other, NEW ids, Listed(list, ids), Listed(other, ids),
         \A i \in ids : other[i] = list[i], NEW d
  PROVE  Figures(other, ids, d) = Figures(list, ids, d)
  <1>1. IsFiniteSet(ids)
    BY PartsAre
  <1>2. /\ \A i \in ids : RSeries(list)[i] \in Int /\ RSeries(other)[i] = RSeries(list)[i]
        /\ \A i \in ids : Sizes(list)[i] \in Int /\ Sizes(other)[i] = Sizes(list)[i]
    BY TermsAre
  <1>3. \A result : With(other, ids, result) = With(list, ids, result)
    BY DEF With
  <1>4. ASSUME NEW some \in SUBSET ids
        PROVE  /\ Total(RSeries(other), some) = Total(RSeries(list), some)
               /\ Total(Sizes(other), some) = Total(Sizes(list), some)
    <2>1. IsFiniteSet(some)
      BY <1>1, FS_Subset
    <2>2. /\ \A i \in some : RSeries(list)[i] \in Int /\ RSeries(other)[i] = RSeries(list)[i]
          /\ \A i \in some : Sizes(list)[i] \in Int /\ Sizes(other)[i] = Sizes(list)[i]
      BY <1>2
    <2> QED BY <2>1, <2>2, TotalEqual
  <1>5. \A result : With(list, ids, result) \in SUBSET ids
    BY DEF With
  <1>6. PctOf(other, ids) = PctOf(list, ids)
    BY <1>3 DEF PctOf
  <1>7. WinOf(other, ids) = WinOf(list, ids)
    BY <1>3, <1>4, <1>5 DEF WinOf, Average
  <1>8. LossOf(other, ids) = LossOf(list, ids)
    BY <1>3, <1>4, <1>5 DEF LossOf, Average
  <1>9. EvOf(other, ids) = EvOf(list, ids)
    BY <1>6, <1>7, <1>8 DEF EvOf
  <1>10. Total(RSeries(other), ids) = Total(RSeries(list), ids)
    BY <1>4
  <1> QED BY <1>6, <1>9, <1>10 DEF Figures

\* The journal as a list.
LEMMA JournalIs ==
  ASSUME TypeOK
  PROVE  /\ Len(trades) \in Nat
         /\ \A ids \in SUBSET (1 .. Len(trades)) : Listed(trades, ids)
         /\ \A window, asset : Ids(window, asset) \in SUBSET (1 .. Len(trades))
         /\ \A ids : Reads(ids) = Orders(trades, ids)
  <1>1. Len(trades) \in Nat /\ \A i \in 1 .. Len(trades) : trades[i].r \in Int
    BY CountsAre DEF Trade
  <1>2. \A ids \in SUBSET (1 .. Len(trades)) : Listed(trades, ids)
    BY <1>1 DEF Listed
  <1>3. \A ids : Reads(ids) = Orders(trades, ids)
    BY DEF Reads, Orders
  <1> QED BY <1>1, <1>2, <1>3 DEF Ids

-----------------------------------------------------------------------------
(* What the invariant says of the figures.                                 *)

\* Honest rows without breakevens come of sound trades.
LEMMA HonestAreSound ==
  ASSUME IInv, NEW rows \in Reads(Ids(ALL, ALL)), Honest(rows), Of(rows, "breakeven") = {}
  PROVE  Sound(trades, Ids(ALL, ALL))
  <1> DEFINE ids == Ids(ALL, ALL)
  <1>1. /\ Listed(trades, ids) /\ rows \in Orders(trades, ids) /\ ids \in SUBSET (1 .. Len(trades))
    BY JournalIs DEF IInv
  <1>2. IsFiniteSet(ids)
    BY <1>1, PartsAre
  <1>3. PICK f : /\ \A k \in 1 .. Len(rows) : f[k] \in ids /\ rows[k] = trades[f[k]]
                 /\ \A i \in ids : \E k \in 1 .. Len(rows) : f[k] = i
    BY <1>1, <1>2, RowsAre
  <1>4. \A i \in 1 .. Len(trades) :
          /\ trades[i].result \in {"none", "win", "loss", "breakeven"}
          /\ trades[i].closed # -1 => trades[i].result # "none"
    BY CountsAre DEF IInv, AllTold, Told, Trade
  <1>5. \A i \in ids : trades[i].closed # -1
    BY DEF Ids, Selected
  <1> HIDE DEF ids
  <1>6. ASSUME NEW i \in ids
        PROVE  \/ trades[i].result = "win" /\ trades[i].r >= 0
               \/ trades[i].result = "loss" /\ trades[i].r <= 0
    <2>1. PICK k \in 1 .. Len(rows) : f[k] = i
      BY <1>3
    <2>2. rows[k] = trades[i]
      BY <1>3, <2>1
    <2>3. trades[i].result # "breakeven"
      BY <2>2 DEF Of
    <2>4. trades[i].result \in {"win", "loss"}
      BY <1>1, <1>4, <1>5, <2>3
    <2>5. CASE trades[i].result = "win"
      BY <2>2, <2>5 DEF Honest
    <2>6. CASE trades[i].result = "loss"
      BY <2>2, <2>6 DEF Honest
    <2> QED BY <2>4, <2>5, <2>6
  <1> QED BY <1>6 DEF Sound, ids

LEMMA IInvFigures ==
  ASSUME IInv
  PROVE  FiguresAreRight
  <1> SUFFICES ASSUME NEW rows \in Reads(Ids(ALL, ALL))
               PROVE  /\ MaxDrawdown(RSeries(rows)) = Max(Falls(RSeries(rows)))
                      /\ Honest(rows) /\ Of(rows, "breakeven") = {} =>
                           2000 * Abs(Len(rows) * ExpectedValue(rows)
                                        - 10 * Total(RSeries(rows), 1 .. Len(rows)))
                             <= Len(rows) * (2000 + AverageWin(rows) + AverageLoss(rows))
    BY DEF FiguresAreRight
  <1> DEFINE ids == Ids(ALL, ALL)
  <1>1. Listed(trades, ids) /\ rows \in Orders(trades, ids)
    BY JournalIs DEF IInv
  <1> HIDE DEF ids
  <1>2. /\ Len(rows) = Cardinality(ids) /\ Len(rows) \in Nat
        /\ Len(RSeries(rows)) = Len(rows)
        /\ \A i \in 1 .. Len(rows) : RSeries(rows)[i] \in Int
        /\ Total(RSeries(rows), 1 .. Len(rows)) = Total(RSeries(trades), ids)
        /\ AverageWin(rows) = WinOf(trades, ids)
        /\ AverageLoss(rows) = LossOf(trades, ids)
        /\ ExpectedValue(rows) = EvOf(trades, ids)
    BY <1>1, FiguresAre
  <1>3. MaxDrawdown(RSeries(rows)) = Max(Falls(RSeries(rows)))
    <2> DEFINE rs == RSeries(rows)
    <2>1. Len(rs) \in Nat /\ \A i \in 1 .. Len(rs) : rs[i] \in Int
      BY <1>2
    <2> HIDE DEF rs
    <2>2. MaxDrawdown(rs) = Max(Falls(rs))
      BY <2>1, DrawdownIsMax
    <2> QED BY <2>2 DEF rs
  <1>4. ASSUME Honest(rows), Of(rows, "breakeven") = {}
        PROVE  2000 * Abs(Len(rows) * ExpectedValue(rows)
                            - 10 * Total(RSeries(rows), 1 .. Len(rows)))
                 <= Len(rows) * (2000 + AverageWin(rows) + AverageLoss(rows))
    <2>1. Sound(trades, ids)
      BY <1>4, HonestAreSound DEF ids
    <2>2. 2000 * Abs(Cardinality(ids) * EvOf(trades, ids) - 10 * Total(RSeries(trades), ids))
            <= Cardinality(ids) * (2000 + WinOf(trades, ids) + LossOf(trades, ids))
      BY <1>1, <2>1, ExpectancyIs
    <2> QED BY <1>2, <2>2
  <1> QED BY <1>3, <1>4

LEMMA ReportsInvRepeat ==
  ASSUME ReportsInv
  PROVE  ReportsRepeat
  <1> SUFFICES ASSUME NEW saved \in reports, saved.window = ALL,
                      NEW rows \in Reads(Ids(ALL, saved.asset)),
                      Compute(rows).trades = saved.numbers.trades
               PROVE  Compute(rows) =
                        [saved.numbers EXCEPT !.drawdown = Compute(rows).drawdown]
    BY DEF ReportsRepeat
  <1> DEFINE ids == Ids(ALL, saved.asset)
             d == MaxDrawdown(RSeries(rows))
  <1>1. PICK then \in SUBSET Past(saved) :
               saved.numbers = Figures(trades, then, saved.numbers.drawdown)
    BY DEF ReportsInv, Remembered
  <1>2. ids = Past(saved)
    BY DEF Ids, Selected, Past
  <1>3. Listed(trades, ids) /\ rows \in Orders(trades, ids)
    BY JournalIs DEF ReportsInv, IInv
  <1> HIDE DEF ids
  <1>4. Compute(rows) = Figures(trades, ids, d)
    BY <1>3, FiguresAre
  <1>5. IsFiniteSet(ids)
    BY <1>3, PartsAre
  <1> HIDE DEF d
  <1>6. Cardinality(then) = Cardinality(ids)
    BY <1>1, <1>4 DEF Figures
  <1>7. then = ids
    BY <1>1, <1>2, <1>5, <1>6, FS_Subset
  <1> QED BY <1>1, <1>4, <1>7 DEF Figures

-----------------------------------------------------------------------------
(* The journal beside the reports.                                         *)

LEMMA ReportStep ==
  ASSUME [ReportNext]_reportVars
  PROVE  [Next]_vars
  BY DEF ReportNext, reportVars, GetPerformance, vars

-----------------------------------------------------------------------------
(* What the rules let some days cost.                                      *)

\* The losses of a day and of so many days before.
Since(n) ==
  {i \in 1 .. Len(trades) :
     /\ trades[i].closed # -1 /\ today - n <= trades[i].closed
     /\ trades[i].result = "loss"}

LEMMA OneMore ==
  ASSUME NEW w \in Nat, NEW n \in Nat
  PROVE  w * (0 + 1) = w /\ w * (n + 1) + w = w * ((n + 1) + 1) /\ w * (n + 1) \in Nat
  OBVIOUS

\* Day by day, at most Worst of them each.
LEMMA SinceBounded ==
  ASSUME IInv, guide = "checklist"
  PROVE  \A n \in Nat : /\ IsFiniteSet(Since(n)) /\ Cardinality(Since(n)) \in Nat
                        /\ Cardinality(Since(n)) <= Worst * (n + 1)
  <1> DEFINE T == {n \in Nat : Cardinality(Since(n)) <= Worst * (n + 1)}
  <1>1. /\ today \in Nat /\ Worst \in Nat
        /\ \A i \in 1 .. Len(trades) :
             /\ trades[i].closed \in Nat \cup {-1} /\ trades[i].closed <= today
        /\ \A day \in 0 .. today : Cardinality(LossesOf(day)) <= Worst
    <2>1. today \in Nat /\ Worst \in Nat
      BY ConstantsAre DEF IInv, TypeOK
    <2>2. \A i \in 1 .. Len(trades) :
            trades[i].closed \in Nat \cup {-1} /\ trades[i].closed <= today
      BY CountsAre DEF IInv, AllTold, Told, Trade
    <2>3. \A day \in 0 .. today : Cardinality(LossesOf(day)) <= Worst
      BY DEF IInv, Pending
    <2> QED BY <2>1, <2>2, <2>3
  <1>2. \A n : IsFiniteSet(Since(n)) /\ Cardinality(Since(n)) \in Nat
    <2>1. IsFiniteSet(1 .. Len(trades))
      BY CountsAre, FS_Interval DEF IInv
    <2>2. \A n : Since(n) \in SUBSET (1 .. Len(trades))
      BY DEF Since
    <2> QED BY <2>1, <2>2, FS_Subset, FS_CardinalityType
  <1>3. 0 \in T
    <2>1. Since(0) = LossesOf(today)
      BY <1>1 DEF Since, LossesOf
    <2>2. Cardinality(LossesOf(today)) <= Worst /\ Worst * (0 + 1) = Worst
      BY <1>1, OneMore
    <2> QED BY <2>1, <2>2
  <1>4. ASSUME NEW n \in T
        PROVE  n + 1 \in T
    <2>1. /\ Worst * (n + 1) + Worst = Worst * ((n + 1) + 1) /\ Worst * (n + 1) \in Nat
          /\ Cardinality(Since(n)) <= Worst * (n + 1)
      BY <1>1, OneMore
    <2>2. CASE today - (n + 1) \in 0 .. today
      <3> DEFINE day == today - (n + 1)
      <3>1. Since(n + 1) \subseteq Since(n) \cup LossesOf(day)
        <4> SUFFICES ASSUME NEW i \in Since(n + 1), i \notin Since(n)
                     PROVE  i \in LossesOf(day)
          OBVIOUS
        <4>1. /\ i \in 1 .. Len(trades) /\ trades[i].result = "loss" /\ trades[i].closed # -1
              /\ day <= trades[i].closed /\ ~ (today - n <= trades[i].closed)
          BY DEF Since
        <4>2. trades[i].closed \in Nat
          BY <1>1, <4>1
        <4>3. trades[i].closed = day
          BY <1>1, <4>1, <4>2
        <4> QED BY <4>1, <4>3 DEF LossesOf
      <3>2. IsFiniteSet(LossesOf(day)) /\ Cardinality(LossesOf(day)) \in Nat
        BY CountsAre DEF IInv
      <3>3. Cardinality(LossesOf(day)) <= Worst
        BY <1>1, <2>2
      <3> HIDE DEF day
      <3>4. /\ IsFiniteSet(Since(n) \cup LossesOf(day))
            /\ Cardinality(Since(n) \cup LossesOf(day))
                 <= Cardinality(Since(n)) + Cardinality(LossesOf(day))
        <4>1. Cardinality(Since(n) \cap LossesOf(day)) \in Nat
          BY <1>2, FS_Intersection, FS_CardinalityType
        <4>2. /\ IsFiniteSet(Since(n) \cup LossesOf(day))
              /\ Cardinality(Since(n) \cup LossesOf(day)) =
                   Cardinality(Since(n)) + Cardinality(LossesOf(day))
                     - Cardinality(Since(n) \cap LossesOf(day))
          BY <1>2, <3>2, FS_Union
        <4> QED BY <1>2, <3>2, <4>1, <4>2
      <3>5. Cardinality(Since(n + 1)) <= Cardinality(Since(n) \cup LossesOf(day))
        BY <3>1, <3>4, FS_Subset
      <3>6. Cardinality(Since(n) \cup LossesOf(day)) \in Nat
        BY <3>4, FS_CardinalityType
      <3>7. Cardinality(Since(n + 1)) <= Worst * ((n + 1) + 1)
        <4> HIDE DEF T
        <4> QED BY <1>1, <1>2, <2>1, <3>2, <3>3, <3>4, <3>5, <3>6
      <3> QED BY <3>7
    <2>3. CASE today - (n + 1) \notin 0 .. today
      <3>1. Since(n + 1) = Since(n)
        BY <1>1, <2>3 DEF Since
      <3>2. Cardinality(Since(n + 1)) <= Worst * ((n + 1) + 1)
        BY <1>1, <1>2, <2>1, <3>1
      <3> QED BY <3>2
    <2> QED BY <2>2, <2>3
  <1>5. T \in SUBSET Nat
    OBVIOUS
  <1> HIDE DEF T
  <1>6. \A n \in Nat : n \in T
    BY <1>3, <1>4, <1>5, AllNumbers
  <1> QED BY <1>2, <1>6 DEF T

\* Every loss costs at most one R, and nothing else costs any.
Cheap(rs, losses) ==
  /\ Len(rs) \in Nat /\ losses \in SUBSET (1 .. Len(rs))
  /\ \A i \in 1 .. Len(rs) : rs[i] \in Int /\ rs[i] >= -100 /\ (i \notin losses => rs[i] >= 0)

LEMMA FallsBounded ==
  ASSUME NEW rs, NEW losses, Cheap(rs, losses)
  PROVE  /\ Cardinality(losses) \in Nat
         /\ MaxDrawdown(rs) \in Nat /\ MaxDrawdown(rs) <= 100 * Cardinality(losses)
  <1>1. /\ Len(rs) \in Nat /\ losses \in SUBSET (1 .. Len(rs))
        /\ \A i \in 1 .. Len(rs) :
             rs[i] \in Int /\ rs[i] >= -100 /\ (i \notin losses => rs[i] >= 0)
    BY DEF Cheap
  <1>2. IsFiniteSet(losses) /\ Cardinality(losses) \in Nat
    <2>1. IsFiniteSet(1 .. Len(rs))
      BY <1>1, FS_Interval
    <2>2. IsFiniteSet(losses)
      BY <1>1, <2>1, FS_Subset
    <2> QED BY <2>2, FS_CardinalityType
  <1>3. /\ MaxDrawdown(rs) \in Nat
        /\ MaxDrawdown(rs) = 0 \/ \E i, j \in 1 .. Len(rs) : MaxDrawdown(rs) = - Total(rs, i .. j)
    <2>1. Len(rs) \in Nat /\ \A i \in 1 .. Len(rs) : rs[i] \in Int
      BY <1>1
    <2>2. /\ MaxDrawdown(rs) \in Nat
          /\ MaxDrawdown(rs) = 0 \/ \E i, j \in 1 .. Len(rs) :
               i <= j /\ MaxDrawdown(rs) = - Total(rs, i .. j)
      BY <2>1, DrawdownIsMax
    <2> QED BY <2>2
  <1>4. ASSUME NEW i \in 1 .. Len(rs), NEW j \in 1 .. Len(rs)
        PROVE  Total(rs, i .. j) \in Int /\ Total(rs, i .. j) >= -100 * Cardinality(losses)
    <2> DEFINE all == i .. j
               lost == losses \cap all
               kept == all \ lost
    <2>1. /\ IsFiniteSet(all) /\ lost \in SUBSET all /\ lost \in SUBSET losses
          /\ \A k \in all : k \in 1 .. Len(rs)
      <3>1. IsFiniteSet(all)
        BY <1>1, FS_Interval
      <3>2. \A k \in all : k \in 1 .. Len(rs)
        BY <1>1
      <3> QED BY <3>1, <3>2
    <2> HIDE DEF all
    <2>2. /\ IsFiniteSet(lost) /\ Cardinality(lost) \in Nat
          /\ Cardinality(lost) <= Cardinality(losses)
          /\ IsFiniteSet(kept) /\ Cardinality(kept) \in Nat
      BY <1>2, <2>1, FS_Subset, FS_CardinalityType
    <2>3. /\ \A k \in all : rs[k] \in Int
          /\ \A k \in lost : rs[k] \in Int /\ rs[k] >= -100
          /\ \A k \in kept : rs[k] \in Int /\ rs[k] >= 0
      BY <1>1, <2>1
    <2>4. kept = all \ lost
      OBVIOUS
    <2> HIDE DEF lost, kept
    <2>5. Total(rs, all) = Total(rs, lost) + Total(rs, all \ lost)
      BY <2>1, <2>3, TotalSplit
    <2>6. Total(rs, lost) \in Int /\ Total(rs, lost) >= (-100) * Cardinality(lost)
      BY <2>2, <2>3, TotalBounded, TotalRemove
    <2>7. Total(rs, kept) \in Int /\ Total(rs, kept) >= 0 * Cardinality(kept)
      BY <2>2, <2>3, TotalBounded, TotalRemove
    <2>8. Total(rs, all) \in Int /\ Total(rs, all) >= -100 * Cardinality(losses)
      BY <1>2, <2>2, <2>4, <2>5, <2>6, <2>7
    <2> QED BY <2>8 DEF all
  <1>5. CASE MaxDrawdown(rs) = 0
    BY <1>2, <1>5
  <1>6. CASE \E i, j \in 1 .. Len(rs) : MaxDrawdown(rs) = - Total(rs, i .. j)
    <2>1. PICK i \in 1 .. Len(rs), j \in 1 .. Len(rs) : MaxDrawdown(rs) = - Total(rs, i .. j)
      BY <1>6
    <2> QED BY <1>2, <1>3, <1>4, <2>1
  <1> QED BY <1>2, <1>3, <1>5, <1>6

-----------------------------------------------------------------------------
(* A new report.                                                           *)

\* Of who follows the checklist, the rows lose as the rules allow.
LEMMA RowsAreCheap ==
  ASSUME IInv, guide = "checklist", NEW ids \in SUBSET (1 .. Len(trades)),
         NEW rows \in Reads(ids)
  PROVE  Cheap(RSeries(rows), Of(rows, "loss"))
  <1>1. Listed(trades, ids) /\ rows \in Orders(trades, ids)
    BY JournalIs DEF IInv
  <1>2. /\ IsFiniteSet(ids) /\ Len(rows) \in Nat /\ Len(RSeries(rows)) = Len(rows)
        /\ \A i \in 1 .. Len(rows) : RSeries(rows)[i] \in Int
    BY <1>1, FiguresAre
  <1>3. PICK f : \A k \in 1 .. Len(rows) : f[k] \in ids /\ rows[k] = trades[f[k]]
    BY <1>1, <1>2, RowsAre
  <1>4. \A i \in ids : trades[i].r >= -100 /\ (trades[i].result # "loss" => trades[i].r >= 0)
    BY DEF IInv, Stopped
  <1>5. \A k \in 1 .. Len(rows) : RSeries(rows)[k] = rows[k].r
    BY <1>2, SeriesAre
  <1>6. \A k \in 1 .. Len(rows) :
          /\ RSeries(rows)[k] >= -100
          /\ k \notin Of(rows, "loss") => RSeries(rows)[k] >= 0
    <2> SUFFICES ASSUME NEW k \in 1 .. Len(rows)
                 PROVE  /\ RSeries(rows)[k] >= -100
                        /\ k \notin Of(rows, "loss") => RSeries(rows)[k] >= 0
      OBVIOUS
    <2>1. /\ RSeries(rows)[k] = trades[f[k]].r /\ f[k] \in ids
          /\ rows[k].result = trades[f[k]].result
      BY <1>3, <1>5
    <2>2. k \notin Of(rows, "loss") => trades[f[k]].result # "loss"
      BY <2>1 DEF Of
    <2> QED BY <1>4, <2>1, <2>2
  <1>7. Of(rows, "loss") \in SUBSET (1 .. Len(rows))
    BY DEF Of
  <1> QED BY <1>2, <1>6, <1>7 DEF Cheap

LEMMA NewReportFits ==
  ASSUME IInv, guide = "checklist", NEW window \in Windows, NEW asset,
         NEW ids \in SUBSET Ids(window, asset), NEW rows \in Reads(ids)
  PROVE  MaxDrawdown(RSeries(rows)) <= 100 * (MaxDailyLosses - 1 + MaxOpen) * (window + 1)
  <1> DEFINE lost == Cardinality(Of(rows, "loss"))
             d == MaxDrawdown(RSeries(rows))
  <1>1. window \in Nat /\ window # ALL
    BY PerformanceAssumption
  <1>2. ids \in SUBSET (1 .. Len(trades)) /\ Listed(trades, ids) /\ rows \in Orders(trades, ids)
    BY JournalIs DEF IInv
  <1>3. lost \in Nat /\ d \in Nat /\ d <= 100 * lost
    BY <1>2, RowsAreCheap, FallsBounded
  <1>4. With(trades, ids, "loss") \in SUBSET Since(window)
    BY <1>1 DEF With, Since, Ids, Selected
  <1>5. lost = Cardinality(With(trades, ids, "loss"))
    BY <1>2, FiguresAre
  <1>6. /\ IsFiniteSet(Since(window)) /\ Cardinality(Since(window)) \in Nat
        /\ Cardinality(Since(window)) <= Worst * (window + 1)
    BY <1>1, SinceBounded
  <1>7. Cardinality(With(trades, ids, "loss")) <= Cardinality(Since(window))
    BY <1>4, <1>6, FS_Subset
  <1> HIDE DEF lost, d
  <1>8. Worst \in Nat /\ Worst * (window + 1) \in Nat
    BY <1>1, ConstantsAre, OneMore
  <1>9. lost <= Worst * (window + 1)
    BY <1>3, <1>5, <1>6, <1>7, <1>8
  <1>10. d <= 100 * (Worst * (window + 1))
    BY <1>3, <1>8, <1>9
  <1>11. 100 * (Worst * (window + 1)) = 100 * Worst * (window + 1)
    BY <1>1, <1>8
  <1> QED BY <1>10, <1>11 DEF d, Worst

LEMMA NewReport ==
  ASSUME IInv, NEW window \in Windows \cup {ALL}, NEW asset \in Assets \cup {ALL},
         NEW ids \in SUBSET Ids(window, asset), NEW rows \in Reads(ids),
         NEW new, new = [window |-> window, asset |-> asset, on |-> today,
                         numbers |-> Compute(rows)]
  PROVE  /\ new \in [window : Windows \cup {ALL}, asset : Assets \cup {ALL},
                     on : 0 .. MaxDays, numbers : Numbers]
         /\ \E some \in SUBSET Past(new) :
              new.numbers = Figures(trades, some, new.numbers.drawdown)
         /\ guide = "checklist" /\ new.window # ALL =>
              new.numbers.drawdown
                <= 100 * (MaxDailyLosses - 1 + MaxOpen) * (new.window + 1)
  <1> DEFINE d == MaxDrawdown(RSeries(rows))
  <1>1. Listed(trades, ids) /\ rows \in Orders(trades, ids)
    BY JournalIs DEF IInv
  <1>2. ids \in SUBSET Past(new)
    BY DEF Ids, Selected, Past
  <1>3. guide = "checklist" /\ window # ALL =>
          d <= 100 * (MaxDailyLosses - 1 + MaxOpen) * (window + 1)
    BY NewReportFits
  <1>4. /\ Compute(rows) = Figures(trades, ids, d)
        /\ Len(RSeries(rows)) \in Nat
        /\ \A i \in 1 .. Len(RSeries(rows)) : RSeries(rows)[i] \in Int
    BY <1>1, FiguresAre
  <1>5. d \in Nat
    BY <1>4, DrawdownIsMax
  <1> HIDE DEF d
  <1>6. Figures(trades, ids, d) \in Numbers /\ Figures(trades, ids, d).drawdown = d
    BY <1>1, <1>5, FiguresTyped DEF Figures
  <1>7. today \in 0 .. MaxDays
    BY DEF IInv, TypeOK
  <1>8. new.numbers = Figures(trades, ids, d) /\ new.numbers.drawdown = d /\ new.window = window
    BY <1>4, <1>6
  <1>9. new \in [window : Windows \cup {ALL}, asset : Assets \cup {ALL},
                 on : 0 .. MaxDays, numbers : Numbers]
    BY <1>4, <1>6, <1>7
  <1>10. \E some \in SUBSET Past(new) :
           new.numbers = Figures(trades, some, new.numbers.drawdown)
    BY <1>2, <1>8
  <1> QED BY <1>3, <1>8, <1>9, <1>10

-----------------------------------------------------------------------------
(* The invariant of the reports.                                           *)

LEMMA ReportInitInv ==
  ASSUME ReportInit
  PROVE  ReportsInv
  <1>1. IInv /\ reports = {}
    BY InitIInv DEF ReportInit
  <1> QED BY <1>1 DEF ReportsInv, ReportsTyped, Remembered, ReportsFitTheRules, IInv

\* The closed trades of the journal stay as they are.
LEMMA ClosedStay ==
  ASSUME IInv, [Next]_vars
  PROVE  /\ guide' = guide
         /\ \A i \in 1 .. Len(trades) : trades[i].closed # -1 =>
              i \in 1 .. Len(trades') /\ trades'[i] = trades[i]
  <1> DEFINE Stay == /\ guide' = guide
                     /\ \A i \in 1 .. Len(trades) : trades[i].closed # -1 =>
                          i \in 1 .. Len(trades') /\ trades'[i] = trades[i]
  <1>1. ASSUME NEW plan \in Plans, NEW emotion \in Emotions, NEW minute \in Minutes,
               Record(plan, emotion, minute)
        PROVE  Stay
    <2> DEFINE t == [plan |-> plan, opened |-> today, closed |-> -1,
                     exit |-> 0, result |-> "none", r |-> 0]
    <2>1. trades' = Append(trades, t) /\ guide' = guide
      BY <1>1 DEF Record
    <2>2. t \in Trade
      BY DEF Trade, IInv, TypeOK
    <2> HIDE DEF t
    <2>3. /\ Len(trades') = Len(trades) + 1 /\ Len(trades) \in Nat
          /\ \A i \in 1 .. Len(trades) : trades'[i] = trades[i]
      BY <2>1, <2>2, CountsAre, AppendProperties DEF IInv, TypeOK
    <2> QED BY <2>1, <2>3
  <1>2. ASSUME NEW i \in 1 .. Len(trades), NEW exit \in Exits,
               NEW result \in {"win", "loss", "breakeven"}, Close(i, exit, result)
        PROVE  Stay
    <2>1. /\ i \in Open /\ guide' = guide /\ Len(trades') = Len(trades)
          /\ \A j \in 1 .. Len(trades) : j # i => trades'[j] = trades[j]
      <3>1. PICK t : trades' = [trades EXCEPT ![i] = t]
        BY <1>2 DEF Close
      <3>2. DOMAIN trades' = DOMAIN trades /\ DOMAIN trades = 1 .. Len(trades)
        BY <3>1, LenProperties DEF IInv, TypeOK
      <3>3. i \in Open /\ guide' = guide
        BY <1>2 DEF Close
      <3>4. Len(trades') = Len(trades)
        <4>1. trades' \in Seq(Trade) /\ trades \in Seq(Trade)
          BY <1>2, CloseIInv DEF IInv, TypeOK
        <4> QED BY <3>2, <4>1, LenProperties
      <3> QED BY <3>1, <3>2, <3>3, <3>4
    <2> QED BY <2>1 DEF Open
  <1>3. CASE PageMoves \/ Midnight \/ UNCHANGED vars
    BY <1>3, PageIs DEF IInv, Midnight, vars
  <1> QED BY <1>1, <1>2, <1>3 DEF Next, PageMoves

\* A report keeps its trades whatever the trader does.
LEMMA StillRemembered ==
  ASSUME ReportsInv, [Next]_vars, IInv', UNCHANGED reports
  PROVE  Remembered'
  <1> SUFFICES ASSUME NEW saved \in reports
               PROVE  \E ids \in SUBSET Past(saved)' :
                        saved.numbers = Figures(trades', ids, saved.numbers.drawdown)
    BY DEF Remembered
  <1>1. PICK ids \in SUBSET Past(saved) :
               saved.numbers = Figures(trades, ids, saved.numbers.drawdown)
    BY DEF ReportsInv, Remembered
  <1>2. \A i \in 1 .. Len(trades) : trades[i].closed # -1 =>
          i \in 1 .. Len(trades') /\ trades'[i] = trades[i]
    BY ClosedStay DEF ReportsInv
  <1>3. /\ \A i \in ids : i \in 1 .. Len(trades) /\ trades[i].closed # -1
        /\ \A i \in ids : i \in 1 .. Len(trades') /\ trades'[i] = trades[i]
    BY <1>1, <1>2 DEF Past
  <1>4. ids \in SUBSET Past(saved)'
    BY <1>1, <1>3 DEF Past
  <1>5. Listed(trades, ids) /\ Listed(trades', ids)
    <2>1. Listed(trades, ids)
      BY <1>3, JournalIs DEF ReportsInv, IInv
    <2>2. Len(trades') \in Nat /\ \A i \in 1 .. Len(trades') : trades'[i] \in Trade
      BY LenProperties, ElementOfSeq DEF IInv, TypeOK
    <2> QED BY <1>3, <2>1, <2>2 DEF Listed, Trade
  <1>6. Figures(trades', ids, saved.numbers.drawdown) =
          Figures(trades, ids, saved.numbers.drawdown)
    BY <1>3, <1>5, FiguresKept
  <1> QED BY <1>1, <1>4, <1>6

LEMMA GetPerformanceInv ==
  ASSUME ReportsInv, NEW window \in Windows \cup {ALL}, NEW asset \in Assets \cup {ALL},
         GetPerformance(window, asset)
  PROVE  ReportsInv'
  <1>1. UNCHANGED vars
    BY DEF GetPerformance
  <1>2. guide' = guide /\ trades' = trades /\ today' = today
    BY <1>1 DEF vars
  <1>3. IInv'
    BY <1>1, StutterIInv DEF ReportsInv
  <1>4. PICK ids \in SUBSET Ids(window, asset) :
          \E rows \in Reads(ids) :
            reports' = reports \cup {[window |-> window, asset |-> asset, on |-> today,
                                      numbers |-> Compute(rows)]}
    <2>1. PICK early \in SUBSET Early(window, asset) :
            \E rows \in Reads(Ids(window, asset) \ early) :
              reports' = reports \cup {[window |-> window, asset |-> asset, on |-> today,
                                        numbers |-> Compute(rows)]}
      BY DEF GetPerformance
    <2>2. Ids(window, asset) \ early \in SUBSET Ids(window, asset)
      OBVIOUS
    <2> QED BY <2>1, <2>2
  <1>5. PICK rows \in Reads(ids) :
          reports' = reports \cup {[window |-> window, asset |-> asset, on |-> today,
                                    numbers |-> Compute(rows)]}
    BY <1>4
  <1> DEFINE new == [window |-> window, asset |-> asset, on |-> today,
                     numbers |-> Compute(rows)]
  <1>6. /\ new \in [window : Windows \cup {ALL}, asset : Assets \cup {ALL},
                    on : 0 .. MaxDays, numbers : Numbers]
        /\ \E some \in SUBSET Past(new) :
             new.numbers = Figures(trades, some, new.numbers.drawdown)
        /\ guide = "checklist" /\ new.window # ALL =>
             new.numbers.drawdown
               <= 100 * (MaxDailyLosses - 1 + MaxOpen) * (new.window + 1)
    BY NewReport DEF ReportsInv
  <1>7. reports' = reports \cup {new}
    BY <1>5
  <1> HIDE DEF new
  <1>8. ReportsTyped'
    BY <1>3, <1>6, <1>7 DEF ReportsInv, ReportsTyped, IInv
  <1>9. Remembered'
    <2>1. \A saved : Past(saved)' = Past(saved)
      BY <1>2 DEF Past
    <2>2. \A saved \in reports' :
            \E some \in SUBSET Past(saved) :
              saved.numbers = Figures(trades, some, saved.numbers.drawdown)
      BY <1>6, <1>7 DEF ReportsInv, Remembered
    <2> QED BY <1>2, <2>1, <2>2 DEF Remembered
  <1>10. ReportsFitTheRules'
    BY <1>2, <1>6, <1>7 DEF ReportsInv, ReportsFitTheRules
  <1> QED BY <1>3, <1>8, <1>9, <1>10 DEF ReportsInv

LEMMA StepReportsInv ==
  ASSUME ReportsInv, [ReportNext]_reportVars
  PROVE  ReportsInv'
  <1>1. CASE [Next]_vars /\ UNCHANGED reports
    <2>1. IInv'
      BY <1>1, StepIInv DEF ReportsInv
    <2>2. guide' = guide
      BY <1>1, ClosedStay DEF ReportsInv
    <2>3. ReportsTyped'
      BY <1>1, <2>1 DEF ReportsInv, ReportsTyped, IInv
    <2>4. Remembered'
      BY <1>1, <2>1, StillRemembered
    <2>5. ReportsFitTheRules'
      BY <1>1, <2>2 DEF ReportsInv, ReportsFitTheRules
    <2> QED BY <2>1, <2>3, <2>4, <2>5 DEF ReportsInv
  <1>2. CASE \E window \in Windows \cup {ALL}, asset \in Assets \cup {ALL} :
               GetPerformance(window, asset)
    BY <1>2, GetPerformanceInv
  <1> QED BY <1>1, <1>2 DEF ReportNext, reportVars

-----------------------------------------------------------------------------
(* One win more.                                                           *)

\* The other list has one trade more that counts: a win no smaller than the average.
OneWinMore(list, ids, other, more, i) ==
  /\ Listed(list, ids) /\ Listed(other, more)
  /\ i \notin ids /\ more = ids \cup {i}
  /\ \A j \in ids : other[j] = list[j]
  /\ other[i].result = "win" /\ other[i].r >= 0
  /\ WinOf(list, ids) >= 0
  /\ other[i].r * Cardinality(With(list, ids, "win"))
       >= Total(RSeries(list), With(list, ids, "win"))

\* The counts and sums of both lists.
LEMMA OneWinMoreIs ==
  ASSUME NEW list, NEW ids, NEW other, NEW more, NEW i, OneWinMore(list, ids, other, more, i)
  PROVE  /\ Cardinality(more) = Cardinality(ids) + 1
         /\ Cardinality(With(other, more, "win")) = Cardinality(With(list, ids, "win")) + 1
         /\ other[i].r \in Int
         /\ Total(RSeries(list), With(list, ids, "win")) \in Int
         /\ Total(RSeries(other), With(other, more, "win")) =
              Total(RSeries(list), With(list, ids, "win")) + other[i].r
         /\ LossOf(other, more) = LossOf(list, ids)
  <1> DEFINE W == With(list, ids, "win")
             L == With(list, ids, "loss")
             V == With(other, more, "win")
  <1>1. /\ Listed(list, ids) /\ Listed(other, more) /\ i \notin ids
        /\ more = ids \cup {i} /\ \A j \in ids : other[j] = list[j]
        /\ other[i].result = "win"
    BY DEF OneWinMore
  <1>2. /\ IsFiniteSet(ids)
        /\ \A j \in ids : RSeries(list)[j] \in Int /\ RSeries(list)[j] = list[j].r
        /\ \A j \in ids : Sizes(list)[j] \in Int /\ Sizes(list)[j] = Abs(list[j].r)
    BY <1>1, PartsAre, TermsAre
  <1>3. /\ \A j \in more : RSeries(other)[j] \in Int /\ RSeries(other)[j] = other[j].r
        /\ \A j \in more : Sizes(other)[j] \in Int /\ Sizes(other)[j] = Abs(other[j].r)
    BY <1>1, TermsAre
  <1>4. Cardinality(more) = Cardinality(ids) + 1
    BY <1>1, <1>2, FS_AddElement
  <1>5. /\ V = W \cup {i} /\ With(other, more, "loss") = L
        /\ W \in SUBSET ids /\ L \in SUBSET ids
    BY <1>1 DEF With
  <1> HIDE DEF W, L, V
  <1>6. /\ IsFiniteSet(W) /\ IsFiniteSet(L) /\ i \notin W /\ IsFiniteSet(V)
        /\ Cardinality(V) = Cardinality(W) + 1
    BY <1>1, <1>2, <1>5, FS_Subset, FS_AddElement
  <1>7. other[i].r \in Int /\ RSeries(other)[i] = other[i].r
    BY <1>1, <1>3
  <1>8. Total(RSeries(list), W) \in Int /\ Total(RSeries(other), W) = Total(RSeries(list), W)
    <2>1. \A j \in W : /\ RSeries(list)[j] \in Int
                       /\ RSeries(other)[j] = RSeries(list)[j]
      BY <1>1, <1>2, <1>3, <1>5
    <2> QED BY <1>6, <2>1, TotalEqual, TotalRemove
  <1>9. Total(RSeries(other), V) = Total(RSeries(list), W) + other[i].r
    <2>1. (\A j \in V : RSeries(other)[j] \in Int) /\ i \in V /\ V \ {i} = W
      BY <1>1, <1>3, <1>5, <1>6
    <2>2. Total(RSeries(other), V) = RSeries(other)[i] + Total(RSeries(other), V \ {i})
      BY <1>6, <2>1, TotalRemove
    <2>3. Total(RSeries(other), V) = RSeries(other)[i] + Total(RSeries(other), W)
      BY <2>1, <2>2
    <2> QED BY <1>7, <1>8, <2>3
  <1>10. Total(Sizes(other), L) = Total(Sizes(list), L)
    <2>1. \A j \in L : Sizes(list)[j] \in Int /\ Sizes(other)[j] = Sizes(list)[j]
      BY <1>1, <1>2, <1>3, <1>5
    <2> QED BY <1>6, <2>1, TotalEqual
  <1>11. LossOf(other, more) = LossOf(list, ids)
    BY <1>5, <1>10 DEF LossOf, Average, L
  <1> QED BY <1>4, <1>6, <1>7, <1>8, <1>9, <1>11 DEF W, V

LEMMA ShareRises ==
  ASSUME NEW n \in Nat \ {0}, NEW w \in Nat, w <= n
  PROVE  Round(1000 * w, n) <= Round(1000 * (w + 1), n + 1)
  <1> DEFINE a == 1000 * w
             c == 1000 * (w + 1)
  <1>1. a \in Int /\ c \in Int /\ n + 1 \in Nat \ {0} /\ c = a + 1000
    OBVIOUS
  <1>2. w * n \in Int /\ a * (n + 1) = 1000 * (w * n) + 1000 * w
    OBVIOUS
  <1>3. c * n = 1000 * (w * n) + 1000 * n
    OBVIOUS
  <1>4. a * (n + 1) <= c * n
    BY <1>2, <1>3
  <1> HIDE DEF a, c
  <1> QED BY <1>1, <1>4, RoundMonotone DEF a, c

LEMMA MeanRises ==
  ASSUME NEW A \in Int, NEW w \in Nat \ {0}, NEW r \in Int, r * w >= A
  PROVE  Round(10 * A, w) <= Round(10 * (A + r), w + 1)
  <1> DEFINE a == 10 * A
             c == 10 * (A + r)
  <1>1. a \in Int /\ c \in Int /\ w + 1 \in Nat \ {0}
    OBVIOUS
  <1>2. A * w \in Int /\ r * w \in Int /\ a * (w + 1) = 10 * (A * w) + 10 * A
    OBVIOUS
  <1>3. c * w = 10 * (A * w) + 10 * (r * w)
    OBVIOUS
  <1>4. a * (w + 1) <= c * w
    BY <1>2, <1>3
  <1> HIDE DEF a, c
  <1> QED BY <1>1, <1>4, RoundMonotone DEF a, c

LEMMA ValueRises ==
  ASSUME NEW p \in Int, NEW q \in Int, 0 <= p, p <= q, q <= 1000,
         NEW u \in Int, NEW v \in Int, 0 <= u, u <= v, NEW loss \in Int, 0 <= loss
  PROVE  ValueOf(p, u, loss) <= ValueOf(q, v, loss)
  <1> DEFINE a1 == p * u
             a2 == (1000 - p) * loss
             c1 == q * v
             c2 == (1000 - q) * loss
             a == a1 - a2
             c == c1 - c2
  <1>1. u * p \in Int /\ u * q \in Int /\ u * p <= u * q
    BY ProductOrder
  <1>2. q * u \in Int /\ q * v \in Int /\ q * u <= q * v
    BY ProductOrder
  <1>3. /\ loss * (1000 - q) \in Int /\ loss * (1000 - p) \in Int
        /\ loss * (1000 - q) <= loss * (1000 - p)
    <2>1. 1000 - q \in Int /\ 1000 - p \in Int /\ 1000 - q <= 1000 - p
      OBVIOUS
    <2> QED BY <2>1, ProductOrder
  <1>4. a1 \in Int /\ c1 \in Int /\ a1 <= c1
    <2> DEFINE b == q * u
    <2>1. u * p = a1 /\ u * q = b
      OBVIOUS
    <2>2. a1 \in Int /\ a1 <= b
      BY <1>1, <2>1
    <2>3. b \in Int /\ c1 \in Int /\ b <= c1
      BY <1>2
    <2> HIDE DEF a1, b, c1
    <2> QED BY <2>2, <2>3
  <1>5. a2 \in Int /\ c2 \in Int /\ c2 <= a2
    <2>1. loss * (1000 - q) = c2 /\ loss * (1000 - p) = a2
      OBVIOUS
    <2> QED BY <1>3, <2>1
  <1> HIDE DEF a1, a2, c1, c2
  <1>6. a \in Int /\ c \in Int /\ a * 1000 <= c * 1000
    BY <1>4, <1>5
  <1> HIDE DEF a, c
  <1>7. Round(a, 1000) <= Round(c, 1000)
    BY <1>6, RoundMonotone
  <1> QED BY <1>7 DEF ValueOf, a, c, a1, a2, c1, c2

LEMMA FiguresRise ==
  ASSUME NEW list, NEW ids, NEW other, NEW more, NEW i, OneWinMore(list, ids, other, more, i)
  PROVE  /\ PctOf(list, ids) <= PctOf(other, more)
         /\ EvOf(list, ids) <= EvOf(other, more)
  <1> DEFINE W == With(list, ids, "win")
             n == Cardinality(ids)
             w == Cardinality(W)
             A == Total(RSeries(list), W)
             r == other[i].r
  <1>1. /\ Listed(list, ids) /\ Listed(other, more)
        /\ r >= 0 /\ WinOf(list, ids) >= 0 /\ r * w >= A
    BY DEF OneWinMore
  <1>2. /\ Cardinality(more) = n + 1 /\ more # {}
        /\ Cardinality(With(other, more, "win")) = w + 1
        /\ With(other, more, "win") # {}
        /\ r \in Int /\ A \in Int /\ Total(RSeries(other), With(other, more, "win")) = A + r
        /\ LossOf(other, more) = LossOf(list, ids)
    <2>1. i \in more /\ i \in With(other, more, "win")
      BY DEF OneWinMore, With
    <2> QED BY <2>1, OneWinMoreIs
  <1>3. /\ PctOf(list, ids) \in 0 .. 1000 /\ PctOf(other, more) \in 0 .. 1000
        /\ WinOf(list, ids) \in Int /\ WinOf(other, more) \in Int
        /\ LossOf(list, ids) \in Nat
    <2>1. 0 \in Nat
      OBVIOUS
    <2> QED BY <1>1, <2>1, FiguresTyped
  <1>4. n \in Nat /\ w \in Nat /\ w <= n /\ (n = 0 <=> ids = {}) /\ (w = 0 <=> W = {})
    <2>1. IsFiniteSet(ids) /\ n \in Nat /\ (n = 0 <=> ids = {})
      BY <1>1, PartsAre
    <2>2. IsFiniteSet(W) /\ w \in Nat /\ w <= n
      BY <2>1, WithIs
    <2>3. w = 0 <=> W = {}
      BY <2>2, FS_EmptySet
    <2> QED BY <2>1, <2>2, <2>3
  <1>5. PctOf(list, ids) <= PctOf(other, more)
    <2>1. CASE ids = {}
      BY <1>3, <2>1 DEF PctOf
    <2>2. CASE ids # {}
      <3>1. PctOf(list, ids) = Round(1000 * w, n)
        BY <2>2 DEF PctOf
      <3>2. PctOf(other, more) = Round(1000 * (w + 1), n + 1)
        BY <1>2 DEF PctOf
      <3>3. n \in Nat \ {0} /\ w \in Nat /\ w <= n
        BY <1>4, <2>2
      <3> HIDE DEF n, w
      <3>4. Round(1000 * w, n) <= Round(1000 * (w + 1), n + 1)
        BY <3>3, ShareRises
      <3> QED BY <3>1, <3>2, <3>4
    <2> QED BY <2>1, <2>2
  <1>6. WinOf(other, more) = Round(10 * (A + r), w + 1)
    BY <1>2 DEF WinOf, Average
  <1>7. WinOf(list, ids) <= WinOf(other, more)
    <2>1. CASE W = {}
      <3>1. A = 0 /\ w = 0 /\ WinOf(list, ids) = 0
        BY <1>4, <2>1, TotalNone DEF WinOf, Average
      <3>2. 10 * (A + r) \in Nat /\ w + 1 \in Nat \ {0}
        BY <1>1, <1>2, <3>1
      <3>3. Round(10 * (A + r), w + 1) \in Nat
        BY <3>2, RoundPositive
      <3> QED BY <1>6, <3>1, <3>3
    <2>2. CASE W # {}
      <3>1. WinOf(list, ids) = Round(10 * A, w)
        BY <2>2 DEF WinOf, Average
      <3> HIDE DEF A, w, r
      <3> QED BY <1>1, <1>2, <1>4, <1>6, <2>2, <3>1, MeanRises
    <2> QED BY <2>1, <2>2
  <1>8. EvOf(list, ids) <= EvOf(other, more)
    <2> DEFINE p == PctOf(list, ids)
               q == PctOf(other, more)
               u == WinOf(list, ids)
               v == WinOf(other, more)
               loss == LossOf(list, ids)
    <2>1. /\ p \in 0 .. 1000 /\ q \in 0 .. 1000 /\ p <= q
          /\ u \in Nat /\ v \in Nat /\ u <= v /\ loss \in Nat
      BY <1>1, <1>3, <1>5, <1>7
    <2>2. EvOf(list, ids) = ValueOf(p, u, loss) /\ EvOf(other, more) = ValueOf(q, v, loss)
      BY <1>2 DEF EvOf
    <2> HIDE DEF W, n, w, A, r, p, q, u, v, loss
    <2>3. ValueOf(p, u, loss) <= ValueOf(q, v, loss)
      <3>1. p \in Int /\ q \in Int /\ 0 <= p /\ p <= q /\ q <= 1000
        BY <2>1
      <3>2. u \in Int /\ v \in Int /\ 0 <= u /\ u <= v /\ loss \in Int /\ 0 <= loss
        BY <2>1
      <3> QED BY <3>1, <3>2, ValueRises
    <2> QED BY <2>2, <2>3
  <1> QED BY <1>5, <1>8

LEMMA GradeRises ==
  ASSUME NEW pct \in Int, NEW ev \in Int, NEW pct1 \in Int, NEW ev1 \in Int,
         pct <= pct1, ev <= ev1
  PROVE  Rank(Grade(pct, ev)) <= Rank(Grade(pct1, ev1)) /\ Rank("F") <= Rank(Grade(pct1, ev1))
  BY DEF Rank, Grade

-----------------------------------------------------------------------------
(* A step of the journal and the grade.                                    *)

\* What a step of the journal adds to the history is one trade.
LEMMA OneCloses ==
  ASSUME IInv, [Next]_vars, NEW i \in Ids(ALL, ALL)' \ Ids(ALL, ALL)
  PROVE  Ids(ALL, ALL)' = Ids(ALL, ALL) \cup {i}
  <1> DEFINE Closed == {k \in 1 .. Len(trades) : trades[k].closed # -1}
  <1>1. Ids(ALL, ALL) = Closed /\ Ids(ALL, ALL)' = Closed'
    BY DEF Ids, Selected
  <1>2. /\ Len(trades) \in Nat
        /\ \A k \in 1 .. Len(trades) : trades[k].closed # -1 =>
             k \in 1 .. Len(trades') /\ trades'[k] = trades[k]
    BY CountsAre, ClosedStay DEF IInv
  <1>3. Closed \subseteq Closed'
    BY <1>2
  <1>4. ASSUME NEW plan \in Plans, NEW emotion \in Emotions, NEW minute \in Minutes,
               Record(plan, emotion, minute)
        PROVE  Closed' \subseteq Closed
    <2> DEFINE t == [plan |-> plan, opened |-> today, closed |-> -1,
                     exit |-> 0, result |-> "none", r |-> 0]
    <2>1. trades' = Append(trades, t) /\ t.closed = -1
      BY <1>4 DEF Record
    <2>2. t \in Trade
      BY DEF Trade, IInv, TypeOK
    <2> HIDE DEF t
    <2>3. /\ Len(trades') = Len(trades) + 1 /\ trades'[Len(trades) + 1] = t
          /\ \A k \in 1 .. Len(trades) : trades'[k] = trades[k]
      BY <2>1, <2>2, CountsAre, AppendProperties DEF IInv, TypeOK
    <2>4. \A k \in 1 .. Len(trades') : k \in 1 .. Len(trades) \/ k = Len(trades) + 1
      BY <1>2, <2>3
    <2> QED BY <2>1, <2>3, <2>4
  <1>5. ASSUME NEW k \in 1 .. Len(trades), NEW exit \in Exits,
               NEW result \in {"win", "loss", "breakeven"}, Close(k, exit, result)
        PROVE  Closed' \subseteq Closed \cup {k}
    <2>1. PICK t : trades' = [trades EXCEPT ![k] = t]
      BY <1>5 DEF Close
    <2>2. trades' \in Seq(Trade) /\ trades \in Seq(Trade)
      BY <1>5, CloseIInv DEF IInv, TypeOK
    <2>3. DOMAIN trades' = DOMAIN trades
      BY <2>1
    <2>4. Len(trades') = Len(trades) /\ DOMAIN trades = 1 .. Len(trades)
      BY <2>2, <2>3, LenProperties
    <2>5. \A j \in 1 .. Len(trades) : j # k => trades'[j] = trades[j]
      BY <2>1, <2>4
    <2> QED BY <2>4, <2>5
  <1>6. CASE PageMoves \/ Midnight \/ UNCHANGED vars
    <2>1. trades' = trades
      BY <1>6, PageIs DEF IInv, Midnight, vars
    <2> QED BY <1>1, <2>1
  <1>7. Closed' \subseteq Closed \/ \E k : Closed' \subseteq Closed \cup {k}
    <2> HIDE DEF Closed
    <2>1. CASE PageMoves \/ Midnight \/ UNCHANGED vars
      BY <1>6, <1>1, <2>1
    <2>2. CASE \E plan \in Plans, emotion \in Emotions, minute \in Minutes :
                 Record(plan, emotion, minute)
      BY <1>4, <2>2
    <2>3. CASE \E k \in 1 .. Len(trades), exit \in Exits,
                  result \in {"win", "loss", "breakeven"} : Close(k, exit, result)
      BY <1>5, <2>3
    <2> QED BY <2>1, <2>2, <2>3 DEF Next, PageMoves
  <1> HIDE DEF Closed
  <1>8. i \in Closed' \ Closed
    BY <1>1
  <1> QED BY <1>1, <1>3, <1>7, <1>8

\* What the property says of a step.
LEMMA StepGrade ==
  ASSUME IInv, [Next]_vars, IInv',
         NEW i \in Ids(ALL, ALL)' \ Ids(ALL, ALL),
         NEW before \in Reads(Ids(ALL, ALL)), NEW after \in Reads(Ids(ALL, ALL))',
         trades'[i].result = "win", trades'[i].r >= 0, Computable(before),
         trades'[i].r * Cardinality(Of(before, "win"))
           >= Total(RSeries(before), Of(before, "win"))
  PROVE  Rank(Compute(after).grade) >= Rank(Compute(before).grade)
  <1> DEFINE ids == Ids(ALL, ALL)
             more == Ids(ALL, ALL)'
             other == trades'
             d == MaxDrawdown(RSeries(before))
             e == MaxDrawdown(RSeries(after))
  <1>1. more = ids \cup {i} /\ i \notin ids
    BY OneCloses
  <1>2. \A j \in ids : j \in 1 .. Len(trades') /\ trades'[j] = trades[j]
    BY ClosedStay DEF Ids, Selected
  <1>3. Listed(trades, ids) /\ before \in Orders(trades, ids)
    BY JournalIs DEF IInv
  <1>4. Listed(other, more) /\ after \in Orders(other, more)
    <2>1. Len(trades') \in Nat /\ \A j \in 1 .. Len(trades') : trades'[j] \in Trade
      BY LenProperties, ElementOfSeq DEF IInv, TypeOK
    <2>2. more \in SUBSET (1 .. Len(trades'))
      BY DEF Ids
    <2>3. after \in Orders(other, more)
      BY DEF Reads, Orders
    <2> QED BY <2>1, <2>2, <2>3 DEF Listed, Trade
  <1> HIDE DEF ids, more, other
  <1>5. /\ Cardinality(Of(before, "win")) = Cardinality(With(trades, ids, "win"))
        /\ Total(RSeries(before), Of(before, "win")) =
             Total(RSeries(trades), With(trades, ids, "win"))
        /\ AverageWin(before) = WinOf(trades, ids)
        /\ Compute(before) = Figures(trades, ids, d)
    BY <1>3, FiguresAre
  <1>6. Compute(after) = Figures(other, more, e)
    BY <1>4, FiguresAre
  <1>7. OneWinMore(trades, ids, other, more, i)
    BY <1>1, <1>2, <1>3, <1>4, <1>5 DEF OneWinMore, Computable, other
  <1>8. /\ PctOf(trades, ids) <= PctOf(other, more)
        /\ EvOf(trades, ids) <= EvOf(other, more)
    BY <1>7, FiguresRise
  <1>9. /\ PctOf(trades, ids) \in Int /\ PctOf(other, more) \in Int
        /\ EvOf(trades, ids) \in Int /\ EvOf(other, more) \in Int
    <2>1. 0 \in Nat
      OBVIOUS
    <2>2. /\ PctOf(trades, ids) \in 0 .. 1000 /\ PctOf(other, more) \in 0 .. 1000
          /\ EvOf(trades, ids) \in Int /\ EvOf(other, more) \in Int
      BY <1>3, <1>4, <2>1, FiguresTyped
    <2> QED BY <2>2
  <1> DEFINE g == Grade(PctOf(trades, ids), EvOf(trades, ids))
             h == Grade(PctOf(other, more), EvOf(other, more))
  <1>10. Rank(g) <= Rank(h) /\ Rank("F") <= Rank(h) /\ Rank(g) \in Int /\ Rank(h) \in Int
         /\ Rank("F") \in Int
    <2>1. Rank(g) <= Rank(h) /\ Rank("F") <= Rank(h)
      BY <1>8, <1>9, GradeRises
    <2>2. g \in {"A", "B", "C", "D", "F"} /\ h \in {"A", "B", "C", "D", "F"}
      BY DEF Grade
    <2>3. \A x \in {"A", "B", "C", "D", "F"} : Rank(x) \in Int
      BY DEF Rank
    <2> QED BY <2>1, <2>2, <2>3
  <1>11. Compute(after).grade = h
    <2>1. more # {}
      BY <1>1
    <2> QED BY <1>6, <2>1 DEF Figures
  <1>12. Compute(before).grade \in {"F", g}
    BY <1>5 DEF Figures
  <1> HIDE DEF g, h
  <1> QED BY <1>10, <1>11, <1>12

LEMMA StepNeverLowers ==
  ASSUME IInv, [ReportNext]_reportVars
  PROVE  \A i \in Ids(ALL, ALL)' \ Ids(ALL, ALL) :
           \A before \in Reads(Ids(ALL, ALL)), after \in Reads(Ids(ALL, ALL))' :
             LET wins == Of(before, "win")
             IN  /\ trades'[i].result = "win" /\ trades'[i].r >= 0
                 /\ Computable(before)
                 /\ trades'[i].r * Cardinality(wins) >= Total(RSeries(before), wins)
                 => Rank(Compute(after).grade) >= Rank(Compute(before).grade)
  <1>1. [Next]_vars
    BY ReportStep
  <1>2. IInv'
    BY <1>1, StepIInv
  <1> QED BY <1>1, <1>2, StepGrade

-----------------------------------------------------------------------------
(* The trader, the journal and the page.                                   *)

\* The invariant holds of the trader, the journal and the page, whatever is recorded,
\* closed or loaded again.
THEOREM Invariance == Spec => []IInv
  <1>1. Init => IInv
    BY InitIInv
  <1>2. IInv /\ [Next]_vars => IInv'
    BY StepIInv
  <1> QED BY <1>1, <1>2, PTL DEF Spec

\* The journal holds trades, and the trader never has more open than he may.
THEOREM TypeCorrect == Spec => []TypeOK
  <1>1. IInv => TypeOK
    BY DEF IInv
  <1> QED BY <1>1, Invariance, PTL

\* ChecklistValidator counts the losses before a trade is opened: who follows it loses
\* at most MaxDailyLosses - 1 + MaxOpen trades a day, and as many R.
THEOREM DayBounded == Spec => []DayIsBounded
  <1>1. IInv => DayIsBounded
    BY IInvBounds
  <1> QED BY <1>1, Invariance, PTL

\* updateFomoCount stops at 2 losses whatever _MAX_DAILY_LOSSES is: the filter and the
\* checklist agree as long as that is at most 2, as it is in the code.
THEOREM CounselsAgreed == MaxDailyLosses <= 2 => (Spec => []CounselsAgree)
  <1> SUFFICES ASSUME MaxDailyLosses <= 2
               PROVE  Spec => []CounselsAgree
    OBVIOUS
  <1>1. IInv => CounselsAgree
    BY IInvAgrees
  <1> QED BY <1>1, Invariance, PTL

-----------------------------------------------------------------------------
(* The reports beside them.                                                *)

\* GetPerformanceUseCase only reads the journal: with reports asked for, trader and
\* journal still do what they do without.
THEOREM ReportsOnlyRead == ReportSpec => Spec
  <1>1. ReportInit => Init
    BY DEF ReportInit
  <1>2. [ReportNext]_reportVars => [Next]_vars
    BY ReportStep
  <1> QED BY <1>1, <1>2, PTL DEF ReportSpec, Spec

\* What a saved report tells of stays in the journal, whatever is recorded or closed
\* after it.
THEOREM ReportsInvariance == ReportSpec => []ReportsInv
  <1>1. ReportInit => ReportsInv
    BY ReportInitInv
  <1>2. ReportsInv /\ [ReportNext]_reportVars => ReportsInv'
    BY StepReportsInv
  <1> QED BY <1>1, <1>2, PTL DEF ReportSpec

\* Whatever _compute is given, the row it saves has a win rate between 0 and 100, a
\* drawdown that is no gain, and a grade.
THEOREM ReportsTypeCorrect == ReportSpec => []ReportsTyped
  <1>1. ReportsInv => ReportsTyped
    BY DEF ReportsInv
  <1> QED BY <1>1, ReportsInvariance, PTL

\* The one pass of _compute_drawdown finds the largest fall, and the three roundings
\* of ExpectedValue.ev_r leave the average R of a trade where it is.
THEOREM FiguresRight == ReportSpec => []FiguresAreRight
  <1>1. ReportsInv => FiguresAreRight
    BY IInvFigures DEF ReportsInv
  <1> QED BY <1>1, ReportsInvariance, PTL

\* get_by_status has no ORDER BY: asked again, GetPerformanceUseCase gives the saved
\* numbers whatever the order, the drawdown excepted.
THEOREM ReportsRepeated == ReportSpec => []ReportsRepeat
  <1>1. ReportsInv => ReportsRepeat
    BY ReportsInvRepeat
  <1> QED BY <1>1, ReportsInvariance, PTL

\* ChecklistValidator bounds the losses of each day, and _compute_drawdown shows of
\* some days no more than these.
THEOREM RulesFitted == ReportSpec => []ReportsFitTheRules
  <1>1. ReportsInv => ReportsFitTheRules
    BY DEF ReportsInv
  <1> QED BY <1>1, ReportsInvariance, PTL

\* _grade compares figures that were rounded three times: a win that is no smaller
\* than the average win lowers none of them, and so never the grade.
THEOREM GradeNeverLowered == ReportSpec => AWinNeverLowersTheGrade
  <1>1. ReportsInv => IInv
    BY DEF ReportsInv
  <1>2. IInv /\ [ReportNext]_reportVars =>
          [\A i \in Ids(ALL, ALL)' \ Ids(ALL, ALL) :
             \A before \in Reads(Ids(ALL, ALL)), after \in Reads(Ids(ALL, ALL))' :
               LET wins == Of(before, "win")
               IN  /\ trades'[i].result = "win" /\ trades'[i].r >= 0
                   /\ Computable(before)
                   /\ trades'[i].r * Cardinality(wins) >= Total(RSeries(before), wins)
                   => Rank(Compute(after).grade) >= Rank(Compute(before).grade)]_reportVars
    BY StepNeverLowers
  <1> QED BY <1>1, <1>2, ReportsInvariance, PTL DEF ReportSpec, AWinNeverLowersTheGrade
=============================================================================
