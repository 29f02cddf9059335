--------------------------- MODULE FoldInduction ---------------------------
(***************************************************************************)
(* Induction over what FoldLeft computes.  The library's induction         *)
(* theorems take an operator as a parameter; here it is a constant, which  *)
(* an INSTANCE gives its value.                                            *)
(***************************************************************************)
EXTENDS Naturals, Sequences, SequencesExt, FiniteSetTheorems, WellFoundedInduction, TLAPS

CONSTANTS
    Step(_, _, _),      \* Step(r, a, x): what the part x makes of a
    Start(_),           \* Start(r): what the fold starts from
    Holds(_, _, _, _)   \* Holds(r, s, k, a): a is right after k parts of s

LEMMA LeastNumber ==
  ASSUME NEW S \in SUBSET Nat, S # {}
  PROVE  \E m \in S : \A k \in S : m <= k
<1> DEFINE R == {ss \in Nat \X Nat : ss[1] < ss[2]}
<1>1. IsWellFoundedOn(R, Nat)
  BY NatLessThanWellFounded DEF OpToRel
<1>2. S \subseteq Nat
  OBVIOUS
<1>3. PICK m \in S : \A k \in S : ~(<<k, m>> \in R)
  <2> HIDE DEF R
  <2> QED BY ONLY <1>1, <1>2, S # {}, WFMin, Zenon
<1>4. ASSUME NEW k \in S
      PROVE  m <= k
  <2>1. k \in Nat /\ m \in Nat
    OBVIOUS
  <2>2. <<k, m>> \in Nat \X Nat /\ <<k, m>>[1] = k /\ <<k, m>>[2] = m
    BY <2>1
  <2>3. ~(k < m)
    BY <1>3, <2>2
  <2> QED BY <2>1, <2>3
<1> QED BY <1>4

\* A set with 0 and the successors of its members has all numbers.
LEMMA AllNumbers ==
  ASSUME NEW S, 0 \in S, \A n \in Nat : n \in S => n + 1 \in S
  PROVE  \A n \in Nat : n \in S
<1> SUFFICES ASSUME NEW n \in Nat, n \notin S PROVE FALSE
  OBVIOUS
<1> DEFINE T == {m \in Nat : m \notin S}
<1>1. PICK m \in T : \A k \in T : m <= k
  <2>1. T \in SUBSET Nat /\ T # {}
    OBVIOUS
  <2> HIDE DEF T
  <2> QED BY <2>1, LeastNumber
<1>2. m # 0 /\ m \in Nat /\ m \notin S
  OBVIOUS
<1>3. m - 1 \in Nat /\ ~(m <= m - 1) /\ (m - 1) + 1 = m
  BY <1>2
<1>4. m - 1 \in S
  BY <1>1, <1>3
<1> QED BY <1>2, <1>3, <1>4

-----------------------------------------------------------------------------

Latest(t) == CHOOSE x \in t : \A y \in t : x >= y

\* g is the fold of the parts of s at the positions in any subset of 1 .. n.
Table(r, s, n, g) ==
  [t \in SUBSET (1 .. n) |->
     IF t = {} THEN Start(r) ELSE Step(r, g[t \ {Latest(t)}], s[Latest(t)])]

LEMMA LastOfAll ==
  ASSUME NEW n \in Nat, NEW t \in SUBSET (1 .. n + 1), n + 1 \in t
  PROVE  Latest(t) = n + 1 /\ t \ {n + 1} \in SUBSET (1 .. n)
<1>1. \A y \in t : n + 1 >= y
  OBVIOUS
<1>2. \A x \in t : x >= n + 1 => x = n + 1
  OBVIOUS
<1>3. \A x \in t : (\A y \in t : x >= y) <=> x = n + 1
  BY <1>1, <1>2
<1>4. (CHOOSE x \in t : \A y \in t : x >= y) = n + 1
  BY <1>3
<1>5. t \ {n + 1} \in SUBSET (1 .. n)
  OBVIOUS
<1> QED BY <1>4, <1>5 DEF Latest

LEMMA TableExists ==
  ASSUME NEW r, NEW s, NEW n \in Nat
  PROVE  \E g : g = Table(r, s, n, g)
<1> DEFINE S == {k \in Nat : \E g : g = Table(r, s, k, g)}
<1>1. 0 \in S
  <2> DEFINE g == [t \in SUBSET (1 .. 0) |-> Start(r)]
  <2>1. \A t \in SUBSET (1 .. 0) : t = {}
    OBVIOUS
  <2>2. g = Table(r, s, 0, g)
    BY <2>1 DEF Table
  <2> QED BY <2>2
<1>2. ASSUME NEW k \in Nat, k \in S
      PROVE  k + 1 \in S
  <2>1. PICK g : g = Table(r, s, k, g)
    BY <1>2
  <2> DEFINE h == [t \in SUBSET (1 .. k + 1) |->
                     IF k + 1 \in t THEN Step(r, g[t \ {k + 1}], s[k + 1])
                     ELSE g[t]]
  <2>2. ASSUME NEW t \in SUBSET (1 .. k + 1)
        PROVE  h[t] = IF t = {} THEN Start(r)
                      ELSE Step(r, h[t \ {Latest(t)}], s[Latest(t)])
    <3>1. CASE k + 1 \in t
      <4>1. Latest(t) = k + 1 /\ t \ {k + 1} \in SUBSET (1 .. k)
        BY <3>1, LastOfAll
      <4>2. t \ {k + 1} \in SUBSET (1 .. k + 1) /\ k + 1 \notin t \ {k + 1}
        OBVIOUS
      <4>3. h[t \ {k + 1}] = g[t \ {k + 1}]
        BY <4>2
      <4> QED BY <3>1, <4>1, <4>3
    <3>2. CASE k + 1 \notin t
      <4>1. t \in SUBSET (1 .. k)
        BY <3>2
      <4>2. t \ {Latest(t)} \in SUBSET (1 .. k + 1) /\ k + 1 \notin t \ {Latest(t)}
        BY <3>2
      <4>3. h[t \ {Latest(t)}] = g[t \ {Latest(t)}]
        BY <4>2
      <4>4. g[t] = IF t = {} THEN Start(r)
                   ELSE Step(r, g[t \ {Latest(t)}], s[Latest(t)])
        BY <2>1, <4>1 DEF Table
      <4>5. h[t] = g[t]
        BY <3>2
      <4> QED BY <4>3, <4>4, <4>5
    <3> QED BY <3>1, <3>2
  <2>3. h = Table(r, s, k + 1, h)
    <3>1. h = [t \in SUBSET (1 .. k + 1) |-> h[t]]
      OBVIOUS
    <3> HIDE DEF h
    <3> QED BY <2>2, <3>1 DEF Table
  <2> HIDE DEF h
  <2> QED BY <2>3
<1> HIDE DEF S
<1>3. n \in S
  BY <1>1, <1>2, AllNumbers
<1> QED BY <1>3 DEF S

Folded(r, s) == FoldLeft(LAMBDA a, x : Step(r, a, x), Start(r), s)

LEMMA FoldedIsTable ==
  ASSUME NEW r, NEW S, NEW s \in Seq(S)
  PROVE  \E g : g = Table(r, s, Len(s), g) /\ Folded(r, s) = g[1 .. Len(s)]
<1> DEFINE g == CHOOSE g : g = Table(r, s, Len(s), g)
<1>1. Len(s) \in Nat /\ DOMAIN s = 1 .. Len(s)
  OBVIOUS
<1>2. g = Table(r, s, Len(s), g)
  BY <1>1, TableExists
<1>3. Folded(r, s) = g[1 .. Len(s)]
  BY <1>1 DEF Folded, FoldLeft, MapThenFoldSet, Max, Table, Latest
<1> QED BY <1>2, <1>3

LEMMA UpTo ==
  ASSUME NEW n \in Nat, NEW k \in Nat, k + 1 <= n
  PROVE  1 .. k + 1 \in SUBSET (1 .. n) /\ 1 .. k + 1 # {} /\ k + 1 \in 1 .. n
  OBVIOUS

\* What holds of the start, and is kept by every part, holds of the fold.
LEMMA FoldHolds ==
  ASSUME NEW r, NEW S, NEW s \in Seq(S),
         Holds(r, s, 0, Start(r)),
         \A k \in 1 .. Len(s) : \A a :
           Holds(r, s, k - 1, a) => Holds(r, s, k, Step(r, a, s[k]))
  PROVE  Holds(r, s, Len(s), Folded(r, s))
<1> DEFINE n == Len(s)
<1>1. n \in Nat
  OBVIOUS
<1>2. PICK g : g = Table(r, s, n, g) /\ Folded(r, s) = g[1 .. n]
  BY FoldedIsTable
<1>a. \A k \in 1 .. n : \A a : Holds(r, s, k - 1, a) => Holds(r, s, k, Step(r, a, s[k]))
  OBVIOUS
<1> HIDE DEF n
<1> DEFINE T == {k \in Nat : k <= n => Holds(r, s, k, g[1 .. k])}
<1>3. 0 \in T
  <2>1. 1 .. 0 = {} /\ {} \in SUBSET (1 .. n)
    OBVIOUS
  <2>2. g[{}] = Start(r)
    BY <1>2, <2>1 DEF Table
  <2> QED BY <1>1, <2>1, <2>2
<1>4. ASSUME NEW k \in Nat, k \in T
      PROVE  k + 1 \in T
  <2> SUFFICES ASSUME k + 1 <= n
               PROVE  Holds(r, s, k + 1, g[1 .. k + 1])
    OBVIOUS
  <2>1. Holds(r, s, k, g[1 .. k])
    BY <1>1, <1>4
  <2>2. Latest(1 .. k + 1) = k + 1 /\ (1 .. k + 1) \ {k + 1} = 1 .. k
    <3>1. k + 1 \in 1 .. k + 1 /\ (1 .. k + 1) \ {k + 1} = 1 .. k
      OBVIOUS
    <3> QED BY <3>1, LastOfAll
  <2>3. 1 .. k + 1 \in SUBSET (1 .. n) /\ 1 .. k + 1 # {} /\ k + 1 \in 1 .. n
    BY <1>1, UpTo
  <2>4. g[1 .. k + 1] = Step(r, g[1 .. k], s[k + 1])
    BY <1>2, <2>2, <2>3 DEF Table
  <2>5. (k + 1) - 1 = k
    OBVIOUS
  <2> QED BY <1>a, <2>1, <2>3, <2>4, <2>5
<1> HIDE DEF T
<1>5. n \in T
  BY <1>1, <1>3, <1>4, AllNumbers
<1>6. Holds(r, s, n, g[1 .. n])
  BY <1>1, <1>5 DEF T
<1> QED BY <1>2, <1>6 DEF n

-----------------------------------------------------------------------------
Tabulated(g, r, s, n) == g = Table(r, s, n, g)

LEMMA LastStep ==
  ASSUME NEW r, NEW s, NEW n \in Nat, NEW g, Tabulated(g, r, s, n),
         NEW k \in Nat, k + 1 <= n
  PROVE  g[1 .. k + 1] = Step(r, g[1 .. k], s[k + 1])
<1>1. Latest(1 .. k + 1) = k + 1 /\ (1 .. k + 1) \ {k + 1} = 1 .. k
  <2>1. k + 1 \in 1 .. k + 1 /\ (1 .. k + 1) \ {k + 1} = 1 .. k
    OBVIOUS
  <2> QED BY <2>1, LastOfAll
<1>2. 1 .. k + 1 \in SUBSET (1 .. n) /\ 1 .. k + 1 # {} /\ k + 1 \in 1 .. n
  BY UpTo
<1> QED BY <1>1, <1>2 DEF Tabulated, Table

LEMMA FirstStep ==
  ASSUME NEW r, NEW s, NEW n \in Nat, NEW g, Tabulated(g, r, s, n)
  PROVE  g[1 .. 0] = Start(r)
<1>1. 1 .. 0 = {} /\ {} \in SUBSET (1 .. n)
  OBVIOUS
<1> QED BY <1>1 DEF Tabulated, Table

\* Nothing is folded to the start.
LEMMA FoldOfNothing ==
  ASSUME NEW r
  PROVE  Folded(r, <<>>) = Start(r)
<1>1. <<>> \in Seq({}) /\ Len(<<>>) = 0
  OBVIOUS
<1>2. PICK g : Tabulated(g, r, <<>>, 0) /\ Folded(r, <<>>) = g[1 .. 0]
  BY <1>1, FoldedIsTable DEF Tabulated
<1> QED BY <1>2, FirstStep

\* One more part is one more step.
LEMMA FoldAppends ==
  ASSUME NEW r, NEW S, NEW s \in Seq(S), NEW x \in S
  PROVE  Folded(r, Append(s, x)) = Step(r, Folded(r, s), x)
<1> DEFINE n == Len(s)
           t == Append(s, x)
<1>1. n \in Nat /\ t \in Seq(S) /\ Len(t) = n + 1 /\ t[n + 1] = x
  OBVIOUS
<1>2. \A k \in Nat : k + 1 <= n => t[k + 1] = s[k + 1]
  OBVIOUS
<1>3. PICK g : Tabulated(g, r, s, n) /\ Folded(r, s) = g[1 .. n]
  BY FoldedIsTable DEF Tabulated
<1>4. PICK h : Tabulated(h, r, t, n + 1) /\ Folded(r, t) = h[1 .. n + 1]
  BY <1>1, FoldedIsTable DEF Tabulated
<1> HIDE DEF n, t
<1> DEFINE T == {k \in Nat : k <= n => h[1 .. k] = g[1 .. k]}
<1>5. 0 \in T
  BY <1>1, <1>3, <1>4, FirstStep
<1>6. ASSUME NEW k \in Nat, k \in T
      PROVE  k + 1 \in T
  <2> SUFFICES ASSUME k + 1 <= n PROVE h[1 .. k + 1] = g[1 .. k + 1]
    OBVIOUS
  <2>1. k \in Nat /\ k + 1 <= n + 1 /\ k <= n /\ n + 1 \in Nat
    BY <1>1
  <2>a. Tabulated(h, r, t, n + 1)
    BY ONLY <1>4, Zenon
  <2>b. Tabulated(g, r, s, n)
    BY ONLY <1>3, Zenon
  <2>2. h[1 .. k + 1] = Step(r, h[1 .. k], t[k + 1])
    BY ONLY <2>a, <2>1, LastStep
  <2>3. g[1 .. k + 1] = Step(r, g[1 .. k], s[k + 1])
    BY ONLY <1>1, <2>b, <2>1, k + 1 <= n, LastStep
  <2>4. h[1 .. k] = g[1 .. k]
    BY <1>6, <2>1
  <2> QED BY <1>2, <2>2, <2>3, <2>4
<1> HIDE DEF T
<1>7. n \in T
  BY <1>1, <1>5, <1>6, AllNumbers
<1>8. h[1 .. n] = g[1 .. n]
  BY <1>1, <1>7 DEF T
<1>9. h[1 .. n + 1] = Step(r, h[1 .. n], t[n + 1])
  <2>1. n + 1 <= n + 1 /\ n + 1 \in Nat
    BY <1>1
  <2>2. Tabulated(h, r, t, n + 1)
    BY ONLY <1>4, Zenon
  <2> QED BY ONLY <1>1, <2>1, <2>2, LastStep
<1> QED BY <1>1, <1>3, <1>4, <1>8, <1>9 DEF t

-----------------------------------------------------------------------------
(* The same for FoldSet, where k is the set of the members that were taken. *)

OneOf(t) == CHOOSE x \in t : TRUE
AtMost(S, n) == {t \in SUBSET S : Cardinality(t) <= n}

\* g is the fold of every set in D, which has the smaller sets of each in it.
SetTable(r, D, g) ==
  [t \in D |-> IF t = {} THEN Start(r) ELSE Step(r, g[t \ {OneOf(t)}], OneOf(t))]

LEMMA OneFewer ==
  ASSUME NEW S, IsFiniteSet(S), NEW n \in Nat, NEW t \in AtMost(S, n + 1), t # {}
  PROVE  OneOf(t) \in t /\ t \ {OneOf(t)} \in AtMost(S, n)
<1>1. t \in SUBSET S /\ Cardinality(t) <= n + 1
  BY DEF AtMost
<1>2. IsFiniteSet(t) /\ OneOf(t) \in t
  BY <1>1, FS_Subset DEF OneOf
<1>3. Cardinality(t) \in Nat
  BY <1>2, FS_CardinalityType
<1>4. Cardinality(t \ {OneOf(t)}) = Cardinality(t) - 1
  BY <1>2, FS_RemoveElement
<1>5. Cardinality(t \ {OneOf(t)}) <= n
  BY <1>1, <1>3, <1>4
<1> QED BY <1>1, <1>2, <1>5 DEF AtMost

LEMMA SetTableExists ==
  ASSUME NEW r, NEW S, IsFiniteSet(S), NEW n \in Nat
  PROVE  \E g : g = SetTable(r, AtMost(S, n), g)
<1> DEFINE N == {k \in Nat : \E g : g = SetTable(r, AtMost(S, k), g)}
<1>1. 0 \in N
  <2> DEFINE g == [t \in AtMost(S, 0) |-> Start(r)]
  <2>1. ASSUME NEW t \in AtMost(S, 0)
        PROVE  t = {}
    <3>1. t \in SUBSET S /\ Cardinality(t) <= 0
      BY DEF AtMost
    <3>2. IsFiniteSet(t)
      BY <3>1, FS_Subset
    <3>3. Cardinality(t) \in Nat
      BY <3>2, FS_CardinalityType
    <3>4. Cardinality(t) = 0
      BY <3>1, <3>3
    <3> QED BY <3>2, <3>4, FS_EmptySet
  <2>2. g = SetTable(r, AtMost(S, 0), g)
    BY <2>1 DEF SetTable
  <2> QED BY <2>2
<1>2. ASSUME NEW k \in Nat, k \in N
      PROVE  k + 1 \in N
  <2>1. PICK g : g = SetTable(r, AtMost(S, k), g)
    BY <1>2
  <2> DEFINE h == SetTable(r, AtMost(S, k + 1), g)
  <2>2. ASSUME NEW t \in AtMost(S, k)
        PROVE  h[t] = g[t]
    <3>1. t \in AtMost(S, k + 1)
      <4>1. t \in SUBSET S /\ Cardinality(t) <= k
        BY DEF AtMost
      <4>2. Cardinality(t) \in Nat
        BY <4>1, FS_Subset, FS_CardinalityType
      <4> QED BY <4>1, <4>2 DEF AtMost
    <3>2. h[t] = IF t = {} THEN Start(r) ELSE Step(r, g[t \ {OneOf(t)}], OneOf(t))
      BY <3>1 DEF SetTable
    <3>3. g[t] = IF t = {} THEN Start(r) ELSE Step(r, g[t \ {OneOf(t)}], OneOf(t))
      BY <2>1 DEF SetTable
    <3> QED BY <3>2, <3>3
  <2>3. ASSUME NEW t \in AtMost(S, k + 1)
        PROVE  h[t] = IF t = {} THEN Start(r) ELSE Step(r, h[t \ {OneOf(t)}], OneOf(t))
    <3>1. h[t] = IF t = {} THEN Start(r) ELSE Step(r, g[t \ {OneOf(t)}], OneOf(t))
      BY DEF SetTable
    <3>2. t # {} => h[t \ {OneOf(t)}] = g[t \ {OneOf(t)}]
      <4> HIDE DEF h
      <4> QED BY <2>2, OneFewer
    <3> QED BY <3>1, <3>2
  <2>4. h = SetTable(r, AtMost(S, k + 1), h)
    <3>1. h = [t \in AtMost(S, k + 1) |-> h[t]]
      BY DEF SetTable
    <3> HIDE DEF h
    <3> QED BY <2>3, <3>1 DEF SetTable
  <2> HIDE DEF h
  <2> QED BY <2>4
<1> HIDE DEF N
<1>3. n \in N
  BY <1>1, <1>2, AllNumbers
<1> QED BY <1>3 DEF N

SetFolded(r, S) == FoldSet(LAMBDA x, a : Step(r, a, x), Start(r), S)

LEMMA SetFoldedIsTable ==
  ASSUME NEW r, NEW S, IsFiniteSet(S)
  PROVE  \E g : g = SetTable(r, SUBSET S, g) /\ SetFolded(r, S) = g[S]
<1> DEFINE g == CHOOSE g : g = SetTable(r, SUBSET S, g)
<1>1. Cardinality(S) \in Nat
  BY FS_CardinalityType
<1>2. AtMost(S, Cardinality(S)) = SUBSET S
  BY FS_Subset DEF AtMost
<1>3. g = SetTable(r, SUBSET S, g)
  BY <1>1, <1>2, SetTableExists
<1>4. SetFolded(r, S) = g[S]
  BY DEF SetFolded, FoldSet, MapThenFoldSet, SetTable, OneOf
<1> QED BY <1>3, <1>4

\* What holds of the start, and is kept by every member, holds of the fold.
LEMMA SetFoldHolds ==
  ASSUME NEW r, NEW S, IsFiniteSet(S),
         Holds(r, S, {}, Start(r)),
         \A T \in SUBSET S : \A x \in S \ T : \A a :
           Holds(r, S, T, a) => Holds(r, S, T \cup {x}, Step(r, a, x))
  PROVE  Holds(r, S, S, SetFolded(r, S))
<1>1. PICK g : g = SetTable(r, SUBSET S, g) /\ SetFolded(r, S) = g[S]
  BY SetFoldedIsTable
<1> DEFINE N == {k \in Nat : \A t \in AtMost(S, k) : Holds(r, S, t, g[t])}
<1>2. g[{}] = Start(r)
  BY <1>1 DEF SetTable
<1>3. 0 \in N
  <2>1. ASSUME NEW t \in AtMost(S, 0)
        PROVE  t = {}
    <3>1. t \in SUBSET S /\ Cardinality(t) <= 0
      BY DEF AtMost
    <3>2. IsFiniteSet(t)
      BY <3>1, FS_Subset
    <3>3. Cardinality(t) \in Nat
      BY <3>2, FS_CardinalityType
    <3>4. Cardinality(t) = 0
      BY <3>1, <3>3
    <3> QED BY <3>2, <3>4, FS_EmptySet
  <2> QED BY <1>2, <2>1
<1>4. ASSUME NEW k \in Nat, k \in N
      PROVE  k + 1 \in N
  <2> SUFFICES ASSUME NEW t \in AtMost(S, k + 1)
               PROVE  Holds(r, S, t, g[t])
    OBVIOUS
  <2>1. CASE t = {}
    BY <1>2, <2>1
  <2>2. CASE t # {}
    <3> DEFINE x == OneOf(t)
               u == t \ {x}
    <3>1. x \in t /\ u \in AtMost(S, k) /\ t \in SUBSET S
      BY <2>2, OneFewer DEF AtMost
    <3>2. g[t] = Step(r, g[u], x)
      BY <1>1, <2>2, <3>1 DEF SetTable
    <3>3. u \in SUBSET S /\ x \in S \ u /\ u \cup {x} = t
      BY <3>1
    <3>4. Holds(r, S, u, g[u])
      BY <1>4, <3>1
    <3> HIDE DEF x, u
    <3>5. Holds(r, S, u \cup {x}, Step(r, g[u], x))
      BY <3>3, <3>4
    <3> QED BY <3>2, <3>3, <3>5
  <2> QED BY <2>1, <2>2
<1> HIDE DEF N
<1>5. Cardinality(S) \in N
  <2>1. Cardinality(S) \in Nat
    BY FS_CardinalityType
  <2> QED BY <1>3, <1>4, <2>1, AllNumbers
<1>6. S \in AtMost(S, Cardinality(S))
  <2>1. Cardinality(S) \in Nat
    BY FS_CardinalityType
  <2> QED BY <2>1 DEF AtMost
<1>7. Holds(r, S, S, g[S])
  BY <1>5, <1>6 DEF N
<1> QED BY <1>1, <1>7
=============================================================================
