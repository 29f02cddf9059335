-------------------------- MODULE ExtractionProofs --------------------------
(***************************************************************************)
(* Theorems about what is taken out of files.  Containers: what is taken   *)
(* out of a file is in it, within the limits, and all that is wanted       *)
(* unless a limit is reached.  Decoding: what a decoder gives back is of   *)
(* the parts it could read, and it fails only for a reason.                *)
(***************************************************************************)
EXTENDS Containers, Decoding, FiniteSetTheorems, SequenceTheorems, TLAPS

-----------------------------------------------------------------------------
(* Sums *)

SumStep(field, total, item) == total + item[field]
SumStart(field) == 0

SumOf(field, s) == FoldLeft(LAMBDA total, item : SumStep(field, total, item), SumStart(field), s)

\* The parts so far have a sum that no fewer of them exceed, and the first of
\* them adds what it has.
SumHolds(field, s, k, total) ==
    /\ total \in Nat /\ total = SumOf(field, SubSeq(s, 1, k))
    /\ \A j \in 0 .. k : SumOf(field, SubSeq(s, 1, j)) \in 0 .. total
    /\ k # 0 => /\ SumOf(field, SubSeq(Tail(s), 1, k - 1)) \in Nat
                /\ total = s[1][field] + SumOf(field, SubSeq(Tail(s), 1, k - 1))

Summing == INSTANCE FoldInduction WITH Step <- SumStep, Start <- SumStart, Holds <- SumHolds

LEMMA SumIsFolded ==
  ASSUME NEW field, NEW s
  PROVE  Summing!Folded(field, s) = SumOf(field, s)
  BY DEF SumOf, Summing!Folded, SumStep, SumStart, FoldLeft, MapThenFoldSet, Max,
         Summing!FoldLeft, Summing!MapThenFoldSet, Summing!Max

LEMMA SizesAreSums ==
  ASSUME NEW s
  PROVE  Sizes(s) = SumOf("size", s) /\ RealSizes(s) = SumOf("real", s)
<1>1. Sizes(s) = SumOf("size", s)
  BY DEF Sizes, SumOf, SumStep, SumStart
<1>2. RealSizes(s) = SumOf("real", s)
  BY DEF RealSizes, SumOf, SumStep, SumStart
<1> QED BY <1>1, <1>2

LEMMA SumOfNothing == ASSUME NEW field PROVE SumOf(field, <<>>) = 0
  BY Summing!FoldOfNothing, SumIsFolded DEF SumStart

LEMMA SumAppends ==
  ASSUME NEW field, NEW S, NEW s \in Seq(S), NEW x \in S
  PROVE  SumOf(field, Append(s, x)) = SumOf(field, s) + x[field]
<1>1. Summing!Folded(field, Append(s, x)) = SumStep(field, Summing!Folded(field, s), x)
  BY Summing!FoldAppends
<1> QED BY <1>1, SumIsFolded DEF SumStep

LEMMA LongerPrefix ==
  ASSUME NEW S, NEW s \in Seq(S), NEW k \in Nat, k # 0, k <= Len(s)
  PROVE  /\ SubSeq(s, 1, k) = Append(SubSeq(s, 1, k - 1), s[k])
         /\ SubSeq(s, 1, k - 1) \in Seq(S) /\ Len(SubSeq(s, 1, k - 1)) = k - 1 /\ s[k] \in S
<1>1. Len(s) \in Nat /\ k - 1 \in Nat
  OBVIOUS
<1>2. /\ SubSeq(s, 1, k) \in Seq(S) /\ Len(SubSeq(s, 1, k)) = k
      /\ \A i \in 1 .. k : SubSeq(s, 1, k)[i] = s[i]
  OBVIOUS
<1>3. /\ SubSeq(s, 1, k - 1) \in Seq(S) /\ Len(SubSeq(s, 1, k - 1)) = k - 1
      /\ \A i \in 1 .. k - 1 : SubSeq(s, 1, k - 1)[i] = s[i]
  BY <1>1
<1>4. s[k] \in S
  OBVIOUS
<1> DEFINE t == SubSeq(s, 1, k)
           u == SubSeq(s, 1, k - 1)
<1> HIDE DEF t, u
<1>5. t = Append(u, s[k])
  <2>1. t \in Seq(S) /\ Len(t) = k /\ \A i \in 1 .. k : t[i] = s[i]
    BY <1>2 DEF t
  <2>2. u \in Seq(S) /\ Len(u) = k - 1 /\ \A i \in 1 .. k - 1 : u[i] = s[i]
    BY <1>3 DEF u
  <2>3. /\ Append(u, s[k]) \in Seq(S) /\ Len(Append(u, s[k])) = k
        /\ \A i \in 1 .. k : Append(u, s[k])[i] = s[i]
    BY <1>4, <2>2
  <2>4. \A i \in 1 .. k : t[i] = Append(u, s[k])[i]
    BY <2>1, <2>3
  <2> DEFINE v == Append(u, s[k])
  <2> HIDE DEF v
  <2>5. v \in Seq(S) /\ Len(v) = Len(t) /\ \A i \in 1 .. Len(t) : t[i] = v[i]
    BY <2>1, <2>3, <2>4 DEF v
  <2>6. t = v
    BY <2>1, <2>5, SeqEqual
  <2> QED BY <2>6 DEF v
<1> QED BY <1>3, <1>4, <1>5 DEF t, u

LEMMA WholePrefix ==
  ASSUME NEW S, NEW s \in Seq(S)
  PROVE  SubSeq(s, 1, Len(s)) = s /\ SubSeq(s, 1, 0) = <<>> /\ Len(s) \in Nat
<1>1. SubSeq(s, 1, Len(s)) \in Seq(S) /\ Len(SubSeq(s, 1, Len(s))) = Len(s)
      /\ \A i \in 1 .. Len(s) : SubSeq(s, 1, Len(s))[i] = s[i]
  OBVIOUS
<1> DEFINE t == SubSeq(s, 1, Len(s))
<1>2. t \in Seq(S) /\ Len(s) = Len(t) /\ \A i \in 1 .. Len(s) : s[i] = t[i]
  BY <1>1
<1> HIDE DEF t
<1>3. s = t
  BY <1>2, SeqEqual
<1> QED BY <1>3 DEF t

LEMMA SumFolds ==
  ASSUME NEW field, NEW S, \A x \in S : x[field] \in Nat, NEW s \in Seq(S)
  PROVE  SumHolds(field, s, Len(s), SumOf(field, s))
<1>1. SumHolds(field, s, 0, SumStart(field))
  <2>1. SubSeq(s, 1, 0) = <<>> /\ \A j \in 0 .. 0 : j = 0
    BY WholePrefix
  <2>2. SumOf(field, SubSeq(s, 1, 0)) = 0
    BY <2>1, SumOfNothing
  <2> QED BY <2>1, <2>2 DEF SumHolds, SumStart
<1>2. ASSUME NEW k \in 1 .. Len(s), NEW a, SumHolds(field, s, k - 1, a)
      PROVE  SumHolds(field, s, k, SumStep(field, a, s[k]))
  <2> DEFINE p == SubSeq(s, 1, k - 1)
             b == a + s[k][field]
  <2>1. k \in Nat /\ k # 0 /\ k <= Len(s) /\ k - 1 \in Nat
    OBVIOUS
  <2>2. SubSeq(s, 1, k) = Append(p, s[k]) /\ p \in Seq(S) /\ s[k] \in S
    BY <2>1, LongerPrefix
  <2>3. a \in Nat /\ a = SumOf(field, p) /\ s[k][field] \in Nat
    BY <1>2, <2>2 DEF SumHolds
  <2>4. SumOf(field, SubSeq(s, 1, k)) = b
    BY <2>2, <2>3, SumAppends
  <2>5. \A j \in 0 .. k : SumOf(field, SubSeq(s, 1, j)) \in 0 .. b
    <3> SUFFICES ASSUME NEW j \in 0 .. k PROVE SumOf(field, SubSeq(s, 1, j)) \in 0 .. b
      OBVIOUS
    <3>1. CASE j = k
      BY <2>3, <2>4, <3>1
    <3>2. CASE j # k
      <4>1. j \in 0 .. k - 1
        BY <2>1, <3>2
      <4>2. SumOf(field, SubSeq(s, 1, j)) \in 0 .. a
        BY <1>2, <4>1 DEF SumHolds
      <4> QED BY <2>3, <4>2
    <3> QED BY <3>1, <3>2
  <2>6. /\ SumOf(field, SubSeq(Tail(s), 1, k - 1)) \in Nat
        /\ b = s[1][field] + SumOf(field, SubSeq(Tail(s), 1, k - 1))
    <3>1. CASE k = 1
      <4>1. SubSeq(Tail(s), 1, k - 1) = <<>> /\ p = <<>>
        BY <3>1
      <4>2. SumOf(field, SubSeq(Tail(s), 1, k - 1)) = 0 /\ a = 0
        BY <2>3, <4>1, SumOfNothing
      <4>3. s[k][field] = s[1][field]
        BY <3>1
      <4> QED BY <2>3, <4>2, <4>3
    <3>2. CASE k # 1
      <4> DEFINE t == Tail(s)
                 q == SubSeq(t, 1, k - 2)
      <4>1. t \in Seq(S) /\ Len(t) = Len(s) - 1 /\ t[k - 1] = s[k]
        BY <2>1, <3>2
      <4>2. k - 1 \in Nat /\ k - 1 # 0 /\ k - 1 <= Len(t) /\ (k - 1) - 1 = k - 2
        BY <2>1, <3>2, <4>1
      <4>3. SubSeq(t, 1, k - 1) = Append(q, t[k - 1]) /\ q \in Seq(S)
        BY <4>1, <4>2, LongerPrefix
      <4>4. SumOf(field, SubSeq(t, 1, k - 1)) = SumOf(field, q) + s[k][field]
        BY <2>2, <4>1, <4>3, SumAppends
      <4>5. SumOf(field, q) \in Nat /\ a = s[1][field] + SumOf(field, q)
        BY <1>2, <4>2 DEF SumHolds
      <4>6. s[1][field] \in Nat
        BY <2>1
      <4> QED BY <2>3, <4>4, <4>5, <4>6, SMTT(30)
    <3> QED BY <3>1, <3>2
  <2> QED BY <2>1, <2>3, <2>4, <2>5, <2>6 DEF SumHolds, SumStep
<1>3. SumHolds(field, s, Len(s), Summing!Folded(field, s))
  BY <1>1, <1>2, Summing!FoldHolds
<1> QED BY <1>3, SumIsFolded

\* What is known of the sum of the parts of a sequence.
LEMMA SumFacts ==
  ASSUME NEW field, NEW S, \A x \in S : x[field] \in Nat, NEW s \in Seq(S)
  PROVE  /\ SumOf(field, s) \in Nat
         /\ \A j \in 0 .. Len(s) : SumOf(field, SubSeq(s, 1, j)) \in 0 .. SumOf(field, s)
         /\ s # <<>> => /\ SumOf(field, Tail(s)) \in Nat
                         /\ SumOf(field, s) = s[1][field] + SumOf(field, Tail(s))
<1>1. SumHolds(field, s, Len(s), SumOf(field, s))
  BY SumFolds
<1>2. ASSUME s # <<>>
      PROVE  /\ SumOf(field, Tail(s)) \in Nat
             /\ SumOf(field, s) = s[1][field] + SumOf(field, Tail(s))
  <2>1. Tail(s) \in Seq(S) /\ Len(Tail(s)) = Len(s) - 1 /\ Len(s) # 0
    BY <1>2
  <2>2. SubSeq(Tail(s), 1, Len(s) - 1) = Tail(s)
    BY <2>1, WholePrefix
  <2> QED BY <1>1, <2>1, <2>2 DEF SumHolds
<1> QED BY <1>1, <1>2 DEF SumHolds

-----------------------------------------------------------------------------
(* What is found *)

OnlyStep(meant, found, part) == IF part \in meant THEN Append(found, part) ELSE found
OnlyStart(meant) == <<>>
OnlyHolds(meant, s, k, found) == found \in Seq(FilePart \cap meant)
Selecting == INSTANCE FoldInduction WITH Step <- OnlyStep, Start <- OnlyStart, Holds <- OnlyHolds

LEMMA OnlyOfThem ==
  ASSUME NEW meant, NEW s \in Seq(FilePart)
  PROVE  Only(s, meant) \in Seq(FilePart \cap meant) /\ Only(s, meant) \in Seq(FilePart)
<1>1. OnlyHolds(meant, s, 0, OnlyStart(meant))
  BY DEF OnlyHolds, OnlyStart
<1>2. ASSUME NEW k \in 1 .. Len(s), NEW a, OnlyHolds(meant, s, k - 1, a)
      PROVE  OnlyHolds(meant, s, k, OnlyStep(meant, a, s[k]))
  BY <1>2 DEF OnlyHolds, OnlyStep
<1>3. OnlyHolds(meant, s, Len(s), Selecting!Folded(meant, s))
  BY <1>1, <1>2, Selecting!FoldHolds
<1>4. Selecting!Folded(meant, s) = Only(s, meant)
  BY DEF Only, Selecting!Folded, OnlyStep, OnlyStart, FoldLeft, MapThenFoldSet, Max,
         Selecting!FoldLeft, Selecting!MapThenFoldSet, Selecting!Max
<1>5. Only(s, meant) \in Seq(FilePart \cap meant)
  BY <1>3, <1>4 DEF OnlyHolds
<1>6. Seq(FilePart \cap meant) \subseteq Seq(FilePart)
  OBVIOUS
<1> QED BY <1>5, <1>6

SortStep(r, sorted, part) == InsertAt(sorted, Place(sorted, part), part)
SortStart(r) == <<>>
SortHolds(r, s, k, sorted) == sorted \in Seq(FilePart)
Sorting == INSTANCE FoldInduction WITH Step <- SortStep, Start <- SortStart, Holds <- SortHolds

LEMMA Inserted ==
  ASSUME NEW S, NEW s \in Seq(S), NEW x \in S, NEW n \in 1 .. Len(s) + 1
  PROVE  InsertAt(s, n, x) \in Seq(S)
<1>1. Len(s) \in Nat /\ n - 1 \in 0 .. Len(s)
  OBVIOUS
<1>2. SubSeq(s, 1, n - 1) \in Seq(S) /\ SubSeq(s, n, Len(s)) \in Seq(S) /\ <<x>> \in Seq(S)
  BY <1>1
<1>3. SubSeq(s, 1, n - 1) \o <<x>> \in Seq(S)
  BY <1>2
<1> QED BY <1>2, <1>3 DEF InsertAt

LEMMA PlaceInside ==
  ASSUME NEW sorted \in Seq(FilePart), NEW part \in FilePart
  PROVE  Place(sorted, part) \in 1 .. Len(sorted) + 1
<1> DEFINE before == {i \in DOMAIN sorted : sorted[i].name <= part.name}
<1>1. Len(sorted) \in Nat /\ before \subseteq 1 .. Len(sorted)
  <2>1. Len(sorted) \in Nat /\ DOMAIN sorted = 1 .. Len(sorted)
    OBVIOUS
  <2>2. before \subseteq DOMAIN sorted
    OBVIOUS
  <2> QED BY <2>1, <2>2
<1> HIDE DEF before
<1>2. IsFiniteSet(1 .. Len(sorted)) /\ Cardinality(1 .. Len(sorted)) = Len(sorted)
  <2> DEFINE n == Len(sorted)
  <2>1. n \in Nat
    BY <1>1
  <2> HIDE DEF n
  <2>2. IsFiniteSet(1 .. n) /\ Cardinality(1 .. n) = n
    BY ONLY <2>1, FS_Interval
  <2> QED BY <2>2 DEF n
<1>3. IsFiniteSet(before) /\ Cardinality(before) <= Len(sorted)
  BY <1>1, <1>2, FS_Subset
<1>4. Cardinality(before) \in Nat
  BY <1>3, FS_CardinalityType
<1> QED BY <1>1, <1>3, <1>4 DEF Place, before

LEMMA SortedParts ==
  ASSUME NEW s \in Seq(FilePart)
  PROVE  ByName(s) \in Seq(FilePart)
<1>1. SortHolds(0, s, 0, SortStart(0))
  BY DEF SortHolds, SortStart
<1>2. ASSUME NEW k \in 1 .. Len(s), NEW a, SortHolds(0, s, k - 1, a)
      PROVE  SortHolds(0, s, k, SortStep(0, a, s[k]))
  <2>1. a \in Seq(FilePart) /\ s[k] \in FilePart
    BY <1>2 DEF SortHolds
  <2> QED BY <2>1, PlaceInside, Inserted DEF SortHolds, SortStep
<1>3. SortHolds(0, s, Len(s), Sorting!Folded(0, s))
  BY <1>1, <1>2, Sorting!FoldHolds
<1>4. Sorting!Folded(0, s) = ByName(s)
  BY DEF ByName, Sorting!Folded, SortStep, SortStart, FoldLeft, MapThenFoldSet, Max,
         Sorting!FoldLeft, Sorting!MapThenFoldSet, Sorting!Max
<1> QED BY <1>3, <1>4 DEF SortHolds

LEMMA WalkedParts ==
  ASSUME NEW s \in Seq(FilePart)
  PROVE  Walked(s) \in Seq(FilePart) /\ (CutShort(s) => Len(Walked(s)) + 1 \in 1 .. Len(s))
<1> DEFINE bad == {i \in 1 .. Len(s) : ~s[i].fits}
           cut == SelectInSeq(s, LAMBDA part : ~part.fits)
<1>1. Len(s) \in Nat
  OBVIOUS
<1>2. cut = IF bad # {} THEN Min(bad) ELSE 0
  BY DEF SelectInSeq
<1>3. bad # {} => Min(bad) \in bad
  <2>1. bad \in SUBSET Nat /\ (bad # {} => \E m \in bad : \A k \in bad : m <= k)
    <3>1. bad \in SUBSET Nat
      OBVIOUS
    <3> HIDE DEF bad
    <3> QED BY <3>1, Selecting!LeastNumber
  <2> HIDE DEF bad
  <2> QED BY <2>1 DEF Min
<1>4. cut \in 0 .. Len(s)
  <2>1. bad \subseteq 1 .. Len(s)
    OBVIOUS
  <2> DEFINE m == Min(bad)
  <2>2. cut = IF bad # {} THEN m ELSE 0
    BY <1>2
  <2>3. bad # {} => m \in 1 .. Len(s)
    BY <1>3, <2>1
  <2> HIDE DEF bad, cut, m
  <2> QED BY <1>1, <2>2, <2>3
<1>5. Walked(s) = IF cut = 0 THEN s ELSE SubSeq(s, 1, cut - 1)
  BY DEF Walked
<1> HIDE DEF cut
<1>6. CASE cut = 0
  BY <1>5, <1>6 DEF CutShort
<1>7. CASE cut # 0
  <2>1. cut - 1 \in 0 .. Len(s) /\ (cut - 1) + 1 \in 1 .. Len(s)
    BY <1>1, <1>4, <1>7
  <2>2. SubSeq(s, 1, cut - 1) \in Seq(FilePart) /\ Len(SubSeq(s, 1, cut - 1)) = cut - 1
    BY <1>1, <2>1
  <2> QED BY <1>5, <1>7, <2>1, <2>2
<1> QED BY <1>6, <1>7

LEMMA HiddenParts ==
  ASSUME NEW s \in Seq(FilePart)
  PROVE  Hidden(s) \in Seq(FilePart) /\ Hidden(Walked(s)) \in Seq(FilePart)
  BY WalkedParts, OnlyOfThem DEF Hidden

LEMMA FirstOnly ==
  ASSUME NEW S, NEW s \in Seq(S)
  PROVE  SubSeq(s, 1, IF s = <<>> THEN 0 ELSE 1) \in Seq(S)
<1>1. CASE s = <<>>
  BY <1>1
<1>2. CASE s # <<>>
  <2>1. 1 \in 0 .. Len(s)
    BY <1>2
  <2> QED BY <1>2, <2>1
<1> QED BY <1>1, <1>2

LEMMA RecoveredParts ==
  ASSUME NEW s \in Seq(FilePart)
  PROVE  Recovered(s) \in Seq(FilePart)
<1> DEFINE found == Only(s, {part \in ToSet(s) : part.real > 0})
<1>1. found \in Seq(FilePart)
  BY OnlyOfThem
<1> HIDE DEF found
<1> QED BY <1>1, FirstOnly DEF Recovered, found

LEMMA Concatenated ==
  ASSUME NEW S, NEW s \in Seq(S), NEW t \in Seq(S), NEW u \in Seq(S)
  PROVE  /\ s \o t \in Seq(S) /\ s \o t \o u \in Seq(S) /\ <<>> \in Seq(S)
  OBVIOUS

LEMMA MediaFinds ==
  ASSUME NEW c, {c.parts, c.tail, c.streams} \subseteq Seq(FilePart)
  PROVE  /\ PngFinds(c) \in Seq(FilePart) /\ BmpFinds(c) \in Seq(FilePart)
         /\ RiffFinds(c) \in Seq(FilePart) /\ JpegFinds(c) \in Seq(FilePart)
         /\ GifFinds(c) \in Seq(FilePart) /\ TiffFinds(c) \in Seq(FilePart)
         /\ Mp3Finds(c) \in Seq(FilePart) /\ Mp4Finds(c) \in Seq(FilePart)
<1>1. c.parts \in Seq(FilePart) /\ c.tail \in Seq(FilePart) /\ c.streams \in Seq(FilePart)
  OBVIOUS
<1>2. /\ Hidden(c.parts) \in Seq(FilePart) /\ Hidden(Walked(c.parts)) \in Seq(FilePart)
      /\ Walked(c.parts) \in Seq(FilePart) /\ Recovered(c.streams) \in Seq(FilePart)
      /\ <<>> \in Seq(FilePart)
  BY <1>1, HiddenParts, WalkedParts, RecoveredParts, Concatenated
<1>3. PngFinds(c) \in Seq(FilePart)
  BY <1>1, <1>2, Concatenated DEF PngFinds, PngLsb
<1>4. BmpFinds(c) \in Seq(FilePart)
  BY <1>1, <1>2, Concatenated DEF BmpFinds
<1>5. RiffFinds(c) \in Seq(FilePart)
  BY <1>1, <1>2, Concatenated DEF RiffFinds
<1>6. JpegFinds(c) \in Seq(FilePart) /\ GifFinds(c) \in Seq(FilePart)
  BY <1>1, <1>2, Concatenated DEF JpegFinds, GifFinds
<1>7. TiffFinds(c) \in Seq(FilePart)
  BY <1>1, OnlyOfThem DEF TiffFinds
<1>8. Mp3Finds(c) \in Seq(FilePart)
  BY <1>2 DEF Mp3Finds
<1>9. Mp4Finds(c) \in Seq(FilePart)
  <2>1. CASE CutShort(c.parts)
    <3> DEFINE n == Len(Walked(c.parts))
    <3>1. n + 1 \in 1 .. Len(c.parts)
      BY <1>1, <2>1, WalkedParts
    <3>2. c.parts[n + 1] \in FilePart
      <4> HIDE DEF n
      <4> QED BY <1>1, <3>1
    <3>3. <<c.parts[n + 1]>> \in Seq(FilePart)
      <4> HIDE DEF n
      <4> QED BY <3>2
    <3> QED BY <1>2, <2>1, <3>3, Concatenated DEF Mp4Finds
  <2>2. CASE ~CutShort(c.parts)
    BY <1>1, <1>2, <2>2, Concatenated DEF Mp4Finds
  <2> QED BY <2>1, <2>2
<1> QED BY <1>3, <1>4, <1>5, <1>6, <1>7, <1>8, <1>9

LEMMA DiskFinds ==
  ASSUME NEW d, d.parts \in Seq(FilePart), d.disk \in FilePart
  PROVE  /\ VhdFinds(d) \in Seq(FilePart) /\ VhdxFinds(d) \in Seq(FilePart)
         /\ \A i \in DOMAIN VhdFinds(d) : VhdFinds(d)[i].real <= MaxItem
<1> DEFINE small == {part \in Fitting(d.parts) : part.real <= MaxItem}
           few == Only(d.parts, small)
<1>1. few \in Seq(FilePart \cap small) /\ few \in Seq(FilePart)
  <2> HIDE DEF small
  <2> QED BY OnlyOfThem
<1>2. \A p \in FilePart \cap small : p.real <= MaxItem
  OBVIOUS
<1>3. PartitionTable(d) \in {few, <<>>}
  BY DEF PartitionTable, MbrPartitions, GptPartitions
<1> HIDE DEF few, small
<1>4. VhdFinds(d) \in {few, <<>>}
  BY <1>3 DEF VhdFinds
<1>5. \A i \in DOMAIN few : few[i] \in FilePart \cap small
  BY <1>1
<1>6. \A i \in DOMAIN VhdFinds(d) : VhdFinds(d)[i].real <= MaxItem
  BY <1>2, <1>4, <1>5
<1>7. PartitionTable(d) \in Seq(FilePart) /\ VhdFinds(d) \in Seq(FilePart)
  <2>1. <<>> \in Seq(FilePart)
    OBVIOUS
  <2>2. CASE PartitionTable(d) = few
    BY <1>1, <2>1, <2>2 DEF VhdFinds
  <2>3. CASE PartitionTable(d) = <<>>
    BY <2>1, <2>3 DEF VhdFinds
  <2> QED BY <1>3, <2>2, <2>3
<1>8. <<d.disk>> \o PartitionTable(d) \in Seq(FilePart) /\ <<>> \in Seq(FilePart)
  BY <1>7
<1> QED BY <1>6, <1>7, <1>8 DEF VhdxFinds

LEMMA ExecutableFinds ==
  ASSUME NEW e, e.parts \in Seq(FilePart)
  PROVE  /\ PeFinds(e) \in Seq(FilePart)
         /\ SubSeq(DexStrings(e), 1, IF DexStrings(e) = <<>> THEN 0 ELSE 1) \in Seq(FilePart)
<1>1. <<>> \in Seq(FilePart) /\ ManifestResources(e) \in Seq(FilePart)
  BY DEF ManifestResources
<1>2. PeFinds(e) \in Seq(FilePart)
  BY <1>1, OnlyOfThem DEF PeFinds
<1>3. DexStrings(e) \in Seq(FilePart)
  BY OnlyOfThem DEF DexStrings
<1>4. SubSeq(DexStrings(e), 1, IF DexStrings(e) = <<>> THEN 0 ELSE 1) \in Seq(FilePart)
  BY <1>3, FirstOnly
<1> QED BY <1>2, <1>4

LEMMA FoundParts ==
  ASSUME NEW format \in DOMAIN Inputs, NEW file \in Inputs[format]
  PROVE  /\ Found(format, file) \in Seq(FilePart)
         /\ format = "vhd" => \A i \in DOMAIN Found(format, file) :
                                Found(format, file)[i].real <= MaxItem
<1>1. CASE format \in MediaFormats
  <2>1. {file.parts, file.tail, file.streams} \subseteq Seq(FilePart)
    BY <1>1, ContainersAssumption
  <2>2. /\ PngFinds(file) \in Seq(FilePart) /\ BmpFinds(file) \in Seq(FilePart)
        /\ RiffFinds(file) \in Seq(FilePart) /\ JpegFinds(file) \in Seq(FilePart)
        /\ GifFinds(file) \in Seq(FilePart) /\ TiffFinds(file) \in Seq(FilePart)
        /\ Mp3Finds(file) \in Seq(FilePart) /\ Mp4Finds(file) \in Seq(FilePart)
    BY <2>1, MediaFinds
  <2> QED BY <1>1, <2>2 DEF Found, MediaFormats
<1>2. CASE format \in DiskFormats
  <2>1. file.parts \in Seq(FilePart) /\ file.disk \in FilePart
    BY <1>2, ContainersAssumption
  <2>2. /\ VhdFinds(file) \in Seq(FilePart) /\ VhdxFinds(file) \in Seq(FilePart)
        /\ \A i \in DOMAIN VhdFinds(file) : VhdFinds(file)[i].real <= MaxItem
    BY <2>1, DiskFinds
  <2> QED BY <1>2, <2>2 DEF Found, DiskFormats
<1>3. CASE format \in ExecutableFormats
  <2>1. file.parts \in Seq(FilePart)
    BY <1>3, ContainersAssumption
  <2>2. /\ PeFinds(file) \in Seq(FilePart) /\ <<>> \in Seq(FilePart)
        /\ SubSeq(DexStrings(file), 1, IF DexStrings(file) = <<>> THEN 0 ELSE 1) \in Seq(FilePart)
    BY <2>1, ExecutableFinds
  <2> QED BY <1>3, <2>2 DEF Found, ExecutableFormats
<1>4. CASE format \notin MediaFormats \cup DiskFormats \cup ExecutableFormats
  <2>1. file \in Seq(FilePart)
    BY <1>4, ContainersAssumption
  <2>2. ByName(file) \in Seq(FilePart)
    BY <2>1, SortedParts
  <2> QED BY <1>4, <2>1, <2>2 DEF Found, MediaFormats, DiskFormats, ExecutableFormats
<1> QED BY <1>1, <1>2, <1>3, <1>4

-----------------------------------------------------------------------------
(* The rules *)

\* How the parts of a rule go together, for all formats and for the disk alone.
RuleFits(format, rule) ==
    /\ rule.dedup = "found" => rule.big = "cut"
    /\ rule.big = "stop" => format = "vhd"
    /\ rule.full = "never" <=> rule.over = "never"
    /\ rule.head = "summary" => rule.full # "never"
    /\ rule.head \in {"none", "summary", "metadata"}
    /\ rule.collector => rule.head # "metadata"
    /\ rule.named \in {"skip", "lose", "raise"} /\ rule.other \in {"skip", "lose", "raise"}
    /\ rule.big \in {"skip", "stop", "cut", "never"}
    /\ rule.collector \in BOOLEAN /\ rule.counted \in BOOLEAN

LEMMA OtherFits ==
  ASSUME NEW format, NEW rule, RuleFits("other", rule)
  PROVE  RuleFits(format, rule)
  BY DEF RuleFits

LEMMA RulesFit == \A format \in DOMAIN Rules : RuleFits(format, Rules[format])
<1>1. RuleFits("other", ZipRule)
  BY DEF RuleFits, ZipRule, Rule
<1>2. RuleFits("other", TarRule)
  BY DEF RuleFits, TarRule, Rule
<1>3. RuleFits("other", OfficeRule)
  BY DEF RuleFits, OfficeRule, Rule
<1>4. RuleFits("other", SevenZipRule)
  BY DEF RuleFits, SevenZipRule, Rule
<1>5. RuleFits("other", RarRule)
  BY DEF RuleFits, RarRule, Rule
<1>6. RuleFits("other", CabRule)
  BY DEF RuleFits, CabRule, Rule
<1>7. RuleFits("other", IsoRule)
  BY DEF RuleFits, IsoRule, Rule
<1>8. RuleFits("other", EmailRule)
  BY DEF RuleFits, EmailRule, Rule
<1>9. RuleFits("other", RtfRule)
  BY DEF RuleFits, RtfRule, Rule
<1>10. RuleFits("other", MsiRule)
  BY DEF RuleFits, MsiRule, Rule
<1>11. RuleFits("other", OneNoteRule)
  BY DEF RuleFits, OneNoteRule, Rule
<1>12. RuleFits("other", ScriptRule)
  BY DEF RuleFits, ScriptRule, Rule
<1>13. RuleFits("other", PeRule)
  BY DEF RuleFits, PeRule, Rule
<1>14. RuleFits("other", DexRule)
  BY DEF RuleFits, DexRule, Rule
<1>15. RuleFits("vhd", VhdRule)
  BY DEF RuleFits, VhdRule, Rule
<1>16. RuleFits("other", VhdxRule)
  BY DEF RuleFits, VhdxRule, Rule
<1>17. RuleFits("other", MediaRule)
  BY DEF RuleFits, MediaRule, Rule
<1> QED
  BY <1>1, <1>2, <1>3, <1>4, <1>5, <1>6, <1>7, <1>8, <1>9, <1>10, <1>11, <1>12, <1>13, <1>14, <1>15, <1>16, <1>17, OtherFits DEF Rules

-----------------------------------------------------------------------------
(* What is chosen by the headers *)

LEMMA FieldsOfParts ==
  \A x \in FilePart : /\ x["size"] = x.size /\ x["size"] \in Nat
                      /\ x["real"] = x.real /\ x["real"] \in Nat
  BY DEF FilePart

LEMMA SumUpTo ==
  ASSUME NEW field, NEW S, \A x \in S : x[field] \in Nat, NEW s \in Seq(S),
         NEW k \in Nat, k # 0, k <= Len(s)
  PROVE  /\ SumOf(field, SubSeq(s, 1, k - 1)) \in Nat /\ s[k][field] \in Nat
         /\ SumOf(field, SubSeq(s, 1, k)) = SumOf(field, SubSeq(s, 1, k - 1)) + s[k][field]
         /\ SumOf(field, SubSeq(s, 1, k)) <= SumOf(field, s) /\ SumOf(field, s) \in Nat
<1>1. /\ SubSeq(s, 1, k) = Append(SubSeq(s, 1, k - 1), s[k])
      /\ SubSeq(s, 1, k - 1) \in Seq(S) /\ s[k] \in S
  BY LongerPrefix
<1>2. SumOf(field, SubSeq(s, 1, k)) = SumOf(field, SubSeq(s, 1, k - 1)) + s[k][field]
  BY <1>1, SumAppends
<1>3. k \in 0 .. Len(s) /\ k - 1 \in 0 .. Len(s)
  OBVIOUS
<1>4. /\ SumOf(field, s) \in Nat /\ SumOf(field, SubSeq(s, 1, k)) \in 0 .. SumOf(field, s)
      /\ SumOf(field, SubSeq(s, 1, k - 1)) \in 0 .. SumOf(field, s)
  BY <1>3, SumFacts
<1> QED BY <1>1, <1>2, <1>4

LEMMA AppendedSet ==
  ASSUME NEW S, NEW s \in Seq(S), NEW x \in S
  PROVE  /\ ToSet(Append(s, x)) = ToSet(s) \cup {x} /\ Append(s, x) \in Seq(S)
         /\ Len(Append(s, x)) = Len(s) + 1 /\ Len(s) \in Nat
<1>1. DOMAIN Append(s, x) = DOMAIN s \cup {Len(s) + 1} /\ Len(s) \in Nat
  OBVIOUS
<1>2. \A i \in DOMAIN s : Append(s, x)[i] = s[i]
  OBVIOUS
<1>3. Append(s, x)[Len(s) + 1] = x
  OBVIOUS
<1>4. Append(s, x) \in Seq(S) /\ Len(Append(s, x)) = Len(s) + 1
  OBVIOUS
<1> DEFINE t == Append(s, x)
           n == Len(s) + 1
<1> HIDE DEF t, n
<1>5. DOMAIN t = DOMAIN s \cup {n} /\ (\A i \in DOMAIN s : t[i] = s[i]) /\ t[n] = x
  BY <1>1, <1>2, <1>3 DEF t, n
<1>6. ToSet(t) = ToSet(s) \cup {x}
  BY <1>5 DEF ToSet
<1> QED BY <1>1, <1>4, <1>6 DEF t

Admitted(rule, parts) == {p \in ToSet(parts) : ~Refused(p, rule)}

ChooseStart(rule) == [parts |-> <<>>, total |-> 0, over |-> FALSE]

\* After k parts: what is chosen is admitted, no more and no larger than the
\* parts so far; and nothing admitted is missing if the whole is within limits.
ChooseHolds(rule, s, k, acc) ==
    /\ acc \in [parts : Seq(FilePart), total : Nat, over : BOOLEAN]
    /\ Len(acc.parts) <= k /\ ToSet(acc.parts) \subseteq Admitted(rule, s)
    /\ acc.total <= SumOf("size", SubSeq(s, 1, k))
    /\ SumOf("real", acc.parts) <= SumOf("real", SubSeq(s, 1, k))
    /\ Len(s) < MaxArtifacts /\ SumOf("size", s) <= MaxTotal =>
         /\ ~acc.over
         /\ \A i \in 1 .. k : Refused(s[i], rule) \/ s[i] \in ToSet(acc.parts)
Choosing == INSTANCE FoldInduction WITH Step <- Choose, Start <- ChooseStart, Holds <- ChooseHolds

\* A part that is passed over changes nothing.
LEMMA PassedOver ==
  ASSUME NEW rule, NEW s \in Seq(FilePart), NEW k \in Nat, k # 0, k <= Len(s),
         NEW acc, ChooseHolds(rule, s, k - 1, acc), NEW over \in BOOLEAN,
         Len(s) < MaxArtifacts /\ SumOf("size", s) <= MaxTotal => ~over /\ Refused(s[k], rule)
  PROVE  ChooseHolds(rule, s, k, [parts |-> acc.parts, total |-> acc.total, over |-> over])
<1> DEFINE new == [parts |-> acc.parts, total |-> acc.total, over |-> over]
<1>1. /\ SumOf("size", SubSeq(s, 1, k - 1)) \in Nat
      /\ SumOf("size", SubSeq(s, 1, k)) >= SumOf("size", SubSeq(s, 1, k - 1))
      /\ SumOf("real", SubSeq(s, 1, k - 1)) \in Nat
      /\ SumOf("real", SubSeq(s, 1, k)) >= SumOf("real", SubSeq(s, 1, k - 1))
      /\ SumOf("size", SubSeq(s, 1, k)) \in Nat /\ SumOf("real", SubSeq(s, 1, k)) \in Nat
  <2>1. /\ SumOf("size", SubSeq(s, 1, k - 1)) \in Nat /\ s[k]["size"] \in Nat
        /\ SumOf("size", SubSeq(s, 1, k)) = SumOf("size", SubSeq(s, 1, k - 1)) + s[k]["size"]
    BY SumUpTo, FieldsOfParts
  <2>2. /\ SumOf("real", SubSeq(s, 1, k - 1)) \in Nat /\ s[k]["real"] \in Nat
        /\ SumOf("real", SubSeq(s, 1, k)) = SumOf("real", SubSeq(s, 1, k - 1)) + s[k]["real"]
    BY SumUpTo, FieldsOfParts
  <2> QED BY <2>1, <2>2
<1>2. /\ acc.parts \in Seq(FilePart) /\ acc.total \in Nat
      /\ Len(acc.parts) <= k - 1 /\ ToSet(acc.parts) \subseteq Admitted(rule, s)
      /\ acc.total <= SumOf("size", SubSeq(s, 1, k - 1))
      /\ SumOf("real", acc.parts) <= SumOf("real", SubSeq(s, 1, k - 1))
  BY DEF ChooseHolds
<1>3. SumOf("real", acc.parts) \in Nat
  BY <1>2, SumFacts, FieldsOfParts
<1>4. ASSUME Len(s) < MaxArtifacts, SumOf("size", s) <= MaxTotal
      PROVE  ~over /\ \A i \in 1 .. k : Refused(s[i], rule) \/ s[i] \in ToSet(acc.parts)
  <2>1. \A i \in 1 .. k - 1 : Refused(s[i], rule) \/ s[i] \in ToSet(acc.parts)
    BY <1>4 DEF ChooseHolds
  <2>2. \A i \in 1 .. k : i = k \/ i \in 1 .. k - 1
    OBVIOUS
  <2> QED BY <1>4, <2>1, <2>2
<1>5. new.parts = acc.parts /\ new.total = acc.total /\ new.over = over
      /\ new \in [parts : Seq(FilePart), total : Nat, over : BOOLEAN]
  BY <1>2
<1>6. Len(acc.parts) <= k /\ acc.total <= SumOf("size", SubSeq(s, 1, k))
      /\ SumOf("real", acc.parts) <= SumOf("real", SubSeq(s, 1, k))
  <2>1. Len(acc.parts) \in Nat
    BY <1>2
  <2> QED BY <1>1, <1>2, <1>3, <2>1
<1> HIDE DEF new
<1>7. ChooseHolds(rule, s, k, new)
  BY <1>2, <1>4, <1>5, <1>6 DEF ChooseHolds
<1> QED BY <1>7 DEF new

LEMMA PartTaken ==
  ASSUME NEW rule, NEW s \in Seq(FilePart), NEW k \in Nat, k # 0, k <= Len(s),
         NEW acc, ChooseHolds(rule, s, k - 1, acc), NEW over \in BOOLEAN,
         ~Refused(s[k], rule),
         Len(s) < MaxArtifacts => (over => Len(acc.parts) + 1 >= MaxArtifacts)
  PROVE  ChooseHolds(rule, s, k, [parts |-> Append(acc.parts, s[k]),
                                  total |-> acc.total + s[k].size, over |-> over])
<1> DEFINE new == [parts |-> Append(acc.parts, s[k]), total |-> acc.total + s[k].size,
                   over |-> over]
<1>1. /\ acc.parts \in Seq(FilePart) /\ acc.total \in Nat
      /\ Len(acc.parts) <= k - 1 /\ ToSet(acc.parts) \subseteq Admitted(rule, s)
      /\ acc.total <= SumOf("size", SubSeq(s, 1, k - 1))
      /\ SumOf("real", acc.parts) <= SumOf("real", SubSeq(s, 1, k - 1))
  BY DEF ChooseHolds
<1>2. s[k] \in FilePart /\ k \in DOMAIN s /\ Len(s) \in Nat
  OBVIOUS
<1>3. /\ ToSet(Append(acc.parts, s[k])) = ToSet(acc.parts) \cup {s[k]}
      /\ Append(acc.parts, s[k]) \in Seq(FilePart)
      /\ Len(Append(acc.parts, s[k])) = Len(acc.parts) + 1 /\ Len(acc.parts) \in Nat
  BY <1>1, <1>2, AppendedSet
<1>4. s[k] \in Admitted(rule, s)
  BY <1>2 DEF Admitted, ToSet
<1>5. acc.total + s[k].size <= SumOf("size", SubSeq(s, 1, k)) /\ s[k].size \in Nat
  <2>1. /\ SumOf("size", SubSeq(s, 1, k - 1)) \in Nat /\ s[k]["size"] \in Nat
        /\ SumOf("size", SubSeq(s, 1, k)) = SumOf("size", SubSeq(s, 1, k - 1)) + s[k]["size"]
    BY SumUpTo, FieldsOfParts
  <2>2. s[k]["size"] = s[k].size
    BY <1>2, FieldsOfParts
  <2> QED BY <1>1, <2>1, <2>2
<1>6. SumOf("real", Append(acc.parts, s[k])) <= SumOf("real", SubSeq(s, 1, k))
  <2>1. /\ SumOf("real", SubSeq(s, 1, k - 1)) \in Nat /\ s[k]["real"] \in Nat
        /\ SumOf("real", SubSeq(s, 1, k)) = SumOf("real", SubSeq(s, 1, k - 1)) + s[k]["real"]
    BY SumUpTo, FieldsOfParts
  <2>2. SumOf("real", Append(acc.parts, s[k])) = SumOf("real", acc.parts) + s[k]["real"]
    BY <1>1, <1>2, SumAppends
  <2>3. SumOf("real", acc.parts) \in Nat
    BY <1>1, SumFacts, FieldsOfParts
  <2> QED BY <1>1, <2>1, <2>2, <2>3
<1>7. ASSUME Len(s) < MaxArtifacts, SumOf("size", s) <= MaxTotal
      PROVE  /\ ~over
             /\ \A i \in 1 .. k : Refused(s[i], rule) \/ s[i] \in ToSet(Append(acc.parts, s[k]))
  <2>1. \A i \in 1 .. k - 1 : Refused(s[i], rule) \/ s[i] \in ToSet(acc.parts)
    BY <1>7 DEF ChooseHolds
  <2>2. \A i \in 1 .. k : i = k \/ i \in 1 .. k - 1
    OBVIOUS
  <2>3. ~(Len(acc.parts) + 1 >= MaxArtifacts)
    <3>1. MaxArtifacts \in Nat
      BY ContainersAssumption
    <3> QED BY <1>1, <1>2, <1>3, <1>7, <3>1
  <2> QED BY <1>3, <1>7, <2>1, <2>2, <2>3
<1>8. /\ new.parts = Append(acc.parts, s[k]) /\ new.total = acc.total + s[k].size
      /\ new.over = over /\ new \in [parts : Seq(FilePart), total : Nat, over : BOOLEAN]
  BY <1>1, <1>3, <1>5
<1>9. Len(new.parts) <= k /\ ToSet(new.parts) \subseteq Admitted(rule, s)
  BY <1>1, <1>3, <1>4, <1>8
<1> HIDE DEF new
<1>10. ChooseHolds(rule, s, k, new)
  BY <1>5, <1>6, <1>7, <1>8, <1>9 DEF ChooseHolds
<1> QED BY <1>10 DEF new

LEMMA ChooseStep ==
  ASSUME NEW rule, rule.counted \in BOOLEAN, NEW s \in Seq(FilePart),
         NEW k \in Nat, k # 0, k <= Len(s), NEW acc, ChooseHolds(rule, s, k - 1, acc)
  PROVE  ChooseHolds(rule, s, k, Choose(rule, acc, s[k]))
<1>1. acc \in [parts : Seq(FilePart), total : Nat, over : BOOLEAN]
  BY DEF ChooseHolds
<1>2. Len(s) < MaxArtifacts /\ SumOf("size", s) <= MaxTotal => ~acc.over
  BY DEF ChooseHolds
<1>3. CASE acc.over \/ Refused(s[k], rule)
  <2>1. ChooseHolds(rule, s, k, [parts |-> acc.parts, total |-> acc.total, over |-> acc.over])
    BY <1>1, <1>2, <1>3, PassedOver
  <2>2. acc = [parts |-> acc.parts, total |-> acc.total, over |-> acc.over]
    BY <1>1
  <2>3. Choose(rule, acc, s[k]) = acc
    BY <1>3 DEF Choose
  <2> QED BY <2>1, <2>2, <2>3
<1>4. CASE /\ ~(acc.over \/ Refused(s[k], rule))
           /\ rule.presum # "no" /\ acc.total + s[k].size > MaxTotal
  <2> DEFINE over == rule.presum = "stop"
  <2>1. ~(SumOf("size", s) <= MaxTotal)
    <3>1. /\ SumOf("size", SubSeq(s, 1, k - 1)) \in Nat /\ s[k]["size"] \in Nat
          /\ SumOf("size", SubSeq(s, 1, k)) = SumOf("size", SubSeq(s, 1, k - 1)) + s[k]["size"]
          /\ SumOf("size", SubSeq(s, 1, k)) <= SumOf("size", s) /\ SumOf("size", s) \in Nat
      BY SumUpTo, FieldsOfParts
    <3>2. s[k]["size"] = s[k].size /\ acc.total \in Nat /\ MaxTotal \in Nat
      BY <1>1, FieldsOfParts, ContainersAssumption
    <3>3. acc.total <= SumOf("size", SubSeq(s, 1, k - 1))
      BY DEF ChooseHolds
    <3> QED BY <1>4, <3>1, <3>2, <3>3
  <2>2. over \in BOOLEAN
    OBVIOUS
  <2>3. Choose(rule, acc, s[k]) = [parts |-> acc.parts, total |-> acc.total, over |-> over]
    BY <1>1, <1>4 DEF Choose
  <2> HIDE DEF over
  <2>4. ChooseHolds(rule, s, k, [parts |-> acc.parts, total |-> acc.total, over |-> over])
    BY <2>1, <2>2, PassedOver
  <2> QED BY <2>3, <2>4
<1>5. CASE /\ ~(acc.over \/ Refused(s[k], rule))
           /\ ~(rule.presum # "no" /\ acc.total + s[k].size > MaxTotal)
  <2> DEFINE over == rule.counted /\ Len(acc.parts) + 1 >= MaxArtifacts
  <2>1. over \in BOOLEAN /\ (over => Len(acc.parts) + 1 >= MaxArtifacts)
    OBVIOUS
  <2>2. Choose(rule, acc, s[k]) = [parts |-> Append(acc.parts, s[k]),
                                   total |-> acc.total + s[k].size, over |-> over]
    BY <1>5 DEF Choose
  <2> HIDE DEF over
  <2>3. ChooseHolds(rule, s, k, [parts |-> Append(acc.parts, s[k]),
                                 total |-> acc.total + s[k].size, over |-> over])
    BY <1>5, <2>1, PartTaken
  <2> QED BY <2>2, <2>3
<1> QED BY <1>3, <1>4, <1>5

\* What the pre-scan leaves to be read.
LEMMA ChosenParts ==
  ASSUME NEW rule, rule.counted \in BOOLEAN, NEW s \in Seq(FilePart)
  PROVE  /\ Chosen(rule, s) \in Seq(FilePart) /\ Len(Chosen(rule, s)) <= Len(s)
         /\ ToSet(Chosen(rule, s)) \subseteq Admitted(rule, s)
         /\ SumOf("real", Chosen(rule, s)) <= SumOf("real", s)
         /\ Len(s) < MaxArtifacts /\ SumOf("size", s) <= MaxTotal =>
              Admitted(rule, s) \subseteq ToSet(Chosen(rule, s))
<1>1. ChooseHolds(rule, s, 0, ChooseStart(rule))
  <2> DEFINE acc == ChooseStart(rule)
  <2>1. /\ acc.parts = <<>> /\ acc.total = 0 /\ acc.over = FALSE
        /\ acc \in [parts : Seq(FilePart), total : Nat, over : BOOLEAN]
    BY DEF ChooseStart
  <2>2. SubSeq(s, 1, 0) = <<>> /\ ToSet(<<>>) = {} /\ Len(<<>>) = 0 /\ 1 .. 0 = {}
    BY DEF ToSet
  <2>3. SumOf("real", <<>>) = 0 /\ SumOf("size", <<>>) = 0
    BY SumOfNothing
  <2> HIDE DEF acc
  <2>4. Len(acc.parts) <= 0 /\ ToSet(acc.parts) \subseteq Admitted(rule, s)
    BY <2>1, <2>2
  <2>5. /\ acc.total <= SumOf("size", SubSeq(s, 1, 0))
        /\ SumOf("real", acc.parts) <= SumOf("real", SubSeq(s, 1, 0))
    <3>1. SumOf("size", SubSeq(s, 1, 0)) = 0 /\ SumOf("real", SubSeq(s, 1, 0)) = 0
      BY <2>2, <2>3
    <3>2. SumOf("real", acc.parts) = 0
      BY <2>1, <2>3
    <3> QED BY <2>1, <3>1, <3>2
  <2>6. ~acc.over /\ \A i \in 1 .. 0 : Refused(s[i], rule) \/ s[i] \in ToSet(acc.parts)
    BY <2>1
  <2>7. ChooseHolds(rule, s, 0, acc)
    BY <2>1, <2>4, <2>5, <2>6 DEF ChooseHolds
  <2> QED BY <2>7 DEF acc
<1>2. ASSUME NEW k \in 1 .. Len(s), NEW acc, ChooseHolds(rule, s, k - 1, acc)
      PROVE  ChooseHolds(rule, s, k, Choose(rule, acc, s[k]))
  <2>1. k \in Nat /\ k # 0 /\ k <= Len(s)
    OBVIOUS
  <2> QED BY <1>2, <2>1, ChooseStep
<1>3. ChooseHolds(rule, s, Len(s), Choosing!Folded(rule, s))
  BY <1>1, <1>2, Choosing!FoldHolds
<1> DEFINE acc == Choosing!Folded(rule, s)
<1>4. acc.parts = Chosen(rule, s)
  BY DEF Chosen, Choosing!Folded, ChooseStart, FoldLeft, MapThenFoldSet, Max,
         Choosing!FoldLeft, Choosing!MapThenFoldSet, Choosing!Max
<1>5. SubSeq(s, 1, Len(s)) = s
  BY WholePrefix
<1>6. ChooseHolds(rule, s, Len(s), acc)
  BY <1>3
<1> HIDE DEF acc
<1>7. ASSUME Len(s) < MaxArtifacts, SumOf("size", s) <= MaxTotal
      PROVE  Admitted(rule, s) \subseteq ToSet(acc.parts)
  <2>1. \A i \in 1 .. Len(s) : Refused(s[i], rule) \/ s[i] \in ToSet(acc.parts)
    BY <1>6, <1>7 DEF ChooseHolds
  <2>2. DOMAIN s = 1 .. Len(s)
    OBVIOUS
  <2> QED BY <2>1, <2>2 DEF Admitted, ToSet
<1>8. /\ acc.parts \in Seq(FilePart) /\ Len(acc.parts) <= Len(s)
      /\ ToSet(acc.parts) \subseteq Admitted(rule, s)
      /\ SumOf("real", acc.parts) <= SumOf("real", s)
  BY <1>5, <1>6 DEF ChooseHolds
<1> QED BY <1>4, <1>7, <1>8

-----------------------------------------------------------------------------
(* What is read *)

LEMMA FreshIsNew ==
  ASSUME NEW name \in Nat, NEW names, IsFiniteSet(names)
  PROVE  FreshName(name, names) \notin names /\ FreshName(name, names) \in Nat \X (Nat \ {0})
<1> DEFINE c == Cardinality(names)
           free == {n \in 1 .. c + 1 : <<name, n>> \notin names}
<1>1. c \in Nat
  BY FS_CardinalityType
<1>2. free # {}
  <2> SUFFICES ASSUME free = {} PROVE FALSE
    OBVIOUS
  <2> DEFINE f == [n \in 1 .. c + 1 |-> <<name, n>>]
  <2>1. f \in [1 .. c + 1 -> names]
    OBVIOUS
  <2>2. IsFiniteSet(1 .. c + 1) /\ Cardinality(1 .. c + 1) = c + 1
    BY <1>1, FS_Interval
  <2>3. Cardinality(names) < Cardinality(1 .. c + 1)
    BY <1>1, <2>2
  <2>4. \A x, y \in 1 .. c + 1 : f[x] = f[y] => x = y
    OBVIOUS
  <2> HIDE DEF f, c
  <2>5. \E x, y \in 1 .. c + 1 : x # y /\ f[x] = f[y]
    <3> DEFINE D == 1 .. c + 1
    <3> HIDE DEF D, free
    <3>1. f \in [D -> names] /\ IsFiniteSet(D) /\ Cardinality(names) < Cardinality(D)
      BY <2>1, <2>2, <2>3 DEF D
    <3>2. \E x, y \in D : x # y /\ f[x] = f[y]
      BY ONLY <3>1, IsFiniteSet(names), FS_PigeonHole, Zenon
    <3> QED BY <3>2 DEF D
  <2> QED BY <2>4, <2>5
<1>3. \E n \in 1 .. c + 1 : /\ <<name, n>> \notin names
                            /\ \A k \in 1 .. n - 1 : <<name, k>> \in names
  <2>1. free \in SUBSET Nat
    OBVIOUS
  <2>2. PICK m \in free : \A k \in free : m <= k
    <3> HIDE DEF free
    <3> QED BY <1>2, <2>1, Selecting!LeastNumber
  <2>3. m \in 1 .. c + 1 /\ <<name, m>> \notin names
    OBVIOUS
  <2>4. ASSUME NEW k \in 1 .. m - 1
        PROVE  <<name, k>> \in names
    <3>1. k \in 1 .. c + 1 /\ ~(m <= k)
      BY <1>1, <2>3
    <3> QED BY <2>2, <3>1
  <2> QED BY <2>3, <2>4
<1> DEFINE n == CHOOSE n \in 1 .. c + 1 : /\ <<name, n>> \notin names
                                          /\ \A k \in 1 .. n - 1 : <<name, k>> \in names
<1>4. n \in 1 .. c + 1 /\ <<name, n>> \notin names
  BY <1>3
<1>5. FreshName(name, names) = <<name, n>>
  BY DEF FreshName
<1> HIDE DEF n
<1> QED BY <1>1, <1>4, <1>5

Item == [name : Nat \X (Nat \ {0}), size : Nat, body : Nat]
Bodies(items) == {items[i].body : i \in DOMAIN items}

\* What is to be read and what was taken are of the file.
OfTheFile(rule, found, todo, items) ==
    /\ todo \in Seq(FilePart) /\ items \in Seq(Item)
    /\ ToSet(todo) \subseteq Admitted(rule, found)
    /\ \A i \in DOMAIN items : \E p \in Admitted(rule, found) :
         p.body = items[i].body /\ Obtained(p, rule)

WithinLimits(rule, items, total) ==
    /\ total = SumOf("size", items)
    /\ rule.full # "never" => Len(items) <= MaxArtifacts /\ total <= MaxTotal
    /\ rule.big # "never" => \A i \in DOMAIN items : items[i].size <= MaxItem

NamedApart(rule, items, names) ==
    /\ IsFiniteSet(names) /\ (rule.head = "summary" => <<0, 1>> \in names)
    /\ rule.collector =>
         /\ \A i \in DOMAIN items :
              /\ items[i].name \in names
              /\ rule.head = "summary" => items[i].name # <<0, 1>>
         /\ \A i, j \in DOMAIN items : items[i].name = items[j].name => i = j

\* A file that is within all limits by itself.
Ample(found) ==
    /\ Len(found) < MaxArtifacts /\ SumOf("size", found) <= MaxTotal
    /\ SumOf("real", found) <= MaxTotal

\* What was taken and what is to come are no more than the file has, and what
\* is wanted was taken or is to come.
AllToCome(rule, found, todo, items, total, seen) ==
    Ample(found) =>
      /\ Len(items) + Len(todo) <= Len(found)
      /\ total + SumOf("real", todo) <= SumOf("real", found)
      /\ seen \subseteq Bodies(items)
      /\ \A p \in Wanted(rule, found) : p \in ToSet(todo) \/ p.body \in Bodies(items)

Ready(rule, found, todo, items, names, total, seen) ==
    /\ OfTheFile(rule, found, todo, items) /\ WithinLimits(rule, items, total)
    /\ NamedApart(rule, items, names) /\ AllToCome(rule, found, todo, items, total, seen)

LEMMA TailSet ==
  ASSUME NEW S, NEW s \in Seq(S), s # <<>>
  PROVE  /\ ToSet(s) = {Head(s)} \cup ToSet(Tail(s)) /\ Tail(s) \in Seq(S) /\ Head(s) \in S
         /\ Len(Tail(s)) = Len(s) - 1 /\ Len(s) \in Nat \ {0} /\ Head(s) = s[1]
<1>1. /\ Tail(s) \in Seq(S) /\ Head(s) \in S /\ Len(Tail(s)) = Len(s) - 1
      /\ Len(s) \in Nat \ {0} /\ Head(s) = s[1]
  OBVIOUS
<1>2. \A i \in DOMAIN s : i = 1 \/ (i - 1 \in DOMAIN Tail(s) /\ s[i] = Tail(s)[i - 1])
  OBVIOUS
<1>3. \A i \in DOMAIN Tail(s) : i + 1 \in DOMAIN s /\ Tail(s)[i] = s[i + 1]
  OBVIOUS
<1>4. 1 \in DOMAIN s
  OBVIOUS
<1>5. ToSet(s) \subseteq {Head(s)} \cup ToSet(Tail(s))
  <2> SUFFICES ASSUME NEW i \in DOMAIN s, i # 1 PROVE s[i] \in ToSet(Tail(s))
    BY <1>1 DEF ToSet
  <2>1. i - 1 \in DOMAIN Tail(s) /\ s[i] = Tail(s)[i - 1]
    BY <1>2
  <2> QED BY <2>1 DEF ToSet
<1>6. {Head(s)} \cup ToSet(Tail(s)) \subseteq ToSet(s)
  <2>1. Head(s) \in ToSet(s)
    BY <1>1, <1>4 DEF ToSet
  <2>2. ASSUME NEW x \in ToSet(Tail(s)) PROVE x \in ToSet(s)
    <3>1. PICK i \in DOMAIN Tail(s) : x = Tail(s)[i]
      BY DEF ToSet
    <3>2. i + 1 \in DOMAIN s /\ x = s[i + 1]
      BY <1>3, <3>1
    <3> QED BY <3>2 DEF ToSet
  <2> QED BY <2>1, <2>2
<1> QED BY <1>1, <1>5, <1>6

LEMMA SmallerSum ==
  ASSUME NEW todo \in Seq(FilePart), todo # <<>>
  PROVE  /\ SumOf("real", todo) = Head(todo).real + SumOf("real", Tail(todo))
         /\ SumOf("real", Tail(todo)) \in Nat /\ Head(todo).real \in Nat
         /\ Head(todo).body \in Nat \ {0} /\ Head(todo).name \in Nat
         /\ Head(todo) \in FilePart
<1>1. /\ SumOf("real", Tail(todo)) \in Nat
      /\ SumOf("real", todo) = todo[1]["real"] + SumOf("real", Tail(todo))
  BY SumFacts, FieldsOfParts
<1>2. Head(todo) \in FilePart /\ Head(todo) = todo[1]
  BY TailSet
<1>3. Head(todo)["real"] = Head(todo).real /\ Head(todo).real \in Nat
  BY <1>2, FieldsOfParts
<1>4. Head(todo).body \in Nat \ {0} /\ Head(todo).name \in Nat
  BY <1>2 DEF FilePart
<1> QED BY <1>1, <1>2, <1>3, <1>4

LEMMA NotTaken ==
  ASSUME NEW rule, NEW found \in Seq(FilePart), NEW todo, NEW items, NEW names,
         NEW total \in Nat, NEW seen, Ready(rule, found, todo, items, names, total, seen),
         todo # <<>>, NEW next \in {Tail(todo), <<>>}, NEW more,
         Ample(found) =>
           /\ next = Tail(todo) /\ more \subseteq Bodies(items)
           /\ Head(todo) \in Wanted(rule, found) => Head(todo).body \in Bodies(items)
  PROVE  Ready(rule, found, next, items, names, total, more)
<1>1. /\ todo \in Seq(FilePart) /\ items \in Seq(Item) /\ ToSet(todo) \subseteq Admitted(rule, found)
  BY DEF Ready, OfTheFile
<1>2. /\ ToSet(todo) = {Head(todo)} \cup ToSet(Tail(todo)) /\ Tail(todo) \in Seq(FilePart)
      /\ Len(Tail(todo)) = Len(todo) - 1 /\ Len(todo) \in Nat \ {0}
  BY <1>1, TailSet
<1>3. ToSet(<<>>) = {} /\ <<>> \in Seq(FilePart)
  BY DEF ToSet
<1>4. OfTheFile(rule, found, next, items)
  BY <1>2, <1>3 DEF Ready, OfTheFile
<1>5. ASSUME Ample(found)
      PROVE  AllToCome(rule, found, next, items, total, more)
  <2>1. /\ Len(items) + Len(todo) <= Len(found)
        /\ total + SumOf("real", todo) <= SumOf("real", found)
        /\ \A p \in Wanted(rule, found) : p \in ToSet(todo) \/ p.body \in Bodies(items)
    BY <1>5 DEF Ready, AllToCome
  <2>2. /\ SumOf("real", todo) = Head(todo).real + SumOf("real", Tail(todo))
        /\ SumOf("real", Tail(todo)) \in Nat /\ Head(todo).real \in Nat
    BY <1>1, SmallerSum
  <2>3. next = Tail(todo)
    BY <1>5
  <2>4. Len(items) + Len(next) <= Len(found)
    <3>1. Len(items) \in Nat /\ Len(found) \in Nat
      BY <1>1
    <3> QED BY <1>2, <2>1, <2>3, <3>1
  <2>5. total + SumOf("real", next) <= SumOf("real", found)
    <3>1. SumOf("real", found) \in Nat
      BY SumFacts, FieldsOfParts
    <3> QED BY <2>1, <2>2, <2>3, <3>1
  <2>6. \A p \in Wanted(rule, found) : p \in ToSet(next) \/ p.body \in Bodies(items)
    BY <1>2, <1>5, <2>1, <2>3
  <2> QED BY <1>5, <2>4, <2>5, <2>6 DEF AllToCome
<1>6. AllToCome(rule, found, next, items, total, more)
  BY <1>5 DEF AllToCome
<1> QED BY <1>4, <1>6 DEF Ready

LEMMA AppendedBodies ==
  ASSUME NEW items \in Seq(Item), NEW item \in Item
  PROVE  /\ Append(items, item) \in Seq(Item) /\ Len(Append(items, item)) = Len(items) + 1
         /\ Len(items) \in Nat /\ DOMAIN Append(items, item) = DOMAIN items \cup {Len(items) + 1}
         /\ Append(items, item)[Len(items) + 1] = item /\ Len(items) + 1 \notin DOMAIN items
         /\ \A i \in DOMAIN items : Append(items, item)[i] = items[i]
         /\ Bodies(Append(items, item)) = Bodies(items) \cup {item.body}
<1>1. /\ Append(items, item) \in Seq(Item) /\ Len(Append(items, item)) = Len(items) + 1
      /\ Len(items) \in Nat /\ DOMAIN Append(items, item) = DOMAIN items \cup {Len(items) + 1}
      /\ Append(items, item)[Len(items) + 1] = item /\ Len(items) + 1 \notin DOMAIN items
      /\ \A i \in DOMAIN items : Append(items, item)[i] = items[i]
  <2> DEFINE S == Item
  <2>1. items \in Seq(S) /\ item \in S
    OBVIOUS
  <2> HIDE DEF S
  <2> QED BY <2>1
<1> DEFINE t == Append(items, item)
           n == Len(items) + 1
<1>2. /\ DOMAIN t = DOMAIN items \cup {n} /\ t[n] = item
      /\ \A i \in DOMAIN items : t[i] = items[i]
  BY <1>1
<1> HIDE DEF t, n
<1>3. Bodies(t) = Bodies(items) \cup {item.body}
  BY <1>2 DEF Bodies
<1> QED BY <1>1, <1>3 DEF t

LEMMA Taken ==
  ASSUME NEW rule, NEW found \in Seq(FilePart), NEW todo, NEW items, NEW names,
         NEW total \in Nat, NEW seen, Ready(rule, found, todo, items, names, total, seen),
         todo # <<>>, Obtained(Head(todo), rule),
         NEW name \in Nat \X (Nat \ {0}), rule.collector => name \notin names,
         NEW size \in Nat, size <= Head(todo).real,
         rule.full # "never" => ~(Len(items) >= MaxArtifacts) /\ total + size <= MaxTotal,
         rule.big # "never" => size <= MaxItem
  PROVE  Ready(rule, found, Tail(todo),
               Append(items, [name |-> name, size |-> size, body |-> Head(todo).body]),
               names \cup {name}, total + size, seen \cup {Head(todo).body})
<1> DEFINE part == Head(todo)
           item == [name |-> name, size |-> size, body |-> part.body]
           t == Append(items, item)
           n == Len(items) + 1
<1>1. /\ todo \in Seq(FilePart) /\ items \in Seq(Item) /\ ToSet(todo) \subseteq Admitted(rule, found)
  BY DEF Ready, OfTheFile
<1>2. /\ ToSet(todo) = {part} \cup ToSet(Tail(todo)) /\ Tail(todo) \in Seq(FilePart)
      /\ Len(Tail(todo)) = Len(todo) - 1 /\ Len(todo) \in Nat \ {0}
  BY <1>1, TailSet
<1>3. /\ SumOf("real", todo) = part.real + SumOf("real", Tail(todo))
      /\ SumOf("real", Tail(todo)) \in Nat /\ part.real \in Nat
      /\ part.body \in Nat \ {0} /\ part.name \in Nat /\ part \in FilePart
  BY <1>1, SmallerSum
<1>4. /\ item \in Item /\ item.name = name /\ item.size = size /\ item.body = part.body
      /\ item["size"] = size
  BY <1>3 DEF Item
<1> HIDE DEF item
<1>5. /\ t \in Seq(Item) /\ Len(t) = n /\ Len(items) \in Nat
      /\ DOMAIN t = DOMAIN items \cup {n} /\ t[n] = item /\ n \notin DOMAIN items
      /\ \A i \in DOMAIN items : t[i] = items[i]
      /\ Bodies(t) = Bodies(items) \cup {part.body}
  BY <1>1, <1>4, AppendedBodies
<1>6. SumOf("size", t) = total + size
  <2>1. SumOf("size", t) = SumOf("size", items) + item["size"]
    BY <1>1, <1>4, SumAppends
  <2> QED BY <1>4, <2>1 DEF Ready, WithinLimits
<1> HIDE DEF t, n, part
<1>7. OfTheFile(rule, found, Tail(todo), t)
  <2>1. ToSet(Tail(todo)) \subseteq Admitted(rule, found) /\ part \in Admitted(rule, found)
    BY <1>1, <1>2
  <2>2. \A i \in DOMAIN t : \E p \in Admitted(rule, found) :
          p.body = t[i].body /\ Obtained(p, rule)
    <3>1. \A i \in DOMAIN items : \E p \in Admitted(rule, found) :
            p.body = items[i].body /\ Obtained(p, rule)
      BY DEF Ready, OfTheFile
    <3>2. part.body = t[n].body /\ Obtained(part, rule)
      BY <1>4, <1>5 DEF part
    <3> QED BY <1>5, <2>1, <3>1, <3>2
  <2> QED BY <1>2, <1>5, <2>1, <2>2 DEF OfTheFile
<1>8. WithinLimits(rule, t, total + size)
  <2>1. rule.full # "never" => Len(t) <= MaxArtifacts
    <3>1. MaxArtifacts \in Nat
      BY ContainersAssumption
    <3> QED BY <1>5, <3>1 DEF n
  <2>2. rule.big # "never" => \A i \in DOMAIN t : t[i].size <= MaxItem
    <3>1. rule.big # "never" => \A i \in DOMAIN items : items[i].size <= MaxItem
      BY DEF Ready, WithinLimits
    <3>2. t[n].size = size
      BY <1>4, <1>5
    <3> QED BY <1>5, <3>1, <3>2
  <2> QED BY <1>6, <2>1, <2>2 DEF WithinLimits
<1>9. NamedApart(rule, t, names \cup {name})
  <2>1. /\ IsFiniteSet(names) /\ (rule.head = "summary" => <<0, 1>> \in names)
    BY DEF Ready, NamedApart
  <2>2. IsFiniteSet(names \cup {name})
    BY <2>1, FS_AddElement
  <2>3. t[n].name = name
    BY <1>4, <1>5
  <2>4. ASSUME rule.collector
        PROVE  /\ \A i \in DOMAIN t :
                    /\ t[i].name \in names \cup {name}
                    /\ rule.head = "summary" => t[i].name # <<0, 1>>
               /\ \A i, j \in DOMAIN t : t[i].name = t[j].name => i = j
    <3>1. /\ \A i \in DOMAIN items :
               /\ items[i].name \in names
               /\ rule.head = "summary" => items[i].name # <<0, 1>>
          /\ \A i, j \in DOMAIN items : items[i].name = items[j].name => i = j
      BY <2>4 DEF Ready, NamedApart
    <3>2. name \notin names
      BY <2>4
    <3>3. \A i \in DOMAIN t : i = n \/ (i \in DOMAIN items /\ t[i].name = items[i].name)
      BY <1>5
    <3>4. \A i \in DOMAIN t :
            /\ t[i].name \in names \cup {name}
            /\ rule.head = "summary" => t[i].name # <<0, 1>>
      <4> SUFFICES ASSUME NEW i \in DOMAIN t
                   PROVE  /\ t[i].name \in names \cup {name}
                          /\ rule.head = "summary" => t[i].name # <<0, 1>>
        OBVIOUS
      <4>1. CASE i = n
        BY <2>1, <2>3, <3>2, <4>1
      <4>2. CASE i # n
        BY <3>1, <3>3, <4>2
      <4> QED BY <4>1, <4>2
    <3>5. ASSUME NEW i \in DOMAIN t, NEW j \in DOMAIN t, t[i].name = t[j].name
          PROVE  i = j
      <4>1. CASE i = n /\ j = n
        BY <4>1
      <4>2. CASE i = n /\ j # n
        BY <2>3, <3>1, <3>2, <3>3, <3>5, <4>2
      <4>3. CASE i # n /\ j = n
        BY <2>3, <3>1, <3>2, <3>3, <3>5, <4>3
      <4>4. CASE i # n /\ j # n
        BY <3>1, <3>3, <3>5, <4>4
      <4> QED BY <4>1, <4>2, <4>3, <4>4
    <3> QED BY <3>4, <3>5
  <2> QED BY <2>1, <2>2, <2>4 DEF NamedApart
<1>10. AllToCome(rule, found, Tail(todo), t, total + size, seen \cup {part.body})
  <2> SUFFICES ASSUME Ample(found)
               PROVE  /\ Len(t) + Len(Tail(todo)) <= Len(found)
                      /\ total + size + SumOf("real", Tail(todo)) <= SumOf("real", found)
                      /\ seen \cup {part.body} \subseteq Bodies(t)
                      /\ \A p \in Wanted(rule, found) :
                           p \in ToSet(Tail(todo)) \/ p.body \in Bodies(t)
    BY DEF AllToCome
  <2>1. /\ Len(items) + Len(todo) <= Len(found)
        /\ total + SumOf("real", todo) <= SumOf("real", found)
        /\ seen \subseteq Bodies(items)
        /\ \A p \in Wanted(rule, found) : p \in ToSet(todo) \/ p.body \in Bodies(items)
    BY DEF Ready, AllToCome
  <2>2. Len(t) + Len(Tail(todo)) <= Len(found)
    <3>1. Len(found) \in Nat
      OBVIOUS
    <3> QED BY <1>2, <1>5, <2>1, <3>1 DEF n
  <2>3. total + size + SumOf("real", Tail(todo)) <= SumOf("real", found)
    <3>1. SumOf("real", found) \in Nat /\ size <= part.real
      BY SumFacts, FieldsOfParts DEF part
    <3> QED BY <1>3, <2>1, <3>1
  <2>4. \A p \in Wanted(rule, found) : p \in ToSet(Tail(todo)) \/ p.body \in Bodies(t)
    BY <1>2, <1>5, <2>1
  <2> QED BY <1>5, <2>1, <2>2, <2>3, <2>4
<1> QED BY <1>7, <1>8, <1>9, <1>10 DEF Ready, t, item, part

-----------------------------------------------------------------------------
(* What comes out *)

LEMMA Started ==
  ASSUME NEW rule, rule.counted \in BOOLEAN, NEW found \in Seq(FilePart)
  PROVE  Ready(rule, found, Chosen(rule, found), <<>>,
               IF rule.head = "summary" THEN {<<0, 1>>} ELSE {}, 0, {})
<1> DEFINE names == IF rule.head = "summary" THEN {<<0, 1>>} ELSE {}
           todo == Chosen(rule, found)
<1>1. /\ todo \in Seq(FilePart) /\ Len(todo) <= Len(found)
      /\ ToSet(todo) \subseteq Admitted(rule, found)
      /\ SumOf("real", todo) <= SumOf("real", found)
      /\ Len(found) < MaxArtifacts /\ SumOf("size", found) <= MaxTotal =>
           Admitted(rule, found) \subseteq ToSet(todo)
  BY ChosenParts
<1> HIDE DEF todo
<1>2. <<>> \in Seq(Item) /\ DOMAIN <<>> = {} /\ Len(<<>>) = 0
  OBVIOUS
<1>3. SumOf("size", <<>>) = 0
  BY SumOfNothing
<1>4. OfTheFile(rule, found, todo, <<>>)
  BY <1>1, <1>2 DEF OfTheFile
<1>5. WithinLimits(rule, <<>>, 0)
  <2>1. MaxArtifacts \in Nat /\ MaxTotal \in Nat
    BY ContainersAssumption
  <2> QED BY <1>2, <1>3, <2>1 DEF WithinLimits
<1>6. NamedApart(rule, <<>>, names)
  <2>1. IsFiniteSet(names)
    BY FS_EmptySet, FS_Singleton
  <2>2. rule.head = "summary" => <<0, 1>> \in names
    OBVIOUS
  <2> HIDE DEF names
  <2> QED BY <1>2, <2>1, <2>2 DEF NamedApart
<1>7. AllToCome(rule, found, todo, <<>>, 0, {})
  <2> SUFFICES ASSUME Ample(found)
               PROVE  /\ Len(<<>>) + Len(todo) <= Len(found)
                      /\ 0 + SumOf("real", todo) <= SumOf("real", found)
                      /\ \A p \in Wanted(rule, found) : p \in ToSet(todo)
    BY DEF AllToCome
  <2>1. Len(todo) \in Nat /\ Len(<<>>) + Len(todo) = Len(todo)
    BY <1>1, <1>2
  <2>2. SumOf("real", todo) \in Nat
    BY <1>1, SumFacts, FieldsOfParts
  <2>3. Wanted(rule, found) \subseteq Admitted(rule, found)
    BY DEF Wanted, Admitted
  <2>4. Admitted(rule, found) \subseteq ToSet(todo)
    BY <1>1 DEF Ample
  <2> QED BY <1>1, <2>1, <2>2, <2>3, <2>4
<1> QED BY <1>4, <1>5, <1>6, <1>7 DEF Ready, todo

LEMMA HeadPrefix ==
  ASSUME NEW S, NEW x \in S, NEW s \in Seq(S), NEW m \in 1 .. Len(s) + 1
  PROVE  /\ SubSeq(<<x>> \o s, 1, m) = <<x>> \o SubSeq(s, 1, m - 1)
         /\ SubSeq(SubSeq(<<x>> \o s, 1, m), 2, Len(SubSeq(<<x>> \o s, 1, m))) = SubSeq(s, 1, m - 1)
<1> DEFINE all == <<x>> \o s
           t == SubSeq(all, 1, m)
           p == SubSeq(s, 1, m - 1)
           u == <<x>> \o p
           v == SubSeq(t, 2, Len(t))
<1>1. /\ all \in Seq(S) /\ Len(all) = Len(s) + 1 /\ all[1] = x /\ Len(s) \in Nat
      /\ \A i \in 1 .. Len(s) : all[i + 1] = s[i]
  OBVIOUS
<1> HIDE DEF all
<1>2. t \in Seq(S) /\ Len(t) = m /\ \A i \in 1 .. m : t[i] = all[i]
  BY <1>1
<1>3. p \in Seq(S) /\ Len(p) = m - 1 /\ \A i \in 1 .. m - 1 : p[i] = s[i]
  BY <1>1
<1> HIDE DEF p, t
<1>4. u \in Seq(S) /\ Len(u) = m /\ u[1] = x /\ \A i \in 1 .. m - 1 : u[i + 1] = p[i]
  BY <1>1, <1>3
<1> HIDE DEF u
<1>5. \A i \in 1 .. m : t[i] = u[i]
  <2> SUFFICES ASSUME NEW i \in 1 .. m PROVE t[i] = u[i]
    OBVIOUS
  <2>1. CASE i = 1
    BY <1>1, <1>2, <1>4, <2>1
  <2>2. CASE i # 1
    <3>1. i - 1 \in 1 .. m - 1 /\ i - 1 \in 1 .. Len(s) /\ (i - 1) + 1 = i
      BY <1>1, <2>2
    <3> QED BY <1>1, <1>2, <1>3, <1>4, <3>1, ZenonT(30)
  <2> QED BY <2>1, <2>2
<1>6. t = u
  BY <1>2, <1>4, <1>5, SeqEqual
<1>7. v \in Seq(S) /\ Len(v) = m - 1 /\ \A i \in 1 .. m - 1 : v[i] = t[i + 1]
  BY <1>1, <1>2
<1> HIDE DEF v
<1>8. \A i \in 1 .. m - 1 : v[i] = p[i]
  BY <1>4, <1>6, <1>7
<1>9. v = p
  BY <1>3, <1>7, <1>8, SeqEqual
<1> QED BY <1>6, <1>9 DEF t, u, v, p, all

\* What the engine is given: all that was taken, or all but the last.
LEMMA GivenArtifacts ==
  ASSUME NEW items \in Seq(Item), NEW head \in {"none", "summary", "metadata"},
         head = "summary" => Len(items) <= MaxArtifacts
  PROVE  \E n \in 0 .. Len(items) :
           /\ Artifacts(head, Headed(head, items)) = SubSeq(items, 1, n)
           /\ n # Len(items) => /\ head = "summary" /\ n = Len(items) - 1
                                /\ Len(items) = MaxArtifacts
           /\ head = "none" => Headed(head, items) = items
           /\ head # "none" => Headed(head, items) = <<Head_>> \o SubSeq(items, 1, n)
<1>1. Len(items) \in Nat /\ SubSeq(items, 1, Len(items)) = items /\ MaxArtifacts \in Nat \ {0}
  BY WholePrefix, ContainersAssumption
<1>2. CASE head = "none"
  BY <1>1, <1>2 DEF Artifacts, Headed
<1> DEFINE all == <<Head_>> \o items
<1>3. Head_ \in Item
  BY DEF Head_, Item
<1>4. /\ all \in Seq(Item) /\ Len(all) = Len(items) + 1 /\ all[1] = Head_
      /\ \A i \in 1 .. Len(items) : all[i + 1] = items[i]
  BY <1>3
<1>5. ASSUME NEW m \in 1 .. Len(items) + 1
      PROVE  /\ SubSeq(all, 1, m) = <<Head_>> \o SubSeq(items, 1, m - 1)
             /\ SubSeq(SubSeq(all, 1, m), 2, Len(SubSeq(all, 1, m))) = SubSeq(items, 1, m - 1)
  BY <1>1, <1>3, <1>4, HeadPrefix
<1> HIDE DEF all
<1>6. CASE head = "metadata"
  <2>1. Headed(head, items) = all
    BY <1>6 DEF Headed, all
  <2>2. all = SubSeq(all, 1, Len(items) + 1)
    BY <1>4, WholePrefix
  <2>3. Len(items) + 1 \in 1 .. Len(items) + 1 /\ (Len(items) + 1) - 1 = Len(items)
    BY <1>1
  <2>4. Artifacts(head, all) = SubSeq(items, 1, Len(items)) /\ all = <<Head_>> \o SubSeq(items, 1, Len(items))
    BY <1>5, <1>6, <2>2, <2>3 DEF Artifacts
  <2>5. Len(items) \in 0 .. Len(items)
    BY <1>1
  <2> WITNESS Len(items) \in 0 .. Len(items)
  <2> QED BY <1>6, <2>1, <2>4
<1>7. CASE head = "summary"
  <2> DEFINE m == IF Len(all) > MaxArtifacts THEN MaxArtifacts ELSE Len(all)
  <2>1. Headed(head, items) = SubSeq(all, 1, m)
    BY <1>7 DEF Headed, all
  <2>2. m \in 1 .. Len(items) + 1 /\ m - 1 \in 0 .. Len(items)
    BY <1>1, <1>4, <1>7
  <2>3. m - 1 # Len(items) => m - 1 = Len(items) - 1 /\ Len(items) = MaxArtifacts
    <3> DEFINE k == Len(items)
    <3>1. k \in Nat /\ k <= MaxArtifacts /\ Len(all) = k + 1 /\ MaxArtifacts \in Nat
      BY <1>1, <1>4, <1>7
    <3> HIDE DEF k
    <3>2. CASE Len(all) > MaxArtifacts
      <4>1. k = MaxArtifacts /\ m = MaxArtifacts
        BY <3>1, <3>2
      <4> QED BY <4>1 DEF k
    <3>3. CASE ~(Len(all) > MaxArtifacts)
      <4>1. m - 1 = k
        BY <3>1, <3>3
      <4> QED BY <4>1 DEF k
    <3> QED BY <3>2, <3>3
  <2> HIDE DEF m
  <2>4. /\ Artifacts(head, SubSeq(all, 1, m)) = SubSeq(items, 1, m - 1)
        /\ SubSeq(all, 1, m) = <<Head_>> \o SubSeq(items, 1, m - 1)
    BY <1>5, <1>7, <2>2 DEF Artifacts
  <2> QED BY <1>7, <2>1, <2>2, <2>3, <2>4
<1> QED BY <1>2, <1>6, <1>7

\* What is given out of what was taken.
GivenOut(rule, found, items, artifacts) ==
    /\ rule.full # "never" => Len(artifacts) <= MaxArtifacts /\ Sizes(artifacts) <= MaxTotal
    /\ \A i \in DOMAIN artifacts : rule.big # "never" => artifacts[i].size <= MaxItem
    /\ \A i \in DOMAIN artifacts : \E j \in DOMAIN found :
         /\ found[j].body = artifacts[i].body
         /\ ~Refused(found[j], rule) /\ Obtained(found[j], rule)
    /\ Cardinality(Bodies(items) \ Bodies(artifacts)) <=
         (IF rule.head = "summary" THEN 1 ELSE 0)
    /\ Ample(found) => {part.body : part \in Wanted(rule, found)} \subseteq Bodies(artifacts)

LEMMA ComesOut ==
  ASSUME NEW rule, NEW found \in Seq(FilePart), NEW items, NEW names, NEW total \in Nat, NEW seen,
         Ready(rule, found, <<>>, items, names, total, seen), NEW n \in 0 .. Len(items),
         n # Len(items) => /\ rule.head = "summary" /\ n = Len(items) - 1
                           /\ Len(items) = MaxArtifacts,
         rule.full = "never" <=> rule.over = "never",
         NEW artifacts, artifacts = SubSeq(items, 1, n)
  PROVE  GivenOut(rule, found, items, artifacts)
<1>1. items \in Seq(Item) /\ Len(items) \in Nat /\ MaxArtifacts \in Nat /\ MaxTotal \in Nat
  BY ContainersAssumption DEF Ready, OfTheFile
<1>2. /\ artifacts \in Seq(Item) /\ Len(artifacts) = n /\ DOMAIN artifacts = 1 .. n
      /\ \A i \in 1 .. n : i \in DOMAIN items /\ artifacts[i] = items[i]
  BY <1>1
<1>3. Sizes(artifacts) = SumOf("size", artifacts) /\ SumOf("size", artifacts) \in 0 .. total
  <2>1. \A x \in Item : x["size"] \in Nat
    BY DEF Item
  <2>2. SumOf("size", SubSeq(items, 1, n)) \in 0 .. SumOf("size", items)
    BY <1>1, <2>1, SumFacts
  <2>3. SumOf("size", items) = total
    BY DEF Ready, WithinLimits
  <2> QED BY <2>2, <2>3, SizesAreSums
<1>4. rule.full # "never" => Len(artifacts) <= MaxArtifacts /\ Sizes(artifacts) <= MaxTotal
  <2>1. rule.full # "never" => Len(items) <= MaxArtifacts /\ total <= MaxTotal
    BY DEF Ready, WithinLimits
  <2> QED BY <1>1, <1>2, <1>3, <2>1
<1>5. \A i \in DOMAIN artifacts : rule.big # "never" => artifacts[i].size <= MaxItem
  BY <1>2 DEF Ready, WithinLimits
<1>6. ASSUME NEW i \in DOMAIN artifacts
      PROVE  \E j \in DOMAIN found : /\ found[j].body = artifacts[i].body
                                     /\ ~Refused(found[j], rule) /\ Obtained(found[j], rule)
  <2>1. PICK p \in Admitted(rule, found) : p.body = items[i].body /\ Obtained(p, rule)
    BY <1>2 DEF Ready, OfTheFile
  <2>2. PICK j \in DOMAIN found : p = found[j]
    BY DEF Admitted, ToSet
  <2>3. ~Refused(p, rule)
    BY DEF Admitted
  <2>4. artifacts[i] = items[i]
    BY <1>2
  <2> QED BY <2>1, <2>2, <2>3, <2>4
<1>7. n = Len(items) => Bodies(artifacts) = Bodies(items)
  <2>1. n = Len(items) => artifacts = items
    BY <1>1, WholePrefix
  <2> QED BY <2>1
<1>8. Cardinality(Bodies(items) \ Bodies(artifacts)) <= (IF rule.head = "summary" THEN 1 ELSE 0)
  <2>1. CASE n = Len(items)
    <3> DEFINE D == Bodies(items) \ Bodies(artifacts)
    <3>1. D = {}
      BY <1>7, <2>1
    <3> HIDE DEF D
    <3>2. Cardinality(D) = 0
      BY <3>1, FS_EmptySet
    <3>3. Cardinality(D) <= (IF rule.head = "summary" THEN 1 ELSE 0)
      BY <3>2
    <3> QED BY <3>3 DEF D
  <2>2. CASE n # Len(items)
    <3> DEFINE x == items[Len(items)].body
    <3>1. \A i \in DOMAIN items : i = Len(items) \/ i \in 1 .. n
      BY <1>1, <2>2
    <3>2. Bodies(items) \ Bodies(artifacts) \subseteq {x}
      <4> SUFFICES ASSUME NEW i \in DOMAIN items PROVE items[i].body \in Bodies(artifacts) \cup {x}
        BY DEF Bodies
      <4>1. CASE i = Len(items)
        BY <4>1
      <4>2. CASE i \in 1 .. n
        BY <1>2, <4>2 DEF Bodies
      <4> QED BY <3>1, <4>1, <4>2
    <3> DEFINE D == Bodies(items) \ Bodies(artifacts)
    <3> HIDE DEF x, D
    <3>3. IsFiniteSet({x}) /\ Cardinality({x}) = 1
      BY FS_Singleton
    <3>4. D \subseteq {x}
      BY <3>2 DEF D
    <3>5. Cardinality(D) <= 1
      BY <3>3, <3>4, FS_Subset
    <3> QED BY <2>2, <3>5 DEF D
  <2> QED BY <2>1, <2>2
<1>9. ASSUME Ample(found)
      PROVE  {part.body : part \in Wanted(rule, found)} \subseteq Bodies(artifacts)
  <2>1. /\ Len(items) + Len(<<>>) <= Len(found) /\ Len(found) < MaxArtifacts
        /\ \A p \in Wanted(rule, found) : p \in ToSet(<<>>) \/ p.body \in Bodies(items)
    BY <1>9 DEF Ready, AllToCome, Ample
  <2>2. ToSet(<<>>) = {} /\ Len(<<>>) = 0 /\ Len(found) \in Nat
    BY DEF ToSet
  <2>3. n = Len(items)
    BY <1>1, <2>1, <2>2
  <2> QED BY <1>7, <2>1, <2>2, <2>3
<1> QED BY <1>4, <1>5, <1>6, <1>8, <1>9 DEF GivenOut

LEMMA NamesComeOut ==
  ASSUME NEW rule, NEW items \in Seq(Item), NEW names, NamedApart(rule, items, names),
         rule.collector, rule.head \in {"none", "summary"}, NEW n \in 0 .. Len(items),
         NEW all, rule.head = "none" => all = items,
         rule.head = "summary" => all = <<Head_>> \o SubSeq(items, 1, n)
  PROVE  IsInjective([i \in DOMAIN all |-> all[i].name])
<1>1. /\ \A i \in DOMAIN items : rule.head = "summary" => items[i].name # <<0, 1>>
      /\ \A i, j \in DOMAIN items : items[i].name = items[j].name => i = j
  BY DEF NamedApart
<1>2. \A i, j \in DOMAIN all : all[i].name = all[j].name => i = j
  <2>1. CASE rule.head = "none"
    BY <1>1, <2>1
  <2>2. CASE rule.head = "summary"
    <3> DEFINE p == SubSeq(items, 1, n)
    <3>1. /\ p \in Seq(Item) /\ Len(p) = n /\ n \in Nat
          /\ \A i \in 1 .. n : i \in DOMAIN items /\ p[i] = items[i]
      BY ONLY items \in Seq(Item), n \in 0 .. Len(items), SMTT(30)
    <3>2. Head_ \in Item /\ Head_.name = <<0, 1>>
      BY DEF Head_, Item
    <3> HIDE DEF p
    <3>3. /\ all = <<Head_>> \o p /\ Len(all) = n + 1 /\ all[1] = Head_ /\ DOMAIN all = 1 .. n + 1
          /\ \A i \in 1 .. n : all[i + 1] = p[i]
      <4>1. all = <<Head_>> \o p
        BY <2>2 DEF p
      <4> QED BY <3>1, <3>2, <4>1, SMTT(30)
    <3>4. ASSUME NEW i \in DOMAIN all, i # 1
          PROVE  i - 1 \in DOMAIN items /\ all[i] = items[i - 1]
      <4>1. i - 1 \in 1 .. n /\ (i - 1) + 1 = i
        BY <3>1, <3>3, <3>4
      <4> QED BY <3>1, <3>3, <4>1
    <3> SUFFICES ASSUME NEW i \in DOMAIN all, NEW j \in DOMAIN all, all[i].name = all[j].name
                 PROVE  i = j
      OBVIOUS
    <3>5. CASE i = 1 \/ j = 1
      <4>1. \A k \in DOMAIN all : k # 1 => all[k].name # <<0, 1>>
        BY <1>1, <2>2, <3>4, ZenonT(30)
      <4>2. all[1].name = <<0, 1>>
        BY <3>2, <3>3
      <4> QED BY <3>5, <4>1, <4>2
    <3>6. CASE i # 1 /\ j # 1
      <4>1. i - 1 = j - 1
        BY <1>1, <3>4, <3>6
      <4>2. i \in Nat /\ j \in Nat
        BY <3>1, <3>3
      <4> QED BY <4>1, <4>2
    <3> QED BY <3>5, <3>6
  <2> QED BY <2>1, <2>2
<1> DEFINE f == [i \in DOMAIN all |-> all[i].name]
<1>3. DOMAIN f = DOMAIN all /\ \A i \in DOMAIN all : f[i] = all[i].name
  OBVIOUS
<1> HIDE DEF f
<1>4. IsInjective(f)
  BY <1>2, <1>3 DEF IsInjective
<1> QED BY <1>4 DEF f

-----------------------------------------------------------------------------
(* The invariant *)

Format == Rules[job.format]
Parts == Found(job.format, job.file)

ContainersInv ==
    /\ job \in [pc : {"idle", "reading", "done", "lost"}, format : DOMAIN Rules,
                file : {job.file}, todo : {job.todo}, items : {job.items}, names : {job.names},
                total : Nat, seen : {job.seen}, stored : {job.stored}]
    /\ job.pc # "idle" => job.format \in DOMAIN Inputs /\ job.file \in Inputs[job.format]
    /\ job.pc = "reading" =>
         /\ Ready(Format, Parts, job.todo, job.items, job.names, job.total, job.seen)
         /\ job.stored = Bodies(job.items)
    /\ NothingLostWithinLimits

\* What is known of a call that has begun.
LEMMA Begun ==
  ASSUME ContainersInv, job.pc # "idle"
  PROVE  /\ RuleFits(job.format, Format) /\ Parts \in Seq(FilePart)
         /\ Format.big = "stop" => \A p \in ToSet(Parts) : p.real <= MaxItem
<1>1. job.format \in DOMAIN Inputs /\ job.file \in Inputs[job.format] /\ job.format \in DOMAIN Rules
  BY DEF ContainersInv
<1>2. RuleFits(job.format, Format)
  BY <1>1, RulesFit DEF Format
<1>3. /\ Parts \in Seq(FilePart)
      /\ job.format = "vhd" => \A i \in DOMAIN Parts : Parts[i].real <= MaxItem
  BY <1>1, FoundParts DEF Parts
<1>4. Format.big = "stop" => job.format = "vhd"
  BY <1>2 DEF RuleFits
<1> QED BY <1>2, <1>3, <1>4 DEF ToSet

LEMMA IdleFits == job' = Idle => ContainersInv'
<1> SUFFICES ASSUME job' = Idle PROVE ContainersInv'
  OBVIOUS
<1>1. "zip" \in DOMAIN Rules
  BY DEF Rules
<1>2. job'.pc = "idle" /\ job'.format = "zip" /\ job'.total = 0
      /\ job' \in [pc : {"idle", "reading", "done", "lost"}, format : DOMAIN Rules,
                   file : {job'.file}, todo : {job'.todo}, items : {job'.items},
                   names : {job'.names}, total : Nat, seen : {job'.seen}, stored : {job'.stored}]
  BY <1>1 DEF Idle
<1> QED BY <1>2 DEF ContainersInv, NothingLostWithinLimits

LEMMA OpeningFits == OpenContainer => ContainersInv'
<1> SUFFICES ASSUME OpenContainer PROVE ContainersInv'
  OBVIOUS
<1>a. PICK format \in DOMAIN Inputs : \E file \in Inputs[format] :
        job' = [Idle EXCEPT
              !.pc = IF Readable(format, file) THEN "reading" ELSE "done",
              !.format = format, !.file = file,
              !.todo = Chosen(Rules[format], Found(format, file)),
              !.names = IF Rules[format].head = "summary" THEN {<<0, 1>>} ELSE {}]
  BY DEF OpenContainer
<1>1. PICK file \in Inputs[format] :
        job' = [Idle EXCEPT
              !.pc = IF Readable(format, file) THEN "reading" ELSE "done",
              !.format = format, !.file = file,
              !.todo = Chosen(Rules[format], Found(format, file)),
              !.names = IF Rules[format].head = "summary" THEN {<<0, 1>>} ELSE {}]
  BY <1>a
<1>2. format \in DOMAIN Rules
  BY ContainersAssumption
<1>3. /\ job'.pc = (IF Readable(format, file) THEN "reading" ELSE "done")
      /\ job'.format = format /\ job'.file = file /\ job'.items = <<>> /\ job'.total = 0
      /\ job'.todo = Chosen(Rules[format], Found(format, file)) /\ job'.seen = {}
      /\ job'.names = (IF Rules[format].head = "summary" THEN {<<0, 1>>} ELSE {})
      /\ job'.stored = {}
      /\ job' = [pc |-> job'.pc, format |-> job'.format, file |-> job'.file, todo |-> job'.todo,
                 items |-> job'.items, names |-> job'.names, total |-> job'.total,
                 seen |-> job'.seen, stored |-> job'.stored]
  BY <1>1 DEF Idle
<1>4. job' \in [pc : {"idle", "reading", "done", "lost"}, format : DOMAIN Rules,
                file : {job'.file}, todo : {job'.todo}, items : {job'.items},
                names : {job'.names}, total : Nat, seen : {job'.seen}, stored : {job'.stored}]
  BY <1>2, <1>3
<1>5. RuleFits(format, Rules[format]) /\ Found(format, file) \in Seq(FilePart)
  BY <1>2, RulesFit, FoundParts
<1>6. Ready(Format', Parts', job'.todo, job'.items, job'.names, job'.total, job'.seen)
  BY <1>3, <1>5, Started DEF RuleFits, Format, Parts
<1>7. Bodies(<<>>) = {}
  BY DEF Bodies
<1>8. NothingLostWithinLimits'
  <2> SUFFICES ASSUME ~Readable(format, file) PROVE NothingLostWithinLimits'
    BY <1>3 DEF NothingLostWithinLimits
  <2>1. Artifacts(Format'.head, job'.items) = <<>>
    BY <1>3 DEF Artifacts
  <2>2. Sizes(<<>>) = 0 /\ MaxTotal \in Nat /\ MaxArtifacts \in Nat
    BY SizesAreSums, SumOfNothing, ContainersAssumption
  <2>3. IsInjective([i \in DOMAIN <<>> |-> <<>>[i].name])
    BY DEF IsInjective
  <2>4. Cardinality({} \ {}) = 0
    BY FS_EmptySet
  <2>5. {<<>>[i].body : i \in DOMAIN <<>>} = {}
    OBVIOUS
  <2> QED BY <1>3, <2>1, <2>2, <2>3, <2>4, <2>5 DEF NothingLostWithinLimits, Format
<1> QED BY <1>3, <1>4, <1>6, <1>7, <1>8 DEF ContainersInv

\* A step of a call whose file stays the same.
LEMMA StillTyped ==
  ASSUME ContainersInv, job' \in [pc : {"idle", "reading", "done", "lost"}, format : {job.format},
                file : {job.file}, todo : {job'.todo}, items : {job'.items}, names : {job'.names},
                total : Nat, seen : {job'.seen}, stored : {job'.stored}]
  PROVE  /\ job' \in [pc : {"idle", "reading", "done", "lost"}, format : DOMAIN Rules,
                file : {job'.file}, todo : {job'.todo}, items : {job'.items}, names : {job'.names},
                total : Nat, seen : {job'.seen}, stored : {job'.stored}]
         /\ job'.format = job.format /\ job'.file = job.file
         /\ Format' = Format /\ Parts' = Parts
<1>1. job.format \in DOMAIN Rules
  BY DEF ContainersInv
<1>2. job'.format = job.format /\ job'.file = job.file
  OBVIOUS
<1> HIDE DEF ContainersInv
<1> QED BY <1>1, <1>2 DEF Format, Parts

\* A step of the loop after which the call is ready again.
LEMMA LoopFits ==
  ASSUME ContainersInv, job.pc = "reading",
         job' = [job EXCEPT !.todo = job'.todo, !.items = job'.items, !.names = job'.names,
                            !.total = job'.total, !.seen = job'.seen, !.stored = job'.stored],
         job'.total \in Nat, job'.stored = Bodies(job'.items),
         Ready(Format, Parts, job'.todo, job'.items, job'.names, job'.total, job'.seen)
  PROVE  ContainersInv'
<1>1. /\ job \in [pc : {"idle", "reading", "done", "lost"}, format : DOMAIN Rules,
                  file : {job.file}, todo : {job.todo}, items : {job.items}, names : {job.names},
                  total : Nat, seen : {job.seen}, stored : {job.stored}]
      /\ job.format \in DOMAIN Inputs /\ job.file \in Inputs[job.format]
  BY DEF ContainersInv
<1>2. /\ job'.pc = "reading"
      /\ job' \in [pc : {"idle", "reading", "done", "lost"}, format : {job.format},
                file : {job.file}, todo : {job'.todo}, items : {job'.items}, names : {job'.names},
                total : Nat, seen : {job'.seen}, stored : {job'.stored}]
  BY <1>1
<1>3. /\ job' \in [pc : {"idle", "reading", "done", "lost"}, format : DOMAIN Rules,
                file : {job'.file}, todo : {job'.todo}, items : {job'.items}, names : {job'.names},
                total : Nat, seen : {job'.seen}, stored : {job'.stored}]
      /\ job'.format = job.format /\ job'.file = job.file
      /\ Format' = Format /\ Parts' = Parts
  BY <1>2, StillTyped
<1> QED BY <1>1, <1>2, <1>3 DEF ContainersInv, NothingLostWithinLimits

\* What is known of the artifacts while the call runs.
LEMMA Running ==
  ASSUME ContainersInv, job.pc = "reading"
  PROVE  /\ Ready(Format, Parts, job.todo, job.items, job.names, job.total, job.seen)
         /\ job.stored = Bodies(job.items) /\ job.total \in Nat
         /\ RuleFits(job.format, Format) /\ Parts \in Seq(FilePart)
         /\ Format.big = "stop" => \A p \in ToSet(Parts) : p.real <= MaxItem
         /\ job \in [pc : {"idle", "reading", "done", "lost"}, format : {job.format},
                     file : {job.file}, todo : {job.todo}, items : {job.items},
                     names : {job.names}, total : Nat, seen : {job.seen}, stored : {job.stored}]
<1>1. job.pc # "idle"
  OBVIOUS
<1>2. /\ RuleFits(job.format, Format) /\ Parts \in Seq(FilePart)
      /\ Format.big = "stop" => \A p \in ToSet(Parts) : p.real <= MaxItem
  BY <1>1, Begun
<1> QED BY <1>2 DEF ContainersInv

\* A part that is passed over, or after which nothing more is read.
LEMMA PassingFits ==
  ASSUME ContainersInv, job.pc = "reading", job.todo # <<>>,
         NEW next \in {Tail(job.todo), <<>>}, NEW seen,
         job' = [job EXCEPT !.todo = next, !.seen = seen],
         Ample(Parts) =>
           /\ next = Tail(job.todo) /\ seen \subseteq Bodies(job.items)
           /\ Head(job.todo) \in Wanted(Format, Parts) => Head(job.todo).body \in Bodies(job.items)
  PROVE  ContainersInv'
<1> DEFINE rule == Format
           found == Parts
           todo == job.todo
           items == job.items
           names == job.names
           total == job.total
           before == job.seen
<1>1. /\ Ready(rule, found, todo, items, names, total, before) /\ total \in Nat
      /\ job.stored = Bodies(items) /\ found \in Seq(FilePart)
  BY Running
<1>2. job \in [pc : {"idle", "reading", "done", "lost"}, format : {job.format},
               file : {job.file}, todo : {todo}, items : {items},
               names : {names}, total : Nat, seen : {before}, stored : {job.stored}]
  BY Running
<1>3. /\ job'.todo = next /\ job'.seen = seen /\ job'.items = items
      /\ job'.names = names /\ job'.total = total /\ job'.stored = job.stored
      /\ job' = [job EXCEPT !.todo = job'.todo, !.items = job'.items, !.names = job'.names,
                            !.total = job'.total, !.seen = job'.seen, !.stored = job'.stored]
  BY <1>2
<1>4. /\ todo # <<>> /\ next \in {Tail(todo), <<>>}
      /\ Ample(found) =>
           /\ next = Tail(todo) /\ seen \subseteq Bodies(items)
           /\ Head(todo) \in Wanted(rule, found) => Head(todo).body \in Bodies(items)
  OBVIOUS
<1>5. Ready(rule, found, next, items, names, total, seen)
  <2> HIDE DEF rule, found, todo, items, names, total, before
  <2> QED BY ONLY <1>1, <1>4, NotTaken
<1>6. ContainersInv /\ job.pc = "reading"
  OBVIOUS
<1> QED BY <1>1, <1>3, <1>5, <1>6, LoopFits

LEMMA KeepingFits ==
  ASSUME ContainersInv, job.pc = "reading", job.todo # <<>>, Obtained(Head(job.todo), Format),
         NEW name \in Nat \X (Nat \ {0}), Format.collector => name \notin job.names,
         NEW size \in Nat, size <= Head(job.todo).real,
         Format.full # "never" =>
           ~(Len(job.items) >= MaxArtifacts) /\ job.total + size <= MaxTotal,
         Format.big # "never" => size <= MaxItem,
         job' = [job EXCEPT
           !.todo = Tail(job.todo),
           !.items = Append(job.items, [name |-> name, size |-> size, body |-> Head(job.todo).body]),
           !.names = job.names \cup {name}, !.total = job.total + size,
           !.seen = job.seen \cup {Head(job.todo).body},
           !.stored = job.stored \cup {Head(job.todo).body}]
  PROVE  ContainersInv'
<1> DEFINE rule == Format
           found == Parts
           todo == job.todo
           items == job.items
           names == job.names
           total == job.total
           before == job.seen
           item == [name |-> name, size |-> size, body |-> Head(todo).body]
           more == Append(items, item)
<1>1. /\ Ready(rule, found, todo, items, names, total, before) /\ total \in Nat
      /\ job.stored = Bodies(items) /\ found \in Seq(FilePart)
  BY Running
<1>2. job \in [pc : {"idle", "reading", "done", "lost"}, format : {job.format},
               file : {job.file}, todo : {todo}, items : {items},
               names : {names}, total : Nat, seen : {before}, stored : {job.stored}]
  BY Running
<1>3. /\ todo # <<>> /\ Obtained(Head(todo), rule) /\ size <= Head(todo).real
      /\ rule.collector => name \notin names
      /\ rule.big # "never" => size <= MaxItem
      /\ rule.full # "never" => ~(Len(items) >= MaxArtifacts) /\ total + size <= MaxTotal
  OBVIOUS
<1>4. job' = [job EXCEPT !.todo = Tail(todo), !.items = more, !.names = names \cup {name},
                         !.total = total + size, !.seen = before \cup {Head(todo).body},
                         !.stored = job.stored \cup {Head(todo).body}]
  OBVIOUS
<1>5. /\ Ready(rule, found, Tail(todo), more, names \cup {name}, total + size,
               before \cup {Head(todo).body})
      /\ Bodies(more) = Bodies(items) \cup {Head(todo).body} /\ total + size \in Nat
  <2> HIDE DEF rule, found, todo, items, names, total, before, more
  <2>1. Ready(rule, found, Tail(todo), Append(items, item), names \cup {name}, total + size,
              before \cup {Head(todo).body})
    BY ONLY <1>1, <1>3, name \in Nat \X (Nat \ {0}), size \in Nat, Taken
  <2>2. items \in Seq(Item) /\ todo \in Seq(FilePart)
    BY <1>1 DEF Ready, OfTheFile
  <2>3. Head(todo).body \in Nat
    BY <1>3, <2>2, SmallerSum
  <2>4. item \in Item /\ item.body = Head(todo).body
    BY <2>3 DEF Item
  <2>5. total + size \in Nat
    BY <1>1
  <2> HIDE DEF item
  <2> QED BY <2>1, <2>2, <2>4, <2>5, AppendedBodies DEF more
<1> HIDE DEF todo, items, names, total, before, more, item
<1>6. /\ job'.todo = Tail(todo) /\ job'.items = more /\ job'.names = names \cup {name}
      /\ job'.total = total + size /\ job'.seen = before \cup {Head(todo).body}
      /\ job'.stored = job.stored \cup {Head(todo).body}
      /\ job' = [job EXCEPT !.todo = job'.todo, !.items = job'.items, !.names = job'.names,
                            !.total = job'.total, !.seen = job'.seen, !.stored = job'.stored]
  BY ONLY <1>2, <1>4
<1>7. ContainersInv /\ job.pc = "reading"
  OBVIOUS
<1>8. job'.total \in Nat /\ job'.stored = Bodies(job'.items)
  BY ONLY <1>1, <1>5, <1>6
<1>9. Ready(Format, Parts, job'.todo, job'.items, job'.names, job'.total, job'.seen)
  BY ONLY <1>5, <1>6 DEF rule, found
<1> QED BY ONLY <1>6, <1>7, <1>8, <1>9, LoopFits

\* What is too much for the limits is not of a file that is within them.
LEMMA AmpleHasRoom ==
  ASSUME NEW rule, NEW found \in Seq(FilePart), NEW todo, NEW items, NEW names, NEW total \in Nat,
         NEW seen, Ready(rule, found, todo, items, names, total, seen), todo # <<>>, Ample(found)
  PROVE  /\ ~(Len(items) >= MaxArtifacts) /\ total + Head(todo).real <= MaxTotal
         /\ seen \subseteq Bodies(items)
<1>1. /\ Len(items) + Len(todo) <= Len(found) /\ Len(found) < MaxArtifacts
      /\ total + SumOf("real", todo) <= SumOf("real", found)
      /\ seen \subseteq Bodies(items) /\ SumOf("real", found) <= MaxTotal
  BY DEF Ready, AllToCome, Ample
<1>2. todo \in Seq(FilePart) /\ items \in Seq(Item)
  BY DEF Ready, OfTheFile
<1>3. /\ SumOf("real", todo) = Head(todo).real + SumOf("real", Tail(todo))
      /\ SumOf("real", Tail(todo)) \in Nat /\ Head(todo).real \in Nat
  BY <1>2, SmallerSum
<1>4. SumOf("real", found) \in Nat /\ MaxTotal \in Nat /\ MaxArtifacts \in Nat
  BY SumFacts, FieldsOfParts, ContainersAssumption
<1>5. Len(items) \in Nat /\ Len(todo) \in Nat /\ Len(found) \in Nat
  BY <1>2
<1>6. ~(Len(items) >= MaxArtifacts)
  BY <1>1, <1>4, <1>5
<1>7. total + Head(todo).real <= MaxTotal
  BY <1>1, <1>3, <1>4
<1> QED BY <1>1, <1>6, <1>7

LEMMA TakingFits ==
  ASSUME ContainersInv, job.pc = "reading", job.todo # <<>>, Obtained(Head(job.todo), Format),
         Take(Head(job.todo))
  PROVE  ContainersInv'
<1> DEFINE part == Head(job.todo)
           rule == Format
           size == IF rule.big = "cut" /\ part.real > MaxItem THEN MaxItem ELSE part.real
           full == rule.full # "never" /\ Len(job.items) >= MaxArtifacts
           over == rule.over # "never" /\ job.total + size > MaxTotal
           large == rule.big \in {"skip", "stop"} /\ size > MaxItem
           known == rule.dedup # "no" /\ part.body \in job.seen
           kept == ~full /\ ~over /\ ~large /\ ~known
           stops == \/ full /\ rule.full = "stop"
                    \/ over /\ rule.over = "stop"
                    \/ large /\ rule.big = "stop"
           name == IF rule.collector THEN FreshName(part.name, job.names) ELSE <<part.name, 1>>
           next == IF stops THEN <<>> ELSE Tail(job.todo)
           seen == IF rule.dedup = "found" THEN job.seen \cup {part.body} ELSE job.seen
<1>1. /\ Ready(rule, Parts, job.todo, job.items, job.names, job.total, job.seen)
      /\ job.total \in Nat /\ Parts \in Seq(FilePart)
      /\ RuleFits(job.format, rule)
      /\ rule.big = "stop" => \A p \in ToSet(Parts) : p.real <= MaxItem
  BY Running
<1>2. job' = [job EXCEPT
           !.todo = next,
           !.items = IF kept THEN Append(job.items, [name |-> name, size |-> size, body |-> part.body])
                     ELSE job.items,
           !.names = IF kept THEN job.names \cup {name} ELSE job.names,
           !.total = IF kept THEN job.total + size ELSE job.total,
           !.seen = IF kept \/ rule.dedup = "found" THEN job.seen \cup {part.body} ELSE job.seen,
           !.stored = IF kept THEN job.stored \cup {part.body} ELSE job.stored]
  BY DEF Take, Format
<1>3. job \in [pc : {"idle", "reading", "done", "lost"}, format : {job.format},
               file : {job.file}, todo : {job.todo}, items : {job.items},
               names : {job.names}, total : Nat, seen : {job.seen}, stored : {job.stored}]
  BY Running
<1>4. /\ job.todo \in Seq(FilePart) /\ part.real \in Nat /\ part.name \in Nat /\ part \in ToSet(Parts)
      /\ part \in FilePart
  <2>1. job.todo \in Seq(FilePart) /\ ToSet(job.todo) \subseteq Admitted(rule, Parts)
    BY <1>1 DEF Ready, OfTheFile
  <2>2. part \in ToSet(job.todo)
    BY <2>1, TailSet
  <2>3. part \in ToSet(Parts)
    BY <2>1, <2>2 DEF Admitted
  <2> QED BY <2>1, <2>3, SmallerSum
<1>5. size \in Nat /\ size <= part.real /\ MaxItem \in Nat
  BY <1>4, StructuresAssumption
<1>6. CASE kept
  <2>1. /\ name \in Nat \X (Nat \ {0})
        /\ rule.collector => name \notin job.names
    <3>1. IsFiniteSet(job.names)
      BY <1>1 DEF Ready, NamedApart
    <3>2. /\ FreshName(part.name, job.names) \notin job.names
          /\ FreshName(part.name, job.names) \in Nat \X (Nat \ {0})
      BY <1>4, <3>1, FreshIsNew
    <3>3. <<part.name, 1>> \in Nat \X (Nat \ {0})
      BY <1>4
    <3> QED BY <3>2, <3>3
  <2>2. rule.full # "never" =>
          ~(Len(job.items) >= MaxArtifacts) /\ job.total + size <= MaxTotal
    <3>1. rule.full # "never" => rule.over # "never"
      BY <1>1 DEF RuleFits
    <3>2. MaxTotal \in Nat
      BY ContainersAssumption
    <3> QED BY <1>1, <1>5, <1>6, <3>1, <3>2
  <2>3. rule.big # "never" => size <= MaxItem
    <3>1. rule.big \in {"skip", "stop", "cut", "never"}
      BY <1>1 DEF RuleFits
    <3> QED BY <1>4, <1>5, <1>6, <3>1
  <2>4. ~stops
    BY <1>6
  <2>5. job' = [job EXCEPT
           !.todo = Tail(job.todo),
           !.items = Append(job.items, [name |-> name, size |-> size, body |-> part.body]),
           !.names = job.names \cup {name}, !.total = job.total + size,
           !.seen = job.seen \cup {part.body}, !.stored = job.stored \cup {part.body}]
    BY ONLY <1>2, <1>6, <2>4
  <2>6. /\ ContainersInv /\ job.pc = "reading" /\ job.todo # <<>> /\ Obtained(part, Format)
    OBVIOUS
  <2> HIDE DEF size, full, over, large, known, kept, stops, name
  <2> QED BY ONLY <1>5, <2>1, <2>2, <2>3, <2>5, <2>6, KeepingFits DEF rule, part
<1>7. CASE ~kept
  <2>1. job' = [job EXCEPT !.todo = next, !.seen = seen]
    <3>1. job' = [job EXCEPT !.todo = next, !.items = job.items, !.names = job.names,
                             !.total = job.total, !.seen = seen, !.stored = job.stored]
      BY ONLY <1>2, <1>7
    <3> HIDE DEF next, seen
    <3> QED BY ONLY <1>3, <3>1
  <2>2. next \in {Tail(job.todo), <<>>}
    OBVIOUS
  <2>3. ASSUME Ample(Parts)
        PROVE  /\ next = Tail(job.todo) /\ seen \subseteq Bodies(job.items)
               /\ part \in Wanted(rule, Parts) => part.body \in Bodies(job.items)
    <3>1. /\ ~(Len(job.items) >= MaxArtifacts) /\ job.total + part.real <= MaxTotal
          /\ job.seen \subseteq Bodies(job.items)
      BY <1>1, <2>3, AmpleHasRoom
    <3>2. ~full /\ ~over
      <4>1. MaxTotal \in Nat
        BY ContainersAssumption
      <4> QED BY <1>1, <1>4, <1>5, <3>1, <4>1
    <3>3. large => rule.big = "skip" \/ rule.big = "stop"
      OBVIOUS
    <3>4. rule.big = "stop" => ~large
      BY <1>1, <1>4, <1>5
    <3>5. next = Tail(job.todo)
      BY <3>2, <3>4
    <3>6. ~large => part.body \in job.seen
      BY <1>7, <3>2
    <3>7. seen \subseteq Bodies(job.items)
      <4>1. rule.dedup = "found" => ~large
        BY <1>1, <3>3 DEF RuleFits
      <4> QED BY <3>1, <3>6, <4>1
    <3>8. part \in Wanted(rule, Parts) => ~large
      <4>1. part \in Wanted(rule, Parts) => part.real \in 1 .. MaxItem
        BY DEF Wanted
      <4> QED BY <1>4, <1>5, <4>1
    <3> QED BY <3>1, <3>5, <3>6, <3>7, <3>8
  <2>4. ContainersInv /\ job.pc = "reading" /\ job.todo # <<>>
    OBVIOUS
  <2> HIDE DEF next, seen, size, full, over, large, known, kept, stops, name
  <2> QED BY ONLY <2>1, <2>2, <2>3, <2>4, PassingFits DEF rule, part
<1> QED BY <1>6, <1>7

LEMMA ReadingFits == ContainersInv /\ ReadPart => ContainersInv'
<1> SUFFICES ASSUME ContainersInv, ReadPart PROVE ContainersInv'
  OBVIOUS
<1> DEFINE part == Head(job.todo)
           effect == CASE part.kind \in Format.passes -> "skip"
                       [] part.reads = "named" -> Format.named
                       [] part.reads = "other" -> Format.other
                       [] OTHER -> "none"
<1>1. job.pc = "reading" /\ job.todo # <<>>
  BY DEF ReadPart
<1>2. \/ effect = "none" /\ Take(part)
      \/ effect = "skip" /\ job' = [job EXCEPT !.todo = Tail(@)]
      \/ /\ effect \in {"lose", "raise"}
         /\ job' = [job EXCEPT !.pc = "lost", !.todo = <<>>, !.items = <<>>]
  BY DEF ReadPart, Format
<1>3. /\ Ready(Format, Parts, job.todo, job.items, job.names, job.total, job.seen)
      /\ job.total \in Nat /\ Parts \in Seq(FilePart) /\ RuleFits(job.format, Format)
      /\ job \in [pc : {"idle", "reading", "done", "lost"}, format : {job.format},
                  file : {job.file}, todo : {job.todo}, items : {job.items},
                  names : {job.names}, total : Nat, seen : {job.seen}, stored : {job.stored}]
  BY <1>1, Running
<1>4. part.reads \in {"ok", "named", "other"}
  <2>1. job.todo \in Seq(FilePart)
    BY <1>3 DEF Ready, OfTheFile
  <2>2. part \in FilePart
    BY <1>1, <2>1, SmallerSum
  <2> QED BY <2>2 DEF FilePart
<1>5. CASE effect = "none" /\ Take(part)
  <2>1. Obtained(part, Format)
    BY <1>3, <1>4, <1>5 DEF RuleFits, Obtained
  <2> QED BY <1>1, <1>5, <2>1, TakingFits
<1>6. CASE effect = "skip" /\ job' = [job EXCEPT !.todo = Tail(@)]
  <2>1. ~Obtained(part, Format)
    BY <1>6 DEF Obtained
  <2>2. part \notin Wanted(Format, Parts)
    BY <2>1 DEF Wanted
  <2>3. job' = [job EXCEPT !.todo = Tail(job.todo), !.seen = job.seen]
    BY <1>3, <1>6
  <2>4. Ample(Parts) => job.seen \subseteq Bodies(job.items)
    BY <1>1, <1>3, AmpleHasRoom
  <2> QED BY <1>1, <2>2, <2>3, <2>4, PassingFits
<1>7. CASE job' = [job EXCEPT !.pc = "lost", !.todo = <<>>, !.items = <<>>]
  <2>1. /\ job'.pc = "lost"
        /\ job' \in [pc : {"idle", "reading", "done", "lost"}, format : {job.format},
                     file : {job.file}, todo : {job'.todo}, items : {job'.items},
                     names : {job'.names}, total : Nat, seen : {job'.seen}, stored : {job'.stored}]
    BY <1>3, <1>7
  <2>2. /\ job' \in [pc : {"idle", "reading", "done", "lost"}, format : DOMAIN Rules,
                     file : {job'.file}, todo : {job'.todo}, items : {job'.items},
                     names : {job'.names}, total : Nat, seen : {job'.seen}, stored : {job'.stored}]
        /\ job'.format = job.format /\ job'.file = job.file
    BY <2>1, StillTyped
  <2>3. job.format \in DOMAIN Inputs /\ job.file \in Inputs[job.format]
    BY <1>1 DEF ContainersInv
  <2> QED BY <2>1, <2>2, <2>3 DEF ContainersInv, NothingLostWithinLimits
<1> QED BY <1>2, <1>5, <1>6, <1>7

LEMMA FinishingFits == ContainersInv /\ FinishContainer => ContainersInv'
<1> SUFFICES ASSUME ContainersInv, FinishContainer PROVE ContainersInv'
  OBVIOUS
<1> DEFINE rule == Format
           found == Parts
           items == job.items
           given == Headed(rule.head, items)
           artifacts == Artifacts(rule.head, given)
<1>1. /\ job.pc = "reading" /\ job.todo = <<>>
      /\ job' = [job EXCEPT !.pc = "done", !.items = given]
  BY DEF FinishContainer, Format
<1>2. /\ Ready(rule, found, <<>>, items, job.names, job.total, job.seen)
      /\ job.stored = Bodies(items) /\ job.total \in Nat /\ found \in Seq(FilePart)
      /\ RuleFits(job.format, rule)
      /\ job \in [pc : {"idle", "reading", "done", "lost"}, format : {job.format},
                  file : {job.file}, todo : {job.todo}, items : {items},
                  names : {job.names}, total : Nat, seen : {job.seen}, stored : {job.stored}]
  BY <1>1, Running
<1>3. /\ job'.pc = "done" /\ job'.items = given /\ job'.stored = job.stored
      /\ job' \in [pc : {"idle", "reading", "done", "lost"}, format : {job.format},
                   file : {job.file}, todo : {job'.todo}, items : {job'.items},
                   names : {job'.names}, total : Nat, seen : {job'.seen}, stored : {job'.stored}]
  BY <1>1, <1>2
<1>4. /\ job' \in [pc : {"idle", "reading", "done", "lost"}, format : DOMAIN Rules,
                   file : {job'.file}, todo : {job'.todo}, items : {job'.items},
                   names : {job'.names}, total : Nat, seen : {job'.seen}, stored : {job'.stored}]
      /\ job'.format = job.format /\ job'.file = job.file
      /\ Format' = Format /\ Parts' = Parts
  BY <1>3, StillTyped
<1>5. /\ items \in Seq(Item) /\ rule.head \in {"none", "summary", "metadata"}
      /\ rule.head = "summary" => Len(items) <= MaxArtifacts
  <2>1. /\ items \in Seq(Item)
        /\ rule.full # "never" => Len(items) <= MaxArtifacts
    BY <1>2 DEF Ready, OfTheFile, WithinLimits
  <2> QED BY <1>2, <2>1 DEF RuleFits
<1>6. PICK n \in 0 .. Len(items) :
        /\ artifacts = SubSeq(items, 1, n)
        /\ n # Len(items) => /\ rule.head = "summary" /\ n = Len(items) - 1
                             /\ Len(items) = MaxArtifacts
        /\ rule.head = "none" => given = items
        /\ rule.head # "none" => given = <<Head_>> \o SubSeq(items, 1, n)
  <2> HIDE DEF rule, items
  <2> QED BY <1>5, GivenArtifacts
<1>7. rule.full = "never" <=> rule.over = "never"
  BY <1>2 DEF RuleFits
<1> HIDE DEF rule, found, items, given, artifacts
<1>8. /\ rule.full # "never" => Len(artifacts) <= MaxArtifacts /\ Sizes(artifacts) <= MaxTotal
      /\ \A i \in DOMAIN artifacts : rule.big # "never" => artifacts[i].size <= MaxItem
      /\ \A i \in DOMAIN artifacts : \E j \in DOMAIN found :
           /\ found[j].body = artifacts[i].body
           /\ ~Refused(found[j], rule) /\ Obtained(found[j], rule)
      /\ Cardinality(Bodies(items) \ Bodies(artifacts)) <= (IF rule.head = "summary" THEN 1 ELSE 0)
      /\ Ample(found) => {part.body : part \in Wanted(rule, found)} \subseteq Bodies(artifacts)
  <2> DEFINE names == job.names
             total == job.total
             seen == job.seen
  <2>1. /\ Ready(rule, found, <<>>, items, names, total, seen) /\ total \in Nat
        /\ found \in Seq(FilePart) /\ n \in 0 .. Len(items)
        /\ artifacts = SubSeq(items, 1, n)
        /\ n # Len(items) => /\ rule.head = "summary" /\ n = Len(items) - 1
                             /\ Len(items) = MaxArtifacts
    BY <1>2, <1>6
  <2> HIDE DEF names, total, seen
  <2>2. GivenOut(rule, found, items, artifacts)
    BY ONLY <1>7, <2>1, ComesOut
  <2> QED BY ONLY <2>2 DEF GivenOut
<1>9. rule.collector => IsInjective([i \in DOMAIN given |-> given[i].name])
  <2>1. /\ NamedApart(rule, items, job.names)
        /\ rule.collector => rule.head \in {"none", "summary"}
    BY <1>2, <1>5 DEF Ready, RuleFits
  <2>2. /\ rule.head = "none" => given = items
        /\ rule.head = "summary" => given = <<Head_>> \o SubSeq(items, 1, n)
    BY <1>6
  <2> QED BY <1>5, <2>1, <2>2, NamesComeOut
<1>10. Sizes(found) <= MaxTotal /\ RealSizes(found) <= MaxTotal /\ Len(found) < MaxArtifacts
       => Ample(found)
  BY <1>2, SizesAreSums DEF Ample
<1>11. /\ Rules[job'.format] = rule /\ Found(job'.format, job'.file) = found
       /\ Artifacts(rule.head, job'.items) = artifacts
       /\ {artifacts[i].body : i \in DOMAIN artifacts} = Bodies(artifacts)
  BY <1>3, <1>4 DEF rule, found, artifacts, Format, Parts, Bodies
<1>12. NothingLostWithinLimits'
  <2> DEFINE rule2 == Rules[job'.format]
             found2 == Found(job'.format, job'.file)
             artifacts2 == Artifacts(rule2.head, job'.items)
             bodies2 == {artifacts2[i].body : i \in DOMAIN artifacts2}
  <2>1. rule2 = rule /\ found2 = found
    BY <1>11
  <2>2. artifacts2 = artifacts
    BY <1>11
  <2>3. bodies2 = Bodies(artifacts)
    BY <2>2 DEF Bodies
  <2>4. IsInjective([i \in DOMAIN job'.items |-> job'.items[i].name]) <=>
        IsInjective([i \in DOMAIN given |-> given[i].name])
    BY <1>3
  <2>5. {part.body : part \in Wanted(rule2, found2)} = {part.body : part \in Wanted(rule, found)}
    BY <2>1
  <2> HIDE DEF rule2, found2, artifacts2, bodies2
  <2>6. /\ rule2.full # "never" => Len(artifacts2) <= MaxArtifacts /\ Sizes(artifacts2) <= MaxTotal
        /\ \A i \in DOMAIN artifacts2 : rule2.big # "never" => artifacts2[i].size <= MaxItem
        /\ \A i \in DOMAIN artifacts2 : \E j \in DOMAIN found2 :
             /\ found2[j].body = artifacts2[i].body
             /\ ~Refused(found2[j], rule2) /\ Obtained(found2[j], rule2)
    BY ONLY <1>8, <2>1, <2>2
  <2>7. Cardinality(job'.stored \ bodies2) <= (IF rule2.head = "summary" THEN 1 ELSE 0)
    BY ONLY <1>2, <1>3, <1>8, <2>1, <2>3
  <2>8. /\ Len(found2) < MaxArtifacts /\ Readable(job'.format, job'.file)
        /\ Sizes(found2) <= MaxTotal /\ RealSizes(found2) <= MaxTotal
        => {part.body : part \in Wanted(rule2, found2)} \subseteq bodies2
    BY ONLY <1>8, <1>10, <2>1, <2>3, <2>5
  <2>9. rule2.collector => IsInjective([i \in DOMAIN job'.items |-> job'.items[i].name])
    BY ONLY <1>9, <2>1, <2>4
  <2> QED BY ONLY <2>6, <2>7, <2>8, <2>9
          DEF NothingLostWithinLimits, rule2, found2, artifacts2, bodies2
<1>13. job.format \in DOMAIN Inputs /\ job.file \in Inputs[job.format]
  BY <1>1 DEF ContainersInv
<1> QED BY <1>3, <1>4, <1>12, <1>13 DEF ContainersInv

\* What is promised of the call, as a formula about a value of job.
Promised(call) ==
    LET rule == Rules[call.format]
        found == Found(call.format, call.file)
        limited == rule.full # "never"
        artifacts == Artifacts(rule.head, call.items)
        bodies == {artifacts[i].body : i \in DOMAIN artifacts} IN
    /\ limited => Len(artifacts) <= MaxArtifacts /\ Sizes(artifacts) <= MaxTotal
    /\ \A i \in DOMAIN artifacts : rule.big # "never" => artifacts[i].size <= MaxItem
    /\ rule.collector => IsInjective([i \in DOMAIN call.items |-> call.items[i].name])
    /\ \A i \in DOMAIN artifacts : \E j \in DOMAIN found :
          /\ found[j].body = artifacts[i].body
          /\ ~Refused(found[j], rule) /\ Obtained(found[j], rule)
    /\ Cardinality(call.stored \ bodies) <= (IF rule.head = "summary" THEN 1 ELSE 0)
    /\ /\ Len(found) < MaxArtifacts /\ Readable(call.format, call.file)
       /\ Sizes(found) <= MaxTotal /\ RealSizes(found) <= MaxTotal
       => {part.body : part \in Wanted(rule, found)} \subseteq bodies

LEMMA StaysPromised == NothingLostWithinLimits /\ job' = job => NothingLostWithinLimits'
<1>1. NothingLostWithinLimits => (job.pc = "done" => Promised(job))
  BY DEF NothingLostWithinLimits, Promised
<1>2. (job'.pc = "done" => Promised(job')) => NothingLostWithinLimits'
  BY DEF NothingLostWithinLimits, Promised
<1> QED BY <1>1, <1>2

\* Whatever a container holds and declares, the artifacts taken out of it stay
\* within the limits, bear names of their own, are none that the format's rule
\* refuses, and lack none that could be had when the container is within all
\* limits by itself: for any limits, any files and any rule of the 26 formats
\* (base.py, structured.py, steganography.py, executable_formats.py).
THEOREM NothingIsLost == ContainersSpec => []NothingLostWithinLimits
<1>1. ContainersInit => ContainersInv
  <2> SUFFICES ASSUME ContainersInit PROVE ContainersInv
    OBVIOUS
  <2>1. "zip" \in DOMAIN Rules
    BY DEF Rules
  <2>2. job.pc = "idle" /\ job.format = "zip"
        /\ job \in [pc : {"idle", "reading", "done", "lost"}, format : DOMAIN Rules,
                    file : {job.file}, todo : {job.todo}, items : {job.items},
                    names : {job.names}, total : Nat, seen : {job.seen}, stored : {job.stored}]
    BY <2>1 DEF ContainersInit, Idle
  <2> QED BY <2>2 DEF ContainersInv, NothingLostWithinLimits
<1>2. ContainersInv /\ [ContainersNext]_job => ContainersInv'
  <2> SUFFICES ASSUME ContainersInv, [ContainersNext]_job PROVE ContainersInv'
    OBVIOUS
  <2>1. CASE OpenContainer
    BY <2>1, OpeningFits
  <2>2. CASE ReadPart
    BY <2>2, ReadingFits
  <2>3. CASE FinishContainer
    BY <2>3, FinishingFits
  <2>4. CASE NextAnalyzer
    BY <2>4, IdleFits DEF NextAnalyzer
  <2>5. CASE UNCHANGED job
    <3>1. Format' = Format /\ Parts' = Parts
      BY <2>5 DEF Format, Parts
    <3>2. NothingLostWithinLimits'
      <4>1. job' = job /\ NothingLostWithinLimits
        BY <2>5 DEF ContainersInv
      <4> QED BY <4>1, StaysPromised
    <3> QED BY <2>5, <3>1, <3>2 DEF ContainersInv
  <2> QED BY <2>1, <2>2, <2>3, <2>4, <2>5 DEF ContainersNext
<1>3. ContainersInv => NothingLostWithinLimits
  BY DEF ContainersInv
<1> QED BY <1>1, <1>2, <1>3, PTL DEF ContainersSpec


-----------------------------------------------------------------------------
(* What the decoders meet *)

LEMMA NumbersInOrder ==
  ASSUME NEW n \in Nat
  PROVE  /\ UpTo_(n) \in Seq(1 .. n) /\ Len(UpTo_(n)) = n
         /\ \A k \in 1 .. n : UpTo_(n)[k] = k
<1>1. UpTo_(n) \in [1 .. n -> 1 .. n]
  BY DEF UpTo_
<1>2. UpTo_(n) \in Seq(1 .. n) /\ Len(UpTo_(n)) = n
  BY <1>1, SMTT(30)
<1> QED BY <1>2 DEF UpTo_

PeelStep(r, acc, layer) == Peel(acc, layer)
PeelStart(r) == [ends |-> FALSE, last |-> <<>>]
PeelHolds(r, s, k, acc) ==
    acc.last = <<>> \/ acc.last \in Seq(Piece)
Peeling == INSTANCE FoldInduction WITH Step <- PeelStep, Start <- PeelStart, Holds <- PeelHolds

LEMMA LayersAreParts ==
  ASSUME NEW file \in Seq(Piece)
  PROVE  Layers(file) \in Seq(Piece)
<1>1. <<>> \in Seq(Piece) /\ <<Part("bad", 0)>> \in Seq(Piece)
  BY DEF Part, Piece
<1>2. CASE file # <<>>
  <2> DEFINE s == SubSeq(file, 1, Lesser(3, Len(file)))
  <2>1. s \in Seq(Piece)
    <3>1. Lesser(3, Len(file)) \in 0 .. Len(file)
      BY DEF Lesser
    <3> QED BY <3>1
  <2> HIDE DEF s
  <2>2. PeelHolds(0, s, 0, PeelStart(0))
    BY DEF PeelHolds, PeelStart
  <2>3. ASSUME NEW k \in 1 .. Len(s), NEW a, PeelHolds(0, s, k - 1, a)
        PROVE  PeelHolds(0, s, k, PeelStep(0, a, s[k]))
    <3>1. s[k] \in Piece /\ <<s[k]>> \in Seq(Piece)
      BY <2>1
    <3>2. a.last = <<>> \/ a.last \in Seq(Piece)
      BY <2>3 DEF PeelHolds
    <3>3. CASE a.ends \/ s[k].state # "good"
      BY <3>2, <3>3 DEF PeelHolds, PeelStep, Peel
    <3>4. CASE ~(a.ends \/ s[k].state # "good")
      BY <3>1, <3>4 DEF PeelHolds, PeelStep, Peel
    <3> QED BY <3>3, <3>4
  <2>4. PeelHolds(0, s, Len(s), Peeling!Folded(0, s))
    BY <2>1, <2>2, <2>3, Peeling!FoldHolds
  <2>5. Peeling!Folded(0, s).last = Peeled(s)
    BY DEF Peeled, Peeling!Folded, PeelStep, PeelStart, FoldLeft, MapThenFoldSet, Max,
           Peeling!FoldLeft, Peeling!MapThenFoldSet, Peeling!Max
  <2>6. Peeled(s) = <<>> \/ Peeled(s) \in Seq(Piece)
    BY <2>4, <2>5 DEF PeelHolds
  <2>7. Layers(file) = IF Peeled(s) = <<>> THEN <<Part("bad", 0)>> ELSE Peeled(s)
    BY <1>2 DEF Layers, s
  <2> QED BY <1>1, <2>6, <2>7
<1> QED BY <1>1, <1>2 DEF Layers

LEMMA XorKeysAreParts ==
  ASSUME NEW file, file.size \in Nat
  PROVE  XorKeys(file) \in Seq(Piece)
<1>1. <<Part("bad", 0)>> \in Seq(Piece) /\ <<Part("good", file.size)>> \in Seq(Piece)
  BY DEF Part, Piece
<1>2. XorKeys(file) \in {<<Part("bad", 0)>>, <<Part("good", file.size)>>}
  BY Zenon DEF XorKeys
<1> QED BY <1>1, <1>2

RunStep(r, acc, statement) == Run(acc, statement)
RunStart(r) == <<>>
RunHolds(r, s, k, acc) == acc \in Seq(Piece)
Emulating == INSTANCE FoldInduction WITH Step <- RunStep, Start <- RunStart, Holds <- RunHolds

LEMMA EmulatedAreParts ==
  ASSUME NEW file \in Seq(Statement)
  PROVE  Emulated(file) \in Seq(Piece)
<1>1. RunHolds(0, file, 0, RunStart(0))
  BY DEF RunHolds, RunStart
<1>2. ASSUME NEW k \in 1 .. Len(file), NEW a, RunHolds(0, file, k - 1, a)
      PROVE  RunHolds(0, file, k, RunStep(0, a, file[k]))
  <2>1. file[k] \in Statement
    OBVIOUS
  <2>2. <<Part("bad", 0)>> \in Seq(Piece) /\ <<Part("good", file[k].size)>> \in Seq(Piece)
    BY <2>1 DEF Part, Piece, Statement
  <2>3. Run(a, file[k]) \in {a, <<Part("bad", 0)>>, <<Part("good", file[k].size)>>}
    BY DEF Run
  <2> QED BY <1>2, <2>2, <2>3 DEF RunHolds, RunStep
<1>3. RunHolds(0, file, Len(file), Emulating!Folded(0, file))
  BY <1>1, <1>2, Emulating!FoldHolds
<1>4. Emulating!Folded(0, file) = Emulated(file)
  BY DEF Emulated, Emulating!Folded, RunStep, RunStart, FoldLeft, MapThenFoldSet, Max,
         Emulating!FoldLeft, Emulating!MapThenFoldSet, Emulating!Max
<1> QED BY <1>3, <1>4 DEF RunHolds

-----------------------------------------------------------------------------
(* Parts in a state *)

StateStep(states, kept, part) == IF part.state \in states THEN Append(kept, part) ELSE kept
StateStart(states) == <<>>
StateHolds(states, s, k, kept) ==
    kept \in Seq({part \in Nested : part.state \in states})
Sieving == INSTANCE FoldInduction WITH Step <- StateStep, Start <- StateStart, Holds <- StateHolds

LEMMA InStateIsFolded ==
  ASSUME NEW s, NEW states
  PROVE  Sieving!Folded(states, s) = InState(s, states)
  BY DEF InState, Sieving!Folded, StateStep, StateStart, FoldLeft, MapThenFoldSet, Max,
         Sieving!FoldLeft, Sieving!MapThenFoldSet, Sieving!Max

LEMMA InStateFacts ==
  ASSUME NEW s \in Seq(Nested), NEW states
  PROVE  InState(s, states) \in Seq({part \in Nested : part.state \in states})
<1>1. StateHolds(states, s, 0, StateStart(states))
  BY DEF StateHolds, StateStart
<1>2. ASSUME NEW k \in 1 .. Len(s), NEW a, StateHolds(states, s, k - 1, a)
      PROVE  StateHolds(states, s, k, StateStep(states, a, s[k]))
  <2>1. s[k] \in Nested
    OBVIOUS
  <2> QED BY <1>2, <2>1 DEF StateHolds, StateStep
<1>3. StateHolds(states, s, Len(s), Sieving!Folded(states, s))
  BY <1>1, <1>2, Sieving!FoldHolds
<1> QED BY <1>3, InStateIsFolded DEF StateHolds

LEMMA ShallowAreParts ==
  ASSUME NEW file \in Seq(Nested)
  PROVE  Shallow(file) \in Seq(Piece)
<1>1. Shallow(file) \in Seq({part \in Nested : part.state \in {"good", "cut", "bad"}})
  BY InStateFacts DEF Shallow
<1>2. {part \in Nested : part.state \in {"good", "cut", "bad"}} \subseteq Piece
  BY DEF Nested, Piece
<1> QED BY <1>1, <1>2

\* Of one more part, it is kept or it is not.
LEMMA InStateAppends ==
  ASSUME NEW s \in Seq(Nested), NEW x \in Nested, NEW states
  PROVE  InState(Append(s, x), states)
           = IF x.state \in states THEN Append(InState(s, states), x) ELSE InState(s, states)
<1>1. Sieving!Folded(states, Append(s, x)) = StateStep(states, Sieving!Folded(states, s), x)
  BY Sieving!FoldAppends
<1> QED BY <1>1, InStateIsFolded DEF StateStep

LEMMA InStateOfNothing == ASSUME NEW states PROVE InState(<<>>, states) = <<>>
  BY Sieving!FoldOfNothing, InStateIsFolded DEF StateStart

-----------------------------------------------------------------------------
(* The objects of a PDF *)

IsTable(table) == \A n \in DOMAIN table : table[n] \in PdfObject

LEMMA PackedObjects == Numbered({<<>>}) \subseteq PdfObject
<1>1. <<>> \in Seq(Numbered({<<>>}))
  OBVIOUS
<1> QED BY <1>1 DEF PdfObject, Numbered

LEMMA DefinedTable ==
  ASSUME NEW table, IsTable(table), NEW object \in PdfObject
  PROVE  IsTable(Define(table, object)) /\ IsTable(Add(table, object))
<1>1. IsTable(Define(table, object))
  <2>1. CASE object.kind = "null" /\ object.num \in DOMAIN table
    BY <2>1 DEF Define
  <2>2. CASE ~(object.kind = "null" /\ object.num \in DOMAIN table)
    <3>1. Define(table, object) = [n \in DOMAIN table \cup {object.num} |->
                                     IF n = object.num THEN object ELSE table[n]]
      BY <2>2, Zenon DEF Define
    <3> DEFINE wider == [n \in DOMAIN table \cup {object.num} |->
                           IF n = object.num THEN object ELSE table[n]]
    <3>2. \A n \in DOMAIN wider : wider[n] \in PdfObject
      BY DEF IsTable
    <3> HIDE DEF wider
    <3> QED BY <3>1, <3>2 DEF IsTable, wider
  <2> QED BY <2>1, <2>2
<1>2. CASE object.num \in DOMAIN table
  BY <1>1, <1>2 DEF Add
<1>3. CASE object.num \notin DOMAIN table
  BY <1>1, <1>3 DEF Add
<1> QED BY <1>1, <1>2, <1>3

ScanStep(r, table, object) == Define(table, object)
ScanStart(r) == <<>>
ScanHolds(r, s, k, table) == IsTable(table)
Scanning == INSTANCE FoldInduction WITH Step <- ScanStep, Start <- ScanStart, Holds <- ScanHolds

LEMMA ScannedTable ==
  ASSUME NEW file \in Seq(PdfObject)
  PROVE  IsTable(Scanned(file))
<1>1. ScanHolds(0, file, 0, ScanStart(0))
  BY DEF ScanHolds, ScanStart, IsTable
<1>2. ASSUME NEW k \in 1 .. Len(file), NEW a, ScanHolds(0, file, k - 1, a)
      PROVE  ScanHolds(0, file, k, ScanStep(0, a, file[k]))
  <2>1. file[k] \in PdfObject
    OBVIOUS
  <2> QED BY <1>2, <2>1, DefinedTable DEF ScanHolds, ScanStep
<1>3. ScanHolds(0, file, Len(file), Scanning!Folded(0, file))
  BY <1>1, <1>2, Scanning!FoldHolds
<1>4. Scanning!Folded(0, file) = Scanned(file)
  BY DEF Scanned, Scanning!Folded, ScanStep, ScanStart, FoldLeft, MapThenFoldSet, Max,
         Scanning!FoldLeft, Scanning!MapThenFoldSet, Scanning!Max
<1> QED BY <1>3, <1>4 DEF ScanHolds

AddStep(table, t, object) == Add(t, object)
AddStart(table) == table
AddHolds(table, s, k, t) == IsTable(t)
Adding == INSTANCE FoldInduction WITH Step <- AddStep, Start <- AddStart, Holds <- AddHolds

LEMMA AddedTable ==
  ASSUME NEW table, IsTable(table), NEW objects \in Seq(Numbered({<<>>}))
  PROVE  IsTable(Added(table, objects))
<1>1. AddHolds(table, objects, 0, AddStart(table))
  BY DEF AddHolds, AddStart
<1>2. ASSUME NEW k \in 1 .. Len(objects), NEW a, AddHolds(table, objects, k - 1, a)
      PROVE  AddHolds(table, objects, k, AddStep(table, a, objects[k]))
  <2>1. objects[k] \in PdfObject
    <3>1. objects[k] \in Numbered({<<>>})
      OBVIOUS
    <3> QED BY <3>1, PackedObjects
  <2> QED BY <1>2, <2>1, DefinedTable DEF AddHolds, AddStep
<1>3. AddHolds(table, objects, Len(objects), Adding!Folded(table, objects))
  BY <1>1, <1>2, Adding!FoldHolds
<1>4. Adding!Folded(table, objects) = Added(table, objects)
  BY DEF Added, Adding!Folded, AddStep, AddStart, FoldLeft, MapThenFoldSet, Max,
         Adding!FoldLeft, Adding!MapThenFoldSet, Adding!Max
<1> QED BY <1>3, <1>4 DEF AddHolds

\* Every number of the file is in the table once the file was scanned.
UnpackStep(top, table, object) == Unpack(top, table, object)
UnpackStart(top) == top
UnpackHolds(top, s, k, table) == IsTable(table)
Unpacking ==
  INSTANCE FoldInduction WITH Step <- UnpackStep, Start <- UnpackStart, Holds <- UnpackHolds

DefinesHolds(r, s, k, table) == {s[i].num : i \in 1 .. k} \subseteq DOMAIN table
Defining == INSTANCE FoldInduction WITH Step <- ScanStep, Start <- ScanStart, Holds <- DefinesHolds

LEMMA ScannedNumbers ==
  ASSUME NEW file \in Seq(PdfObject)
  PROVE  \A k \in 1 .. Len(file) : file[k].num \in DOMAIN Scanned(file)
<1>1. DefinesHolds(0, file, 0, ScanStart(0))
  BY DEF DefinesHolds
<1>2. ASSUME NEW k \in 1 .. Len(file), NEW a, DefinesHolds(0, file, k - 1, a)
      PROVE  DefinesHolds(0, file, k, ScanStep(0, a, file[k]))
  <2>1. \A i \in 1 .. k : i \in 1 .. k - 1 \/ i = k
    OBVIOUS
  <2>2. DOMAIN Define(a, file[k]) = DOMAIN a \cup {file[k].num}
    <3>1. CASE file[k].kind = "null" /\ file[k].num \in DOMAIN a
      BY <3>1 DEF Define
    <3>2. CASE ~(file[k].kind = "null" /\ file[k].num \in DOMAIN a)
      BY <3>2 DEF Define
    <3> QED BY <3>1, <3>2
  <2> QED BY <1>2, <2>1, <2>2 DEF DefinesHolds, ScanStep
<1>3. DefinesHolds(0, file, Len(file), Defining!Folded(0, file))
  BY <1>1, <1>2, Defining!FoldHolds
<1>4. Defining!Folded(0, file) = Scanned(file)
  BY DEF Scanned, Defining!Folded, ScanStep, ScanStart, FoldLeft, MapThenFoldSet, Max,
         Defining!FoldLeft, Defining!MapThenFoldSet, Defining!Max
<1> QED BY <1>3, <1>4 DEF DefinesHolds

LEMMA PdfTableIsTable ==
  ASSUME NEW file \in Seq(PdfObject)
  PROVE  IsTable(PdfTable(file))
<1> DEFINE top == Scanned(file)
<1>1. UnpackHolds(top, file, 0, UnpackStart(top))
  BY ScannedTable DEF UnpackHolds, UnpackStart
<1>2. ASSUME NEW k \in 1 .. Len(file), NEW a, UnpackHolds(top, file, k - 1, a)
      PROVE  UnpackHolds(top, file, k, UnpackStep(top, a, file[k]))
  <2>1. top[file[k].num] \in PdfObject
    BY ScannedTable, ScannedNumbers DEF IsTable
  <2>2. top[file[k].num].holds \in Seq(Numbered({<<>>}))
    BY <2>1 DEF PdfObject, Numbered
  <2>3. IsTable(a)
    BY <1>2 DEF UnpackHolds
  <2>4. IsTable(Added(a, top[file[k].num].holds))
    BY <2>2, <2>3, AddedTable
  <2> HIDE DEF top
  <2>5. Unpack(top, a, file[k]) \in {a, Added(a, top[file[k].num].holds)}
    BY DEF Unpack
  <2> QED BY <2>3, <2>4, <2>5 DEF UnpackHolds, UnpackStep
<1>3. UnpackHolds(top, file, Len(file), Unpacking!Folded(top, file))
  <2> HIDE DEF top
  <2> QED BY <1>1, <1>2, Unpacking!FoldHolds
<1>4. Unpacking!Folded(top, file) = PdfTable(file)
  BY DEF PdfTable, Unpacking!Folded, UnpackStep, UnpackStart, FoldLeft, MapThenFoldSet, Max,
         Unpacking!FoldLeft, Unpacking!MapThenFoldSet, Unpacking!Max
<1> QED BY <1>3, <1>4 DEF UnpackHolds

\* A part of a PDF is never empty.
Giving == {part \in Piece : part.size > 0}

LEMMA BodySize ==
  ASSUME NEW object \in PdfObject
  PROVE  PdfBody(object) \in Piece
<1>1. /\ object.size \in Nat /\ object.raw \in Nat /\ MaxOutput \in Nat
      /\ object.state \in {"good", "cut", "bad"}
  BY DecodingAssumption DEF PdfObject, Numbered
<1>2. Lesser(object.size, MaxOutput) \in Nat
  BY <1>1 DEF Lesser
<1>3. \A state \in {"good", "cut", "bad"}, size \in Nat : Part(state, size) \in Piece
  BY DEF Part, Piece
<1>4. PdfBody(object) \in {Part("good", 0), Part("bad", object.raw),
                          Part("cut", Lesser(object.size, MaxOutput)),
                          Part(object.state, object.size)}
  BY DEF PdfBody
<1> QED BY <1>1, <1>2, <1>3, <1>4

LEMMA ScriptSize ==
  ASSUME NEW table, IsTable(table), NEW n \in DOMAIN table
  PROVE  Script(table, n) \in Piece
<1>0. Part("good", 0) \in Piece
  BY DEF Part, Piece
<1>1. CASE table[n].kind = "null" \/ table[n].js = 0
  BY <1>0, <1>1 DEF Script
<1>2. CASE ~(table[n].kind = "null" \/ table[n].js = 0)
  <2> DEFINE target == Resolved(table, table[n].js)
  <2>1. target = 0 \/ target \in DOMAIN table
    BY Zenon DEF Resolved
  <2>2. Script(table, n) = IF target = 0 THEN Part("good", 0) ELSE PdfBody(table[target])
    BY <1>2 DEF Script
  <2> HIDE DEF target
  <2> QED BY <1>0, <2>1, <2>2, BodySize DEF IsTable
<1> QED BY <1>1, <1>2

LEMMA LabelledParts ==
  ASSUME NEW part \in Piece
  PROVE  Labelled(part) \in Seq(Giving)
<1>1. CASE part.size = 0
  BY <1>1 DEF Labelled
<1>2. CASE part.size # 0
  <2>1. Part("good", 1) \in Giving /\ part \in Giving
    BY <1>2 DEF Part, Giving, Piece
  <2>2. <<Part("good", 1), part>> \in Seq(Giving)
    BY <2>1
  <2> QED BY <1>2, <2>2 DEF Labelled
<1> QED BY <1>1, <1>2

PassStep(r, parts, n) == parts \o Gives(r.table, r.scripts, n)
PassStart(r) == <<>>
PassHolds(r, s, k, parts) == parts \in Seq(Giving)
Passing == INSTANCE FoldInduction WITH Step <- PassStep, Start <- PassStart, Holds <- PassHolds

LEMMA PassIsFolded ==
  ASSUME NEW r
  PROVE  Passing!Folded(r, UpTo_(MaxNumber)) = Pass(r.table, r.scripts)
  BY DEF Pass, Passing!Folded, PassStep, PassStart, FoldLeft, MapThenFoldSet, Max,
         Passing!FoldLeft, Passing!MapThenFoldSet, Passing!Max

LEMMA PassParts ==
  ASSUME NEW table, IsTable(table), NEW scripts
  PROVE  Pass(table, scripts) \in Seq(Giving)
<1> DEFINE r == [table |-> table, scripts |-> scripts]
           s == UpTo_(MaxNumber)
<1>0. r.table = table /\ r.scripts = scripts
  OBVIOUS
<1>1. s \in Seq(1 .. MaxNumber)
  BY NumbersInOrder, DecodingAssumption
<1>2. PassHolds(r, s, 0, PassStart(r))
  BY DEF PassHolds, PassStart
<1>3. ASSUME NEW k \in 1 .. Len(s), NEW a, PassHolds(r, s, k - 1, a)
      PROVE  PassHolds(r, s, k, PassStep(r, a, s[k]))
  <2>1. Gives(table, scripts, s[k]) \in Seq(Giving)
    <3>1. CASE s[k] \notin DOMAIN table
      BY <3>1 DEF Gives
    <3>2. CASE s[k] \in DOMAIN table
      <4>1. PdfBody(table[s[k]]) \in Piece /\ Script(table, s[k]) \in Piece
        BY <3>2, BodySize, ScriptSize DEF IsTable
      <4>2. Labelled(PdfBody(table[s[k]])) \in Seq(Giving)
            /\ Labelled(Script(table, s[k])) \in Seq(Giving)
        BY <4>1, LabelledParts
      <4> QED BY <3>2, <4>2 DEF Gives
    <3> QED BY <3>1, <3>2
  <2> HIDE DEF r, s
  <2> QED BY <1>0, <1>3, <2>1 DEF PassHolds, PassStep
<1>4. PassHolds(r, s, Len(s), Passing!Folded(r, s))
  <2> HIDE DEF r, s
  <2> QED BY <1>1, <1>2, <1>3, Passing!FoldHolds
<1>5. Passing!Folded(r, s) = Pass(table, scripts)
  <2>1. Passing!Folded(r, s) = Pass(r.table, r.scripts)
    BY PassIsFolded
  <2> QED BY <1>0, <2>1
<1> QED BY <1>4, <1>5 DEF PassHolds

LEMMA PdfPartsAreParts ==
  ASSUME NEW file \in Seq(PdfObject)
  PROVE  PdfParts(file) \in Seq(Giving) /\ PdfParts(file) \in Seq(Piece)
<1>1. PdfParts(file) \in Seq(Giving)
  <2>1. /\ Pass(PdfTable(file), FALSE) \in Seq(Giving)
        /\ Pass(PdfTable(file), TRUE) \in Seq(Giving)
    BY PdfTableIsTable, PassParts
  <2> DEFINE bodies == Pass(PdfTable(file), FALSE)
             scripts == Pass(PdfTable(file), TRUE)
  <2>2. PdfParts(file) = bodies \o scripts
    BY DEF PdfParts
  <2> HIDE DEF bodies, scripts
  <2>3. bodies \in Seq(Giving) /\ scripts \in Seq(Giving)
    BY <2>1 DEF bodies, scripts
  <2> QED BY <2>2, <2>3
<1>2. Giving \subseteq Piece
  BY DEF Giving
<1> QED BY <1>1, <1>2

-----------------------------------------------------------------------------
(* The sectors and streams of a compound file *)

WalkStep(r, chain, k) == Walk(r.fat, r.start, chain)
WalkStart(r) == <<>>
WalkHolds(r, s, k, chain) ==
    /\ chain \in Seq(1 .. Len(r.fat))
    /\ \A i, j \in DOMAIN chain : chain[i] = chain[j] => i = j
Walking == INSTANCE FoldInduction WITH Step <- WalkStep, Start <- WalkStart, Holds <- WalkHolds

LEMMA WalkIsFolded ==
  ASSUME NEW r
  PROVE  Walking!Folded(r, UpTo_(Len(r.fat))) = Chain(r.fat, r.start)
  BY DEF Chain, Walking!Folded, WalkStep, WalkStart, FoldLeft, MapThenFoldSet, Max,
         Walking!FoldLeft, Walking!MapThenFoldSet, Walking!Max

LEMMA OneMore ==
  ASSUME NEW S, NEW s \in Seq(S), NEW x \in S
  PROVE  /\ Append(s, x) \in Seq(S) /\ Len(Append(s, x)) = Len(s) + 1
         /\ \A i \in DOMAIN s : Append(s, x)[i] = s[i]
         /\ Append(s, x)[Len(s) + 1] = x
         /\ DOMAIN Append(s, x) = DOMAIN s \cup {Len(s) + 1}
  OBVIOUS

LEMMA WalksOnce ==
  ASSUME NEW fat \in Seq(Nat), NEW start
  PROVE  /\ Chain(fat, start) \in Seq(1 .. Len(fat))
         /\ IsInjective(Chain(fat, start))
<1> DEFINE r == [fat |-> fat, start |-> start]
           s == UpTo_(Len(fat))
<1>0. r.fat = fat /\ r.start = start
  OBVIOUS
<1>1. Len(fat) \in Nat /\ s \in Seq(1 .. Len(fat))
  BY NumbersInOrder
<1>2. WalkHolds(r, s, 0, WalkStart(r))
  BY DEF WalkHolds, WalkStart
<1>3. ASSUME NEW k \in 1 .. Len(s), NEW a, WalkHolds(r, s, k - 1, a)
      PROVE  WalkHolds(r, s, k, WalkStep(r, a, s[k]))
  <2> DEFINE next == IF a = <<>> THEN start ELSE fat[a[Len(a)]]
             fresh == next \in 1 .. Len(fat) /\ \A i \in DOMAIN a : a[i] # next
  <2>1. a \in Seq(1 .. Len(fat)) /\ \A i, j \in DOMAIN a : a[i] = a[j] => i = j
    BY <1>0, <1>3 DEF WalkHolds
  <2>2. WalkStep(r, a, s[k]) = IF fresh THEN Append(a, next) ELSE a
    BY <1>0, Zenon DEF WalkStep, Walk
  <2> HIDE DEF r, s
  <2>3. CASE fresh
    <3> HIDE DEF next
    <3>1. /\ Append(a, next) \in Seq(1 .. Len(fat)) /\ Len(Append(a, next)) = Len(a) + 1
          /\ \A i \in DOMAIN a : Append(a, next)[i] = a[i]
          /\ Append(a, next)[Len(a) + 1] = next
          /\ DOMAIN Append(a, next) = DOMAIN a \cup {Len(a) + 1}
      <4>1. next \in 1 .. Len(fat)
        BY <2>3
      <4> DEFINE S == 1 .. Len(fat)
      <4>2. a \in Seq(S) /\ next \in S
        BY <2>1, <4>1
      <4> HIDE DEF fresh, S
      <4>3. /\ Append(a, next) \in Seq(S) /\ Len(Append(a, next)) = Len(a) + 1
            /\ \A i \in DOMAIN a : Append(a, next)[i] = a[i]
            /\ Append(a, next)[Len(a) + 1] = next
            /\ DOMAIN Append(a, next) = DOMAIN a \cup {Len(a) + 1}
        BY ONLY <4>2, OneMore
      <4> QED BY ONLY <4>3 DEF S
    <3>2. \A i \in DOMAIN a : a[i] # next
      BY <2>3
    <3> DEFINE b == Append(a, next)
    <3> HIDE DEF b
    <3>3. \A i, j \in DOMAIN b : b[i] = b[j] => i = j
      BY <2>1, <3>1, <3>2 DEF b
    <3>4. b \in Seq(1 .. Len(fat))
      BY <3>1 DEF b
    <3> QED BY <1>0, <2>2, <2>3, <3>3, <3>4 DEF WalkHolds, b
  <2>4. CASE ~fresh
    <3> HIDE DEF fresh
    <3> QED BY <1>0, <2>1, <2>2, <2>4 DEF WalkHolds
  <2> QED BY <2>3, <2>4
<1>4. WalkHolds(r, s, Len(s), Walking!Folded(r, s))
  <2> HIDE DEF r, s
  <2> QED BY <1>1, <1>2, <1>3, Walking!FoldHolds
<1>5. Walking!Folded(r, s) = Chain(fat, start)
  <2>1. Walking!Folded(r, UpTo_(Len(r.fat))) = Chain(r.fat, r.start)
    BY WalkIsFolded
  <2> QED BY <1>0, <2>1
<1> QED BY <1>0, <1>4, <1>5 DEF WalkHolds, IsInjective

ChunkStep(r, acc, chunk) == AddChunk(acc, chunk)
ChunkStart(r) == [ends |-> FALSE, size |-> 0]
ChunkHolds(r, s, k, acc) == acc.size \in Nat
Unpacked == INSTANCE FoldInduction WITH Step <- ChunkStep, Start <- ChunkStart, Holds <- ChunkHolds

LEMMA MacroSize ==
  ASSUME NEW chunks \in Seq(Chunk)
  PROVE  Macro(chunks) \in Nat
<1>1. ChunkHolds(0, chunks, 0, ChunkStart(0))
  BY DEF ChunkHolds, ChunkStart
<1>2. ASSUME NEW k \in 1 .. Len(chunks), NEW a, ChunkHolds(0, chunks, k - 1, a)
      PROVE  ChunkHolds(0, chunks, k, ChunkStep(0, a, chunks[k]))
  <2>1. chunks[k] \in Chunk
    OBVIOUS
  <2>2. chunks[k].size \in Nat /\ a.size \in Nat /\ MaxOutput \in Nat
    BY <1>2, <2>1, DecodingAssumption DEF Chunk, ChunkHolds
  <2>3. Lesser(a.size + chunks[k].size, MaxOutput) \in Nat
    BY <2>2 DEF Lesser
  <2>4. AddChunk(a, chunks[k]).size
          \in {a.size, a.size + chunks[k].size, Lesser(a.size + chunks[k].size, MaxOutput)}
    BY DEF AddChunk
  <2> QED BY <2>2, <2>3, <2>4 DEF ChunkHolds, ChunkStep
<1>3. ChunkHolds(0, chunks, Len(chunks), Unpacked!Folded(0, chunks))
  BY <1>1, <1>2, Unpacked!FoldHolds
<1>4. Unpacked!Folded(0, chunks).size = Macro(chunks)
  BY DEF Macro, Unpacked!Folded, ChunkStep, ChunkStart, FoldLeft, MapThenFoldSet, Max,
         Unpacked!FoldLeft, Unpacked!MapThenFoldSet, Unpacked!Max
<1> QED BY <1>3, <1>4 DEF ChunkHolds

IsCompound(file) ==
    /\ file.fat \in Seq(Nat)
    /\ \A n \in DOMAIN file.entries :
          file.entries[n].size \in Nat /\ file.entries[n].chunks \in Seq(Chunk)

LEMMA OleStreamPart ==
  ASSUME NEW file, IsCompound(file), NEW n
  PROVE  OleStream(file, n) \in Seq(Piece)
<1> DEFINE entry == file.entries[n]
           held == Lesser(entry.size, Len(Chain(file.fat, entry.start)))
           source == IF entry.kind = "module" THEN Macro(entry.chunks) ELSE 0
           state == IF held < entry.size THEN "cut" ELSE "good"
           size == 1 + (IF source > 0 THEN source ELSE held)
<1>1. n \notin Directory(file) => OleStream(file, n) = <<>>
  BY DEF OleStream
<1>2. ASSUME n \in Directory(file)
      PROVE  n \in DOMAIN file.entries
  BY <1>2, Zenon DEF Directory
<1>3. ASSUME n \in DOMAIN file.entries
      PROVE  size \in Nat
  <2>1. entry.size \in Nat /\ entry.chunks \in Seq(Chunk) /\ file.fat \in Seq(Nat)
    BY <1>3 DEF IsCompound
  <2>2. Len(Chain(file.fat, entry.start)) \in Nat
    <3>1. Chain(file.fat, entry.start) \in Seq(1 .. Len(file.fat))
      BY <2>1, WalksOnce
    <3> QED BY <3>1
  <2>3. held \in Nat
    BY <2>1, <2>2 DEF Lesser
  <2>4. source \in Nat
    BY <2>1, MacroSize
  <2> HIDE DEF held, source
  <2> QED BY <2>3, <2>4
<1>4. OleStream(file, n) \in {<<>>, <<Part(state, size)>>}
  BY Zenon DEF OleStream
<1>5. state \in {"cut", "good"}
  OBVIOUS
<1>7. <<>> \in Seq(Piece)
  OBVIOUS
<1> HIDE DEF state, size
<1>6. CASE n \in Directory(file)
  <2>1. <<Part(state, size)>> \in Seq(Piece) /\ <<>> \in Seq(Piece)
    BY <1>2, <1>3, <1>5, <1>6 DEF Part, Piece
  <2> QED BY <1>4, <2>1
<1> QED BY <1>1, <1>6, <1>7

OleStep(file, parts, n) == parts \o OleStream(file, n)
OleStart(file) == <<>>
OleHolds(file, s, k, parts) == parts \in Seq(Piece)
Listing == INSTANCE FoldInduction WITH Step <- OleStep, Start <- OleStart, Holds <- OleHolds

LEMMA OlePartsAreParts ==
  ASSUME NEW file, IsCompound(file), Len(file.entries) \in Nat
  PROVE  OleParts(file) \in Seq(Piece)
<1> DEFINE s == UpTo_(Len(file.entries))
<1>1. s \in Seq(1 .. Len(file.entries))
  BY NumbersInOrder
<1>2. OleHolds(file, s, 0, OleStart(file))
  BY DEF OleHolds, OleStart
<1>3. ASSUME NEW k \in 1 .. Len(s), NEW a, OleHolds(file, s, k - 1, a)
      PROVE  OleHolds(file, s, k, OleStep(file, a, s[k]))
  <2>1. OleStream(file, s[k]) \in Seq(Piece)
    BY OleStreamPart
  <2> HIDE DEF s
  <2> QED BY <1>3, <2>1 DEF OleHolds, OleStep
<1>4. OleHolds(file, s, Len(s), Listing!Folded(file, s))
  <2> HIDE DEF s
  <2> QED BY <1>1, <1>2, <1>3, Listing!FoldHolds
<1>5. Listing!Folded(file, s) = OleParts(file)
  BY DEF OleParts, Listing!Folded, OleStep, OleStart, FoldLeft, MapThenFoldSet, Max,
         Listing!FoldLeft, Listing!MapThenFoldSet, Listing!Max
<1> QED BY <1>4, <1>5 DEF OleHolds

\* What every decoder is given is a sequence of parts; those of a PDF give something.
LEMMA PartsAreParts ==
  ASSUME NEW codec \in DOMAIN Encoded, NEW input \in Encoded[codec]
  PROVE  /\ PartsOf(codec, input.file) \in Seq(Piece)
         /\ codec = "pdf" => PartsOf(codec, input.file) \in Seq(Giving)
         /\ codec = "ole" => input.file.fat \in Seq(Nat)
<1> DEFINE file == input.file
<1>1. CASE codec = "xor"
  <2>1. file.size \in Nat
    BY <1>1, DecodingAssumption
  <2> QED BY <1>1, <2>1, XorKeysAreParts DEF PartsOf
<1>2. CASE codec = "pdf"
  <2>1. file \in Seq(PdfObject)
    BY <1>2, DecodingAssumption
  <2> QED BY <1>2, <2>1, PdfPartsAreParts DEF PartsOf
<1>3. CASE codec = "ole"
  <2>1. IsCompound(file) /\ Len(file.entries) \in Nat
    BY <1>3, DecodingAssumption DEF IsCompound
  <2>2. file.fat \in Seq(Nat)
    BY <2>1 DEF IsCompound
  <2> QED BY <1>3, <2>1, <2>2, OlePartsAreParts DEF PartsOf
<1>4. CASE codec = "jseval"
  <2>1. file \in Seq(Statement)
    BY <1>4, DecodingAssumption
  <2>2. <<Part("bad", 0)>> \in Seq(Piece)
    BY DEF Part, Piece
  <2> QED BY <1>4, <2>1, <2>2, EmulatedAreParts DEF PartsOf
<1>5. CASE codec = "asn1"
  <2>1. file \in Seq(Nested)
    BY <1>5, DecodingAssumption
  <2> QED BY <1>5, <2>1, ShallowAreParts DEF PartsOf
<1>6. CASE codec \notin {"xor", "pdf", "ole", "jseval", "asn1"}
  <2>1. file \in Seq(Piece)
    BY <1>6, DecodingAssumption
  <2>2. CASE codec = "recursive"
    BY <2>1, <2>2, LayersAreParts DEF PartsOf
  <2>3. CASE codec # "recursive"
    BY <1>6, <2>1, <2>3 DEF PartsOf
  <2> QED BY <2>2, <2>3
<1> QED BY <1>1, <1>2, <1>3, <1>4, <1>5, <1>6

-----------------------------------------------------------------------------
(* The rules *)

RuleDecodes(codec, rule) ==
    /\ rule.over \in {"none", "fail", "room"}
    /\ rule.more \in {"read", "ignored", "fail"}
    /\ rule.bad \in {Fails, Skips, Keeps, Stops, FirstCounts}
    /\ rule.cut = rule.bad \/ rule.cut = Keeps
    /\ rule.over = "fail" => rule.bad \in {Fails, FirstCounts} /\ rule.joint # "counted"
    /\ rule.over = "room" => rule.more = "read" /\ rule.bad \in {Keeps, Skips}
    /\ rule.more # "read" => rule.bad = Fails /\ rule.joint # "counted"
    /\ rule.joint = "counted" => codec = "pdf"
    /\ codec = "pdf" => rule.joint = "counted" /\ rule.over = "room"
    /\ rule.bad = FirstCounts => rule.needs = {} /\ rule.joint # "counted"
    /\ rule.bad \in {Stops, FirstCounts} => rule.cut # Keeps
    /\ rule.bad = Stops => rule.over = "none" /\ rule.joint # "counted"
    /\ codec = "recursive" => rule.bad = FirstCounts
    /\ rule.bad = Skips /\ rule.over = "none" => rule.joint # "counted"

LEMMA Reactions ==
  /\ Fails[1] = "fail" /\ Fails[2] = "fail" /\ Skips[1] = "skip" /\ Skips[2] = "skip"
  /\ Keeps[1] = "keep" /\ Keeps[2] = "keep" /\ Stops[1] = "stop" /\ Stops[2] = "stop"
  /\ FirstCounts[1] = "fail" /\ FirstCounts[2] = "stop"
  /\ Fails # Skips /\ Fails # Keeps /\ Fails # Stops /\ Fails # FirstCounts
  /\ Skips # Keeps /\ Skips # Stops /\ Skips # FirstCounts
  /\ Keeps # Stops /\ Keeps # FirstCounts /\ Stops # FirstCounts
<1>1. /\ Fails[1] = "fail" /\ Fails[2] = "fail" /\ Skips[1] = "skip" /\ Skips[2] = "skip"
      /\ Keeps[1] = "keep" /\ Keeps[2] = "keep" /\ Stops[1] = "stop" /\ Stops[2] = "stop"
      /\ FirstCounts[1] = "fail" /\ FirstCounts[2] = "stop"
  BY DEF Fails, Skips, Keeps, Stops, FirstCounts
<1> QED BY <1>1

LEMMA OtherDecodes ==
  ASSUME NEW codec, codec \notin {"pdf", "recursive"}, NEW rule, RuleDecodes("other", rule)
  PROVE  RuleDecodes(codec, rule)
  BY DEF RuleDecodes

LEMMA CodecsDecode == \A codec \in DOMAIN Codecs : RuleDecodes(codec, Codecs[codec])
<1>1. RuleDecodes("other", StreamRule)
  BY Reactions DEF RuleDecodes, StreamRule, Codec
<1>2. RuleDecodes("recursive", RecursiveRule)
  BY Reactions DEF RuleDecodes, RecursiveRule, Codec
<1>3. RuleDecodes("pdf", PdfRule)
  BY Reactions DEF RuleDecodes, PdfRule, Codec
<1>4. RuleDecodes("other", OleRule)
  BY Reactions DEF RuleDecodes, OleRule, Codec
<1>5. RuleDecodes("other", ZstdRule)
  BY Reactions DEF RuleDecodes, ZstdRule, Codec
<1>6. RuleDecodes("other", Asn1Rule)
  BY Reactions DEF RuleDecodes, Asn1Rule, Codec
<1>7. \A needs : RuleDecodes("other", Codec(Fails, Fails, "read", "none", "none", needs))
  BY Reactions DEF RuleDecodes, Codec
<1>8. \A needs : RuleDecodes("other", Codec(Keeps, Keeps, "read", "none", "none", needs))
  BY Reactions DEF RuleDecodes, Codec
<1>9. \A needs : RuleDecodes("other", Codec(Skips, Skips, "read", "none", "none", needs))
  BY Reactions DEF RuleDecodes, Codec
<1>10. \A needs : RuleDecodes("other", Codec(Fails, Fails, "fail", "fail", "none", needs))
  BY Reactions DEF RuleDecodes, Codec
<1>11. \A needs : RuleDecodes("other", Codec(Fails, Fails, "ignored", "none", "none", needs))
  BY Reactions DEF RuleDecodes, Codec
<1>12. /\ RuleDecodes("other", Base64Rule) /\ RuleDecodes("other", Base64UrlRule)
       /\ RuleDecodes("other", HexRule) /\ RuleDecodes("other", Rot13Rule)
       /\ RuleDecodes("other", XorRule) /\ RuleDecodes("other", Base32Rule)
       /\ RuleDecodes("other", Ascii85Rule) /\ RuleDecodes("other", JsEvalRule)
       /\ RuleDecodes("other", Base58Rule) /\ RuleDecodes("other", Base91Rule)
  BY <1>7 DEF Base64Rule, Base64UrlRule, HexRule, Rot13Rule, XorRule, Base32Rule, Ascii85Rule,
              JsEvalRule, Base58Rule, Base91Rule, Single
<1>13. /\ RuleDecodes("other", QuotedRule) /\ RuleDecodes("other", UrlRule)
       /\ RuleDecodes("other", HtmlRule) /\ RuleDecodes("other", UnicodeRule)
       /\ RuleDecodes("other", JsEscapeRule)
  BY <1>8 DEF QuotedRule, UrlRule, HtmlRule, UnicodeRule, JsEscapeRule, Rewriting
<1>14. RuleDecodes("other", PemRule) /\ RuleDecodes("other", Utf16Rule)
  BY <1>9 DEF PemRule, Utf16Rule
<1>15. /\ RuleDecodes("other", DeflateRule) /\ RuleDecodes("other", BrotliRule)
       /\ RuleDecodes("other", PowerShellRule)
  BY <1>10, <1>11 DEF DeflateRule, BrotliRule, PowerShellRule
<1>16. RuleDecodes("other", UuRule)
  BY Reactions DEF RuleDecodes, UuRule, Codec
<1> QED
  BY <1>1, <1>2, <1>3, <1>4, <1>5, <1>6, <1>12, <1>13, <1>14, <1>15, <1>16, OtherDecodes DEF Codecs

-----------------------------------------------------------------------------
(* Sums and prefixes of parts *)

LEMMA TotalIsSum == ASSUME NEW s PROVE Total(s) = SumOf("size", s)
<1>1. Total(s) = Sizes(s)
  BY DEF Total, Sizes, FoldLeft, MapThenFoldSet, Max
<1> QED BY <1>1, SizesAreSums

LEMMA PieceSizes == \A x \in Piece : x["size"] = x.size /\ x["size"] \in Nat
  BY DEF Piece

LEMMA TotalFacts ==
  ASSUME NEW s \in Seq(Piece)
  PROVE  /\ Total(s) \in Nat
         /\ \A j \in 0 .. Len(s) : Total(SubSeq(s, 1, j)) \in 0 .. Total(s)
         /\ \A x \in Piece : Total(Append(s, x)) = Total(s) + x.size
<1>1. \A x \in Piece : x["size"] \in Nat
  BY PieceSizes
<1>2. /\ SumOf("size", s) \in Nat
      /\ \A j \in 0 .. Len(s) : SumOf("size", SubSeq(s, 1, j)) \in 0 .. SumOf("size", s)
  BY <1>1, SumFacts
<1>3. \A x \in Piece : SumOf("size", Append(s, x)) = SumOf("size", s) + x["size"]
  BY SumAppends
<1>4. \A t : Total(t) = SumOf("size", t)
  BY TotalIsSum
<1>5. \A x \in Piece : Total(Append(s, x)) = Total(s) + x.size
  BY <1>3, <1>4, PieceSizes
<1> QED BY <1>2, <1>4, <1>5

LEMMA TotalOfNothing == Total(<<>>) = 0
  BY TotalIsSum, SumOfNothing

LEMMA PiecesNest == Piece \subseteq Nested /\ Seq(Piece) \subseteq Seq(Nested)
<1>1. Piece \subseteq Nested
  BY DEF Piece, Nested
<1> QED BY <1>1

LEMMA GoodParts ==
  ASSUME NEW s \in Seq(Piece)
  PROVE  /\ Good(s) \in Seq(Piece)
         /\ \A x \in Piece :
               Good(Append(s, x)) = IF x.state = "good" THEN Append(Good(s), x) ELSE Good(s)
<1>1. s \in Seq(Nested)
  BY PiecesNest
<1>2. Good(s) \in Seq({part \in Nested : part.state \in {"good"}})
  BY <1>1, InStateFacts DEF Good
<1>3. {part \in Nested : part.state \in {"good"}} \subseteq Piece
  BY DEF Nested, Piece
<1>4. Good(s) \in Seq(Piece)
  BY <1>2, <1>3
<1>5. ASSUME NEW x \in Piece
      PROVE  Good(Append(s, x)) = IF x.state = "good" THEN Append(Good(s), x) ELSE Good(s)
  <2>1. x \in Nested
    BY PiecesNest
  <2>2. InState(Append(s, x), {"good"})
          = IF x.state \in {"good"} THEN Append(InState(s, {"good"}), x) ELSE InState(s, {"good"})
    BY <1>1, <2>1, InStateAppends
  <2> QED BY <2>2 DEF Good
<1> QED BY <1>4, <1>5

LEMMA UsableParts ==
  ASSUME NEW rule, NEW s \in Seq(Piece), NEW x \in Piece
  PROVE  Usable(rule, Append(s, x))
           = IF x.state = "good" \/ (rule.cut = Keeps /\ x.state = "cut")
             THEN Append(Usable(rule, s), x) ELSE Usable(rule, s)
<1> DEFINE states == IF rule.cut = Keeps THEN {"good", "cut"} ELSE {"good"}
<1>1. s \in Seq(Nested) /\ x \in Nested
  BY PiecesNest
<1>2. x.state \in states <=> x.state = "good" \/ (rule.cut = Keeps /\ x.state = "cut")
  OBVIOUS
<1>3. \A t : Usable(rule, t) = InState(t, states)
  BY DEF Usable
<1> HIDE DEF states
<1>4. InState(Append(s, x), states)
        = IF x.state \in states THEN Append(InState(s, states), x) ELSE InState(s, states)
  BY <1>1, InStateAppends
<1> QED BY <1>2, <1>3, <1>4

\* What reading one more part adds to what was read.
LEMMA NextRead ==
  ASSUME NEW parts \in Seq(Piece), NEW n \in Nat, n < Len(parts)
  PROVE  LET seen == SubSeq(parts, 1, n)
             part == parts[n + 1] IN
         /\ part \in Piece /\ n + 1 \in 1 .. Len(parts) /\ seen \in Seq(Piece)
         /\ SubSeq(parts, 1, n + 1) = Append(seen, part)
         /\ Total(SubSeq(parts, 1, n + 1)) = Total(seen) + part.size
         /\ Total(seen) \in Nat /\ Total(seen) + part.size <= Total(parts)
         /\ Total(Good(seen)) \in Nat
         /\ Good(SubSeq(parts, 1, n + 1))
              = IF part.state = "good" THEN Append(Good(seen), part) ELSE Good(seen)
         /\ Total(Good(SubSeq(parts, 1, n + 1)))
              = IF part.state = "good" THEN Total(Good(seen)) + part.size ELSE Total(Good(seen))
<1> DEFINE seen == SubSeq(parts, 1, n)
           part == parts[n + 1]
<1>1. n + 1 \in Nat /\ n + 1 # 0 /\ n + 1 <= Len(parts) /\ (n + 1) - 1 = n /\ Len(parts) \in Nat
  OBVIOUS
<1>2. SubSeq(parts, 1, n + 1) = Append(seen, part) /\ seen \in Seq(Piece) /\ part \in Piece
  BY <1>1, LongerPrefix
<1>3. n + 1 \in 0 .. Len(parts) /\ n + 1 \in 1 .. Len(parts)
  BY <1>1
<1> HIDE DEF seen, part
<1>4. Total(seen) \in Nat /\ Total(Append(seen, part)) = Total(seen) + part.size
  BY <1>2, TotalFacts
<1>5. Total(SubSeq(parts, 1, n + 1)) \in 0 .. Total(parts) /\ Total(parts) \in Nat
  BY <1>3, TotalFacts
<1>6. /\ Good(seen) \in Seq(Piece)
      /\ Good(Append(seen, part))
           = IF part.state = "good" THEN Append(Good(seen), part) ELSE Good(seen)
  BY <1>2, GoodParts
<1>7. Total(Good(seen)) \in Nat /\ Total(Append(Good(seen), part)) = Total(Good(seen)) + part.size
  BY <1>2, <1>6, TotalFacts
<1>8. Total(seen) + part.size <= Total(parts)
  <2>1. Total(SubSeq(parts, 1, n + 1)) = Total(Append(seen, part))
    BY <1>2, Zenon
  <2>2. Total(seen) + part.size \in 0 .. Total(parts)
    BY <1>4, <1>5, <2>1
  <2> QED BY <1>5, <2>2
<1> QED BY <1>2, <1>3, <1>4, <1>6, <1>7, <1>8 DEF seen, part

LEMMA RestOfParts ==
  ASSUME NEW S, NEW s \in Seq(S), NEW n \in Nat, n <= Len(s)
  PROVE  LET rest == SubSeq(s, n + 1, Len(s)) IN
         /\ (rest = <<>>) <=> n = Len(s)
         /\ n < Len(s) => Head(rest) = s[n + 1] /\ Tail(rest) = SubSeq(s, n + 2, Len(s))
<1> DEFINE rest == SubSeq(s, n + 1, Len(s))
           after == SubSeq(s, n + 2, Len(s))
<1>1. Len(s) \in Nat
  OBVIOUS
<1>2. CASE n = Len(s)
  BY <1>1, <1>2
<1>3. CASE n < Len(s)
  <2>1. /\ rest \in Seq(S) /\ Len(rest) = Len(s) - n
        /\ \A i \in 1 .. Len(s) - n : rest[i] = s[n + i]
    BY <1>1, <1>3
  <2>2. /\ after \in Seq(S) /\ Len(after) = Len(s) - n - 1
        /\ \A i \in 1 .. Len(s) - n - 1 : after[i] = s[n + 1 + i]
    BY <1>1, <1>3
  <2> HIDE DEF rest, after
  <2>3. rest # <<>> /\ Head(rest) = s[n + 1]
    BY <1>1, <1>3, <2>1
  <2>4. /\ Tail(rest) \in Seq(S) /\ Len(Tail(rest)) = Len(s) - n - 1
        /\ \A i \in 1 .. Len(s) - n - 1 : Tail(rest)[i] = rest[i + 1]
    BY <1>1, <1>3, <2>1, <2>3
  <2>5. \A i \in 1 .. Len(s) - n - 1 : Tail(rest)[i] = after[i]
    <3> SUFFICES ASSUME NEW i \in 1 .. Len(s) - n - 1 PROVE Tail(rest)[i] = after[i]
      OBVIOUS
    <3>1. i + 1 \in 1 .. Len(s) - n /\ n + (i + 1) = n + 1 + i
      BY <1>1, <1>3
    <3> QED BY <2>1, <2>2, <2>4, <3>1
  <2> DEFINE t == Tail(rest)
  <2> HIDE DEF t
  <2>6. t \in Seq(S) /\ Len(t) = Len(after) /\ \A i \in 1 .. Len(t) : t[i] = after[i]
    BY <2>2, <2>4, <2>5 DEF t
  <2>7. t = after
    BY <2>2, <2>6, SeqEqual
  <2> QED BY <1>3, <2>3, <2>7 DEF t, rest, after
<1> QED BY <1>1, <1>2, <1>3

-----------------------------------------------------------------------------
(* The loop over the parts *)

\* n parts were read and none of them ended the loop.
Reading(codec, parts, n, kept, size) ==
    LET rule == Codecs[codec]
        seen == SubSeq(parts, 1, n) IN
    /\ n \in 0 .. Len(parts) /\ kept \in Seq(Piece) /\ size \in Nat
    /\ Total(kept) <= size
    /\ rule.over # "none" => size <= MaxOutput
    /\ rule.over = "fail" => size <= Total(seen)
    /\ rule.bad # Keeps =>
          /\ \A i \in DOMAIN kept : kept[i].state # "bad"
          /\ rule.cut # Keeps => \A i \in DOMAIN kept : kept[i].state = "good"
    /\ rule.bad = FirstCounts /\ rule.over # "room" => kept = seen
    /\ rule.bad = Skips /\ rule.over = "none" => kept = Usable(rule, seen)
    /\ size = 0 => Total(Good(seen)) = 0
    /\ n = 0 => size = 0
    /\ rule.more # "read" => n <= 1 /\ (n = 1 => size = parts[1].size)
    /\ codec = "pdf" /\ kept # <<>> => size > 0
    /\ rule.bad = Stops => Whole(parts, n) /\ size = Total(seen)

\* Why the part after n parts ends the loop.
LastRead(codec, parts, n, kept, size) ==
    LET rule == Codecs[codec] IN
    /\ n \in 0 .. Len(parts) - 1
    /\ \/ rule.more = "ignored" /\ n = 1
       \/ rule.over = "room" /\ size > 0
       \/ rule.bad = Stops /\ parts[n + 1].state # "good"
       \/ rule.bad = FirstCounts /\ n > 0 /\ parts[n + 1].state # "good"

Between(codec, kept) == IF Codecs[codec].joint = "counted" /\ kept # <<>> THEN 1 ELSE 0
Room(codec, kept, size, part) ==
    IF Codecs[codec].over = "room" THEN Lesser(part.size, MaxOutput - size - Between(codec, kept))
    ELSE part.size

\* What must hold for a part to be kept.
Keepable(codec, n, kept, size, part) ==
    LET rule == Codecs[codec] IN
    /\ rule.more # "read" => n = 0
    /\ rule.over = "fail" => size + part.size <= MaxOutput
    /\ rule.over = "room" => size + Between(codec, kept) < MaxOutput
    /\ rule.bad # Keeps =>
          /\ part.state # "bad"
          /\ rule.cut # Keeps => part.state = "good"

LEMMA KeptPart ==
  ASSUME NEW codec \in DOMAIN Codecs, NEW parts \in Seq(Piece), NEW n \in Nat, n < Len(parts),
         NEW kept, NEW size, Reading(codec, parts, n, kept, size),
         codec = "pdf" => parts \in Seq(Giving),
         Keepable(codec, n, kept, size, parts[n + 1])
  PROVE  LET part == parts[n + 1]
             room == Room(codec, kept, size, part) IN
         Reading(codec, parts, n + 1, Append(kept, Part(part.state, room)),
                 size + Between(codec, kept) + room)
<1> DEFINE rule == Codecs[codec]
           seen == SubSeq(parts, 1, n)
           wider == SubSeq(parts, 1, n + 1)
           part == parts[n + 1]
           joint == Between(codec, kept)
           room == Room(codec, kept, size, part)
           x == Part(part.state, room)
           more == size + joint + room
           longer == Append(kept, x)
<1>1. RuleDecodes(codec, rule)
  BY CodecsDecode
<1>2. /\ part \in Piece /\ n + 1 \in 1 .. Len(parts) /\ seen \in Seq(Piece)
      /\ wider = Append(seen, part) /\ Total(wider) = Total(seen) + part.size
      /\ Total(seen) \in Nat /\ Total(Good(seen)) \in Nat
      /\ Good(wider) = IF part.state = "good" THEN Append(Good(seen), part) ELSE Good(seen)
      /\ Total(Good(wider))
           = IF part.state = "good" THEN Total(Good(seen)) + part.size ELSE Total(Good(seen))
  BY NextRead
<1>3. /\ kept \in Seq(Piece) /\ size \in Nat /\ Total(kept) <= size
      /\ rule.over # "none" => size <= MaxOutput
      /\ rule.over = "fail" => size <= Total(seen)
      /\ rule.bad # Keeps =>
          /\ \A i \in DOMAIN kept : kept[i].state # "bad"
          /\ rule.cut # Keeps => \A i \in DOMAIN kept : kept[i].state = "good"
      /\ rule.bad = FirstCounts /\ rule.over # "room" => kept = seen
      /\ rule.bad = Skips /\ rule.over = "none" => kept = Usable(rule, seen)
      /\ size = 0 => Total(Good(seen)) = 0
      /\ codec = "pdf" /\ kept # <<>> => size > 0
      /\ rule.bad = Stops => Whole(parts, n) /\ size = Total(seen)
  BY DEF Reading
<1>4. /\ rule.more # "read" => n = 0
      /\ rule.over = "fail" => size + part.size <= MaxOutput
      /\ rule.over = "room" => size + joint < MaxOutput
      /\ rule.bad # Keeps =>
            /\ part.state # "bad"
            /\ rule.cut # Keeps => part.state = "good"
  BY DEF Keepable
<1>5. part.size \in Nat /\ part.state \in {"good", "cut", "bad"} /\ MaxOutput \in Nat \ {0}
      /\ part = [state |-> part.state, size |-> part.size]
  BY <1>2, DecodingAssumption DEF Piece
<1>6. /\ joint \in {0, 1} /\ (rule.joint # "counted" => joint = 0) /\ (joint = 1 => kept # <<>>)
      /\ room = (IF rule.over = "room" THEN Lesser(part.size, MaxOutput - size - joint)
                 ELSE part.size)
  BY DEF Between, Room
<1>7. n = 0 => seen = <<>> /\ Total(seen) = 0
  BY WholePrefix, TotalOfNothing
<1>8. codec = "pdf" => part.size > 0
  BY <1>2 DEF Giving
<1>h. n + 1 \in Nat /\ Len(parts) \in Nat
  OBVIOUS
<1> HIDE DEF seen, wider, part, joint, room, rule
<1>9. room \in Nat /\ (rule.over = "room" => size + joint + room <= MaxOutput)
      /\ (room = 0 => part.size = 0) /\ (rule.over # "room" => room = part.size)
  BY <1>3, <1>4, <1>5, <1>6 DEF Lesser
<1>10. x \in Piece /\ x.state = part.state /\ x.size = room
       /\ (rule.over # "room" => x = part)
  BY <1>5, <1>9 DEF Part, Piece
<1>11. more \in Nat
  BY <1>3, <1>6, <1>9
<1> HIDE DEF x
<1>12. /\ longer \in Seq(Piece) /\ Total(longer) = Total(kept) + room /\ Total(kept) \in Nat
       /\ \A i \in DOMAIN longer : longer[i] = x \/ (i \in DOMAIN kept /\ longer[i] = kept[i])
       /\ longer # <<>>
  <2>1. Total(kept) \in Nat /\ Total(longer) = Total(kept) + x.size
    BY <1>3, <1>10, TotalFacts
  <2>2. /\ longer \in Seq(Piece) /\ Len(longer) = Len(kept) + 1
        /\ \A i \in DOMAIN kept : longer[i] = kept[i]
        /\ longer[Len(kept) + 1] = x
        /\ DOMAIN longer = DOMAIN kept \cup {Len(kept) + 1}
    BY ONLY <1>3, <1>10, OneMore
  <2>3. longer # <<>>
    BY <1>3
  <2> QED BY <1>10, <2>1, <2>2, <2>3
<1>13. n + 1 \in 0 .. Len(parts)
  BY <1>2
<1>14. Total(longer) <= more
  BY <1>3, <1>6, <1>9, <1>12
<1>15. rule.over # "none" => more <= MaxOutput
  <2>1. rule.over \in {"none", "fail", "room"} /\ (rule.over = "fail" => rule.joint # "counted")
    BY <1>1 DEF RuleDecodes
  <2>2. CASE rule.over = "fail"
    BY <1>3, <1>4, <1>5, <1>6, <1>9, <2>1, <2>2
  <2>3. CASE rule.over = "room"
    BY <1>9, <2>3
  <2> QED BY <2>1, <2>2, <2>3
<1>16. rule.over = "fail" => more <= Total(wider)
  <2>1. rule.over = "fail" => joint = 0 /\ room = part.size
    BY <1>1, <1>6, <1>9 DEF RuleDecodes
  <2> QED BY <1>2, <1>3, <1>5, <2>1
<1>17. rule.bad # Keeps =>
          /\ \A i \in DOMAIN longer : longer[i].state # "bad"
          /\ rule.cut # Keeps => \A i \in DOMAIN longer : longer[i].state = "good"
  BY <1>3, <1>4, <1>10, <1>12
<1>18. rule.bad = FirstCounts /\ rule.over # "room" => longer = wider
  BY <1>2, <1>3, <1>10
<1>19. rule.bad = Skips /\ rule.over = "none" => longer = Usable(rule, wider)
  <2> SUFFICES ASSUME rule.bad = Skips, rule.over = "none" PROVE longer = Usable(rule, wider)
    OBVIOUS
  <2>1. part.state # "bad" /\ (rule.cut # Keeps => part.state = "good") /\ x = part
    BY <1>4, <1>10, Reactions
  <2>2. part.state = "good" \/ (rule.cut = Keeps /\ part.state = "cut")
    BY <1>5, <2>1
  <2>3. Usable(rule, Append(seen, part)) = Append(Usable(rule, seen), part)
    BY <1>2, <2>2, UsableParts
  <2> QED BY <1>2, <1>3, <2>1, <2>3 DEF longer
<1>20. more = 0 => Total(Good(wider)) = 0
  <2> SUFFICES ASSUME more = 0 PROVE Total(Good(wider)) = 0
    OBVIOUS
  <2>1. size = 0 /\ room = 0
    BY <1>3, <1>6, <1>9
  <2> QED BY <1>2, <1>3, <1>9, <2>1
<1>21. rule.more # "read" => n + 1 <= 1 /\ (n + 1 = 1 => more = parts[1].size)
  <2> SUFFICES ASSUME rule.more # "read" PROVE n + 1 <= 1 /\ more = parts[1].size
    OBVIOUS
  <2>1. n = 0 /\ joint = 0 /\ rule.over # "room"
    BY <1>1, <1>4, <1>6 DEF RuleDecodes
  <2>2. part = parts[1] /\ size = 0
    <3>1. part = parts[1]
      BY <2>1 DEF part
    <3>2. size = 0
      BY <2>1 DEF Reading
    <3> QED BY <3>1, <3>2
  <2> QED BY <1>5, <1>9, <2>1, <2>2
<1>22. codec = "pdf" /\ longer # <<>> => more > 0
  BY <1>3, <1>5, <1>6, <1>8, <1>9
<1>23. rule.bad = Stops => Whole(parts, n + 1) /\ more = Total(wider)
  <2> SUFFICES ASSUME rule.bad = Stops PROVE Whole(parts, n + 1) /\ more = Total(wider)
    OBVIOUS
  <2>1. joint = 0 /\ room = part.size /\ rule.cut # Keeps
    <3>1. rule.over = "none" /\ rule.joint # "counted" /\ rule.cut # Keeps
      BY <1>1 DEF RuleDecodes
    <3> QED BY <1>6, <1>9, <3>1
  <2>2. part.state = "good"
    BY <1>4, <2>1, Reactions
  <2>3. Whole(parts, n) /\ size = Total(seen)
    BY <1>3
  <2>4. Whole(parts, n + 1)
    <3>1. \A i \in 1 .. n + 1 : i \in 1 .. n \/ i = n + 1
      OBVIOUS
    <3> QED BY <2>2, <2>3, <3>1 DEF Whole, part
  <2> QED BY <1>2, <1>3, <1>5, <2>1, <2>3, <2>4
<1> HIDE DEF longer, more
<1>24. Reading(codec, parts, n + 1, longer, more)
  BY <1>11, <1>12, <1>13, <1>14, <1>15, <1>16, <1>17, <1>18, <1>19, <1>20, <1>21, <1>22, <1>23
  DEF Reading, rule, wider
<1> QED BY <1>24 DEF longer, more, x, room, joint, part

LEMMA SkippedPart ==
  ASSUME NEW codec \in DOMAIN Codecs, NEW parts \in Seq(Piece), NEW n \in Nat, n < Len(parts),
         NEW kept, NEW size, Reading(codec, parts, n, kept, size),
         Codecs[codec].bad = Skips, parts[n + 1].state # "good",
         Codecs[codec].cut = Keeps => parts[n + 1].state = "bad"
  PROVE  Reading(codec, parts, n + 1, kept, size)
<1> DEFINE rule == Codecs[codec]
           seen == SubSeq(parts, 1, n)
           wider == SubSeq(parts, 1, n + 1)
           part == parts[n + 1]
<1>1. RuleDecodes(codec, rule)
  BY CodecsDecode
<1>2. /\ part \in Piece /\ n + 1 \in 1 .. Len(parts)
      /\ Good(wider) = Good(seen) /\ wider = Append(seen, part) /\ seen \in Seq(Piece)
  BY NextRead
<1>u. Usable(rule, wider) = Usable(rule, seen)
  <2>1. ~(part.state = "good" \/ (rule.cut = Keeps /\ part.state = "cut"))
    OBVIOUS
  <2> HIDE DEF wider, seen, part, rule
  <2> QED BY <1>2, <2>1, UsableParts
<1>3. rule.more = "read" /\ rule.over # "fail" /\ rule.bad # FirstCounts /\ rule.bad # Stops
  BY <1>1, Reactions DEF RuleDecodes
<1>4. n + 1 \in 0 .. Len(parts)
  BY <1>2
<1> HIDE DEF part, rule, wider, seen
<1>5. /\ kept \in Seq(Piece) /\ size \in Nat /\ Total(kept) <= size
      /\ rule.over # "none" => size <= MaxOutput
      /\ rule.bad # Keeps =>
          /\ \A i \in DOMAIN kept : kept[i].state # "bad"
          /\ rule.cut # Keeps => \A i \in DOMAIN kept : kept[i].state = "good"
      /\ rule.bad = Skips /\ rule.over = "none" => kept = Usable(rule, seen)
      /\ size = 0 => Total(Good(seen)) = 0
      /\ codec = "pdf" /\ kept # <<>> => size > 0
  BY DEF Reading, rule, seen
<1> QED BY <1>2, <1>u, <1>3, <1>4, <1>5 DEF Reading, rule, wider

-----------------------------------------------------------------------------
(* The invariant *)

DecodeFields ==
    decode \in [pc : {"idle", "decoding", "decoded", "failed"}, codec : DOMAIN Codecs,
                file : {decode.file}, todo : {decode.todo}, kept : {decode.kept},
                size : {decode.size}, read : Nat, changed : {decode.changed}, text : {decode.text}]

Called ==
    decode.pc # "idle" =>
        /\ decode.codec \in DOMAIN Encoded
        /\ \E input \in Encoded[decode.codec] : decode.file = input.file

\* What is left to read is what comes after the parts read, or nothing when
\* the last one ended the loop.
UnderWay ==
    decode.pc = "decoding" =>
        LET parts == PartsOf(decode.codec, decode.file) IN
        \/ /\ decode.todo = SubSeq(parts, decode.read + 1, Len(parts))
           /\ Reading(decode.codec, parts, decode.read, decode.kept, decode.size)
        \/ /\ decode.todo = <<>> /\ decode.read \in 1 .. Len(parts)
           /\ Reading(decode.codec, parts, decode.read - 1, decode.kept, decode.size)
           /\ LastRead(decode.codec, parts, decode.read - 1, decode.kept, decode.size)

DecodingInv == DecodeFields /\ Called /\ UnderWay /\ DecodesHonestly

\* What the next part does, and what it takes for it.
EffectHolds(codec, parts, n, kept, size, effect) ==
    /\ effect \in {"fail", "stop", "skip", "keep"}
    /\ effect = "fail" => FailsForReason(Codecs[codec], parts)
    /\ effect = "stop" => LastRead(codec, parts, n, kept, size)
    /\ effect = "skip" =>
          /\ Codecs[codec].bad = Skips /\ parts[n + 1].state # "good"
          /\ Codecs[codec].cut = Keeps => parts[n + 1].state = "bad"
    /\ effect = "keep" => Keepable(codec, n, kept, size, parts[n + 1])

LEMMA EffectIsSound ==
  ASSUME NEW codec \in DOMAIN Codecs, NEW parts \in Seq(Piece), NEW n \in Nat, n < Len(parts),
         NEW kept, NEW size, Reading(codec, parts, n, kept, size),
         decode.codec = codec, decode.read = n, decode.kept = kept, decode.size = size
  PROVE  EffectHolds(codec, parts, n, kept, size, Effect(parts[n + 1]))
<1> DEFINE rule == Codecs[codec]
           seen == SubSeq(parts, 1, n)
           part == parts[n + 1]
           joint == Between(codec, kept)
           which == IF n = 0 THEN 1 ELSE 2
           over == part.state # "bad" /\ size + joint + part.size > MaxOutput
           effect == Effect(part)
<1>1. RuleDecodes(codec, rule)
  BY CodecsDecode
<1>2. /\ part \in Piece /\ n + 1 \in 1 .. Len(parts)
      /\ Total(seen) \in Nat /\ Total(seen) + part.size <= Total(parts)
  BY NextRead
<1>3. /\ size \in Nat
      /\ rule.over = "fail" => size <= Total(seen)
      /\ rule.more # "read" => n <= 1
      /\ codec = "pdf" /\ kept # <<>> => size > 0
  BY DEF Reading
<1>4. part.size \in Nat /\ part.state \in {"good", "cut", "bad"} /\ MaxOutput \in Nat \ {0}
  BY <1>2, DecodingAssumption DEF Piece
<1>5. Total(parts) \in Nat /\ Len(parts) \in Nat
  BY TotalFacts
<1>6. joint \in {0, 1} /\ (rule.joint # "counted" => joint = 0) /\ (joint = 1 => kept # <<>>)
  BY DEF Between
<1>7. effect = IF rule.more = "fail" /\ n > 0 THEN "fail"
               ELSE IF rule.more = "ignored" /\ n > 0 THEN "stop"
               ELSE IF over /\ rule.over = "fail" THEN "fail"
               ELSE IF rule.over = "room" /\ size + joint >= MaxOutput THEN "stop"
               ELSE CASE part.state = "bad" -> rule.bad[which]
                      [] part.state = "cut" -> rule.cut[which]
                      [] OTHER -> "keep"
  BY DEF Effect, Between
<1>8. which \in {1, 2} /\ (which = 1 => n = 0) /\ (which = 2 => n > 0)
  OBVIOUS
<1>9. over <=> part.state # "bad" /\ size + joint + part.size > MaxOutput
  OBVIOUS
<1>10. n + 1 \in DOMAIN parts /\ part = parts[n + 1] /\ (n = 0 => part = parts[1])
  BY <1>2
<1>11. parts[n + 1] = part
  OBVIOUS
<1> HIDE DEF rule, seen, part, joint, which, over, effect
<1>12. rule = Codecs[codec]
  BY DEF rule
<1>13. \/ /\ rule.more = "fail" /\ n > 0 /\ effect = "fail"
       \/ /\ rule.more = "ignored" /\ n > 0 /\ effect = "stop"
       \/ /\ rule.more # "read" => n = 0
          /\ \/ over /\ rule.over = "fail" /\ effect = "fail"
             \/ rule.over = "room" /\ size + joint >= MaxOutput /\ effect = "stop"
             \/ /\ ~(over /\ rule.over = "fail") /\ ~(rule.over = "room" /\ size + joint >= MaxOutput)
                /\ \/ part.state = "bad" /\ effect = rule.bad[which]
                   \/ part.state = "cut" /\ effect = rule.cut[which]
                   \/ part.state = "good" /\ effect = "keep"
  <2>1. rule.more \in {"read", "ignored", "fail"}
    BY <1>1 DEF RuleDecodes
  <2>2. ~(n > 0) => n = 0
    OBVIOUS
  <2>3. CASE rule.more = "fail" /\ n > 0
    BY <1>7, <2>3
  <2>4. CASE rule.more = "ignored" /\ n > 0
    BY <1>7, <2>4
  <2>5. CASE rule.more # "read" => n = 0
    <3>1. ~(rule.more = "fail" /\ n > 0) /\ ~(rule.more = "ignored" /\ n > 0)
      BY <2>5
    <3>2. effect = IF over /\ rule.over = "fail" THEN "fail"
                   ELSE IF rule.over = "room" /\ size + joint >= MaxOutput THEN "stop"
                   ELSE CASE part.state = "bad" -> rule.bad[which]
                          [] part.state = "cut" -> rule.cut[which]
                          [] OTHER -> "keep"
      BY <1>7, <3>1 DEF over
    <3>3. CASE over /\ rule.over = "fail"
      BY <2>5, <3>2, <3>3 DEF over
    <3>4. CASE rule.over = "room" /\ size + joint >= MaxOutput
      <4>1. ~(over /\ rule.over = "fail")
        BY <3>4
      <4> QED BY <2>5, <3>2, <3>4, <4>1 DEF over
    <3>5. CASE ~(over /\ rule.over = "fail") /\ ~(rule.over = "room" /\ size + joint >= MaxOutput)
      <4>1. effect = CASE part.state = "bad" -> rule.bad[which]
                       [] part.state = "cut" -> rule.cut[which]
                       [] OTHER -> "keep"
        BY <3>2, <3>5 DEF over
      <4>2. \/ part.state = "bad" /\ effect = rule.bad[which]
            \/ part.state = "cut" /\ effect = rule.cut[which]
            \/ part.state = "good" /\ effect = "keep"
        BY <1>4, <4>1
      <4> QED BY <2>5, <3>5, <4>2
    <3> QED BY <3>3, <3>4, <3>5
  <2> QED BY <2>1, <2>2, <2>3, <2>4, <2>5
<1>14. CASE rule.more = "fail" /\ n > 0 /\ effect = "fail"
  <2>1. Len(parts) > 1
    BY <1>5, <1>14
  <2>2. FailsForReason(rule, parts)
    BY <1>14, <2>1 DEF FailsForReason
  <2> QED BY <1>12, <1>14, <2>2 DEF EffectHolds, part, effect
<1>15. CASE rule.more = "ignored" /\ n > 0 /\ effect = "stop"
  <2>1. n = 1
    BY <1>3, <1>15
  <2>2. LastRead(codec, parts, n, kept, size)
    BY <1>2, <1>5, <1>12, <1>15, <2>1 DEF LastRead
  <2> QED BY <1>15, <2>2 DEF EffectHolds, part, effect
<1>16. CASE over /\ rule.over = "fail" /\ effect = "fail"
  <2>1. joint = 0
    BY <1>1, <1>6, <1>16 DEF RuleDecodes
  <2>2. Total(parts) > MaxOutput
    BY <1>2, <1>3, <1>4, <1>5, <1>9, <1>16, <2>1
  <2>3. FailsForReason(rule, parts)
    BY <1>16, <2>2 DEF FailsForReason
  <2> QED BY <1>12, <1>16, <2>3 DEF EffectHolds, part, effect
<1>17. CASE rule.over = "room" /\ size + joint >= MaxOutput /\ effect = "stop"
  <2>1. size > 0
    <3>1. CASE joint = 0
      BY <1>3, <1>4, <1>17, <3>1
    <3>2. CASE joint = 1
      BY <1>1, <1>3, <1>6, <3>2 DEF RuleDecodes
    <3> QED BY <1>6, <3>1, <3>2
  <2>2. LastRead(codec, parts, n, kept, size)
    BY <1>2, <1>5, <1>12, <1>17, <2>1 DEF LastRead
  <2> QED BY <1>17, <2>2 DEF EffectHolds, part, effect
<1>18. ASSUME rule.more # "read" => n = 0,
              ~(over /\ rule.over = "fail"),
              ~(rule.over = "room" /\ size + joint >= MaxOutput),
              \/ part.state = "bad" /\ effect = rule.bad[which]
              \/ part.state = "cut" /\ effect = rule.cut[which]
              \/ part.state = "good" /\ effect = "keep"
       PROVE  EffectHolds(codec, parts, n, kept, size, effect)
  <2>1. /\ rule.bad \in {Fails, Skips, Keeps, Stops, FirstCounts}
        /\ rule.cut = rule.bad \/ rule.cut = Keeps
        /\ rule.bad \in {Stops, FirstCounts} => rule.cut # Keeps
        /\ rule.over = "fail" => rule.bad \in {Fails, FirstCounts} /\ rule.joint # "counted"
    BY <1>1 DEF RuleDecodes
  <2>2. \/ /\ part.state = "bad" \/ (part.state = "cut" /\ rule.cut = rule.bad)
           /\ effect = rule.bad[which]
        \/ part.state = "cut" /\ effect = "keep" /\ rule.cut = Keeps
        \/ part.state = "good" /\ effect = "keep"
    BY <1>8, <1>18, <2>1, Reactions
  <2>3. /\ effect \in {"fail", "stop", "skip", "keep"}
        /\ effect = "fail" => part.state # "good" /\ (rule.bad = Fails \/ (rule.bad = FirstCounts /\ n = 0))
        /\ effect = "stop" => part.state # "good" /\ (rule.bad = Stops \/ (rule.bad = FirstCounts /\ n > 0))
        /\ effect = "skip" =>
              /\ rule.bad = Skips /\ part.state # "good"
              /\ rule.cut = Keeps => part.state = "bad"
        /\ effect = "keep" =>
              \/ part.state = "good"
              \/ rule.bad = Keeps
              \/ part.state = "cut" /\ rule.cut = Keeps
    BY <1>8, <2>1, <2>2, Reactions
  <2>4. effect = "fail" => FailsForReason(rule, parts)
    <3> SUFFICES ASSUME effect = "fail" PROVE FailsForReason(rule, parts)
      OBVIOUS
    <3>1. CASE rule.bad = Fails
      <4>1. ~Whole(parts, Len(parts))
        BY <1>2, <1>11, <2>3 DEF Whole
      <4> QED BY <3>1, <4>1 DEF FailsForReason
    <3>2. CASE rule.bad = FirstCounts /\ n = 0
      BY <1>10, <2>3, <3>2, Reactions DEF FailsForReason
    <3> QED BY <2>3, <3>1, <3>2
  <2>5. effect = "stop" => LastRead(codec, parts, n, kept, size)
    BY <1>2, <1>5, <1>11, <1>12, <2>3 DEF LastRead
  <2>6. effect = "keep" => Keepable(codec, n, kept, size, part)
    <3> SUFFICES ASSUME effect = "keep" PROVE Keepable(codec, n, kept, size, part)
      OBVIOUS
    <3>1. rule.over = "fail" => size + part.size <= MaxOutput
      <4>1. rule.over = "fail" => part.state # "bad" /\ joint = 0
        BY <1>6, <2>1, <2>3, <1>18, <1>8, Reactions
      <4> QED BY <1>3, <1>4, <1>9, <1>18, <4>1
    <3>2. rule.over = "room" => size + joint < MaxOutput
      BY <1>3, <1>4, <1>6, <1>18
    <3>3. rule.bad # Keeps =>
             /\ part.state # "bad"
             /\ rule.cut # Keeps => part.state = "good"
      BY <2>3
    <3> QED BY <1>18, <3>1, <3>2, <3>3 DEF Keepable, rule, joint
  <2> QED BY <1>11, <1>12, <2>3, <2>4, <2>5, <2>6 DEF EffectHolds
<1>19. EffectHolds(codec, parts, n, kept, size, effect)
  BY <1>13, <1>14, <1>15, <1>16, <1>17, <1>18 DEF effect, part
<1> QED BY <1>19 DEF effect, part

-----------------------------------------------------------------------------
(* The end of the loop *)

LEMMA ReadingStarts ==
  ASSUME NEW codec \in DOMAIN Codecs, NEW parts \in Seq(Piece)
  PROVE  Reading(codec, parts, 0, <<>>, 0)
<1>1. SubSeq(parts, 1, 0) = <<>> /\ Len(parts) \in Nat
  BY WholePrefix
<1>2. Total(<<>>) = 0 /\ Good(<<>>) = <<>> /\ Usable(Codecs[codec], <<>>) = <<>>
  BY TotalOfNothing, InStateOfNothing DEF Good, Usable
<1>3. /\ Total(SubSeq(parts, 1, 0)) = 0 /\ Good(SubSeq(parts, 1, 0)) = <<>>
      /\ Usable(Codecs[codec], SubSeq(parts, 1, 0)) = <<>>
  BY <1>1, <1>2
<1>4. Whole(parts, 0)
  BY DEF Whole
<1>5. 0 \in 0 .. Len(parts) /\ <<>> \in Seq(Piece) /\ DOMAIN <<>> = {} /\ 0 <= MaxOutput
  BY <1>1, DecodingAssumption
<1> QED BY <1>1, <1>2, <1>3, <1>4, <1>5 DEF Reading

\* The loop ends with the parts, or because of the one after n.
LoopEnds(codec, parts, n, kept, size) ==
    Reading(codec, parts, n, kept, size) /\ (n = Len(parts) \/ LastRead(codec, parts, n, kept, size))

LEMMA EndGivesHonestly ==
  ASSUME NEW codec \in DOMAIN Codecs, NEW parts \in Seq(Piece), NEW n, NEW kept, NEW size,
         LoopEnds(codec, parts, n, kept, size)
  PROVE  GivenHonestly(codec, parts, kept)
<1> DEFINE rule == Codecs[codec]
           seen == SubSeq(parts, 1, n)
<1>1. RuleDecodes(codec, rule)
  BY CodecsDecode
<1>2. /\ n \in 0 .. Len(parts) /\ kept \in Seq(Piece) /\ size \in Nat
      /\ Total(kept) <= size
      /\ rule.over # "none" => size <= MaxOutput
      /\ rule.bad # Keeps =>
          /\ \A i \in DOMAIN kept : kept[i].state # "bad"
          /\ rule.cut # Keeps => \A i \in DOMAIN kept : kept[i].state = "good"
      /\ rule.bad = FirstCounts /\ rule.over # "room" => kept = seen
      /\ rule.bad = Skips /\ rule.over = "none" => kept = Usable(rule, seen)
  BY DEF LoopEnds, Reading
<1>3. Len(parts) \in Nat /\ SubSeq(parts, 1, Len(parts)) = parts
  BY WholePrefix
<1>4. n < Len(parts) =>
        \/ rule.more = "ignored"
        \/ rule.over = "room"
        \/ rule.bad = Stops
        \/ rule.bad = FirstCounts /\ parts[n + 1].state # "good"
  <2> SUFFICES ASSUME n < Len(parts)
               PROVE  \/ rule.more = "ignored"
                      \/ rule.over = "room"
                      \/ rule.bad = Stops
                      \/ rule.bad = FirstCounts /\ parts[n + 1].state # "good"
    OBVIOUS
  <2>1. n # Len(parts)
    <3>1. \A j \in Nat : \A i \in 0 .. j : i < j => i # j
      OBVIOUS
    <3> QED BY <1>2, <1>3, <3>1, Zenon
  <2>2. LastRead(codec, parts, n, kept, size)
    BY <2>1 DEF LoopEnds
  <2> QED BY <2>2 DEF LastRead
<1>5. rule.over # "none" => Total(kept) <= MaxOutput
  <2>1. Total(kept) \in Nat /\ MaxOutput \in Nat
    BY <1>2, TotalFacts, DecodingAssumption
  <2> QED BY <1>2, <2>1
<1>6. ASSUME rule.bad = FirstCounts, rule.over = "fail"
      PROVE  /\ kept = SubSeq(parts, 1, Len(kept))
             /\ Len(kept) < Len(parts) => parts[Len(kept) + 1].state # "good"
  <2>1. kept = SubSeq(parts, 1, n)
    BY <1>2, <1>6
  <2>2. Len(SubSeq(parts, 1, n)) = n
    BY <1>2, <1>3
  <2>3. Len(kept) = n
    BY <2>1, <2>2
  <2>4. rule.more = "read"
    BY <1>1, <1>6, Reactions DEF RuleDecodes
  <2>5. n < Len(parts) => parts[n + 1].state # "good"
    BY <1>4, <1>6, <2>4, Reactions
  <2> QED BY <2>1, <2>3, <2>5
<1>7. ASSUME rule.bad = Skips, rule.over = "none"
      PROVE  kept = Usable(rule, parts)
  <2>1. rule.more = "read"
    BY <1>1, <1>7, Reactions DEF RuleDecodes
  <2>2. n = Len(parts)
    <3>1. /\ rule.more # "ignored" /\ rule.over # "room" /\ rule.bad # Stops
          /\ rule.bad # FirstCounts
      BY <1>7, <2>1, Reactions
    <3>2. ~(n < Len(parts))
      BY <1>4, <3>1, Zenon
    <3>3. \A j \in Nat : \A i \in 0 .. j : ~(i < j) => i = j
      OBVIOUS
    <3> QED BY <1>2, <1>3, <3>2, <3>3, Zenon
  <2>3. SubSeq(parts, 1, n) = parts
    BY <1>3, <2>2
  <2> QED BY <1>2, <1>7, <2>3
<1> QED BY <1>2, <1>5, <1>6, <1>7 DEF GivenHonestly

\* Where a part was read and nothing was gained there is a reason.
LEMMA EndFailsForReason ==
  ASSUME NEW codec \in DOMAIN Codecs, NEW parts \in Seq(Piece), NEW n, NEW kept, NEW size,
         LoopEnds(codec, parts, n, kept, size), Len(parts) # 0,
         \/ "some" \in Codecs[codec].needs /\ size = 0
         \/ codec = "recursive" /\ kept = <<>>
  PROVE  FailsForReason(Codecs[codec], parts)
<1> DEFINE rule == Codecs[codec]
           seen == SubSeq(parts, 1, n)
<1>1. RuleDecodes(codec, rule)
  BY CodecsDecode
<1>2. /\ n \in 0 .. Len(parts) /\ size \in Nat
      /\ rule.bad = FirstCounts /\ rule.over # "room" => kept = seen
      /\ size = 0 => Total(Good(seen)) = 0
      /\ rule.more # "read" => n <= 1 /\ (n = 1 => size = parts[1].size)
      /\ rule.bad = Stops => Whole(parts, n) /\ size = Total(seen)
  BY DEF LoopEnds, Reading
<1>3. Len(parts) \in Nat /\ SubSeq(parts, 1, Len(parts)) = parts
  BY WholePrefix
<1>4. \/ n = Len(parts)
      \/ /\ n \in 0 .. Len(parts) - 1
         /\ \/ rule.more = "ignored" /\ n = 1
            \/ rule.over = "room" /\ size > 0
            \/ rule.bad = Stops /\ parts[n + 1].state # "good"
            \/ rule.bad = FirstCounts /\ n > 0 /\ parts[n + 1].state # "good"
  BY DEF LoopEnds, LastRead
<1>5. ~(codec = "recursive" /\ kept = <<>>)
  <2> SUFFICES ASSUME codec = "recursive", kept = <<>> PROVE FALSE
    OBVIOUS
  <2>1. rule.bad = FirstCounts /\ rule.more = "read" /\ rule.over # "room"
    BY <1>1, Reactions DEF RuleDecodes
  <2>2. n > 0
    <3>1. CASE n = Len(parts)
      BY <1>3, <3>1
    <3>2. CASE n # Len(parts)
      <4>1. rule.more # "ignored" /\ rule.bad # Stops
        BY <2>1, Reactions
      <4> QED BY <1>4, <2>1, <3>2, <4>1, Zenon
    <3> QED BY <3>1, <3>2
  <2>3. Len(SubSeq(parts, 1, n)) = n
    BY <1>2, <1>3
  <2>4. SubSeq(parts, 1, n) = <<>>
    BY <1>2, <2>1
  <2>5. Len(<<>>) = 0 /\ ~(0 > 0)
    OBVIOUS
  <2>6. n = 0
    BY <2>3, <2>4, <2>5, Zenon
  <2> QED BY <2>2, <2>5, <2>6, Zenon
<1>6. "some" \in rule.needs /\ size = 0 /\ Total(Good(seen)) = 0
  BY <1>2, <1>5
<1>7. rule.bad # FirstCounts
  BY <1>1, <1>6 DEF RuleDecodes
<1>8. CASE n = Len(parts)
  <2>1. SubSeq(parts, 1, n) = parts
    BY <1>3, <1>8
  <2> QED BY <1>6, <2>1 DEF FailsForReason
<1>9. CASE rule.more = "ignored" /\ n = 1
  BY <1>2, <1>6, <1>9 DEF FailsForReason
<1>10. CASE rule.bad = Stops /\ parts[n + 1].state # "good" /\ n \in 0 .. Len(parts) - 1
  <2>1. n + 1 \in DOMAIN parts /\ (n + 1) - 1 = n
    BY <1>2, <1>3, <1>10
  <2>2. Whole(parts, n) /\ Total(SubSeq(parts, 1, n)) = 0
    BY <1>2, <1>6, <1>10
  <2>3. \E m \in DOMAIN parts :
          parts[m].state # "good" /\ Whole(parts, m - 1) /\ Total(SubSeq(parts, 1, m - 1)) = 0
    <3>1. Whole(parts, (n + 1) - 1) /\ Total(SubSeq(parts, 1, (n + 1) - 1)) = 0
      BY <2>1, <2>2
    <3> QED BY <1>10, <2>1, <3>1
  <2> QED BY <1>10, <2>3 DEF FailsForReason
<1> QED BY <1>4, <1>6, <1>7, <1>8, <1>9, <1>10

-----------------------------------------------------------------------------
(* The steps *)

\* No walk through the sectors meets one twice, in any state.
LEMMA ChainsAreWalks ==
  ASSUME NEW codec, NEW file, codec \in DOMAIN Encoded,
         \E input \in Encoded[codec] : file = input.file, codec = "ole"
  PROVE  \A n \in DOMAIN file.entries : IsInjective(Chain(file.fat, file.entries[n].start))
<1>1. PICK input \in Encoded[codec] : file = input.file
  OBVIOUS
<1>2. file.fat \in Seq(Nat)
  BY <1>1, PartsAreParts
<1> QED BY <1>2, WalksOnce

\* What is being read is a sequence of parts.
LEMMA CalledWithParts ==
  ASSUME DecodeFields, Called, decode.pc # "idle"
  PROVE  /\ decode.codec \in DOMAIN Codecs
         /\ PartsOf(decode.codec, decode.file) \in Seq(Piece)
         /\ decode.codec = "pdf" => PartsOf(decode.codec, decode.file) \in Seq(Giving)
<1>1. decode.codec \in DOMAIN Encoded
  BY DEF Called
<1>2. PICK input \in Encoded[decode.codec] : decode.file = input.file
  BY DEF Called
<1>3. decode.codec \in DOMAIN Codecs
  BY <1>1, DecodingAssumption
<1> QED BY <1>1, <1>2, <1>3, PartsAreParts

\* The call goes on with what the next part left.
Moves(pc, todo, kept, size, read) ==
    decode' = [decode EXCEPT !.pc = pc, !.todo = todo, !.kept = kept, !.size = size,
                             !.read = read]

LEMMA DecodeMoves ==
  ASSUME DecodeFields, NEW pc \in {"idle", "decoding", "decoded", "failed"}, NEW todo, NEW kept,
         NEW size, NEW read \in Nat, Moves(pc, todo, kept, size, read)
  PROVE  /\ decode'.pc = pc /\ decode'.todo = todo /\ decode'.kept = kept
         /\ decode'.size = size /\ decode'.read = read /\ decode'.codec = decode.codec
         /\ decode'.file = decode.file /\ decode'.changed = decode.changed
         /\ decode'.text = decode.text
         /\ DecodeFields'
<1>1. decode' = [pc |-> pc, codec |-> decode.codec, file |-> decode.file, todo |-> todo,
                 kept |-> kept, size |-> size, read |-> read, changed |-> decode.changed,
                 text |-> decode.text]
  BY DEF DecodeFields, Moves
<1>2. decode.codec \in DOMAIN Codecs
  BY DEF DecodeFields
<1>3. /\ decode'.pc = pc /\ decode'.todo = todo /\ decode'.kept = kept
      /\ decode'.size = size /\ decode'.read = read /\ decode'.codec = decode.codec
      /\ decode'.file = decode.file /\ decode'.changed = decode.changed
      /\ decode'.text = decode.text
  BY <1>1
<1>4. DecodeFields'
  BY <1>1, <1>2 DEF DecodeFields
<1> QED BY <1>3, <1>4

LEMMA CalledStays ==
  ASSUME Called, decode.pc # "idle", decode'.codec = decode.codec, decode'.file = decode.file
  PROVE  Called'
  BY DEF Called

\* What holds of a call whose end is not reached.
LEMMA NothingGivenYet ==
  ASSUME Called', decode'.pc = "decoding" PROVE DecodesHonestly'
<1>1. decode'.codec = "ole" =>
        \A n \in DOMAIN decode'.file.entries :
            IsInjective(Chain(decode'.file.fat, decode'.file.entries[n].start))
  <2> SUFFICES ASSUME decode'.codec = "ole"
               PROVE  \A n \in DOMAIN decode'.file.entries :
                          IsInjective(Chain(decode'.file.fat, decode'.file.entries[n].start))
    OBVIOUS
  <2>1. /\ decode'.codec \in DOMAIN Encoded
        /\ \E input \in Encoded[decode'.codec] : decode'.file = input.file
    BY DEF Called
  <2> QED BY <2>1, ChainsAreWalks
<1> QED BY <1>1 DEF DecodesHonestly

LEMMA OpenPreserves ==
  ASSUME DecodingInv, OpenEncoded PROVE DecodingInv'
<1> DEFINE Calls(codec, input) ==
          decode' = [Resting EXCEPT
              !.pc = IF Detected(codec, input.signs) /\ Parsable(codec, input.file)
                    THEN "decoding" ELSE "failed",
              !.codec = codec, !.file = input.file, !.todo = PartsOf(codec, input.file),
              !.changed = input.changed, !.text = input.text]
<1>0. \E codec \in DOMAIN Encoded : \E input \in Encoded[codec] : Calls(codec, input)
  BY Zenon DEF OpenEncoded
<1> HIDE DEF Calls
<1>1. PICK codec \in DOMAIN Encoded : \E input \in Encoded[codec] : Calls(codec, input)
  BY <1>0, Zenon
<1>2. PICK input \in Encoded[codec] : Calls(codec, input)
  BY <1>1, Zenon
<1> DEFINE pc == IF Detected(codec, input.signs) /\ Parsable(codec, input.file)
                    THEN "decoding" ELSE "failed"
           parts == PartsOf(codec, input.file)
<1>3. decode' = [pc |-> pc, codec |-> codec, file |-> input.file, todo |-> parts, kept |-> <<>>,
                 size |-> 0, read |-> 0, changed |-> input.changed, text |-> input.text]
  <2> HIDE DEF pc, parts
  <2>1. decode' = [Resting EXCEPT !.pc = pc, !.codec = codec, !.file = input.file,
                       !.todo = parts, !.changed = input.changed, !.text = input.text]
    BY <1>2 DEF pc, parts, Calls
  <2> QED BY <2>1 DEF Resting
<1>4. pc \in {"decoding", "failed"}
  OBVIOUS
<1>5. codec \in DOMAIN Codecs /\ parts \in Seq(Piece)
  BY PartsAreParts, DecodingAssumption
<1> HIDE DEF pc, parts
<1>6. /\ decode'.pc = pc /\ decode'.codec = codec /\ decode'.file = input.file
      /\ decode'.todo = parts /\ decode'.kept = <<>> /\ decode'.size = 0 /\ decode'.read = 0
  BY <1>3
<1>7. DecodeFields'
  BY <1>3, <1>4, <1>5 DEF DecodeFields
<1>8. Called'
  BY <1>6 DEF Called
<1>9. UnderWay'
  <2>1. Reading(codec, parts, 0, <<>>, 0) /\ SubSeq(parts, 1, Len(parts)) = parts
    BY <1>5, ReadingStarts, WholePrefix
  <2>2. parts = PartsOf(decode'.codec, decode'.file)
    BY <1>6 DEF parts
  <2>3. decode'.read + 1 = 1
    BY <1>6
  <2> QED BY <1>6, <2>1, <2>2, <2>3 DEF UnderWay
<1>10. DecodesHonestly'
  <2>1. CASE decode'.pc = "decoding"
    BY <1>8, <2>1, NothingGivenYet
  <2>2. CASE decode'.pc = "failed"
    BY <1>6, <2>2 DEF DecodesHonestly
  <2> QED BY <1>4, <1>6, <2>1, <2>2
<1> QED BY <1>7, <1>8, <1>9, <1>10 DEF DecodingInv

LEMMA PartPreserves ==
  ASSUME DecodingInv, DecodePart PROVE DecodingInv'
<1> DEFINE codec == decode.codec
           parts == PartsOf(decode.codec, decode.file)
           n == decode.read
           part == parts[n + 1]
           effect == Effect(part)
           joint == Between(codec, decode.kept)
           room == Room(codec, decode.kept, decode.size, part)
           pc == IF effect = "fail" THEN "failed" ELSE decode.pc
           todo == IF effect \in {"fail", "stop"} THEN <<>> ELSE Tail(decode.todo)
           kept == IF effect = "keep" THEN Append(decode.kept, Part(part.state, room))
                   ELSE decode.kept
           size == IF effect = "keep" THEN decode.size + joint + room ELSE decode.size
<1>1. decode.pc = "decoding" /\ decode.todo # <<>>
  BY DEF DecodePart
<1>2. DecodeFields /\ Called /\ UnderWay
  BY DEF DecodingInv
<1>3. /\ codec \in DOMAIN Codecs /\ parts \in Seq(Piece)
      /\ codec = "pdf" => parts \in Seq(Giving)
  BY <1>1, <1>2, CalledWithParts
<1>4. /\ decode.todo = SubSeq(parts, n + 1, Len(parts))
      /\ Reading(codec, parts, n, decode.kept, decode.size)
  BY <1>1, <1>2 DEF UnderWay
<1>5. n \in Nat /\ Len(parts) \in Nat /\ n \in 0 .. Len(parts)
  <2>1. n \in Nat
    BY <1>2 DEF DecodeFields
  <2>2. Len(parts) \in Nat
    BY <1>3, WholePrefix
  <2> QED BY <1>4, <2>1, <2>2 DEF Reading
<1>6. n < Len(parts) /\ Head(decode.todo) = part
      /\ Tail(decode.todo) = SubSeq(parts, n + 2, Len(parts))
  <2>1. n <= Len(parts)
    BY <1>5
  <2>2. SubSeq(parts, n + 1, Len(parts)) = <<>> <=> n = Len(parts)
    BY <1>3, <1>5, <2>1, RestOfParts
  <2>3. n # Len(parts)
    BY <1>1, <1>4, <2>2
  <2>4. n < Len(parts)
    BY <1>5, <2>3
  <2> QED BY <1>3, <1>4, <1>5, <2>1, <2>4, RestOfParts
<1>7. decode' = [decode EXCEPT !.pc = pc, !.todo = todo, !.kept = kept, !.size = size,
                               !.read = n + 1]
  <2>1. Codecs[codec].over = "room" => room = Lesser(part.size, MaxOutput - decode.size - joint)
    BY DEF Room
  <2>2. Codecs[codec].over # "room" => room = part.size
    BY DEF Room
  <2>3. Head(decode.todo) = part
    BY <1>6
  <2> QED BY <2>3 DEF DecodePart, Between, Room
<1>8. EffectHolds(codec, parts, n, decode.kept, decode.size, effect)
  BY <1>3, <1>4, <1>5, <1>6, EffectIsSound
<1>9. pc \in {"decoding", "failed"} /\ (pc = "failed" <=> effect = "fail") /\ n + 1 \in Nat
  BY <1>1, <1>5
<1>10. /\ effect = "keep" =>
             /\ kept = Append(decode.kept, Part(part.state, room))
             /\ size = decode.size + joint + room
       /\ effect # "keep" => kept = decode.kept /\ size = decode.size
       /\ effect \in {"keep", "skip"} => todo = SubSeq(parts, n + 2, Len(parts))
       /\ effect = "stop" => todo = <<>>
  BY <1>6
<1>11. room = Room(codec, decode.kept, decode.size, part) /\ joint = Between(codec, decode.kept)
       /\ part = parts[n + 1] /\ parts = PartsOf(decode.codec, decode.file) /\ n = decode.read
       /\ codec = decode.codec
  OBVIOUS
<1> HIDE DEF pc, todo, kept, size, effect, room, joint, parts, n, part, codec
<1>12. effect = "keep" => Reading(codec, parts, n + 1, kept, size)
  <2> SUFFICES ASSUME effect = "keep" PROVE Reading(codec, parts, n + 1, kept, size)
    OBVIOUS
  <2>1. Keepable(codec, n, decode.kept, decode.size, parts[n + 1])
    BY <1>8 DEF EffectHolds
  <2>2. LET x == parts[n + 1]
            r == Room(codec, decode.kept, decode.size, x) IN
        Reading(codec, parts, n + 1, Append(decode.kept, Part(x.state, r)),
                decode.size + Between(codec, decode.kept) + r)
    BY ONLY <1>3, <1>4, <1>5, <1>6, <2>1, KeptPart
  <2> QED BY <1>10, <1>11, <2>2
<1>13. effect = "skip" => Reading(codec, parts, n + 1, kept, size)
  <2> SUFFICES ASSUME effect = "skip" PROVE Reading(codec, parts, n + 1, kept, size)
    OBVIOUS
  <2>1. /\ Codecs[codec].bad = Skips /\ parts[n + 1].state # "good"
        /\ Codecs[codec].cut = Keeps => parts[n + 1].state = "bad"
    BY <1>8 DEF EffectHolds
  <2>2. Reading(codec, parts, n + 1, decode.kept, decode.size)
    BY <1>3, <1>4, <1>5, <1>6, <2>1, SkippedPart
  <2> QED BY <1>10, <2>2
<1>14. /\ decode'.pc = pc /\ decode'.todo = todo /\ decode'.kept = kept
       /\ decode'.size = size /\ decode'.read = n + 1 /\ decode'.codec = codec
       /\ decode'.file = decode.file /\ decode'.changed = decode.changed
       /\ decode'.text = decode.text
       /\ DecodeFields'
  <2>1. pc \in {"idle", "decoding", "decoded", "failed"}
    BY <1>9
  <2> DEFINE next == n + 1
  <2> HIDE DEF next
  <2>2. Moves(pc, todo, kept, size, next) /\ next \in Nat
    BY <1>7, <1>9 DEF next, Moves
  <2>3. /\ decode'.pc = pc /\ decode'.todo = todo /\ decode'.kept = kept
        /\ decode'.size = size /\ decode'.read = next /\ decode'.codec = decode.codec
        /\ decode'.file = decode.file /\ decode'.changed = decode.changed
        /\ decode'.text = decode.text
        /\ DecodeFields'
    BY <1>2, <2>1, <2>2, DecodeMoves
  <2> QED BY <1>11, <2>3 DEF next
<1>15. Called'
  BY <1>1, <1>2, <1>11, <1>14, CalledStays
<1>16. PartsOf(decode'.codec, decode'.file) = parts
  BY <1>11, <1>14
<1>17. n + 1 + 1 = n + 2 /\ (n + 1) - 1 = n /\ n + 1 \in 1 .. Len(parts)
  <2>1. n < Len(parts)
    BY <1>6
  <2> QED BY <1>5, <2>1
<1>18. UnderWay'
  <2> SUFFICES ASSUME decode'.pc = "decoding"
               PROVE  \/ /\ todo = SubSeq(parts, n + 1 + 1, Len(parts))
                         /\ Reading(codec, parts, n + 1, kept, size)
                      \/ /\ todo = <<>> /\ n + 1 \in 1 .. Len(parts)
                         /\ Reading(codec, parts, (n + 1) - 1, kept, size)
                         /\ LastRead(codec, parts, (n + 1) - 1, kept, size)
    BY <1>14, <1>16 DEF UnderWay
  <2>1. effect \in {"stop", "skip", "keep"}
    BY <1>8, <1>9, <1>14 DEF EffectHolds
  <2>2. CASE effect = "stop"
    <3>1. LastRead(codec, parts, n, decode.kept, decode.size)
      BY <1>8, <2>2 DEF EffectHolds
    <3> QED BY <1>4, <1>10, <1>17, <2>2, <3>1
  <2>3. CASE effect = "skip"
    BY <1>10, <1>13, <1>17, <2>3
  <2>4. CASE effect = "keep"
    BY <1>10, <1>12, <1>17, <2>4
  <2> QED BY <2>1, <2>2, <2>3, <2>4
<1>19. DecodesHonestly'
  <2>1. CASE decode'.pc = "decoding"
    BY <1>15, <2>1, NothingGivenYet
  <2>2. CASE decode'.pc = "failed"
    <3>1. FailsForReason(Codecs[codec], parts)
      BY <1>8, <1>9, <1>14, <2>2 DEF EffectHolds
    <3> QED BY <1>11, <1>14, <1>16, <2>2, <3>1 DEF DecodesHonestly
  <2> QED BY <1>9, <1>14, <2>1, <2>2
<1> QED BY <1>14, <1>15, <1>18, <1>19 DEF DecodingInv

LEMMA EndPreserves ==
  ASSUME DecodingInv, DecodeEnds PROVE DecodingInv'
<1> DEFINE codec == decode.codec
           parts == PartsOf(decode.codec, decode.file)
           rule == Codecs[decode.codec]
           holds == /\ "some" \in rule.needs => decode.size > 0
                    /\ "changed" \in rule.needs => decode.changed
                    /\ "text" \in rule.needs => decode.text
                    /\ codec = "recursive" => decode.kept # <<>>
           pc == IF holds THEN "decoded" ELSE "failed"
<1>1. decode.pc = "decoding" /\ decode.todo = <<>>
  BY DEF DecodeEnds
<1>2. DecodeFields /\ Called /\ UnderWay
  BY DEF DecodingInv
<1>3. codec \in DOMAIN Codecs /\ parts \in Seq(Piece)
  BY <1>1, <1>2, CalledWithParts
<1>4. Moves(pc, decode.todo, decode.kept, decode.size, decode.read)
  <2>1. decode' = [decode EXCEPT !.pc = pc]
    BY DEF DecodeEnds
  <2> HIDE DEF pc
  <2> QED BY <1>2, <2>1 DEF Moves, DecodeFields
<1>5. pc \in {"decoded", "failed"} /\ (pc = "failed" <=> ~holds)
  OBVIOUS
<1>6. decode.read \in Nat /\ Len(parts) \in Nat
  BY <1>2, <1>3, WholePrefix DEF DecodeFields
<1>7. /\ \E n \in Nat : LoopEnds(codec, parts, n, decode.kept, decode.size)
      /\ decode.read > 0 => Len(parts) # 0
  <2>1. CASE /\ decode.todo = SubSeq(parts, decode.read + 1, Len(parts))
             /\ Reading(codec, parts, decode.read, decode.kept, decode.size)
    <3>1. decode.read \in 0 .. Len(parts)
      BY <2>1 DEF Reading
    <3>2. decode.read <= Len(parts)
      BY <1>6, <3>1
    <3>3. SubSeq(parts, decode.read + 1, Len(parts)) = <<>> <=> decode.read = Len(parts)
      BY <1>3, <1>6, <3>2, RestOfParts
    <3>4. decode.read = Len(parts)
      BY <1>1, <2>1, <3>3
    <3>5. LoopEnds(codec, parts, decode.read, decode.kept, decode.size)
      BY <2>1, <3>4 DEF LoopEnds
    <3> QED BY <1>6, <3>4, <3>5
  <2>2. CASE /\ decode.read \in 1 .. Len(parts)
             /\ Reading(codec, parts, decode.read - 1, decode.kept, decode.size)
             /\ LastRead(codec, parts, decode.read - 1, decode.kept, decode.size)
    <3>1. decode.read - 1 \in Nat /\ Len(parts) # 0
      BY <1>6, <2>2
    <3>2. LoopEnds(codec, parts, decode.read - 1, decode.kept, decode.size)
      BY <2>2 DEF LoopEnds
    <3> QED BY <3>1, <3>2
  <2> QED BY <1>1, <1>2, <2>1, <2>2 DEF UnderWay
<1>8. PICK n \in Nat : LoopEnds(codec, parts, n, decode.kept, decode.size)
  BY <1>7
<1>9. GivenHonestly(codec, parts, decode.kept)
  BY <1>3, <1>8, EndGivesHonestly
<1>10. decode.size \in Nat
  BY <1>8 DEF LoopEnds, Reading
<1>11. ASSUME ~holds, decode.read > 0,
              "changed" \in rule.needs => decode.changed, "text" \in rule.needs => decode.text
       PROVE  FailsForReason(rule, parts)
  <2>1. \/ "some" \in Codecs[codec].needs /\ decode.size = 0
        \/ codec = "recursive" /\ decode.kept = <<>>
    <3>1. ~(decode.size > 0) => decode.size = 0
      BY <1>10
    <3> QED BY <1>11, <3>1, Zenon
  <2>2. Len(parts) # 0
    BY <1>7, <1>11
  <2> QED BY <1>3, <1>8, <2>1, <2>2, EndFailsForReason
<1> HIDE DEF pc, holds
<1>12. /\ decode'.pc = pc /\ decode'.kept = decode.kept
       /\ decode'.size = decode.size /\ decode'.read = decode.read /\ decode'.codec = decode.codec
       /\ decode'.file = decode.file /\ decode'.changed = decode.changed
       /\ decode'.text = decode.text
       /\ DecodeFields'
  <2>1. pc \in {"idle", "decoding", "decoded", "failed"}
    BY <1>5
  <2> QED BY <1>2, <1>4, <1>6, <2>1, DecodeMoves
<1>13. Called'
  BY <1>1, <1>2, <1>12, CalledStays
<1>14. UnderWay'
  BY <1>5, <1>12 DEF UnderWay
<1>15. DecodesHonestly'
  <2>1. CASE pc = "decoded"
    BY <1>9, <1>12, <2>1 DEF DecodesHonestly
  <2>2. CASE pc = "failed"
    <3> SUFFICES ASSUME "changed" \in rule.needs => decode.changed,
                        "text" \in rule.needs => decode.text, decode.read > 0
                 PROVE  FailsForReason(rule, parts)
      BY <1>12, <2>2 DEF DecodesHonestly
    <3> QED BY <1>5, <1>11, <2>2
  <2> QED BY <1>5, <2>1, <2>2
<1> QED BY <1>12, <1>13, <1>14, <1>15 DEF DecodingInv

\* Between two calls, and before the first.
LEMMA RestingHolds == ASSUME decode = Resting PROVE DecodingInv
<1>1. /\ decode.pc = "idle" /\ decode.codec = "gzip" /\ decode.read = 0
      /\ decode = [pc |-> "idle", codec |-> "gzip", file |-> decode.file, todo |-> decode.todo,
                   kept |-> decode.kept, size |-> decode.size, read |-> 0,
                   changed |-> decode.changed, text |-> decode.text]
  BY DEF Resting
<1>2. "gzip" \in DOMAIN Codecs
  BY DEF Codecs
<1>3. DecodeFields
  BY <1>1, <1>2 DEF DecodeFields
<1> QED BY <1>1, <1>3 DEF DecodingInv, Called, UnderWay, DecodesHonestly

LEMMA DecodingHolds == DecodingSpec => []DecodingInv
<1>1. DecodingInit => DecodingInv
  BY RestingHolds DEF DecodingInit
<1>2. DecodingInv /\ [DecodingNext]_decode => DecodingInv'
  <2> SUFFICES ASSUME DecodingInv, [DecodingNext]_decode PROVE DecodingInv'
    OBVIOUS
  <2>1. CASE OpenEncoded
    BY <2>1, OpenPreserves
  <2>2. CASE DecodePart
    BY <2>2, PartPreserves
  <2>3. CASE DecodeEnds
    BY <2>3, EndPreserves
  <2>4. CASE NextDecoder
    <3>1. decode' = Resting
      BY <2>4 DEF NextDecoder
    <3>2. /\ decode'.pc = "idle" /\ decode'.codec = "gzip" /\ decode'.read = 0
          /\ decode' = [pc |-> "idle", codec |-> "gzip", file |-> decode'.file,
                        todo |-> decode'.todo, kept |-> decode'.kept, size |-> decode'.size,
                        read |-> 0, changed |-> decode'.changed, text |-> decode'.text]
      BY <3>1 DEF Resting
    <3>3. "gzip" \in DOMAIN Codecs
      BY DEF Codecs
    <3>4. DecodeFields'
      BY <3>2, <3>3 DEF DecodeFields
    <3> QED BY <3>2, <3>4 DEF DecodingInv, Called, UnderWay, DecodesHonestly
  <2>5. CASE UNCHANGED decode
    BY <2>5 DEF DecodingInv, DecodeFields, Called, UnderWay, DecodesHonestly
  <2> QED BY <2>1, <2>2, <2>3, <2>4, <2>5 DEF DecodingNext
<1> QED BY <1>1, <1>2, PTL DEF DecodingSpec

\* What a decoder gives back is of the parts it could read and within the
\* limit, and it fails only for a reason of the first part, of the limit or of
\* what success needs, for every input, number of parts and limit.
THEOREM DecodesAreHonest == DecodingSpec => []DecodesHonestly
<1>1. DecodingInv => DecodesHonestly
  BY DEF DecodingInv
<1> QED BY <1>1, DecodingHolds, PTL
=============================================================================
