------------------------ MODULE SegmentedTransferProofs ------------------------
(***************************************************************************)
(* Whatever the planner, the engine and the rebuilds do, the ranges of a    *)
(* segmented transfer tile the file; while no range was given the part of   *)
(* another one, the merged file is the remote file; and a first run without *)
(* a merge of segments never gives a range a part that is not its own.      *)
(* Proved for every size, block, connection count and number of runs.       *)
(***************************************************************************)
EXTENDS SegmentedTransfer, SequenceTheorems, FiniteSetTheorems, WellFoundedInduction, TLAPS

-----------------------------------------------------------------------------
(* Tilings.  The engine's ends are exclusive, those of the drive loop's      *)
(* ranges inclusive.                                                         *)

Segment == [id : Nat, start : 0..Total, end : 0..Total, downloaded : Nat,
            live : BOOLEAN]
ByteRange == [id : Nat, start : 0..Total, end : 0..Total]

\* Segments with distinct ids, none empty, no two sharing a byte, none missing
Tiles(s) ==
    /\ \A i, j \in DOMAIN s : i # j => s[i].id # s[j].id
    /\ \A i \in DOMAIN s : s[i].start < s[i].end
    /\ \A i, j \in DOMAIN s :
          i # j => s[i].end <= s[j].start \/ s[j].end <= s[i].start
    /\ \A b \in 0..Total - 1 :
          \E i \in DOMAIN s : s[i].start <= b /\ b < s[i].end

\* The same of ranges
Covers(r) ==
    /\ \A i, j \in DOMAIN r : i # j => r[i].id # r[j].id
    /\ \A i \in DOMAIN r : r[i].start <= r[i].end /\ r[i].end < Total
    /\ \A i, j \in DOMAIN r :
          i # j => r[i].end < r[j].start \/ r[j].end < r[i].start
    /\ \A b \in 0..Total - 1 :
          \E i \in DOMAIN r : r[i].start <= b /\ b <= r[i].end

\* The segments as the ranges a rebuild makes of them
AsRanges(s) == [k \in DOMAIN s |->
                   [id |-> s[k].id, start |-> s[k].start, end |-> s[k].end - 1]]

-----------------------------------------------------------------------------
(* The inductive invariant.                                                  *)

Busy == phase \in {"driving", "adjusting", "rebuilding", "merging"}

\* During a run the segments tile the file and the ranges cover it
TilesInv ==
    /\ TypeOK
    /\ Busy <=> segments # <<>>
    /\ Busy => Tiles(segments) /\ Covers(active)

\* Every part holds its own range, and the file is whole, unless a range was
\* given the part of another one
HoldsRange(r) ==
    /\ Len(parts[r.id]) <= PartSize(r)
    /\ \A i \in DOMAIN parts[r.id] : parts[r.id][i] = r.start + i - 1
OwnInv ==
    ~adopted => /\ \A k \in DOMAIN active : HoldsRange(active[k])
                /\ output \in {<<>>, Whole}

\* In the first run, as long as nothing was merged away, only the ranges of the
\* drive loop have parts, and the engine still has a segment of the same id and
\* start for each of them
FirstInv ==
    (runs <= 1 /\ ~merged) =>
        /\ ~adopted
        /\ runs = 0 => parts = NoParts /\ phase = "idle"
        /\ \A i \in Ids : parts[i] # <<>> => \E j \in DOMAIN active : active[j].id = i
        /\ Busy => \A j \in DOMAIN active : \E k \in DOMAIN segments :
              segments[k].id = active[j].id /\ segments[k].start = active[j].start

Inv == TilesInv /\ OwnInv /\ FirstInv

-----------------------------------------------------------------------------
(* Numbers and sets.                                                         *)

\* Lowest picks a member of a nonempty finite set of numbers, and no other is
\* below it.
LEMMA LowestIsLeast ==
  ASSUME NEW S \in SUBSET Nat, IsFiniteSet(S), S # {}
  PROVE  Lowest(S) \in S /\ \A y \in S : Lowest(S) <= y
<1> DEFINE Below(x) == {y \in S : y < x}
           T == {Below(x) : x \in S}
<1>1. IsWellFoundedOn(StrictSubsetOrdering(S), SUBSET S)
  BY FS_FiniteSubsetsOfFinite, FS_StrictSubsetOrderingWellFounded
<1>2. T \subseteq SUBSET S /\ T # {}
  OBVIOUS
<1>3. PICK U \in T : \A V \in T : <<V, U>> \notin StrictSubsetOrdering(S)
  BY <1>1, <1>2, WFMin
<1>4. PICK x \in S : U = Below(x)
  BY <1>3
<1>5. ASSUME NEW y \in S, y < x PROVE FALSE
  <2>1. /\ \A z \in Below(y) : z \in Below(x)
        /\ y \in Below(x) /\ y \notin Below(y)
    BY <1>5
  <2>2. Below(y) \in T /\ Below(y) \in SUBSET S /\ U \in SUBSET S
    BY <1>2, <1>3
  <2> QED
    BY <1>3, <1>4, <2>1, <2>2 DEF StrictSubsetOrdering
<1>6. \A y \in S : x <= y
  BY <1>5
<1> QED
  BY <1>6 DEF Lowest

\* Highest picks a member too, and no other is above it.
LEMMA HighestIsGreatest ==
  ASSUME NEW S \in SUBSET Nat, IsFiniteSet(S), S # {}
  PROVE  Highest(S) \in S /\ \A y \in S : y <= Highest(S)
<1> DEFINE Above(x) == {y \in S : y > x}
           T == {Above(x) : x \in S}
<1>1. IsWellFoundedOn(StrictSubsetOrdering(S), SUBSET S)
  BY FS_FiniteSubsetsOfFinite, FS_StrictSubsetOrderingWellFounded
<1>2. T \subseteq SUBSET S /\ T # {}
  OBVIOUS
<1>3. PICK U \in T : \A V \in T : <<V, U>> \notin StrictSubsetOrdering(S)
  BY <1>1, <1>2, WFMin
<1>4. PICK x \in S : U = Above(x)
  BY <1>3
<1>5. ASSUME NEW y \in S, y > x PROVE FALSE
  <2>1. /\ \A z \in Above(y) : z \in Above(x)
        /\ y \in Above(x) /\ y \notin Above(y)
    BY <1>5
  <2>2. Above(y) \in T /\ Above(y) \in SUBSET S /\ U \in SUBSET S
    BY <1>2, <1>3
  <2> QED
    BY <1>3, <1>4, <2>1, <2>2 DEF StrictSubsetOrdering
<1>6. \A y \in S : x >= y
  BY <1>5
<1> QED
  BY <1>6 DEF Highest

\* The domain of a sequence is finite and has as many members as it is long.
LEMMA DomainSize ==
  ASSUME NEW X, NEW s \in Seq(X)
  PROVE  /\ IsFiniteSet(DOMAIN s) /\ Cardinality(DOMAIN s) = Len(s)
         /\ DOMAIN s = 1..Len(s) /\ Len(s) \in Nat
<1>1. Len(s) \in Nat /\ DOMAIN s = 1..Len(s)
  BY LenProperties
<1> QED
  BY <1>1, FS_Interval

\* A function on 1..n is a sequence of n members.
LEMMA FunctionIsSeq ==
  ASSUME NEW X, NEW n \in Nat, NEW f \in [1..n -> X]
  PROVE  f \in Seq(X) /\ Len(f) = n /\ DOMAIN f = 1..n
OBVIOUS

\* The set of the values a sequence gives to its positions is finite.
LEMMA ImageFinite ==
  ASSUME NEW X, NEW s \in Seq(X), NEW f, NEW T \in SUBSET DOMAIN s
  PROVE  IsFiniteSet({f[i] : i \in T})
<1>1. IsFiniteSet(T)
  BY DomainSize, FS_Subset
<1> DEFINE g == [i \in T |-> f[i]]
<1>2. g \in Surjection(T, {f[i] : i \in T})
  BY Zenon DEF Surjection
<1> QED
  BY <1>1, <1>2, FS_Surjection

\* A position counts the positions up to it.
LEMMA CountUpTo ==
  ASSUME NEW n \in Nat, NEW i \in 1..n
  PROVE  Cardinality({j \in 1..n : j <= i}) = i
<1>1. {j \in 1..n : j <= i} = 1..i
  OBVIOUS
<1>2. Cardinality(1..i) = i
  BY FS_Interval
<1> QED
  BY <1>1, <1>2, Zenon

-----------------------------------------------------------------------------
(* Geometries.                                                               *)

\* The fields of a segment and of a range.
LEMMA SegmentFields ==
  ASSUME NEW s \in Seq(Segment), NEW i \in DOMAIN s
  PROVE  /\ s[i] \in Segment
         /\ s[i].id \in Nat /\ s[i].downloaded \in Nat /\ s[i].live \in BOOLEAN
         /\ s[i].start \in Nat /\ s[i].start <= Total
         /\ s[i].end \in Nat /\ s[i].end <= Total
<1>1. s[i] \in Segment
  BY LenProperties
<1>2. Total \in Nat
  BY SegmentedAssumption
<1> QED
  BY <1>1, <1>2 DEF Segment

LEMMA SegmentTyped ==
  ASSUME NEW x \in Segment
  PROVE  x.start \in Nat /\ x.end \in Nat
<1>1. Total \in Nat
  BY SegmentedAssumption
<1> QED
  BY <1>1 DEF Segment

LEMMA RangeFields ==
  ASSUME NEW r \in Seq(ByteRange), NEW i \in DOMAIN r
  PROVE  /\ r[i] \in ByteRange /\ r[i].id \in Nat
         /\ r[i].start \in Nat /\ r[i].start <= Total
         /\ r[i].end \in Nat /\ r[i].end <= Total
<1>1. r[i] \in ByteRange
  BY LenProperties
<1>2. Total \in Nat
  BY SegmentedAssumption
<1> QED
  BY <1>1, <1>2 DEF ByteRange

\* Ranges that cover the file pass the gate before the merge.
LEMMA CoversIsValid ==
  ASSUME NEW r \in Seq(ByteRange), Covers(r)
  PROVE  ValidGeometry(r)
<1>0. Total \in Nat
  BY SegmentedAssumption
<1>1. \A i \in DOMAIN r : r[i].start \in Nat /\ r[i].end \in Nat
  BY RangeFields
<1>2. ASSUME NEW b \in 0..Total - 1
      PROVE  Cardinality({i \in DOMAIN r : r[i].start <= b /\ b <= r[i].end}) = 1
  <2> DEFINE S == {i \in DOMAIN r : r[i].start <= b /\ b <= r[i].end}
  <2>1. PICK i \in DOMAIN r : r[i].start <= b /\ b <= r[i].end
    BY <1>2 DEF Covers
  <2>2. ASSUME NEW j \in S PROVE j = i
    <3>1. b \in Nat /\ j \in DOMAIN r /\ r[j].start <= b /\ b <= r[j].end
      BY <1>0, <2>2
    <3>2. SUFFICES ASSUME j # i PROVE FALSE
      OBVIOUS
    <3>3. r[i].end < r[j].start \/ r[j].end < r[i].start
      BY <3>1, <3>2, <2>1 DEF Covers
    <3> QED
      BY <1>1, <2>1, <3>1, <3>3
  <2>3. S = {i}
    BY <2>1, <2>2
  <2> QED
    BY <2>3, FS_Singleton
<1>3. /\ \A i, j \in DOMAIN r : i # j => r[i].id # r[j].id
      /\ \A i \in DOMAIN r : r[i].start <= r[i].end
      /\ \A i \in DOMAIN r : r[i].end < Total
  BY DEF Covers
<1> QED
  BY <1>2, <1>3 DEF ValidGeometry

\* The ranges of segments that tile the file cover it.
LEMMA TilesAsRanges ==
  ASSUME NEW s \in Seq(Segment), Tiles(s)
  PROVE  AsRanges(s) \in Seq(ByteRange) /\ Covers(AsRanges(s))
<1> DEFINE r == AsRanges(s)
<1>0. Total \in Nat
  BY SegmentedAssumption
<1>1. DOMAIN s = 1..Len(s) /\ Len(s) \in Nat
  BY LenProperties
<1>2. ASSUME NEW k \in DOMAIN s
      PROVE  /\ s[k].id \in Nat /\ s[k].start \in Nat /\ s[k].end \in Nat
             /\ s[k].start < s[k].end /\ s[k].end <= Total
             /\ r[k] = [id |-> s[k].id, start |-> s[k].start, end |-> s[k].end - 1]
             /\ r[k].id = s[k].id /\ r[k].start = s[k].start /\ r[k].end = s[k].end - 1
  BY <1>0, SegmentFields DEF Tiles, AsRanges
<1>3. \A k \in 1..Len(s) : r[k] \in ByteRange
  <2> HIDE DEF r
  <2>1. ASSUME NEW k \in DOMAIN s PROVE r[k] \in ByteRange
    <3>1. s[k].id \in Nat /\ s[k].start \in Nat /\ s[k].end \in Nat
      BY <2>1, <1>2
    <3>2. s[k].start < s[k].end /\ s[k].end <= Total
      BY <2>1, <1>2
    <3>3. s[k].start \in 0..Total /\ s[k].end - 1 \in 0..Total
      BY <1>0, <3>1, <3>2
    <3>4. r[k] = [id |-> s[k].id, start |-> s[k].start, end |-> s[k].end - 1]
      BY <2>1, <1>2
    <3> QED
      BY <3>1, <3>3, <3>4 DEF ByteRange
  <2> QED
    BY <2>1
<1>4. DOMAIN r = DOMAIN s /\ r \in Seq(ByteRange)
  <2>1. r \in [1..Len(s) -> ByteRange]
    BY <1>1, <1>3 DEF AsRanges
  <2> QED
    BY <1>1, <2>1 DEF AsRanges
<1> HIDE DEF r
<1>5. \A i, j \in DOMAIN r : i # j => r[i].id # r[j].id
  BY <1>2, <1>4 DEF Tiles
<1>6. \A i \in DOMAIN r : r[i].start <= r[i].end /\ r[i].end < Total
  <2>1. ASSUME NEW i \in DOMAIN s PROVE r[i].start <= r[i].end /\ r[i].end < Total
    <3>1. r[i].start = s[i].start /\ r[i].end = s[i].end - 1
      BY <2>1, <1>2
    <3>2. s[i].start \in Nat /\ s[i].end \in Nat /\ s[i].start < s[i].end /\ s[i].end <= Total
      BY <2>1, <1>2
    <3> QED
      BY <1>0, <3>1, <3>2
  <2> QED
    BY <1>4, <2>1
<1>7. ASSUME NEW i \in DOMAIN r, NEW j \in DOMAIN r, i # j
      PROVE  r[i].end < r[j].start \/ r[j].end < r[i].start
  <2>1. s[i].end <= s[j].start \/ s[j].end <= s[i].start
    BY <1>4, <1>7 DEF Tiles
  <2> QED
    BY <1>2, <1>4, <1>7, <2>1
<1>8. ASSUME NEW b \in 0..Total - 1
      PROVE  \E i \in DOMAIN r : r[i].start <= b /\ b <= r[i].end
  <2>1. PICK i \in DOMAIN s : s[i].start <= b /\ b < s[i].end
    BY DEF Tiles
  <2> QED
    BY <1>0, <1>2, <1>4, <2>1
<1>9. Covers(r)
  BY <1>5, <1>6, <1>7, <1>8 DEF Covers
<1> QED
  BY <1>4, <1>9 DEF r

\* The engine is seeded with segments that tile the file.
LEMMA SeededTiles ==
  ASSUME NEW r \in Seq(ByteRange), Covers(r), r # <<>>
  PROVE  /\ Seeded(r) \in Seq(Segment) /\ Tiles(Seeded(r))
         /\ DOMAIN Seeded(r) = DOMAIN r
         /\ \A k \in DOMAIN r : /\ Seeded(r)[k].id = r[k].id
                                /\ Seeded(r)[k].start = r[k].start
<1> DEFINE s == Seeded(r)
<1>0. Total \in Nat
  BY SegmentedAssumption
<1>1. DOMAIN r = 1..Len(r) /\ Len(r) \in Nat
  BY LenProperties
<1>2. ASSUME NEW k \in DOMAIN r
      PROVE  /\ r[k].id \in Nat /\ r[k].start \in Nat /\ r[k].end \in Nat
             /\ r[k].start <= r[k].end /\ r[k].end < Total
             /\ s[k] = [id |-> r[k].id, start |-> r[k].start, end |-> r[k].end + 1,
                        downloaded |-> 0, live |-> TRUE]
             /\ s[k].id = r[k].id /\ s[k].start = r[k].start /\ s[k].end = r[k].end + 1
  BY <1>0, RangeFields DEF Covers, Seeded, NewSegment
<1>3. \A k \in 1..Len(r) : s[k] \in Segment
  <2> HIDE DEF s
  <2>1. ASSUME NEW k \in DOMAIN r PROVE s[k] \in Segment
    <3>1. r[k].id \in Nat /\ r[k].start \in Nat /\ r[k].end \in Nat
      BY <2>1, <1>2
    <3>2. r[k].start <= r[k].end /\ r[k].end < Total
      BY <2>1, <1>2
    <3>3. r[k].start \in 0..Total /\ r[k].end + 1 \in 0..Total
      BY <1>0, <3>1, <3>2
    <3>4. s[k] = [id |-> r[k].id, start |-> r[k].start, end |-> r[k].end + 1,
                  downloaded |-> 0, live |-> TRUE]
      BY <2>1, <1>2
    <3> QED
      BY <3>1, <3>3, <3>4 DEF Segment
  <2> QED
    BY <2>1
<1>4. DOMAIN s = DOMAIN r /\ s \in Seq(Segment)
  <2>1. s \in [1..Len(r) -> Segment]
    BY <1>1, <1>3 DEF Seeded
  <2> QED
    BY <1>1, <2>1 DEF Seeded
<1> HIDE DEF s
<1>5. \A i, j \in DOMAIN s : i # j => s[i].id # s[j].id
  BY <1>2, <1>4 DEF Covers
<1>6. \A i \in DOMAIN s : s[i].start < s[i].end
  BY <1>0, <1>2, <1>4
<1>7. ASSUME NEW i \in DOMAIN s, NEW j \in DOMAIN s, i # j
      PROVE  s[i].end <= s[j].start \/ s[j].end <= s[i].start
  <2>1. r[i].end < r[j].start \/ r[j].end < r[i].start
    BY <1>4, <1>7 DEF Covers
  <2> QED
    BY <1>2, <1>4, <1>7, <2>1
<1>8. ASSUME NEW b \in 0..Total - 1
      PROVE  \E i \in DOMAIN s : s[i].start <= b /\ b < s[i].end
  <2>1. PICK i \in DOMAIN r : r[i].start <= b /\ b <= r[i].end
    BY DEF Covers
  <2> QED
    BY <1>0, <1>2, <1>4, <2>1
<1>9. Tiles(s)
  BY <1>5, <1>6, <1>7, <1>8 DEF Tiles
<1> QED
  BY <1>2, <1>4, <1>9 DEF s

\* No segment of a tiling is empty: a rebuild makes a range of each of them.
LEMMA NonEmptyIsAll ==
  ASSUME NEW s \in Seq(Segment), Tiles(s)
  PROVE  NonEmpty(s) = s
<1> DEFINE Kept == {i \in DOMAIN s : TotalBytes(s[i]) # 0}
<1>0. Total \in Nat
  BY SegmentedAssumption
<1>1. DOMAIN s = 1..Len(s) /\ Len(s) \in Nat /\ Cardinality(DOMAIN s) = Len(s)
  BY DomainSize
<1>2. Kept = DOMAIN s
  <2>1. ASSUME NEW i \in DOMAIN s PROVE TotalBytes(s[i]) # 0
    BY SegmentFields DEF Tiles, TotalBytes, Monus
  <2> QED
    BY <2>1
<1>3. ASSUME NEW k \in 1..Len(s)
      PROVE  (CHOOSE i \in Kept : Cardinality({j \in Kept : j <= i}) = k) = k
  <2>1. \A i \in Kept : Cardinality({j \in Kept : j <= i}) = i
    BY <1>1, <1>2, CountUpTo
  <2> HIDE DEF Kept
  <2>2. k \in Kept
    BY <1>1, <1>2
  <2> QED
    BY <2>1, <2>2
<1>4. NonEmpty(s) = [k \in 1..Cardinality(Kept) |->
                        s[CHOOSE i \in Kept : Cardinality({j \in Kept : j <= i}) = k]]
  BY DEF NonEmpty
<1> HIDE DEF Kept
<1>5. NonEmpty(s) = [k \in 1..Len(s) |-> s[k]]
  BY <1>1, <1>2, <1>3, <1>4
<1> QED
  BY <1>1, <1>5

\* Sorting by start permutes the segments.
LEMMA SortedPermutes ==
  ASSUME NEW s \in Seq(Segment)
  PROVE  /\ DOMAIN SortedByStart(s) = DOMAIN s
         /\ SortedByStart(s) \in Seq(Segment)
         /\ Len(SortedByStart(s)) = Len(s)
         /\ \E p \in Surjection(DOMAIN s, DOMAIN s) :
               /\ p \in Injection(DOMAIN s, DOMAIN s)
               /\ \A k \in DOMAIN s : SortedByStart(s)[k] = s[p[k]]
<1> DEFINE n == Len(s)
           D == DOMAIN s
           Before(i) == {j \in DOMAIN s :
                           \/ s[j].start < s[i].start
                           \/ s[j].start = s[i].start /\ j < i}
           p == [k \in D |-> CHOOSE i \in D : Cardinality(Before(i)) = k - 1]
           c == [i \in D |-> Cardinality(Before(i))]
           t == SortedByStart(s)
<1>1. D = 1..n /\ n \in Nat /\ IsFiniteSet(D) /\ Cardinality(D) = n
  BY DomainSize
<1>2. \A i \in D : s[i].start \in Nat /\ i \in Nat
  BY <1>1, SegmentFields
<1>3. \A i \in D : IsFiniteSet(Before(i)) /\ Cardinality(Before(i)) \in Nat
  <2>1. \A i \in D : Before(i) \subseteq D
    OBVIOUS
  <2> QED
    BY <1>1, <2>1, FS_Subset, FS_CardinalityType
<1>4. ASSUME NEW i \in D, NEW j \in D, i \in Before(j)
      PROVE  Cardinality(Before(i)) < Cardinality(Before(j))
  <2>1. Before(i) \subseteq Before(j)
    <3>1. SUFFICES ASSUME NEW k \in Before(i) PROVE k \in Before(j)
      OBVIOUS
    <3>2. /\ k \in D
          /\ s[k].start < s[i].start \/ (s[k].start = s[i].start /\ k < i)
          /\ s[i].start < s[j].start \/ (s[i].start = s[j].start /\ i < j)
      BY <1>4, <3>1
    <3>3. s[k].start < s[j].start \/ (s[k].start = s[j].start /\ k < j)
      BY <1>2, <3>2
    <3> QED
      BY <3>2, <3>3
  <2>2. i \notin Before(i)
    BY <1>2
  <2>3. Before(i) # Before(j)
    BY <1>4, <2>2
  <2> HIDE DEF Before
  <2> QED
    BY <1>3, <2>1, <2>3, FS_Subset
<1>5. ASSUME NEW i \in D, NEW j \in D, i # j
      PROVE  i \in Before(j) \/ j \in Before(i)
  BY <1>2, <1>5
<1>6. \A i \in D : c[i] \in 0..n - 1
  <2>1. ASSUME NEW i \in D PROVE Cardinality(Before(i)) < n
    <3>1. Before(i) \subseteq D /\ i \notin Before(i)
      BY <1>2
    <3>2. Before(i) # D
      BY <3>1
    <3> HIDE DEF Before
    <3> QED
      BY <1>1, <3>1, <3>2, FS_Subset, <1>3
  <2> HIDE DEF Before
  <2>2. ASSUME NEW i \in D PROVE Cardinality(Before(i)) \in 0..n - 1
    <3>1. Cardinality(Before(i)) \in Nat /\ Cardinality(Before(i)) < n
      BY <1>3, <2>1
    <3> QED
      BY <1>1, <3>1
  <2> QED
    BY <2>2
<1>7. c \in Surjection(D, 0..n - 1)
  <2> HIDE DEF Before
  <2>1. \A i, j \in D : c[i] = c[j] => i = j
    <3>1. SUFFICES ASSUME NEW i \in D, NEW j \in D, i # j PROVE c[i] # c[j]
      OBVIOUS
    <3>2. CASE i \in Before(j)
      BY <1>3, <1>4, <3>2
    <3>3. CASE j \in Before(i)
      BY <1>3, <1>4, <3>3
    <3> QED
      BY <1>5, <3>1, <3>2, <3>3
  <2>2. c \in [D -> 0..n - 1]
    BY <1>6
  <2>3. c \in Injection(D, 0..n - 1)
    BY <2>1, <2>2 DEF Injection, IsInjective
  <2>4. IsFiniteSet(0..n - 1) /\ Cardinality(0..n - 1) = n
    <3>1. 0 \in Int /\ n - 1 \in Int /\ (0 > n - 1 => n = 0)
      BY <1>1
    <3>2. /\ IsFiniteSet(0..n - 1)
          /\ Cardinality(0..n - 1) = IF 0 > n - 1 THEN 0 ELSE (n - 1) - 0 + 1
      BY <3>1, FS_Interval
    <3> QED
      BY <1>1, <3>1, <3>2
  <2> HIDE DEF c
  <2> QED
    BY <1>1, <2>3, <2>4, FS_Injection
<1> HIDE DEF Before
<1>8. ASSUME NEW k \in D
      PROVE  p[k] \in D /\ Cardinality(Before(p[k])) = k - 1
  <2>1. k - 1 \in 0..n - 1
    BY <1>1
  <2>2. PICK i \in D : c[i] = k - 1
    BY <1>7, <2>1 DEF Surjection
  <2>3. Cardinality(Before(i)) = k - 1
    BY <2>2
  <2> QED
    BY <2>3
<1>9. p \in [D -> D]
  BY <1>8
<1>10. \A k \in D : t[k] = s[p[k]] /\ DOMAIN t = D
  BY DEF SortedByStart, Before
<1>11. t = [k \in D |-> s[p[k]]]
  BY DEF SortedByStart, Before
<1> HIDE DEF p, t
<1>12. p \in Injection(D, D)
  <2>1. ASSUME NEW k \in D, NEW m \in D, p[k] = p[m] PROVE k = m
    <3>1. k - 1 = m - 1
      BY <1>8, <2>1
    <3> QED
      BY <1>1, <3>1
  <2> QED
    BY <1>9, <2>1 DEF Injection, IsInjective
<1>13. p \in Surjection(D, D)
  BY <1>1, <1>12, FS_Injection
<1>14. t \in [1..n -> Segment]
  BY <1>1, <1>9, <1>11, SegmentFields
<1>15. t \in Seq(Segment) /\ DOMAIN t = D /\ Len(t) = n
  BY <1>1, <1>14
<1> QED
  BY <1>10, <1>12, <1>13, <1>15 DEF t

\* A permutation of a tiling is a tiling.
LEMMA SortedTiles ==
  ASSUME NEW s \in Seq(Segment), Tiles(s)
  PROVE  /\ SortedByStart(s) \in Seq(Segment) /\ Tiles(SortedByStart(s))
         /\ Len(SortedByStart(s)) = Len(s)
         /\ \A k \in DOMAIN s : \E m \in DOMAIN SortedByStart(s) :
               SortedByStart(s)[m] = s[k]
<1> DEFINE t == SortedByStart(s)
<1>1. DOMAIN t = DOMAIN s /\ t \in Seq(Segment) /\ Len(t) = Len(s)
  BY SortedPermutes
<1>2. PICK p \in Surjection(DOMAIN s, DOMAIN s) :
         /\ p \in Injection(DOMAIN s, DOMAIN s)
         /\ \A k \in DOMAIN s : t[k] = s[p[k]]
  BY SortedPermutes
<1> HIDE DEF t
<1>3. /\ \A k \in DOMAIN s : p[k] \in DOMAIN s
      /\ \A k, m \in DOMAIN s : k # m => p[k] # p[m]
      /\ \A i \in DOMAIN s : \E k \in DOMAIN s : p[k] = i
  BY <1>2 DEF Surjection, Injection, IsInjective
<1>4. ASSUME NEW i \in DOMAIN t, NEW j \in DOMAIN t, i # j
      PROVE  t[i].id # t[j].id
  <2>1. p[i] \in DOMAIN s /\ p[j] \in DOMAIN s /\ p[i] # p[j]
    BY <1>1, <1>3, <1>4
  <2>2. s[p[i]].id # s[p[j]].id
    BY <2>1 DEF Tiles
  <2> QED
    BY <1>1, <1>2, <2>2
<1>5. \A i \in DOMAIN t : t[i].start < t[i].end
  BY <1>1, <1>2, <1>3 DEF Tiles
<1>6. ASSUME NEW i \in DOMAIN t, NEW j \in DOMAIN t, i # j
      PROVE  t[i].end <= t[j].start \/ t[j].end <= t[i].start
  <2>1. p[i] \in DOMAIN s /\ p[j] \in DOMAIN s /\ p[i] # p[j]
    BY <1>1, <1>3, <1>6
  <2>2. s[p[i]].end <= s[p[j]].start \/ s[p[j]].end <= s[p[i]].start
    BY <2>1 DEF Tiles
  <2> QED
    BY <1>1, <1>2, <2>2
<1>7. ASSUME NEW b \in 0..Total - 1
      PROVE  \E i \in DOMAIN t : t[i].start <= b /\ b < t[i].end
  <2>1. PICK i \in DOMAIN s : s[i].start <= b /\ b < s[i].end
    BY DEF Tiles
  <2>2. PICK k \in DOMAIN s : p[k] = i
    BY <1>3
  <2>3. t[k] = s[i]
    BY <1>2, <2>2
  <2> QED
    BY <1>1, <2>1, <2>3
<1>8. ASSUME NEW k \in DOMAIN s PROVE \E m \in DOMAIN t : t[m] = s[k]
  BY <1>1, <1>2, <1>3
<1>9. Tiles(t)
  BY <1>4, <1>5, <1>6, <1>7 DEF Tiles
<1> QED
  BY <1>1, <1>8, <1>9 DEF t

-----------------------------------------------------------------------------
(* The engine's operations.                                                  *)

\* Every segment of s has a successor in t with its id and its start
KeepsStarts(s, t) ==
    \A k \in DOMAIN s : \E m \in DOMAIN t :
        t[m].id = s[k].id /\ t[m].start = s[k].start

\* The ids of t are ids of s or in S
IdsWithin(s, t, S) ==
    \A k \in DOMAIN t : t[k].id \in S \/ \E m \in DOMAIN s : t[k].id = s[m].id

\* Cutting one segment in two, the second part under an id of its own, keeps a
\* tiling.
LEMMA CutTiles ==
  ASSUME NEW s \in Seq(Segment), Tiles(s), NEW i \in DOMAIN s,
         NEW x \in Segment, x.id = s[i].id, x.start = s[i].start,
         NEW y \in Segment, x.end = y.start, y.end = s[i].end,
         x.start < x.end, y.start < y.end,
         \A k \in DOMAIN s : y.id # s[k].id,
         NEW t, t = Append([s EXCEPT ![i] = x], y)
  PROVE  /\ t \in Seq(Segment) /\ Tiles(t) /\ Len(t) = Len(s) + 1
         /\ KeepsStarts(s, t)
         /\ IdsWithin(s, t, {y.id})
<1> DEFINE n == Len(s)
           u == [s EXCEPT ![i] = x]
<1>1. n \in Nat /\ DOMAIN s = 1..n /\ i \in 1..n
  BY LenProperties
<1>2. u \in Seq(Segment) /\ Len(u) = n /\ \A k \in 1..n : u[k] = IF k = i THEN x ELSE s[k]
  BY <1>1
<1>3. t \in Seq(Segment) /\ Len(t) = n + 1 /\ DOMAIN t = 1..n + 1
  BY <1>1, <1>2
<1>4. /\ t[n + 1] = y /\ t[i] = x
      /\ \A k \in 1..n : k # i => t[k] = s[k]
  BY <1>1, <1>2
<1> HIDE DEF u, n
<1>5. /\ x.start \in Nat /\ x.end \in Nat /\ y.start \in Nat /\ y.end \in Nat
      /\ \A k \in 1..n : s[k].start \in Nat /\ s[k].end \in Nat /\ s[k].start < s[k].end
  <2>2. x.start \in Nat /\ x.end \in Nat /\ y.start \in Nat /\ y.end \in Nat
    BY SegmentTyped
  <2>3. \A k \in 1..n : s[k].start \in Nat /\ s[k].end \in Nat /\ s[k].start < s[k].end
    BY <1>1, SegmentFields DEF Tiles
  <2> QED
    BY <2>2, <2>3
<1>6. ASSUME NEW k \in DOMAIN t
      PROVE  k \in Nat /\ (k = n + 1 \/ k = i \/ (k \in 1..n /\ k # i))
  BY <1>1, <1>3
<1>7. \A k \in 1..n : k # i => s[k].end <= s[i].start \/ s[i].end <= s[k].start
  BY <1>1 DEF Tiles
<1>8. i # n + 1 /\ \A k \in 1..n : k # n + 1
  BY <1>1
<1>9. ASSUME NEW k \in DOMAIN t, NEW m \in DOMAIN t, k # m
      PROVE  t[k].id # t[m].id
  <2>1. CASE k \in 1..n /\ k # i
    <3>1. t[k].id = s[k].id
      BY <1>4, <2>1
    <3> QED
      BY <1>1, <1>4, <1>6, <1>9, <2>1, <3>1 DEF Tiles
  <2>2. CASE k = i
    BY <1>1, <1>4, <1>6, <1>9, <2>2 DEF Tiles
  <2>3. CASE k = n + 1
    BY <1>1, <1>4, <1>6, <1>9, <2>3 DEF Tiles
  <2> QED
    BY <1>6, <2>1, <2>2, <2>3
<1>10. ASSUME NEW k \in DOMAIN t PROVE t[k].start < t[k].end
  BY <1>1, <1>4, <1>6 DEF Tiles
<1>11. ASSUME NEW k \in DOMAIN t, NEW m \in DOMAIN t, k # m
       PROVE  t[k].end <= t[m].start \/ t[m].end <= t[k].start
  <2>1. CASE k \in 1..n /\ k # i
    <3>1. t[k] = s[k]
      BY <1>4, <2>1
    <3>2. s[k].end <= s[i].start \/ s[i].end <= s[k].start
      BY <1>7, <2>1
    <3>3. CASE m = i
      BY <1>1, <1>4, <1>5, <2>1, <3>1, <3>2, <3>3
    <3>4. CASE m = n + 1
      BY <1>1, <1>4, <1>5, <2>1, <3>1, <3>2, <3>4
    <3>5. CASE m \in 1..n /\ m # i
      BY <1>1, <1>4, <1>11, <2>1, <3>1, <3>5 DEF Tiles
    <3> QED
      BY <1>6, <3>3, <3>4, <3>5
  <2>2. CASE m \in 1..n /\ m # i
    <3>1. t[m] = s[m]
      BY <1>4, <2>2
    <3>2. s[m].end <= s[i].start \/ s[i].end <= s[m].start
      BY <1>7, <2>2
    <3>3. CASE k = i
      BY <1>1, <1>4, <1>5, <2>2, <3>1, <3>2, <3>3
    <3>4. CASE k = n + 1
      BY <1>1, <1>4, <1>5, <2>2, <3>1, <3>2, <3>4
    <3> QED
      BY <1>6, <2>1, <3>3, <3>4
  <2>3. CASE k \in {i, n + 1} /\ m \in {i, n + 1}
    BY <1>4, <1>5, <1>11, <2>3
  <2> QED
    BY <1>6, <2>1, <2>2, <2>3
<1>12. ASSUME NEW b \in 0..Total - 1
       PROVE  \E k \in DOMAIN t : t[k].start <= b /\ b < t[k].end
  <2>1. PICK k \in DOMAIN s : s[k].start <= b /\ b < s[k].end
    BY DEF Tiles
  <2>2. CASE k # i
    BY <1>1, <1>3, <1>4, <2>1, <2>2
  <2>3. CASE k = i
    <3>0. b \in Nat
      BY SegmentedAssumption
    <3>1. x.start <= b /\ b < y.end
      BY <2>1, <2>3
    <3>2. (x.start <= b /\ b < x.end) \/ (y.start <= b /\ b < y.end)
      BY <1>5, <3>0, <3>1
    <3>3. i \in DOMAIN t /\ n + 1 \in DOMAIN t
      BY <1>1, <1>3
    <3> QED
      BY <1>4, <3>2, <3>3
  <2> QED
    BY <2>2, <2>3
<1>13. Tiles(t)
  BY <1>9, <1>10, <1>11, <1>12 DEF Tiles
<1>14. KeepsStarts(s, t)
  <2>1. ASSUME NEW k \in DOMAIN s
        PROVE  k \in DOMAIN t /\ t[k].id = s[k].id /\ t[k].start = s[k].start
    BY <1>1, <1>3, <1>4
  <2> QED
    BY <2>1 DEF KeepsStarts
<1>15. IdsWithin(s, t, {y.id})
  BY <1>1, <1>4, <1>6 DEF IdsWithin
<1> QED
  BY <1>3, <1>13, <1>14, <1>15 DEF n

\* Giving a segment the bytes of the one behind it, which goes, keeps a tiling.
LEMMA JoinTiles ==
  ASSUME NEW s \in Seq(Segment), Tiles(s), NEW i \in DOMAIN s, NEW j \in DOMAIN s,
         i < j, s[j].start = s[i].end,
         NEW x \in Segment, x.id = s[i].id, x.start = s[i].start, x.end = s[j].end,
         NEW t, t = Without([s EXCEPT ![i] = x], j)
  PROVE  /\ t \in Seq(Segment) /\ Tiles(t) /\ Len(t) = Len(s) - 1
         /\ IdsWithin(s, t, {})
<1> DEFINE n == Len(s)
           u == [s EXCEPT ![i] = x]
           Old(k) == IF k < j THEN k ELSE k + 1
<1>1. n \in Nat /\ DOMAIN s = 1..n /\ i \in 1..n /\ j \in 1..n
  BY LenProperties
<1>2. u \in Seq(Segment) /\ Len(u) = n /\ \A k \in 1..n : u[k] = IF k = i THEN x ELSE s[k]
  BY <1>1
<1>3. t = [k \in 1..n - 1 |-> IF k < j THEN u[k] ELSE u[k + 1]]
  BY <1>2 DEF Without
<1> HIDE DEF n, u
<1>4. ASSUME NEW k \in 1..n - 1
      PROVE  Old(k) \in 1..n /\ Old(k) # j /\ t[k] = u[Old(k)]
  <2>0. t[k] = IF k < j THEN u[k] ELSE u[k + 1]
    BY <1>3
  <2>1. CASE k < j
    <3>1. Old(k) = k /\ k \in 1..n /\ k # j
      BY <1>1, <2>1
    <3> QED
      BY <2>0, <2>1, <3>1
  <2>2. CASE ~(k < j)
    <3>1. Old(k) = k + 1 /\ k + 1 \in 1..n /\ k + 1 # j
      BY <1>1, <2>2
    <3> QED
      BY <2>0, <2>2, <3>1
  <2> HIDE DEF Old
  <2> QED
    BY <2>1, <2>2
<1>5. t \in [1..n - 1 -> Segment]
  <2>1. \A k \in 1..n : u[k] \in Segment
    BY <1>2
  <2> HIDE DEF u
  <2>2. \A k \in 1..n - 1 : t[k] \in Segment
    BY <1>4, <2>1
  <2> QED
    BY <1>3, <2>2
<1>6. t \in Seq(Segment) /\ DOMAIN t = 1..n - 1 /\ Len(t) = n - 1
  <2>1. n - 1 \in Nat
    BY <1>1
  <2> QED
    BY <1>5, <2>1, FunctionIsSeq
<1>7. ASSUME NEW k \in 1..n, k # j
      PROVE  \E m \in 1..n - 1 : Old(m) = k
  <2>1. CASE k < j
    <3>1. k \in 1..n - 1 /\ Old(k) = k
      BY <1>1, <2>1
    <3> QED
      BY <3>1
  <2>2. CASE j < k
    <3>1. k - 1 \in 1..n - 1 /\ Old(k - 1) = k
      BY <1>1, <2>2
    <3> QED
      BY <3>1
  <2> QED
    BY <1>1, <1>7, <2>1, <2>2
<1>8. ASSUME NEW k \in 1..n - 1, NEW m \in 1..n - 1, k # m
      PROVE  Old(k) # Old(m)
  BY <1>1, <1>8
<1>9. /\ x.start \in Nat /\ x.end \in Nat
      /\ \A k \in 1..n : s[k].start \in Nat /\ s[k].end \in Nat /\ s[k].start < s[k].end
  <2>2. x.start \in Nat /\ x.end \in Nat
    BY SegmentTyped
  <2>3. \A k \in 1..n : s[k].start \in Nat /\ s[k].end \in Nat /\ s[k].start < s[k].end
    BY <1>1, SegmentFields DEF Tiles
  <2> QED
    BY <2>2, <2>3
<1>10. ASSUME NEW k \in 1..n PROVE u[k].id = s[k].id /\ u[k].start = s[k].start
  BY <1>2
<1>11. \A k \in 1..n : u[k].end = IF k = i THEN s[j].end ELSE s[k].end
  BY <1>2
<1> HIDE DEF Old
<1>12. ASSUME NEW k \in DOMAIN t, NEW m \in DOMAIN t, k # m
       PROVE  t[k].id # t[m].id
  <2>1. s[Old(k)].id # s[Old(m)].id
    BY <1>1, <1>4, <1>6, <1>8, <1>12 DEF Tiles
  <2> QED
    BY <1>4, <1>6, <1>10, <1>12, <2>1
<1>13. ASSUME NEW k \in DOMAIN t PROVE t[k].start < t[k].end
  <2>1. ASSUME NEW o \in 1..n PROVE u[o].start < u[o].end
    BY <1>1, <1>9, <1>10, <1>11
  <2> QED
    BY <1>4, <1>6, <2>1
<1>14. ASSUME NEW o \in 1..n, NEW q \in 1..n, o # q, o # j, q # j
       PROVE  u[o].end <= u[q].start \/ u[q].end <= u[o].start
  <2>1. \A k, m \in 1..n : k # m => s[k].end <= s[m].start \/ s[m].end <= s[k].start
    BY <1>1 DEF Tiles
  <2>2. CASE o = i
    <3>1. /\ s[q].end <= s[i].start \/ s[i].end <= s[q].start
          /\ s[q].end <= s[j].start \/ s[j].end <= s[q].start
      BY <1>1, <1>14, <2>1, <2>2
    <3> QED
      BY <1>1, <1>9, <1>10, <1>11, <1>14, <2>2, <3>1
  <2>3. CASE q = i
    <3>1. /\ s[o].end <= s[i].start \/ s[i].end <= s[o].start
          /\ s[o].end <= s[j].start \/ s[j].end <= s[o].start
      BY <1>1, <1>14, <2>1, <2>3
    <3> QED
      BY <1>1, <1>9, <1>10, <1>11, <1>14, <2>3, <3>1
  <2>4. CASE o # i /\ q # i
    BY <1>10, <1>11, <1>14, <2>1, <2>4
  <2> QED
    BY <2>2, <2>3, <2>4
<1>15. ASSUME NEW k \in DOMAIN t, NEW m \in DOMAIN t, k # m
       PROVE  t[k].end <= t[m].start \/ t[m].end <= t[k].start
  <2>1. Old(k) # Old(m)
    BY <1>6, <1>8, <1>15
  <2> QED
    BY <1>4, <1>6, <1>14, <2>1
<1>16. ASSUME NEW b \in 0..Total - 1
       PROVE  \E k \in DOMAIN t : t[k].start <= b /\ b < t[k].end
  <2>0. b \in Nat
    BY SegmentedAssumption
  <2>1. PICK k \in 1..n : s[k].start <= b /\ b < s[k].end
    BY <1>1 DEF Tiles
  <2>2. PICK o \in 1..n : o # j /\ u[o].start <= b /\ b < u[o].end
    <3>1. CASE k \in {i, j}
      <4>1. u[i].start = s[i].start /\ u[i].end = s[j].end
        BY <1>1, <1>10, <1>11
      <4>2. s[i].start <= b /\ b < s[j].end
        BY <1>1, <1>9, <2>0, <2>1, <3>1
      <4>3. i # j
        BY <1>1
      <4> QED
        BY <1>1, <4>1, <4>2, <4>3
    <3>2. CASE k \notin {i, j}
      BY <1>10, <1>11, <2>1, <3>2
    <3> QED
      BY <3>1, <3>2
  <2>3. PICK m \in 1..n - 1 : Old(m) = o
    BY <1>7, <2>2
  <2> QED
    BY <1>4, <1>6, <2>2, <2>3
<1>17. Tiles(t)
  BY <1>12, <1>13, <1>15, <1>16 DEF Tiles
<1>18. IdsWithin(s, t, {})
  <2>1. ASSUME NEW k \in DOMAIN t PROVE \E m \in DOMAIN s : t[k].id = s[m].id
    <3>1. Old(k) \in DOMAIN s /\ t[k].id = s[Old(k)].id
      BY <1>1, <1>4, <1>6, <1>10
    <3> QED
      BY <3>1
  <2> QED
    BY <2>1 DEF IdsWithin
<1> QED
  BY <1>6, <1>17, <1>18 DEF n

\* The engine's next id is one no segment has.
LEMMA NextIdIsNew ==
  ASSUME NEW s \in Seq(Segment), s # <<>>
  PROVE  NextId(s) \in Nat /\ \A k \in DOMAIN s : NextId(s) # s[k].id
<1> DEFINE S == {s[i].id : i \in DOMAIN s}
<1>1. S \subseteq Nat
  BY SegmentFields
<1>2. IsFiniteSet(S)
  <2> DEFINE f == [k \in DOMAIN s |-> s[k].id]
  <2>1. IsFiniteSet({f[i] : i \in DOMAIN s})
    BY ImageFinite, Zenon
  <2>2. {f[i] : i \in DOMAIN s} = S
    OBVIOUS
  <2> QED
    BY <2>1, <2>2
<1>3. S # {}
  <2>1. DOMAIN s # {}
    BY LenProperties, EmptySeq
  <2> QED
    BY <2>1
<1>4. \A k \in DOMAIN s : s[k].id \in S
  OBVIOUS
<1> HIDE DEF S
<1>5. Highest(S) \in Nat /\ \A y \in S : y <= Highest(S)
  BY <1>1, <1>2, <1>3, HighestIsGreatest
<1>6. NextId(s) = Highest(S) + 1
  BY DEF NextId, S
<1> QED
  BY <1>1, <1>4, <1>5, <1>6

\* A segment that tiles has at least one byte, and what is remaining of it is no
\* more than what it has not counted.
LEMMA RemainingFits ==
  ASSUME NEW s \in Seq(Segment), Tiles(s), NEW i \in DOMAIN s
  PROVE  /\ Remaining(s[i]) \in Nat
         /\ Remaining(s[i]) # 0 =>
               s[i].start + s[i].downloaded + Remaining(s[i]) = s[i].end
BY SegmentFields DEF Tiles, Remaining, TotalBytes, Monus

\* A split keeps a tiling and every start.
LEMMA SplitTiles ==
  ASSUME NEW s \in Seq(Segment), Tiles(s), NEW i \in DOMAIN s
  PROVE  /\ Split(s, i) \in Seq(Segment) /\ Tiles(Split(s, i))
         /\ KeepsStarts(s, Split(s, i))
         /\ IdsWithin(s, Split(s, i), {NextId(s)})
<1>1. CASE ~CanSplit(s, i)
  <2>1. Split(s, i) = s
    BY <1>1 DEF Split
  <2> QED
    BY <2>1 DEF KeepsStarts, IdsWithin
<1>2. CASE CanSplit(s, i)
  <2> DEFINE rem == Remaining(s[i])
             mid == s[i].start + s[i].downloaded + rem \div 2
             x == [s[i] EXCEPT !.end = mid]
             y == NewSegment(NextId(s), mid, s[i].end)
  <2>1. /\ rem \in Nat /\ rem >= 2
        /\ s[i].start + s[i].downloaded + rem = s[i].end
    <3>1. rem \in Nat /\ rem >= 2 * MinSegment /\ MinSegment \in Nat /\ MinSegment >= 1
      BY <1>2, RemainingFits, SegmentedAssumption DEF CanSplit
    <3>2. rem >= 2
      BY <3>1
    <3> QED
      BY <3>1, <3>2, RemainingFits
  <2>2. rem \div 2 \in Nat /\ rem \div 2 >= 1 /\ rem \div 2 < rem
    BY <2>1
  <2>3. /\ s[i].start \in Nat /\ s[i].downloaded \in Nat /\ s[i].end \in Nat
        /\ s[i].end <= Total /\ s[i] \in Segment /\ Total \in Nat
    BY SegmentFields, SegmentedAssumption
  <2> HIDE DEF rem
  <2>4. mid \in Nat /\ s[i].start < mid /\ mid < s[i].end
    BY <2>1, <2>2, <2>3
  <2>5. Split(s, i) = Append([s EXCEPT ![i] = x], y)
    BY <1>2 DEF Split, rem
  <2> HIDE DEF mid
  <2>6. mid \in 0..Total /\ s[i].end \in 0..Total
    BY <2>3, <2>4
  <2>7. x \in Segment /\ x.id = s[i].id /\ x.start = s[i].start /\ x.end = mid
    BY <2>3, <2>6 DEF Segment
  <2>8. s # <<>>
    BY LenProperties
  <2>9. y \in Segment /\ y.id = NextId(s) /\ y.start = mid /\ y.end = s[i].end
    BY <2>6, <2>8, NextIdIsNew DEF Segment, NewSegment
  <2>10. \A k \in DOMAIN s : y.id # s[k].id
    BY <2>8, <2>9, NextIdIsNew
  <2> HIDE DEF x, y
  <2>11. PICK t : t = Append([s EXCEPT ![i] = x], y)
    OBVIOUS
  <2>12. /\ t \in Seq(Segment) /\ Tiles(t) /\ KeepsStarts(s, t)
         /\ IdsWithin(s, t, {y.id})
    BY <2>4, <2>7, <2>9, <2>10, <2>11, CutTiles
  <2>13. t = Split(s, i)
    BY <2>5, <2>11
  <2> QED
    BY <2>9, <2>12, <2>13
<1> QED
  BY <1>1, <1>2

\* Moving an end back by less than what is remaining leaves it past the start.
LEMMA CutBetween ==
  ASSUME NEW a \in Nat, NEW d \in Nat, NEW e \in Nat, NEW r \in Nat, NEW m \in Nat,
         a + d + r = e, m < r, m >= 1
  PROVE  e - m \in Nat /\ a < e - m /\ e - m < e
OBVIOUS

\* A rebalance keeps a tiling and every start.
LEMMA RebalanceTiles ==
  ASSUME NEW s \in Seq(Segment), Tiles(s), NEW p \in RebalancePlans(s)
  PROVE  LET t == Rebalance(s, p[1], p[3])
         IN  t \in Seq(Segment) /\ Tiles(t) /\ KeepsStarts(s, t)
<1> DEFINE i == p[1]
           bytes == p[3]
           cut == s[i].end - MinOf(bytes, Remaining(s[i]))
           x == [s[i] EXCEPT !.end = cut, !.downloaded = MinOf(@, Monus(cut, s[i].start))]
           y == NewSegment(NextId(s), cut, s[i].end)
<1>1. /\ i \in DOMAIN s /\ bytes \in MinSegment..Total
      /\ Remaining(s[i]) > MinSegment /\ bytes <= Remaining(s[i]) \div 4
  BY DEF RebalancePlans, ActiveSegs
<1>2. bytes \in Nat /\ bytes >= 1 /\ MinSegment \in Nat /\ Total \in Nat
  BY <1>1, SegmentedAssumption
<1>3. /\ s[i].start \in Nat /\ s[i].downloaded \in Nat /\ s[i].end \in Nat
      /\ s[i].end <= Total /\ s[i] \in Segment /\ s[i].start < s[i].end
  BY <1>1, SegmentFields DEF Tiles
<1>4. PICK rem \in Nat : rem = Remaining(s[i])
  BY <1>1, RemainingFits
<1>5. rem > 0 /\ s[i].start + s[i].downloaded + rem = s[i].end
  BY <1>1, <1>2, <1>4, RemainingFits
<1> HIDE DEF i, bytes
<1>6. bytes < rem
  BY <1>1, <1>2, <1>4
<1>7. MinOf(bytes, Remaining(s[i])) = bytes
  BY <1>2, <1>4, <1>6 DEF MinOf
<1>8. cut \in Nat /\ s[i].start < cut /\ cut < s[i].end
  <2>1. cut = s[i].end - bytes
    BY <1>7
  <2>2. PICK a, d, e \in Nat : a = s[i].start /\ d = s[i].downloaded /\ e = s[i].end
    BY <1>3
  <2>3. a + d + rem = e /\ bytes < rem /\ bytes \in Nat /\ bytes >= 1
    BY <1>2, <1>5, <1>6, <2>2
  <2>4. e - bytes \in Nat /\ a < e - bytes /\ e - bytes < e
    BY <2>3, CutBetween
  <2> QED
    BY <2>1, <2>2, <2>4
<1>9. Rebalance(s, i, bytes) = Append([s EXCEPT ![i] = x], y)
  <2>1. MinOf(bytes, Remaining(s[i])) # 0
    BY <1>2, <1>7
  <2> QED
    BY <2>1 DEF Rebalance
<1> HIDE DEF cut
<1>10. cut \in 0..Total /\ s[i].end \in 0..Total
  BY <1>2, <1>3, <1>8
<1>11. MinOf(s[i].downloaded, Monus(cut, s[i].start)) \in Nat
  BY <1>3, <1>8 DEF MinOf, Monus
<1>12. x \in Segment /\ x.id = s[i].id /\ x.start = s[i].start /\ x.end = cut
  BY <1>3, <1>10, <1>11 DEF Segment
<1>13. s # <<>>
  BY <1>1, LenProperties
<1>14. y \in Segment /\ y.id = NextId(s) /\ y.start = cut /\ y.end = s[i].end
  BY <1>10, <1>13, NextIdIsNew DEF Segment, NewSegment
<1>15. \A k \in DOMAIN s : y.id # s[k].id
  BY <1>13, <1>14, NextIdIsNew
<1> HIDE DEF x, y
<1>16. PICK t : t = Append([s EXCEPT ![i] = x], y)
  OBVIOUS
<1>17. t \in Seq(Segment) /\ Tiles(t) /\ KeepsStarts(s, t)
  BY <1>1, <1>8, <1>12, <1>14, <1>15, <1>16, CutTiles
<1> QED
  BY <1>9, <1>16, <1>17 DEF i, bytes

\* A merge keeps a tiling; when it takes place the segments are fewer.
LEMMA MergeTiles ==
  ASSUME NEW s \in Seq(Segment), Tiles(s), NEW i \in DOMAIN s, NEW j \in DOMAIN s
  PROVE  LET t == Merge(s, i, j)
         IN  /\ t \in Seq(Segment) /\ Tiles(t)
             /\ t = s \/ Len(t) < Len(s)
             /\ IdsWithin(s, t, {})
<1>1. CASE ~(i < j /\ s[j].start = s[i].end)
  BY <1>1 DEF Merge, IdsWithin
<1>2. CASE i < j /\ s[j].start = s[i].end
  <2> DEFINE x == [s[i] EXCEPT !.end = s[j].end, !.downloaded = @ + s[j].downloaded,
                               !.live = TRUE]
             t == Without([s EXCEPT ![i] = x], j)
  <2>1. Merge(s, i, j) = t
    BY <1>2 DEF Merge
  <2>2. /\ s[i] \in Segment /\ s[i].downloaded + s[j].downloaded \in Nat
        /\ s[j].end \in 0..Total
    BY SegmentFields, SegmentedAssumption
  <2>3. x \in Segment /\ x.id = s[i].id /\ x.start = s[i].start /\ x.end = s[j].end
    BY <2>2 DEF Segment
  <2> HIDE DEF x
  <2>4. /\ t \in Seq(Segment) /\ Tiles(t) /\ Len(t) = Len(s) - 1
        /\ IdsWithin(s, t, {})
    <3>1. PICK v : v = t
      OBVIOUS
    <3>2. /\ v \in Seq(Segment) /\ Tiles(v) /\ Len(v) = Len(s) - 1
          /\ IdsWithin(s, v, {})
      BY <1>2, <2>3, <3>1, JoinTiles
    <3> QED
      BY <3>1, <3>2
  <2>5. Len(s) \in Nat
    BY LenProperties
  <2> HIDE DEF t
  <2> QED
    BY <2>1, <2>4, <2>5
<1> QED
  BY <1>1, <1>2

\* Recording the progress of the ranges leaves the geometry as it is.
LEMMA UpdatedTiles ==
  ASSUME NEW s \in Seq(Segment), Tiles(s), NEW r \in Seq(ByteRange),
         \A i \in DOMAIN s : s[i].id \in Ids,
         \A i \in Ids : Len(parts[i]) \in Nat
  PROVE  LET t == Updated(s, r)
         IN  /\ t \in Seq(Segment) /\ Tiles(t) /\ DOMAIN t = DOMAIN s /\ Len(t) = Len(s)
             /\ \A k \in DOMAIN s : t[k].id = s[k].id /\ t[k].start = s[k].start
<1> DEFINE t == Updated(s, r)
           Same(k) == {i \in DOMAIN r : r[i].id = s[k].id}
           Got(k) == Lowest({MinOf(Len(parts[s[k].id]), PartSize(r[i])) : i \in Same(k)})
           u(k) == [s[k] EXCEPT !.downloaded = Got(k)]
<1>1. DOMAIN s = 1..Len(s) /\ Len(s) \in Nat
  BY LenProperties
<1>2. \A k \in DOMAIN s :
          t[k] = IF Same(k) = {} THEN s[k]
                 ELSE [u(k) EXCEPT !.live = @ /\ Remaining(u(k)) # 0]
  BY DEF Updated
<1>3. DOMAIN t = DOMAIN s
  BY DEF Updated
<1>4. ASSUME NEW k \in DOMAIN s, Same(k) # {} PROVE Got(k) \in Nat
  <2> DEFINE f == [i \in DOMAIN r |-> MinOf(Len(parts[s[k].id]), PartSize(r[i]))]
             S == {f[i] : i \in Same(k)}
  <2>1. IsFiniteSet(S)
    <3>1. Same(k) \in SUBSET DOMAIN r
      OBVIOUS
    <3> HIDE DEF f, Same
    <3> QED
      BY <3>1, ImageFinite
  <2>2. S = {MinOf(Len(parts[s[k].id]), PartSize(r[i])) : i \in Same(k)}
    OBVIOUS
  <2>3. \A i \in Same(k) : MinOf(Len(parts[s[k].id]), PartSize(r[i])) \in Nat
    BY RangeFields DEF MinOf, PartSize
  <2>4. S \subseteq Nat /\ S # {}
    BY <1>4, <2>2, <2>3
  <2> HIDE DEF S
  <2> QED
    BY <2>1, <2>2, <2>4, LowestIsLeast
<1> HIDE DEF t, Same, Got
<1>5. ASSUME NEW k \in DOMAIN s
      PROVE  /\ t[k] \in Segment /\ t[k].id = s[k].id
             /\ t[k].start = s[k].start /\ t[k].end = s[k].end
  <2>1. s[k] \in Segment
    BY SegmentFields
  <2>2. CASE Same(k) = {}
    BY <1>2, <2>1, <2>2
  <2>3. CASE Same(k) # {}
    <3>1. /\ u(k) \in Segment /\ u(k).id = s[k].id
          /\ u(k).start = s[k].start /\ u(k).end = s[k].end
      BY <1>4, <2>1, <2>3 DEF Segment
    <3>2. t[k] = [u(k) EXCEPT !.live = @ /\ Remaining(u(k)) # 0]
      BY <1>2, <2>3
    <3>3. PICK v \in Segment : v = u(k)
      BY <3>1
    <3>4. (v.live /\ Remaining(v) # 0) \in BOOLEAN
      BY DEF Segment
    <3>5. t[k] = [v EXCEPT !.live = @ /\ Remaining(v) # 0]
      BY <3>2, <3>3
    <3> HIDE DEF u
    <3>6. t[k] \in Segment /\ t[k].id = v.id /\ t[k].start = v.start /\ t[k].end = v.end
      BY <3>4, <3>5 DEF Segment
    <3> QED
      BY <3>1, <3>3, <3>6
  <2> QED
    BY <2>2, <2>3
<1>6. t \in Seq(Segment) /\ Len(t) = Len(s)
  <2>1. t \in [1..Len(s) -> Segment]
    BY <1>1, <1>3, <1>5 DEF t, Updated
  <2> QED
    BY <1>1, <2>1, FunctionIsSeq
<1>7. Tiles(t)
  BY <1>3, <1>5 DEF Tiles
<1> QED
  BY <1>3, <1>5, <1>6, <1>7 DEF t

\* What one evaluation of the engine leaves behind tiles the file, and unless
\* there are fewer segments than before every start is still there.
LEMMA PlannedTiles ==
  ASSUME NEW s \in Seq(Segment), Tiles(s), NEW t \in Planned(s) \cup {s}
  PROVE  /\ t \in Seq(Segment) /\ Tiles(t)
         /\ Len(t) >= Len(s) => KeepsStarts(s, t)
<1>1. CASE t = s
  BY <1>1 DEF KeepsStarts
<1>2. ASSUME NEW u \in Seq(Segment), Tiles(u), KeepsStarts(s, u), t = SortedByStart(u)
      PROVE  t \in Seq(Segment) /\ Tiles(t) /\ KeepsStarts(s, t)
  <2>1. /\ t \in Seq(Segment) /\ Tiles(t)
        /\ \A k \in DOMAIN u : \E m \in DOMAIN t : t[m] = u[k]
    BY <1>2, SortedTiles
  <2>2. ASSUME NEW k \in DOMAIN s
        PROVE  \E m \in DOMAIN t : t[m].id = s[k].id /\ t[m].start = s[k].start
    <3>1. PICK m \in DOMAIN u : u[m].id = s[k].id /\ u[m].start = s[k].start
      BY <1>2 DEF KeepsStarts
    <3>2. PICK o \in DOMAIN t : t[o] = u[m]
      BY <2>1
    <3> QED
      BY <3>1, <3>2
  <2> QED
    BY <2>1, <2>2 DEF KeepsStarts
<1>3. CASE t \in {SortedByStart(Split(s, i)) : i \in SplitPlans(s)}
  <2>1. PICK i \in SplitPlans(s) : t = SortedByStart(Split(s, i))
    BY <1>3
  <2>2. i \in DOMAIN s
    BY DEF SplitPlans, ActiveSegs
  <2> QED
    BY <1>2, <2>1, <2>2, SplitTiles
<1>4. CASE t \in {SortedByStart(Rebalance(s, p[1], p[3])) : p \in RebalancePlans(s)}
  <2>1. PICK p \in RebalancePlans(s) : t = SortedByStart(Rebalance(s, p[1], p[3]))
    BY <1>4
  <2> QED
    BY <1>2, <2>1, RebalanceTiles
<1>5. CASE t \in {SortedByStart(Merge(s, p[1], p[2])) : p \in MergePlans(s)}
  <2>1. PICK p \in MergePlans(s) : t = SortedByStart(Merge(s, p[1], p[2]))
    BY <1>5
  <2>2. p[1] \in DOMAIN s /\ p[2] \in DOMAIN s
    BY DEF MergePlans, ActiveSegs
  <2>3. PICK u : u = Merge(s, p[1], p[2])
    OBVIOUS
  <2>4. u \in Seq(Segment) /\ Tiles(u) /\ (u = s \/ Len(u) < Len(s))
    BY <2>2, <2>3, MergeTiles
  <2>5. /\ t \in Seq(Segment) /\ Tiles(t) /\ Len(t) = Len(u)
    BY <2>1, <2>3, <2>4, SortedTiles
  <2>6. CASE u = s
    <3>1. KeepsStarts(s, s)
      BY DEF KeepsStarts
    <3> QED
      BY <1>2, <2>1, <2>3, <2>6, <3>1
  <2>7. CASE Len(u) < Len(s)
    <3>1. Len(u) \in Nat /\ Len(s) \in Nat
      BY <2>4, LenProperties
    <3> QED
      BY <2>5, <2>7, <3>1
  <2> QED
    BY <2>4, <2>6, <2>7
<1> QED
  BY <1>1, <1>3, <1>4, <1>5 DEF Planned

-----------------------------------------------------------------------------
(* The planner.                                                              *)

\* Multiplication by a nonnegative number is monotone, and one more factor adds
\* the number.
LEMMA Products ==
  ASSUME NEW a \in Nat, NEW b \in Nat, NEW c \in Nat
  PROVE  /\ a * c \in Nat /\ (a + 1) * c = a * c + c
         /\ a <= b => a * c <= b * c
<1>1. a * c \in Nat /\ (a + 1) * c = a * c + c
  OBVIOUS
<1>2. ASSUME a <= b PROVE a * c <= b * c
  <2>1. PICK d \in Nat : b = a + d
    BY <1>2
  <2>2. b * c = a * c + d * c /\ d * c \in Nat
    BY <2>1
  <2> QED
    BY <1>1, <2>2
<1> QED
  BY <1>1, <1>2

\* The planned ranges cover the file, under the ids 0, 1, ...
LEMMA PlanCovers ==
  ASSUME NEW n \in Connections
  PROVE  /\ PlanRanges(n) \in Seq(ByteRange) /\ Covers(PlanRanges(n))
         /\ PlanRanges(n) # <<>>
         /\ \A k \in DOMAIN PlanRanges(n) : PlanRanges(n)[k].id \in Ids
<1> DEFINE count == MinOf(MinOf(n, MaxConnections), Total)
           base == Total \div count
           rem == Total % count
           From(k) == (k - 1) * base + MinOf(k - 1, rem)
           Size(k) == base + (IF k - 1 < rem THEN 1 ELSE 0)
           r == PlanRanges(n)
<1>1. /\ n \in Nat /\ n >= 1 /\ MaxConnections \in Nat /\ MaxConnections >= 1
      /\ Total \in Nat /\ Total >= 1 /\ MaxId \in Nat /\ MaxConnections <= MaxId + 1
  BY SegmentedAssumption
<1>2. count \in Nat /\ count >= 1 /\ count <= Total /\ count <= MaxConnections
  BY <1>1 DEF MinOf
<1>3. r = [k \in 1..count |-> [id |-> k - 1, start |-> From(k),
                               end |-> From(k) + Size(k) - 1]]
  BY DEF PlanRanges
<1> HIDE DEF count, r
<1>4. base \in Nat /\ rem \in Nat /\ rem < count /\ Total = count * base + rem
  BY <1>1, <1>2
<1>5. base >= 1
  <2>1. SUFFICES ASSUME base = 0 PROVE FALSE
    BY <1>4
  <2>2. count * base = 0
    BY <1>2, <2>1
  <2> QED
    BY <1>2, <1>4, <2>2
<1> HIDE DEF base, rem
<1>6. ASSUME NEW k \in 1..count
      PROVE  From(k) \in Nat /\ Size(k) \in Nat /\ Size(k) >= 1
  <2>1. k - 1 \in Nat
    BY <1>2
  <2>2. (k - 1) * base \in Nat
    BY <1>4, <2>1, Products
  <2> QED
    BY <1>4, <1>5, <2>1, <2>2 DEF MinOf
<1>7. From(1) = 0
  BY <1>4 DEF MinOf
<1>8. ASSUME NEW k \in 1..count PROVE From(k) + Size(k) = k * base + MinOf(k, rem)
  <2>1. k - 1 \in Nat /\ k \in Nat
    BY <1>2
  <2>2. k * base = (k - 1) * base + base /\ (k - 1) * base \in Nat
    BY <1>4, <2>1, Products
  <2> QED
    BY <1>4, <2>1, <2>2 DEF MinOf
<1>9. ASSUME NEW k \in 1..count, k < count PROVE From(k) + Size(k) = From(k + 1)
  BY <1>2, <1>8, <1>9
<1>10. From(count) + Size(count) = Total
  <2>1. MinOf(count, rem) = rem
    BY <1>2, <1>4 DEF MinOf
  <2> QED
    BY <1>2, <1>4, <1>8, <2>1
<1>11. ASSUME NEW k \in 1..count, NEW m \in 1..count, k < m
       PROVE  From(k) + Size(k) <= From(m)
  <2>1. k \in Nat /\ m - 1 \in Nat /\ k <= m - 1
    BY <1>2, <1>11
  <2>2. k * base <= (m - 1) * base /\ k * base \in Nat /\ (m - 1) * base \in Nat
    BY <1>4, <2>1, Products
  <2>3. MinOf(k, rem) <= MinOf(m - 1, rem) /\ MinOf(k, rem) \in Nat /\ MinOf(m - 1, rem) \in Nat
    BY <1>4, <2>1 DEF MinOf
  <2> QED
    BY <1>8, <2>2, <2>3
<1>12. ASSUME NEW k \in 1..count PROVE From(k) + Size(k) <= Total
  <2>1. CASE k = count
    BY <1>1, <1>10, <2>1
  <2>2. CASE k < count
    <3>1. count \in 1..count
      BY <1>2
    <3>2. From(k) + Size(k) <= From(count)
      BY <2>2, <3>1, <1>11
    <3> QED
      BY <1>6, <1>10, <3>1, <3>2
  <2> QED
    BY <1>2, <2>1, <2>2
<1> HIDE DEF From, Size
<1>13. ASSUME NEW k \in 1..count
       PROVE  /\ r[k].id = k - 1 /\ r[k].start = From(k)
              /\ r[k].end = From(k) + Size(k) - 1
              /\ r[k] \in ByteRange
  <2>1. k - 1 \in Nat /\ From(k) \in 0..Total /\ From(k) + Size(k) - 1 \in 0..Total
    BY <1>1, <1>2, <1>6, <1>12
  <2> QED
    BY <1>3, <2>1 DEF ByteRange
<1>14. r \in Seq(ByteRange) /\ Len(r) = count /\ DOMAIN r = 1..count
  <2>1. r \in [1..count -> ByteRange]
    BY <1>3, <1>13
  <2> QED
    BY <1>2, <2>1, FunctionIsSeq
<1>15. \A i, j \in DOMAIN r : i # j => r[i].id # r[j].id
  BY <1>2, <1>13, <1>14
<1>16. ASSUME NEW i \in DOMAIN r PROVE r[i].start <= r[i].end /\ r[i].end < Total
  BY <1>1, <1>6, <1>12, <1>13, <1>14
<1>17. ASSUME NEW i \in DOMAIN r, NEW j \in DOMAIN r, i # j
       PROVE  r[i].end < r[j].start \/ r[j].end < r[i].start
  <2>1. i \in 1..count /\ j \in 1..count /\ (i < j \/ j < i)
    BY <1>2, <1>14, <1>17
  <2>2. /\ r[i].start = From(i) /\ r[i].end = From(i) + Size(i) - 1
        /\ r[j].start = From(j) /\ r[j].end = From(j) + Size(j) - 1
    BY <1>13, <2>1
  <2>3. From(i) \in Nat /\ Size(i) \in Nat /\ From(j) \in Nat /\ Size(j) \in Nat
    BY <1>6, <2>1
  <2>4. From(i) + Size(i) <= From(j) \/ From(j) + Size(j) <= From(i)
    BY <1>11, <2>1
  <2> QED
    BY <2>2, <2>3, <2>4
<1>18. ASSUME NEW b \in 0..Total - 1
       PROVE  \E i \in DOMAIN r : r[i].start <= b /\ b <= r[i].end
  <2> DEFINE S == {k \in 1..count : From(k) <= b}
  <2>0. b \in Nat /\ b < Total
    BY <1>1
  <2>1. 1 \in S
    BY <1>2, <1>7, <2>0
  <2>2. S \subseteq 1..count /\ IsFiniteSet(1..count) /\ 1..count \subseteq Nat
    BY <1>2, FS_Interval
  <2>3. IsFiniteSet(S) /\ S \in SUBSET Nat /\ S # {}
    BY <2>1, <2>2, FS_Subset
  <2>4. PICK k \in S : \A m \in S : m <= k
    <3> HIDE DEF S
    <3> QED
      BY <2>3, HighestIsGreatest
  <2>5. k \in 1..count /\ From(k) <= b
    BY <2>4
  <2>6. b < From(k) + Size(k)
    <3>1. CASE k = count
      BY <1>10, <2>0, <3>1
    <3>2. CASE k < count
      <4>1. k + 1 \in 1..count /\ ~(k + 1 <= k)
        BY <1>2, <2>5, <3>2
      <4>2. k + 1 \notin S
        BY <2>4, <4>1
      <4>3. From(k + 1) \in Nat /\ ~(From(k + 1) <= b)
        BY <1>6, <4>1, <4>2
      <4> QED
        BY <1>9, <2>0, <2>5, <3>2, <4>3
    <3> QED
      BY <1>2, <2>5, <3>1, <3>2
  <2>7. /\ r[k].start = From(k) /\ r[k].end = From(k) + Size(k) - 1
        /\ From(k) \in Nat /\ Size(k) \in Nat
    BY <1>6, <1>13, <2>5
  <2>8. r[k].start <= b /\ b <= r[k].end
    BY <2>0, <2>5, <2>6, <2>7
  <2> QED
    BY <1>14, <2>5, <2>8
<1>19. Covers(r)
  BY <1>15, <1>16, <1>17, <1>18 DEF Covers
<1>20. \A k \in DOMAIN r : r[k].id \in Ids
  BY <1>1, <1>2, <1>13, <1>14 DEF Ids
<1>21. r # <<>>
  BY <1>2, <1>14
<1> QED
  BY <1>14, <1>19, <1>20, <1>21 DEF r

-----------------------------------------------------------------------------
(* The actions.                                                              *)

\* The types of the model in the terms of the lemmas.
LEMMA Typed ==
  ASSUME TypeOK
  PROVE  /\ segments \in Seq(Segment) /\ \A i \in DOMAIN segments : segments[i].id \in Ids
         /\ active \in Seq(ByteRange) /\ \A i \in DOMAIN active : active[i].id \in Ids
         /\ \A i \in Ids : parts[i] \in Seq(0..Total - 1) /\ Len(parts[i]) \in Nat
         /\ Ids \subseteq Nat
<1>1. Ids \subseteq Nat /\ RangeRecord \subseteq ByteRange /\ SegmentRecord \subseteq Segment
  BY DEF Ids, RangeRecord, ByteRange, SegmentRecord, Segment
<1>2. segments \in Seq(SegmentRecord) /\ active \in Seq(RangeRecord)
  BY DEF TypeOK
<1>3. ASSUME NEW i \in DOMAIN segments PROVE segments[i] \in SegmentRecord
  BY <1>2, LenProperties
<1>4. ASSUME NEW i \in DOMAIN active PROVE active[i] \in RangeRecord
  BY <1>2, LenProperties
<1>5. segments \in Seq(Segment) /\ active \in Seq(ByteRange)
  BY <1>1, <1>2
<1>6. \A i \in DOMAIN segments : segments[i].id \in Ids
  BY <1>3 DEF SegmentRecord
<1>7. \A i \in DOMAIN active : active[i].id \in Ids
  BY <1>4 DEF RangeRecord
<1>8. \A i \in Ids : parts[i] \in Seq(0..Total - 1) /\ Len(parts[i]) \in Nat
  BY DEF TypeOK
<1> QED
  BY <1>1, <1>5, <1>6, <1>7, <1>8

\* Segments and ranges whose ids are within the bound have the model's types.
LEMMA Retyped ==
  ASSUME NEW s \in Seq(Segment), \A i \in DOMAIN s : s[i].id \in Ids
  PROVE  s \in Seq(SegmentRecord)
<1>1. ASSUME NEW i \in 1..Len(s) PROVE s[i] \in SegmentRecord
  <2>1. s[i] \in Segment /\ s[i].id \in Ids
    BY LenProperties
  <2> QED
    BY <2>1 DEF Segment, SegmentRecord
<1>2. s \in [1..Len(s) -> SegmentRecord] /\ Len(s) \in Nat
  BY <1>1, LenProperties
<1> QED
  BY <1>2, FunctionIsSeq

LEMMA RangesRetyped ==
  ASSUME NEW r \in Seq(ByteRange), \A i \in DOMAIN r : r[i].id \in Ids
  PROVE  r \in Seq(RangeRecord)
<1>1. ASSUME NEW i \in 1..Len(r) PROVE r[i] \in RangeRecord
  <2>1. r[i] \in ByteRange /\ r[i].id \in Ids
    BY LenProperties
  <2> QED
    BY <2>1 DEF ByteRange, RangeRecord
<1>2. r \in [1..Len(r) -> RangeRecord] /\ Len(r) \in Nat
  BY <1>1, LenProperties
<1> QED
  BY <1>2, FunctionIsSeq

\* The size of a range.
LEMMA SizeIsNat ==
  ASSUME NEW r \in Seq(ByteRange), NEW i \in DOMAIN r
  PROVE  PartSize(r[i]) \in Nat
BY RangeFields DEF PartSize

\* The progress of ranges that cover the file is within it.
LEMMA CountedTyped ==
  ASSUME TypeOK, Covers(active)
  PROVE  Counted \in Seq(0..Total)
<1>1. DOMAIN active = 1..Len(active) /\ Len(active) \in Nat
  BY Typed, LenProperties
<1>2. ASSUME NEW k \in DOMAIN active
      PROVE  MinOf(Len(parts[active[k].id]), PartSize(active[k])) \in 0..Total
  <2>1. /\ active[k].start \in Nat /\ active[k].end \in Nat /\ active[k].end < Total
        /\ active[k].start <= active[k].end
    BY Typed, RangeFields DEF Covers
  <2>2. Len(parts[active[k].id]) \in Nat
    BY Typed
  <2>3. Total \in Nat
    BY SegmentedAssumption
  <2>4. PartSize(active[k]) \in 0..Total
    BY <2>1, <2>3 DEF PartSize
  <2> QED
    BY <2>2, <2>3, <2>4 DEF MinOf
<1>3. Counted \in [1..Len(active) -> 0..Total]
  BY <1>1, <1>2 DEF Counted
<1> QED
  BY <1>1, <1>3, FunctionIsSeq

\* A run that ends leaves its ranges behind; parts may have gone.
LEMMA EndRunKeeps ==
  ASSUME Inv, EndRun, phase # "idle", phase' \in {"idle", "single", "finished", "left"},
         parts' \in [Ids -> Seq(0..Total - 1)], output' \in Seq(0..Total - 1),
         saved' \in Seq(0..Total),
         \A i \in Ids : parts'[i] = <<>> \/ parts'[i] = parts[i],
         ~adopted => output' \in {<<>>, Whole}
  PROVE  Inv'
<1> USE DEF Inv
<1>1. /\ segments' = <<>> /\ handles' = {} /\ target' = 0 /\ wants' = FALSE
      /\ UNCHANGED <<active, keeps, decisions, runs, adopted, merged>>
  BY DEF EndRun, history
<1>2. ~Busy'
  BY DEF Busy
<1>3. TypeOK'
  <2>1. segments' \in Seq(SegmentRecord)
    BY <1>1
  <2>2. 0 \in 0..MaxConnections
    BY SegmentedAssumption
  <2>3. /\ phase' \in {"idle", "driving", "adjusting", "rebuilding", "merging",
                      "single", "finished", "left"}
        /\ handles' \subseteq Ids /\ target' \in 0..MaxConnections
    BY <1>1, <2>2
  <2>4. /\ active' \in Seq(RangeRecord) /\ keeps' \in BOOLEAN /\ wants' \in BOOLEAN
        /\ decisions' \in 0..MaxDecisions /\ runs' \in 0..MaxRuns
        /\ adopted' \in BOOLEAN /\ merged' \in BOOLEAN
    BY <1>1 DEF TilesInv, TypeOK
  <2> QED
    BY <2>1, <2>3, <2>4 DEF TypeOK
<1>4. TilesInv'
  BY <1>1, <1>2, <1>3 DEF TilesInv
<1>5. OwnInv'
  <2>1. SUFFICES ASSUME ~adopted, NEW k \in DOMAIN active PROVE HoldsRange(active[k])'
    BY <1>1 DEF OwnInv
  <2>2. HoldsRange(active[k])
    BY <2>1 DEF OwnInv
  <2>3. active[k].id \in Ids /\ PartSize(active[k]) \in Nat
    BY Typed, SizeIsNat DEF TilesInv
  <2>4. CASE parts'[active[k].id] = parts[active[k].id]
    BY <1>1, <2>2, <2>4 DEF HoldsRange
  <2>5. CASE parts'[active[k].id] = <<>>
    BY <1>1, <2>3, <2>5 DEF HoldsRange
  <2> QED
    BY <2>3, <2>4, <2>5
<1>6. FirstInv'
  <2>1. SUFFICES ASSUME runs <= 1, ~merged
                 PROVE  /\ ~adopted /\ runs # 0
                        /\ \A i \in Ids : parts'[i] # <<>> =>
                              \E j \in DOMAIN active : active[j].id = i
    BY <1>1, <1>2 DEF FirstInv
  <2> QED
    BY <2>1 DEF FirstInv
<1> QED
  BY <1>4, <1>5, <1>6

\* Nothing has been started yet.
LEMMA InitOK ==
  ASSUME Init
  PROVE  Inv
<1>1. TypeOK
  <2>1. parts \in [Ids -> Seq(0..Total - 1)]
    BY DEF Init, NoParts
  <2>2. 0 \in 0..MaxConnections /\ 0 \in 0..MaxDecisions /\ 0 \in 0..MaxRuns
    BY SegmentedAssumption
  <2>3. /\ segments \in Seq(SegmentRecord) /\ active \in Seq(RangeRecord)
        /\ output \in Seq(0..Total - 1) /\ saved \in Seq(0..Total) /\ handles \subseteq Ids
    BY DEF Init
  <2>4. /\ phase = "idle" /\ keeps \in BOOLEAN /\ wants = FALSE /\ target = 0
        /\ decisions = 0 /\ runs = 0 /\ adopted = FALSE /\ merged = FALSE
    BY DEF Init
  <2> QED
    BY <2>1, <2>2, <2>3, <2>4 DEF TypeOK
<1>2. ~Busy
  BY DEF Init, Busy
<1>3. TilesInv
  BY <1>1, <1>2 DEF Init, TilesInv
<1>4. OwnInv
  BY DEF Init, OwnInv
<1>5. FirstInv
  <2>1. \A i \in Ids : parts[i] = <<>>
    BY DEF Init, NoParts
  <2> QED
    BY <1>2, <2>1 DEF Init, FirstInv
<1> QED
  BY <1>3, <1>4, <1>5 DEF Inv

\* The removals of part files.
LEMMA PartsGone ==
  ASSUME TypeOK
  PROVE  /\ WithoutActiveParts \in [Ids -> Seq(0..Total - 1)]
         /\ NoParts \in [Ids -> Seq(0..Total - 1)]
         /\ \A i \in Ids : /\ WithoutActiveParts[i] \in {<<>>, parts[i]}
                           /\ NoParts[i] = <<>>
<1>1. \A i \in Ids : <<>> \in Seq(0..Total - 1) /\ parts[i] \in Seq(0..Total - 1)
  BY Typed
<1> QED
  BY <1>1 DEF WithoutActiveParts, NoParts

\* The ends of a run, the merge aside.
LEMMA EndsKeep ==
  ASSUME Inv, Pause \/ SegmentError \/ RangeRejected \/ AttemptRefused
                \/ SingleTakesOver \/ Crash
  PROVE  Inv'
<1> USE DEF Inv
<1>1. /\ parts \in [Ids -> Seq(0..Total - 1)] /\ output \in Seq(0..Total - 1)
      /\ saved \in Seq(0..Total) /\ <<>> \in Seq(0..Total) /\ <<0>> \in Seq(0..Total)
  <2>1. 0 \in 0..Total
    BY SegmentedAssumption
  <2> QED
    BY <2>1 DEF TilesInv, TypeOK
<1>2. ~adopted => output \in {<<>>, Whole}
  BY DEF OwnInv
<1>3. phase = "driving" => Counted \in Seq(0..Total)
  BY CountedTyped DEF TilesInv, Busy
<1>4. EndRun /\ phase # "idle" /\ phase' \in {"idle", "single", "finished", "left"}
  BY DEF Pause, SegmentError, RangeRejected, AttemptRefused, SingleTakesOver, Crash
<1>5. output' = output /\ saved' \in Seq(0..Total)
  BY <1>1, <1>3
     DEF Pause, SegmentError, RangeRejected, AttemptRefused, SingleTakesOver, Crash
<1>6. /\ parts' \in [Ids -> Seq(0..Total - 1)]
      /\ \A i \in Ids : parts'[i] = <<>> \/ parts'[i] = parts[i]
  <2>1. parts' \in {parts, NoParts, WithoutActiveParts}
    BY DEF Pause, SegmentError, RangeRejected, AttemptRefused, SingleTakesOver, Crash
  <2> QED
    BY <1>1, <2>1, PartsGone DEF TilesInv
<1> QED
  BY <1>1, <1>2, <1>4, <1>5, <1>6, EndRunKeeps

\* A byte of the file is in the part of one range.
LEMMA MergedByte ==
  ASSUME Inv, Busy, \A k \in DOMAIN active : Complete(k), NEW b \in 1..Total
  PROVE  /\ Merged(active)[b] \in 0..Total - 1
         /\ ~adopted => Merged(active)[b] = b - 1
<1> USE DEF Inv
<1> DEFINE i == CHOOSE i \in DOMAIN active :
                   active[i].start <= b - 1 /\ b - 1 <= active[i].end
<1>0. Covers(active) /\ TypeOK /\ Total \in Nat /\ b \in Nat /\ b >= 1
  BY SegmentedAssumption DEF TilesInv
<1>1. b - 1 \in 0..Total - 1
  BY <1>0
<1>2. i \in DOMAIN active /\ active[i].start <= b - 1 /\ b - 1 <= active[i].end
  BY <1>0, <1>1 DEF Covers
<1>3. Merged(active)[b] = parts[active[i].id][b - active[i].start]
  BY DEF Merged
<1> HIDE DEF i
<1>4. /\ active[i].start \in Nat /\ active[i].end \in Nat /\ active[i].id \in Ids
      /\ parts[active[i].id] \in Seq(0..Total - 1)
  BY <1>0, <1>2, Typed, RangeFields
<1>5. b - active[i].start \in 1..Len(parts[active[i].id])
  <2>1. Len(parts[active[i].id]) \in Nat
    BY <1>4, LenProperties
  <2>2. PartSize(active[i]) = active[i].end - active[i].start + 1
    BY <1>0, <1>2, <1>4 DEF PartSize
  <2>3. Len(parts[active[i].id]) >= PartSize(active[i])
    BY <1>2 DEF Complete
  <2> QED
    BY <1>0, <1>2, <1>4, <2>1, <2>2, <2>3
<1>6. parts[active[i].id][b - active[i].start] \in 0..Total - 1
  BY <1>4, <1>5, LenProperties
<1>7. ASSUME ~adopted PROVE parts[active[i].id][b - active[i].start] = b - 1
  <2>1. HoldsRange(active[i])
    BY <1>2, <1>7 DEF OwnInv
  <2>2. DOMAIN parts[active[i].id] = 1..Len(parts[active[i].id])
    BY <1>4, LenProperties
  <2>3. parts[active[i].id][b - active[i].start]
          = active[i].start + (b - active[i].start) - 1
    BY <1>5, <2>1, <2>2 DEF HoldsRange
  <2> QED
    BY <1>0, <1>4, <2>3
<1> QED
  BY <1>3, <1>6, <1>7

\* The gate and the merge.
LEMMA FinishKeeps ==
  ASSUME Inv, Finish
  PROVE  Inv'
<1> USE DEF Inv
<1>1. /\ parts \in [Ids -> Seq(0..Total - 1)] /\ output \in Seq(0..Total - 1)
      /\ saved \in Seq(0..Total) /\ TypeOK
  BY DEF TilesInv, TypeOK
<1>2. EndRun /\ phase # "idle" /\ phase' \in {"idle", "single", "finished", "left"} /\ Busy
  BY DEF Finish, Busy
<1>3. saved' \in Seq(0..Total)
  BY <1>1, <1>2, CountedTyped DEF TilesInv, Finish
<1>4. CASE output' = output /\ parts' = parts
  <2>1. ~adopted => output' \in {<<>>, Whole}
    BY <1>4 DEF OwnInv
  <2> QED
    BY <1>1, <1>2, <1>3, <1>4, <2>1, EndRunKeeps
<1>5. CASE /\ \A k \in DOMAIN active : Complete(k)
           /\ output' = Merged(active) /\ parts' = WithoutActiveParts
  <2>1. DOMAIN Merged(active) = 1..Total /\ Total \in Nat
    BY SegmentedAssumption DEF Merged
  <2>2. Merged(active) \in [1..Total -> 0..Total - 1]
    <3>1. \A b \in 1..Total : Merged(active)[b] \in 0..Total - 1
      BY <1>2, <1>5, MergedByte
    <3>2. Merged(active) = [b \in 1..Total |-> Merged(active)[b]]
      BY DEF Merged
    <3> QED
      BY <3>1, <3>2
  <2>3. output' \in Seq(0..Total - 1)
    BY <1>5, <2>1, <2>2, FunctionIsSeq
  <2>4. ASSUME ~adopted PROVE output' = Whole
    <3>1. \A b \in 1..Total : Merged(active)[b] = b - 1
      BY <1>2, <1>5, <2>4, MergedByte
    <3>2. Merged(active) = [b \in 1..Total |-> Merged(active)[b]]
      BY DEF Merged
    <3> QED
      BY <1>5, <3>1, <3>2 DEF Whole
  <2>5. /\ parts' \in [Ids -> Seq(0..Total - 1)]
        /\ \A i \in Ids : parts'[i] = <<>> \/ parts'[i] = parts[i]
    BY <1>1, <1>5, PartsGone
  <2> QED
    BY <1>2, <1>3, <2>3, <2>4, <2>5, EndRunKeeps
<1> QED
  BY <1>4, <1>5 DEF Finish

\* A run starts.
LEMMA StartKeeps ==
  ASSUME Inv, NEW n \in Connections, Start(n)
  PROVE  Inv'
<1> USE DEF Inv
<1> DEFINE ranges == PlanRanges(n)
           disk == IF keeps THEN parts ELSE NoParts
           counted == IF keeps THEN saved ELSE <<>>
           Confirmed(k) == k \in DOMAIN counted /\ counted[k] >= PartSize(ranges[k])
           Kept(k) == LET p == disk[ranges[k].id]
                      IN  \/ Len(p) < PartSize(ranges[k])
                          \/ Len(p) = PartSize(ranges[k]) /\ Confirmed(k)
           found == [i \in Ids |->
                        IF \E k \in DOMAIN ranges : ranges[k].id = i /\ ~Kept(k)
                        THEN <<>> ELSE disk[i]]
           open == {k \in DOMAIN ranges : Len(found[ranges[k].id]) < PartSize(ranges[k])}
<1>1. /\ phase = "idle" /\ runs < MaxRuns /\ runs' = runs + 1
      /\ parts' = found /\ saved' = counted /\ segments' = Seeded(ranges)
      /\ active' = ranges /\ handles' = {ranges[k].id : k \in open}
      /\ phase' = IF open = {} THEN "merging" ELSE "driving"
      /\ adopted' = (adopted \/ Adopts(ranges, found))
      /\ UNCHANGED <<output, keeps, target, wants, decisions, merged>>
  BY DEF Start
<1>2. /\ ranges \in Seq(ByteRange) /\ Covers(ranges) /\ ranges # <<>>
      /\ \A k \in DOMAIN ranges : ranges[k].id \in Ids
  BY PlanCovers
<1>3. /\ Seeded(ranges) \in Seq(Segment) /\ Tiles(Seeded(ranges))
      /\ DOMAIN Seeded(ranges) = DOMAIN ranges
      /\ \A k \in DOMAIN ranges : /\ Seeded(ranges)[k].id = ranges[k].id
                                  /\ Seeded(ranges)[k].start = ranges[k].start
  BY <1>2, SeededTiles
<1>4. \A i \in Ids : \/ found[i] = <<>>
                     \/ found[i] = disk[i] /\ disk[i] \in {<<>>, parts[i]}
  BY DEF NoParts
<1>5. ASSUME NEW k \in DOMAIN ranges, found[ranges[k].id] # <<>>
      PROVE  /\ found[ranges[k].id] = parts[ranges[k].id]
             /\ Len(found[ranges[k].id]) <= PartSize(ranges[k])
  <2>1. Kept(k)
    BY <1>2, <1>5
  <2>2. /\ found[ranges[k].id] = disk[ranges[k].id]
        /\ disk[ranges[k].id] = parts[ranges[k].id]
    BY <1>2, <1>4, <1>5
  <2>3. PartSize(ranges[k]) \in Nat
    BY <1>2, SizeIsNat
  <2>4. Len(disk[ranges[k].id]) \in Nat
    BY <1>2, <2>2, Typed DEF TilesInv
  <2> HIDE DEF disk, found, ranges, Confirmed
  <2> QED
    BY <2>1, <2>2, <2>3, <2>4
<1>6. DOMAIN found = Ids
  OBVIOUS
<1> HIDE DEF found, ranges
<1>7. TypeOK'
  <2>1. segments' \in Seq(SegmentRecord)
    BY <1>1, <1>2, <1>3, Retyped
  <2>2. active' \in Seq(RangeRecord)
    BY <1>1, <1>2, RangesRetyped
  <2>3. handles' \subseteq Ids
    BY <1>1, <1>2
  <2>4. \A i \in Ids : found[i] \in Seq(0..Total - 1)
    <3>1. \A i \in Ids : parts[i] \in Seq(0..Total - 1) /\ <<>> \in Seq(0..Total - 1)
      BY Typed DEF TilesInv
    <3> QED
      BY <1>4, <3>1
  <2>5. parts' \in [Ids -> Seq(0..Total - 1)]
    <3>1. found \in [Ids -> Seq(0..Total - 1)]
      BY <2>4, <1>6 DEF found
    <3> QED
      BY <1>1, <3>1
  <2>6. saved' \in Seq(0..Total)
    <3>1. saved \in Seq(0..Total) /\ <<>> \in Seq(0..Total)
      BY DEF TilesInv, TypeOK
    <3>2. saved' = counted /\ counted \in {saved, <<>>}
      BY <1>1
    <3> QED
      BY <3>1, <3>2
  <2>7. runs' \in 0..MaxRuns
    <3>1. runs < MaxRuns /\ runs' = runs + 1
      BY <1>1
    <3>2. runs \in 0..MaxRuns /\ MaxRuns \in Nat
      BY SegmentedAssumption DEF TilesInv, TypeOK
    <3> QED
      BY <3>1, <3>2
  <2>8. adopted' \in BOOLEAN /\ phase' \in {"driving", "merging"}
    BY <1>1 DEF Adopts, TilesInv, TypeOK
  <2>9. /\ output' \in Seq(0..Total - 1) /\ keeps' \in BOOLEAN /\ wants' \in BOOLEAN
        /\ target' \in 0..MaxConnections /\ decisions' \in 0..MaxDecisions
        /\ merged' \in BOOLEAN
    BY <1>1 DEF TilesInv, TypeOK
  <2> QED
    BY <2>1, <2>2, <2>3, <2>5, <2>6, <2>7, <2>8, <2>9 DEF TypeOK
<1>8. Busy' /\ segments' # <<>> /\ Tiles(segments)' /\ Covers(active)'
  <2>1. segments' # <<>>
    <3>1. Len(ranges) \in Nat \ {0} /\ DOMAIN ranges = 1..Len(ranges)
      BY <1>2, EmptySeq, LenProperties
    <3>2. 1 \in DOMAIN ranges
      BY <3>1
    <3>3. DOMAIN <<>> = {}
      OBVIOUS
    <3> QED
      BY <1>1, <1>3, <3>2, <3>3
  <2>2. Busy'
    BY <1>1 DEF Busy
  <2>3. Tiles(segments)'
    BY <1>1, <1>3 DEF Tiles
  <2>4. Covers(active)'
    BY <1>1, <1>2 DEF Covers
  <2> QED
    BY <2>1, <2>2, <2>3, <2>4
<1>9. TilesInv'
  BY <1>7, <1>8 DEF TilesInv
<1>10. OwnInv'
  <2>1. SUFFICES ASSUME ~adopted' PROVE /\ \A k \in DOMAIN active' : HoldsRange(active[k])'
                                        /\ output' \in {<<>>, Whole}
    BY DEF OwnInv
  <2>2. ~adopted /\ ~Adopts(ranges, found)
    BY <1>1, <2>1
  <2>3. output' \in {<<>>, Whole}
    BY <1>1, <2>2 DEF OwnInv
  <2>4. ASSUME NEW k \in DOMAIN ranges PROVE HoldsRange(active[k])'
    <3>1. CASE found[ranges[k].id] = <<>>
      <4>1. PartSize(ranges[k]) \in Nat
        BY <1>2, SizeIsNat
      <4> QED
        BY <1>1, <3>1, <4>1 DEF HoldsRange
    <3>2. CASE found[ranges[k].id] # <<>>
      <4>1. PICK j \in DOMAIN active : active[j].id = ranges[k].id
                                       /\ active[j].start = ranges[k].start
        BY <2>2, <3>2 DEF Adopts
      <4>2. HoldsRange(active[j])
        BY <2>2 DEF OwnInv
      <4>3. /\ found[ranges[k].id] = parts[ranges[k].id]
            /\ Len(found[ranges[k].id]) <= PartSize(ranges[k])
        BY <1>5, <3>2
      <4> QED
        BY <1>1, <4>1, <4>2, <4>3 DEF HoldsRange
    <3> QED
      BY <3>1, <3>2
  <2> QED
    BY <1>1, <2>3, <2>4
<1>11. FirstInv'
  <2>1. SUFFICES ASSUME runs' <= 1, ~merged'
                 PROVE  /\ ~adopted' /\ runs' # 0
                        /\ \A i \in Ids : parts'[i] = <<>>
                        /\ \A j \in DOMAIN active' : \E k \in DOMAIN segments' :
                              /\ segments'[k].id = active'[j].id
                              /\ segments'[k].start = active'[j].start
    BY DEF FirstInv
  <2>2. runs = 0 /\ ~merged /\ runs' # 0
    BY <1>1, <2>1 DEF TilesInv, TypeOK
  <2>3. ~adopted /\ parts = NoParts
    BY <2>2 DEF FirstInv
  <2>4. \A i \in Ids : found[i] = <<>>
    BY <1>4, <2>3 DEF NoParts
  <2>5. ~Adopts(ranges, found)
    BY <1>2, <2>4 DEF Adopts
  <2> QED
    BY <1>1, <1>3, <2>2, <2>3, <2>4, <2>5
<1> QED
  BY <1>9, <1>10, <1>11

\* A write callback appends to the part of its range.
LEMMA ReceiveKeeps ==
  ASSUME Inv, NEW k \in 1..MaxId + 1, Receive(k)
  PROVE  Inv'
<1> USE DEF Inv
<1> DEFINE id == active[k].id
           have == Len(parts[id])
           size == PartSize(active[k])
           m == MinOf(Block, size - have)
           new == [i \in 1..m |-> active[k].start + have + i - 1]
<1>1. /\ phase = "driving" /\ k \in DOMAIN active /\ have < size
      /\ parts' = [parts EXCEPT ![id] = @ \o new]
      /\ UNCHANGED <<phase, segments, active, handles, output, saved, keeps,
                     target, wants, decisions, runs, adopted, merged>>
  BY DEF Receive, history
<1>2. /\ Covers(active) /\ TypeOK /\ active[k].start \in Nat /\ active[k].end \in Nat
      /\ active[k].start <= active[k].end /\ active[k].end < Total
      /\ id \in Ids /\ parts[id] \in Seq(0..Total - 1) /\ have \in Nat
      /\ Total \in Nat /\ Block \in Nat /\ Block >= 1
  BY <1>1, Typed, RangeFields, SegmentedAssumption DEF TilesInv, Busy, Covers
<1>3. size = active[k].end - active[k].start + 1 /\ size \in Nat
  BY <1>2 DEF PartSize
<1>4. m \in Nat /\ m >= 1 /\ have + m <= size
  <2>1. have < size /\ have \in Nat /\ size \in Nat /\ Block \in Nat /\ Block >= 1
    BY <1>1, <1>2, <1>3
  <2> HIDE DEF have, size
  <2> QED
    BY <2>1 DEF MinOf
<1> HIDE DEF id, m, size
<1>5. new \in Seq(0..Total - 1) /\ Len(new) = m
  <2>1. ASSUME NEW i \in 1..m PROVE active[k].start + have + i - 1 \in 0..Total - 1
    <3>1. PICK a \in Nat, e \in Nat, h \in Nat :
             a = active[k].start /\ e = active[k].end /\ h = have
      BY <1>2
    <3>2. h + m <= e - a + 1 /\ e < Total /\ i \in Nat /\ i >= 1 /\ i <= m
      BY <1>2, <1>3, <1>4, <3>1
    <3>3. a + h + i - 1 \in 0..Total - 1
      BY <1>2, <1>4, <3>2
    <3> QED
      BY <3>1, <3>3
  <2> HIDE DEF have
  <2>2. new \in [1..m -> 0..Total - 1]
    BY <2>1
  <2> QED
    BY <1>4, <2>2, FunctionIsSeq
<1> DEFINE p == parts[id] \o new
<1>6. /\ p \in Seq(0..Total - 1) /\ Len(p) = have + m /\ DOMAIN p = 1..have + m
      /\ \A i \in 1..have + m : p[i] = IF i <= have THEN parts[id][i] ELSE new[i - have]
  BY <1>2, <1>5, <1>4, ConcatProperties
<1>7. \A i \in 1..m : new[i] = active[k].start + have + i - 1
  OBVIOUS
<1> HIDE DEF new, p
<1>8. parts' \in [Ids -> Seq(0..Total - 1)] /\ parts'[id] = p
      /\ \A i \in Ids : i # id => parts'[i] = parts[i]
  BY <1>1, <1>2, <1>6 DEF TypeOK, p
<1>9. TilesInv'
  <2>1. TypeOK'
    BY <1>1, <1>2, <1>8 DEF TypeOK
  <2> QED
    BY <1>1, <2>1 DEF TilesInv, Busy, Tiles, Covers
<1>10. OwnInv'
  <2>1. SUFFICES ASSUME ~adopted, NEW j \in DOMAIN active PROVE HoldsRange(active[j])'
    BY <1>1 DEF OwnInv
  <2>2. HoldsRange(active[j]) /\ HoldsRange(active[k])
    BY <1>1, <2>1 DEF OwnInv
  <2>3. CASE j # k
    <3>1. active[j].id # id /\ active[j].id \in Ids
      BY <1>1, <1>2, <2>3, Typed DEF Covers, id
    <3> QED
      BY <1>1, <1>8, <2>2, <3>1 DEF HoldsRange
  <2>4. CASE j = k
    <3>1. Len(p) <= size
      BY <1>4, <1>6
    <3>2. ASSUME NEW i \in DOMAIN p PROVE p[i] = active[k].start + i - 1
      <4>1. i \in 1..have + m
        BY <1>6
      <4>2. CASE i <= have
        <5>1. DOMAIN parts[id] = 1..have
          BY <1>2, LenProperties
        <5>2. i \in DOMAIN parts[id]
          BY <1>2, <4>1, <4>2, <5>1
        <5> QED
          BY <1>6, <2>2, <4>1, <4>2, <5>2 DEF HoldsRange, id
      <4>3. CASE ~(i <= have)
        <5>1. PICK h \in Nat : h = have
          BY <1>2
        <5>2. i - h \in 1..m
          BY <1>4, <4>1, <4>3, <5>1
        <5>3. p[i] = new[i - h]
          BY <1>6, <4>1, <4>3, <5>1
        <5>4. new[i - h] = active[k].start + h + (i - h) - 1
          BY <1>7, <5>1, <5>2
        <5> QED
          BY <1>2, <4>1, <5>1, <5>3, <5>4, <1>4
      <4> QED
        BY <4>2, <4>3
    <3> QED
      BY <1>1, <1>8, <2>4, <3>1, <3>2 DEF HoldsRange, id, size
  <2> QED
    BY <2>3, <2>4
<1>11. FirstInv'
  <2>1. SUFFICES ASSUME runs <= 1, ~merged
                 PROVE  /\ ~adopted /\ runs # 0
                        /\ \A i \in Ids : parts'[i] # <<>> =>
                              \E j \in DOMAIN active : active[j].id = i
                        /\ \A j \in DOMAIN active : \E o \in DOMAIN segments :
                              /\ segments[o].id = active[j].id
                              /\ segments[o].start = active[j].start
    BY <1>1 DEF FirstInv
  <2>2. ~adopted /\ runs # 0
    BY <1>1, <2>1 DEF FirstInv
  <2>3. ASSUME NEW i \in Ids, parts'[i] # <<>>
        PROVE  \E j \in DOMAIN active : active[j].id = i
    BY <1>1, <1>8, <2>1, <2>3 DEF FirstInv, id
  <2>4. \A j \in DOMAIN active : \E o \in DOMAIN segments :
            segments[o].id = active[j].id /\ segments[o].start = active[j].start
    BY <1>1, <2>1 DEF FirstInv, Busy
  <2> QED
    BY <2>2, <2>3, <2>4
<1> QED
  BY <1>9, <1>10, <1>11

\* The engine's geometry changes; ranges and parts stay as they are.
LEMMA ReshapeKeeps ==
  ASSUME Inv, Busy, Busy', TypeOK', segments' \in Seq(Segment), Tiles(segments'),
         segments' # <<>>, UNCHANGED <<active, parts, output, runs, adopted>>,
         merged => merged', ~merged' => KeepsStarts(segments, segments')
  PROVE  Inv'
<1> USE DEF Inv
<1>1. TilesInv'
  <2>1. Tiles(segments)' /\ Covers(active)'
    BY DEF TilesInv, Tiles, Covers
  <2> QED
    BY <2>1 DEF TilesInv
<1>2. OwnInv'
  BY DEF OwnInv, HoldsRange
<1>3. FirstInv'
  <2>1. SUFFICES ASSUME runs <= 1, ~merged'
                 PROVE  /\ ~adopted /\ runs # 0
                        /\ \A i \in Ids : parts[i] # <<>> =>
                              \E j \in DOMAIN active : active[j].id = i
                        /\ \A j \in DOMAIN active : \E o \in DOMAIN segments' :
                              /\ segments'[o].id = active[j].id
                              /\ segments'[o].start = active[j].start
    BY DEF FirstInv
  <2>2. ~merged /\ ~adopted /\ runs # 0
    BY <2>1 DEF FirstInv, Busy
  <2>3. \A i \in Ids : parts[i] # <<>> => \E j \in DOMAIN active : active[j].id = i
    BY <2>1, <2>2 DEF FirstInv
  <2>4. ASSUME NEW j \in DOMAIN active
        PROVE  \E o \in DOMAIN segments' : /\ segments'[o].id = active[j].id
                                           /\ segments'[o].start = active[j].start
    <3>1. PICK q \in DOMAIN segments : /\ segments[q].id = active[j].id
                                       /\ segments[q].start = active[j].start
      BY <2>1, <2>2 DEF FirstInv
    <3> QED
      BY <2>1, <3>1 DEF KeepsStarts
  <2> QED
    BY <2>2, <2>3, <2>4
<1> QED
  BY <1>1, <1>2, <1>3

\* A sequence that tiles the file is not empty.
LEMMA TilesNotEmpty ==
  ASSUME NEW s \in Seq(Segment), Tiles(s)
  PROVE  s # <<>>
<1>1. 0 \in 0..Total - 1
  BY SegmentedAssumption
<1>2. DOMAIN s # {}
  BY <1>1 DEF Tiles
<1> QED
  BY <1>2

\* The adaptive tick.
LEMMA TickDecisionKeeps ==
  ASSUME Inv, NEW n \in 1..MaxConnections, NEW rebuild \in BOOLEAN,
         TickDecision(n, rebuild)
  PROVE  Inv'
<1> USE DEF Inv
<1> DEFINE u == Updated(segments, active)
<1>1. Busy /\ TypeOK /\ Tiles(segments) /\ segments \in Seq(Segment)
  BY Typed DEF TickDecision, TilesInv, Busy
<1>2. /\ u \in Seq(Segment) /\ Tiles(u) /\ Len(u) = Len(segments)
      /\ DOMAIN u = DOMAIN segments
      /\ \A k \in DOMAIN segments : u[k].id = segments[k].id /\ u[k].start = segments[k].start
  BY <1>1, Typed, UpdatedTiles
<1>3. PICK next \in Planned(u) \cup {u} :
         /\ \A i \in DOMAIN next : next[i].id \in Ids
         /\ segments' = next
         /\ merged' = (merged \/ Len(next) < Len(u))
  BY DEF TickDecision
<1> HIDE DEF u
<1>4. /\ next \in Seq(Segment) /\ Tiles(next) /\ next # <<>>
      /\ Len(next) >= Len(u) => KeepsStarts(u, next)
  BY <1>2, PlannedTiles, TilesNotEmpty
<1>5. ~merged' => KeepsStarts(segments, segments')
  <2>1. Len(next) \in Nat /\ Len(u) \in Nat
    BY <1>2, <1>4, LenProperties
  <2>2. SUFFICES ASSUME ~merged' PROVE KeepsStarts(segments, segments')
    OBVIOUS
  <2>3. KeepsStarts(u, next)
    <3>1. ~(Len(next) < Len(u))
      BY <1>3, <2>2, Zenon
    <3> QED
      BY <1>4, <2>1, <3>1
  <2> QED
    BY <1>2, <1>3, <2>3 DEF KeepsStarts
<1>6. /\ UNCHANGED <<active, handles, parts, output, saved, keeps, runs, adopted>>
      /\ decisions < MaxDecisions /\ decisions' = decisions + 1
      /\ phase' \in {"adjusting", "rebuilding", "driving"}
      /\ target' \in {target, n} /\ wants' \in {wants, rebuild}
  BY DEF TickDecision
<1>7. TypeOK'
  <2>1. segments' \in Seq(SegmentRecord)
    BY <1>3, <1>4, Retyped
  <2>2. decisions' \in 0..MaxDecisions
    BY <1>1, <1>6, SegmentedAssumption DEF TypeOK
  <2>3. target' \in 0..MaxConnections /\ wants' \in BOOLEAN
    BY <1>1, <1>6, SegmentedAssumption DEF TypeOK
  <2>4. merged' \in BOOLEAN
    BY <1>1, <1>3 DEF TypeOK
  <2> QED
    BY <1>1, <1>6, <2>1, <2>2, <2>3, <2>4 DEF TypeOK
<1>8. Busy' /\ (merged => merged')
  BY <1>3, <1>6 DEF Busy
<1> QED
  BY <1>1, <1>3, <1>4, <1>5, <1>6, <1>7, <1>8, ReshapeKeeps

\* A step of the connection count's loop.
LEMMA AdjustKeeps ==
  ASSUME Inv, Adjust
  PROVE  Inv'
<1> USE DEF Inv
<1>1. /\ Busy /\ Busy' /\ TypeOK /\ Tiles(segments) /\ segments \in Seq(Segment)
      /\ \A i \in DOMAIN segments : segments[i].id \in Ids
  BY Typed DEF Adjust, TilesInv, Busy
<1>2. UNCHANGED <<phase, active, handles, parts, output, saved, keeps,
                  target, wants, decisions, runs, adopted>>
  BY DEF Adjust
<1>3. /\ segments' \in Seq(Segment) /\ Tiles(segments')
      /\ \A k \in DOMAIN segments' : segments'[k].id \in Ids
      /\ merged' \in BOOLEAN /\ (merged => merged')
      /\ ~merged' => KeepsStarts(segments, segments')
  <2>1. CASE /\ NextId(segments) \in Ids /\ UNCHANGED merged
             /\ \E i \in Largest(segments) : segments' = Split(segments, i)
    <3>1. PICK i \in DOMAIN segments : segments' = Split(segments, i)
      BY <2>1 DEF Largest
    <3>2. /\ segments' \in Seq(Segment) /\ Tiles(segments')
          /\ KeepsStarts(segments, segments')
      BY <1>1, <3>1, SplitTiles
    <3>3. \A k \in DOMAIN segments' : segments'[k].id \in Ids
      BY <1>1, <2>1, <3>1, SplitTiles DEF IdsWithin
    <3> QED
      BY <1>1, <2>1, <3>2, <3>3 DEF TypeOK
  <2>2. CASE /\ merged' = TRUE
             /\ \E p \in SmallestPair(segments) : segments' = Merge(segments, p[1], p[2])
    <3>1. PICK p \in SmallestPair(segments) : segments' = Merge(segments, p[1], p[2])
      BY <2>2
    <3>2. p[1] \in DOMAIN segments /\ p[2] \in DOMAIN segments
      BY DEF SmallestPair, ActiveSegs
    <3>3. segments' \in Seq(Segment) /\ Tiles(segments')
      BY <1>1, <3>1, <3>2, MergeTiles
    <3>4. \A k \in DOMAIN segments' : segments'[k].id \in Ids
      BY <1>1, <3>1, <3>2, MergeTiles DEF IdsWithin
    <3> QED
      BY <2>2, <3>3, <3>4
  <2> QED
    BY <2>1, <2>2 DEF Adjust
<1>4. segments' # <<>>
  BY <1>3, TilesNotEmpty
<1>5. TypeOK'
  <2>1. segments' \in Seq(SegmentRecord)
    BY <1>3, Retyped
  <2> QED
    BY <1>1, <1>2, <1>3, <2>1 DEF TypeOK
<1> QED
  BY <1>1, <1>2, <1>3, <1>4, <1>5, ReshapeKeeps

\* The other steps that leave the segments, the ranges and the parts alone.
LEMMA StillKeeps ==
  ASSUME Inv, TickProgress \/ AdjustEnds \/ UNCHANGED vars
  PROVE  Inv'
<1> USE DEF Inv
<1>1. UNCHANGED <<segments, active, handles, parts, output, keeps, decisions, runs,
                  adopted, merged>>
  BY DEF TickProgress, AdjustEnds, vars, history
<1>2. (phase = "idle") = (phase' = "idle") /\ Busy = Busy'
  BY DEF TickProgress, AdjustEnds, vars, Busy
<1>3. /\ phase' \in {phase, "driving", "rebuilding"} /\ target' \in {target, 0}
      /\ wants' \in {wants, FALSE}
  BY DEF TickProgress, AdjustEnds, vars
<1>4. saved' \in Seq(0..Total)
  <2>1. saved \in Seq(0..Total) /\ TypeOK
    BY DEF TilesInv, TypeOK
  <2>2. phase = "driving" => Counted \in Seq(0..Total)
    BY CountedTyped DEF TilesInv, Busy
  <2> QED
    BY <2>1, <2>2 DEF TickProgress, AdjustEnds, vars
<1>5. TypeOK'
  <2>1. target' \in 0..MaxConnections
    BY <1>3, SegmentedAssumption DEF TilesInv, TypeOK
  <2> QED
    BY <1>1, <1>3, <1>4, <2>1 DEF TilesInv, TypeOK
<1>6. TilesInv'
  BY <1>1, <1>2, <1>5 DEF TilesInv, Tiles, Covers
<1>7. OwnInv'
  BY <1>1 DEF OwnInv, HoldsRange
<1>8. FirstInv'
  BY <1>1, <1>2 DEF FirstInv
<1> QED
  BY <1>6, <1>7, <1>8

\* A part cut to a size keeps its first bytes.
LEMMA TrimmedPart ==
  ASSUME NEW X, NEW p \in Seq(X), NEW n \in Nat
  PROVE  /\ Trimmed(p, n) \in Seq(X) /\ Len(Trimmed(p, n)) <= n
         /\ Len(Trimmed(p, n)) \in Nat
         /\ DOMAIN Trimmed(p, n) \subseteq DOMAIN p
         /\ \A i \in DOMAIN Trimmed(p, n) : Trimmed(p, n)[i] = p[i]
         /\ p = <<>> => Trimmed(p, n) = <<>>
<1>1. Len(p) \in Nat /\ DOMAIN p = 1..Len(p)
  BY LenProperties
<1>2. CASE Len(p) <= n
  BY <1>1, <1>2 DEF Trimmed
<1>3. CASE Len(p) > n
  <2> DEFINE q == SubSeq(p, 1, n)
  <2>1. Trimmed(p, n) = q /\ p # <<>>
    BY <1>1, <1>3 DEF Trimmed
  <2>2. q \in Seq(X) /\ Len(q) = n /\ \A i \in 1..n : q[i] = p[i]
    <3>1. n \in 0..Len(p)
      BY <1>1, <1>3
    <3> QED
      BY <1>1, <1>3
  <2> HIDE DEF q
  <2>3. DOMAIN q = 1..n
    BY <2>2, LenProperties
  <2>4. DOMAIN q \subseteq DOMAIN p
    BY <1>1, <1>3, <2>3
  <2> QED
    BY <2>1, <2>2, <2>3, <2>4
<1> QED
  BY <1>1, <1>2, <1>3

\* The rebuild makes the ranges anew from the segments.
LEMMA RebuildKeeps ==
  ASSUME Inv, Rebuild
  PROVE  Inv'
<1> USE DEF Inv
<1> DEFINE kept == NonEmpty(segments)
           SizeOf(i) == TotalBytes(kept[CHOOSE k \in DOMAIN kept : kept[k].id = i])
           held == {kept[k].id : k \in DOMAIN kept}
           cut == [i \in Ids |->
                     IF i \in held THEN Trimmed(parts[i], SizeOf(i)) ELSE parts[i]]
           ranges == [k \in DOMAIN kept |->
                        [id |-> kept[k].id, start |-> kept[k].start,
                         end |-> InclusiveEnd(kept[k])]]
<1>1. /\ phase = "rebuilding" /\ phase' = "driving"
      /\ parts' = cut /\ active' = ranges
      /\ handles' = {i \in held : Len(cut[i]) < SizeOf(i)}
      /\ adopted' = (adopted \/ Adopts(kept, cut))
      /\ UNCHANGED <<segments, output, saved, keeps, target, wants, decisions,
                     runs, merged>>
  BY DEF Rebuild
<1>2. /\ segments \in Seq(Segment) /\ Tiles(segments) /\ TypeOK
      /\ \A i \in DOMAIN segments : segments[i].id \in Ids
      /\ segments # <<>>
  BY <1>1, Typed DEF TilesInv, Busy
<1>3. kept = segments
  BY <1>2, NonEmptyIsAll
<1>4. ASSUME NEW k \in DOMAIN segments
      PROVE  /\ segments[k].start \in Nat /\ segments[k].end \in Nat
             /\ segments[k].start < segments[k].end /\ segments[k].end <= Total
  BY <1>2, SegmentFields DEF Tiles
<1>5. ranges = AsRanges(segments)
  <2>1. \A k \in DOMAIN segments : InclusiveEnd(segments[k]) = segments[k].end - 1
    BY <1>4 DEF InclusiveEnd, Monus
  <2> HIDE DEF kept
  <2> QED
    BY <1>3, <2>1 DEF AsRanges
<1>6. AsRanges(segments) \in Seq(ByteRange) /\ Covers(AsRanges(segments))
  BY <1>2, TilesAsRanges
<1> HIDE DEF kept
<1>7. ASSUME NEW k \in DOMAIN segments
      PROVE  /\ segments[k].id \in held /\ SizeOf(segments[k].id) \in Nat
             /\ SizeOf(segments[k].id) = segments[k].end - segments[k].start
             /\ ranges[k].id = segments[k].id /\ ranges[k].start = segments[k].start
             /\ PartSize(ranges[k]) = segments[k].end - segments[k].start
  <2>1. segments[k].id \in held
    BY <1>3
  <2>2. (CHOOSE m \in DOMAIN kept : kept[m].id = segments[k].id) = k
    BY <1>2, <1>3 DEF Tiles
  <2>3. TotalBytes(segments[k]) = segments[k].end - segments[k].start
    BY <1>4 DEF TotalBytes, Monus
  <2>4. SizeOf(segments[k].id) = segments[k].end - segments[k].start
    BY <1>3, <2>2, <2>3
  <2>5. /\ ranges[k].id = segments[k].id /\ ranges[k].start = segments[k].start
        /\ ranges[k].end = segments[k].end - 1
    <3>1. ranges[k] = [id |-> segments[k].id, start |-> segments[k].start,
                       end |-> segments[k].end - 1]
      BY <1>5 DEF AsRanges
    <3> HIDE DEF ranges
    <3> QED
      BY <3>1
  <2> HIDE DEF SizeOf, ranges, held
  <2>6. PartSize(ranges[k]) = segments[k].end - segments[k].start
    BY <1>4, <2>5 DEF PartSize
  <2> QED
    BY <1>4, <2>1, <2>4, <2>5, <2>6
<1>8. held = {segments[k].id : k \in DOMAIN segments}
  BY <1>3
<1>9. DOMAIN ranges = DOMAIN segments
  BY <1>3
<1> HIDE DEF held, SizeOf, ranges
<1>10. ASSUME NEW i \in Ids
       PROVE  /\ cut[i] \in Seq(0..Total - 1)
              /\ DOMAIN cut[i] \subseteq DOMAIN parts[i]
              /\ \A b \in DOMAIN cut[i] : cut[i][b] = parts[i][b]
              /\ parts[i] = <<>> => cut[i] = <<>>
              /\ i \in held => Len(cut[i]) <= SizeOf(i) /\ Len(cut[i]) \in Nat
  <2>1. parts[i] \in Seq(0..Total - 1)
    BY <1>2, Typed
  <2>2. CASE i \in held
    <3>1. SizeOf(i) \in Nat
      BY <1>7, <1>8, <2>2
    <3>2. cut[i] = Trimmed(parts[i], SizeOf(i))
      BY <2>2
    <3> QED
      BY <2>1, <3>1, <3>2, TrimmedPart
  <2>3. CASE i \notin held
    BY <2>1, <2>3
  <2> QED
    BY <2>2, <2>3
<1>11. cut \in [Ids -> Seq(0..Total - 1)]
  BY <1>10
<1> HIDE DEF cut
<1>12. TypeOK'
  <2>1. active' \in Seq(RangeRecord)
    <3>1. \A i \in DOMAIN ranges : ranges[i].id \in Ids
      BY <1>2, <1>7, <1>9
    <3> QED
      BY <1>1, <1>5, <1>6, <3>1, RangesRetyped
  <2>2. handles' \subseteq Ids
    BY <1>1, <1>2, <1>8
  <2>3. adopted' \in BOOLEAN /\ phase' = "driving" /\ parts' \in [Ids -> Seq(0..Total - 1)]
    BY <1>1, <1>2, <1>11 DEF TypeOK, Adopts
  <2> QED
    BY <1>1, <1>2, <2>1, <2>2, <2>3 DEF TypeOK
<1>13. TilesInv'
  <2>1. Busy' /\ Busy
    BY <1>1 DEF Busy
  <2>2. Covers(active)'
    BY <1>1, <1>5, <1>6 DEF Covers
  <2>3. Tiles(segments)'
    BY <1>1, <1>2 DEF Tiles
  <2>4. segments' # <<>>
    BY <1>1, <1>2
  <2> QED
    BY <1>12, <2>1, <2>2, <2>3, <2>4 DEF TilesInv
<1>14. OwnInv'
  <2>1. SUFFICES ASSUME ~adopted' PROVE /\ \A k \in DOMAIN active' : HoldsRange(active[k])'
                                        /\ output' \in {<<>>, Whole}
    BY DEF OwnInv
  <2>2. ~adopted /\ ~Adopts(segments, cut)
    BY <1>1, <1>3, <2>1
  <2>3. output' \in {<<>>, Whole}
    BY <1>1, <2>2 DEF OwnInv
  <2>4. ASSUME NEW k \in DOMAIN segments PROVE HoldsRange(active[k])'
    <3> DEFINE i == segments[k].id
    <3>1. i \in Ids /\ i \in held /\ SizeOf(i) = PartSize(ranges[k]) /\ ranges[k].id = i
          /\ ranges[k].start = segments[k].start
      BY <1>2, <1>7
    <3>2. Len(cut[i]) <= PartSize(ranges[k])
      BY <1>10, <3>1
    <3>3. ASSUME NEW b \in DOMAIN cut[i] PROVE cut[i][b] = segments[k].start + b - 1
      <4>1. cut[i] # <<>> /\ b \in DOMAIN parts[i] /\ cut[i][b] = parts[i][b]
        BY <1>10, <3>1
      <4>2. PICK j \in DOMAIN active : active[j].id = i /\ active[j].start = segments[k].start
        BY <2>2, <4>1 DEF Adopts
      <4>3. HoldsRange(active[j])
        BY <2>2 DEF OwnInv
      <4> QED
        BY <4>1, <4>2, <4>3 DEF HoldsRange
    <3> HIDE DEF i
    <3> QED
      BY <1>1, <3>1, <3>2, <3>3 DEF HoldsRange
  <2> QED
    BY <1>1, <1>9, <2>3, <2>4
<1>15. FirstInv'
  <2>1. SUFFICES ASSUME runs <= 1, ~merged
                 PROVE  /\ ~adopted' /\ runs # 0
                        /\ \A i \in Ids : cut[i] # <<>> =>
                              \E j \in DOMAIN ranges : ranges[j].id = i
                        /\ \A j \in DOMAIN ranges : \E k \in DOMAIN segments :
                              /\ segments[k].id = ranges[j].id
                              /\ segments[k].start = ranges[j].start
    BY <1>1 DEF FirstInv
  <2>2. ~adopted /\ runs # 0
    BY <1>1, <2>1 DEF FirstInv
  <2>3. ASSUME NEW i \in Ids, cut[i] # <<>>
        PROVE  \E j \in DOMAIN active, k \in DOMAIN segments :
                  /\ active[j].id = i /\ segments[k].id = i
                  /\ segments[k].start = active[j].start
    <3>1. parts[i] # <<>>
      BY <1>10, <2>3
    <3>2. PICK j \in DOMAIN active : active[j].id = i
      BY <2>1, <3>1 DEF FirstInv
    <3>3. PICK k \in DOMAIN segments : /\ segments[k].id = active[j].id
                                       /\ segments[k].start = active[j].start
      BY <1>1, <2>1 DEF FirstInv, Busy
    <3> QED
      BY <3>2, <3>3
  <2>4. ~Adopts(segments, cut)
    <3>1. SUFFICES ASSUME NEW k \in DOMAIN segments, cut[segments[k].id] # <<>>
                   PROVE  \E j \in DOMAIN active :
                             <<active[j].id, active[j].start>>
                                = <<segments[k].id, segments[k].start>>
      BY DEF Adopts
    <3>2. PICK j \in DOMAIN active, m \in DOMAIN segments :
             /\ active[j].id = segments[k].id /\ segments[m].id = segments[k].id
             /\ segments[m].start = active[j].start
      BY <1>2, <2>3, <3>1
    <3>3. m = k
      BY <1>2, <3>2 DEF Tiles
    <3> QED
      BY <3>2, <3>3
  <2>5. ASSUME NEW i \in Ids, cut[i] # <<>>
        PROVE  \E j \in DOMAIN ranges : ranges[j].id = i
    BY <1>7, <1>9, <2>3, <2>5
  <2>6. \A j \in DOMAIN ranges : \E k \in DOMAIN segments :
            segments[k].id = ranges[j].id /\ segments[k].start = ranges[j].start
    BY <1>7, <1>9
  <2> QED
    BY <1>1, <1>3, <2>2, <2>4, <2>5, <2>6
<1> QED
  BY <1>13, <1>14, <1>15

-----------------------------------------------------------------------------
(* The theorems.                                                             *)

\* Every step keeps the invariant.
LEMMA StepKeeps ==
  ASSUME Inv, [Next]_vars
  PROVE  Inv'
<1>1. CASE \E n \in Connections : Start(n)
  BY <1>1, StartKeeps
<1>2. CASE \E k \in 1..MaxId + 1 : Receive(k)
  BY <1>2, ReceiveKeeps
<1>3. CASE \E n \in 1..MaxConnections, rebuild \in BOOLEAN : TickDecision(n, rebuild)
  BY <1>3, TickDecisionKeeps
<1>4. CASE Adjust
  BY <1>4, AdjustKeeps
<1>5. CASE Rebuild
  BY <1>5, RebuildKeeps
<1>6. CASE Finish
  BY <1>6, FinishKeeps
<1>7. CASE Pause \/ SegmentError \/ RangeRejected \/ AttemptRefused
           \/ SingleTakesOver \/ Crash
  BY <1>7, EndsKeep
<1>8. CASE TickProgress \/ AdjustEnds \/ UNCHANGED vars
  BY <1>8, StillKeeps
<1> QED
  BY <1>1, <1>2, <1>3, <1>4, <1>5, <1>6, <1>7, <1>8 DEF Next

\* The strengthening of the three invariants.
THEOREM Invariant == Spec => []Inv
<1>1. Init => Inv
  BY InitOK
<1>2. Inv /\ [Next]_vars => Inv'
  BY StepKeeps
<1> QED
  BY <1>1, <1>2, PTL DEF Spec

\* Whatever the planner (plan_transfer_ranges_with_limit), the engine's splits,
\* merges, rebalances and sorting (apply_plan, redistribute_for_count) and the
\* rebuilds of the drive loop do, the gate before the merge
\* (validate_segment_geometry) never refuses a transfer: distinct ids, every byte
\* of the file in exactly one range.
THEOREM Geometry == Spec => []GeometryCovers
<1>1. Inv => GeometryCovers
  <2>1. SUFFICES ASSUME Inv, segments # <<>>
                 PROVE  /\ ValidGeometry(active)
                        /\ ValidGeometry(AsRanges(segments))
    BY DEF Inv, TilesInv, GeometryCovers, AsRanges
  <2>2. TypeOK /\ Tiles(segments) /\ Covers(active)
    BY <2>1 DEF Inv, TilesInv
  <2>3. segments \in Seq(Segment) /\ active \in Seq(ByteRange)
    BY <2>2, Typed
  <2> QED
    BY <2>2, <2>3, TilesAsRanges, CoversIsValid
<1> QED
  BY <1>1, Invariant, PTL

\* As long as no range was given the part file of another one (the disk scan of
\* run_segmented_libcurl and of the rebuild), every part holds its own range from
\* its start on and merge_parts writes the remote file, byte for byte.
THEOREM OwnParts == Spec => []OwnPartsMergeWhole
<1>1. Inv => OwnPartsMergeWhole
  BY DEF Inv, OwnInv, HoldsRange, OwnPartsMergeWhole, PartsHoldTheirRange
<1> QED
  BY <1>1, Invariant, PTL

\* A range is given the part of another one only after merge_adjacent_segments
\* has freed an id whose part file is still there, or in a run that is not the
\* first: splits and rebalances alone never do it.
THEOREM AdoptionCause == Spec => []AdoptionHasCause
<1>1. Inv => AdoptionHasCause
  <2>1. SUFFICES ASSUME Inv, adopted, ~merged, ~(runs > 1) PROVE FALSE
    BY DEF AdoptionHasCause
  <2>2. runs <= 1
    BY <2>1, SegmentedAssumption DEF Inv, TilesInv, TypeOK
  <2> QED
    BY <2>1, <2>2 DEF Inv, FirstInv
<1> QED
  BY <1>1, Invariant, PTL
================================================================================
