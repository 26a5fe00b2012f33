------------------------- MODULE StringBucketsProofs -------------------------
(***************************************************************************)
(* StringBuckets for any columns, values, sizes and numbers of rows and      *)
(* buckets.                                                                  *)
(***************************************************************************)
EXTENDS StringBuckets, FiniteSetTheorems, SequenceTheorems, WellFoundedInduction, TLAPS

-----------------------------------------------------------------------------
(* Induction over the natural numbers for a set, and over the turns of a loop. *)

LEMMA Least ==
    ASSUME NEW T \in SUBSET Nat, T # {}
    PROVE  \E x \in T : \A y \in T : x <= y
  <1> DEFINE Less == OpToRel(<, Nat)
  <1>1. Less = {ss \in Nat \X Nat : ss[1] < ss[2]}
    BY Zenon DEF OpToRel
  <1>2. IsWellFoundedOn(Less, Nat)
    BY NatLessThanWellFounded, Zenon
  <1> HIDE DEF Less
  <1>3. PICK x \in T : \A y \in T : ~(<<y, x>> \in Less)
    BY <1>2, WFMin
  <1>4. ASSUME NEW y \in T
        PROVE  x <= y
    <2>1. ~(y < x)
      BY <1>1, <1>3, <1>4
    <2> QED BY <2>1
  <1> QED BY <1>4

LEMMA Greatest ==
    ASSUME NEW n \in Nat, NEW T \in SUBSET (0..n), T # {}
    PROVE  \E x \in T : \A y \in T : y <= x
  <1> DEFINE Above == {m \in 0..n : n - m \in T}
  <1>1. Above # {} /\ Above \in SUBSET Nat
    <2>1. PICK y \in T : TRUE
      OBVIOUS
    <2>2. n - y \in 0..n /\ n - (n - y) = y
      OBVIOUS
    <2>3. n - y \in Above
      BY <2>2
    <2>4. Above \subseteq Nat
      OBVIOUS
    <2> QED BY <2>3, <2>4
  <1>2. PICK m \in Above : \A k \in Above : m <= k
    <2> HIDE DEF Above
    <2> QED BY <1>1, Least
  <1>3. ASSUME NEW y \in T
        PROVE  y <= n - m
    <2>1. n - y \in 0..n /\ n - (n - y) = y
      OBVIOUS
    <2>2. n - y \in Above
      BY <2>1
    <2>3. m \in Nat /\ m <= n - y /\ y \in Nat
      BY <1>2, <2>2
    <2> QED BY <2>3
  <1> QED BY <1>2, <1>3

LEMMA Induction ==
    ASSUME NEW T, 0 \in T, \A k \in Nat : k \in T => k + 1 \in T
    PROVE  Nat \subseteq T
  <1> SUFFICES ASSUME Nat \ T # {}
               PROVE  FALSE
    OBVIOUS
  <1>1. PICK x \in Nat \ T : \A y \in Nat \ T : x <= y
    BY Least
  <1>2. x # 0 /\ x - 1 \in Nat
    BY <1>1
  <1>3. x - 1 \in T
    BY <1>1, <1>2
  <1> QED BY <1>1, <1>2, <1>3

\* Induction over the turns of a loop.
LEMMA TurnInduction ==
    ASSUME NEW n \in Nat, NEW T, 0 \in T,
           \A k \in 1..n : k - 1 \in T => k \in T
    PROVE  \A k \in 0..n : k \in T
  <1> DEFINE U == {k \in Nat : k <= n => k \in T}
  <1>1. 0 \in U
    OBVIOUS
  <1>2. ASSUME NEW k \in Nat, k \in U
        PROVE  k + 1 \in U
    <2> SUFFICES ASSUME k + 1 <= n
                 PROVE  k + 1 \in T
      OBVIOUS
    <2>1. k + 1 \in 1..n /\ k \in T /\ (k + 1) - 1 = k
      BY <1>2
    <2> QED BY <2>1
  <1> HIDE DEF U
  <1>3. Nat \subseteq U
    BY <1>1, <1>2, Induction
  <1> QED BY <1>3 DEF U

-----------------------------------------------------------------------------
(* Types.                                                                    *)

UnitValue == (Values \cup {Nothing}) \X Nat
CellValue == [bucket : Int, offset : Int, length : Nat, text : Values \cup {Nothing}]
CellsValue == [1..RowsPerBucket -> [Columns -> CellValue]]
BucketValue == [cells : CellsValue, used : Int, nDeleted : Int, next : Int,
                data : [Places -> UnitValue]]
PartValue == [used : Int, nDeleted : Int, next : Int, data : [Places -> UnitValue]]
Files == UNION {[S -> BucketValue] : S \in SUBSET Nat}
StoreValue == [file : Files, current : Int, used : Int, nDeleted : Int, next : Int,
               data : [Places -> UnitValue], changed : BOOLEAN, last : Int]

\* What a string bucket is to the handler, in the file or in its copy.
Part(x) == [used |-> x.used, nDeleted |-> x.nDeleted, next |-> x.next, data |-> x.data]
View(s, b) == IF b = s.current THEN Part(s) ELSE Part(s.file[b])

\* All string buckets, where those of D are data buckets.
Views(s, D) == [b \in DOMAIN s.file \ D |-> View(s, b)]

Handler(s, D) ==
    /\ s \in StoreValue
    /\ IsFiniteSet(DOMAIN s.file)
    /\ D \subseteq DOMAIN s.file
    /\ s.current \in (DOMAIN s.file \ D) \cup {-1}
    /\ s.last \in (DOMAIN s.file \ D) \cup {-1}
    /\ s.changed => s.current # -1

\* A clean copy is that of the file.
Written(s) ==
    s.current # -1 /\ ~s.changed => Part(s.file[s.current]) = Part(s)

\* A step that changes only what the handler has in its copy.
Same(s, t, D) ==
    /\ DOMAIN t.file = DOMAIN s.file
    /\ Views(t, D) = Views(s, D)
    /\ \A b \in D : t.file[b] = s.file[b]
    /\ t.last = s.last

LEMMA BucketLengthIs == BucketLength \in Nat /\ BucketLength > 0 /\ NearlyFull \in Nat
    /\ NearlyFull > 0 /\ BucketLength >= NearlyFull /\ ShortLength \in Nat
  BY StringBucketsAssumption

LEMMA FileIs ==
    ASSUME NEW s \in StoreValue
    PROVE  /\ DOMAIN s.file \subseteq Nat
           /\ s.file \in [DOMAIN s.file -> BucketValue]
           /\ \A b \in DOMAIN s.file : s.file[b] \in BucketValue
           /\ -1 \notin DOMAIN s.file
  <1>1. PICK S \in SUBSET Nat : s.file \in [S -> BucketValue]
    BY DEF StoreValue, Files
  <1>2. DOMAIN s.file = S
    BY <1>1
  <1>3. s.file \in [DOMAIN s.file -> BucketValue]
    BY <1>1, <1>2
  <1>4. \A b \in DOMAIN s.file : s.file[b] \in BucketValue
    BY <1>3
  <1>5. -1 \notin S
    OBVIOUS
  <1> QED BY <1>2, <1>3, <1>4, <1>5

LEMMA FilesAre ==
    ASSUME NEW S \in SUBSET Nat, NEW f \in [S -> BucketValue]
    PROVE  f \in Files
  BY DEF Files

LEMMA PartType ==
    ASSUME NEW s \in StoreValue
    PROVE  /\ Part(s) \in PartValue
           /\ \A b \in DOMAIN s.file : Part(s.file[b]) \in PartValue
           /\ \A b \in DOMAIN s.file : View(s, b) \in PartValue
  <1>1. Part(s) \in PartValue
    BY DEF StoreValue, Part, PartValue
  <1>2. \A b \in DOMAIN s.file : Part(s.file[b]) \in PartValue
    BY FileIs DEF BucketValue, Part, PartValue
  <1> QED BY <1>1, <1>2 DEF View

LEMMA ViewsType ==
    ASSUME NEW s \in StoreValue, NEW D
    PROVE  /\ Views(s, D) \in [DOMAIN s.file \ D -> PartValue]
           /\ \A b \in DOMAIN s.file \ D : Views(s, D)[b] = View(s, b)
           /\ DOMAIN Views(s, D) = DOMAIN s.file \ D
  BY PartType DEF Views

-----------------------------------------------------------------------------
(* The handler's copy.                                                       *)

LEMMA FlushIs ==
    ASSUME NEW s, NEW D, Handler(s, D), Written(s)
    PROVE  /\ Handler(FlushBucket(s), D) /\ Written(FlushBucket(s))
           /\ Same(s, FlushBucket(s), D)
           /\ ~FlushBucket(s).changed
           /\ FlushBucket(s).current = s.current /\ Part(FlushBucket(s)) = Part(s)
           /\ \A b \in DOMAIN s.file \ D : Part(FlushBucket(s).file[b]) = View(s, b)
  <1> DEFINE t == FlushBucket(s)
             c == s.current
  <1>1. CASE ~s.changed
    <2>1. t = s
      BY <1>1 DEF FlushBucket
    <2>2. \A b \in DOMAIN s.file \ D : Part(s.file[b]) = View(s, b)
      BY <1>1, FileIs DEF View, Written, Handler
    <2> QED BY <1>1, <2>1, <2>2 DEF Same
  <1>2. CASE s.changed
    <2>1. c \in DOMAIN s.file \ D /\ s.file \in [DOMAIN s.file -> BucketValue]
          /\ DOMAIN s.file \subseteq Nat
      BY <1>2, FileIs DEF Handler
    <2> DEFINE new == [s.file[c] EXCEPT !.used = s.used, !.nDeleted = s.nDeleted,
                                        !.next = s.next, !.data = s.data]
               f == [s.file EXCEPT ![c] = new]
    <2>2. s.file[c] \in BucketValue
      BY <2>1
    <2>3. new \in BucketValue /\ Part(new) = Part(s)
      BY <2>2 DEF BucketValue, Part, Handler, StoreValue
    <2>4. t = [s EXCEPT !.changed = FALSE, !.file = f]
      <3>1. t = [s EXCEPT !.changed = FALSE, !.file = t.file]
        <4>1. s = [file |-> s.file, current |-> s.current, used |-> s.used,
                   nDeleted |-> s.nDeleted, next |-> s.next, data |-> s.data,
                   changed |-> s.changed, last |-> s.last]
          BY DEF Handler, StoreValue
        <4>2. t = [file |-> t.file, current |-> t.current, used |-> t.used,
                   nDeleted |-> t.nDeleted, next |-> t.next, data |-> t.data,
                   changed |-> t.changed, last |-> t.last]
          BY <1>2, <4>1 DEF FlushBucket
        <4>3. /\ t.current = s.current /\ t.used = s.used /\ t.nDeleted = s.nDeleted
              /\ t.next = s.next /\ t.data = s.data /\ t.changed = FALSE
              /\ t.last = s.last
          BY <1>2, <4>1 DEF FlushBucket
        <4> HIDE DEF t
        <4> QED BY <4>1, <4>2, <4>3
      <3>2. t.file = f
        BY <1>2, <2>1, <2>2 DEF FlushBucket, Handler, StoreValue, BucketValue
      <3> QED BY <3>1, <3>2
    <2> HIDE DEF new
    <2>5. f \in [DOMAIN s.file -> BucketValue] /\ f \in Files
      BY <2>1, <2>3, FilesAre
    <2>6. f[c] = new /\ \A b \in DOMAIN s.file \ {c} : f[b] = s.file[b]
      BY <2>1
    <2> HIDE DEF f, t
    <2>7. /\ t \in StoreValue /\ t.file = f /\ t.changed = FALSE
          /\ t.current = c /\ t.last = s.last /\ Part(t) = Part(s)
      BY <2>4, <2>5 DEF Handler, StoreValue, Part
    <2>8. DOMAIN t.file = DOMAIN s.file
      BY <2>5, <2>7
    <2>9. Handler(t, D)
      BY <2>1, <2>7, <2>8 DEF Handler
    <2>10. Written(t)
      BY <2>3, <2>6, <2>7 DEF Written
    <2>11. \A b \in DOMAIN s.file \ D : View(t, b) = View(s, b)
                                     /\ Part(t.file[b]) = View(s, b)
      BY <2>3, <2>6, <2>7 DEF View
    <2>12. Views(t, D) = Views(s, D)
      BY <2>8, <2>11 DEF Views
    <2>13. \A b \in D : t.file[b] = s.file[b]
      BY <2>1, <2>6, <2>7 DEF Handler
    <2> QED BY <2>7, <2>8, <2>9, <2>10, <2>11, <2>12, <2>13 DEF Same, t
  <1> QED BY <1>1, <1>2

LEMMA GetIs ==
    ASSUME NEW s, NEW D, Handler(s, D), Written(s), NEW b \in DOMAIN s.file \ D
    PROVE  /\ Handler(GetBucket(s, b), D) /\ Written(GetBucket(s, b))
           /\ Same(s, GetBucket(s, b), D)
           /\ GetBucket(s, b).current = b /\ Part(GetBucket(s, b)) = View(s, b)
  <1> DEFINE f == FlushBucket(s)
             t == GetBucket(s, b)
  <1>1. /\ Handler(f, D) /\ Same(s, f, D) /\ ~f.changed
        /\ \A c \in DOMAIN s.file \ D : Part(f.file[c]) = View(s, c)
    BY FlushIs
  <1>2. f \in StoreValue /\ DOMAIN f.file = DOMAIN s.file /\ b \in DOMAIN f.file
        /\ f.file[b] \in BucketValue
    BY <1>1, FileIs DEF Handler, Same
  <1> HIDE DEF f
  <1>3. t = [f EXCEPT !.current = b, !.used = f.file[b].used, !.data = f.file[b].data,
                      !.nDeleted = f.file[b].nDeleted, !.next = f.file[b].next]
    BY <1>2 DEF GetBucket, InFile, f
  <1> HIDE DEF t
  <1>4. /\ t \in StoreValue /\ t.file = f.file /\ t.changed = f.changed /\ t.current = b
        /\ t.last = f.last /\ Part(t) = Part(f.file[b])
    <2>1. b \in Int
      BY <1>2, FileIs
    <2> QED BY <1>2, <1>3, <2>1 DEF StoreValue, BucketValue, Part
  <1>5. Handler(t, D)
    BY <1>1, <1>2, <1>4 DEF Handler
  <1>6. Written(t)
    BY <1>4 DEF Written
  <1>7. \A c \in DOMAIN s.file \ D : View(t, c) = View(s, c)
    BY <1>1, <1>4 DEF View
  <1>8. Views(t, D) = Views(s, D)
    BY <1>2, <1>4, <1>7 DEF Views
  <1> QED BY <1>1, <1>2, <1>4, <1>5, <1>6, <1>7, <1>8 DEF Same, t

LEMMA WithIs ==
    ASSUME NEW s, NEW D, Handler(s, D), Written(s), NEW b \in DOMAIN s.file \ D
    PROVE  /\ Handler(WithCurrent(s, b), D) /\ Written(WithCurrent(s, b))
           /\ Same(s, WithCurrent(s, b), D)
           /\ WithCurrent(s, b).current = b /\ Part(WithCurrent(s, b)) = View(s, b)
  <1>1. CASE s.current = b
    BY <1>1 DEF WithCurrent, Same, View
  <1>2. CASE s.current # b
    BY <1>2, GetIs DEF WithCurrent
  <1> QED BY <1>1, <1>2

LEMMA LeastFreeIs ==
    ASSUME NEW s \in StoreValue, IsFiniteSet(DOMAIN s.file)
    PROVE  LeastFree(s) \in Nat /\ LeastFree(s) \notin DOMAIN s.file
  <1> DEFINE S == DOMAIN s.file
             free == (0..Cardinality(S)) \ S
  <1>1. Cardinality(S) \in Nat
    BY FS_CardinalityType
  <1>2. free # {}
    <2> SUFFICES ASSUME 0..Cardinality(S) \subseteq S
                 PROVE  FALSE
      OBVIOUS
    <2>1. Cardinality(0..Cardinality(S)) <= Cardinality(S)
      BY FS_Subset
    <2>2. Cardinality(0..Cardinality(S)) = Cardinality(S) + 1
      BY <1>1, FS_Interval
    <2> QED BY <1>1, <2>1, <2>2
  <1>3. free \in SUBSET Nat
    BY <1>1
  <1>4. \E x \in free : \A y \in free : x <= y
    BY <1>2, <1>3, Least
  <1>5. LeastFree(s) = Min(free)
    BY DEF LeastFree
  <1>6. Min(free) \in free
    <2> HIDE DEF free
    <2> QED BY <1>4, Zenon DEF Min
  <1> QED BY <1>3, <1>5, <1>6

FreshPart == [used |-> 0, nDeleted |-> BucketLength, next |-> -1, data |-> NoData]

\* t is s with a new bucket b, of the given part.
Grown(s, t, D, b, part) ==
    /\ b \in Nat \ DOMAIN s.file
    /\ DOMAIN t.file = DOMAIN s.file \cup {b}
    /\ Views(t, D) = [c \in (DOMAIN s.file \ D) \cup {b} |->
                        IF c = b THEN part ELSE Views(s, D)[c]]
    /\ \A c \in D : t.file[c] = s.file[c]

LEMMA NoDataIs == NoData \in [Places -> UnitValue]
  BY DEF NoData, Zero, UnitValue

LEMMA EmptyCellIs == EmptyCell \in CellValue
  BY DEF EmptyCell, CellValue

LEMMA ZeroBucketIs == ZeroBucket \in BucketValue
  <1>1. [i \in Places |-> Zero] \in [Places -> UnitValue]
    BY NoDataIs DEF NoData
  <1> QED BY <1>1, EmptyCellIs DEF ZeroBucket, BucketValue, CellsValue

LEMMA WithBucketIs ==
    ASSUME NEW s \in StoreValue, IsFiniteSet(DOMAIN s.file), NEW b \in Nat \ DOMAIN s.file
    PROVE  /\ WithBucket(s, b) \in StoreValue
           /\ IsFiniteSet(DOMAIN WithBucket(s, b).file)
           /\ DOMAIN WithBucket(s, b).file = DOMAIN s.file \cup {b}
           /\ WithBucket(s, b).file[b] = ZeroBucket
           /\ \A c \in DOMAIN s.file : WithBucket(s, b).file[c] = s.file[c]
           /\ WithBucket(s, b) = [s EXCEPT !.file = WithBucket(s, b).file]
  <1> DEFINE f == [c \in DOMAIN s.file \cup {b} |-> IF c = b THEN ZeroBucket ELSE s.file[c]]
  <1>1. WithBucket(s, b) = [s EXCEPT !.file = f] /\ WithBucket(s, b).file = f
    BY DEF WithBucket, StoreValue
  <1>2. \A c \in DOMAIN s.file \cup {b} : f[c] \in BucketValue
    BY FileIs, ZeroBucketIs
  <1>3. f \in [DOMAIN s.file \cup {b} -> BucketValue] /\ DOMAIN s.file \cup {b} \in SUBSET Nat
    BY <1>2, FileIs
  <1>4. f \in Files
    BY <1>3, FilesAre
  <1>5. IsFiniteSet(DOMAIN s.file \cup {b})
    BY FS_AddElement
  <1> HIDE DEF f
  <1>6. [s EXCEPT !.file = f] \in StoreValue
    BY <1>4 DEF StoreValue
  <1>7. DOMAIN f = DOMAIN s.file \cup {b}
    BY <1>3
  <1>8. f[b] = ZeroBucket /\ \A c \in DOMAIN s.file : f[c] = s.file[c]
    BY DEF f
  <1> QED BY <1>1, <1>5, <1>6, <1>7, <1>8

LEMMA NewIs ==
    ASSUME NEW s, NEW D, Handler(s, D), Written(s)
    PROVE  LET b == LeastFree(s)
               t == GetNewBucket(s, FALSE)
           IN  /\ Handler(t, D) /\ Grown(s, t, D, b, FreshPart)
               /\ t.current = b /\ t.last = b /\ Part(t) = FreshPart
               /\ t.changed = FALSE /\ Part(t.file[b]) = Part(ZeroBucket)
  <1> DEFINE b == LeastFree(s)
             w == WithBucket(s, b)
             f == FlushBucket(w)
             t == GetNewBucket(s, FALSE)
  <1>1. b \in Nat \ DOMAIN s.file
    BY LeastFreeIs DEF Handler
  <1> HIDE DEF b
  <1>2. /\ w \in StoreValue /\ IsFiniteSet(DOMAIN w.file)
        /\ DOMAIN w.file = DOMAIN s.file \cup {b} /\ w.file[b] = ZeroBucket
        /\ \A c \in DOMAIN s.file : w.file[c] = s.file[c]
        /\ w = [s EXCEPT !.file = w.file]
    BY <1>1, WithBucketIs DEF Handler
  <1> HIDE DEF w
  <1>3. /\ w.current = s.current /\ w.changed = s.changed /\ w.last = s.last
        /\ Part(w) = Part(s)
    BY <1>2 DEF Handler, StoreValue, Part
  <1>4. Handler(w, D) /\ Written(w)
    BY <1>2, <1>3 DEF Handler, Written
  <1>5. \A c \in DOMAIN s.file \ D : View(w, c) = View(s, c)
    BY <1>2, <1>3 DEF View
  <1>6. /\ Handler(f, D) /\ Same(w, f, D) /\ ~f.changed
        /\ \A c \in DOMAIN w.file \ D : Part(f.file[c]) = View(w, c)
    BY <1>4, FlushIs
  <1> HIDE DEF f
  <1>7. t = [f EXCEPT !.current = b, !.used = 0, !.nDeleted = BucketLength,
                      !.next = -1, !.last = b, !.data = NoData]
    BY DEF GetNewBucket, f, w, b
  <1>8. f \in StoreValue /\ b \in Int
    BY <1>1, <1>6 DEF Handler
  <1> HIDE DEF t
  <1>9. /\ t \in StoreValue /\ t.file = f.file /\ t.changed = f.changed /\ t.current = b
        /\ t.last = b /\ Part(t) = FreshPart
    <2>1. t = [file |-> f.file, current |-> b, used |-> 0, nDeleted |-> BucketLength,
               next |-> -1, data |-> NoData, changed |-> f.changed, last |-> b]
      BY <1>7, <1>8 DEF StoreValue
    <2>2. f.file \in Files /\ f.changed \in BOOLEAN /\ -1 \in Int /\ BucketLength \in Int
      BY <1>8, BucketLengthIs DEF StoreValue
    <2>3. t \in StoreValue
      BY <1>8, <2>1, <2>2, NoDataIs DEF StoreValue
    <2>4. Part(t) = FreshPart
      BY <2>1 DEF Part, FreshPart
    <2> QED BY <2>1, <2>3, <2>4
  <1>10. b \notin D /\ DOMAIN t.file = DOMAIN s.file \cup {b} /\ f.changed = FALSE
    BY <1>1, <1>2, <1>6, <1>8, <1>9 DEF Handler, Same, StoreValue
  <1>11. Handler(t, D)
    BY <1>2, <1>4, <1>9, <1>10 DEF Handler
  <1>12. \A c \in DOMAIN s.file \ D : View(t, c) = View(s, c)
    BY <1>1, <1>2, <1>5, <1>6, <1>9 DEF View
  <1>13. View(t, b) = FreshPart
    BY <1>9 DEF View
  <1>14. Views(t, D) = [c \in (DOMAIN s.file \ D) \cup {b} |->
                            IF c = b THEN FreshPart ELSE Views(s, D)[c]]
    BY <1>1, <1>10, <1>12, <1>13 DEF Views
  <1>15. \A c \in D : t.file[c] = s.file[c]
    BY <1>2, <1>6, <1>9, <1>4 DEF Same, Handler
  <1>16. Part(t.file[b]) = Part(ZeroBucket)
    <2>1. b # w.current /\ b \in DOMAIN w.file \ D
      BY <1>1, <1>2, <1>3, <1>10, FileIs DEF Handler
    <2>2. View(w, b) = Part(w.file[b])
      BY <2>1 DEF View
    <2>3. Part(f.file[b]) = View(w, b)
      BY <1>6, <2>1
    <2> QED BY <1>2, <1>9, <2>2, <2>3
  <1> QED BY <1>1, <1>9, <1>10, <1>11, <1>14, <1>15, <1>16 DEF Grown, t, b

\* A bucket is left as it is but for its part, which is now to be written.
Edited(s, t, part) ==
    /\ t \in StoreValue
    /\ t.file = s.file /\ t.current = s.current /\ t.last = s.last /\ t.changed = TRUE
    /\ Part(t) = part

LEMMA EditIs ==
    ASSUME NEW s, NEW D, Handler(s, D), s.current # -1, NEW t, NEW part, Edited(s, t, part)
    PROVE  /\ Handler(t, D) /\ Written(t)
           /\ s.current \in DOMAIN s.file \ D /\ part \in PartValue
           /\ Views(t, D) = [Views(s, D) EXCEPT ![s.current] = part]
  <1>1. Handler(t, D) /\ Written(t) /\ s.current \in DOMAIN s.file \ D
    BY DEF Handler, Edited, Written
  <1>2. part \in PartValue
    BY PartType DEF Edited
  <1>3. \A b \in DOMAIN s.file \ D :
            View(t, b) = IF b = s.current THEN part ELSE View(s, b)
    BY DEF View, Edited
  <1>4. Views(t, D) = [b \in DOMAIN s.file \ D |->
                        IF b = s.current THEN part ELSE View(s, b)]
    BY <1>3 DEF Views, Edited
  <1>5. [Views(s, D) EXCEPT ![s.current] = part]
            = [b \in DOMAIN s.file \ D |-> IF b = s.current THEN part ELSE View(s, b)]
    BY <1>1 DEF Views
  <1> QED BY <1>1, <1>2, <1>4, <1>5

\* t is s without its current bucket.
Shrunk(s, t, D, b) ==
    /\ b \in DOMAIN s.file \ D
    /\ Handler(t, D) /\ Written(t) /\ t.current = -1 /\ t.next = -1
    /\ DOMAIN t.file = DOMAIN s.file \ {b}
    /\ Views(t, D) = [c \in (DOMAIN s.file \ D) \ {b} |-> Views(s, D)[c]]
    /\ \A c \in D : t.file[c] = s.file[c]

LEMMA GivenBackIs ==
    ASSUME NEW s, NEW D, Handler(s, D), s.current # -1
    PROVE  Shrunk(s, GivenBack(s), D, s.current)
  <1> DEFINE b == s.current
             f == [c \in DOMAIN s.file \ {b} |-> s.file[c]]
             t == GivenBack(s)
  <1>1. b \in DOMAIN s.file \ D /\ s \in StoreValue /\ b # -1
    BY DEF Handler
  <1>2. /\ f \in [DOMAIN s.file \ {b} -> BucketValue]
        /\ DOMAIN s.file \ {b} \in SUBSET Nat
    BY <1>1, FileIs
  <1>3. f \in Files
    BY <1>2, FilesAre
  <1>4. IsFiniteSet(DOMAIN s.file \ {b})
    BY FS_Subset DEF Handler
  <1>5. t = [s EXCEPT !.file = f, !.current = -1, !.used = 0, !.nDeleted = 0, !.next = -1,
                      !.data = NoData, !.changed = FALSE,
                      !.last = IF s.last = b THEN -1 ELSE s.last]
    BY <1>1 DEF GivenBack, NoCurrent, WithoutBucket, StoreValue
  <1>6. DOMAIN f = DOMAIN s.file \ {b} /\ \A c \in DOMAIN s.file \ {b} : f[c] = s.file[c]
    OBVIOUS
  <1> HIDE DEF f, t
  <1>7. /\ t \in StoreValue /\ t.file = f /\ t.current = -1 /\ t.next = -1
        /\ t.changed = FALSE /\ t.last = IF s.last = b THEN -1 ELSE s.last
    <2>1. t = [file |-> f, current |-> -1, used |-> 0, nDeleted |-> 0,
               next |-> -1, data |-> NoData, changed |-> FALSE,
               last |-> IF s.last = b THEN -1 ELSE s.last]
      BY <1>1, <1>5 DEF StoreValue
    <2>2. -1 \in Int /\ s.last \in Int
      BY <1>1 DEF StoreValue
    <2>3. t \in StoreValue
      BY <1>3, <2>1, <2>2, NoDataIs DEF StoreValue
    <2> QED BY <2>1, <2>3
  <1>8. D \subseteq DOMAIN f /\ DOMAIN t.file = DOMAIN f
    BY <1>1, <1>6, <1>7 DEF Handler
  <1>9. Handler(t, D)
    BY <1>4, <1>6, <1>7, <1>8 DEF Handler
  <1>10. Written(t)
    BY <1>7 DEF Written
  <1>11. \A c \in (DOMAIN s.file \ D) \ {b} : View(t, c) = View(s, c)
    <2> SUFFICES ASSUME NEW c \in (DOMAIN s.file \ D) \ {b}
                 PROVE  View(t, c) = View(s, c)
      OBVIOUS
    <2>1. c # -1
      BY <1>1, FileIs
    <2> QED BY <1>6, <1>7, <2>1 DEF View
  <1>12. Views(t, D) = [c \in (DOMAIN s.file \ D) \ {b} |-> Views(s, D)[c]]
    BY <1>6, <1>8, <1>11 DEF Views
  <1>13. \A c \in D : t.file[c] = s.file[c]
    BY <1>1, <1>6, <1>7 DEF Handler
  <1> QED BY <1>1, <1>6, <1>7, <1>8, <1>9, <1>10, <1>12, <1>13 DEF Shrunk, t

-----------------------------------------------------------------------------
(* Where the units of the values are.  V has the parts of the string buckets,   *)
(* at[x][k] is the place of unit k of the value x.                              *)

LiveIn(at, b) ==
    {i \in Places : \E x \in DOMAIN at : \E k \in DOMAIN at[x] : at[x][k] = <<b, i>>}

Follow(V, place) ==
    IF place[2] + 1 < BucketLength THEN <<place[1], place[2] + 1>>
    ELSE <<V[place[1]].next, 0>>

PlacesUsed(V, at) ==
    \A x \in DOMAIN at : \A k \in DOMAIN at[x] :
        /\ k \in Nat
        /\ at[x][k] = <<at[x][k][1], at[x][k][2]>>
        /\ at[x][k][1] \in DOMAIN V /\ at[x][k][2] \in Places
        /\ at[x][k][2] < V[at[x][k][1]].used
Linked(V, at) ==
    \A x \in DOMAIN at : \A k \in DOMAIN at[x] :
        k + 1 \in DOMAIN at[x] => at[x][k + 1] = Follow(V, at[x][k])
Apart(at) ==
    \A x, y \in DOMAIN at : \A j \in DOMAIN at[x], k \in DOMAIN at[y] :
        at[x][j] = at[y][k] => x = y /\ j = k
UsedFits(V) == \A b \in DOMAIN V : V[b].used \in 0..BucketLength

Laid(V, at) ==
    PlacesUsed(V, at) /\ Linked(V, at) /\ Apart(at) /\ UsedFits(V)

\* The header counts what is not live, or less when setShape may leave a bucket
\* without a header.
CountedIn(V, at, b) ==
    /\ V[b].nDeleted + Cardinality(LiveIn(at, b)) <= BucketLength
    /\ ShapeOnce => V[b].nDeleted + Cardinality(LiveIn(at, b)) = BucketLength
Counted(V, at) == \A b \in DOMAIN V : CountedIn(V, at, b)

\* No bucket is empty, except those of E.
Full(V, at, E) == ShapeOnce => \A b \in DOMAIN V \ E : LiveIn(at, b) # {}

\* A function a..b with more to come.
Longer(f, m, n, b, u) ==
    [k \in 1..(m + n) |-> IF k <= m THEN f[k] ELSE <<b, u + k - m - 1>>]

LEMMA PlacesAre == Places = 0..(BucketLength - 1) /\ IsFiniteSet(Places)
                   /\ Cardinality(Places) = BucketLength
  <1>1. IsFiniteSet(0..(BucketLength - 1))
        /\ Cardinality(0..(BucketLength - 1)) = BucketLength
    BY FS_Interval, BucketLengthIs
  <1> QED BY <1>1 DEF Places

LEMMA LiveIs ==
    ASSUME NEW at, NEW b
    PROVE  /\ LiveIn(at, b) \subseteq Places /\ IsFiniteSet(LiveIn(at, b))
           /\ Cardinality(LiveIn(at, b)) \in 0..BucketLength
           /\ Cardinality(LiveIn(at, b)) = 0 <=> LiveIn(at, b) = {}
  <1>1. LiveIn(at, b) \subseteq Places
    BY DEF LiveIn
  <1>2. IsFiniteSet(LiveIn(at, b)) /\ Cardinality(LiveIn(at, b)) <= BucketLength
    BY <1>1, PlacesAre, FS_Subset
  <1>3. Cardinality(LiveIn(at, b)) \in Nat
    BY <1>2, FS_CardinalityType
  <1> QED BY <1>1, <1>2, <1>3, FS_EmptySet, BucketLengthIs

LEMMA MoreLive ==
    ASSUME NEW S, IsFiniteSet(S), NEW u \in Nat, NEW n \in Nat,
           \A i \in S : ~(i \in u..(u + n - 1))
    PROVE  Cardinality(S \cup (u..(u + n - 1))) = Cardinality(S) + n
  <1> DEFINE T == u..(u + n - 1)
  <1>1. IsFiniteSet(T) /\ Cardinality(T) = n
    <2>1. u + n - 1 \in Int /\ (u > u + n - 1 => n = 0) /\ (u + n - 1) - u + 1 = n
      OBVIOUS
    <2> QED BY <2>1, FS_Interval
  <1>2. S \cap T = {}
    OBVIOUS
  <1> HIDE DEF T
  <1>3. Cardinality(S \cup T) = Cardinality(S) + Cardinality(T) - Cardinality(S \cap T)
    BY <1>1, FS_Union
  <1>4. Cardinality(S) \in Nat /\ Cardinality(S \cap T) = 0
    BY <1>2, FS_CardinalityType, FS_EmptySet
  <1>5. Cardinality(S \cup T) = Cardinality(S) + n
    BY <1>1, <1>3, <1>4
  <1> QED BY <1>5 DEF T

LEMMA LessLive ==
    ASSUME NEW S, IsFiniteSet(S), NEW u \in Nat, NEW n \in Nat, u..(u + n - 1) \subseteq S
    PROVE  Cardinality(S \ (u..(u + n - 1))) = Cardinality(S) - n
  <1> DEFINE T == u..(u + n - 1)
  <1>1. IsFiniteSet(T) /\ Cardinality(T) = n
    <2>1. u + n - 1 \in Int /\ (u > u + n - 1 => n = 0) /\ (u + n - 1) - u + 1 = n
      OBVIOUS
    <2> QED BY <2>1, FS_Interval
  <1>2. S \cap T = T
    OBVIOUS
  <1> HIDE DEF T
  <1>3. Cardinality(S \ T) = Cardinality(S) - Cardinality(S \cap T)
    BY FS_Difference
  <1>4. Cardinality(S \ T) = Cardinality(S) - n
    BY <1>1, <1>2, <1>3
  <1> QED BY <1>4 DEF T

\* The parts of string buckets.
IsParts(V) == DOMAIN V \in SUBSET Nat /\ V \in [DOMAIN V -> PartValue]

LEMMA PartsAre ==
    ASSUME NEW V, IsParts(V)
    PROVE  \A b \in DOMAIN V : V[b] \in PartValue /\ b \in Nat
  BY DEF IsParts

LEMMA PartsEdited ==
    ASSUME NEW V, IsParts(V), NEW b \in DOMAIN V, NEW p, p \in PartValue,
           NEW V2, V2 = [V EXCEPT ![b] = p]
    PROVE  /\ IsParts(V2) /\ DOMAIN V2 = DOMAIN V /\ V2[b] = p
           /\ \A c \in DOMAIN V : c # b => V2[c] = V[c]
  BY DEF IsParts

\* What Laid says of one place.
LEMMA PlaceIs ==
    ASSUME NEW V, IsParts(V), NEW at, PlacesUsed(V, at),
           NEW y \in DOMAIN at, NEW k \in DOMAIN at[y]
    PROVE  /\ k \in Nat
           /\ at[y][k] = <<at[y][k][1], at[y][k][2]>>
           /\ at[y][k][1] \in DOMAIN V /\ at[y][k][2] \in Places /\ at[y][k][2] \in Nat
           /\ at[y][k][2] < BucketLength
           /\ at[y][k][2] < V[at[y][k][1]].used /\ V[at[y][k][1]].used \in Int
  <1> DEFINE B == DOMAIN V
  <1>0. \A b \in B : V[b] \in PartValue /\ b \in Nat
    BY PartsAre
  <1>1. DOMAIN V = B
    OBVIOUS
  <1>2. /\ k \in Nat /\ at[y][k] = <<at[y][k][1], at[y][k][2]>>
        /\ at[y][k][1] \in B /\ at[y][k][2] \in Places
        /\ at[y][k][2] < V[at[y][k][1]].used
    BY <1>1 DEF PlacesUsed
  <1>3. V[at[y][k][1]].used \in Int
    BY <1>0, <1>2 DEF PartValue
  <1>4. at[y][k][2] \in Nat /\ at[y][k][2] < BucketLength
    BY <1>2, BucketLengthIs DEF Places
  <1> QED BY <1>2, <1>3, <1>4

LEMMA LongerIs ==
    ASSUME NEW f, NEW m \in Nat, NEW n \in Nat, NEW b, NEW u \in Nat
    PROVE  /\ DOMAIN Longer(f, m, n, b, u) = 1..(m + n)
           /\ \A k \in 1..(m + n) : k <= m => Longer(f, m, n, b, u)[k] = f[k]
           /\ \A k \in 1..(m + n) : k > m =>
                Longer(f, m, n, b, u)[k] = <<b, u + k - m - 1>>
  BY DEF Longer

\* Units are put behind those of a value that are there.
PutHere(V, at, x, b, n, m, p, V2, at2) ==
    /\ x \in DOMAIN at /\ b \in DOMAIN V
    /\ m \in Nat /\ DOMAIN at[x] = 1..m
    /\ m > 0 => Follow(V, at[x][m]) = <<b, V[b].used>>
    /\ n \in Nat /\ V[b].used + n <= BucketLength
    /\ p \in PartValue /\ p.used = V[b].used + n
    /\ p.nDeleted = V[b].nDeleted - n /\ p.next = V[b].next
    /\ V2 = [V EXCEPT ![b] = p]
    /\ at2 = [at EXCEPT ![x] = Longer(at[x], m, n, b, V[b].used)]

LEMMA PutLive ==
    ASSUME NEW V, IsParts(V), NEW at, Laid(V, at),
           NEW x, NEW b, NEW n, NEW m, NEW p, NEW V2, NEW at2,
           PutHere(V, at, x, b, n, m, p, V2, at2)
    PROVE  /\ \A c \in DOMAIN V \ {b} : LiveIn(at2, c) = LiveIn(at, c)
           /\ LiveIn(at2, b) = LiveIn(at, b) \cup (V[b].used..(V[b].used + n - 1))
           /\ Cardinality(LiveIn(at2, b)) = Cardinality(LiveIn(at, b)) + n
  <1> DEFINE B == DOMAIN V
  <1>0. \A c \in B : V[c] \in PartValue /\ c \in Nat
    BY PartsAre
  <1> DEFINE u == V[b].used
             g == Longer(at[x], m, n, b, u)
  <1>1. /\ x \in DOMAIN at /\ b \in B /\ m \in Nat /\ n \in Nat /\ u \in Nat
        /\ DOMAIN at[x] = 1..m /\ u + n <= BucketLength
    BY DEF PutHere, Laid, UsedFits
  <1>2. /\ DOMAIN at2 = DOMAIN at /\ at2[x] = g
        /\ \A y \in DOMAIN at : y # x => at2[y] = at[y]
    BY <1>1 DEF PutHere
  <1>3. /\ DOMAIN g = 1..(m + n)
        /\ \A k \in 1..(m + n) : k <= m => g[k] = at[x][k]
        /\ \A k \in 1..(m + n) : k > m => g[k] = <<b, u + k - m - 1>>
    <2> HIDE DEF u
    <2> QED BY <1>1 DEF Longer
  <1> HIDE DEF u, g
  <1>4. ASSUME NEW c, NEW i \in Places
        PROVE  i \in LiveIn(at2, c) <=>
                i \in LiveIn(at, c) \/ (c = b /\ i \in u..(u + n - 1))
    <2>1. ASSUME i \in LiveIn(at, c)
          PROVE  i \in LiveIn(at2, c)
      <3>1. PICK y \in DOMAIN at : \E k \in DOMAIN at[y] : at[y][k] = <<c, i>>
        BY <2>1 DEF LiveIn
      <3>2. PICK k \in DOMAIN at[y] : at[y][k] = <<c, i>>
        BY <3>1
      <3>3. k \in DOMAIN at2[y] /\ at2[y][k] = <<c, i>>
        <4>1. CASE y # x
          BY <1>2, <3>2, <4>1
        <4>2. CASE y = x
          <5>1. k \in 1..m /\ at[x][k] = <<c, i>>
            BY <1>1, <3>2, <4>2
          <5>2. k \in 1..(m + n) /\ k <= m
            BY <1>1, <5>1
          <5>3. g[k] = <<c, i>> /\ k \in DOMAIN g
            BY <1>3, <5>1, <5>2
          <5> QED BY <1>2, <4>2, <5>3
        <4> QED BY <4>1, <4>2
      <3> QED BY <1>2, <3>3 DEF LiveIn
    <2>2. ASSUME c = b, i \in u..(u + n - 1)
          PROVE  i \in LiveIn(at2, c)
      <3>1. m + 1 + (i - u) \in 1..(m + n) /\ m + 1 + (i - u) > m
            /\ u + (m + 1 + (i - u)) - m - 1 = i
        BY <1>1, <2>2
      <3>2. g[m + 1 + (i - u)] = <<b, i>>
        BY <1>3, <3>1
      <3> QED BY <1>1, <1>2, <1>3, <2>2, <3>1, <3>2 DEF LiveIn
    <2>3. ASSUME i \in LiveIn(at2, c), i \notin LiveIn(at, c)
          PROVE  c = b /\ i \in u..(u + n - 1)
      <3>1. PICK y \in DOMAIN at2 : \E k \in DOMAIN at2[y] : at2[y][k] = <<c, i>>
        BY <2>3 DEF LiveIn
      <3>2. PICK k \in DOMAIN at2[y] : at2[y][k] = <<c, i>>
        BY <3>1
      <3>3. y = x
        BY <1>2, <2>3, <3>2 DEF LiveIn
      <3>4. k \in 1..(m + n) /\ g[k] = <<c, i>>
        BY <1>2, <1>3, <3>2, <3>3
      <3>5. k > m
        <4> SUFFICES ASSUME k <= m
                     PROVE  FALSE
          BY <1>1, <3>4
        <4>1. k \in DOMAIN at[x] /\ at[x][k] = <<c, i>>
          BY <1>1, <1>3, <3>4
        <4> QED BY <1>1, <2>3, <4>1 DEF LiveIn
      <3>6. <<c, i>> = <<b, u + k - m - 1>>
        BY <1>3, <3>4, <3>5
      <3>7. c = b /\ i = u + k - m - 1
        BY <3>6
      <3> QED BY <1>1, <3>4, <3>5, <3>7
    <2> QED BY <2>1, <2>2, <2>3
  <1>5. \A c : LiveIn(at2, c) \subseteq Places /\ LiveIn(at, c) \subseteq Places
    BY DEF LiveIn
  <1>6. \A c \in B \ {b} : LiveIn(at2, c) = LiveIn(at, c)
    BY <1>4, <1>5
  <1>7. u..(u + n - 1) \subseteq Places
    BY <1>1, BucketLengthIs DEF Places
  <1>8. LiveIn(at2, b) = LiveIn(at, b) \cup (u..(u + n - 1))
    BY <1>4, <1>5, <1>7
  <1>9. \A i \in LiveIn(at, b) : ~(i \in u..(u + n - 1))
    <2> SUFFICES ASSUME NEW i \in LiveIn(at, b)
                 PROVE  i \in Nat /\ i < u
      BY <1>1
    <2>1. PICK y \in DOMAIN at : \E k \in DOMAIN at[y] : at[y][k] = <<b, i>>
      BY DEF LiveIn
    <2>2. PICK k \in DOMAIN at[y] : at[y][k] = <<b, i>>
      BY <2>1
    <2>3. at[y][k][2] < V[at[y][k][1]].used
      BY <2>2 DEF Laid, PlacesUsed
    <2>4. i < u
      BY <2>2, <2>3 DEF u
    <2> QED BY <1>5, <2>4, BucketLengthIs DEF Places
  <1>10. Cardinality(LiveIn(at, b) \cup (u..(u + n - 1)))
            = Cardinality(LiveIn(at, b)) + n
    BY <1>1, <1>9, MoreLive, LiveIs
  <1> QED BY <1>6, <1>8, <1>10 DEF u

LEMMA PutLaid ==
    ASSUME NEW V, IsParts(V), NEW at, Laid(V, at),
           Counted(V, at),
           NEW x, NEW b, NEW n, NEW m, NEW p, NEW V2, NEW at2,
           PutHere(V, at, x, b, n, m, p, V2, at2)
    PROVE  Laid(V2, at2) /\ Counted(V2, at2)
  <1> DEFINE B == DOMAIN V
  <1>0. \A c \in B : V[c] \in PartValue /\ c \in Nat
    BY PartsAre
  <1> DEFINE u == V[b].used
             g == Longer(at[x], m, n, b, u)
  <1>1. /\ x \in DOMAIN at /\ b \in B /\ m \in Nat /\ n \in Nat /\ u \in Nat
        /\ DOMAIN at[x] = 1..m /\ u + n <= BucketLength
    BY DEF PutHere, Laid, UsedFits
  <1>2. /\ DOMAIN at2 = DOMAIN at /\ at2[x] = g
        /\ \A y \in DOMAIN at : y # x => at2[y] = at[y]
    BY <1>1 DEF PutHere
  <1>3. /\ DOMAIN g = 1..(m + n)
        /\ \A k \in 1..(m + n) : k <= m => g[k] = at[x][k]
        /\ \A k \in 1..(m + n) : k > m => g[k] = <<b, u + k - m - 1>>
    <2> HIDE DEF u
    <2> QED BY <1>1 DEF Longer
  <1>4. /\ DOMAIN V2 = B /\ V2[b] = p /\ \A c \in B : c # b => V2[c] = V[c]
        /\ DOMAIN V = B
    BY <1>1 DEF PutHere
  <1>5. p.used = u + n /\ p.nDeleted = V[b].nDeleted - n /\ p.next = V[b].next
    BY DEF PutHere
  <1>6. m > 0 => Follow(V, at[x][m]) = <<b, u>>
    BY DEF PutHere
  <1>7. \A c \in B : V[c].used \in 0..BucketLength
    BY DEF Laid, UsedFits
  <1> HIDE DEF u, g
  <1>8. ASSUME NEW c \in B
        PROVE  /\ V2[c].next = V[c].next /\ V[c].used <= V2[c].used
               /\ V[c].used \in Int /\ V2[c].used \in 0..BucketLength
    <2>1. CASE c = b
      BY <1>1, <1>4, <1>5, <2>1, BucketLengthIs DEF u
    <2>2. CASE c # b
      <3>1. V2[c] = V[c] /\ V[c].used \in 0..BucketLength
        BY <1>4, <1>7, <2>2
      <3> QED BY <3>1, BucketLengthIs
    <2> QED BY <2>1, <2>2
  <1>9. PlacesUsed(V2, at2)
    <2> DEFINE good(k, place) == /\ k \in Nat /\ place = <<place[1], place[2]>>
                                 /\ place[1] \in B /\ place[2] \in Places
                                 /\ place[2] < V2[place[1]].used
    <2>1. ASSUME NEW y \in DOMAIN at, NEW k \in DOMAIN at[y]
          PROVE  good(k, at[y][k])
      <3>1. /\ k \in Nat /\ at[y][k] = <<at[y][k][1], at[y][k][2]>>
            /\ at[y][k][1] \in B /\ at[y][k][2] \in Places /\ at[y][k][2] \in Nat
            /\ at[y][k][2] < V[at[y][k][1]].used
        BY PlaceIs DEF Laid
      <3>2. V[at[y][k][1]].used <= V2[at[y][k][1]].used /\ V[at[y][k][1]].used \in Int
            /\ V2[at[y][k][1]].used \in Int
        <4> DEFINE c == at[y][k][1]
        <4>1. c \in B
          BY <3>1
        <4> HIDE DEF c
        <4>2. V[c].used <= V2[c].used /\ V[c].used \in Int /\ V2[c].used \in Int
          BY <1>8, <4>1, BucketLengthIs
        <4> QED BY <4>2 DEF c
      <3> QED BY <3>1, <3>2
    <2>2. ASSUME NEW k \in 1..(m + n), k > m
          PROVE  good(k, g[k])
      <3>1. g[k] = <<b, u + k - m - 1>>
        BY <1>3, <2>2
      <3>2. u + k - m - 1 \in Places /\ u + k - m - 1 < u + n
        BY <1>1, <2>2, BucketLengthIs DEF Places
      <3> QED BY <1>1, <1>4, <1>5, <3>1, <3>2
    <2>3. ASSUME NEW y \in DOMAIN at2, NEW k \in DOMAIN at2[y]
          PROVE  good(k, at2[y][k])
      <3>1. CASE y # x \/ k <= m
        <4>1. y \in DOMAIN at /\ k \in DOMAIN at[y] /\ at2[y][k] = at[y][k]
          BY <1>1, <1>2, <1>3, <3>1
        <4> HIDE DEF good
        <4> QED BY <2>1, <4>1
      <3>2. CASE y = x /\ ~(k <= m)
        <4>1. k \in 1..(m + n) /\ k > m /\ at2[y][k] = g[k]
          BY <1>1, <1>2, <1>3, <3>2
        <4> HIDE DEF good
        <4> QED BY <2>2, <4>1
      <3> QED BY <3>1, <3>2
    <2>4. DOMAIN V2 = B
      BY <1>4
    <2> QED BY <2>3, <2>4 DEF PlacesUsed
  <1>10. ASSUME NEW y \in DOMAIN at, NEW k \in DOMAIN at[y]
         PROVE  Follow(V2, at[y][k]) = Follow(V, at[y][k])
    <2>2. at[y][k][1] \in B
      BY PlaceIs DEF Laid
    <2> QED BY <1>8, <2>2 DEF Follow
  <1>11. Linked(V2, at2)
    <2> SUFFICES ASSUME NEW y \in DOMAIN at2, NEW k \in DOMAIN at2[y], k + 1 \in DOMAIN at2[y]
                 PROVE  at2[y][k + 1] = Follow(V2, at2[y][k])
      BY DEF Linked
    <2>1. CASE y # x
      BY <1>2, <1>10, <2>1 DEF Laid, Linked
    <2>2. CASE y = x /\ k + 1 <= m
      <3>1. k \in 1..m /\ k + 1 \in 1..m /\ g[k] = at[x][k] /\ g[k + 1] = at[x][k + 1]
        BY <1>1, <1>2, <1>3, <2>2
      <3>2. at[x][k + 1] = Follow(V, at[x][k])
        BY <1>1, <3>1 DEF Laid, Linked
      <3> QED BY <1>1, <1>2, <1>10, <2>2, <3>1, <3>2
    <2>3. CASE y = x /\ k = m
      <3>1. k \in 1..(m + n) /\ k + 1 \in 1..(m + n)
        BY <1>2, <1>3, <2>3
      <3>3. k \in 1..m /\ g[k] = at[x][m]
        BY <1>1, <1>3, <2>3, <3>1
      <3>4. g[k + 1] = <<b, u + (k + 1) - m - 1>>
        <4> DEFINE j == k + 1
        <4>1. j \in 1..(m + n) /\ j > m
          BY <1>1, <2>3, <3>1
        <4> HIDE DEF j
        <4>2. g[j] = <<b, u + j - m - 1>>
          BY <1>3, <4>1
        <4> QED BY <4>2 DEF j
      <3>5. u + (k + 1) - m - 1 = u
        BY <1>1, <2>3
      <3>6. m > 0 /\ m \in DOMAIN at[x]
        BY <1>1, <2>3, <3>3
      <3>2. Follow(V2, at[x][m]) = <<b, u>>
        BY <1>1, <1>6, <1>10, <3>6
      <3> QED BY <1>2, <2>3, <3>2, <3>3, <3>4, <3>5
    <2>4. CASE y = x /\ k > m
      <3>0. k \in 1..(m + n) /\ k + 1 \in 1..(m + n) /\ k > m /\ k + 1 > m
            /\ u + (k + 1) - m - 1 = u + k - m
        BY <1>1, <1>2, <1>3, <2>4
      <3>01. g[k + 1] = <<b, u + (k + 1) - m - 1>>
        BY <1>3, <3>0
      <3>1. g[k] = <<b, u + k - m - 1>> /\ g[k + 1] = <<b, u + k - m>>
        BY <1>3, <3>0, <3>01
      <3>2. u + k - m - 1 + 1 < BucketLength /\ u + k - m - 1 + 1 = u + k - m
        BY <1>1, <1>2, <1>3, <2>4, BucketLengthIs
      <3>3. Follow(V2, <<b, u + k - m - 1>>) = <<b, u + k - m - 1 + 1>>
        BY <3>2 DEF Follow
      <3> QED BY <1>2, <2>4, <3>1, <3>2, <3>3
    <2>5. y = x => k \in Nat
      BY <1>1, <1>2, <1>3
    <2> QED BY <1>1, <2>1, <2>2, <2>3, <2>4, <2>5
  <1>12. ASSUME NEW k \in 1..(m + n), k > m, NEW y \in DOMAIN at, NEW j \in DOMAIN at[y],
                at[y][j] = g[k]
         PROVE  FALSE
    <2>1. at[y][j] = <<b, u + k - m - 1>>
      BY <1>3, <1>12
    <2>2. at[y][j][2] < V[at[y][j][1]].used
      BY <1>12 DEF Laid, PlacesUsed
    <2>3. u + k - m - 1 < u
      BY <2>1, <2>2 DEF u
    <2> QED BY <1>1, <1>12, <2>3
  <1>13. Apart(at2)
    <2> SUFFICES ASSUME NEW y \in DOMAIN at2, NEW z \in DOMAIN at2, NEW j \in DOMAIN at2[y],
                        NEW k \in DOMAIN at2[z], at2[y][j] = at2[z][k]
                 PROVE  y = z /\ j = k
      BY DEF Apart
    <2> DEFINE old(w, i) == w # x \/ i <= m
    <2>1. ASSUME NEW w \in DOMAIN at2, NEW i \in DOMAIN at2[w], old(w, i)
          PROVE  w \in DOMAIN at /\ i \in DOMAIN at[w] /\ at2[w][i] = at[w][i]
      <3>1. CASE w # x
        BY <1>2, <3>1
      <3>2. CASE w = x /\ i <= m
        <4>1. i \in 1..(m + n) /\ i \in 1..m
          BY <1>1, <1>2, <1>3, <3>2
        <4> QED BY <1>1, <1>2, <1>3, <3>2, <4>1
      <3> QED BY <2>1, <3>1, <3>2
    <2>2. ASSUME NEW w \in DOMAIN at2, NEW i \in DOMAIN at2[w], ~old(w, i)
          PROVE  w = x /\ i \in 1..(m + n) /\ i > m /\ at2[w][i] = g[i]
      BY <1>1, <1>2, <1>3, <2>2
    <2>3. CASE old(y, j) /\ old(z, k)
      BY <2>1, <2>3 DEF Laid, Apart
    <2>4. CASE old(y, j) /\ ~old(z, k)
      BY <1>12, <2>1, <2>2, <2>4
    <2>5. CASE ~old(y, j) /\ old(z, k)
      BY <1>12, <2>1, <2>2, <2>5
    <2>6. CASE ~old(y, j) /\ ~old(z, k)
      <3>1. <<b, u + j - m - 1>> = <<b, u + k - m - 1>>
        BY <1>3, <2>2, <2>6
      <3>2. u + j - m - 1 = u + k - m - 1
        BY <3>1
      <3> QED BY <1>1, <2>2, <2>6, <3>2
    <2> QED BY <2>3, <2>4, <2>5, <2>6
  <1>14. UsedFits(V2)
    BY <1>4, <1>8 DEF UsedFits
  <1>15. Counted(V2, at2)
    <2>1. /\ \A c \in B \ {b} : LiveIn(at2, c) = LiveIn(at, c)
          /\ Cardinality(LiveIn(at2, b)) = Cardinality(LiveIn(at, b)) + n
      BY PutLive
    <2>2. V[b].nDeleted \in Int
      BY <1>0, <1>1 DEF PartValue
    <2>3. CountedIn(V2, at2, b)
      BY <1>1, <1>4, <1>5, <2>1, <2>2, LiveIs DEF Counted, CountedIn
    <2>4. \A c \in B \ {b} : CountedIn(V2, at2, c)
      BY <1>4, <2>1 DEF Counted, CountedIn
    <2> QED BY <1>4, <2>3, <2>4 DEF Counted
  <1> QED BY <1>9, <1>11, <1>13, <1>14, <1>15 DEF Laid

\* Units lo up to lo + n - 1 of a value are removed; they are in one bucket.
CutHere(V, at, x, b, offset, n, lo, hi, p, V2, at2) ==
    /\ x \in DOMAIN at /\ b \in DOMAIN V
    /\ lo \in Nat /\ hi \in Nat /\ DOMAIN at[x] = lo..hi
    /\ n \in Nat /\ lo + n - 1 <= hi /\ offset \in Nat
    /\ \A k \in lo..(lo + n - 1) : at[x][k] = <<b, offset + (k - lo)>>
    /\ p \in PartValue
    /\ p.used = IF offset + n = V[b].used THEN offset ELSE V[b].used
    /\ p.nDeleted = V[b].nDeleted + n /\ p.next = V[b].next
    /\ V2 = [V EXCEPT ![b] = p]
    /\ at2 = [at EXCEPT ![x] = [k \in (lo + n)..hi |-> at[x][k]]]

LEMMA CutIs ==
    ASSUME NEW V, IsParts(V), NEW at, Laid(V, at),
           NEW x, NEW b, NEW offset, NEW n, NEW lo, NEW hi, NEW p, NEW V2, NEW at2,
           CutHere(V, at, x, b, offset, n, lo, hi, p, V2, at2)
    PROVE  /\ DOMAIN at2 = DOMAIN at
           /\ \A y \in DOMAIN at : y # x => at2[y] = at[y]
           /\ DOMAIN at2[x] = (lo + n)..hi
           /\ \A k \in (lo + n)..hi : at2[x][k] = at[x][k]
           /\ \A y \in DOMAIN at : \A k \in DOMAIN at2[y] :
                k \in DOMAIN at[y] /\ at2[y][k] = at[y][k]
           /\ \A y \in DOMAIN at : \A k \in DOMAIN at[y] :
                IF k \in DOMAIN at2[y] THEN TRUE
                ELSE y = x /\ k \in lo..(lo + n - 1) /\ at[y][k] = <<b, offset + (k - lo)>>
           /\ \A y \in DOMAIN at : \A k \in DOMAIN at2[y] :
                at[y][k][1] = b => ~(at[y][k][2] \in offset..(offset + n - 1))
  <1> DEFINE B == DOMAIN V
  <1>0. \A c \in B : V[c] \in PartValue /\ c \in Nat
    BY PartsAre
  <1>1. /\ x \in DOMAIN at /\ b \in B /\ lo \in Nat /\ hi \in Nat /\ DOMAIN at[x] = lo..hi
        /\ n \in Nat /\ lo + n - 1 <= hi /\ offset \in Nat
        /\ \A k \in lo..(lo + n - 1) : at[x][k] = <<b, offset + (k - lo)>>
    BY DEF CutHere
  <1>2. /\ DOMAIN at2 = DOMAIN at /\ at2[x] = [k \in (lo + n)..hi |-> at[x][k]]
        /\ \A y \in DOMAIN at : y # x => at2[y] = at[y]
    BY <1>1 DEF CutHere
  <1>3. DOMAIN at2[x] = (lo + n)..hi /\ \A k \in (lo + n)..hi : at2[x][k] = at[x][k]
    BY <1>2
  <1>4. ASSUME NEW y \in DOMAIN at, NEW k \in DOMAIN at2[y]
        PROVE  k \in DOMAIN at[y] /\ at2[y][k] = at[y][k]
    BY <1>1, <1>2, <1>3
  <1>5. ASSUME NEW y \in DOMAIN at, NEW k \in DOMAIN at[y], k \notin DOMAIN at2[y]
        PROVE  y = x /\ k \in lo..(lo + n - 1) /\ at[y][k] = <<b, offset + (k - lo)>>
    <2>1. y = x
      BY <1>2, <1>5
    <2>2. k \in lo..(lo + n - 1)
      BY <1>1, <1>3, <1>5, <2>1
    <2> QED BY <1>1, <2>1, <2>2
  <1>6. ASSUME NEW y \in DOMAIN at, NEW k \in DOMAIN at2[y], at[y][k][1] = b,
               at[y][k][2] \in offset..(offset + n - 1)
        PROVE  FALSE
    <2> DEFINE j == lo + (at[y][k][2] - offset)
    <2>1. j \in lo..(lo + n - 1) /\ j \in lo..hi /\ offset + (j - lo) = at[y][k][2]
      BY SMTT(40), <1>1, <1>6
    <2>2. k \in DOMAIN at[y]
      BY <1>4
    <2>3. at[y][k] = <<b, at[y][k][2]>>
      BY <1>6, <2>2, PlaceIs DEF Laid
    <2> HIDE DEF j
    <2>4. at[x][j] = <<b, offset + (j - lo)>>
      BY <1>1, <2>1
    <2>5. at[x][j] = at[y][k] /\ j \in DOMAIN at[x]
      BY <1>1, <2>1, <2>3, <2>4
    <2>6. x = y /\ j = k
      BY <1>1, <2>2, <2>5 DEF Laid, Apart
    <2>7. j \in (lo + n)..hi
      BY <1>3, <2>6
    <2> QED BY <1>1, <2>1, <2>7
  <1> QED BY <1>2, <1>3, <1>4, <1>5, <1>6

LEMMA CutLive ==
    ASSUME NEW V, IsParts(V), NEW at, Laid(V, at),
           NEW x, NEW b, NEW offset, NEW n, NEW lo, NEW hi, NEW p, NEW V2, NEW at2,
           CutHere(V, at, x, b, offset, n, lo, hi, p, V2, at2)
    PROVE  /\ \A c \in DOMAIN V \ {b} : LiveIn(at2, c) = LiveIn(at, c)
           /\ LiveIn(at2, b) = LiveIn(at, b) \ (offset..(offset + n - 1))
           /\ Cardinality(LiveIn(at2, b)) = Cardinality(LiveIn(at, b)) - n
  <1> DEFINE B == DOMAIN V
  <1>0. \A c \in B : V[c] \in PartValue /\ c \in Nat
    BY PartsAre
  <1>1. /\ x \in DOMAIN at /\ lo \in Nat /\ hi \in Nat /\ DOMAIN at[x] = lo..hi
        /\ n \in Nat /\ lo + n - 1 <= hi /\ offset \in Nat
        /\ \A k \in lo..(lo + n - 1) : at[x][k] = <<b, offset + (k - lo)>>
    BY DEF CutHere
  <1>2. /\ DOMAIN at2 = DOMAIN at
        /\ \A y \in DOMAIN at : \A k \in DOMAIN at2[y] :
                k \in DOMAIN at[y] /\ at2[y][k] = at[y][k]
        /\ \A y \in DOMAIN at : \A k \in DOMAIN at[y] :
                IF k \in DOMAIN at2[y] THEN TRUE
                ELSE y = x /\ k \in lo..(lo + n - 1) /\ at[y][k] = <<b, offset + (k - lo)>>
        /\ \A y \in DOMAIN at : \A k \in DOMAIN at2[y] :
                at[y][k][1] = b => ~(at[y][k][2] \in offset..(offset + n - 1))
    BY CutIs
  <1>3. ASSUME NEW c, NEW i \in LiveIn(at2, c)
        PROVE  i \in LiveIn(at, c) /\ ~(c = b /\ i \in offset..(offset + n - 1))
    <2>1. PICK y \in DOMAIN at2 : \E k \in DOMAIN at2[y] : at2[y][k] = <<c, i>>
      BY DEF LiveIn
    <2>2. PICK k \in DOMAIN at2[y] : at2[y][k] = <<c, i>>
      BY <2>1
    <2>3. y \in DOMAIN at /\ k \in DOMAIN at[y] /\ at[y][k] = <<c, i>> /\ i \in Places
      BY <1>2, <2>2 DEF LiveIn
    <2>4. at[y][k][1] = c /\ at[y][k][2] = i
      BY <2>3
    <2>5. c = b => ~(i \in offset..(offset + n - 1))
      BY <1>2, <2>3, <2>4
    <2> QED BY <2>3, <2>5 DEF LiveIn
  <1>4. ASSUME NEW c, NEW i \in LiveIn(at, c), ~(c = b /\ i \in offset..(offset + n - 1))
        PROVE  i \in LiveIn(at2, c)
    <2>1. PICK y \in DOMAIN at : \E k \in DOMAIN at[y] : at[y][k] = <<c, i>>
      BY DEF LiveIn
    <2>2. PICK k \in DOMAIN at[y] : at[y][k] = <<c, i>>
      BY <2>1
    <2>3. ASSUME k \notin DOMAIN at2[y]
          PROVE  FALSE
      <3>1. k \in lo..(lo + n - 1) /\ at[y][k] = <<b, offset + (k - lo)>>
        BY <1>2, <2>3
      <3>2. c = b /\ i = offset + (k - lo)
        BY <2>2, <3>1
      <3> QED BY <1>1, <1>4, <3>1, <3>2
    <2>4. k \in DOMAIN at2[y] /\ at2[y][k] = <<c, i>> /\ i \in Places
      BY <1>2, <2>2, <2>3 DEF LiveIn
    <2> QED BY <1>2, <2>4 DEF LiveIn
  <1>5. \A c \in B \ {b} : LiveIn(at2, c) = LiveIn(at, c)
    <2> SUFFICES ASSUME NEW c \in B \ {b}
                 PROVE  LiveIn(at2, c) = LiveIn(at, c)
      OBVIOUS
    <2>1. \A i : i \in LiveIn(at2, c) <=> i \in LiveIn(at, c)
      BY <1>3, <1>4
    <2> QED BY <2>1
  <1>6. LiveIn(at2, b) = LiveIn(at, b) \ (offset..(offset + n - 1))
    BY <1>3, <1>4
  <1>7. offset..(offset + n - 1) \subseteq LiveIn(at, b)
    <2> SUFFICES ASSUME NEW i \in offset..(offset + n - 1)
                 PROVE  i \in LiveIn(at, b)
      OBVIOUS
    <2> DEFINE k == lo + (i - offset)
    <2>1. k \in lo..(lo + n - 1) /\ k \in DOMAIN at[x] /\ offset + (k - lo) = i
      BY <1>1
    <2> HIDE DEF k
    <2>2. at[x][k] = <<b, i>>
      BY <1>1, <2>1
    <2>3. i \in Places
      <3>1. at[x][k][2] \in Places
        BY <1>1, <2>1, PlaceIs DEF Laid
      <3> QED BY <2>2, <3>1
    <2> QED BY <1>1, <2>1, <2>2, <2>3 DEF LiveIn
  <1>8. Cardinality(LiveIn(at, b) \ (offset..(offset + n - 1)))
            = Cardinality(LiveIn(at, b)) - n
    BY <1>1, <1>7, LessLive, LiveIs
  <1> QED BY <1>5, <1>6, <1>8

LEMMA CutLaid ==
    ASSUME NEW V, IsParts(V), NEW at, Laid(V, at),
           Counted(V, at),
           NEW x, NEW b, NEW offset, NEW n, NEW lo, NEW hi, NEW p, NEW V2, NEW at2,
           CutHere(V, at, x, b, offset, n, lo, hi, p, V2, at2)
    PROVE  Laid(V2, at2) /\ Counted(V2, at2)
  <1> DEFINE B == DOMAIN V
  <1>0. \A c \in B : V[c] \in PartValue /\ c \in Nat
    BY PartsAre
  <1>1. /\ b \in B /\ n \in Nat /\ offset \in Nat /\ p \in PartValue
        /\ p.used = (IF offset + n = V[b].used THEN offset ELSE V[b].used)
        /\ p.nDeleted = V[b].nDeleted + n /\ p.next = V[b].next
    BY DEF CutHere
  <1>2. /\ DOMAIN at2 = DOMAIN at
        /\ \A y \in DOMAIN at : \A k \in DOMAIN at2[y] :
                k \in DOMAIN at[y] /\ at2[y][k] = at[y][k]
        /\ \A y \in DOMAIN at : \A k \in DOMAIN at2[y] :
                at[y][k][1] = b => ~(at[y][k][2] \in offset..(offset + n - 1))
    BY CutIs
  <1>3. /\ DOMAIN V2 = B /\ V2[b] = p /\ \A c \in B : c # b => V2[c] = V[c]
        /\ DOMAIN V = B
    BY <1>1 DEF CutHere
  <1>4. ASSUME NEW c \in B
        PROVE  V2[c].next = V[c].next
    BY <1>1, <1>3
  <1>5. V[b].used \in 0..BucketLength /\ V[b].nDeleted \in Int
    BY <1>0, <1>1, <1>3 DEF Laid, UsedFits, PartValue
  <1>6. PlacesUsed(V2, at2)
    <2> SUFFICES ASSUME NEW y \in DOMAIN at2, NEW k \in DOMAIN at2[y]
                 PROVE  /\ k \in Nat /\ at[y][k] = <<at[y][k][1], at[y][k][2]>>
                        /\ at[y][k][1] \in B /\ at[y][k][2] \in Places
                        /\ at[y][k][2] < V2[at[y][k][1]].used
      BY <1>2, <1>3 DEF PlacesUsed
    <2>1. y \in DOMAIN at /\ k \in DOMAIN at[y]
      BY <1>2
    <2>2. /\ k \in Nat /\ at[y][k] = <<at[y][k][1], at[y][k][2]>>
          /\ at[y][k][1] \in B /\ at[y][k][2] \in Places /\ at[y][k][2] \in Nat
          /\ at[y][k][2] < V[at[y][k][1]].used
      BY <2>1, PlaceIs DEF Laid
    <2>3. at[y][k][2] < V2[at[y][k][1]].used
      <3>1. CASE at[y][k][1] = b
        <4>1. ~(at[y][k][2] \in offset..(offset + n - 1)) /\ at[y][k][2] < V[b].used
          BY <1>2, <2>1, <2>2, <3>1
        <4>2. at[y][k][2] < p.used
          BY <1>1, <1>5, <2>2, <4>1, BucketLengthIs
        <4> QED BY <1>3, <3>1, <4>2
      <3>2. CASE at[y][k][1] # b
        BY <1>3, <2>2, <3>2
      <3> QED BY <3>1, <3>2
    <2> QED BY <2>2, <2>3
  <1>7. Linked(V2, at2)
    <2> SUFFICES ASSUME NEW y \in DOMAIN at2, NEW k \in DOMAIN at2[y], k + 1 \in DOMAIN at2[y]
                 PROVE  at2[y][k + 1] = Follow(V2, at2[y][k])
      BY DEF Linked
    <2>1. /\ y \in DOMAIN at /\ k \in DOMAIN at[y] /\ k + 1 \in DOMAIN at[y]
          /\ at2[y][k] = at[y][k] /\ at2[y][k + 1] = at[y][k + 1]
      BY <1>2
    <2>2. at[y][k + 1] = Follow(V, at[y][k])
      BY <2>1 DEF Laid, Linked
    <2>3. at[y][k][1] \in B
      BY <2>1, PlaceIs DEF Laid
    <2>4. Follow(V2, at[y][k]) = Follow(V, at[y][k])
      BY <1>4, <2>3 DEF Follow
    <2> QED BY <2>1, <2>2, <2>4
  <1>8. Apart(at2)
    BY <1>2 DEF Laid, Apart
  <1>9. UsedFits(V2)
    <2>1. \A c \in B : c # b => V2[c].used \in 0..BucketLength
      BY <1>3 DEF Laid, UsedFits
    <2>2. V2[b].used \in 0..BucketLength
      BY <1>1, <1>3, <1>5, BucketLengthIs
    <2> QED BY <1>3, <2>1, <2>2 DEF UsedFits
  <1>10. Counted(V2, at2)
    <2>1. /\ \A c \in B \ {b} : LiveIn(at2, c) = LiveIn(at, c)
          /\ Cardinality(LiveIn(at2, b)) = Cardinality(LiveIn(at, b)) - n
      BY CutLive
    <2>2. CountedIn(V2, at2, b)
      BY <1>1, <1>3, <1>5, <2>1, LiveIs DEF Counted, CountedIn
    <2>3. \A c \in B \ {b} : CountedIn(V2, at2, c)
      BY <1>3, <2>1 DEF Counted, CountedIn
    <2> QED BY <1>3, <2>2, <2>3 DEF Counted
  <1> QED BY <1>6, <1>7, <1>8, <1>9, <1>10 DEF Laid

\* The data of a bucket may change, and where it goes on when no value does.
EditHere(V, at, b, p, V2) ==
    /\ b \in DOMAIN V /\ p \in PartValue
    /\ p.used = V[b].used /\ p.nDeleted = V[b].nDeleted
    /\ \/ p.next = V[b].next
       \/ \A y \in DOMAIN at : \A k \in DOMAIN at[y] :
            k + 1 \in DOMAIN at[y] => at[y][k] # <<b, BucketLength - 1>>
    /\ V2 = [V EXCEPT ![b] = p]

LEMMA EditLaid ==
    ASSUME NEW V, IsParts(V), NEW at, Laid(V, at),
           Counted(V, at),
           NEW b, NEW p, NEW V2, EditHere(V, at, b, p, V2)
    PROVE  Laid(V2, at) /\ Counted(V2, at)
  <1> DEFINE B == DOMAIN V
  <1>0. \A c \in B : V[c] \in PartValue /\ c \in Nat
    BY PartsAre
  <1>1. /\ DOMAIN V2 = B /\ V2[b] = p /\ \A c \in B : c # b => V2[c] = V[c]
        /\ DOMAIN V = B /\ b \in B
    BY DEF EditHere
  <1>2. ASSUME NEW c \in B
        PROVE  V2[c].used = V[c].used /\ V2[c].nDeleted = V[c].nDeleted
    BY <1>1 DEF EditHere
  <1>3. PlacesUsed(V2, at)
    BY <1>1, <1>2 DEF Laid, PlacesUsed
  <1>4. Linked(V2, at)
    <2> SUFFICES ASSUME NEW y \in DOMAIN at, NEW k \in DOMAIN at[y], k + 1 \in DOMAIN at[y]
                 PROVE  at[y][k + 1] = Follow(V2, at[y][k])
      BY DEF Linked
    <2>1. at[y][k + 1] = Follow(V, at[y][k])
      BY DEF Laid, Linked
    <2>2. /\ at[y][k] = <<at[y][k][1], at[y][k][2]>> /\ at[y][k][1] \in B
          /\ at[y][k][2] \in Nat /\ at[y][k][2] < BucketLength
      BY PlaceIs DEF Laid
    <2>3. CASE at[y][k][2] + 1 < BucketLength
      BY <2>1, <2>3 DEF Follow
    <2>4. CASE ~(at[y][k][2] + 1 < BucketLength)
      <3>1. at[y][k][2] = BucketLength - 1
        BY <2>2, <2>4, BucketLengthIs
      <3>2. V2[at[y][k][1]].next = V[at[y][k][1]].next
        <4>1. CASE at[y][k][1] = b
          <5>1. at[y][k] = <<b, BucketLength - 1>>
            BY <2>2, <3>1, <4>1
          <5>2. p.next = V[b].next
            BY <5>1 DEF EditHere
          <5> QED BY <1>1, <4>1, <5>2
        <4>2. CASE at[y][k][1] # b
          BY <1>1, <2>2, <4>2
        <4> QED BY <4>1, <4>2
      <3> QED BY <2>1, <3>2 DEF Follow
    <2> QED BY <2>3, <2>4
  <1>5. UsedFits(V2)
    BY <1>1, <1>2 DEF Laid, UsedFits
  <1>6. Counted(V2, at)
    BY <1>1, <1>2 DEF Counted, CountedIn
  <1> QED BY <1>3, <1>4, <1>5, <1>6 DEF Laid

LEMMA LiveNowhere ==
    ASSUME NEW V, IsParts(V), NEW at, PlacesUsed(V, at),
           NEW b, b \notin DOMAIN V
    PROVE  LiveIn(at, b) = {}
  <1> DEFINE B == DOMAIN V
  <1>0. \A c \in B : V[c] \in PartValue /\ c \in Nat
    BY PartsAre
  <1> SUFFICES ASSUME NEW i \in LiveIn(at, b)
               PROVE  FALSE
    OBVIOUS
  <1>1. PICK y \in DOMAIN at : \E k \in DOMAIN at[y] : at[y][k] = <<b, i>>
    BY DEF LiveIn
  <1>2. PICK k \in DOMAIN at[y] : at[y][k] = <<b, i>>
    BY <1>1
  <1>3. at[y][k][1] \in B
    BY PlaceIs
  <1> QED BY <1>2, <1>3

LEMMA NewLaid ==
    ASSUME NEW V, IsParts(V), NEW at, Laid(V, at),
           Counted(V, at),
           NEW b \in Nat \ DOMAIN V, NEW part \in PartValue, part.used = 0,
           part.nDeleted <= BucketLength, ShapeOnce => part.nDeleted = BucketLength,
           NEW V2, V2 = [c \in DOMAIN V \cup {b} |-> IF c = b THEN part ELSE V[c]]
    PROVE  Laid(V2, at) /\ Counted(V2, at) /\ LiveIn(at, b) = {}
  <1> DEFINE B == DOMAIN V
  <1>0. \A c \in B : V[c] \in PartValue /\ c \in Nat
    BY PartsAre
  <1>1. /\ DOMAIN V2 = B \cup {b} /\ V2[b] = part /\ \A c \in B : V2[c] = V[c]
        /\ DOMAIN V = B
    OBVIOUS
  <1>2. PlacesUsed(V2, at)
    BY <1>1 DEF Laid, PlacesUsed
  <1>3. Linked(V2, at)
    <2> SUFFICES ASSUME NEW y \in DOMAIN at, NEW k \in DOMAIN at[y], k + 1 \in DOMAIN at[y]
                 PROVE  at[y][k + 1] = Follow(V2, at[y][k])
      BY DEF Linked
    <2>1. at[y][k][1] \in B
      BY PlaceIs DEF Laid
    <2> QED BY <1>1, <2>1 DEF Laid, Linked, Follow
  <1>4. UsedFits(V2)
    BY <1>1, BucketLengthIs DEF Laid, UsedFits
  <1>5. LiveIn(at, b) = {}
    BY LiveNowhere DEF Laid
  <1>6. Counted(V2, at)
    <2>1. CountedIn(V2, at, b)
      <3>1. Cardinality(LiveIn(at, b)) = 0 /\ part.nDeleted \in Int
        BY <1>5, LiveIs DEF PartValue
      <3> QED BY <1>1, <3>1, BucketLengthIs DEF CountedIn
    <2>2. \A c \in B : CountedIn(V2, at, c)
      BY <1>1 DEF Counted, CountedIn
    <2> QED BY <1>1, <2>1, <2>2 DEF Counted
  <1> QED BY <1>2, <1>3, <1>4, <1>5, <1>6 DEF Laid

LEMMA DropLaid ==
    ASSUME NEW V, IsParts(V), NEW at, Laid(V, at),
           Counted(V, at),
           NEW b, LiveIn(at, b) = {},
           NEW V2, V2 = [c \in DOMAIN V \ {b} |-> V[c]]
    PROVE  Laid(V2, at) /\ Counted(V2, at)
  <1> DEFINE B == DOMAIN V
  <1>0. \A c \in B : V[c] \in PartValue /\ c \in Nat
    BY PartsAre
  <1>1. /\ DOMAIN V2 = B \ {b} /\ \A c \in B \ {b} : V2[c] = V[c] /\ DOMAIN V = B
    OBVIOUS
  <1>2. ASSUME NEW y \in DOMAIN at, NEW k \in DOMAIN at[y]
        PROVE  at[y][k][1] \in B \ {b}
    <2>1. at[y][k] = <<at[y][k][1], at[y][k][2]>> /\ at[y][k][2] \in Places
          /\ at[y][k][1] \in B
      BY PlaceIs DEF Laid
    <2> QED BY <2>1 DEF LiveIn
  <1>3. PlacesUsed(V2, at)
    BY <1>1, <1>2 DEF Laid, PlacesUsed
  <1>4. Linked(V2, at)
    BY <1>1, <1>2 DEF Laid, Linked, Follow
  <1>5. UsedFits(V2)
    BY <1>1 DEF Laid, UsedFits
  <1>6. Counted(V2, at)
    BY <1>1 DEF Counted, CountedIn
  <1> QED BY <1>3, <1>4, <1>5, <1>6 DEF Laid

-----------------------------------------------------------------------------
(* What is in the places.                                                    *)

\* The values of S have the units un, V the parts of the buckets.
HoldsIn(V, at, un, S) ==
    \A x \in S : \A k \in DOMAIN at[x] :
        V[at[x][k][1]].data[at[x][k][2]] = un[x][k]

\* n units of a value, from unit j on, begin at a place and fit in the bucket.
Begins(at, x, j, n, b, offset) ==
    /\ x \in DOMAIN at /\ j \in Nat /\ n \in Nat /\ j..(j + n - 1) \subseteq DOMAIN at[x]
    /\ offset \in Nat /\ offset + n <= BucketLength
    /\ n > 0 => at[x][j] = <<b, offset>>

InARow(at, x, j, n, b, offset) ==
    \A k \in j..(j + n - 1) : at[x][k] = <<b, offset + (k - j)>>

LEMMA RunIs ==
    ASSUME NEW V, IsParts(V), NEW at, Laid(V, at), NEW x, NEW j, NEW n, NEW b, NEW offset,
           Begins(at, x, j, n, b, offset)
    PROVE  InARow(at, x, j, n, b, offset)
  <1>0. /\ x \in DOMAIN at /\ j \in Nat /\ n \in Nat /\ j..(j + n - 1) \subseteq DOMAIN at[x]
        /\ offset \in Nat /\ offset + n <= BucketLength
        /\ n > 0 => at[x][j] = <<b, offset>>
    BY DEF Begins
  <1> SUFFICES \A k \in j..(j + n - 1) : at[x][k] = <<b, offset + (k - j)>>
    BY DEF InARow
  <1>1. CASE n = 0
    BY <1>0, <1>1
  <1>2. CASE n > 0
    <2> DEFINE T == {i \in Nat : at[x][j + i] = <<b, offset + i>>}
    <2>1. 0 \in T
      BY <1>0, <1>2
    <2>2. ASSUME NEW i \in 1..(n - 1), i - 1 \in T
          PROVE  i \in T
      <3> DEFINE k == j + (i - 1)
      <3>1. k \in DOMAIN at[x] /\ k + 1 \in DOMAIN at[x] /\ k + 1 = j + i
        BY <1>0, <2>2
      <3>2. at[x][k] = <<b, offset + (i - 1)>>
        BY <1>0, <2>2
      <3> HIDE DEF k
      <3>3. at[x][k + 1] = Follow(V, at[x][k])
        BY <1>0, <3>1 DEF Laid, Linked
      <3>4. offset + (i - 1) + 1 < BucketLength /\ offset + (i - 1) + 1 = offset + i
        BY <1>0, <2>2, BucketLengthIs
      <3>5. Follow(V, <<b, offset + (i - 1)>>) = <<b, offset + (i - 1) + 1>>
        BY <1>0, <3>4 DEF Follow
      <3>6. at[x][j + i] = <<b, offset + i>>
        BY <1>0, <3>1, <3>2, <3>3, <3>4, <3>5
      <3> QED BY <1>0, <2>2, <3>6
    <2> HIDE DEF T
    <2>3. \A i \in 0..(n - 1) : i \in T
      <3>1. n - 1 \in Nat
        BY <1>0, <1>2
      <3> QED BY <1>0, <2>1, <2>2, <3>1, TurnInduction
    <2>4. ASSUME NEW k \in j..(j + n - 1)
          PROVE  at[x][k] = <<b, offset + (k - j)>>
      <3>1. k - j \in 0..(n - 1) /\ j + (k - j) = k
        BY <1>0
      <3>2. at[x][j + (k - j)] = <<b, offset + (k - j)>>
        BY <1>0, <2>3, <3>1 DEF T
      <3> QED BY <1>0, <3>1, <3>2
    <2> QED BY <1>0, <2>4
  <1> QED BY <1>0, <1>1, <1>2

LEMMA CopiedIs ==
    ASSUME NEW data \in [Places -> UnitValue], NEW units \in Seq(UnitValue),
           NEW offset \in Nat, NEW n \in Nat, NEW done \in Nat, done + n <= Len(units)
    PROVE  /\ Copied(data, offset, n, units, done) \in [Places -> UnitValue]
           /\ \A i \in Places : IF i - offset \in 0..(n - 1)
                THEN Copied(data, offset, n, units, done)[i] = units[done + i - offset + 1]
                ELSE Copied(data, offset, n, units, done)[i] = data[i]
  <1>1. ASSUME NEW i \in Places, i - offset \in 0..(n - 1)
        PROVE  units[done + i - offset + 1] \in UnitValue
    <2>1. i \in Nat
      BY BucketLengthIs DEF Places
    <2>2. done + i - offset + 1 \in 1..Len(units)
      BY <1>1, <2>1
    <2> QED BY <2>2
  <1> QED BY <1>1 DEF Copied

LEMMA PutHolds ==
    ASSUME NEW V, IsParts(V), NEW at, Laid(V, at),
           NEW x, NEW b, NEW n, NEW m, NEW p, NEW V2, NEW at2,
           PutHere(V, at, x, b, n, m, p, V2, at2),
           NEW units \in Seq(UnitValue), m + n <= Len(units),
           p.data = Copied(V[b].data, V[b].used, n, units, m),
           NEW un, NEW S \in SUBSET DOMAIN at, HoldsIn(V, at, un, S),
           x \in S => un[x] = units
    PROVE  HoldsIn(V2, at2, un, S)
  <1> DEFINE u == V[b].used
  <1>1. /\ x \in DOMAIN at /\ b \in DOMAIN V /\ m \in Nat /\ n \in Nat /\ u \in Nat
        /\ DOMAIN at[x] = 1..m /\ u + n <= BucketLength /\ p \in PartValue
        /\ V2 = [V EXCEPT ![b] = p] /\ at2 = [at EXCEPT ![x] = Longer(at[x], m, n, b, u)]
    BY DEF PutHere, Laid, UsedFits
  <1>2. V2[b] = p /\ \A c \in DOMAIN V : c # b => V2[c] = V[c]
    BY <1>1, PartsEdited
  <1>3. /\ at2[x] = Longer(at[x], m, n, b, u)
        /\ \A y \in DOMAIN at : y # x => at2[y] = at[y]
    BY <1>1
  <1>4. /\ DOMAIN at2[x] = 1..(m + n)
        /\ \A k \in 1..(m + n) : k <= m => at2[x][k] = at[x][k]
        /\ \A k \in 1..(m + n) : k > m => at2[x][k] = <<b, u + k - m - 1>>
    <2> HIDE DEF u
    <2> QED BY <1>1, <1>3 DEF Longer
  <1>5. /\ V[b].data \in [Places -> UnitValue]
    BY <1>1, PartsAre DEF PartValue
  <1>6. \A i \in Places : IF i - u \in 0..(n - 1) THEN p.data[i] = units[m + i - u + 1]
                          ELSE p.data[i] = V[b].data[i]
    <2>1. p.data = Copied(V[b].data, u, n, units, m) /\ u \in Nat /\ m \in Nat /\ n \in Nat
      BY <1>1
    <2> HIDE DEF u
    <2>2. \A i \in Places : IF i - u \in 0..(n - 1)
            THEN Copied(V[b].data, u, n, units, m)[i] = units[m + i - u + 1]
            ELSE Copied(V[b].data, u, n, units, m)[i] = V[b].data[i]
      BY DEF Copied
    <2> QED BY <2>1, <2>2
  <1> HIDE DEF u
  <1>7. ASSUME NEW y \in S, NEW k \in DOMAIN at[y]
        PROVE  V2[at[y][k][1]].data[at[y][k][2]] = un[y][k]
    <2>1. V[at[y][k][1]].data[at[y][k][2]] = un[y][k]
      BY <1>7 DEF HoldsIn
    <2>2. /\ at[y][k][1] \in DOMAIN V /\ at[y][k][2] \in Places /\ at[y][k][2] \in Nat
          /\ at[y][k][2] < V[at[y][k][1]].used
      BY PlaceIs DEF Laid
    <2>3. CASE at[y][k][1] = b
      <3>1. ~(at[y][k][2] - u \in 0..(n - 1))
        BY <1>1, <2>2, <2>3 DEF u
      <3> QED BY <1>2, <1>6, <2>1, <2>2, <2>3, <3>1
    <2>4. CASE at[y][k][1] # b
      BY <1>2, <2>1, <2>2, <2>4
    <2> QED BY <2>3, <2>4
  <1>8. ASSUME NEW k \in 1..(m + n), k > m, x \in S
        PROVE  V2[at2[x][k][1]].data[at2[x][k][2]] = un[x][k]
    <2>1. at2[x][k] = <<b, u + k - m - 1>>
      BY <1>4, <1>8
    <2> DEFINE i == u + k - m - 1
    <2>2. i \in Places /\ i - u \in 0..(n - 1) /\ m + i - u + 1 = k
      <3>1. m \in Nat /\ n \in Nat /\ u \in Nat /\ u + n <= BucketLength
        BY <1>1
      <3> QED BY <1>8, <3>1, BucketLengthIs DEF Places
    <2> HIDE DEF i
    <2>3. p.data[i] = units[k]
      BY <1>6, <2>2
    <2>4. at2[x][k] = <<b, i>>
      BY <2>1 DEF i
    <2> QED BY <1>2, <1>8, <2>3, <2>4
  <1> SUFFICES ASSUME NEW y \in S, NEW k \in DOMAIN at2[y]
               PROVE  V2[at2[y][k][1]].data[at2[y][k][2]] = un[y][k]
    BY DEF HoldsIn
  <1>9. CASE y # x
    BY <1>3, <1>7, <1>9
  <1>10. CASE y = x
    <2>1. k \in 1..(m + n)
      BY <1>4, <1>10
    <2>2. CASE k <= m
      <3>1. k \in DOMAIN at[y] /\ at2[y][k] = at[y][k]
        BY <1>1, <1>4, <1>10, <2>1, <2>2
      <3> QED BY <1>7, <3>1
    <2>3. CASE ~(k <= m)
      BY SMTT(40), <1>1, <1>8, <1>10, <2>1, <2>3
    <2> QED BY <2>2, <2>3
  <1> QED BY <1>9, <1>10

LEMMA CutHolds ==
    ASSUME NEW V, IsParts(V), NEW at, Laid(V, at),
           NEW x, NEW b, NEW offset, NEW n, NEW lo, NEW hi, NEW p, NEW V2, NEW at2,
           CutHere(V, at, x, b, offset, n, lo, hi, p, V2, at2),
           \A i \in Places : ~(i \in offset..(offset + n - 1)) => p.data[i] = V[b].data[i],
           NEW un, NEW S \in SUBSET DOMAIN at, HoldsIn(V, at, un, S)
    PROVE  HoldsIn(V2, at2, un, S)
  <1>1. b \in DOMAIN V /\ p \in PartValue /\ V2 = [V EXCEPT ![b] = p]
    BY DEF CutHere
  <1>2. V2[b] = p /\ \A c \in DOMAIN V : c # b => V2[c] = V[c]
    BY <1>1, PartsEdited
  <1> SUFFICES ASSUME NEW y \in S, NEW k \in DOMAIN at2[y]
               PROVE  V2[at2[y][k][1]].data[at2[y][k][2]] = un[y][k]
    BY DEF HoldsIn
  <1>3. /\ k \in DOMAIN at[y] /\ at2[y][k] = at[y][k]
        /\ at[y][k][1] = b => ~(at[y][k][2] \in offset..(offset + n - 1))
    BY CutIs
  <1>4. V[at[y][k][1]].data[at[y][k][2]] = un[y][k]
    BY <1>3 DEF HoldsIn
  <1>5. at[y][k][1] \in DOMAIN V /\ at[y][k][2] \in Places
    BY <1>3, PlaceIs DEF Laid
  <1> QED BY <1>2, <1>3, <1>4, <1>5

\* Buckets whose data is what it was.
LEMMA SameHolds ==
    ASSUME NEW V, IsParts(V), NEW at, Laid(V, at), NEW V2,
           \A b \in DOMAIN V : LiveIn(at, b) # {} => V2[b].data = V[b].data,
           NEW un, NEW S \in SUBSET DOMAIN at, HoldsIn(V, at, un, S)
    PROVE  HoldsIn(V2, at, un, S)
  <1> SUFFICES ASSUME NEW y \in S, NEW k \in DOMAIN at[y]
               PROVE  V2[at[y][k][1]].data[at[y][k][2]] = un[y][k]
    BY DEF HoldsIn
  <1>1. V[at[y][k][1]].data[at[y][k][2]] = un[y][k]
    BY DEF HoldsIn
  <1>2. /\ at[y][k] = <<at[y][k][1], at[y][k][2]>>
        /\ at[y][k][1] \in DOMAIN V /\ at[y][k][2] \in Places
    BY PlaceIs DEF Laid
  <1>3. LiveIn(at, at[y][k][1]) # {}
    BY <1>2 DEF LiveIn
  <1> QED BY <1>1, <1>2, <1>3

-----------------------------------------------------------------------------
(* putData.                                                                  *)

Good(s, D, at) ==
    /\ Handler(s, D)
    /\ Laid(Views(s, D), at) /\ Counted(Views(s, D), at)

LEMMA ViewsAre ==
    ASSUME NEW s, NEW D, Handler(s, D)
    PROVE  /\ IsParts(Views(s, D))
           /\ DOMAIN Views(s, D) = DOMAIN s.file \ D
           /\ \A b \in DOMAIN s.file \ D : Views(s, D)[b] = View(s, b)
           /\ s.current # -1 =>
                s.current \in DOMAIN s.file \ D /\ Views(s, D)[s.current] = Part(s)
  <1>1. /\ Views(s, D) \in [DOMAIN s.file \ D -> PartValue]
        /\ \A b \in DOMAIN s.file \ D : Views(s, D)[b] = View(s, b)
        /\ DOMAIN Views(s, D) = DOMAIN s.file \ D
    BY ViewsType DEF Handler
  <1>2. DOMAIN s.file \subseteq Nat
    BY FileIs DEF Handler
  <1>3. s.current # -1 => s.current \in DOMAIN s.file \ D
    BY DEF Handler
  <1>4. s.current # -1 => Views(s, D)[s.current] = Part(s)
    BY <1>1, <1>3 DEF View
  <1> QED BY <1>1, <1>2, <1>3, <1>4 DEF IsParts

\* A bucket that only x is put into.
PutIn(s, n, units, done) ==
    [s EXCEPT !.data = Copied(@, s.used, n, units, done),
              !.nDeleted = @ - n, !.used = @ + n, !.changed = TRUE]

PutPart(s, n, units, done) ==
    [used |-> s.used + n, nDeleted |-> s.nDeleted - n, next |-> s.next,
     data |-> Copied(s.data, s.used, n, units, done)]

LEMMA PutInIs ==
    ASSUME NEW s, NEW D, Handler(s, D), s.used \in Nat,
           NEW units \in Seq(UnitValue), NEW n \in Nat, NEW done \in Nat,
           done + n <= Len(units)
    PROVE  /\ Edited(s, PutIn(s, n, units, done), PutPart(s, n, units, done))
           /\ PutIn(s, n, units, done).used = s.used + n
           /\ PutIn(s, n, units, done).next = s.next
  <1> DEFINE t == PutIn(s, n, units, done)
             data == Copied(s.data, s.used, n, units, done)
  <1>1. s \in StoreValue /\ s.data \in [Places -> UnitValue]
    BY DEF Handler, StoreValue
  <1>2. data \in [Places -> UnitValue]
    BY <1>1, CopiedIs
  <1> HIDE DEF data
  <1>3. t = [s EXCEPT !.data = data, !.nDeleted = s.nDeleted - n, !.used = s.used + n,
                      !.changed = TRUE]
    BY <1>1 DEF PutIn, StoreValue, data
  <1> HIDE DEF t
  <1>4. t = [file |-> s.file, current |-> s.current, used |-> s.used + n,
             nDeleted |-> s.nDeleted - n, next |-> s.next, data |-> data,
             changed |-> TRUE, last |-> s.last]
    BY <1>1, <1>3 DEF StoreValue
  <1>5. t \in StoreValue
    BY <1>1, <1>2, <1>4 DEF StoreValue
  <1>6. Part(t) = PutPart(s, n, units, done)
    BY <1>4 DEF Part, PutPart, data
  <1> QED BY <1>4, <1>5, <1>6 DEF Edited, t

Changed(at, at2, x) ==
    /\ DOMAIN at2 = DOMAIN at
    /\ \A y \in DOMAIN at : y # x => at2[y] = at[y]

CanPut(s, D, at, un, x, units, n, done) ==
    /\ Good(s, D, at) /\ s.current # -1
    /\ x \in DOMAIN at /\ units \in Seq(UnitValue) /\ n \in Nat
    /\ done \in Nat /\ done + n <= Len(units) /\ DOMAIN at[x] = 1..done
    /\ done > 0 => Follow(Views(s, D), at[x][done]) = <<s.current, s.used>>
    /\ s.used + n <= BucketLength
    /\ HoldsIn(Views(s, D), at, un, DOMAIN at) /\ un[x] = units

HasPut(s, t, D, at, at2, un, x, n, done) ==
    /\ Changed(at, at2, x)
    /\ at2[x] = Longer(at[x], done, n, s.current, s.used)
    /\ Good(t, D, at2)
    /\ HoldsIn(Views(t, D), at2, un, DOMAIN at)
    /\ n > 0 => LiveIn(at2, s.current) # {}
    /\ \A c : c \in DOMAIN s.file \ D /\ c # s.current => LiveIn(at2, c) = LiveIn(at, c)

LEMMA PutOnce ==
    ASSUME NEW s, NEW D, NEW at, NEW un, NEW x, NEW units, NEW n, NEW done,
           CanPut(s, D, at, un, x, units, n, done)
    PROVE  \E at2 : HasPut(s, PutIn(s, n, units, done), D, at, at2, un, x, n, done)
  <1>0. /\ Good(s, D, at) /\ s.current # -1
        /\ x \in DOMAIN at /\ units \in Seq(UnitValue) /\ n \in Nat
        /\ done \in Nat /\ done + n <= Len(units) /\ DOMAIN at[x] = 1..done
        /\ done > 0 => Follow(Views(s, D), at[x][done]) = <<s.current, s.used>>
        /\ s.used + n <= BucketLength
        /\ HoldsIn(Views(s, D), at, un, DOMAIN at) /\ un[x] = units
    BY DEF CanPut
  <1> DEFINE t == PutIn(s, n, units, done)
             V == Views(s, D)
             b == s.current
             p == PutPart(s, n, units, done)
             V2 == [V EXCEPT ![b] = p]
             at2 == [at EXCEPT ![x] = Longer(at[x], done, n, b, V[b].used)]
  <1>1. /\ Handler(s, D) /\ Laid(V, at) /\ Counted(V, at) /\ IsParts(V)
        /\ b \in DOMAIN V /\ V[b] = Part(s) /\ DOMAIN V = DOMAIN s.file \ D
    <2>1. Handler(s, D) /\ Laid(V, at) /\ Counted(V, at)
      BY <1>0 DEF Good
    <2> HIDE DEF V, b
    <2>2. /\ IsParts(Views(s, D)) /\ DOMAIN Views(s, D) = DOMAIN s.file \ D
          /\ s.current \in DOMAIN s.file \ D /\ Views(s, D)[s.current] = Part(s)
      BY <1>0, <2>1, ViewsAre
    <2> QED BY <2>1, <2>2 DEF V, b
  <1>2. V[b].used = s.used /\ V[b].nDeleted = s.nDeleted /\ V[b].next = s.next
        /\ V[b].data = s.data
    BY <1>1 DEF Part
  <1>3. s.used \in Nat
    BY <1>0, <1>1, <1>2, BucketLengthIs DEF Laid, UsedFits
  <1>4. Edited(s, t, p)
    BY <1>0, <1>1, <1>3, PutInIs
  <1> HIDE DEF t
  <1>5. Handler(t, D) /\ Views(t, D) = V2 /\ p \in PartValue
    BY <1>0, <1>1, <1>4, EditIs
  <1>6. /\ p.used = s.used + n /\ p.nDeleted = s.nDeleted - n /\ p.next = s.next
        /\ p.data = Copied(V[b].data, V[b].used, n, units, done)
    BY <1>2 DEF PutPart
  <1> HIDE DEF p, V, b
  <1>7. PutHere(V, at, x, b, n, done, p, V2, at2)
    BY <1>0, <1>1, <1>2, <1>5, <1>6 DEF PutHere, V, b
  <1> HIDE DEF V2, at2
  <1>8. Laid(V2, at2) /\ Counted(V2, at2)
    BY <1>1, <1>7, PutLaid
  <1>9. HoldsIn(V2, at2, un, DOMAIN at)
    <2>1. HoldsIn(V, at, un, DOMAIN at)
      BY <1>0 DEF V
    <2> DEFINE S == DOMAIN at
    <2>2. S \in SUBSET DOMAIN at /\ HoldsIn(V, at, un, S)
      BY <2>1
    <2> HIDE DEF S
    <2>3. HoldsIn(V2, at2, un, S)
      BY <1>0, <1>1, <1>6, <1>7, <2>2, PutHolds
    <2> QED BY <2>3 DEF S
  <1>10. /\ \A c \in DOMAIN V \ {b} : LiveIn(at2, c) = LiveIn(at, c)
         /\ LiveIn(at2, b) = LiveIn(at, b) \cup (V[b].used..(V[b].used + n - 1))
    BY <1>1, <1>7, PutLive
  <1>11. n > 0 => LiveIn(at2, b) # {}
    <2> SUFFICES ASSUME n > 0
                 PROVE  V[b].used \in V[b].used..(V[b].used + n - 1)
      BY <1>10
    <2> QED BY <1>0, <1>2, <1>3
  <1>12. /\ Changed(at, at2, x)
         /\ at2[x] = Longer(at[x], done, n, b, s.used)
    BY <1>0, <1>2 DEF at2, Changed
  <1>13. Good(t, D, at2)
    BY <1>5, <1>8 DEF Good
  <1>14. \A c : c \in DOMAIN s.file \ D /\ c # b => LiveIn(at2, c) = LiveIn(at, c)
    BY <1>1, <1>10
  <1> QED BY <1>5, <1>9, <1>11, <1>12, <1>13, <1>14 DEF HasPut, t, b

-----------------------------------------------------------------------------
(* The handler and the layout together.                                      *)

State(s, D, at, un) ==
    /\ Good(s, D, at) /\ Written(s)
    /\ HoldsIn(Views(s, D), at, un, DOMAIN at)
    /\ Full(Views(s, D), at, {})

\* The current bucket is about to be put into, and need not be in the file.
Ready(s, D, at, un) ==
    /\ Good(s, D, at) /\ s.current # -1 /\ s.used < BucketLength
    /\ HoldsIn(Views(s, D), at, un, DOMAIN at)
    /\ Full(Views(s, D), at, {s.current})

\* The data buckets are left alone.
Kept(s, t, D) == \A b \in D : t.file[b] = s.file[b]

LEMMA SameState ==
    ASSUME NEW s, NEW t, NEW D, NEW at, NEW un, State(s, D, at, un),
           Handler(t, D), Written(t), Same(s, t, D)
    PROVE  State(t, D, at, un) /\ Kept(s, t, D)
  <1>1. Views(t, D) = Views(s, D)
    BY DEF Same
  <1> QED BY <1>1 DEF State, Good, Same, Kept

LEMMA StateIs ==
    ASSUME NEW s, NEW D, NEW at, NEW un, State(s, D, at, un)
    PROVE  /\ Handler(s, D) /\ Written(s) /\ Good(s, D, at)
           /\ Laid(Views(s, D), at) /\ Counted(Views(s, D), at)
           /\ HoldsIn(Views(s, D), at, un, DOMAIN at)
           /\ Full(Views(s, D), at, {})
           /\ IsParts(Views(s, D)) /\ DOMAIN Views(s, D) = DOMAIN s.file \ D
           /\ s.current # -1 =>
                s.current \in DOMAIN s.file \ D /\ Views(s, D)[s.current] = Part(s)
  <1>1. Handler(s, D) /\ Laid(Views(s, D), at) /\ Counted(Views(s, D), at)
    BY DEF State, Good
  <1>2. /\ IsParts(Views(s, D)) /\ DOMAIN Views(s, D) = DOMAIN s.file \ D
        /\ s.current # -1 =>
                s.current \in DOMAIN s.file \ D /\ Views(s, D)[s.current] = Part(s)
    BY <1>1, ViewsAre
  <1> QED BY <1>1, <1>2 DEF State

LEMMA WithState ==
    ASSUME NEW s, NEW D, NEW at, NEW un, State(s, D, at, un), NEW b \in DOMAIN s.file \ D
    PROVE  /\ State(WithCurrent(s, b), D, at, un) /\ Kept(s, WithCurrent(s, b), D)
           /\ WithCurrent(s, b).current = b /\ WithCurrent(s, b).last = s.last
           /\ Part(WithCurrent(s, b)) = Views(s, D)[b]
           /\ Views(WithCurrent(s, b), D) = Views(s, D)
  <1>1. Handler(s, D) /\ Written(s)
    BY StateIs
  <1>2. /\ Handler(WithCurrent(s, b), D) /\ Written(WithCurrent(s, b))
        /\ Same(s, WithCurrent(s, b), D)
        /\ WithCurrent(s, b).current = b /\ Part(WithCurrent(s, b)) = View(s, b)
    BY <1>1, WithIs
  <1>3. Views(s, D)[b] = View(s, b)
    BY <1>1, ViewsAre
  <1>4. State(WithCurrent(s, b), D, at, un) /\ Kept(s, WithCurrent(s, b), D)
    BY <1>2, SameState
  <1> QED BY <1>2, <1>3, <1>4 DEF Same

LEMMA GetState ==
    ASSUME NEW s, NEW D, NEW at, NEW un, State(s, D, at, un), NEW b \in DOMAIN s.file \ D
    PROVE  /\ State(GetBucket(s, b), D, at, un) /\ Kept(s, GetBucket(s, b), D)
           /\ GetBucket(s, b).current = b /\ GetBucket(s, b).last = s.last
           /\ Part(GetBucket(s, b)) = Views(s, D)[b]
           /\ Views(GetBucket(s, b), D) = Views(s, D)
  <1>1. Handler(s, D) /\ Written(s)
    BY StateIs
  <1>2. /\ Handler(GetBucket(s, b), D) /\ Written(GetBucket(s, b))
        /\ Same(s, GetBucket(s, b), D)
        /\ GetBucket(s, b).current = b /\ Part(GetBucket(s, b)) = View(s, b)
    BY <1>1, GetIs
  <1>3. Views(s, D)[b] = View(s, b)
    BY <1>1, ViewsAre
  <1>4. State(GetBucket(s, b), D, at, un) /\ Kept(s, GetBucket(s, b), D)
    BY <1>2, SameState
  <1> QED BY <1>2, <1>3, <1>4 DEF Same

LEMMA PartIs ==
    ASSUME NEW s, NEW p, Part(s) = p
    PROVE  s.used = p.used /\ s.nDeleted = p.nDeleted /\ s.next = p.next /\ s.data = p.data
  BY DEF Part

\* getNewBucket, when it does not concatenate.
IsNew(s, t, b) == b = LeastFree(s) /\ t = GetNewBucket(s, FALSE)

Agree(V, V2) == \A c \in DOMAIN V : V2[c] = V[c]

HasNew(s, t, b, D, at, un) ==
    /\ Ready(t, D, at, un) /\ Kept(s, t, D)
    /\ t.current = b /\ t.last = b /\ t.used = 0 /\ LiveIn(at, b) = {}
    /\ DOMAIN Views(t, D) = DOMAIN Views(s, D) \cup {b}
    /\ Views(t, D)[b] = FreshPart /\ Agree(Views(s, D), Views(t, D))
    /\ DOMAIN t.file = DOMAIN s.file \cup {b} /\ b \notin DOMAIN s.file
    /\ b \in Nat /\ t.changed = FALSE /\ Part(t) = FreshPart
    /\ Part(t.file[b]) = Part(ZeroBucket)

LEMMA NewState ==
    ASSUME NEW s, NEW D, NEW at, NEW un, State(s, D, at, un),
           NEW b, NEW t, IsNew(s, t, b)
    PROVE  HasNew(s, t, b, D, at, un)
  <1> DEFINE V == Views(s, D)
             V2 == Views(t, D)
  <1>1. /\ Handler(s, D) /\ Written(s) /\ Laid(V, at) /\ Counted(V, at) /\ IsParts(V)
        /\ HoldsIn(V, at, un, DOMAIN at) /\ Full(V, at, {}) /\ DOMAIN V = DOMAIN s.file \ D
    BY StateIs
  <1>2. /\ Handler(t, D) /\ Grown(s, t, D, b, FreshPart)
        /\ t.current = b /\ t.last = b /\ Part(t) = FreshPart /\ t.changed = FALSE
        /\ Part(t.file[b]) = Part(ZeroBucket)
    BY <1>1, NewIs DEF IsNew
  <1>3. /\ b \in Nat \ DOMAIN V /\ b \notin DOMAIN s.file
        /\ V2 = [c \in DOMAIN V \cup {b} |-> IF c = b THEN FreshPart ELSE V[c]]
        /\ DOMAIN t.file = DOMAIN s.file \cup {b} /\ Kept(s, t, D)
    BY <1>1, <1>2 DEF Grown, Kept
  <1> HIDE DEF V, V2
  <1>4. /\ FreshPart \in PartValue /\ FreshPart.used = 0
        /\ FreshPart.nDeleted = BucketLength
    BY NoDataIs, BucketLengthIs DEF FreshPart, PartValue
  <1>5. Laid(V2, at) /\ Counted(V2, at) /\ LiveIn(at, b) = {}
    BY <1>1, <1>3, <1>4, NewLaid, BucketLengthIs
  <1>6. DOMAIN V2 = DOMAIN V \cup {b} /\ V2[b] = FreshPart
        /\ \A c \in DOMAIN V : V2[c] = V[c]
    BY <1>3
  <1>7. HoldsIn(V2, at, un, DOMAIN at)
    BY <1>1, <1>6, SameHolds
  <1>8. Full(V2, at, {b})
    BY <1>1, <1>3 DEF Full
  <1>9. t.used = 0 /\ t.used < BucketLength
    BY <1>2, <1>4, BucketLengthIs, PartIs
  <1>10. b # -1
    BY <1>3
  <1> QED BY <1>2, <1>3, <1>5, <1>6, <1>7, <1>8, <1>9, <1>10 DEF HasNew, Ready, Good, Agree, V, V2

LEMMA NextStore ==
    ASSUME NEW s \in StoreValue, NEW v
    PROVE  [s EXCEPT !.next = v, !.changed = TRUE]
            = [file |-> s.file, current |-> s.current, used |-> s.used,
               nDeleted |-> s.nDeleted, next |-> v, data |-> s.data,
               changed |-> TRUE, last |-> s.last]
  <1> SUFFICES ASSUME NEW t, t = [s EXCEPT !.next = v, !.changed = TRUE]
               PROVE  t = [file |-> s.file, current |-> s.current, used |-> s.used,
                           nDeleted |-> s.nDeleted, next |-> v, data |-> s.data,
                           changed |-> TRUE, last |-> s.last]
    OBVIOUS
  <1> QED BY DEF StoreValue

\* Where the bucket goes on is changed, when no value goes on there.
NextSet(s, t, at, v) ==
    /\ s.current # -1 /\ v \in Int
    /\ \A y \in DOMAIN at : \A k \in DOMAIN at[y] :
            k + 1 \in DOMAIN at[y] => at[y][k] # <<s.current, BucketLength - 1>>
    /\ t = [s EXCEPT !.next = v, !.changed = TRUE]

LEMMA NextIs ==
    ASSUME NEW s, NEW D, NEW at, NEW un, State(s, D, at, un), NEW v, NEW t,
           NextSet(s, t, at, v)
    PROVE  /\ State(t, D, at, un) /\ Kept(s, t, D)
           /\ t.file = s.file /\ t.current = s.current /\ t.last = s.last
           /\ t.used = s.used /\ t.next = v
           /\ Views(t, D)[s.current].next = v
           /\ \A c \in DOMAIN Views(s, D) : c # s.current => Views(t, D)[c] = Views(s, D)[c]
           /\ DOMAIN Views(t, D) = DOMAIN Views(s, D)
  <1> DEFINE V == Views(s, D)
             b == s.current
             p == [used |-> s.used, nDeleted |-> s.nDeleted, next |-> v, data |-> s.data]
             V2 == [V EXCEPT ![b] = p]
  <1>1. /\ Handler(s, D) /\ Laid(V, at) /\ Counted(V, at) /\ IsParts(V)
        /\ HoldsIn(V, at, un, DOMAIN at) /\ Full(V, at, {})
        /\ DOMAIN V = DOMAIN s.file \ D /\ b \in DOMAIN V /\ V[b] = Part(s)
    <2> HIDE DEF V, b
    <2>1. /\ Handler(s, D) /\ Laid(Views(s, D), at) /\ Counted(Views(s, D), at)
          /\ IsParts(Views(s, D)) /\ HoldsIn(Views(s, D), at, un, DOMAIN at)
          /\ Full(Views(s, D), at, {}) /\ DOMAIN Views(s, D) = DOMAIN s.file \ D
          /\ s.current \in DOMAIN s.file \ D /\ Views(s, D)[s.current] = Part(s)
      BY StateIs DEF NextSet
    <2> QED BY <2>1 DEF V, b
  <1>2. s \in StoreValue
    BY <1>1 DEF Handler
  <1>3. t = [file |-> s.file, current |-> s.current, used |-> s.used,
             nDeleted |-> s.nDeleted, next |-> v, data |-> s.data,
             changed |-> TRUE, last |-> s.last]
    BY <1>2, NextStore DEF NextSet
  <1>4. t \in StoreValue /\ Part(t) = p
    <2>1. v \in Int
      BY DEF NextSet
    <2> QED BY <1>2, <1>3, <2>1 DEF StoreValue, Part
  <1>5. Edited(s, t, p)
    BY <1>3, <1>4 DEF Edited
  <1>6. /\ t.file = s.file /\ t.current = s.current /\ t.last = s.last
        /\ t.used = s.used /\ t.next = v
    BY <1>3
  <1> HIDE DEF p
  <1>7. /\ Handler(t, D) /\ Written(t) /\ p \in PartValue /\ Views(t, D) = V2
    <2>1. s.current # -1
      BY DEF NextSet
    <2> QED BY <1>1, <1>5, <2>1, EditIs
  <1>8. /\ p.used = V[b].used /\ p.nDeleted = V[b].nDeleted /\ p.data = V[b].data
        /\ p.next = v
    BY <1>1 DEF Part, p
  <1> HIDE DEF V, b
  <1>9. EditHere(V, at, b, p, V2)
    BY <1>1, <1>7, <1>8 DEF EditHere, NextSet, b
  <1>10. V2[b] = p /\ DOMAIN V2 = DOMAIN V /\ \A c \in DOMAIN V : c # b => V2[c] = V[c]
    BY <1>1
  <1> HIDE DEF V2
  <1>11. Laid(V2, at) /\ Counted(V2, at)
    BY <1>1, <1>9, EditLaid
  <1>12. HoldsIn(V2, at, un, DOMAIN at)
    <2>1. \A c \in DOMAIN V : V2[c].data = V[c].data
      BY <1>8, <1>10
    <2> QED BY <1>1, <2>1, SameHolds
  <1>13. Full(V2, at, {})
    BY <1>1, <1>10 DEF Full
  <1>14. State(t, D, at, un) /\ Kept(s, t, D)
    BY <1>6, <1>7, <1>11, <1>12, <1>13 DEF State, Good, Kept
  <1>15. Views(t, D)[b].next = v
    BY <1>7, <1>8, <1>10
  <1> QED BY <1>6, <1>7, <1>10, <1>14, <1>15 DEF V, b

-----------------------------------------------------------------------------
(* putData: its loop.                                                        *)

\* The turns of putData.
LEMMA PutRuns ==
    ASSUME NEW s,
           NEW units,
           Len(units) \in Nat
    PROVE  \E after :
            /\ after[0] = [store |-> s, done |-> 0]
            /\ \A k \in 1..(Len(units)) : after[k] = PutTurn(after[k - 1], units)
            /\ PutData(s, units) = after[Len(units)].store
  <1> DEFINE n == Len(units)
             start == [store |-> s, done |-> 0]
             step(q, k) == PutTurn(q, units)
             turns(f, j) == [k \in 0..j |-> IF k = 0 THEN start ELSE step(f[k - 1], k)]
             T == {j \in Nat : \E f : f = turns(f, j)}
             after == CHOOSE f : f = turns(f, n)
  <1>1. PutData(s, units) = after[Len(units)].store
    BY DEF PutData
  <1>2. n \in Nat
    OBVIOUS
  <1> HIDE DEF n, start, step, after
  <1>3. 0 \in T
    <2>1. turns([k \in 0..0 |-> start], 0) = [k \in 0..0 |-> start]
      OBVIOUS
    <2> QED BY <2>1
  <1>4. ASSUME NEW j \in Nat, j \in T
        PROVE  j + 1 \in T
    <2>1. PICK f : f = turns(f, j)
      BY <1>4
    <2> DEFINE g == turns(f, j + 1)
               h == turns(g, j + 1)
    <2>2. ASSUME NEW k \in 0..(j + 1)
          PROVE  g[k] = h[k]
      <3>1. CASE k = 0
        BY <3>1
      <3>2. CASE k # 0
        <4>1. k - 1 \in 0..j
          BY <3>2
        <4> DEFINE i == k - 1
        <4>2. i \in 0..j /\ i \in 0..(j + 1) /\ k # 0
          BY <3>2, <4>1
        <4>3. g[k] = step(f[i], k) /\ h[k] = step(g[i], k)
          BY <3>2
        <4> HIDE DEF i, h
        <4>4. g[i] = f[i]
          BY <2>1, <4>2
        <4> QED BY <4>3, <4>4
      <3> QED BY <3>1, <3>2
    <2>3. g = [k \in 0..(j + 1) |-> g[k]] /\ h = [k \in 0..(j + 1) |-> h[k]]
      OBVIOUS
    <2> HIDE DEF g
    <2>4. h = turns(g, j + 1)
      OBVIOUS
    <2> HIDE DEF h
    <2>5. g = h
      BY <2>2, <2>3
    <2>6. g = turns(g, j + 1)
      BY <2>4, <2>5
    <2> QED BY <2>6
  <1>5. n \in T
    <2> HIDE DEF T
    <2> QED BY <1>2, <1>3, <1>4, Induction
  <1>6. after = turns(after, n)
    <2>1. \E f : f = turns(f, n)
      BY <1>5
    <2> QED BY <2>1 DEF after
  <1>7. after[0] = start /\ \A k \in 1..n : after[k] = step(after[k - 1], k)
    BY <1>2, <1>6
  <1> QED BY <1>1, <1>7 DEF n, start, step

\* After some turns: what is done of x is at its places, behind one another.
PutAt(q, at, s, D, at0, un, x, units) ==
    /\ Changed(at0, at, x) /\ Kept(s, q.store, D)
    /\ q.done \in 0..Len(units) /\ DOMAIN at[x] = 1..q.done
    /\ q.done > 0 => at[x][1] = <<s.current, s.used>>
    /\ q.done = 0 => q.store = s
    /\ q.done = Len(units) => State(q.store, D, at, un)
    /\ q.done < Len(units) => Ready(q.store, D, at, un)
    /\ q.done > 0 /\ q.done < Len(units) =>
            Follow(Views(q.store, D), at[x][q.done]) = <<q.store.current, q.store.used>>

\* What is put into the current bucket.
PutsHere(q, t, at0, un, x, units, n) ==
    /\ x \in DOMAIN at0 /\ units \in Seq(UnitValue) /\ un[x] = units
    /\ q.done < Len(units) /\ n \in Nat \ {0} /\ q.done + n <= Len(units)
    /\ q.store.used + n <= BucketLength
    /\ t = PutIn(q.store, n, units, q.done)

Puts(q, t, at2, s, D, at0, un, x, n) ==
    /\ Changed(at0, at2, x) /\ State(t, D, at2, un) /\ Kept(s, t, D)
    /\ DOMAIN at2[x] = 1..(q.done + n) /\ at2[x][1] = <<s.current, s.used>>
    /\ at2[x][q.done + n] = <<q.store.current, q.store.used + n - 1>>
    /\ t.current = q.store.current /\ t.current # -1

LEMMA PutsOnce ==
    ASSUME NEW q, NEW at, NEW s, NEW D, NEW at0, NEW un, NEW x, NEW units,
           PutAt(q, at, s, D, at0, un, x, units), NEW t, NEW n,
           PutsHere(q, t, at0, un, x, units, n)
    PROVE  \E at2 : Puts(q, t, at2, s, D, at0, un, x, n)
  <1>0. /\ x \in DOMAIN at0 /\ units \in Seq(UnitValue) /\ un[x] = units
        /\ q.done < Len(units) /\ n \in Nat \ {0} /\ q.done + n <= Len(units)
        /\ q.store.used + n <= BucketLength
        /\ t = PutIn(q.store, n, units, q.done)
    BY DEF PutsHere
  <1> DEFINE c == q.store.current
             u == q.store.used
             m == q.done
             V == Views(q.store, D)
  <1>1. /\ Good(q.store, D, at) /\ c # -1 /\ u < BucketLength /\ Handler(q.store, D)
        /\ HoldsIn(V, at, un, DOMAIN at) /\ Full(V, at, {c})
    BY <1>0 DEF PutAt, Ready, Good
  <1>2. /\ Changed(at0, at, x) /\ m \in Nat /\ DOMAIN at[x] = 1..m /\ x \in DOMAIN at
        /\ m > 0 => at[x][1] = <<s.current, s.used>>
        /\ m = 0 => q.store = s
        /\ m > 0 => Follow(V, at[x][m]) = <<c, u>>
    <2>1. q.done \in 0..Len(units) /\ Len(units) \in Nat
      BY DEF PutAt
    <2> QED BY <1>0, <2>1 DEF PutAt, Changed
  <1>3. u \in Nat
    <2>1. /\ c \in DOMAIN V /\ V[c] = Part(q.store)
      <3>1. DOMAIN Views(q.store, D) = DOMAIN q.store.file \ D
            /\ q.store.current \in DOMAIN q.store.file \ D
            /\ Views(q.store, D)[q.store.current] = Part(q.store)
        BY <1>1, ViewsAre
      <3> QED BY <3>1
    <2>2. V[c].used \in Nat
      BY <1>1, <2>1, BucketLengthIs DEF Good, Laid, UsedFits
    <2> QED BY <2>1, <2>2 DEF Part
  <1>4. PICK at2 : HasPut(q.store, t, D, at, at2, un, x, n, q.done)
    <2>1. CanPut(q.store, D, at, un, x, units, n, q.done)
      BY <1>0, <1>1, <1>2 DEF CanPut
    <2> QED BY <1>0, <2>1, PutOnce
  <1>5. Edited(q.store, t, PutPart(q.store, n, units, m))
    BY <1>0, <1>1, <1>2, <1>3, PutInIs
  <1>6. t.file = q.store.file /\ t.current = c /\ t.changed = TRUE
    BY <1>5 DEF Edited
  <1>7. Written(t) /\ DOMAIN Views(t, D) = DOMAIN q.store.file \ D
    BY <1>6 DEF Written, Views
  <1>8. Full(Views(t, D), at2, {})
    <2>1. DOMAIN V = DOMAIN q.store.file \ D
      BY DEF Views
    <2> HIDE DEF V
    <2> QED BY <1>0, <1>1, <1>4, <1>7, <2>1 DEF Full, HasPut, c
  <1>9. State(t, D, at2, un)
    <2>1. DOMAIN at2 = DOMAIN at
      BY <1>4 DEF HasPut, Changed
    <2> QED BY <1>4, <1>7, <1>8, <2>1 DEF State, HasPut
  <1>10. Kept(s, t, D)
    BY <1>6 DEF PutAt, Kept
  <1>11. Changed(at0, at2, x)
    BY <1>0, <1>2, <1>4 DEF Changed, HasPut
  <1> HIDE DEF c, u, m, V
  <1>12. /\ DOMAIN at2[x] = 1..(m + n)
         /\ \A k \in 1..(m + n) : k <= m => at2[x][k] = at[x][k]
         /\ \A k \in 1..(m + n) : k > m => at2[x][k] = <<c, u + k - m - 1>>
    <2>1. at2[x] = Longer(at[x], m, n, c, u)
      BY <1>4 DEF HasPut, m, c, u
    <2> QED BY SMTT(40), <1>0, <1>2, <1>3, <2>1, LongerIs
  <1>13. at2[x][m + n] = <<c, u + n - 1>>
    <2>1. m + n \in 1..(m + n) /\ m + n > m /\ u + (m + n) - m - 1 = u + n - 1
      BY <1>0, <1>2, <1>3
    <2> DEFINE k == m + n
    <2>2. k \in 1..(m + n) /\ k > m /\ u + k - m - 1 = u + n - 1
      BY <2>1
    <2> HIDE DEF k
    <2>3. at2[x][k] = <<c, u + k - m - 1>>
      BY <1>12, <2>2
    <2> QED BY <2>2, <2>3 DEF k
  <1>14. at2[x][1] = <<s.current, s.used>>
    <2>0. 1 \in 1..(m + n)
      BY <1>0, <1>2
    <2>1. CASE m > 0
      BY <1>2, <1>12, <2>0, <2>1
    <2>2. CASE m = 0
      <3>1. c = s.current /\ u = s.used
        BY <1>2, <2>2 DEF c, u
      <3>2. u + 1 - m - 1 = u
        BY <1>3, <2>2
      <3> QED BY <1>12, <2>0, <2>2, <3>1, <3>2
    <2> QED BY <1>2, <2>1, <2>2
  <1> QED BY <1>1, <1>6, <1>9, <1>10, <1>11, <1>12, <1>13, <1>14 DEF Puts, c, u, m

LEMMA KeptTwice ==
    ASSUME NEW s, NEW t, NEW r, NEW D, Kept(s, t, D), Kept(t, r, D)
    PROVE  Kept(s, r, D)
  BY DEF Kept

\* The new bucket after one that is full.
AtEnd(t, r, at, x, m) ==
    /\ t.current # -1 /\ x \in DOMAIN at /\ m \in Nat /\ m \in DOMAIN at[x]
    /\ at[x][m] = <<t.current, BucketLength - 1>> /\ m + 1 \notin DOMAIN at[x]
    /\ r = GetNewBucket(t, TRUE)

LEMMA ConcatIs ==
    ASSUME NEW t, NEW D, NEW at, NEW un, State(t, D, at, un), NEW x, NEW m, NEW r,
           AtEnd(t, r, at, x, m)
    PROVE  /\ Ready(r, D, at, un) /\ Kept(t, r, D)
           /\ Follow(Views(r, D), at[x][m]) = <<r.current, r.used>>
  <1> DEFINE b == LeastFree(t)
             l == [t EXCEPT !.next = b, !.changed = TRUE]
             c == t.current
  <1>1. Handler(t, D) /\ t \in StoreValue /\ c \in DOMAIN t.file \ D
        /\ DOMAIN Views(t, D) = DOMAIN t.file \ D /\ Apart(at)
    BY StateIs DEF Handler, Laid, AtEnd
  <1>2. b \in Nat /\ b \in Int
    BY <1>1, LeastFreeIs DEF Handler
  <1>3. ASSUME NEW y \in DOMAIN at, NEW k \in DOMAIN at[y], k + 1 \in DOMAIN at[y],
               at[y][k] = <<t.current, BucketLength - 1>>
        PROVE  FALSE
    <2>1. y = x /\ k = m
      BY <1>1, <1>3 DEF Apart, AtEnd
    <2> QED BY <1>3, <2>1 DEF AtEnd
  <1> HIDE DEF b
  <1>4. /\ State(l, D, at, un) /\ Kept(t, l, D) /\ l.file = t.file
        /\ Views(l, D)[c].next = b /\ DOMAIN Views(l, D) = DOMAIN Views(t, D)
    <2>1. NextSet(t, l, at, b)
      BY <1>2, <1>3 DEF NextSet, AtEnd
    <2> HIDE DEF l
    <2> QED BY <2>1, NextIs
  <1>5. r = GetNewBucket(l, FALSE) /\ b = LeastFree(l)
    <2>1. LeastFree(l) = LeastFree(t)
      BY <1>4 DEF LeastFree
    <2> HIDE DEF l
    <2>2. GetNewBucket(l, FALSE) = [FlushBucket(WithBucket(l, b)) EXCEPT
            !.current = b, !.used = 0, !.nDeleted = BucketLength,
            !.next = -1, !.last = b, !.data = NoData]
      BY <2>1 DEF GetNewBucket, b
    <2>3. r = [FlushBucket(WithBucket(l, b)) EXCEPT
            !.current = b, !.used = 0, !.nDeleted = BucketLength,
            !.next = -1, !.last = b, !.data = NoData]
      BY DEF GetNewBucket, AtEnd, l, b
    <2> QED BY <2>1, <2>2, <2>3 DEF b
  <1> HIDE DEF l
  <1>6. /\ Ready(r, D, at, un) /\ Kept(l, r, D) /\ r.current = b /\ r.used = 0
        /\ Agree(Views(l, D), Views(r, D))
        /\ b \notin DOMAIN l.file
    <2>1. IsNew(l, r, b)
      BY <1>5 DEF IsNew
    <2>2. State(l, D, at, un)
      BY <1>4
    <2>3. HasNew(l, r, b, D, at, un)
      BY <2>1, <2>2, NewState
    <2> QED BY <2>3 DEF HasNew
  <1>7. c # b /\ c \in DOMAIN Views(l, D)
    BY <1>1, <1>4, <1>6
  <1>8. Views(r, D)[c].next = b
    BY <1>4, <1>6, <1>7 DEF Agree
  <1>9. Follow(Views(r, D), at[x][m]) = <<b, 0>>
    <2>1. ~(BucketLength - 1 + 1 < BucketLength)
      BY BucketLengthIs
    <2>2. at[x][m][1] = c /\ at[x][m][2] = BucketLength - 1
      BY DEF AtEnd
    <2> QED BY <1>8, <2>1, <2>2 DEF Follow
  <1>10. Kept(t, r, D)
    BY <1>4, <1>6, KeptTwice
  <1> QED BY <1>6, <1>9, <1>10

LEMMA PutTurnIs ==
    ASSUME NEW q, NEW at, NEW s, NEW D, NEW at0, NEW un, NEW x \in DOMAIN at0,
           NEW units \in Seq(UnitValue), un[x] = units,
           PutAt(q, at, s, D, at0, un, x, units), q.done < Len(units)
    PROVE  \E at2 : /\ PutAt(PutTurn(q, units), at2, s, D, at0, un, x, units)
                    /\ PutTurn(q, units).done > q.done
  <1> DEFINE u == q.store.used
             n == Lesser(Len(units) - q.done, BucketLength - u)
             t == PutIn(q.store, n, units, q.done)
             r == PutTurn(q, units)
  <1>1. q.done \in Nat /\ Len(units) \in Nat /\ Good(q.store, D, at) /\ u < BucketLength
        /\ q.store.current # -1
    BY DEF PutAt, Ready
  <1>2. u \in Nat
    <2>1. DOMAIN Views(q.store, D) = DOMAIN q.store.file \ D
          /\ q.store.current \in DOMAIN q.store.file \ D
          /\ Views(q.store, D)[q.store.current] = Part(q.store)
      BY <1>1, ViewsAre DEF Good
    <2>2. Views(q.store, D)[q.store.current].used \in Nat
      BY <1>1, <2>1, BucketLengthIs DEF Good, Laid, UsedFits
    <2> QED BY <2>1, <2>2 DEF Part
  <1>3. /\ n \in Nat \ {0} /\ q.done + n <= Len(units) /\ u + n <= BucketLength
        /\ q.done + n < Len(units) => u + n = BucketLength
    <2>1. n = Lesser(Len(units) - q.done, BucketLength - u) /\ Len(units) - q.done \in Nat
          /\ BucketLength - u \in Nat /\ Len(units) - q.done > 0 /\ BucketLength - u > 0
      BY <1>1, <1>2, BucketLengthIs
    <2> HIDE DEF n, u
    <2> QED BY <1>1, <1>2, <2>1, BucketLengthIs DEF Lesser
  <1>4. r = [store |-> IF q.done + n = Len(units) THEN t ELSE GetNewBucket(t, TRUE),
             done |-> q.done + n]
    BY <1>1 DEF PutTurn, PutIn
  <1> HIDE DEF n, t, r
  <1>11. PICK at2 : Puts(q, t, at2, s, D, at0, un, x, n)
    <2>1. PutsHere(q, t, at0, un, x, units, n)
      BY <1>3 DEF PutsHere, t
    <2> QED BY <2>1, PutsOnce
  <1>5. /\ Changed(at0, at2, x) /\ State(t, D, at2, un) /\ Kept(s, t, D)
        /\ DOMAIN at2[x] = 1..(q.done + n) /\ at2[x][1] = <<s.current, s.used>>
        /\ at2[x][q.done + n] = <<q.store.current, u + n - 1>>
        /\ t.current = q.store.current /\ t.current # -1
    BY <1>11 DEF Puts
  <1>6. q.done + n > q.done /\ q.done + n \in 0..Len(units)
    BY <1>1, <1>3
  <1>7. CASE q.done + n = Len(units)
    <2>1. r.store = t /\ r.done = q.done + n
      BY <1>4, <1>7
    <2>2. PutAt(r, at2, s, D, at0, un, x, units)
      BY <1>1, <1>5, <1>6, <1>7, <2>1 DEF PutAt
    <2> QED BY <1>6, <2>1, <2>2 DEF r
  <1>8. CASE q.done + n # Len(units)
    <2>1. r.store = GetNewBucket(t, TRUE) /\ r.done = q.done + n /\ q.done + n < Len(units)
      BY <1>4, <1>6, <1>8
    <2> DEFINE m == q.done + n
    <2>2. m \in Nat /\ m \in 1..m /\ m + 1 \notin 1..m /\ u + n - 1 = BucketLength - 1
      BY SMTT(40), <1>1, <1>2, <1>3, <2>1
    <2> HIDE DEF m
    <2>3. x \in DOMAIN at2 /\ m \in DOMAIN at2[x] /\ m + 1 \notin DOMAIN at2[x]
          /\ at2[x][m] = <<t.current, BucketLength - 1>>
      BY <1>5, <2>2 DEF Changed, m
    <2>4. /\ Ready(r.store, D, at2, un) /\ Kept(t, r.store, D)
          /\ Follow(Views(r.store, D), at2[x][m]) = <<r.store.current, r.store.used>>
      <3> DEFINE new == r.store
      <3>1. new = GetNewBucket(t, TRUE)
        BY <2>1
      <3> HIDE DEF new
      <3>2. AtEnd(t, new, at2, x, m)
        BY <1>5, <2>2, <2>3, <3>1 DEF AtEnd
      <3>3. /\ Ready(new, D, at2, un) /\ Kept(t, new, D)
            /\ Follow(Views(new, D), at2[x][m]) = <<new.current, new.used>>
        BY <1>5, <3>2, ConcatIs
      <3> QED BY <3>3 DEF new
    <2>5. Kept(s, r.store, D)
      BY <1>5, <2>1, <2>4, KeptTwice
    <2>6. r.done = m /\ m > 0 /\ m # Len(units) /\ m < Len(units) /\ m \in 0..Len(units)
          /\ DOMAIN at2[x] = 1..m
      BY <1>1, <1>5, <1>6, <2>1 DEF m
    <2>7. PutAt(r, at2, s, D, at0, un, x, units)
      <3>1. r.done = m /\ DOMAIN at2[x] = 1..r.done /\ r.done \in 0..Len(units)
            /\ r.done < Len(units) /\ r.done # 0 /\ r.done # Len(units)
        BY <2>6
      <3>2. Follow(Views(r.store, D), at2[x][r.done]) = <<r.store.current, r.store.used>>
        BY <2>4, <3>1
      <3> HIDE DEF m
      <3> QED BY <1>5, <2>4, <2>5, <3>1, <3>2 DEF PutAt
    <2> QED BY <1>6, <2>1, <2>7 DEF r
  <1> QED BY <1>7, <1>8

\* x has m units now, from a place on.
PutTo(s, t, D, at, at2, un, x, m, place) ==
    /\ Changed(at, at2, x) /\ State(t, D, at2, un) /\ Kept(s, t, D)
    /\ DOMAIN at2[x] = 1..m /\ at2[x][1] = place

\* The units of x are put behind what the current bucket has.
LEMMA PutDataIs ==
    ASSUME NEW s, NEW D, NEW at, NEW un, Ready(s, D, at, un),
           NEW x \in DOMAIN at, DOMAIN at[x] = {},
           NEW units \in Seq(UnitValue), un[x] = units, Len(units) > 0
    PROVE  \E at2 : PutTo(s, PutData(s, units), D, at, at2, un, x, Len(units),
                          <<s.current, s.used>>)
  <1> DEFINE n == Len(units)
             good(q) == \E at2 : PutAt(q, at2, s, D, at, un, x, units)
  <1>1. n \in Nat /\ n > 0
    OBVIOUS
  <1>2. PICK after : /\ after[0] = [store |-> s, done |-> 0]
                     /\ \A k \in 1..n : after[k] = PutTurn(after[k - 1], units)
                     /\ PutData(s, units) = after[n].store
    BY <1>1, PutRuns
  <1>3. PutAt(after[0], at, s, D, at, un, x, units)
    <2>1. after[0].store = s /\ after[0].done = 0
      BY <1>2
    <2>2. 0 \in 0..n /\ 1..0 = {} /\ ~(0 > 0) /\ 0 # n
      BY <1>1
    <2> QED BY <2>1, <2>2 DEF PutAt, Changed, Kept
  <1>4. ASSUME NEW q, good(q)
        PROVE  q.done \in 0..n /\ (q.done = n => PutTurn(q, units) = q)
    BY <1>4 DEF PutAt, PutTurn
  <1>5. ASSUME NEW q, good(q)
        PROVE  good(PutTurn(q, units))
               /\ (PutTurn(q, units).done > q.done \/ q.done = n)
    <2>1. CASE q.done = n
      BY <1>4, <1>5, <2>1
    <2>2. CASE q.done < n
      BY <1>5, <2>2, PutTurnIs
    <2> QED BY <1>1, <1>4, <1>5, <2>1, <2>2
  <1> HIDE DEF good
  <1> DEFINE T == {k \in 0..n : good(after[k]) /\ (after[k].done >= k \/ after[k].done = n)}
  <1>6. \A k \in 0..n : k \in T
    <2>1. 0 \in T
      <3>1. good(after[0]) /\ after[0].done = 0
        BY <1>2, <1>3 DEF good
      <3> QED BY <1>1, <3>1
    <2>2. ASSUME NEW k \in 1..n, k - 1 \in T
          PROVE  k \in T
      <3> DEFINE q == after[k - 1]
      <3>1. good(q) /\ (q.done >= k - 1 \/ q.done = n) /\ after[k] = PutTurn(q, units)
        BY <1>2, <2>2
      <3> HIDE DEF q
      <3>2. /\ good(after[k]) /\ (after[k].done > q.done \/ q.done = n)
            /\ q.done \in 0..n /\ (q.done = n => after[k] = q)
            /\ after[k].done \in 0..n
        BY <1>4, <1>5, <3>1
      <3>3. after[k].done >= k \/ after[k].done = n
        BY <1>1, <3>1, <3>2
      <3>4. k \in 0..n
        BY <1>1
      <3> QED BY <3>2, <3>3, <3>4
    <2> HIDE DEF T
    <2> QED BY <1>1, <2>1, <2>2, TurnInduction
  <1>7. good(after[n]) /\ after[n].done = n
    <2>1. n \in T
      BY <1>1, <1>6
    <2>2. good(after[n]) /\ (after[n].done >= n \/ after[n].done = n)
      BY <2>1
    <2> QED BY <1>1, <1>4, <2>2
  <1>8. PICK at2 : PutAt(after[n], at2, s, D, at, un, x, units)
    BY <1>7 DEF good
  <1>9. PutTo(s, after[n].store, D, at, at2, un, x, n, <<s.current, s.used>>)
    BY <1>1, <1>7, <1>8 DEF PutAt, PutTo
  <1> QED BY <1>2, <1>9

-----------------------------------------------------------------------------
(* remove.                                                                   *)

\* What is cut out of the current bucket.
CutIn(s, offset, n) ==
    [s EXCEPT !.nDeleted = @ + n, !.changed = TRUE,
              !.data = [i \in Places |-> IF i - offset \in 0..(n - 1) THEN Zero ELSE @[i]],
              !.used = IF offset + n = @ THEN offset ELSE @]

CutData(s, offset, n) ==
    [i \in Places |-> IF i - offset \in 0..(n - 1) THEN Zero ELSE s.data[i]]

CutPart(s, offset, n) ==
    [used |-> IF offset + n = s.used THEN offset ELSE s.used,
     nDeleted |-> s.nDeleted + n, next |-> s.next, data |-> CutData(s, offset, n)]

LEMMA CutInIs ==
    ASSUME NEW s, NEW D, Handler(s, D), NEW offset \in Nat, NEW n \in Nat
    PROVE  /\ Edited(s, CutIn(s, offset, n), CutPart(s, offset, n))
           /\ CutIn(s, offset, n).next = s.next
           /\ CutIn(s, offset, n).nDeleted = s.nDeleted + n
  <1> DEFINE t == CutIn(s, offset, n)
             data == CutData(s, offset, n)
             used == IF offset + n = s.used THEN offset ELSE s.used
  <1>1. s \in StoreValue /\ s.data \in [Places -> UnitValue] /\ s.used \in Int
    BY DEF Handler, StoreValue
  <1>2. data \in [Places -> UnitValue] /\ used \in Int
    BY <1>1 DEF CutData, Zero, UnitValue
  <1> HIDE DEF data, used
  <1>3. t = [s EXCEPT !.nDeleted = s.nDeleted + n, !.changed = TRUE, !.data = data,
                      !.used = used]
    BY <1>1 DEF CutIn, CutData, StoreValue, data, used
  <1> HIDE DEF t
  <1>4. t = [file |-> s.file, current |-> s.current, used |-> used,
             nDeleted |-> s.nDeleted + n, next |-> s.next, data |-> data,
             changed |-> TRUE, last |-> s.last]
    BY <1>1, <1>3 DEF StoreValue
  <1>5. t \in StoreValue
    BY <1>1, <1>2, <1>4 DEF StoreValue
  <1>6. Part(t) = CutPart(s, offset, n)
    BY <1>4 DEF Part, CutPart, data, used
  <1> QED BY <1>4, <1>5, <1>6 DEF Edited, t

CanCut(s, D, at, un, x, lo, hi, offset, n) ==
    /\ State(s, D, at, un) /\ s.current # -1
    /\ x \in DOMAIN at /\ lo \in Nat /\ hi \in Nat /\ DOMAIN at[x] = lo..hi
    /\ n \in Nat /\ lo + n - 1 <= hi /\ offset \in Nat /\ offset + n <= BucketLength
    /\ n > 0 => at[x][lo] = <<s.current, offset>>

NoneGoesOn(at, b) ==
    \A y \in DOMAIN at : \A k \in DOMAIN at[y] :
        k + 1 \in DOMAIN at[y] => at[y][k] # <<b, BucketLength - 1>>

HasCut(s, t, D, at, at2, un, x, lo, hi, offset, n) ==
    /\ Changed(at, at2, x) /\ DOMAIN at2[x] = (lo + n)..hi
    /\ \A k \in (lo + n)..hi : at2[x][k] = at[x][k]
    /\ Good(t, D, at2) /\ Written(t) /\ HoldsIn(Views(t, D), at2, un, DOMAIN at2)
    /\ Full(Views(t, D), at2, {t.current})
    /\ t.file = s.file /\ t.current = s.current /\ t.changed = TRUE
    /\ t.next = s.next
    /\ (n > 0 /\ offset + n = BucketLength) \/ NoneGoesOn(at, s.current)
            => NoneGoesOn(at2, s.current)

LEMMA CutOnce ==
    ASSUME NEW s, NEW D, NEW at, NEW un, NEW x, NEW lo, NEW hi, NEW offset, NEW n,
           CanCut(s, D, at, un, x, lo, hi, offset, n)
    PROVE  \E at2 : HasCut(s, CutIn(s, offset, n), D, at, at2, un, x, lo, hi, offset, n)
  <1> DEFINE t == CutIn(s, offset, n)
             V == Views(s, D)
             b == s.current
             p == CutPart(s, offset, n)
             V2 == [V EXCEPT ![b] = p]
             at2 == [at EXCEPT ![x] = [k \in (lo + n)..hi |-> at[x][k]]]
  <1>0. /\ x \in DOMAIN at /\ lo \in Nat /\ hi \in Nat /\ DOMAIN at[x] = lo..hi
        /\ n \in Nat /\ lo + n - 1 <= hi /\ offset \in Nat /\ offset + n <= BucketLength
        /\ n > 0 => at[x][lo] = <<s.current, offset>>
        /\ State(s, D, at, un) /\ s.current # -1
    BY DEF CanCut
  <1>1. /\ Handler(s, D) /\ Laid(V, at) /\ Counted(V, at) /\ IsParts(V)
        /\ HoldsIn(V, at, un, DOMAIN at) /\ Full(V, at, {})
        /\ b \in DOMAIN V /\ V[b] = Part(s) /\ DOMAIN V = DOMAIN s.file \ D
    <2> HIDE DEF V, b
    <2>1. /\ Handler(s, D) /\ Laid(Views(s, D), at) /\ Counted(Views(s, D), at)
          /\ IsParts(Views(s, D)) /\ HoldsIn(Views(s, D), at, un, DOMAIN at)
          /\ Full(Views(s, D), at, {}) /\ DOMAIN Views(s, D) = DOMAIN s.file \ D
          /\ s.current \in DOMAIN s.file \ D /\ Views(s, D)[s.current] = Part(s)
      BY <1>0, StateIs
    <2> QED BY <2>1 DEF V, b
  <1>2. V[b].used = s.used /\ V[b].nDeleted = s.nDeleted /\ V[b].next = s.next
        /\ V[b].data = s.data
    BY <1>1 DEF Part
  <1>3. Edited(s, t, p) /\ t.next = s.next
    BY <1>0, <1>1, CutInIs
  <1> HIDE DEF t
  <1>4. t.file = s.file /\ t.current = s.current /\ t.changed = TRUE
    BY <1>3 DEF Edited
  <1>5. Handler(t, D) /\ Written(t) /\ Views(t, D) = V2 /\ p \in PartValue
    BY <1>0, <1>1, <1>3, EditIs
  <1>6. /\ p.used = IF offset + n = V[b].used THEN offset ELSE V[b].used
        /\ p.nDeleted = V[b].nDeleted + n /\ p.next = V[b].next
        /\ \A i \in Places : ~(i \in offset..(offset + n - 1)) => p.data[i] = V[b].data[i]
    <2>1. \A i \in Places : ~(i \in offset..(offset + n - 1)) => ~(i - offset \in 0..(n - 1))
      BY <1>0, BucketLengthIs DEF Places
    <2> QED BY <1>2, <2>1 DEF CutPart, CutData
  <1>7. \A k \in lo..(lo + n - 1) : at[x][k] = <<b, offset + (k - lo)>>
    <2>1. Begins(at, x, lo, n, b, offset)
      BY <1>0 DEF Begins
    <2> HIDE DEF V, b
    <2>2. InARow(at, x, lo, n, b, offset)
      BY <1>1, <2>1, RunIs
    <2> QED BY <2>2 DEF InARow
  <1> HIDE DEF p, V, b
  <1>8. CutHere(V, at, x, b, offset, n, lo, hi, p, V2, at2)
    BY <1>0, <1>1, <1>5, <1>6, <1>7 DEF CutHere
  <1> HIDE DEF V2, at2
  <1>9. Laid(V2, at2) /\ Counted(V2, at2)
    BY <1>1, <1>8, CutLaid
  <1>10. /\ DOMAIN at2 = DOMAIN at
         /\ \A y \in DOMAIN at : y # x => at2[y] = at[y]
         /\ DOMAIN at2[x] = (lo + n)..hi
         /\ \A k \in (lo + n)..hi : at2[x][k] = at[x][k]
         /\ \A y \in DOMAIN at : \A k \in DOMAIN at2[y] :
                k \in DOMAIN at[y] /\ at2[y][k] = at[y][k]
         /\ \A y \in DOMAIN at : \A k \in DOMAIN at2[y] :
                at[y][k][1] = b => ~(at[y][k][2] \in offset..(offset + n - 1))
    BY <1>1, <1>8, CutIs
  <1>11. HoldsIn(V2, at2, un, DOMAIN at2)
    <2> DEFINE S == DOMAIN at
    <2>2. S \in SUBSET DOMAIN at /\ HoldsIn(V, at, un, S)
      BY <1>1
    <2> HIDE DEF S
    <2>3. HoldsIn(V2, at2, un, S)
      BY <1>1, <1>6, <1>8, <2>2, CutHolds
    <2> QED BY <1>10, <2>3 DEF S
  <1>12. Full(V2, at2, {b})
    <2>1. \A c \in DOMAIN V \ {b} : LiveIn(at2, c) = LiveIn(at, c)
      BY <1>1, <1>8, CutLive
    <2>2. DOMAIN V2 = DOMAIN V
      BY DEF V2
    <2> QED BY <1>1, <2>1, <2>2 DEF Full
  <1>13. ASSUME (n > 0 /\ offset + n = BucketLength) \/ NoneGoesOn(at, b)
         PROVE  NoneGoesOn(at2, b)
    <2> SUFFICES ASSUME NEW y \in DOMAIN at2, NEW k \in DOMAIN at2[y], k + 1 \in DOMAIN at2[y],
                        at2[y][k] = <<b, BucketLength - 1>>
                 PROVE  FALSE
      BY DEF NoneGoesOn
    <2>1. /\ y \in DOMAIN at /\ k \in DOMAIN at[y] /\ k + 1 \in DOMAIN at[y]
          /\ at[y][k] = <<b, BucketLength - 1>>
      BY <1>10
    <2>2. at[y][k][1] = b /\ at[y][k][2] = BucketLength - 1
      BY <2>1
    <2>3. ~(BucketLength - 1 \in offset..(offset + n - 1))
      BY <1>10, <2>1, <2>2
    <2>4. ~(n > 0 /\ offset + n = BucketLength)
      BY <1>0, <2>3, BucketLengthIs
    <2> QED BY <1>13, <2>1, <2>4 DEF NoneGoesOn
  <1>14. Good(t, D, at2)
    BY <1>5, <1>9 DEF Good
  <1>15. Changed(at, at2, x)
    BY <1>10 DEF Changed
  <1>16. HasCut(s, t, D, at, at2, un, x, lo, hi, offset, n)
    BY <1>3, <1>4, <1>5, <1>10, <1>11, <1>12, <1>13, <1>14, <1>15 DEF HasCut, b
  <1> QED BY <1>16 DEF t

\* Nothing is left in the bucket, or it stays.
MayLeave(s, D, at, un) ==
    /\ Good(s, D, at) /\ Written(s) /\ s.current # -1
    /\ HoldsIn(Views(s, D), at, un, DOMAIN at) /\ Full(Views(s, D), at, {s.current})

LeftBy(s) == IF s.nDeleted = BucketLength THEN GivenBack(s) ELSE s

Leaves(s, t, D, at, un) ==
    /\ State(t, D, at, un) /\ Kept(s, t, D) /\ t \in StoreValue
    /\ t = s \/ (t.current = -1 /\ t.next = -1)

LEMMA LeftIs ==
    ASSUME NEW s, NEW D, NEW at, NEW un, MayLeave(s, D, at, un)
    PROVE  Leaves(s, LeftBy(s), D, at, un)
  <1> DEFINE V == Views(s, D)
             b == s.current
             t == LeftBy(s)
  <1>0. /\ Good(s, D, at) /\ Written(s) /\ s.current # -1
        /\ HoldsIn(Views(s, D), at, un, DOMAIN at) /\ Full(Views(s, D), at, {s.current})
    BY DEF MayLeave
  <1>1. /\ Handler(s, D) /\ Laid(V, at) /\ Counted(V, at) /\ IsParts(V)
        /\ b \in DOMAIN V /\ V[b] = Part(s) /\ DOMAIN V = DOMAIN s.file \ D
    <2> HIDE DEF V, b
    <2>1. Handler(s, D) /\ Laid(Views(s, D), at) /\ Counted(Views(s, D), at)
      BY <1>0 DEF Good
    <2>2. /\ IsParts(Views(s, D)) /\ DOMAIN Views(s, D) = DOMAIN s.file \ D
          /\ s.current \in DOMAIN s.file \ D /\ Views(s, D)[s.current] = Part(s)
      BY <1>0, <2>1, ViewsAre
    <2> QED BY <2>1, <2>2 DEF V, b
  <1>2. CountedIn(V, at, b) /\ V[b].nDeleted = s.nDeleted /\ s.nDeleted \in Int
    BY <1>1 DEF Counted, Part, Handler, StoreValue
  <1>3. Cardinality(LiveIn(at, b)) \in 0..BucketLength
        /\ (Cardinality(LiveIn(at, b)) = 0 <=> LiveIn(at, b) = {})
    BY LiveIs
  <1>4. CASE s.nDeleted = BucketLength
    <2>1. LiveIn(at, b) = {}
      BY <1>2, <1>3, <1>4, BucketLengthIs DEF CountedIn
    <2> DEFINE V2 == [c \in DOMAIN V \ {b} |-> V[c]]
    <2>2. t = GivenBack(s)
      BY <1>4 DEF LeftBy
    <2>3. /\ Handler(t, D) /\ Written(t) /\ t.current = -1 /\ t.next = -1
          /\ Views(t, D) = [c \in (DOMAIN s.file \ D) \ {b} |-> V[c]]
          /\ \A c \in D : t.file[c] = s.file[c]
      <3>1. Shrunk(s, GivenBack(s), D, s.current)
        BY <1>0, <1>1, GivenBackIs
      <3> QED BY <2>2, <3>1 DEF Shrunk
    <2>4. Views(t, D) = V2
      BY <1>1, <2>3
    <2>5. \A c \in DOMAIN V \ {b} : V2[c] = V[c]
      OBVIOUS
    <2>6. DOMAIN V2 = DOMAIN V \ {b} /\ V2 = [c \in DOMAIN V \ {b} |-> V[c]]
      OBVIOUS
    <2> HIDE DEF V2, V, b
    <2>7. Laid(V2, at) /\ Counted(V2, at)
      BY <1>1, <2>1, <2>6, DropLaid
    <2>8. HoldsIn(V2, at, un, DOMAIN at)
      <3>1. \A c \in DOMAIN V : LiveIn(at, c) # {} => V2[c].data = V[c].data
        BY <2>1, <2>5
      <3>2. HoldsIn(V, at, un, DOMAIN at)
        BY <1>0 DEF V
      <3> DEFINE S == DOMAIN at
      <3>3. S \in SUBSET DOMAIN at /\ HoldsIn(V, at, un, S)
        BY <3>2
      <3> HIDE DEF S
      <3>4. HoldsIn(V2, at, un, S)
        BY <1>1, <3>1, <3>3, SameHolds
      <3> QED BY <3>4 DEF S
    <2>9. Full(V2, at, {})
      BY <1>0, <2>6 DEF Full, V, b
    <2> QED BY <2>3, <2>4, <2>7, <2>8, <2>9 DEF Leaves, State, Good, Kept, Handler
  <1>5. CASE s.nDeleted # BucketLength
    <2>1. t = s
      BY <1>5 DEF LeftBy
    <2>2. ShapeOnce => LiveIn(at, b) # {}
      BY <1>2, <1>3, <1>5, BucketLengthIs DEF CountedIn
    <2>3. Full(V, at, {})
      BY <1>0, <2>2 DEF Full
    <2> QED BY <1>0, <1>1, <2>1, <2>3 DEF Leaves, State, Kept, Handler
  <1> QED BY <1>4, <1>5

\* What is to be removed of x goes on here, or behind this bucket.
GoesOn(q, w, D, at, un, x, lo) ==
    /\ State(w, D, at, un) /\ Kept(q.store, w, D) /\ w.current = q.bucket /\ w.current # -1
    /\ q.offset \in 0..BucketLength
    /\ q.offset < BucketLength => at[x][lo] = <<q.bucket, q.offset>>
    /\ q.offset = BucketLength =>
            at[x][lo] = <<w.next, 0>> /\ NoneGoesOn(at, q.bucket)

\* After some turns: what is not yet removed of x is at its places.
CutAt(q, at, s, D, at0, un, x, hi) ==
    /\ Changed(at0, at, x) /\ x \in DOMAIN at0 /\ Kept(s, q.store, D)
    /\ q.length \in Nat /\ hi \in Nat /\ q.length <= hi + 1
    /\ DOMAIN at[x] = (hi - q.length + 1)..hi
    /\ q.length = 0 => State(q.store, D, at, un)
    /\ q.length > 0 =>
            GoesOn(q, WithCurrent(q.store, q.bucket), D, at, un, x, hi - q.length + 1)

\* The units behind those of a bucket.
LEMMA BehindIs ==
    ASSUME NEW s, NEW D, NEW at, NEW un, NEW x, NEW lo, NEW hi, NEW offset, NEW n,
           CanCut(s, D, at, un, x, lo, hi, offset, n),
           n > 0, offset + n = BucketLength, lo + n <= hi
    PROVE  at[x][lo + n] = <<s.next, 0>>
  <1> DEFINE V == Views(s, D)
             b == s.current
  <1>0. /\ x \in DOMAIN at /\ lo \in Nat /\ hi \in Nat /\ DOMAIN at[x] = lo..hi
        /\ n \in Nat /\ lo + n - 1 <= hi /\ offset \in Nat /\ offset + n <= BucketLength
        /\ n > 0 => at[x][lo] = <<s.current, offset>>
        /\ State(s, D, at, un) /\ s.current # -1
    BY DEF CanCut
  <1>1. Laid(V, at) /\ IsParts(V) /\ V[b] = Part(s)
    <2> HIDE DEF V, b
    <2>1. /\ Laid(Views(s, D), at) /\ IsParts(Views(s, D))
          /\ Views(s, D)[s.current] = Part(s)
      BY <1>0, StateIs
    <2> QED BY <2>1 DEF V, b
  <1>2. V[b].next = s.next
    BY <1>1 DEF Part
  <1> DEFINE k == lo + n - 1
  <1>3. k \in lo..(lo + n - 1) /\ k \in DOMAIN at[x] /\ k + 1 \in DOMAIN at[x] /\ k + 1 = lo + n
        /\ offset + (k - lo) = BucketLength - 1
    BY SMTT(40), <1>0
  <1> HIDE DEF k, V, b
  <1>4. at[x][k] = <<b, offset + (k - lo)>>
    <2>1. Begins(at, x, lo, n, b, offset)
      BY <1>0 DEF Begins, b
    <2>2. InARow(at, x, lo, n, b, offset)
      BY <1>1, <2>1, RunIs
    <2>3. k \in lo..(lo + n - 1)
      BY <1>3
    <2> QED BY <2>2, <2>3 DEF InARow
  <1>5. at[x][k + 1] = Follow(V, at[x][k])
    BY <1>0, <1>1, <1>3 DEF Laid, Linked
  <1>6. at[x][k] = <<b, BucketLength - 1>> /\ ~(BucketLength - 1 + 1 < BucketLength)
    BY <1>3, <1>4, BucketLengthIs
  <1>7. Follow(V, at[x][k]) = <<V[b].next, 0>>
    BY <1>6 DEF Follow
  <1> QED BY <1>2, <1>3, <1>5, <1>7

\* The rest of x is in another bucket, and this one goes on nowhere.
Unlinked(s) == [s EXCEPT !.next = -1]

LEMMA UnlinkedIs ==
    ASSUME NEW s, NEW t, NEW D, NEW at, NEW un, Leaves(s, t, D, at, un), s.changed = TRUE,
           s.current # -1, NoneGoesOn(at, s.current)
    PROVE  State(Unlinked(t), D, at, un) /\ Kept(s, Unlinked(t), D)
  <1>1. /\ State(t, D, at, un) /\ Kept(s, t, D) /\ t \in StoreValue
        /\ t = s \/ (t.current = -1 /\ t.next = -1)
    BY DEF Leaves
  <1>2. CASE t.next = -1
    <2>1. Unlinked(t) = t
      BY <1>1, <1>2 DEF Unlinked, StoreValue
    <2> QED BY <1>1, <2>1
  <1>3. CASE t = s
    <2> DEFINE r == Unlinked(t)
    <2>1. r = [s EXCEPT !.next = -1, !.changed = TRUE]
      BY <1>1, <1>3 DEF Unlinked, StoreValue
    <2> HIDE DEF r
    <2>2. NextSet(s, r, at, -1)
      BY <2>1 DEF NextSet, NoneGoesOn
    <2>3. State(r, D, at, un) /\ Kept(s, r, D)
      BY <1>1, <1>3, <2>2, NextIs
    <2> QED BY <2>3 DEF r
  <1> QED BY <1>1, <1>2, <1>3

LEMMA RemoveTurnIs ==
    ASSUME NEW q, NEW at, NEW s, NEW D, NEW at0, NEW un, NEW x, NEW hi,
           CutAt(q, at, s, D, at0, un, x, hi), q.length > 0
    PROVE  \E at2 : /\ CutAt(RemoveTurn(q), at2, s, D, at0, un, x, hi)
                    /\ RemoveTurn(q).length <= q.length /\ RemoveTurn(q).offset = 0
                    /\ q.offset < BucketLength => RemoveTurn(q).length < q.length
  <1> DEFINE w == WithCurrent(q.store, q.bucket)
             lo == hi - q.length + 1
             n == Lesser(q.length, BucketLength - q.offset)
             cut == CutIn(w, q.offset, n)
             left == LeftBy(cut)
             r == RemoveTurn(q)
  <1>1. /\ Changed(at0, at, x) /\ x \in DOMAIN at0 /\ Kept(s, q.store, D)
        /\ q.length \in Nat /\ hi \in Nat /\ q.length <= hi + 1
        /\ DOMAIN at[x] = lo..hi
    BY DEF CutAt
  <1>2. /\ State(w, D, at, un) /\ Kept(q.store, w, D) /\ w.current = q.bucket /\ w.current # -1
        /\ q.offset \in 0..BucketLength
        /\ q.offset < BucketLength => at[x][lo] = <<q.bucket, q.offset>>
        /\ q.offset = BucketLength => at[x][lo] = <<w.next, 0>> /\ NoneGoesOn(at, q.bucket)
    BY DEF CutAt, GoesOn
  <1>3. r = [store |-> IF n = q.length THEN left ELSE Unlinked(left),
             bucket |-> cut.next, offset |-> 0, length |-> q.length - n]
    <2>1. q.length # 0
      BY <1>1
    <2> HIDE DEF lo
    <2> QED BY <2>1 DEF RemoveTurn, CutIn, LeftBy, Unlinked
  <1>4. /\ n \in Nat /\ n <= q.length /\ q.offset + n <= BucketLength /\ q.offset \in Nat
        /\ n = 0 => q.offset = BucketLength
        /\ n < q.length => q.offset + n = BucketLength
        /\ q.offset < BucketLength => n > 0
    <2>1. n = Lesser(q.length, BucketLength - q.offset) /\ q.offset \in Nat
          /\ BucketLength - q.offset \in Nat
      BY <1>2, BucketLengthIs
    <2> HIDE DEF n, w, lo, cut, left, r
    <2> QED BY SMTT(40), <1>1, <1>2, <2>1, BucketLengthIs DEF Lesser
  <1>5. lo \in Nat /\ lo + n - 1 <= hi /\ lo + n = hi - (q.length - n) + 1
        /\ q.length - n \in Nat /\ q.length - n <= hi + 1
    <2> HIDE DEF n, w, cut, left, r
    <2>1. ASSUME NEW length \in Nat, NEW m \in Nat, NEW end \in Nat, length <= end + 1, m <= length
          PROVE  /\ end - length + 1 \in Nat /\ (end - length + 1) + m - 1 <= end
                 /\ (end - length + 1) + m = end - (length - m) + 1
                 /\ length - m \in Nat /\ length - m <= end + 1
      BY <2>1
    <2> QED BY <1>1, <1>4, <2>1
  <1> HIDE DEF w, lo, n, cut, left, r
  <1>6. CanCut(w, D, at, un, x, lo, hi, q.offset, n)
    <2>1. x \in DOMAIN at
      BY <1>1 DEF Changed
    <2>2. n > 0 => at[x][lo] = <<w.current, q.offset>>
      <3>1. n > 0 => q.offset < BucketLength
        BY <1>4, BucketLengthIs
      <3> QED BY <1>2, <3>1
    <2> QED BY <1>1, <1>2, <1>4, <1>5, <2>1, <2>2 DEF CanCut
  <1>7. PICK at2 : HasCut(w, cut, D, at, at2, un, x, lo, hi, q.offset, n)
    BY <1>6, CutOnce DEF cut
  <1>8. /\ Changed(at, at2, x) /\ DOMAIN at2[x] = (lo + n)..hi
        /\ \A k \in (lo + n)..hi : at2[x][k] = at[x][k]
        /\ Good(cut, D, at2) /\ Written(cut) /\ HoldsIn(Views(cut, D), at2, un, DOMAIN at2)
        /\ Full(Views(cut, D), at2, {cut.current})
        /\ cut.file = w.file /\ cut.current = w.current /\ cut.changed = TRUE
        /\ cut.next = w.next
        /\ (n > 0 /\ q.offset + n = BucketLength) \/ NoneGoesOn(at, w.current)
                => NoneGoesOn(at2, w.current)
    BY <1>7 DEF HasCut
  <1>9. Leaves(cut, left, D, at2, un)
    <2>1. MayLeave(cut, D, at2, un)
      BY <1>2, <1>8 DEF MayLeave
    <2> QED BY <2>1, LeftIs DEF left
  <1>10. Kept(s, cut, D) /\ Kept(s, left, D)
    <2>1. Kept(s, w, D)
      BY <1>1, <1>2, KeptTwice
    <2>2. Kept(s, cut, D)
      BY <1>8, <2>1 DEF Kept
    <2>3. Kept(cut, left, D)
      BY <1>9 DEF Leaves
    <2> QED BY <2>2, <2>3, KeptTwice
  <1>11. Changed(at0, at2, x)
    BY <1>1, <1>8 DEF Changed
  <1>12. /\ r.length = q.length - n /\ r.offset = 0 /\ r.bucket = w.next
         /\ r.store = IF n = q.length THEN left ELSE Unlinked(left)
    BY <1>3, <1>8
  <1>13. CASE n = q.length
    <2>1. r.store = left /\ r.length = 0
      BY <1>1, <1>12, <1>13
    <2>2. State(left, D, at2, un)
      BY <1>9 DEF Leaves
    <2>3. DOMAIN at2[x] = (hi - r.length + 1)..hi
      BY <1>5, <1>8, <1>12
    <2>4. CutAt(r, at2, s, D, at0, un, x, hi)
      BY <1>1, <1>10, <1>11, <2>1, <2>2, <2>3 DEF CutAt
    <2> QED BY <1>1, <1>12, <2>1, <2>4 DEF r
  <1>14. CASE n # q.length
    <2> DEFINE u == r.store
               b == r.bucket
               v == WithCurrent(u, b)
    <2>1. u = Unlinked(left) /\ n < q.length /\ q.offset + n = BucketLength
          /\ lo + n <= hi
      BY SMTT(40), <1>1, <1>4, <1>5, <1>12, <1>14
    <2>2. NoneGoesOn(at2, w.current)
      <3>1. CASE n > 0
        BY <1>8, <2>1, <3>1
      <3>2. CASE n = 0
        BY <1>2, <1>4, <1>8, <3>2
      <3> QED BY <1>4, <3>1, <3>2
    <2>3. State(u, D, at2, un) /\ Kept(cut, u, D)
      <3>1. cut.current # -1 /\ NoneGoesOn(at2, cut.current) /\ cut.changed = TRUE
        BY <1>2, <1>8, <2>2
      <3>2. State(Unlinked(left), D, at2, un) /\ Kept(cut, Unlinked(left), D)
        BY <1>9, <3>1, UnlinkedIs
      <3> QED BY <2>1, <3>2
    <2>4. at[x][lo + n] = <<w.next, 0>>
      <3>1. CASE n > 0
        BY <1>6, <2>1, <3>1, BehindIs
      <3>2. CASE n = 0
        BY <1>2, <1>4, <1>5, <3>2
      <3> QED BY <1>4, <3>1, <3>2
    <2> HIDE DEF u, b
    <2>5. at2[x][lo + n] = <<b, 0>> /\ lo + n \in DOMAIN at2[x] /\ x \in DOMAIN at2
      <3>1. lo + n \in (lo + n)..hi
        BY SMTT(40), <1>1, <1>4, <1>5, <2>1
      <3> QED BY <1>1, <1>8, <1>11, <1>12, <2>4, <3>1 DEF Changed, b
    <2>6. b \in DOMAIN u.file \ D
      <3>1. Laid(Views(u, D), at2) /\ IsParts(Views(u, D))
            /\ DOMAIN Views(u, D) = DOMAIN u.file \ D
        BY <2>3, StateIs
      <3>2. at2[x][lo + n][1] \in DOMAIN Views(u, D)
        BY <2>5, <3>1, PlaceIs DEF Laid
      <3> QED BY <2>5, <3>1, <3>2
    <2>7. State(v, D, at2, un) /\ Kept(u, v, D) /\ v.current = b
      BY <2>3, <2>6, WithState
    <2>8. b # -1
      <3>1. u \in StoreValue
        BY <2>3 DEF State, Good, Handler
      <3> QED BY <2>6, <3>1, FileIs
    <2>9. r.length \in Nat /\ r.length > 0 /\ r.length <= hi + 1
          /\ DOMAIN at2[x] = (hi - r.length + 1)..hi /\ lo + n = hi - r.length + 1
      BY <1>1, <1>4, <1>5, <1>8, <1>12, <2>1
    <2>10. Kept(s, u, D)
      BY <1>10, <2>3, KeptTwice
    <2>11. GoesOn(r, WithCurrent(r.store, r.bucket), D, at2, un, x, hi - r.length + 1)
      <3>1. r.offset = 0 /\ 0 \in 0..BucketLength /\ 0 < BucketLength /\ 0 # BucketLength
        BY <1>12, BucketLengthIs
      <3> QED BY <2>5, <2>7, <2>8, <2>9, <3>1 DEF GoesOn, u, b
    <2>12. CutAt(r, at2, s, D, at0, un, x, hi)
      BY <1>1, <1>11, <2>9, <2>10, <2>11 DEF CutAt, u
    <2>13. r.length <= q.length /\ r.offset = 0
           /\ (q.offset < BucketLength => r.length < q.length)
      BY <1>1, <1>4, <1>12
    <2> QED BY <2>12, <2>13 DEF r
  <1> QED BY <1>13, <1>14

\* The turns of remove.
LEMMA RemoveRuns ==
    ASSUME NEW s,
           NEW b,
           NEW offset,
           NEW length,
           length \in Nat
    PROVE  \E after :
            /\ after[0] = [store |-> s, bucket |-> b, offset |-> offset, length |-> length]
            /\ \A k \in 1..(length + 1) : after[k] = RemoveTurn(after[k - 1])
            /\ RemoveUnits(s, b, offset, length) = after[length + 1].store
  <1> DEFINE n == length + 1
             start == [store |-> s, bucket |-> b, offset |-> offset, length |-> length]
             step(q, k) == RemoveTurn(q)
             turns(f, j) == [k \in 0..j |-> IF k = 0 THEN start ELSE step(f[k - 1], k)]
             T == {j \in Nat : \E f : f = turns(f, j)}
             after == CHOOSE f : f = turns(f, n)
  <1>1. RemoveUnits(s, b, offset, length) = after[length + 1].store
    BY DEF RemoveUnits
  <1>2. n \in Nat
    OBVIOUS
  <1> HIDE DEF n, start, step, after
  <1>3. 0 \in T
    <2>1. turns([k \in 0..0 |-> start], 0) = [k \in 0..0 |-> start]
      OBVIOUS
    <2> QED BY <2>1
  <1>4. ASSUME NEW j \in Nat, j \in T
        PROVE  j + 1 \in T
    <2>1. PICK f : f = turns(f, j)
      BY <1>4
    <2> DEFINE g == turns(f, j + 1)
               h == turns(g, j + 1)
    <2>2. ASSUME NEW k \in 0..(j + 1)
          PROVE  g[k] = h[k]
      <3>1. CASE k = 0
        BY <3>1
      <3>2. CASE k # 0
        <4>1. k - 1 \in 0..j
          BY <3>2
        <4> DEFINE i == k - 1
        <4>2. i \in 0..j /\ i \in 0..(j + 1) /\ k # 0
          BY <3>2, <4>1
        <4>3. g[k] = step(f[i], k) /\ h[k] = step(g[i], k)
          BY <3>2
        <4> HIDE DEF i, h
        <4>4. g[i] = f[i]
          BY <2>1, <4>2
        <4> QED BY <4>3, <4>4
      <3> QED BY <3>1, <3>2
    <2>3. g = [k \in 0..(j + 1) |-> g[k]] /\ h = [k \in 0..(j + 1) |-> h[k]]
      OBVIOUS
    <2> HIDE DEF g
    <2>4. h = turns(g, j + 1)
      OBVIOUS
    <2> HIDE DEF h
    <2>5. g = h
      BY <2>2, <2>3
    <2>6. g = turns(g, j + 1)
      BY <2>4, <2>5
    <2> QED BY <2>6
  <1>5. n \in T
    <2> HIDE DEF T
    <2> QED BY <1>2, <1>3, <1>4, Induction
  <1>6. after = turns(after, n)
    <2>1. \E f : f = turns(f, n)
      BY <1>5
    <2> QED BY <2>1 DEF after
  <1>7. after[0] = start /\ \A k \in 1..n : after[k] = step(after[k - 1], k)
    BY <1>2, <1>6
  <1> QED BY <1>1, <1>7 DEF n, start, step

Removed(s, t, D, at, at2, un, x) ==
    /\ Changed(at, at2, x) /\ DOMAIN at2[x] = {}
    /\ State(t, D, at2, un) /\ Kept(s, t, D)

\* The units of x that are left are removed.
LEMMA RemoveUnitsIs ==
    ASSUME NEW s, NEW b, NEW offset, NEW length, NEW D, NEW at, NEW un, NEW x, NEW hi,
           NEW start, start = [store |-> s, bucket |-> b, offset |-> offset, length |-> length],
           CutAt(start, at, s, D, at, un, x, hi)
    PROVE  \E at2 : Removed(s, RemoveUnits(s, b, offset, length), D, at, at2, un, x)
  <1> DEFINE n == length + 1
             good(q) == \E at2 : CutAt(q, at2, s, D, at, un, x, hi)
  <1>1. length \in Nat /\ n \in Nat /\ start.length = length
    BY DEF CutAt
  <1>2. PICK after : /\ after[0] = start
                     /\ \A k \in 1..n : after[k] = RemoveTurn(after[k - 1])
                     /\ RemoveUnits(s, b, offset, length) = after[n].store
    BY <1>1, RemoveRuns
  <1>3. good(after[0]) /\ after[0].length = length
    BY SMTT(40), <1>1, <1>2
  <1>4. ASSUME NEW q, good(q)
        PROVE  q.length \in Nat /\ (q.length = 0 => RemoveTurn(q) = q)
    BY <1>4 DEF CutAt, RemoveTurn
  <1>5. ASSUME NEW q, good(q), q.length > 0
        PROVE  /\ good(RemoveTurn(q)) /\ RemoveTurn(q).length <= q.length
               /\ RemoveTurn(q).offset = 0
               /\ q.offset < BucketLength => RemoveTurn(q).length < q.length
    BY <1>5, RemoveTurnIs
  <1> HIDE DEF good
  <1> DEFINE T == {k \in 0..n : /\ good(after[k])
                               /\ \/ after[k].length = 0
                                  \/ k = 0 /\ after[k].length <= length
                                  \/ after[k].offset = 0 /\ after[k].length <= n - k}
  <1>6. \A k \in 0..n : k \in T
    <2>1. 0 \in T
      BY <1>1, <1>3
    <2>2. ASSUME NEW k \in 1..n, k - 1 \in T
          PROVE  k \in T
      <3> DEFINE q == after[k - 1]
                 r == after[k]
      <3>1. /\ good(q) /\ r = RemoveTurn(q)
            /\ \/ q.length = 0
               \/ k - 1 = 0 /\ q.length <= length
               \/ q.offset = 0 /\ q.length <= n - (k - 1)
        BY <1>2, <2>2
      <3> HIDE DEF q, r
      <3>2. q.length \in Nat
        BY <1>4, <3>1
      <3>3. CASE q.length = 0
        <4>1. r = q
          BY <1>4, <3>1, <3>3
        <4>2. good(r) /\ r.length = 0 /\ k \in 0..n
          BY <1>1, <3>1, <3>3, <4>1
        <4> QED BY <4>2 DEF r
      <3>4. CASE q.length > 0
        <4>1. /\ good(r) /\ r.length <= q.length /\ r.offset = 0
              /\ q.offset < BucketLength => r.length < q.length
          BY <1>5, <3>1, <3>4
        <4>2. r.length \in Nat
          BY <1>4, <4>1
        <4>3. r.length <= n - k
          <5>1. CASE k - 1 = 0 /\ q.length <= length
            BY <1>1, <3>2, <4>1, <4>2, <5>1
          <5>2. CASE q.offset = 0 /\ q.length <= n - (k - 1)
            <6>1. r.length < q.length
              BY <4>1, <5>2, BucketLengthIs
            <6> QED BY <1>1, <3>2, <4>2, <5>2, <6>1
          <5> QED BY <3>1, <3>2, <3>4, <5>1, <5>2
        <4>4. k \in 0..n
          BY <1>1
        <4> QED BY <4>1, <4>3, <4>4 DEF r
      <3> QED BY <3>2, <3>3, <3>4
    <2> HIDE DEF T
    <2> QED BY <1>1, <2>1, <2>2, TurnInduction
  <1>7. good(after[n]) /\ after[n].length = 0
    <2>1. n \in T
      BY <1>1, <1>6
    <2>2. /\ good(after[n])
          /\ \/ after[n].length = 0
             \/ n = 0 /\ after[n].length <= length
             \/ after[n].length <= n - n
      BY <2>1
    <2>3. after[n].length \in Nat
      BY <1>4, <2>2
    <2> QED BY <1>1, <2>2, <2>3
  <1>8. PICK at2 : CutAt(after[n], at2, s, D, at, un, x, hi)
    BY <1>7 DEF good
  <1>9. Removed(s, after[n].store, D, at, at2, un, x)
    <2>1. hi \in Nat /\ DOMAIN at2[x] = (hi - 0 + 1)..hi
      BY <1>7, <1>8 DEF CutAt
    <2>2. DOMAIN at2[x] = {}
      BY <2>1
    <2> QED BY <1>7, <1>8, <2>2 DEF CutAt, Removed
  <1> QED BY <1>2, <1>9

\* The cell of a value in string buckets, after the bucket has been read.
HasCell(s, cell, D, at, un, x) ==
    /\ x \in DOMAIN at /\ cell.length \in Nat \ {0} /\ DOMAIN at[x] = 1..cell.length
    /\ at[x][1] = <<cell.bucket, cell.offset>>
    /\ State(WithCurrent(s, cell.bucket), D, at, un)
    /\ Kept(s, WithCurrent(s, cell.bucket), D)
    /\ WithCurrent(s, cell.bucket).current = cell.bucket

\* All units of a value.
LEMMA RemoveCellIs ==
    ASSUME NEW s, NEW cell, NEW D, NEW at, NEW un, NEW x,
           HasCell(s, cell, D, at, un, x)
    PROVE  \E at2 : Removed(s, RemoveCell(s, cell), D, at, at2, un, x)
  <1> DEFINE b == cell.bucket
             w == WithCurrent(s, b)
             start == [store |-> s, bucket |-> b, offset |-> cell.offset,
                       length |-> cell.length]
  <1>1. /\ x \in DOMAIN at /\ cell.length \in Nat \ {0} /\ DOMAIN at[x] = 1..cell.length
        /\ at[x][1] = <<b, cell.offset>>
        /\ State(w, D, at, un) /\ Kept(s, w, D) /\ w.current = b
    BY DEF HasCell
  <1> HIDE DEF w, b
  <1>2. cell.offset \in 0..BucketLength /\ cell.offset < BucketLength /\ b # -1
    <2>1. Laid(Views(w, D), at) /\ IsParts(Views(w, D)) /\ DOMAIN Views(w, D) = DOMAIN w.file \ D
          /\ Handler(w, D)
      BY <1>1, StateIs
    <2>2. 1 \in DOMAIN at[x]
      BY <1>1
    <2>3. /\ at[x][1][1] \in DOMAIN Views(w, D) /\ at[x][1][2] \in Nat
          /\ at[x][1][2] < BucketLength
      BY <1>1, <2>1, <2>2, PlaceIs DEF Laid
    <2>4. at[x][1][1] = b /\ at[x][1][2] = cell.offset
      BY <1>1
    <2>5. -1 \notin DOMAIN w.file
      BY <2>1, FileIs DEF Handler
    <2> QED BY <2>1, <2>3, <2>4, <2>5, BucketLengthIs
  <1>3. GoesOn(start, WithCurrent(start.store, start.bucket), D, at, un, x, 1)
    <2>1. cell.offset # BucketLength
      BY <1>2, BucketLengthIs
    <2> QED BY <1>1, <1>2, <2>1 DEF GoesOn, w
  <1>4. CutAt(start, at, s, D, at, un, x, cell.length)
    <2>1. /\ start.length = cell.length /\ start.store = s /\ cell.length # 0
          /\ cell.length - cell.length + 1 = 1 /\ cell.length <= cell.length + 1
      BY <1>1
    <2> HIDE DEF start
    <2> QED BY <1>1, <1>3, <2>1 DEF CutAt, Changed, Kept
  <1> HIDE DEF start
  <1>5. \E at2 : Removed(s, RemoveUnits(s, b, cell.offset, cell.length), D, at, at2, un, x)
    BY <1>4, RemoveUnitsIs DEF start
  <1> QED BY <1>5 DEF RemoveCell, b

-----------------------------------------------------------------------------
(* The values under other names.                                             *)

\* The units of y are those that g[y] had, which may have been several values'.
Renamed(at, un, at2, un2, g) ==
    /\ \A y \in DOMAIN at2 : \A k \in DOMAIN at2[y] :
        /\ g[y] \in DOMAIN at /\ k \in DOMAIN at[g[y]]
        /\ at2[y][k] = at[g[y]][k] /\ un2[y][k] = un[g[y]][k]
    /\ \A y, z \in DOMAIN at2 : \A k \in DOMAIN at2[y] \cap DOMAIN at2[z] :
        g[y] = g[z] => y = z
    /\ \A x \in DOMAIN at : \A k \in DOMAIN at[x] :
        \E y \in DOMAIN at2 : g[y] = x /\ k \in DOMAIN at2[y]

LEMMA RenamedState ==
    ASSUME NEW s, NEW D, NEW at, NEW un, State(s, D, at, un),
           NEW at2, NEW un2, NEW g, Renamed(at, un, at2, un2, g)
    PROVE  State(s, D, at2, un2)
  <1> DEFINE V == Views(s, D)
  <1>0. /\ Handler(s, D) /\ Written(s) /\ Laid(V, at) /\ Counted(V, at)
        /\ HoldsIn(V, at, un, DOMAIN at) /\ Full(V, at, {})
    BY StateIs
  <1> HIDE DEF V
  <1>1. ASSUME NEW y \in DOMAIN at2, NEW k \in DOMAIN at2[y]
        PROVE  /\ g[y] \in DOMAIN at /\ k \in DOMAIN at[g[y]]
               /\ at2[y][k] = at[g[y]][k] /\ un2[y][k] = un[g[y]][k]
    BY DEF Renamed
  <1>2. ASSUME NEW x \in DOMAIN at, NEW k \in DOMAIN at[x]
        PROVE  \E y \in DOMAIN at2 : k \in DOMAIN at2[y] /\ at2[y][k] = at[x][k]
    <2>1. PICK y \in DOMAIN at2 : g[y] = x /\ k \in DOMAIN at2[y]
      BY DEF Renamed
    <2> QED BY <1>1, <2>1
  <1>3. ASSUME NEW b
        PROVE  LiveIn(at2, b) = LiveIn(at, b)
    <2>1. ASSUME NEW i \in LiveIn(at2, b)
          PROVE  i \in LiveIn(at, b)
      BY <1>1, <2>1 DEF LiveIn
    <2>2. ASSUME NEW i \in LiveIn(at, b)
          PROVE  i \in LiveIn(at2, b)
      BY <1>2, <2>2 DEF LiveIn
    <2> QED BY <2>1, <2>2
  <1>4. PlacesUsed(V, at2)
    <2> SUFFICES ASSUME NEW y \in DOMAIN at2, NEW k \in DOMAIN at2[y]
                 PROVE  /\ k \in Nat
                        /\ at2[y][k] = <<at2[y][k][1], at2[y][k][2]>>
                        /\ at2[y][k][1] \in DOMAIN V /\ at2[y][k][2] \in Places
                        /\ at2[y][k][2] < V[at2[y][k][1]].used
      BY DEF PlacesUsed
    <2>1. g[y] \in DOMAIN at /\ k \in DOMAIN at[g[y]] /\ at2[y][k] = at[g[y]][k]
      BY <1>1
    <2> DEFINE x == g[y]
    <2>2. x \in DOMAIN at /\ k \in DOMAIN at[x] /\ at2[y][k] = at[x][k]
      BY <2>1
    <2> HIDE DEF x
    <2>3. /\ k \in Nat
          /\ at[x][k] = <<at[x][k][1], at[x][k][2]>>
          /\ at[x][k][1] \in DOMAIN V /\ at[x][k][2] \in Places
          /\ at[x][k][2] < V[at[x][k][1]].used
      BY <1>0, <2>2 DEF Laid, PlacesUsed
    <2> QED BY <2>2, <2>3
  <1>5. Linked(V, at2)
    <2> SUFFICES ASSUME NEW y \in DOMAIN at2, NEW k \in DOMAIN at2[y], k + 1 \in DOMAIN at2[y]
                 PROVE  at2[y][k + 1] = Follow(V, at2[y][k])
      BY DEF Linked
    <2> DEFINE x == g[y]
               j == k + 1
    <2>1. /\ x \in DOMAIN at /\ k \in DOMAIN at[x] /\ at2[y][k] = at[x][k]
          /\ j \in DOMAIN at[x] /\ at2[y][j] = at[x][j]
      BY <1>1
    <2> HIDE DEF x
    <2>2. at[x][k + 1] = Follow(V, at[x][k])
      BY <1>0, <2>1 DEF Laid, Linked
    <2> QED BY <2>1, <2>2
  <1>6. Apart(at2)
    <2> SUFFICES ASSUME NEW y \in DOMAIN at2, NEW z \in DOMAIN at2,
                        NEW j \in DOMAIN at2[y], NEW k \in DOMAIN at2[z],
                        at2[y][j] = at2[z][k]
                 PROVE  y = z /\ j = k
      BY DEF Apart
    <2>1. /\ g[y] \in DOMAIN at /\ j \in DOMAIN at[g[y]] /\ at2[y][j] = at[g[y]][j]
          /\ g[z] \in DOMAIN at /\ k \in DOMAIN at[g[z]] /\ at2[z][k] = at[g[z]][k]
      BY <1>1
    <2> DEFINE v == g[y]
               w == g[z]
    <2>4. /\ v \in DOMAIN at /\ j \in DOMAIN at[v] /\ w \in DOMAIN at /\ k \in DOMAIN at[w]
          /\ at[v][j] = at[w][k]
      BY <2>1
    <2> HIDE DEF v, w
    <2>5. v = w /\ j = k
      BY <1>0, <2>4 DEF Laid, Apart
    <2>2. g[y] = g[z] /\ j = k
      BY <2>5 DEF v, w
    <2>3. j \in DOMAIN at2[y] \cap DOMAIN at2[z]
      BY <2>2
    <2> QED BY <2>2, <2>3 DEF Renamed
  <1>7. Laid(V, at2)
    BY <1>0, <1>4, <1>5, <1>6 DEF Laid
  <1>8. Counted(V, at2) /\ Full(V, at2, {})
    BY <1>0, <1>3 DEF Counted, CountedIn, Full
  <1>9. HoldsIn(V, at2, un2, DOMAIN at2)
    <2> SUFFICES ASSUME NEW y \in DOMAIN at2, NEW k \in DOMAIN at2[y]
                 PROVE  V[at2[y][k][1]].data[at2[y][k][2]] = un2[y][k]
      BY DEF HoldsIn
    <2> DEFINE x == g[y]
    <2>1. x \in DOMAIN at /\ k \in DOMAIN at[x] /\ at2[y][k] = at[x][k] /\ un2[y][k] = un[x][k]
      BY <1>1
    <2> HIDE DEF x
    <2>2. V[at[x][k][1]].data[at[x][k][2]] = un[x][k]
      BY <1>0, <2>1 DEF HoldsIn
    <2> QED BY <2>1, <2>2
  <1> QED BY <1>0, <1>7, <1>8, <1>9 DEF State, Good, V

\* Behind a run of units that ends a bucket.
LEMMA RunBehind ==
    ASSUME NEW V, IsParts(V), NEW at, Laid(V, at), NEW x, NEW j, NEW n, NEW b, NEW offset,
           Begins(at, x, j, n, b, offset), n > 0, j + n \in DOMAIN at[x]
    PROVE  IF offset + n < BucketLength THEN at[x][j + n] = <<b, offset + n>>
           ELSE at[x][j + n] = <<V[b].next, 0>>
  <1> DEFINE k == j + n - 1
  <1>0. /\ x \in DOMAIN at /\ j \in Nat /\ n \in Nat /\ j..(j + n - 1) \subseteq DOMAIN at[x]
        /\ offset \in Nat /\ offset + n <= BucketLength
    BY DEF Begins
  <1>1. /\ k \in j..(j + n - 1) /\ k \in DOMAIN at[x] /\ k + 1 \in DOMAIN at[x] /\ k + 1 = j + n
        /\ offset + (k - j) = offset + n - 1
    BY <1>0
  <1> HIDE DEF k
  <1>2. at[x][k] = <<b, offset + n - 1>>
    <2>1. InARow(at, x, j, n, b, offset)
      BY RunIs
    <2> QED BY <1>1, <2>1 DEF InARow
  <1>3. at[x][k + 1] = Follow(V, at[x][k])
    BY <1>0, <1>1 DEF Laid, Linked
  <1>4. Follow(V, <<b, offset + n - 1>>)
            = IF offset + n - 1 + 1 < BucketLength THEN <<b, offset + n - 1 + 1>>
              ELSE <<V[b].next, 0>>
    BY DEF Follow
  <1>5. offset + n - 1 + 1 = offset + n
    BY <1>0
  <1> QED BY <1>1, <1>2, <1>3, <1>4, <1>5

-----------------------------------------------------------------------------
(* getData.                                                                  *)

LEMMA AppendedRun ==
    ASSUME NEW S, NEW u \in Seq(S), NEW n \in Nat, NEW r \in Seq(S), Len(r) = n
    PROVE  /\ u \o r \in Seq(S) /\ Len(u \o r) = Len(u) + n
           /\ \A i \in 1..Len(u) : (u \o r)[i] = u[i]
           /\ \A i \in 1..n : (u \o r)[Len(u) + i] = r[i]
  OBVIOUS

\* After some turns of the reading of x.
GetAt(q, s, D, at, un, x, length) ==
    /\ q = [store |-> q.store, offset |-> q.offset, units |-> q.units]
    /\ State(q.store, D, at, un) /\ Kept(s, q.store, D)
    /\ q.units \in Seq(UnitValue) /\ Len(q.units) <= length
    /\ \A i \in 1..Len(q.units) : q.units[i] = un[x][i]
    /\ q.offset \in Nat
    /\ Len(q.units) < length => /\ q.store.current # -1
                                /\ at[x][Len(q.units) + 1] = <<q.store.current, q.offset>>

\* What x has in the bucket that is read.
Reads(q, D, at, un, x, length, n) ==
    /\ n \in Nat \ {0} /\ Len(q.units) + n <= length
    /\ \A i \in 1..n : /\ q.store.data[q.offset + i - 1] = un[x][Len(q.units) + i]
                       /\ q.store.data[q.offset + i - 1] \in UnitValue
    /\ Len(q.units) + n < length =>
            /\ at[x][Len(q.units) + n + 1] = <<q.store.next, 0>>
            /\ q.store.next \in DOMAIN q.store.file \ D

LEMMA ReadsIs ==
    ASSUME NEW q, NEW s, NEW D, NEW at, NEW un, NEW x, NEW length \in Nat,
           GetAt(q, s, D, at, un, x, length), Len(q.units) < length,
           x \in DOMAIN at, DOMAIN at[x] = 1..length,
           NEW n, n = Lesser(length - Len(q.units), q.store.used - q.offset)
    PROVE  Reads(q, D, at, un, x, length, n)
  <1> DEFINE w == q.store
             V == Views(w, D)
             b == w.current
             offset == q.offset
             j == Len(q.units) + 1
  <1>1. /\ Laid(V, at) /\ IsParts(V) /\ b \in DOMAIN V /\ V[b] = Part(w)
        /\ HoldsIn(V, at, un, DOMAIN at) /\ b # -1 /\ DOMAIN V = DOMAIN w.file \ D
    <2> HIDE DEF V, b, w
    <2>1. State(w, D, at, un) /\ w.current # -1
      BY DEF GetAt, w
    <2>2. /\ Laid(Views(w, D), at) /\ IsParts(Views(w, D))
          /\ w.current \in DOMAIN w.file \ D /\ DOMAIN Views(w, D) = DOMAIN w.file \ D
          /\ Views(w, D)[w.current] = Part(w) /\ HoldsIn(Views(w, D), at, un, DOMAIN at)
      BY <2>1, StateIs
    <2> QED BY <2>1, <2>2 DEF V, b
  <1>2. /\ V[b].next = w.next /\ V[b].used = w.used /\ V[b].data = w.data
        /\ w.used \in Nat /\ w.used <= BucketLength /\ w.data \in [Places -> UnitValue]
    <2>1. V[b].used \in 0..BucketLength /\ V[b].data \in [Places -> UnitValue]
      BY <1>1, PartsAre DEF Laid, UsedFits, PartValue
    <2> QED BY <1>1, <2>1, BucketLengthIs DEF Part
  <1>3. /\ Len(q.units) \in Nat /\ j \in Nat /\ j \in 1..length /\ j \in DOMAIN at[x]
        /\ offset \in Nat /\ at[x][j] = <<b, offset>>
    BY DEF GetAt
  <1> HIDE DEF V, j
  <1>4. offset < w.used
    <2>1. at[x][j][2] < V[at[x][j][1]].used
      BY <1>1, <1>3, PlaceIs DEF Laid
    <2>2. at[x][j][1] = b /\ at[x][j][2] = offset
      BY <1>3
    <2> QED BY <1>2, <2>1, <2>2
  <1>5. /\ n \in Nat \ {0} /\ Len(q.units) + n <= length /\ offset + n <= w.used
        /\ offset + n <= BucketLength
        /\ Len(q.units) + n < length => offset + n = w.used
    <2> HIDE DEF w, offset
    <2>1. n = Lesser(length - Len(q.units), w.used - offset)
      BY DEF w, offset
    <2>2. ASSUME NEW l \in Nat, NEW u \in Nat, NEW o \in Nat, l < length, o < u,
                 u <= BucketLength, NEW m, m = Lesser(length - l, u - o)
          PROVE  /\ m \in Nat \ {0} /\ l + m <= length /\ o + m <= u
                 /\ o + m <= BucketLength
                 /\ l + m < length => o + m = u
      BY <2>2, BucketLengthIs DEF Lesser
    <2> QED BY SMTT(40), <1>2, <1>3, <1>4, <2>1, <2>2
  <1>6. Begins(at, x, j, n, b, offset)
    <2>1. j..(j + n - 1) \subseteq 1..length
      BY SMTT(40), <1>3, <1>5 DEF j
    <2> QED BY <1>3, <1>5, <2>1 DEF Begins
  <1>7. InARow(at, x, j, n, b, offset)
    BY <1>1, <1>6, RunIs
  <1>8. ASSUME NEW i \in 1..n
        PROVE  /\ w.data[offset + i - 1] = un[x][Len(q.units) + i]
               /\ w.data[offset + i - 1] \in UnitValue
    <2> DEFINE k == Len(q.units) + i
    <2>1. k \in j..(j + n - 1) /\ k \in DOMAIN at[x] /\ offset + (k - j) = offset + i - 1
      BY SMTT(40), <1>3, <1>5 DEF j
    <2> DEFINE o == offset + i - 1
    <2>2. at[x][k] = <<b, o>>
      <3> HIDE DEF k
      <3>1. at[x][k] = <<b, offset + (k - j)>>
        BY <1>7, <2>1 DEF InARow
      <3> QED BY <2>1, <3>1
    <2>3. o \in Places
      BY SMTT(40), <1>3, <1>5, BucketLengthIs DEF Places
    <2> HIDE DEF k, o, w, b
    <2>4. V[at[x][k][1]].data[at[x][k][2]] = un[x][k]
      BY <1>1, <2>1 DEF HoldsIn
    <2>5. w.data[o] = un[x][k] /\ w.data[o] \in UnitValue
      BY <1>2, <2>2, <2>3, <2>4
    <2> QED BY <2>5 DEF o, k
  <1>9. ASSUME Len(q.units) + n < length
        PROVE  /\ at[x][Len(q.units) + n + 1] = <<w.next, 0>>
               /\ w.next \in DOMAIN w.file \ D
    <2> DEFINE k == j + n
    <2>1. k \in DOMAIN at[x] /\ Len(q.units) + n + 1 = k
      BY <1>3, <1>5, <1>9 DEF j
    <2> HIDE DEF w, b, offset
    <2>2. IF offset + n < BucketLength THEN at[x][k] = <<b, offset + n>>
          ELSE at[x][k] = <<V[b].next, 0>>
      BY SMTT(40), <1>1, <1>5, <1>6, <2>1, RunBehind
    <2> HIDE DEF k
    <2>3. /\ at[x][k][1] \in DOMAIN V /\ at[x][k][2] < V[at[x][k][1]].used
      BY <1>1, <1>3, <2>1, PlaceIs DEF Laid
    <2>4. ~(offset + n < BucketLength)
      <3> SUFFICES ASSUME offset + n < BucketLength
                   PROVE  FALSE
        OBVIOUS
      <3>1. at[x][k][1] = b /\ at[x][k][2] = offset + n
        BY <2>2
      <3>2. offset + n < w.used
        BY <1>2, <2>3, <3>1
      <3> QED BY <1>2, <1>3, <1>5, <1>9, <3>2
    <2>5. at[x][k] = <<w.next, 0>>
      BY <1>2, <2>2, <2>4
    <2>6. w.next \in DOMAIN V
      BY <2>3, <2>5
    <2> QED BY <1>1, <2>1, <2>5, <2>6
  <1> QED BY <1>3, <1>5, <1>8, <1>9 DEF Reads

LEMMA GetTurnIs ==
    ASSUME NEW q, NEW s, NEW D, NEW at, NEW un, NEW x, NEW length \in Nat,
           GetAt(q, s, D, at, un, x, length), Len(q.units) < length,
           x \in DOMAIN at, DOMAIN at[x] = 1..length
    PROVE  /\ GetAt(GetTurn(q, length), s, D, at, un, x, length)
           /\ Len(GetTurn(q, length).units) > Len(q.units)
  <1> DEFINE w == q.store
             n == Lesser(length - Len(q.units), w.used - q.offset)
             l == Len(q.units)
             units == q.units \o [i \in 1..n |-> w.data[q.offset + i - 1]]
             r == GetTurn(q, length)
  <1>1. Reads(q, D, at, un, x, length, n)
    BY ReadsIs
  <1>2. /\ r = IF n <= 0 THEN q
               ELSE IF Len(units) = length THEN [q EXCEPT !.units = units]
               ELSE [store |-> GetBucket(w, w.next), offset |-> 0, units |-> units]
    BY DEF GetTurn
  <1>3. /\ n \in Nat \ {0} /\ l + n <= length
        /\ \A i \in 1..n : /\ w.data[q.offset + i - 1] = un[x][l + i]
                           /\ w.data[q.offset + i - 1] \in UnitValue
        /\ l + n < length =>
            at[x][l + n + 1] = <<w.next, 0>> /\ w.next \in DOMAIN w.file \ D
    <2> HIDE DEF n
    <2> QED BY <1>1 DEF Reads
  <1>4. /\ q.units \in Seq(UnitValue) /\ l \in Nat /\ State(w, D, at, un) /\ Kept(s, w, D)
        /\ \A i \in 1..l : q.units[i] = un[x][i]
        /\ q.offset \in Nat
        /\ q = [store |-> q.store, offset |-> q.offset, units |-> q.units]
    BY DEF GetAt
  <1> DEFINE f == [i \in 1..n |-> w.data[q.offset + i - 1]]
  <1>5. \A i \in 1..n : f[i] = un[x][l + i] /\ f[i] \in UnitValue
    BY <1>3
  <1>6. units = q.units \o f /\ f \in Seq(UnitValue) /\ Len(f) = n
    <2>1. n \in Nat /\ f = [i \in 1..n |-> f[i]] /\ DOMAIN f = 1..n
      BY <1>3
    <2> HIDE DEF f, n
    <2>2. f \in [1..n -> UnitValue]
      BY <1>5, <2>1
    <2>3. f \in Seq(UnitValue) /\ Len(f) = n
      BY <2>1, <2>2
    <2> QED BY <2>3 DEF f
  <1> HIDE DEF n, f, units, r
  <1>7. /\ units \in Seq(UnitValue) /\ Len(units) = l + n
        /\ \A i \in 1..l : units[i] = q.units[i]
        /\ \A i \in 1..n : units[l + i] = f[i]
    BY <1>3, <1>4, <1>5, <1>6, AppendedRun
  <1>8. \A i \in 1..Len(units) : units[i] = un[x][i]
    <2> SUFFICES ASSUME NEW i \in 1..(l + n)
                 PROVE  units[i] = un[x][i]
      BY <1>7
    <2>1. CASE i <= l
      BY <1>4, <1>7, <2>1
    <2>2. CASE i > l
      <3> DEFINE j == i - l
      <3>1. j \in 1..n /\ l + j = i
        BY <1>3, <1>4, <2>2
      <3> HIDE DEF j, l
      <3>2. units[l + j] = un[x][l + j]
        BY <1>5, <1>7, <3>1
      <3> QED BY <3>1, <3>2
    <2> QED BY <1>3, <1>4, <2>1, <2>2
  <1>9. ~(n <= 0) /\ Len(units) > l
    BY <1>3, <1>4, <1>7
  <1>10. CASE Len(units) = length
    <2>1. r = [q EXCEPT !.units = units]
      BY <1>2, <1>9, <1>10
    <2>2. r = [store |-> w, offset |-> q.offset, units |-> units]
      BY <1>4, <2>1
    <2>3. r.store = w /\ r.offset = q.offset /\ r.units = units
      BY <2>2
    <2>4. r = [store |-> r.store, offset |-> r.offset, units |-> r.units]
          /\ ~(Len(units) < length) /\ Len(units) <= length
      BY <1>10, <2>2
    <2> HIDE DEF w
    <2>5. GetAt(r, s, D, at, un, x, length)
      BY <1>4, <1>7, <1>8, <2>3, <2>4 DEF GetAt
    <2> QED BY <1>9, <2>3, <2>5 DEF r
  <1>11. CASE Len(units) # length
    <2> DEFINE b == w.next
    <2>1. r = [store |-> GetBucket(w, b), offset |-> 0, units |-> units]
      BY <1>2, <1>9, <1>11
    <2>2. r.store = GetBucket(w, b) /\ r.offset = 0 /\ r.units = units
          /\ r = [store |-> r.store, offset |-> r.offset, units |-> r.units]
      BY <2>1
    <2>3. l + n < length /\ Len(units) <= length /\ Len(units) + 1 = l + n + 1
      BY <1>3, <1>4, <1>7, <1>11
    <2>4. b \in DOMAIN w.file \ D /\ at[x][l + n + 1] = <<b, 0>>
      BY <1>3, <2>3
    <2> HIDE DEF b, w
    <2>5. /\ State(GetBucket(w, b), D, at, un) /\ Kept(w, GetBucket(w, b), D)
          /\ GetBucket(w, b).current = b
      BY <1>4, <2>4, GetState
    <2>6. Kept(s, GetBucket(w, b), D)
      BY <1>4, <2>5, KeptTwice
    <2>7. b # -1
      <3>1. Handler(w, D)
        BY <1>4, StateIs
      <3> QED BY <2>4, <3>1, FileIs DEF Handler
    <2>8. GetAt(r, s, D, at, un, x, length)
      BY <1>7, <1>8, <2>2, <2>3, <2>4, <2>5, <2>6, <2>7 DEF GetAt
    <2> QED BY <1>9, <2>2, <2>8 DEF r
  <1> QED BY <1>10, <1>11

\* The turns of getData.
LEMMA GetRuns ==
    ASSUME NEW s,
           NEW offset,
           NEW length,
           length \in Nat
    PROVE  \E after :
            /\ after[0] = [store |-> s, offset |-> offset, units |-> <<>>]
            /\ \A k \in 1..(length) : after[k] = GetTurn(after[k - 1], length)
            /\ GetData(s, offset, length) = after[length]
  <1> DEFINE n == length
             start == [store |-> s, offset |-> offset, units |-> <<>>]
             step(q, k) == GetTurn(q, length)
             turns(f, j) == [k \in 0..j |-> IF k = 0 THEN start ELSE step(f[k - 1], k)]
             T == {j \in Nat : \E f : f = turns(f, j)}
             after == CHOOSE f : f = turns(f, n)
  <1>1. GetData(s, offset, length) = after[length]
    BY DEF GetData
  <1>2. n \in Nat
    OBVIOUS
  <1> HIDE DEF n, start, step, after
  <1>3. 0 \in T
    <2>1. turns([k \in 0..0 |-> start], 0) = [k \in 0..0 |-> start]
      OBVIOUS
    <2> QED BY <2>1
  <1>4. ASSUME NEW j \in Nat, j \in T
        PROVE  j + 1 \in T
    <2>1. PICK f : f = turns(f, j)
      BY <1>4
    <2> DEFINE g == turns(f, j + 1)
               h == turns(g, j + 1)
    <2>2. ASSUME NEW k \in 0..(j + 1)
          PROVE  g[k] = h[k]
      <3>1. CASE k = 0
        BY <3>1
      <3>2. CASE k # 0
        <4>1. k - 1 \in 0..j
          BY <3>2
        <4> DEFINE i == k - 1
        <4>2. i \in 0..j /\ i \in 0..(j + 1) /\ k # 0
          BY <3>2, <4>1
        <4>3. g[k] = step(f[i], k) /\ h[k] = step(g[i], k)
          BY <3>2
        <4> HIDE DEF i, h
        <4>4. g[i] = f[i]
          BY <2>1, <4>2
        <4> QED BY <4>3, <4>4
      <3> QED BY <3>1, <3>2
    <2>3. g = [k \in 0..(j + 1) |-> g[k]] /\ h = [k \in 0..(j + 1) |-> h[k]]
      OBVIOUS
    <2> HIDE DEF g
    <2>4. h = turns(g, j + 1)
      OBVIOUS
    <2> HIDE DEF h
    <2>5. g = h
      BY <2>2, <2>3
    <2>6. g = turns(g, j + 1)
      BY <2>4, <2>5
    <2> QED BY <2>6
  <1>5. n \in T
    <2> HIDE DEF T
    <2> QED BY <1>2, <1>3, <1>4, Induction
  <1>6. after = turns(after, n)
    <2>1. \E f : f = turns(f, n)
      BY <1>5
    <2> QED BY <2>1 DEF after
  <1>7. after[0] = start /\ \A k \in 1..n : after[k] = step(after[k - 1], k)
    BY <1>2, <1>6
  <1> QED BY <1>1, <1>7 DEF n, start, step

\* The units of x are read.
LEMMA GetDataIs ==
    ASSUME NEW s, NEW D, NEW at, NEW un, NEW x \in DOMAIN at, NEW offset,
           NEW length \in Nat \ {0}, State(s, D, at, un), s.current # -1,
           DOMAIN at[x] = 1..length, at[x][1] = <<s.current, offset>>,
           un[x] \in Seq(UnitValue), Len(un[x]) = length
    PROVE  /\ State(GetData(s, offset, length).store, D, at, un)
           /\ Kept(s, GetData(s, offset, length).store, D)
           /\ GetData(s, offset, length).units = un[x]
  <1> DEFINE good(q) == GetAt(q, s, D, at, un, x, length)
  <1>1. PICK after : /\ after[0] = [store |-> s, offset |-> offset, units |-> <<>>]
                     /\ \A k \in 1..length : after[k] = GetTurn(after[k - 1], length)
                     /\ GetData(s, offset, length) = after[length]
    <2>1. length \in Nat
      OBVIOUS
    <2> QED BY <2>1, GetRuns
  <1>2. good(after[0]) /\ Len(after[0].units) = 0
    <2>1. offset \in Nat
      <3>0. 1 \in DOMAIN at[x]
        OBVIOUS
      <3>1. Laid(Views(s, D), at) /\ IsParts(Views(s, D)) /\ 1 \in DOMAIN at[x]
        BY <3>0, StateIs
      <3>2. at[x][1][2] \in Nat
        BY <3>1, PlaceIs DEF Laid
      <3> QED BY <3>2
    <2> DEFINE q == after[0]
    <2>2. q = [store |-> s, offset |-> offset, units |-> <<>>]
      BY <1>1
    <2> HIDE DEF q
    <2>3. /\ q.store = s /\ q.offset = offset /\ q.units = <<>> /\ Len(q.units) = 0
          /\ Len(q.units) + 1 = 1 /\ 1..Len(q.units) = {} /\ q.units \in Seq(UnitValue)
          /\ q = [store |-> q.store, offset |-> q.offset, units |-> q.units]
          /\ Len(q.units) <= length
      BY <2>2
    <2>4. Kept(s, s, D)
      BY DEF Kept
    <2> QED BY <2>1, <2>3, <2>4 DEF GetAt, q
  <1>3. ASSUME NEW q, good(q)
        PROVE  Len(q.units) \in 0..length /\ (Len(q.units) = length => GetTurn(q, length) = q)
    <2>1. /\ State(q.store, D, at, un) /\ q.units \in Seq(UnitValue) /\ Len(q.units) <= length
          /\ q.offset \in Nat
      BY <1>3 DEF GetAt
    <2>2. q.store.used \in Int
      <3>1. Handler(q.store, D)
        BY <2>1, StateIs
      <3> QED BY <3>1 DEF Handler, StoreValue
    <2>3. ASSUME Len(q.units) = length
          PROVE  GetTurn(q, length) = q
      <3>0. ASSUME NEW l \in Int, NEW o \in Int
            PROVE  Lesser(l, o) <= l /\ Lesser(l, o) \in Int
        BY DEF Lesser
      <3>1. length - Len(q.units) = 0 /\ length - Len(q.units) \in Int
            /\ q.store.used - q.offset \in Int
        BY <2>1, <2>2, <2>3
      <3>2. Lesser(length - Len(q.units), q.store.used - q.offset) <= 0
        BY <3>0, <3>1
      <3> QED BY <3>2 DEF GetTurn
    <2> QED BY <2>1, <2>3
  <1>4. ASSUME NEW q, good(q), Len(q.units) < length
        PROVE  good(GetTurn(q, length)) /\ Len(GetTurn(q, length).units) > Len(q.units)
    BY <1>4, GetTurnIs
  <1> DEFINE T == {k \in 0..length : good(after[k]) /\ Len(after[k].units) >= k}
  <1> HIDE DEF good
  <1>5. \A k \in 0..length : k \in T
    <2>1. 0 \in T
      BY <1>2
    <2>2. ASSUME NEW k \in 1..length, k - 1 \in T
          PROVE  k \in T
      <3> DEFINE q == after[k - 1]
                 r == after[k]
      <3>1. good(q) /\ Len(q.units) >= k - 1 /\ r = GetTurn(q, length)
        BY <1>1, <2>2
      <3> HIDE DEF q, r
      <3>2. Len(q.units) \in 0..length
        BY <1>3, <3>1
      <3>3. CASE Len(q.units) = length
        <4>1. r = q /\ Len(r.units) >= k
          BY <1>3, <3>1, <3>3
        <4> QED BY <3>1, <4>1 DEF r
      <3>4. CASE Len(q.units) < length
        <4>1. good(r) /\ Len(r.units) > Len(q.units) /\ Len(r.units) \in 0..length
          BY <1>3, <1>4, <3>1, <3>4
        <4>2. Len(r.units) >= k
          BY <3>1, <3>2, <4>1
        <4> QED BY <4>1, <4>2 DEF r
      <3> QED BY <3>2, <3>3, <3>4
    <2> HIDE DEF T
    <2> QED BY <2>1, <2>2, TurnInduction
  <1> DEFINE q == after[length]
  <1>6. good(q) /\ Len(q.units) >= length
    <2>1. length \in T
      BY <1>5
    <2> QED BY <2>1
  <1> HIDE DEF q
  <1>7. Len(q.units) = length
    BY <1>3, <1>6
  <1>8. /\ State(q.store, D, at, un) /\ Kept(s, q.store, D)
        /\ q.units \in Seq(UnitValue) /\ \A i \in 1..length : q.units[i] = un[x][i]
    BY <1>6, <1>7 DEF good, GetAt
  <1>9. q.units = un[x]
    <2> DEFINE u == un[x]
    <2>1. u \in Seq(UnitValue) /\ Len(u) = length /\ \A i \in 1..length : q.units[i] = u[i]
      BY <1>8
    <2> HIDE DEF u
    <2>2. q.units = u
      BY <1>7, <1>8, <2>1
    <2> QED BY <2>2 DEF u
  <1>10. GetData(s, offset, length) = q
    BY <1>1 DEF q
  <1> QED BY <1>8, <1>9, <1>10

-----------------------------------------------------------------------------
(* replaceData.                                                              *)

WriteIn(s, offset, n, units, done) ==
    [s EXCEPT !.data = Copied(@, offset, n, units, done), !.changed = TRUE]

WritePart(s, offset, n, units, done) ==
    [used |-> s.used, nDeleted |-> s.nDeleted, next |-> s.next,
     data |-> Copied(s.data, offset, n, units, done)]

\* n units of x are written over others of x.
CanWrite(s, D, at, un, un2, x, units, offset, n, done) ==
    /\ State(s, D, at, un) /\ s.current # -1
    /\ units \in Seq(UnitValue) /\ n \in Nat /\ done \in Nat /\ done + n <= Len(units)
    /\ Begins(at, x, done + 1, n, s.current, offset)
    /\ \A y \in DOMAIN at : \A k \in DOMAIN at[y] :
        un2[y][k] = IF y = x /\ k \in (done + 1)..(done + n) THEN units[k] ELSE un[y][k]

HasWritten(s, t, D, at, un2) ==
    /\ State(t, D, at, un2) /\ Kept(s, t, D)
    /\ t.file = s.file /\ t.current = s.current /\ t.next = s.next
    /\ Views(t, D)[s.current].next = s.next

LEMMA WriteInIs ==
    ASSUME NEW s, NEW D, Handler(s, D), NEW offset \in Nat,
           NEW units \in Seq(UnitValue), NEW n \in Nat, NEW done \in Nat,
           done + n <= Len(units)
    PROVE  Edited(s, WriteIn(s, offset, n, units, done), WritePart(s, offset, n, units, done))
  <1> DEFINE t == WriteIn(s, offset, n, units, done)
             data == Copied(s.data, offset, n, units, done)
  <1>1. s \in StoreValue /\ s.data \in [Places -> UnitValue]
    BY DEF Handler, StoreValue
  <1>2. data \in [Places -> UnitValue]
    BY <1>1, CopiedIs
  <1> HIDE DEF data
  <1>3. t = [s EXCEPT !.data = data, !.changed = TRUE]
    BY <1>1 DEF WriteIn, StoreValue, data
  <1> HIDE DEF t
  <1>4. t = [file |-> s.file, current |-> s.current, used |-> s.used,
             nDeleted |-> s.nDeleted, next |-> s.next, data |-> data,
             changed |-> TRUE, last |-> s.last]
    BY <1>1, <1>3 DEF StoreValue
  <1>5. t \in StoreValue
    BY <1>1, <1>2, <1>4 DEF StoreValue
  <1>6. Part(t) = WritePart(s, offset, n, units, done)
    BY <1>4 DEF Part, WritePart, data
  <1> QED BY <1>4, <1>5, <1>6 DEF Edited, t

LEMMA WriteOnce ==
    ASSUME NEW s, NEW D, NEW at, NEW un, NEW un2, NEW x, NEW units, NEW offset, NEW n, NEW done,
           CanWrite(s, D, at, un, un2, x, units, offset, n, done),
           NEW t, t = WriteIn(s, offset, n, units, done)
    PROVE  HasWritten(s, t, D, at, un2)
  <1> DEFINE V == Views(s, D)
             b == s.current
             p == WritePart(s, offset, n, units, done)
             V2 == [V EXCEPT ![b] = p]
             j == done + 1
  <1>0. /\ State(s, D, at, un) /\ s.current # -1
        /\ units \in Seq(UnitValue) /\ n \in Nat /\ done \in Nat /\ done + n <= Len(units)
        /\ Begins(at, x, j, n, b, offset)
    BY DEF CanWrite
  <1>1. /\ Handler(s, D) /\ Laid(V, at) /\ Counted(V, at) /\ IsParts(V)
        /\ HoldsIn(V, at, un, DOMAIN at) /\ Full(V, at, {})
        /\ DOMAIN V = DOMAIN s.file \ D /\ b \in DOMAIN V /\ V[b] = Part(s)
    <2> HIDE DEF V, b
    <2>1. /\ Handler(s, D) /\ Laid(Views(s, D), at) /\ Counted(Views(s, D), at)
          /\ IsParts(Views(s, D)) /\ HoldsIn(Views(s, D), at, un, DOMAIN at)
          /\ Full(Views(s, D), at, {}) /\ DOMAIN Views(s, D) = DOMAIN s.file \ D
          /\ s.current \in DOMAIN s.file \ D /\ Views(s, D)[s.current] = Part(s)
      BY <1>0, StateIs
    <2> QED BY <2>1 DEF V, b
  <1>2. /\ x \in DOMAIN at /\ j \in Nat /\ j..(j + n - 1) \subseteq DOMAIN at[x]
        /\ offset \in Nat /\ offset + n <= BucketLength
    BY <1>0 DEF Begins
  <1>3. Edited(s, t, p)
    BY <1>0, <1>1, <1>2, WriteInIs
  <1>4. /\ t.file = s.file /\ t.current = s.current /\ t.next = s.next
    BY <1>3 DEF Edited, Part, WritePart
  <1>5. /\ p.used = V[b].used /\ p.nDeleted = V[b].nDeleted /\ p.next = V[b].next
        /\ p.next = s.next
        /\ p.data = Copied(V[b].data, offset, n, units, done)
    BY <1>1 DEF Part, WritePart
  <1> HIDE DEF p
  <1>6. /\ Handler(t, D) /\ Written(t) /\ p \in PartValue /\ Views(t, D) = V2
    BY <1>0, <1>1, <1>3, EditIs
  <1> HIDE DEF V, b
  <1>7. EditHere(V, at, b, p, V2)
    BY <1>1, <1>5, <1>6 DEF EditHere
  <1>8. V2[b] = p /\ DOMAIN V2 = DOMAIN V /\ \A c \in DOMAIN V : c # b => V2[c] = V[c]
    BY <1>1
  <1> HIDE DEF V2
  <1>9. Laid(V2, at) /\ Counted(V2, at)
    BY <1>1, <1>7, EditLaid
  <1>10. Full(V2, at, {})
    BY <1>1, <1>8 DEF Full
  <1>11. InARow(at, x, j, n, b, offset)
    BY <1>0, <1>1, RunIs
  <1>12. \A i \in Places : IF i - offset \in 0..(n - 1)
            THEN p.data[i] = units[done + i - offset + 1] ELSE p.data[i] = V[b].data[i]
    <2>1. \A i \in Places : IF i - offset \in 0..(n - 1)
            THEN Copied(V[b].data, offset, n, units, done)[i] = units[done + i - offset + 1]
            ELSE Copied(V[b].data, offset, n, units, done)[i] = V[b].data[i]
      BY DEF Copied
    <2> QED BY <1>5, <2>1
  <1>13. HoldsIn(V2, at, un2, DOMAIN at)
    <2> SUFFICES ASSUME NEW y \in DOMAIN at, NEW k \in DOMAIN at[y]
                 PROVE  V2[at[y][k][1]].data[at[y][k][2]] = un2[y][k]
      BY DEF HoldsIn
    <2> DEFINE c == at[y][k][1]
               i == at[y][k][2]
    <2>1. /\ k \in Nat /\ at[y][k] = <<c, i>> /\ c \in DOMAIN V /\ i \in Places /\ i \in Nat
      BY <1>1, PlaceIs DEF Laid
    <2>2. V[c].data[i] = un[y][k]
      BY <1>1 DEF HoldsIn
    <2>3. un2[y][k] = IF y = x /\ k \in (done + 1)..(done + n) THEN units[k] ELSE un[y][k]
      BY DEF CanWrite
    <2> HIDE DEF c, i
    <2>4. CASE c = b /\ i - offset \in 0..(n - 1)
      <3> DEFINE l == j + (i - offset)
      <3>1. l \in j..(j + n - 1) /\ l \in DOMAIN at[x] /\ offset + (l - j) = i
            /\ l \in (done + 1)..(done + n) /\ done + i - offset + 1 = l
        <4>1. n \in Nat /\ done \in Nat /\ offset \in Nat /\ i \in Nat /\ i - offset \in 0..(n - 1)
          BY <1>0, <1>2, <2>1, <2>4
        <4>2. l \in j..(j + n - 1) /\ offset + (l - j) = i
              /\ l \in (done + 1)..(done + n) /\ done + i - offset + 1 = l
          BY <4>1
        <4>3. l \in DOMAIN at[x]
          <5> HIDE DEF l, j
          <5> QED BY <1>2, <4>2
        <4> QED BY <4>2, <4>3
      <3> HIDE DEF l, j
      <3>2. at[x][l] = <<b, i>>
        BY <1>11, <3>1 DEF InARow
      <3>3. y = x /\ k = l
        BY <1>1, <1>2, <2>1, <2>4, <3>1, <3>2 DEF Laid, Apart
      <3>4. p.data[i] = units[k]
        BY <1>12, <2>1, <2>4, <3>1, <3>3
      <3> QED BY <1>8, <2>3, <2>4, <3>1, <3>3, <3>4 DEF c, i
    <2>5. CASE ~(c = b /\ i - offset \in 0..(n - 1))
      <3>1. ~(y = x /\ k \in (done + 1)..(done + n))
        <4> SUFFICES ASSUME y = x, k \in (done + 1)..(done + n)
                     PROVE  FALSE
          OBVIOUS
        <4>1. k \in j..(j + n - 1) /\ k - j \in 0..(n - 1)
          BY <1>0, <2>1
        <4> HIDE DEF j
        <4>2. at[x][k] = <<b, offset + (k - j)>>
          BY <1>11, <4>1 DEF InARow
        <4>3. c = b /\ i = offset + (k - j)
          BY <2>1, <4>2
        <4>4. i - offset = k - j
          BY <1>2, <2>1, <4>1, <4>3
        <4> QED BY <2>5, <4>1, <4>3, <4>4
      <3>2. V2[c].data[i] = V[c].data[i]
        <4>1. CASE c = b
          BY <1>8, <1>12, <2>1, <2>5, <4>1
        <4>2. CASE c # b
          BY <1>8, <2>1, <4>2
        <4> QED BY <4>1, <4>2
      <3> QED BY <2>2, <2>3, <3>1, <3>2 DEF c, i
    <2> QED BY <2>4, <2>5
  <1>14. State(t, D, at, un2) /\ Kept(s, t, D)
    BY <1>4, <1>6, <1>9, <1>10, <1>13 DEF State, Good, Kept
  <1>15. Views(t, D)[b].next = s.next
    BY <1>5, <1>6, <1>8
  <1> QED BY <1>4, <1>14, <1>15 DEF HasWritten, b

Mixed(at, un, un2, x, units, m) ==
    \A y \in DOMAIN at : \A k \in DOMAIN at[y] :
        un2[y][k] = IF y = x /\ k <= m THEN units[k] ELSE un[y][k]

\* After some turns: the first units of x are those that are put.
WriteAt(q, s, D, at, un, x, units) ==
    /\ q.done \in 0..Len(units) /\ q.offset \in Nat /\ q.store.current # -1
    /\ Kept(s, q.store, D)
    /\ \E un2 : Mixed(at, un, un2, x, units, q.done) /\ State(q.store, D, at, un2)
    /\ q.done < Len(units) => at[x][q.done + 1] = <<q.store.current, q.offset>>
    /\ q.done = Len(units) =>
            /\ q.offset - 1 \in Places
            /\ at[x][q.done] = <<q.store.current, q.offset - 1>>

\* The units that are next to be written, and what there is behind them.
WritesHere(q, D, at, x, units, n) ==
    /\ n \in Nat \ {0} /\ q.done + n <= Len(units) /\ q.offset + n <= BucketLength
    /\ Begins(at, x, q.done + 1, n, q.store.current, q.offset)
    /\ at[x][q.done + n] = <<q.store.current, q.offset + n - 1>>
    /\ q.done + n < Len(units) =>
            /\ at[x][q.done + n + 1] = <<q.store.next, 0>>
            /\ q.store.next \in DOMAIN q.store.file \ D

LEMMA WritesHereIs ==
    ASSUME NEW q, NEW s, NEW D, NEW at, NEW un, NEW x, NEW units,
           WriteAt(q, s, D, at, un, x, units), units \in Seq(UnitValue), q.done < Len(units),
           NEW length \in Nat, x \in DOMAIN at, DOMAIN at[x] = 1..length, Len(units) <= length,
           NEW n, n = Lesser(Len(units) - q.done, BucketLength - q.offset)
    PROVE  WritesHere(q, D, at, x, units, n)
  <1> DEFINE w == q.store
             V == Views(w, D)
             b == w.current
             offset == q.offset
             j == q.done + 1
  <1>1. /\ Laid(V, at) /\ IsParts(V) /\ b \in DOMAIN V /\ V[b] = Part(w)
        /\ b # -1 /\ DOMAIN V = DOMAIN w.file \ D
    <2> HIDE DEF V, b, w
    <2>1. PICK un2 : State(w, D, at, un2)
      BY DEF WriteAt, w
    <2>2. w.current # -1
      BY DEF WriteAt, w
    <2>3. /\ Laid(Views(w, D), at) /\ IsParts(Views(w, D))
          /\ w.current \in DOMAIN w.file \ D /\ DOMAIN Views(w, D) = DOMAIN w.file \ D
          /\ Views(w, D)[w.current] = Part(w)
      BY <2>1, <2>2, StateIs
    <2> QED BY <2>3, <2>2 DEF V, b
  <1>2. V[b].next = w.next
    BY <1>1 DEF Part
  <1>3. /\ q.done \in Nat /\ j \in Nat /\ j \in 1..length /\ j \in DOMAIN at[x]
        /\ offset \in Nat /\ at[x][j] = <<b, offset>> /\ Len(units) \in Nat
    <2>1. q.done \in 0..Len(units) /\ Len(units) \in Nat /\ q.offset \in Nat
      BY DEF WriteAt
    <2>2. at[x][j] = <<b, offset>>
      BY DEF WriteAt
    <2> HIDE DEF b, offset
    <2> QED BY <2>1, <2>2 DEF offset
  <1> HIDE DEF V, j
  <1>4. offset < BucketLength
    <2>1. at[x][j][2] < BucketLength
      BY <1>1, <1>3, PlaceIs DEF Laid
    <2> QED BY <1>3, <2>1
  <1>5. /\ n \in Nat \ {0} /\ q.done + n <= Len(units) /\ offset + n <= BucketLength
        /\ q.done + n < Len(units) => offset + n = BucketLength
    <2> HIDE DEF w, offset
    <2>1. n = Lesser(Len(units) - q.done, BucketLength - offset)
      BY DEF offset
    <2>2. ASSUME NEW l \in Nat, NEW u \in Nat, NEW o \in Nat, NEW m, l < u, o < BucketLength,
                 m = Lesser(u - l, BucketLength - o)
          PROVE  /\ m \in Nat \ {0} /\ l + m <= u /\ o + m <= BucketLength
                 /\ l + m < u => o + m = BucketLength
      BY <2>2, BucketLengthIs DEF Lesser
    <2> QED BY <1>3, <1>4, <2>1, <2>2
  <1>6. Begins(at, x, j, n, b, offset)
    <2>1. j..(j + n - 1) \subseteq 1..length
      BY SMTT(40), <1>3, <1>5 DEF j
    <2> QED BY <1>3, <1>5, <2>1 DEF Begins
  <1>7. at[x][q.done + n] = <<b, offset + n - 1>>
    <2> DEFINE k == q.done + n
    <2>1. k \in j..(j + n - 1) /\ offset + (k - j) = offset + n - 1
      BY SMTT(40), <1>3, <1>5 DEF j
    <2> HIDE DEF w, b, offset, k
    <2>2. InARow(at, x, j, n, b, offset)
      BY <1>1, <1>6, RunIs
    <2>3. at[x][k] = <<b, offset + (k - j)>>
      BY <2>1, <2>2 DEF InARow
    <2> QED BY <2>1, <2>3 DEF k
  <1>8. ASSUME q.done + n < Len(units)
        PROVE  /\ at[x][q.done + n + 1] = <<w.next, 0>>
               /\ w.next \in DOMAIN w.file \ D
    <2> DEFINE k == j + n
    <2>1. k \in DOMAIN at[x] /\ q.done + n + 1 = k
      BY SMTT(40), <1>3, <1>5, <1>8 DEF j
    <2> HIDE DEF w, b, offset
    <2>2. IF offset + n < BucketLength THEN at[x][k] = <<b, offset + n>>
          ELSE at[x][k] = <<V[b].next, 0>>
      BY <1>1, <1>5, <1>6, <2>1, RunBehind
    <2> HIDE DEF k
    <2>3. at[x][k] = <<w.next, 0>>
      BY <1>2, <1>3, <1>5, <1>8, <2>2, BucketLengthIs
    <2>4. at[x][k][1] \in DOMAIN V
      BY <1>1, <1>3, <2>1, PlaceIs DEF Laid
    <2> QED BY <1>1, <2>1, <2>3, <2>4
  <1> QED BY <1>3, <1>5, <1>6, <1>7, <1>8 DEF WritesHere, j

LEMMA WriteTurnIs ==
    ASSUME NEW q, NEW s, NEW D, NEW at, NEW un, NEW x, NEW units,
           WriteAt(q, s, D, at, un, x, units), units \in Seq(UnitValue), q.done < Len(units),
           NEW length \in Nat, x \in DOMAIN at, DOMAIN at[x] = 1..length, Len(units) <= length
    PROVE  /\ WriteAt(ReplaceTurn(q, units), s, D, at, un, x, units)
           /\ ReplaceTurn(q, units).done > q.done
  <1> DEFINE w == q.store
             n == Lesser(Len(units) - q.done, BucketLength - q.offset)
             t == WriteIn(w, q.offset, n, units, q.done)
             r == ReplaceTurn(q, units)
             m == q.done + n
  <1>1. WritesHere(q, D, at, x, units, n)
    BY WritesHereIs
  <1>2. r = IF m = Len(units)
            THEN [store |-> t, offset |-> q.offset + n, done |-> m]
            ELSE [store |-> GetBucket(t, t.next), offset |-> 0, done |-> m]
    <2>1. q.done # Len(units)
      BY DEF WriteAt
    <2> QED BY <2>1 DEF ReplaceTurn, WriteIn
  <1> HIDE DEF n, r
  <1>3. /\ n \in Nat \ {0} /\ m <= Len(units) /\ q.offset + n <= BucketLength
        /\ Begins(at, x, q.done + 1, n, w.current, q.offset)
        /\ at[x][m] = <<w.current, q.offset + n - 1>>
        /\ m < Len(units) => at[x][m + 1] = <<w.next, 0>> /\ w.next \in DOMAIN w.file \ D
    BY <1>1 DEF WritesHere
  <1>4. q.done \in Nat /\ q.offset \in Nat /\ w.current # -1 /\ Len(units) \in Nat
        /\ Kept(s, w, D)
    BY DEF WriteAt
  <1>5. PICK un2 : Mixed(at, un, un2, x, units, q.done) /\ State(w, D, at, un2)
    BY DEF WriteAt
  <1> DEFINE un3 == [y \in DOMAIN at |-> [k \in DOMAIN at[y] |->
                        IF y = x /\ k <= m THEN units[k] ELSE un[y][k]]]
  <1>6. m \in Nat /\ m > q.done /\ m \in 0..Len(units)
    BY SMTT(40), <1>3, <1>4
  <1>7. Mixed(at, un, un3, x, units, m)
    <2> HIDE DEF m
    <2> QED BY DEF Mixed
  <1>8. CanWrite(w, D, at, un2, un3, x, units, q.offset, n, q.done)
    <2>1. ASSUME NEW y \in DOMAIN at, NEW k \in DOMAIN at[y]
          PROVE  un3[y][k] = IF y = x /\ k \in (q.done + 1)..(q.done + n) THEN units[k]
                             ELSE un2[y][k]
      <3>1. un3[y][k] = IF y = x /\ k <= m THEN units[k] ELSE un[y][k]
        OBVIOUS
      <3>2. un2[y][k] = IF y = x /\ k <= q.done THEN units[k] ELSE un[y][k]
        BY <1>5 DEF Mixed
      <3>3. y = x => k \in Nat
        OBVIOUS
      <3> HIDE DEF un3
      <3>4. CASE y = x
        <4>1. k <= m <=> k <= q.done \/ k \in (q.done + 1)..(q.done + n)
          BY <1>3, <1>4, <3>3, <3>4
        <4>2. k <= q.done => ~(k \in (q.done + 1)..(q.done + n))
          BY <1>3, <1>4, <3>3, <3>4
        <4> HIDE DEF m
        <4> QED BY <3>1, <3>2, <3>4, <4>1, <4>2
      <3>5. CASE y # x
        BY <3>1, <3>2, <3>5
      <3> QED BY <3>4, <3>5
    <2> HIDE DEF un3
    <2> QED BY <1>3, <1>4, <1>5, <2>1 DEF CanWrite
  <1> HIDE DEF un3, t
  <1>9. /\ State(t, D, at, un3) /\ Kept(w, t, D)
        /\ t.file = w.file /\ t.current = w.current /\ t.next = w.next
    <2>1. HasWritten(w, t, D, at, un3)
      BY <1>8, WriteOnce DEF t
    <2> QED BY <2>1 DEF HasWritten
  <1>10. Kept(s, t, D)
    BY <1>4, <1>9, KeptTwice
  <1>11. CASE m = Len(units)
    <2>1. r.store = t /\ r.offset = q.offset + n /\ r.done = m
      BY <1>2, <1>11
    <2>2. r.offset \in Nat /\ r.offset - 1 \in Places /\ r.offset - 1 = q.offset + n - 1
      BY SMTT(40), <1>3, <1>4, <2>1, BucketLengthIs DEF Places
    <2>3. at[x][r.done] = <<r.store.current, r.offset - 1>> /\ r.store.current # -1
      BY <1>3, <1>4, <1>9, <2>1, <2>2
    <2>4. r.done \in 0..Len(units) /\ ~(r.done < Len(units)) /\ r.done > q.done
      BY <1>4, <1>6, <1>11, <2>1
    <2> HIDE DEF w, m
    <2>5. WriteAt(r, s, D, at, un, x, units)
      BY <1>7, <1>9, <1>10, <2>1, <2>2, <2>3, <2>4 DEF WriteAt
    <2> QED BY <2>4, <2>5 DEF r
  <1>12. CASE m # Len(units)
    <2> DEFINE b == t.next
    <2>1. r.store = GetBucket(t, b) /\ r.offset = 0 /\ r.done = m
      BY <1>2, <1>12
    <2>2. m < Len(units)
      BY <1>4, <1>6, <1>12
    <2>3. b \in DOMAIN t.file \ D /\ at[x][m + 1] = <<b, 0>>
      BY <1>3, <1>9, <2>2
    <2> HIDE DEF b
    <2>4. /\ State(GetBucket(t, b), D, at, un3) /\ Kept(t, GetBucket(t, b), D)
          /\ GetBucket(t, b).current = b
      BY <1>9, <2>3, GetState
    <2>5. Kept(s, GetBucket(t, b), D)
      BY <1>10, <2>4, KeptTwice
    <2>6. b # -1
      <3>1. Handler(t, D)
        BY <1>9, StateIs
      <3> QED BY <2>3, <3>1, FileIs DEF Handler
    <2>7. /\ r.done \in 0..Len(units) /\ r.offset \in Nat /\ r.store.current # -1
          /\ Kept(s, r.store, D) /\ Mixed(at, un, un3, x, units, r.done)
          /\ State(r.store, D, at, un3) /\ at[x][r.done + 1] = <<r.store.current, r.offset>>
          /\ r.done # Len(units) /\ r.done > q.done
      BY <1>6, <1>7, <1>12, <2>1, <2>3, <2>4, <2>5, <2>6
    <2>8. WriteAt(r, s, D, at, un, x, units)
      BY <2>7 DEF WriteAt
    <2> QED BY <2>7, <2>8 DEF r
  <1> QED BY <1>11, <1>12

\* The turns of replaceData.
LEMMA ReplaceRuns ==
    ASSUME NEW s,
           NEW offset,
           NEW length,
           NEW units,
           NEW S,
           units \in Seq(S)
    PROVE  \E after :
            /\ after[0] = [store |-> s, offset |-> offset, done |-> 0]
            /\ \A k \in 1..(Len(units)) : after[k] = ReplaceTurn(after[k - 1], units)
            /\ Replace(s, offset, length, units) =
                   IF length > Len(units)
                   THEN RemoveUnits(after[Len(units)].store, after[Len(units)].store.current,
                                    after[Len(units)].offset, length - Len(units))
                   ELSE after[Len(units)].store
  <1> DEFINE n == Len(units)
             start == [store |-> s, offset |-> offset, done |-> 0]
             step(q, k) == ReplaceTurn(q, units)
             turns(f, j) == [k \in 0..j |-> IF k = 0 THEN start ELSE step(f[k - 1], k)]
             T == {j \in Nat : \E f : f = turns(f, j)}
             after == CHOOSE f : f = turns(f, n)
  <1>1. Replace(s, offset, length, units) =
            IF length > Len(units)
            THEN RemoveUnits(after[Len(units)].store, after[Len(units)].store.current,
                             after[Len(units)].offset, length - Len(units))
            ELSE after[Len(units)].store
    BY DEF Replace
  <1>2. n \in Nat
    OBVIOUS
  <1> HIDE DEF n, start, step, after
  <1>3. 0 \in T
    <2>1. turns([k \in 0..0 |-> start], 0) = [k \in 0..0 |-> start]
      OBVIOUS
    <2> QED BY <2>1
  <1>4. ASSUME NEW j \in Nat, j \in T
        PROVE  j + 1 \in T
    <2>1. PICK f : f = turns(f, j)
      BY <1>4
    <2> DEFINE g == turns(f, j + 1)
               h == turns(g, j + 1)
    <2>2. ASSUME NEW k \in 0..(j + 1)
          PROVE  g[k] = h[k]
      <3>1. CASE k = 0
        BY <3>1
      <3>2. CASE k # 0
        <4>1. k - 1 \in 0..j
          BY <3>2
        <4> DEFINE i == k - 1
        <4>2. i \in 0..j /\ i \in 0..(j + 1) /\ k # 0
          BY <3>2, <4>1
        <4>3. g[k] = step(f[i], k) /\ h[k] = step(g[i], k)
          BY <3>2
        <4> HIDE DEF i, h
        <4>4. g[i] = f[i]
          BY <2>1, <4>2
        <4> QED BY <4>3, <4>4
      <3> QED BY <3>1, <3>2
    <2>3. g = [k \in 0..(j + 1) |-> g[k]] /\ h = [k \in 0..(j + 1) |-> h[k]]
      OBVIOUS
    <2> HIDE DEF g
    <2>4. h = turns(g, j + 1)
      OBVIOUS
    <2> HIDE DEF h
    <2>5. g = h
      BY <2>2, <2>3
    <2>6. g = turns(g, j + 1)
      BY <2>4, <2>5
    <2> QED BY <2>6
  <1>5. n \in T
    <2> HIDE DEF T
    <2> QED BY <1>2, <1>3, <1>4, Induction
  <1>6. after = turns(after, n)
    <2>1. \E f : f = turns(f, n)
      BY <1>5
    <2> QED BY <2>1 DEF after
  <1>7. after[0] = start /\ \A k \in 1..n : after[k] = step(after[k - 1], k)
    BY <1>2, <1>6
  <1> QED BY <1>1, <1>7 DEF n, start, step

\* All that is put is written, up to what is left over of x.
WritesAll(s, D, at, un, x, units, offset, length) ==
    /\ State(s, D, at, un) /\ s.current # -1
    /\ x \in DOMAIN at /\ length \in Nat /\ DOMAIN at[x] = 1..length
    /\ at[x][1] = <<s.current, offset>>
    /\ units \in Seq(UnitValue) /\ Len(units) \in 1..length

\* How the turns end.
WrittenAll(q, s, D, at, un, x, units) ==
    WriteAt(q, s, D, at, un, x, units) /\ q.done = Len(units)

LEMMA WritesAllIs ==
    ASSUME NEW s, NEW D, NEW at, NEW un, NEW x, NEW units, NEW offset, NEW length,
           WritesAll(s, D, at, un, x, units, offset, length)
    PROVE  \E q : /\ WrittenAll(q, s, D, at, un, x, units)
                  /\ Replace(s, offset, length, units)
                        = IF length > Len(units)
                          THEN RemoveUnits(q.store, q.store.current, q.offset,
                                           length - Len(units))
                          ELSE q.store
  <1> DEFINE n == Len(units)
             good(q) == WriteAt(q, s, D, at, un, x, units)
  <1>0. /\ State(s, D, at, un) /\ s.current # -1
        /\ x \in DOMAIN at /\ length \in Nat /\ DOMAIN at[x] = 1..length
        /\ at[x][1] = <<s.current, offset>>
        /\ units \in Seq(UnitValue) /\ n \in Nat /\ n > 0 /\ n <= length
    BY DEF WritesAll
  <1>1. PICK after : /\ after[0] = [store |-> s, offset |-> offset, done |-> 0]
                     /\ \A k \in 1..n : after[k] = ReplaceTurn(after[k - 1], units)
                     /\ Replace(s, offset, length, units)
                            = IF length > Len(units)
                              THEN RemoveUnits(after[n].store, after[n].store.current,
                                               after[n].offset, length - Len(units))
                              ELSE after[n].store
    BY SMTT(40), <1>0, ReplaceRuns
  <1>2. good(after[0]) /\ after[0].done = 0
    <2>1. offset \in Nat
      <3>0. 1 \in DOMAIN at[x]
        BY <1>0
      <3>1. Laid(Views(s, D), at) /\ IsParts(Views(s, D))
        BY <1>0, StateIs
      <3>2. at[x][1][2] \in Nat
        BY <1>0, <3>0, <3>1, PlaceIs DEF Laid
      <3> QED BY <1>0, <3>2
    <2> DEFINE q == after[0]
    <2>2. q.store = s /\ q.offset = offset /\ q.done = 0 /\ q.done + 1 = 1
          /\ q.done \in 0..n /\ q.done # n
      BY <1>0, <1>1
    <2> HIDE DEF q
    <2>3. Kept(s, s, D)
      BY DEF Kept
    <2>4. Mixed(at, un, un, x, units, q.done)
      <3> SUFFICES ASSUME NEW y \in DOMAIN at, NEW k \in DOMAIN at[y], y = x, k <= q.done
                   PROVE  FALSE
        BY DEF Mixed
      <3> QED BY <1>0, <2>2
    <2> QED BY <1>0, <2>1, <2>2, <2>3, <2>4 DEF WriteAt, q
  <1>3. ASSUME NEW q, good(q)
        PROVE  q.done \in 0..n /\ (q.done = n => ReplaceTurn(q, units) = q)
    BY <1>3 DEF WriteAt, ReplaceTurn
  <1>4. ASSUME NEW q, good(q), q.done < n
        PROVE  good(ReplaceTurn(q, units)) /\ ReplaceTurn(q, units).done > q.done
    BY <1>0, <1>4, WriteTurnIs
  <1> DEFINE T == {k \in 0..n : good(after[k]) /\ after[k].done >= k}
  <1> HIDE DEF good
  <1>5. \A k \in 0..n : k \in T
    <2>1. 0 \in T
      BY <1>0, <1>2
    <2>2. ASSUME NEW k \in 1..n, k - 1 \in T
          PROVE  k \in T
      <3> DEFINE q == after[k - 1]
                 r == after[k]
      <3>1. good(q) /\ q.done >= k - 1 /\ r = ReplaceTurn(q, units)
        BY <1>1, <2>2
      <3> HIDE DEF q, r
      <3>2. q.done \in 0..n
        BY <1>3, <3>1
      <3>3. CASE q.done = n
        <4>1. r = q /\ r.done >= k
          BY <1>0, <1>3, <3>1, <3>3
        <4> QED BY <3>1, <4>1 DEF r
      <3>4. CASE q.done < n
        <4>1. good(r) /\ r.done > q.done /\ r.done \in 0..n
          BY <1>3, <1>4, <3>1, <3>4
        <4>2. r.done >= k
          BY <1>0, <3>1, <3>2, <4>1
        <4> QED BY <4>1, <4>2 DEF r
      <3> QED BY <1>0, <3>2, <3>3, <3>4
    <2> HIDE DEF T
    <2> QED BY <1>0, <2>1, <2>2, TurnInduction
  <1> DEFINE q == after[n]
  <1>6. good(q) /\ q.done >= n
    <2>1. n \in T
      BY <1>0, <1>5
    <2> QED BY <2>1
  <1> HIDE DEF q
  <1>7. q.done = n
    BY <1>0, <1>3, <1>6
  <1>8. WrittenAll(q, s, D, at, un, x, units)
    BY <1>6, <1>7 DEF WrittenAll, good
  <1> QED BY <1>1, <1>8 DEF q

-----------------------------------------------------------------------------
(* replace: what is left over of x is removed as a value of its own.         *)

\* x is cut in two, and the second part has the name z.
InTwo(at, un, at2, un2, x, z, m, length) ==
    /\ x \in DOMAIN at /\ z \notin DOMAIN at /\ m \in Nat /\ length \in Nat /\ m <= length
    /\ DOMAIN at[x] = 1..length
    /\ at2 = [y \in DOMAIN at \cup {z} |->
                IF y = z THEN [k \in (m + 1)..length |-> at[x][k]]
                ELSE IF y = x THEN [k \in 1..m |-> at[x][k]] ELSE at[y]]
    /\ un2 = [y \in DOMAIN at \cup {z} |-> IF y = z THEN un[x] ELSE un[y]]

LEMMA InTwoState ==
    ASSUME NEW s, NEW D, NEW at, NEW un, State(s, D, at, un),
           NEW at2, NEW un2, NEW x, NEW z, NEW m, NEW length,
           InTwo(at, un, at2, un2, x, z, m, length)
    PROVE  State(s, D, at2, un2)
  <1> DEFINE g == [y \in DOMAIN at \cup {z} |-> IF y = z THEN x ELSE y]
  <1>0. /\ x \in DOMAIN at /\ z \notin DOMAIN at /\ m \in Nat /\ length \in Nat /\ m <= length
        /\ DOMAIN at[x] = 1..length /\ DOMAIN at2 = DOMAIN at \cup {z}
        /\ at2[z] = [k \in (m + 1)..length |-> at[x][k]]
        /\ at2[x] = [k \in 1..m |-> at[x][k]]
        /\ \A y \in DOMAIN at : y # x => at2[y] = at[y]
        /\ un2[z] = un[x] /\ \A y \in DOMAIN at : un2[y] = un[y]
    BY DEF InTwo
  <1>1. g[z] = x /\ \A y \in DOMAIN at : g[y] = y
    BY <1>0
  <1> HIDE DEF g
  <1>2. ASSUME NEW y \in DOMAIN at2, NEW k \in DOMAIN at2[y]
        PROVE  /\ g[y] \in DOMAIN at /\ k \in DOMAIN at[g[y]]
               /\ at2[y][k] = at[g[y]][k] /\ un2[y][k] = un[g[y]][k]
    <2>1. CASE y = z
      <3>1. k \in (m + 1)..length
        BY <1>0, <2>1
      <3>2. k \in 1..length
        BY <1>0, <3>1
      <3> QED BY <1>0, <1>1, <2>1, <3>1, <3>2
    <2>2. CASE y = x
      <3>1. k \in 1..m
        BY <1>0, <2>2
      <3>2. k \in 1..length
        BY <1>0, <3>1
      <3> QED BY <1>0, <1>1, <2>2, <3>1, <3>2
    <2>3. CASE y # x /\ y # z
      <3>1. y \in DOMAIN at /\ at2[y] = at[y] /\ g[y] = y /\ un2[y] = un[y]
        BY <1>0, <1>1, <2>3
      <3> QED BY <3>1
    <2> QED BY <2>1, <2>2, <2>3
  <1>3. ASSUME NEW y \in DOMAIN at2, NEW w \in DOMAIN at2,
               NEW k \in DOMAIN at2[y] \cap DOMAIN at2[w], g[y] = g[w]
        PROVE  y = w
    <2>1. ASSUME k \in DOMAIN at2[z], k \in DOMAIN at2[x]
          PROVE  FALSE
      <3>1. k \in (m + 1)..length /\ k \in 1..m
        BY <1>0, <2>1
      <3> QED BY <1>0, <3>1
    <2> QED BY <1>0, <1>1, <1>3, <2>1
  <1>4. ASSUME NEW y \in DOMAIN at, NEW k \in DOMAIN at[y]
        PROVE  \E w \in DOMAIN at2 : g[w] = y /\ k \in DOMAIN at2[w]
    <2>1. CASE y # x
      BY <1>0, <1>1, <2>1
    <2>2. CASE y = x
      <3>1. k \in 1..m \/ k \in (m + 1)..length
        BY <1>0, <2>2
      <3>2. k \in DOMAIN at2[x] \/ k \in DOMAIN at2[z]
        BY <1>0, <3>1
      <3> QED BY <1>0, <1>1, <2>2, <3>2
    <2> QED BY <2>1, <2>2
  <1>5. Renamed(at, un, at2, un2, g)
    BY <1>2, <1>3, <1>4 DEF Renamed
  <1> QED BY <1>5, RenamedState

\* What is put into x differs from what was there.
PutsInto(at, un, un2, x, units) ==
    /\ un2[x] = units
    /\ \A y \in DOMAIN at : y # x => un2[y] = un[y]

LEMMA LeftOver ==
    ASSUME NEW q, NEW s, NEW D, NEW at, NEW un, NEW x, NEW units, NEW offset, NEW length,
           WritesAll(s, D, at, un, x, units, offset, length),
           WrittenAll(q, s, D, at, un, x, units), length > Len(units),
           NEW un2, PutsInto(at, un, un2, x, units),
           NEW r, r = RemoveUnits(q.store, q.store.current, q.offset, length - Len(units))
    PROVE  \E at2 : PutTo(s, r, D, at, at2, un2, x, Len(units), <<s.current, offset>>)
  <1> DEFINE m == Len(units)
             w == q.store
             b == w.current
  <1>0. /\ x \in DOMAIN at /\ length \in Nat /\ DOMAIN at[x] = 1..length
        /\ at[x][1] = <<s.current, offset>>
        /\ units \in Seq(UnitValue) /\ m \in Nat /\ m > 0 /\ m < length
        /\ m \in Nat \ {0}
    BY DEF WritesAll
  <1>1. /\ q.done = m /\ q.offset \in Nat /\ b # -1 /\ Kept(s, w, D)
        /\ q.offset - 1 \in Places /\ at[x][m] = <<b, q.offset - 1>>
    BY DEF WrittenAll, WriteAt
  <1>2. PICK u : Mixed(at, un, u, x, units, m) /\ State(w, D, at, u)
    BY <1>1 DEF WrittenAll, WriteAt
  <1>3. PICK z : z \notin DOMAIN at
    <2> DEFINE S == DOMAIN at
               y == {v \in S : v \notin v}
    <2>0. \A v : v \in y <=> v \in S /\ v \notin v
      OBVIOUS
    <2> HIDE DEF y
    <2>1. y \notin S
      BY <2>0
    <2> QED BY <2>1
  <1> DEFINE at3 == [y \in DOMAIN at \cup {z} |->
                IF y = z THEN [k \in (m + 1)..length |-> at[x][k]]
                ELSE IF y = x THEN [k \in 1..m |-> at[x][k]] ELSE at[y]]
             u3 == [y \in DOMAIN at \cup {z} |-> IF y = z THEN u[x] ELSE u[y]]
  <1>4. InTwo(at, u, at3, u3, x, z, m, length)
    <2> HIDE DEF m
    <2> QED BY <1>0, <1>3 DEF InTwo
  <1>5. /\ DOMAIN at3 = DOMAIN at \cup {z} /\ x # z
        /\ at3[z] = [k \in (m + 1)..length |-> at[x][k]]
        /\ at3[x] = [k \in 1..m |-> at[x][k]]
        /\ \A y \in DOMAIN at : y # x => at3[y] = at[y]
        /\ \A y \in DOMAIN at : u3[y] = u[y]
    <2> HIDE DEF m
    <2> QED BY <1>0, <1>3
  <1> HIDE DEF at3, u3, m, w, b
  <1>6. State(w, D, at3, u3)
    BY <1>2, <1>4, InTwoState
  <1>7. at3[z][m + 1] = at[x][m + 1] /\ m + 1 \in 1..length /\ m \in 1..length
        /\ DOMAIN at3[z] = (m + 1)..length
    BY <1>0, <1>5
  <1>8. /\ Laid(Views(w, D), at) /\ IsParts(Views(w, D)) /\ Views(w, D)[b] = Part(w)
    BY <1>1, <1>2, StateIs DEF b
  <1>9. at[x][m + 1] = Follow(Views(w, D), at[x][m])
    BY <1>0, <1>7, <1>8 DEF Laid, Linked
  <1>10. /\ q.offset \in 0..BucketLength /\ q.offset - 1 + 1 = q.offset
         /\ q.offset = BucketLength => q.offset - 1 = BucketLength - 1
    BY <1>1, BucketLengthIs DEF Places
  <1>11. Follow(Views(w, D), at[x][m])
            = IF q.offset < BucketLength THEN <<b, q.offset>> ELSE <<w.next, 0>>
    <2>1. at[x][m][1] = b /\ at[x][m][2] = q.offset - 1 /\ Views(w, D)[b].next = w.next
      BY <1>1, <1>8 DEF Part
    <2> QED BY <1>10, <2>1 DEF Follow
  <1>12. ASSUME q.offset = BucketLength
         PROVE  NoneGoesOn(at3, b)
    <2> SUFFICES ASSUME NEW y \in DOMAIN at3, NEW k \in DOMAIN at3[y], k + 1 \in DOMAIN at3[y],
                        at3[y][k] = <<b, BucketLength - 1>>
                 PROVE  FALSE
      BY DEF NoneGoesOn
    <2>1. Laid(Views(w, D), at3)
      BY <1>6, StateIs
    <2>2. x \in DOMAIN at3 /\ m \in DOMAIN at3[x] /\ at3[x][m] = <<b, BucketLength - 1>>
      BY <1>0, <1>1, <1>5, <1>10, <1>12
    <2>3. y = x /\ k = m
      BY <2>1, <2>2 DEF Laid, Apart
    <2> QED BY <1>0, <1>5, <2>3
  <1> DEFINE start == [store |-> w, bucket |-> b, offset |-> q.offset,
                       length |-> length - m]
  <1>13. CutAt(start, at3, w, D, at3, u3, z, length)
    <2>1. /\ start.store = w /\ start.bucket = b /\ start.offset = q.offset
          /\ start.length = length - m
      OBVIOUS
    <2> HIDE DEF start
    <2>2. WithCurrent(w, b) = w
      BY DEF WithCurrent, b
    <2>3. length - (length - m) + 1 = m + 1 /\ length - m \in Nat /\ length - m <= length + 1
          /\ length - m # 0
      BY <1>0
    <2>4. GoesOn(start, w, D, at3, u3, z, m + 1)
      <3>1. Kept(w, w, D)
        BY DEF Kept
      <3>2. q.offset < BucketLength => at3[z][m + 1] = <<b, q.offset>>
        BY <1>7, <1>9, <1>11
      <3>3. q.offset = BucketLength => at3[z][m + 1] = <<w.next, 0>>
        BY <1>7, <1>9, <1>10, <1>11, BucketLengthIs
      <3> QED BY <1>1, <1>6, <1>10, <1>12, <2>1, <3>1, <3>2, <3>3 DEF GoesOn, b
    <2>5. z \in DOMAIN at3 /\ DOMAIN at3[z] = (m + 1)..length
      BY <1>5, <1>7
    <2>6. Kept(w, w, D) /\ Changed(at3, at3, z)
      BY DEF Kept, Changed
    <2> QED BY <1>0, <2>1, <2>2, <2>3, <2>4, <2>5, <2>6 DEF CutAt
  <1> HIDE DEF start
  <1>14. PICK at4 : Removed(w, r, D, at3, at4, u3, z)
    <2>1. \E at4 : Removed(w, RemoveUnits(w, b, q.offset, length - m), D, at3, at4, u3, z)
      BY <1>13, RemoveUnitsIs DEF start
    <2> QED BY <2>1 DEF w, b, m
  <1>15. /\ DOMAIN at4 = DOMAIN at \cup {z} /\ DOMAIN at4[z] = {} /\ Kept(w, r, D)
         /\ State(r, D, at4, u3) /\ \A y \in DOMAIN at : at4[y] = at3[y]
    BY <1>3, <1>5, <1>14 DEF Removed, Changed
  <1> DEFINE at5 == [y \in DOMAIN at |-> at4[y]]
             g == [y \in DOMAIN at |-> y]
  <1>16. /\ DOMAIN at5 = DOMAIN at /\ \A y \in DOMAIN at : at5[y] = at3[y] /\ g[y] = y
    BY <1>15
  <1> HIDE DEF at5, g
  <1>17. Renamed(at4, u3, at5, un2, g)
    <2>1. ASSUME NEW y \in DOMAIN at5, NEW k \in DOMAIN at5[y]
          PROVE  /\ g[y] \in DOMAIN at4 /\ k \in DOMAIN at4[g[y]]
                 /\ at5[y][k] = at4[g[y]][k] /\ un2[y][k] = u3[g[y]][k]
      <3>1. y \in DOMAIN at /\ g[y] = y /\ at5[y] = at4[y] /\ y \in DOMAIN at4 /\ u3[y] = u[y]
            /\ at5[y] = at3[y]
        BY <1>5, <1>15, <1>16
      <3>2. un2[y][k] = u[y][k]
        <4>1. CASE y # x
          <5>1. un2[y] = un[y] /\ k \in DOMAIN at[y]
            BY <1>5, <3>1, <4>1 DEF PutsInto
          <5> QED BY <1>2, <3>1, <4>1, <5>1 DEF Mixed
        <4>2. CASE y = x
          <5>1. k \in 1..m
            BY <1>5, <3>1, <4>2
          <5>2. k \in DOMAIN at[x] /\ k <= m
            BY <1>0, <5>1
          <5>3. u[x][k] = units[k]
            BY <1>0, <1>2, <5>2 DEF Mixed
          <5> QED BY <4>2, <5>3 DEF PutsInto
        <4> QED BY <4>1, <4>2
      <3> QED BY <3>1, <3>2
    <2>2. ASSUME NEW y \in DOMAIN at4, NEW k \in DOMAIN at4[y]
          PROVE  \E v \in DOMAIN at5 : g[v] = y /\ k \in DOMAIN at5[v]
      <3>1. y \in DOMAIN at
        BY <1>15, <2>2
      <3>2. at5[y] = at4[y] /\ g[y] = y
        BY <1>15, <1>16, <3>1
      <3> QED BY <1>16, <3>1, <3>2
    <2>3. ASSUME NEW y \in DOMAIN at5, NEW v \in DOMAIN at5, g[y] = g[v]
          PROVE  y = v
      BY <1>16, <2>3
    <2> QED BY <2>1, <2>2, <2>3 DEF Renamed
  <1>18. State(r, D, at5, un2)
    BY <1>15, <1>17, RenamedState
  <1>19. Changed(at, at5, x)
    BY <1>5, <1>16 DEF Changed
  <1>20. DOMAIN at5[x] = 1..m /\ at5[x][1] = <<s.current, offset>>
    <2>1. 1 \in 1..m
      BY <1>0
    <2> QED BY <1>0, <1>5, <1>16, <2>1
  <1>21. Kept(s, r, D)
    BY <1>1, <1>15, KeptTwice
  <1> QED BY <1>18, <1>19, <1>20, <1>21 DEF PutTo, m

LEMMA ReplaceIs ==
    ASSUME NEW s, NEW D, NEW at, NEW un, NEW x, NEW units, NEW offset, NEW length,
           WritesAll(s, D, at, un, x, units, offset, length),
           NEW un2, PutsInto(at, un, un2, x, units)
    PROVE  \E at2 : PutTo(s, Replace(s, offset, length, units), D, at, at2, un2, x,
                          Len(units), <<s.current, offset>>)
  <1> DEFINE m == Len(units)
  <1>1. PICK q : /\ WrittenAll(q, s, D, at, un, x, units)
                 /\ Replace(s, offset, length, units)
                        = IF length > m
                          THEN RemoveUnits(q.store, q.store.current, q.offset, length - m)
                          ELSE q.store
    BY WritesAllIs
  <1>2. CASE length > m
    BY <1>1, <1>2, LeftOver
  <1>3. CASE ~(length > m)
    <2>0. /\ x \in DOMAIN at /\ length \in Nat /\ DOMAIN at[x] = 1..length
          /\ at[x][1] = <<s.current, offset>> /\ m = length
      BY <1>3 DEF WritesAll
    <2> DEFINE g == [y \in DOMAIN at |-> y]
               w == q.store
    <2>1. Kept(s, w, D) /\ q.done = m
      BY <1>1 DEF WrittenAll, WriteAt
    <2>2. PICK u : Mixed(at, un, u, x, units, m) /\ State(w, D, at, u)
      BY <1>1, <2>1 DEF WrittenAll, WriteAt
    <2> HIDE DEF w, m
    <2>3. Renamed(at, u, at, un2, g)
      <3>1. ASSUME NEW y \in DOMAIN at, NEW k \in DOMAIN at[y]
            PROVE  un2[y][k] = u[y][k]
        <4>1. CASE y # x
          BY <2>2, <4>1 DEF Mixed, PutsInto
        <4>2. CASE y = x
          <5>1. k <= m
            BY <2>0, <4>2
          <5> QED BY <2>2, <4>2, <5>1 DEF Mixed, PutsInto
        <4> QED BY <4>1, <4>2
      <3> QED BY <3>1 DEF Renamed
    <2>4. State(w, D, at, un2)
      BY <2>2, <2>3, RenamedState
    <2>5. Replace(s, offset, length, units) = w
      BY <1>1, <1>3 DEF w
    <2>6. Changed(at, at, x)
      BY DEF Changed
    <2> QED BY <2>0, <2>1, <2>4, <2>5, <2>6 DEF PutTo, m
  <1> QED BY <1>2, <1>3

-----------------------------------------------------------------------------
(* put and putShape.                                                         *)

ZeroPart == [used |-> 0, nDeleted |-> 0, next |-> 0, data |-> NoData]

LEMMA ZeroPartIs == Part(ZeroBucket) = ZeroPart /\ ZeroPart \in PartValue
  BY NoDataIs DEF Part, ZeroBucket, ZeroPart, NoData, PartValue

\* A new bucket is left before anything is put into it: it stays as it is in the
\* file, without a header.
LEMMA FreshLeft ==
    ASSUME NEW s, NEW D, NEW at, NEW un, State(s, D, at, un), NEW l, NEW b,
           HasNew(s, l, b, D, at, un), ~ShapeOnce,
           NEW c, c \in DOMAIN Views(s, D)
    PROVE  /\ State(WithCurrent(l, c), D, at, un) /\ Kept(s, WithCurrent(l, c), D)
           /\ WithCurrent(l, c).current = c
  <1> DEFINE V == Views(s, D)
             t == WithCurrent(l, c)
             V2 == Views(t, D)
  <1>1. /\ Handler(s, D) /\ Laid(V, at) /\ Counted(V, at) /\ IsParts(V)
        /\ HoldsIn(V, at, un, DOMAIN at) /\ DOMAIN V = DOMAIN s.file \ D
    BY StateIs
  <1>2. /\ Handler(l, D) /\ Kept(s, l, D) /\ l.current = b /\ LiveIn(at, b) = {}
        /\ DOMAIN Views(l, D) = DOMAIN V \cup {b} /\ Agree(V, Views(l, D))
        /\ DOMAIN l.file = DOMAIN s.file \cup {b} /\ b \notin DOMAIN s.file
        /\ b \in Nat /\ l.changed = FALSE /\ Part(l.file[b]) = ZeroPart
    BY ZeroPartIs DEF HasNew, Ready, Good
  <1>3. /\ l \in StoreValue /\ DOMAIN l.file \subseteq Nat
        /\ \A d \in DOMAIN l.file \ D : Views(l, D)[d] = View(l, d)
        /\ DOMAIN Views(l, D) = DOMAIN l.file \ D
    BY <1>2, ViewsAre, FileIs DEF Handler
  <1>4. c \in DOMAIN s.file \ D /\ c # b /\ c \in DOMAIN l.file /\ b \in DOMAIN l.file \ D
    BY <1>1, <1>2, <1>3
  <1>5. FlushBucket(l) = l
    BY <1>2 DEF FlushBucket
  <1>6. t = [l EXCEPT !.current = c, !.used = l.file[c].used, !.data = l.file[c].data,
                      !.nDeleted = l.file[c].nDeleted, !.next = l.file[c].next]
    BY <1>2, <1>4, <1>5 DEF WithCurrent, GetBucket, InFile
  <1>7. l.file[c] \in BucketValue /\ c \in Int
    BY <1>3, <1>4, FileIs
  <1> HIDE DEF t
  <1>8. /\ t \in StoreValue /\ t.file = l.file /\ t.changed = FALSE /\ t.current = c
        /\ t.last = l.last /\ Part(t) = Part(l.file[c])
    BY <1>2, <1>3, <1>6, <1>7 DEF StoreValue, BucketValue, Part
  <1>9. Handler(t, D) /\ Written(t)
    BY <1>2, <1>4, <1>8 DEF Handler, Written
  <1>10. \A d \in DOMAIN V : View(t, d) = V[d]
    <2> SUFFICES ASSUME NEW d \in DOMAIN V
                 PROVE  View(t, d) = V[d]
      OBVIOUS
    <2>1. d # b /\ d \in DOMAIN l.file \ D
      BY <1>1, <1>2, <1>3
    <2>2. View(t, d) = Part(l.file[d])
      BY <1>8 DEF View
    <2>3. View(l, d) = Part(l.file[d])
      BY <1>2, <2>1 DEF View
    <2>4. Views(l, D)[d] = V[d] /\ Views(l, D)[d] = View(l, d)
      BY <1>2, <1>3, <2>1 DEF Agree
    <2> QED BY <2>2, <2>3, <2>4
  <1>11. View(t, b) = ZeroPart
    BY <1>2, <1>4, <1>8 DEF View
  <1> HIDE DEF V
  <1>12. V2 = [d \in DOMAIN V \cup {b} |-> IF d = b THEN ZeroPart ELSE V[d]]
    <2>1. V2 = [d \in DOMAIN V \cup {b} |-> View(t, d)]
      <3>1. DOMAIN t.file \ D = DOMAIN V \cup {b}
        BY <1>2, <1>3, <1>8 DEF V
      <3> QED BY <3>1 DEF Views
    <2>2. b \notin DOMAIN V
      BY <1>1, <1>2
    <2> QED BY <1>10, <1>11, <2>1, <2>2
  <1> HIDE DEF V2
  <1>13. b \in Nat \ DOMAIN V
    BY <1>1, <1>2
  <1>14. ZeroPart.used = 0 /\ ZeroPart.nDeleted <= BucketLength
    BY BucketLengthIs DEF ZeroPart
  <1>15. Laid(V2, at) /\ Counted(V2, at)
    BY <1>1, <1>12, <1>13, <1>14, ZeroPartIs, NewLaid
  <1>16. HoldsIn(V2, at, un, DOMAIN at)
    <2>1. \A d \in DOMAIN V : LiveIn(at, d) # {} => V2[d].data = V[d].data
      BY <1>12, <1>13
    <2> DEFINE S == DOMAIN at
    <2>2. S \in SUBSET DOMAIN at /\ HoldsIn(V, at, un, S)
      BY <1>1
    <2> HIDE DEF S
    <2>3. HoldsIn(V2, at, un, S)
      BY <1>1, <2>1, <2>2, SameHolds
    <2> QED BY <2>3 DEF S
  <1>17. Full(V2, at, {})
    BY DEF Full
  <1>18. Kept(s, t, D)
    BY <1>2, <1>8 DEF Kept
  <1> QED BY <1>8, <1>9, <1>15, <1>16, <1>17, <1>18 DEF State, Good, V2, t

\* The last string bucket, or a new one.
AtLast(s, l, D, at, un) ==
    /\ Kept(s, l, D) /\ l.current # -1 /\ l.last = l.current
    /\ State(l, D, at, un) \/ \E b : HasNew(s, l, b, D, at, un)

LEMMA LastIs ==
    ASSUME NEW s, NEW D, NEW at, NEW un, State(s, D, at, un)
    PROVE  AtLast(s, LastBucket(s), D, at, un)
  <1>1. Handler(s, D)
    BY StateIs
  <1>2. CASE s.last = -1
    <2> DEFINE b == LeastFree(s)
               t == GetNewBucket(s, FALSE)
    <2>1. IsNew(s, t, b)
      BY DEF IsNew
    <2> HIDE DEF b, t
    <2>2. HasNew(s, t, b, D, at, un)
      BY <2>1, NewState
    <2>3. t.current # -1 /\ t.last = t.current /\ Kept(s, t, D)
      BY <2>2 DEF HasNew
    <2>4. LastBucket(s) = t
      BY <1>2 DEF LastBucket, t
    <2> QED BY <2>2, <2>3, <2>4 DEF AtLast
  <1>3. CASE s.last # -1
    <2> DEFINE b == s.last
    <2>1. b \in DOMAIN s.file \ D /\ b # -1
      BY <1>1, <1>3 DEF Handler
    <2>2. LastBucket(s) = WithCurrent(s, b)
      BY <1>3 DEF LastBucket
    <2> HIDE DEF b
    <2>3. /\ State(WithCurrent(s, b), D, at, un) /\ Kept(s, WithCurrent(s, b), D)
          /\ WithCurrent(s, b).current = b /\ WithCurrent(s, b).last = s.last
      BY <2>1, WithState
    <2> QED BY <2>1, <2>2, <2>3 DEF AtLast, b
  <1> QED BY <1>2, <1>3

LEMMA UnitsAre ==
    ASSUME NEW value \in Values
    PROVE  /\ Units(value) \in Seq(UnitValue) /\ Len(Units(value)) = Size[value]
           /\ Size[value] \in Nat \ {0}
           /\ \A i \in 1..Size[value] : Units(value)[i] = <<value, i>>
  <1> DEFINE n == Size[value]
  <1>1. n \in Nat \ {0}
    BY StringBucketsAssumption
  <1>2. Units(value) = [i \in 1..n |-> <<value, i>>]
    BY DEF Units
  <1> HIDE DEF n
  <1>3. Units(value) \in [1..n -> UnitValue]
    BY <1>1, <1>2 DEF UnitValue
  <1> DEFINE u == Units(value)
  <1>4. u \in [1..n -> UnitValue] /\ u = [i \in 1..n |-> <<value, i>>]
    BY <1>2, <1>3
  <1> HIDE DEF u
  <1>5. u \in Seq(UnitValue) /\ Len(u) = n /\ \A i \in 1..n : u[i] = <<value, i>>
    BY <1>1, <1>4
  <1> QED BY <1>1, <1>5 DEF n, u

\* Where put begins: in a bucket with room for at least one unit.
Begun(l, value) ==
    IF Size[value] > BucketLength - l.used /\ BucketLength - l.used < NearlyFull
    THEN GetNewBucket(l, FALSE) ELSE l

LEMMA BegunIs ==
    ASSUME NEW s, NEW D, NEW at, NEW un, NEW l, AtLast(s, l, D, at, un),
           NEW value \in Values
    PROVE  Ready(Begun(l, value), D, at, un) /\ Kept(s, Begun(l, value), D)
  <1> DEFINE a == Begun(l, value)
  <1>0. Kept(s, l, D) /\ l.current # -1
    BY DEF AtLast
  <1>1. CASE \E b : HasNew(s, l, b, D, at, un)
    <2>1. Ready(l, D, at, un) /\ l.used = 0
      BY <1>1 DEF HasNew
    <2>2. ~(BucketLength - l.used < NearlyFull)
      <3>1. BucketLength >= NearlyFull /\ BucketLength \in Nat /\ NearlyFull \in Nat
        BY StringBucketsAssumption
      <3> QED BY <2>1, <3>1
    <2>3. a = l
      BY <2>2 DEF Begun
    <2> QED BY <1>0, <2>1, <2>3
  <1>2. CASE State(l, D, at, un)
    <2>1. l.used \in 0..BucketLength
      <3>1. /\ Laid(Views(l, D), at) /\ l.current \in DOMAIN l.file \ D
            /\ DOMAIN Views(l, D) = DOMAIN l.file \ D
            /\ Views(l, D)[l.current] = Part(l)
        BY <1>0, <1>2, StateIs
      <3>2. Views(l, D)[l.current].used \in 0..BucketLength
        BY <3>1 DEF Laid, UsedFits
      <3> QED BY <3>1, <3>2 DEF Part
    <2>2. CASE Size[value] > BucketLength - l.used /\ BucketLength - l.used < NearlyFull
      <3> DEFINE b == LeastFree(l)
      <3>1. a = GetNewBucket(l, FALSE)
        BY <2>2 DEF Begun
      <3> HIDE DEF a
      <3>2. IsNew(l, a, b)
        BY <3>1 DEF IsNew
      <3> HIDE DEF b
      <3>3. HasNew(l, a, b, D, at, un)
        BY <1>2, <3>2, NewState
      <3>4. Ready(a, D, at, un) /\ Kept(l, a, D)
        BY <3>3 DEF HasNew
      <3>5. Kept(s, a, D)
        BY <1>0, <3>4, KeptTwice
      <3> QED BY <3>4, <3>5 DEF a
    <2>3. CASE ~(Size[value] > BucketLength - l.used /\ BucketLength - l.used < NearlyFull)
      <3>1. a = l
        BY <2>3 DEF Begun
      <3>2. Size[value] \in Nat \ {0} /\ NearlyFull \in Nat \ {0} /\ BucketLength \in Nat
        BY StringBucketsAssumption
      <3>3. l.used < BucketLength
        BY <2>1, <2>3, <3>2
      <3>4. Ready(l, D, at, un)
        BY <1>0, <1>2, <3>3 DEF Ready, State, Full
      <3> QED BY <1>0, <3>1, <3>4
    <2> QED BY <2>2, <2>3
  <1> QED BY <1>1, <1>2 DEF AtLast

\* The value has been put, and the cell tells where.
HasPutCell(s, p, D, at, at2, un, x, value) ==
    /\ PutTo(s, p.store, D, at, at2, un, x, Size[value], <<p.cell.bucket, p.cell.offset>>)
    /\ p.cell \in CellValue /\ p.cell.length = Size[value]

LEMMA AppendedIs ==
    ASSUME NEW s, NEW D, NEW at, NEW un, State(s, D, at, un),
           NEW x \in DOMAIN at, DOMAIN at[x] = {}, NEW value \in Values,
           NEW un2, PutsInto(at, un, un2, x, Units(value))
    PROVE  \E at2 : HasPutCell(s, Appended(s, value), D, at, at2, un2, x, value)
  <1> DEFINE g == [y \in DOMAIN at |-> y]
             l == LastBucket(s)
             a == Begun(l, value)
             units == Units(value)
             t == PutData(a, units)
             cell == [EmptyCell EXCEPT !.bucket = a.current, !.offset = a.used,
                                       !.length = Size[value]]
             p == Appended(s, value)
  <1>1. p = [store |-> t, cell |-> cell]
    BY DEF Appended, Begun
  <1>2. /\ units \in Seq(UnitValue) /\ Len(units) = Size[value]
        /\ Size[value] \in Nat \ {0}
    BY UnitsAre
  <1> HIDE DEF units, p, t, l
  <1>3. Renamed(at, un, at, un2, g)
    <2>1. ASSUME NEW y \in DOMAIN at, NEW k \in DOMAIN at[y]
          PROVE  un2[y][k] = un[y][k]
      BY DEF PutsInto
    <2>2. DOMAIN g = DOMAIN at /\ \A y \in DOMAIN at : g[y] = y
      OBVIOUS
    <2> HIDE DEF g
    <2> QED BY <2>1, <2>2 DEF Renamed
  <1>4. State(s, D, at, un2)
    BY <1>3, RenamedState
  <1>5. AtLast(s, l, D, at, un2)
    BY <1>4, LastIs DEF l
  <1> HIDE DEF a
  <1>6. Ready(a, D, at, un2) /\ Kept(s, a, D)
    BY <1>5, BegunIs DEF a
  <1>7. un2[x] = units /\ Len(units) > 0
    BY <1>2 DEF PutsInto, units
  <1>14. PICK at2 : PutTo(a, t, D, at, at2, un2, x, Len(units), <<a.current, a.used>>)
    BY <1>2, <1>6, <1>7, PutDataIs DEF t
  <1>8. /\ Changed(at, at2, x) /\ State(t, D, at2, un2) /\ Kept(a, t, D)
        /\ DOMAIN at2[x] = 1..Len(units) /\ at2[x][1] = <<a.current, a.used>>
    BY <1>14 DEF PutTo
  <1>9. Kept(s, t, D)
    BY <1>6, <1>8, KeptTwice
  <1>10. cell = [bucket |-> a.current, offset |-> a.used, length |-> Size[value],
                 text |-> Nothing]
    <2>1. ASSUME NEW i, NEW j, NEW n, NEW c,
                 c = [EmptyCell EXCEPT !.bucket = i, !.offset = j, !.length = n]
          PROVE  c = [bucket |-> i, offset |-> j, length |-> n, text |-> Nothing]
      BY <2>1 DEF EmptyCell
    <2> QED BY <2>1
  <1>11. a.current \in Int /\ a.used \in Int
    BY <1>6 DEF Ready, Good, Handler, StoreValue
  <1> HIDE DEF cell
  <1>12. cell \in CellValue
    BY <1>2, <1>10, <1>11 DEF CellValue
  <1>13. /\ p.store = t /\ p.cell = cell /\ cell.bucket = a.current /\ cell.offset = a.used
         /\ cell.length = Size[value]
    BY <1>1, <1>10
  <1> QED BY <1>2, <1>8, <1>9, <1>12, <1>13 DEF HasPutCell, PutTo, p

\* What put may be called with.
MayPut(s, cell, D, at, un, x, value) ==
    /\ x \in DOMAIN at /\ value \in Values /\ cell \in CellValue
    /\ \/ cell.length = 0 /\ DOMAIN at[x] = {} /\ State(s, D, at, un)
       \/ HasCell(s, cell, D, at, un, x)

LEMMA PutIs ==
    ASSUME NEW s, NEW cell, NEW D, NEW at, NEW un, NEW x, NEW value,
           MayPut(s, cell, D, at, un, x, value),
           NEW un2, PutsInto(at, un, un2, x, Units(value))
    PROVE  \E at2 : HasPutCell(s, Put(s, cell, value), D, at, at2, un2, x, value)
  <1>0. x \in DOMAIN at /\ value \in Values /\ cell \in CellValue /\ cell.length \in Nat
    BY DEF MayPut, CellValue
  <1>1. CASE cell.length = 0
    <2>1. Put(s, cell, value) = Appended(s, value)
      BY <1>1 DEF Put
    <2>2. DOMAIN at[x] = {} /\ State(s, D, at, un)
      BY <1>1 DEF MayPut, HasCell
    <2> QED BY <1>0, <2>1, <2>2, AppendedIs
  <1>2. CASE cell.length # 0
    <2>1. HasCell(s, cell, D, at, un, x)
      BY <1>2 DEF MayPut
    <2>2. CASE Size[value] > cell.length
      <3> DEFINE t == RemoveCell(s, cell)
      <3>1. PICK at1 : Removed(s, t, D, at, at1, un, x)
        BY <2>1, RemoveCellIs
      <3>2. Put(s, cell, value) = Appended(t, value)
        BY <1>2, <2>2 DEF Put
      <3> HIDE DEF t
      <3>3. /\ Changed(at, at1, x) /\ DOMAIN at1[x] = {}
            /\ State(t, D, at1, un) /\ Kept(s, t, D)
        BY <3>1 DEF Removed
      <3>4. PutsInto(at1, un, un2, x, Units(value)) /\ x \in DOMAIN at1
        BY <1>0, <3>3 DEF PutsInto, Changed
      <3>5. PICK at2 : HasPutCell(t, Appended(t, value), D, at1, at2, un2, x, value)
        BY <1>0, <3>3, <3>4, AppendedIs
      <3> DEFINE p == Appended(t, value)
      <3>6. Changed(at, at2, x)
        BY <1>0, <3>3, <3>5 DEF Changed, HasPutCell, PutTo
      <3>7. Kept(s, p.store, D)
        <4>1. Kept(t, p.store, D)
          BY <3>5 DEF HasPutCell, PutTo
        <4> HIDE DEF p
        <4> QED BY <3>3, <4>1, KeptTwice
      <3> QED BY <3>2, <3>5, <3>6, <3>7 DEF HasPutCell, PutTo
    <2>3. CASE ~(Size[value] > cell.length)
      <3> DEFINE w == WithCurrent(s, cell.bucket)
                 units == Units(value)
                 t == Replace(w, cell.offset, cell.length, units)
                 new == [cell EXCEPT !.length = Size[value]]
                 p == Put(s, cell, value)
      <3>1. p = [store |-> t, cell |-> new]
        BY <1>2, <2>3 DEF Put
      <3> HIDE DEF p
      <3>2. /\ units \in Seq(UnitValue) /\ Len(units) = Size[value]
            /\ Size[value] \in Nat \ {0}
        BY <1>0, UnitsAre
      <3>3. /\ DOMAIN at[x] = 1..cell.length
            /\ at[x][1] = <<cell.bucket, cell.offset>>
            /\ State(w, D, at, un) /\ Kept(s, w, D) /\ w.current = cell.bucket
        BY <2>1 DEF HasCell
      <3>4. w.current # -1
        <4>1. Laid(Views(w, D), at) /\ IsParts(Views(w, D))
          BY <3>3, StateIs
        <4>2. 1 \in DOMAIN at[x]
          BY <1>0, <1>2, <3>3
        <4>3. at[x][1][1] \in DOMAIN Views(w, D) /\ at[x][1][1] = cell.bucket
          BY <1>0, <3>3, <4>1, <4>2, PlaceIs DEF Laid
        <4>4. cell.bucket \in Nat
          BY <4>1, <4>3, PartsAre
        <4> QED BY <3>3, <4>4
      <3> HIDE DEF w, units, t
      <3>5. Len(units) \in 1..cell.length
        BY <1>0, <2>3, <3>2
      <3>6. WritesAll(w, D, at, un, x, units, cell.offset, cell.length)
        BY <1>0, <3>2, <3>3, <3>4, <3>5 DEF WritesAll
      <3>7. PICK at2 : PutTo(w, t, D, at, at2, un2, x, Len(units), <<w.current, cell.offset>>)
        <4>1. PutsInto(at, un, un2, x, units)
          BY DEF units
        <4> QED BY <3>6, <4>1, ReplaceIs DEF t
      <3>8. Kept(s, t, D)
        <4>1. Kept(w, t, D)
          BY <3>7 DEF PutTo
        <4> QED BY <3>3, <4>1, KeptTwice
      <3>9. /\ new \in CellValue /\ new.length = Size[value] /\ new.bucket = cell.bucket
            /\ new.offset = cell.offset
        BY <1>0, <3>2 DEF CellValue
      <3> HIDE DEF new
      <3>10. p.store = t /\ p.cell = new
        BY <3>1
      <3>11. PutTo(s, t, D, at, at2, un2, x, Size[value], <<new.bucket, new.offset>>)
        BY <3>2, <3>3, <3>7, <3>8, <3>9 DEF PutTo
      <3> QED BY <3>9, <3>10, <3>11 DEF HasPutCell, p
    <2> QED BY <2>2, <2>3
  <1> QED BY <1>1, <1>2

\* The cell tells where x is.
CellAt(cell, at, x) ==
    /\ cell.length \in Nat \ {0} /\ DOMAIN at[x] = 1..cell.length
    /\ at[x][1] = <<cell.bucket, cell.offset>>

LEMMA CellAtIs ==
    ASSUME NEW s, NEW cell, NEW D, NEW at, NEW un, State(s, D, at, un),
           NEW x \in DOMAIN at, CellAt(cell, at, x)
    PROVE  /\ HasCell(s, cell, D, at, un, x)
           /\ cell.bucket \in DOMAIN Views(s, D) /\ cell.bucket \in DOMAIN s.file \ D
  <1> DEFINE b == cell.bucket
  <1>0. /\ cell.length \in Nat \ {0} /\ DOMAIN at[x] = 1..cell.length
        /\ at[x][1] = <<cell.bucket, cell.offset>>
    BY DEF CellAt
  <1>1. /\ Laid(Views(s, D), at) /\ IsParts(Views(s, D))
        /\ DOMAIN Views(s, D) = DOMAIN s.file \ D
    BY StateIs
  <1>2. 1 \in DOMAIN at[x]
    BY <1>0
  <1>3. at[x][1][1] \in DOMAIN Views(s, D) /\ at[x][1][1] = b
    BY <1>0, <1>1, <1>2, PlaceIs DEF Laid
  <1>4. b \in DOMAIN s.file \ D
    BY <1>1, <1>3
  <1> HIDE DEF b
  <1>5. /\ State(WithCurrent(s, b), D, at, un) /\ Kept(s, WithCurrent(s, b), D)
        /\ WithCurrent(s, b).current = b
    BY <1>4, WithState
  <1>6. HasCell(s, cell, D, at, un, x)
    BY <1>0, <1>5 DEF HasCell, b
  <1> QED BY <1>3, <1>4, <1>6 DEF b

LEMMA PutShapeIs ==
    ASSUME NEW s, NEW cell \in CellValue, NEW D, NEW at, NEW un, State(s, D, at, un),
           NEW x \in DOMAIN at, NEW value \in Values,
           \/ cell.length = 0 /\ DOMAIN at[x] = {}
           \/ ~ShapeOnce /\ CellAt(cell, at, x),
           NEW un2, PutsInto(at, un, un2, x, Units(value))
    PROVE  \E at2 : HasPutCell(s, PutShape(s, cell, value), D, at, at2, un2, x, value)
  <1> DEFINE l == LastBucket(s)
             p == PutShape(s, cell, value)
  <1>1. AtLast(s, l, D, at, un)
    BY LastIs
  <1>2. Kept(s, l, D) /\ l.current # -1 /\ l.last = l.current
    BY <1>1 DEF AtLast
  <1>3. p = Put(l, cell, value)
    BY DEF PutShape
  <1>4. CASE cell.length = 0 /\ DOMAIN at[x] = {}
    <2>1. LastBucket(l) = l
      <3> HIDE DEF l
      <3> QED BY <1>2 DEF LastBucket, WithCurrent
    <2>2. Appended(l, value) = Appended(s, value)
      BY <2>1 DEF Appended
    <2>3. p = Appended(s, value)
      BY <1>3, <1>4, <2>2 DEF Put
    <2> HIDE DEF p
    <2>4. \E at2 : HasPutCell(s, p, D, at, at2, un2, x, value)
      BY <1>4, <2>3, AppendedIs
    <2> QED BY <2>4 DEF p
  <1>5. CASE ~ShapeOnce /\ CellAt(cell, at, x)
    <2> DEFINE c == cell.bucket
    <2> HIDE DEF l, p
    <2>1. HasCell(l, cell, D, at, un, x)
      <3>1. CASE State(l, D, at, un)
        BY <1>5, <3>1, CellAtIs
      <3>2. CASE \E b : HasNew(s, l, b, D, at, un)
        <4>1. PICK b : HasNew(s, l, b, D, at, un)
          BY <3>2
        <4>2. c \in DOMAIN Views(s, D)
          BY <1>5, CellAtIs
        <4> HIDE DEF c
        <4>3. /\ State(WithCurrent(l, c), D, at, un) /\ Kept(s, WithCurrent(l, c), D)
              /\ WithCurrent(l, c).current = c
          BY <1>5, <4>1, <4>2, FreshLeft
        <4>4. Kept(l, WithCurrent(l, c), D)
          BY <1>2, <4>3 DEF Kept
        <4> QED BY <1>5, <4>3, <4>4 DEF HasCell, CellAt, c
      <3> QED BY <1>1, <3>1, <3>2 DEF AtLast
    <2>2. MayPut(l, cell, D, at, un, x, value)
      BY <2>1 DEF MayPut
    <2>3. PICK at2 : HasPutCell(l, p, D, at, at2, un2, x, value)
      BY <1>3, <2>2, PutIs
    <2> DEFINE t == p.store
    <2>4. Kept(l, t, D)
      BY <2>3 DEF HasPutCell, PutTo
    <2> HIDE DEF t
    <2>5. Kept(s, t, D)
      BY <1>2, <2>4, KeptTwice
    <2>6. HasPutCell(s, p, D, at, at2, un2, x, value)
      BY <2>3, <2>5 DEF HasPutCell, PutTo, t
    <2> QED BY <2>6 DEF p
  <1> QED BY <1>4, <1>5

-----------------------------------------------------------------------------
(* The cells in the data buckets.                                            *)

\* The cells of the data buckets D.
Keys(D) == D \X (1..RowsPerBucket) \X Columns
Cell(s, x) == s.file[x[1]].cells[x[2]][x[3]]

\* The cell of a column c for the value v, whose units are at the places a.  What is
\* not in a string bucket is in the cell, or was there.
Fits(cell, v, c, a) ==
    /\ cell \in CellValue
    /\ \/ /\ IsLong(cell) /\ v \in Values /\ cell.length = Size[v]
          /\ DOMAIN a = 1..cell.length /\ a[1] = <<cell.bucket, cell.offset>>
       \/ /\ ~IsLong(cell) /\ DOMAIN a = {}
          /\ c \in Arrays => cell = EmptyCell
          /\ cell.text = Nothing \/ (cell.text \in Strings /\ Size[cell.text] <= ShortLength)
          /\ v = cell.text \/ v = Nothing

UnitsOf(val) == [x \in DOMAIN val |-> Units(val[x])]

\* val is what has been put, at is where it is.
Sound(s, D, val, at) ==
    /\ State(s, D, at, UnitsOf(val))
    /\ DOMAIN val = Keys(D) /\ DOMAIN at = Keys(D)
    /\ \A x \in Keys(D) : Fits(Cell(s, x), val[x], x[3], at[x])

LEMMA KeysAre ==
    ASSUME NEW D, NEW x \in Keys(D)
    PROVE  /\ x[1] \in D /\ x[2] \in 1..RowsPerBucket /\ x[3] \in Columns
           /\ x = <<x[1], x[2], x[3]>>
  BY DEF Keys

LEMMA KeyIs ==
    ASSUME NEW D, NEW b \in D, NEW p \in 1..RowsPerBucket, NEW c \in Columns
    PROVE  /\ <<b, p, c>> \in Keys(D)
           /\ <<b, p, c>>[1] = b /\ <<b, p, c>>[2] = p /\ <<b, p, c>>[3] = c
  BY DEF Keys

\* The handler leaves the cells alone.
LEMMA KeptCells ==
    ASSUME NEW s, NEW t, NEW D, Kept(s, t, D), NEW x \in Keys(D)
    PROVE  Cell(t, x) = Cell(s, x)
  BY KeysAre DEF Kept, Cell

LEMMA KeptSound ==
    ASSUME NEW s, NEW t, NEW D, NEW val, NEW at, Sound(s, D, val, at),
           State(t, D, at, UnitsOf(val)), Kept(s, t, D)
    PROVE  Sound(t, D, val, at)
  <1>1. \A x \in Keys(D) : Cell(t, x) = Cell(s, x)
    BY KeptCells
  <1> QED BY <1>1 DEF Sound

\* What is long is at its places.
LEMMA FitsIs ==
    ASSUME NEW s, NEW D, NEW val, NEW at, Sound(s, D, val, at), NEW x \in Keys(D)
    PROVE  /\ Cell(s, x) \in CellValue /\ x \in DOMAIN at
           /\ IsLong(Cell(s, x)) =>
                /\ CellAt(Cell(s, x), at, x) /\ val[x] \in Values
                /\ Cell(s, x).length = Size[val[x]]
           /\ ~IsLong(Cell(s, x)) =>
                DOMAIN at[x] = {} /\ (x[3] \in Arrays => Cell(s, x) = EmptyCell)
           /\ val[x] = Nothing => DOMAIN at[x] = {} /\ ~IsLong(Cell(s, x))
  <1>1. Fits(Cell(s, x), val[x], x[3], at[x]) /\ x \in DOMAIN at
    BY DEF Sound
  <1>2. Nothing \notin Values /\ ShortLength \in Nat
    BY StringBucketsAssumption
  <1>3. IsLong(Cell(s, x)) => Cell(s, x).length \in Nat \ {0}
    BY <1>1, <1>2 DEF Fits, IsLong, CellValue
  <1> QED BY <1>1, <1>2, <1>3 DEF Fits, CellAt

\* Other cells in the file, and the same string buckets.
NewFile(s, t, D, f) ==
    /\ f \in [DOMAIN s.file -> BucketValue]
    /\ \A b \in DOMAIN s.file \ D : Part(f[b]) = Part(s.file[b])
    /\ t = [s EXCEPT !.file = f]

HasFile(t, D, at, un, f) == State(t, D, at, un) /\ t.file = f

LEMMA NewFileState ==
    ASSUME NEW s, NEW D, NEW at, NEW un, State(s, D, at, un), NEW t, NEW f, NewFile(s, t, D, f)
    PROVE  HasFile(t, D, at, un, f)
  <1>1. Handler(s, D) /\ s \in StoreValue /\ Written(s)
    BY StateIs DEF Handler
  <1>2. f \in [DOMAIN s.file -> BucketValue] /\ DOMAIN f = DOMAIN s.file /\ f \in Files
    <2>1. DOMAIN s.file \in SUBSET Nat
      BY <1>1, FileIs
    <2> QED BY <2>1, FilesAre DEF NewFile
  <1>3. t = [file |-> f, current |-> s.current, used |-> s.used,
             nDeleted |-> s.nDeleted, next |-> s.next, data |-> s.data,
             changed |-> s.changed, last |-> s.last]
    BY <1>1 DEF NewFile, StoreValue
  <1>4. t \in StoreValue
    BY <1>1, <1>2, <1>3 DEF StoreValue
  <1>5. /\ t.file = f /\ t.current = s.current /\ t.changed = s.changed /\ t.last = s.last
        /\ Part(t) = Part(s)
    BY <1>3 DEF Part
  <1>6. Handler(t, D)
    BY <1>1, <1>2, <1>4, <1>5 DEF Handler
  <1>7. Written(t)
    <2>1. s.current # -1 => s.current \in DOMAIN s.file \ D
      BY <1>1 DEF Handler
    <2> QED BY <1>1, <1>5, <2>1 DEF Written, NewFile
  <1>8. \A b \in DOMAIN s.file \ D : View(t, b) = View(s, b)
    BY <1>5 DEF View, NewFile
  <1>9. Views(t, D) = Views(s, D)
    BY <1>2, <1>5, <1>8 DEF Views
  <1> QED BY <1>5, <1>6, <1>7, <1>9 DEF HasFile, State, Good

\* The cells of one data bucket.
LEMMA CellsState ==
    ASSUME NEW s, NEW D, NEW at, NEW un, State(s, D, at, un), NEW b \in D,
           NEW cells \in CellsValue, NEW t, t = [s EXCEPT !.file[b].cells = cells]
    PROVE  /\ State(t, D, at, un)
           /\ \A y \in Keys(D) : y[1] = b => Cell(t, y) = cells[y[2]][y[3]]
           /\ \A y \in Keys(D) : y[1] # b => Cell(t, y) = Cell(s, y)
  <1> DEFINE new == [s.file[b] EXCEPT !.cells = cells]
             f == [s.file EXCEPT ![b] = new]
  <1>1. Handler(s, D) /\ s \in StoreValue /\ D \subseteq DOMAIN s.file
    BY StateIs DEF Handler
  <1>2. s.file \in [DOMAIN s.file -> BucketValue] /\ b \in DOMAIN s.file
        /\ s.file[b] \in BucketValue
    BY <1>1, FileIs
  <1>3. new \in BucketValue /\ new.cells = cells
    BY <1>2 DEF BucketValue
  <1>4. t = [s EXCEPT !.file = f]
    BY <1>1, <1>2 DEF StoreValue
  <1> HIDE DEF new
  <1>5. f \in [DOMAIN s.file -> BucketValue] /\ f[b] = new
        /\ \A c \in DOMAIN s.file : c # b => f[c] = s.file[c]
    BY <1>2, <1>3
  <1> HIDE DEF f
  <1>6. NewFile(s, t, D, f)
    BY <1>4, <1>5 DEF NewFile
  <1>7. State(t, D, at, un) /\ t.file = f
    <2>1. HasFile(t, D, at, un, f)
      BY <1>6, NewFileState
    <2> QED BY <2>1 DEF HasFile
  <1>8. ASSUME NEW y \in Keys(D), y[1] = b
        PROVE  Cell(t, y) = cells[y[2]][y[3]]
    BY <1>3, <1>5, <1>7, <1>8 DEF Cell
  <1>9. ASSUME NEW y \in Keys(D), y[1] # b
        PROVE  Cell(t, y) = Cell(s, y)
    BY <1>1, <1>5, <1>7, <1>9, KeysAre DEF Cell
  <1> QED BY <1>7, <1>8, <1>9

SetCell(s, x, cell) == [s EXCEPT !.file[x[1]].cells[x[2]][x[3]] = cell]

LEMMA SetCellState ==
    ASSUME NEW s, NEW D, NEW at, NEW un, State(s, D, at, un), NEW x \in Keys(D),
           NEW cell \in CellValue
    PROVE  /\ State(SetCell(s, x, cell), D, at, un)
           /\ Cell(SetCell(s, x, cell), x) = cell
           /\ \A y \in Keys(D) : y # x => Cell(SetCell(s, x, cell), y) = Cell(s, y)
  <1> DEFINE b == x[1]
             p == x[2]
             c == x[3]
             t == SetCell(s, x, cell)
             old == s.file[b].cells
             cells == [old EXCEPT ![p][c] = cell]
  <1>1. b \in D /\ p \in 1..RowsPerBucket /\ c \in Columns /\ x = <<b, p, c>>
    BY KeysAre
  <1>2. s \in StoreValue /\ D \subseteq DOMAIN s.file
    BY StateIs DEF Handler
  <1>3. s.file[b] \in BucketValue /\ s.file \in [DOMAIN s.file -> BucketValue]
        /\ b \in DOMAIN s.file
    BY <1>1, <1>2, FileIs
  <1> HIDE DEF b, p, c
  <1>4. old \in CellsValue
    BY <1>3 DEF BucketValue
  <1> HIDE DEF old
  <1>5. /\ cells \in CellsValue /\ cells[p][c] = cell
        /\ \A q \in 1..RowsPerBucket, d \in Columns :
                (q # p \/ d # c) => cells[q][d] = old[q][d]
    BY <1>1, <1>4 DEF CellsValue
  <1>6. t = [s EXCEPT !.file[b].cells = cells]
    BY <1>2, <1>3 DEF SetCell, StoreValue, BucketValue, b, p, c, old
  <1> HIDE DEF cells, t
  <1>7. /\ State(t, D, at, un)
        /\ \A y \in Keys(D) : y[1] = b => Cell(t, y) = cells[y[2]][y[3]]
        /\ \A y \in Keys(D) : y[1] # b => Cell(t, y) = Cell(s, y)
    BY <1>1, <1>5, <1>6, CellsState
  <1>8. Cell(t, x) = cell
    BY <1>1, <1>5, <1>7 DEF b, p, c
  <1>9. ASSUME NEW y \in Keys(D), y # x
        PROVE  Cell(t, y) = Cell(s, y)
    <2>1. /\ y[1] \in D /\ y[2] \in 1..RowsPerBucket /\ y[3] \in Columns
          /\ y = <<y[1], y[2], y[3]>>
      BY KeysAre
    <2>2. CASE y[1] # b
      BY <1>7, <2>2
    <2>3. CASE y[1] = b
      <3>1. y[2] # p \/ y[3] # c
        BY <1>1, <1>9, <2>1, <2>3
      <3>2. Cell(t, y) = cells[y[2]][y[3]] /\ Cell(s, y) = old[y[2]][y[3]]
        BY <1>7, <2>3 DEF Cell, old
      <3> QED BY <1>5, <2>1, <3>1, <3>2
    <2> QED BY <2>2, <2>3
  <1> QED BY <1>7, <1>8, <1>9 DEF t

-----------------------------------------------------------------------------
(* What is put into a cell.                                                  *)

\* val2 is val but for x.
Else(val, val2, x, v) ==
    /\ DOMAIN val2 = DOMAIN val /\ val2[x] = v
    /\ \A y \in DOMAIN val : y # x => val2[y] = val[y]

LEMMA PutsIntoIs ==
    ASSUME NEW at, NEW val, DOMAIN at = DOMAIN val, NEW x \in DOMAIN val, NEW v,
           NEW val2, Else(val, val2, x, v)
    PROVE  PutsInto(at, UnitsOf(val), UnitsOf(val2), x, Units(v))
  BY DEF PutsInto, UnitsOf, Else

LEMMA ForgetState ==
    ASSUME NEW s, NEW D, NEW at, NEW un, State(s, D, at, un),
           NEW x \in DOMAIN at, DOMAIN at[x] = {},
           NEW un2, NEW u, PutsInto(at, un, un2, x, u)
    PROVE  State(s, D, at, un2)
  <1> DEFINE g == [y \in DOMAIN at |-> y]
  <1>1. Renamed(at, un, at, un2, g)
    <2>1. ASSUME NEW y \in DOMAIN at, NEW k \in DOMAIN at[y]
          PROVE  un2[y][k] = un[y][k]
      BY DEF PutsInto
    <2>2. DOMAIN g = DOMAIN at /\ \A y \in DOMAIN at : g[y] = y
      OBVIOUS
    <2> HIDE DEF g
    <2> QED BY <2>1, <2>2 DEF Renamed
  <1> QED BY <1>1, RenamedState

\* A cell is set for a value whose units are put, or not in string buckets.
LEMMA SetSound ==
    ASSUME NEW s, NEW D, NEW val, NEW at, Sound(s, D, val, at), NEW x \in Keys(D),
           NEW t, NEW at2, NEW val2, NEW v, State(t, D, at2, UnitsOf(val2)), Kept(s, t, D),
           Changed(at, at2, x), Else(val, val2, x, v),
           NEW cell, Fits(cell, v, x[3], at2[x])
    PROVE  Sound(SetCell(t, x, cell), D, val2, at2)
  <1> DEFINE r == SetCell(t, x, cell)
  <1>1. cell \in CellValue
    BY DEF Fits
  <1>2. /\ State(r, D, at2, UnitsOf(val2)) /\ Cell(r, x) = cell
        /\ \A y \in Keys(D) : y # x => Cell(r, y) = Cell(t, y)
    BY <1>1, SetCellState
  <1> HIDE DEF r
  <1>3. /\ DOMAIN val = Keys(D) /\ DOMAIN at = Keys(D)
        /\ DOMAIN val2 = Keys(D) /\ DOMAIN at2 = Keys(D) /\ val2[x] = v
        /\ \A y \in Keys(D) : y # x => val2[y] = val[y] /\ at2[y] = at[y]
    BY DEF Sound, Changed, Else
  <1>4. ASSUME NEW y \in Keys(D)
        PROVE  Fits(Cell(r, y), val2[y], y[3], at2[y])
    <2>1. CASE y = x
      BY <1>2, <1>3, <2>1
    <2>2. CASE y # x
      <3>1. Fits(Cell(s, y), val[y], y[3], at[y])
        BY DEF Sound
      <3>2. Cell(r, y) = Cell(s, y)
        BY <1>2, <2>2, KeptCells
      <3> QED BY <1>3, <2>2, <3>1, <3>2
    <2> QED BY <2>1, <2>2
  <1> QED BY <1>2, <1>3, <1>4 DEF Sound, r

\* A value that does not fit in a cell.
LEMMA LongSound ==
    ASSUME NEW s, NEW D, NEW val, NEW at, Sound(s, D, val, at), NEW x \in Keys(D),
           NEW value \in Values, Size[value] > ShortLength,
           NEW val2, Else(val, val2, x, value), NEW p, NEW at2,
           HasPutCell(s, p, D, at, at2, UnitsOf(val2), x, value)
    PROVE  Sound(SetCell(p.store, x, p.cell), D, val2, at2)
  <1> DEFINE t == p.store
             cell == p.cell
  <1>1. /\ Changed(at, at2, x) /\ State(t, D, at2, UnitsOf(val2)) /\ Kept(s, t, D)
        /\ DOMAIN at2[x] = 1..Size[value] /\ at2[x][1] = <<cell.bucket, cell.offset>>
        /\ cell \in CellValue /\ cell.length = Size[value]
    BY DEF HasPutCell, PutTo
  <1> HIDE DEF t, cell
  <1>2. Fits(cell, value, x[3], at2[x])
    BY <1>1 DEF Fits, IsLong
  <1>3. Sound(SetCell(t, x, cell), D, val2, at2)
    BY <1>1, <1>2, SetSound
  <1> QED BY <1>3 DEF t, cell

\* What a cell has in string buckets is removed.
Without(s, x) == IF IsLong(Cell(s, x)) THEN RemoveCell(s, Cell(s, x)) ELSE s

LEMMA WithoutIs ==
    ASSUME NEW s, NEW D, NEW val, NEW at, Sound(s, D, val, at), NEW x \in Keys(D)
    PROVE  \E at2 : Removed(s, Without(s, x), D, at, at2, UnitsOf(val), x)
  <1> DEFINE cell == Cell(s, x)
             un == UnitsOf(val)
  <1>1. /\ x \in DOMAIN at /\ (IsLong(cell) => CellAt(cell, at, x))
        /\ (~IsLong(cell) => DOMAIN at[x] = {})
    BY FitsIs
  <1>2. State(s, D, at, un)
    BY DEF Sound
  <1> HIDE DEF un
  <1>3. CASE IsLong(cell)
    <2>1. CellAt(cell, at, x)
      BY <1>1, <1>3
    <2>2. Without(s, x) = RemoveCell(s, cell)
      BY <1>3 DEF Without
    <2> HIDE DEF cell
    <2>3. HasCell(s, cell, D, at, un, x)
      BY <1>1, <1>2, <2>1, CellAtIs
    <2>4. \E at2 : Removed(s, RemoveCell(s, cell), D, at, at2, un, x)
      BY <2>3, RemoveCellIs
    <2> QED BY <2>2, <2>4 DEF un
  <1>4. CASE ~IsLong(cell)
    <2>1. Without(s, x) = s
      BY <1>4 DEF Without
    <2>2. Removed(s, s, D, at, at, un, x)
      BY <1>1, <1>2, <1>4 DEF Removed, Changed, Kept
    <2> QED BY <2>1, <2>2 DEF un
  <1> QED BY <1>3, <1>4

LEMMA ElseIs ==
    ASSUME NEW val, NEW x, NEW v
    PROVE  x \in DOMAIN val => Else(val, [val EXCEPT ![x] = v], x, v)
  BY DEF Else

StringPut(s, x, value) ==
    LET cell == Cell(s, x)
        long == Put(s, IF IsLong(cell) THEN cell ELSE EmptyCell, value)
    IN  IF Size[value] <= ShortLength
        THEN SetCell(Without(s, x), x, ShortCell(value))
        ELSE SetCell(long.store, x, long.cell)

LEMMA StringSound ==
    ASSUME NEW s, NEW D, NEW val, NEW at, Sound(s, D, val, at), NEW x \in Keys(D),
           x[3] \in Scalars, NEW value \in Strings,
           NEW val2, Else(val, val2, x, value)
    PROVE  \E at2 : Sound(StringPut(s, x, value), D, val2, at2)
  <1> DEFINE cell == Cell(s, x)
             un == UnitsOf(val)
             un2 == UnitsOf(val2)
  <1>1. /\ x \in DOMAIN at /\ (IsLong(cell) => CellAt(cell, at, x))
        /\ (~IsLong(cell) => DOMAIN at[x] = {}) /\ cell \in CellValue
    BY FitsIs
  <1>2. State(s, D, at, un) /\ DOMAIN at = DOMAIN val /\ x \in DOMAIN val
    BY DEF Sound
  <1>3. value \in Values /\ Size[value] \in Nat /\ ShortLength \in Nat
        /\ x[3] \notin Arrays
    BY StringBucketsAssumption DEF Values
  <1>4. PutsInto(at, un, un2, x, Units(value))
    BY <1>2, PutsIntoIs
  <1> HIDE DEF cell, un, un2
  <1>5. CASE Size[value] <= ShortLength
    <2> DEFINE t == Without(s, x)
               new == ShortCell(value)
    <2>1. PICK at2 : Removed(s, t, D, at, at2, un, x)
      BY WithoutIs DEF un
    <2>2. StringPut(s, x, value) = SetCell(t, x, new)
      BY <1>5 DEF StringPut
    <2> HIDE DEF t
    <2>3. /\ Changed(at, at2, x) /\ DOMAIN at2[x] = {} /\ State(t, D, at2, un)
          /\ Kept(s, t, D)
      BY <2>1 DEF Removed
    <2>4. x \in DOMAIN at2 /\ PutsInto(at2, un, un2, x, Units(value))
      BY <1>1, <1>4, <2>3 DEF PutsInto, Changed
    <2>5. State(t, D, at2, un2)
      BY <2>3, <2>4, ForgetState
    <2>6. new = [bucket |-> 0, offset |-> 0, length |-> Size[value], text |-> value]
      <3>1. ASSUME NEW n, NEW w, NEW c, c = [EmptyCell EXCEPT !.length = n, !.text = w]
            PROVE  c = [bucket |-> 0, offset |-> 0, length |-> n, text |-> w]
        BY <3>1 DEF EmptyCell
      <3> QED BY <3>1 DEF ShortCell
    <2> HIDE DEF new
    <2>7. Fits(new, value, x[3], at2[x])
      <3>1. new \in CellValue
        BY <1>3, <2>6 DEF CellValue
      <3>2. ~IsLong(new) /\ new.text = value
        BY <1>3, <1>5, <2>6 DEF IsLong
      <3> QED BY <1>3, <1>5, <2>3, <3>1, <3>2 DEF Fits
    <2>8. Sound(SetCell(t, x, new), D, val2, at2)
      BY <2>3, <2>5, <2>7, SetSound DEF un2
    <2> QED BY <2>2, <2>8
  <1>6. CASE ~(Size[value] <= ShortLength)
    <2> DEFINE from == IF IsLong(cell) THEN cell ELSE EmptyCell
               p == Put(s, from, value)
    <2>1. StringPut(s, x, value) = SetCell(p.store, x, p.cell)
      BY <1>6 DEF StringPut, cell
    <2>2. MayPut(s, from, D, at, un, x, value)
      <3>1. CASE IsLong(cell)
        <4>1. from = cell
          BY <3>1
        <4> HIDE DEF from
        <4>2. HasCell(s, from, D, at, un, x)
          BY <1>1, <1>2, <3>1, <4>1, CellAtIs
        <4> QED BY <1>1, <1>3, <4>1, <4>2 DEF MayPut
      <3>2. CASE ~IsLong(cell)
        <4>1. from = EmptyCell /\ EmptyCell.length = 0
          BY <3>2 DEF EmptyCell
        <4> HIDE DEF from
        <4> QED BY <1>1, <1>2, <1>3, <3>2, <4>1, EmptyCellIs DEF MayPut
      <3> QED BY <3>1, <3>2
    <2> HIDE DEF from
    <2>3. PICK at2 : HasPutCell(s, p, D, at, at2, un2, x, value)
      BY <1>4, <2>2, PutIs
    <2> HIDE DEF p
    <2>4. Size[value] > ShortLength
      BY <1>3, <1>6
    <2>5. Sound(SetCell(p.store, x, p.cell), D, val2, at2)
      BY <1>3, <2>3, <2>4, LongSound DEF un2
    <2> QED BY <2>1, <2>5
  <1> QED BY <1>5, <1>6

\* putArrayV and setShape.
LEMMA ArraySound ==
    ASSUME NEW s, NEW D, NEW val, NEW at, Sound(s, D, val, at), NEW x \in Keys(D),
           x[3] \in Arrays, NEW value \in ArrayValues,
           NEW val2, Else(val, val2, x, value),
           NEW p, \/ p = Put(s, Cell(s, x), value)
                  \/ /\ p = PutShape(s, Cell(s, x), value)
                     /\ ShapeOnce => Cell(s, x) = EmptyCell
    PROVE  \E at2 : Sound(SetCell(p.store, x, p.cell), D, val2, at2)
  <1> DEFINE cell == Cell(s, x)
             un == UnitsOf(val)
             un2 == UnitsOf(val2)
  <1>1. /\ x \in DOMAIN at /\ (IsLong(cell) => CellAt(cell, at, x))
        /\ (~IsLong(cell) => DOMAIN at[x] = {} /\ cell = EmptyCell) /\ cell \in CellValue
    BY FitsIs
  <1>2. State(s, D, at, un) /\ DOMAIN at = DOMAIN val /\ x \in DOMAIN val
    BY DEF Sound
  <1>3. value \in Values /\ Size[value] > ShortLength
    BY StringBucketsAssumption DEF Values
  <1>4. PutsInto(at, un, un2, x, Units(value))
    BY <1>2, PutsIntoIs
  <1>5. EmptyCell.length = 0 /\ ~IsLong(EmptyCell)
    BY StringBucketsAssumption DEF EmptyCell, IsLong
  <1> HIDE DEF cell, un, un2
  <1>6. \E at2 : HasPutCell(s, p, D, at, at2, un2, x, value)
    <2>1. CASE p = Put(s, cell, value)
      <3>1. MayPut(s, cell, D, at, un, x, value)
        <4>1. CASE IsLong(cell)
          <5>1. HasCell(s, cell, D, at, un, x)
            BY <1>1, <1>2, <4>1, CellAtIs
          <5> QED BY <1>1, <1>3, <5>1 DEF MayPut
        <4>2. CASE ~IsLong(cell)
          BY <1>1, <1>2, <1>3, <1>5, <4>2 DEF MayPut
        <4> QED BY <4>1, <4>2
      <3> QED BY <1>4, <2>1, <3>1, PutIs
    <2>2. CASE p = PutShape(s, cell, value) /\ (ShapeOnce => cell = EmptyCell)
      <3>1. \/ cell.length = 0 /\ DOMAIN at[x] = {}
            \/ ~ShapeOnce /\ CellAt(cell, at, x)
        BY <1>1, <1>5, <2>2
      <3> QED BY <1>1, <1>2, <1>3, <1>4, <2>2, <3>1, PutShapeIs
    <2> QED BY <2>1, <2>2 DEF cell
  <1>7. PICK at2 : HasPutCell(s, p, D, at, at2, un2, x, value)
    BY <1>6
  <1>8. Sound(SetCell(p.store, x, p.cell), D, val2, at2)
    BY <1>3, <1>7, LongSound DEF un2
  <1> QED BY <1>8

=============================================================================
