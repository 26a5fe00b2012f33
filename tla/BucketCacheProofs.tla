-------------------------- MODULE BucketCacheProofs --------------------------
(***************************************************************************)
(* BucketCache for any number of buckets and slots, any contents and any     *)
(* value at which the LRU counter wraps, as long as no shrink of the cache    *)
(* makes it forget a bucket it keeps (Forgets).                              *)
(***************************************************************************)
EXTENDS BucketCache, FiniteSetTheorems, SequenceTheorems, WellFoundedInduction, TLAPS

-----------------------------------------------------------------------------
(* Induction over the natural numbers for a set, and over the turns of a loop. *)

LEMMA Least ==
    ASSUME NEW T \in SUBSET Nat, T # {}
    PROVE  \E x \in T : \A y \in T : x <= y
  <1> DEFINE Less == OpToRel(<, Nat)
  <1>1. Less = {ss \in Nat \X Nat : ss[1] < ss[2]}
    BY Zenon DEF OpToRel
  <1>2. IsWellFoundedOn(Less, Nat)
    BY NatLessThanWellFounded, Zenon
  <1> HIDE DEF Less
  <1>3. PICK x \in T : \A y \in T : ~(<<y, x>> \in Less)
    BY <1>2, WFMin
  <1>4. ASSUME NEW y \in T
        PROVE  x <= y
    <2>1. ~(y < x)
      BY <1>1, <1>3, <1>4
    <2> QED BY <2>1
  <1> QED BY <1>4

LEMMA Induction ==
    ASSUME NEW T, 0 \in T, \A k \in Nat : k \in T => k + 1 \in T
    PROVE  Nat \subseteq T
  <1> SUFFICES ASSUME Nat \ T # {}
               PROVE  FALSE
    OBVIOUS
  <1>1. PICK x \in Nat \ T : \A y \in Nat \ T : x <= y
    BY Least
  <1>2. x # 0 /\ x - 1 \in Nat
    BY <1>1
  <1>3. x - 1 \in T
    BY <1>1, <1>2
  <1> QED BY <1>1, <1>2, <1>3

\* Induction over the turns of a loop.
LEMMA TurnInduction ==
    ASSUME NEW n \in Nat, NEW T, 0 \in T,
           \A k \in 1..n : k - 1 \in T => k \in T
    PROVE  \A k \in 0..n : k \in T
  <1> DEFINE U == {k \in Nat : k <= n => k \in T}
  <1>1. 0 \in U
    OBVIOUS
  <1>2. ASSUME NEW k \in Nat, k \in U
        PROVE  k + 1 \in U
    <2> SUFFICES ASSUME k + 1 <= n
                 PROVE  k + 1 \in T
      OBVIOUS
    <2>1. k + 1 \in 1..n /\ k \in T /\ (k + 1) - 1 = k
      BY <1>2
    <2> QED BY <2>1
  <1> HIDE DEF U
  <1>3. Nat \subseteq U
    BY <1>1, <1>2, Induction
  <1> QED BY <1>3 DEF U

-----------------------------------------------------------------------------
(* States of the object and the file.                                       *)

Contents == Data \cup Links \cup {Unset}
SlotValue == [bucket : Buckets, data : Data \cup {Null}, dirty : BOOLEAN, lru : 0 .. MaxLRU]
SlotsValue == UNION {[0 .. (n - 1) -> SlotValue] : n \in Nat}
CacheValue == [size : Nat \ {0}, used : Nat, actual : Nat, curNr : 0 .. MaxBuckets,
               newNr : 0 .. MaxBuckets, slot : SlotsValue, slotNr : [Buckets -> Int],
               counter : 0 .. MaxLRU, nrFree : Int, firstFree : Buckets \cup {NoBucket}]
StateValue == [c : CacheValue, f : [Buckets -> Contents]]

Shaped(s) ==
    /\ s \in StateValue
    /\ s.c.used <= s.c.size
    /\ s.c.actual < s.c.size
    /\ s.c.slot \in [Slots(s.c) -> SlotValue]

\* What is in use of the slots, without those of a set.
Used(s, but) == UsedSlots(s.c) \ but

\* CachedWhereKnown, of the slots that are not left out.
Linked(s, but) ==
    /\ \A i \in Used(s, but) :
          s.c.slot[i].data # Null => s.c.slotNr[s.c.slot[i].bucket] = i
    /\ \A b \in Buckets : s.c.slotNr[b] # -1 =>
          /\ s.c.slotNr[b] \in Used(s, but)
          /\ s.c.slot[s.c.slotNr[b]].bucket = b
          /\ s.c.slot[s.c.slotNr[b]].data # Null

\* What has not been written to the file is marked.
Marked(s, but) ==
    \A i \in Used(s, but) :
        IF s.c.slot[i].dirty
        THEN s.c.slot[i].data # Null
        ELSE s.c.slot[i].data # Null => s.f[s.c.slot[i].bucket] = s.c.slot[i].data

Consistent(s, but) == Shaped(s) /\ Linked(s, but) /\ Marked(s, but)

\* What is in a bucket, if it is in the file.
Value(s, b) == IF s.c.slotNr[b] = -1 THEN s.f[b] ELSE s.c.slot[s.c.slotNr[b]].data

SameValues(s, t) == \A b \in Buckets : Value(t, b) = Value(s, b)
SameCounts(s, t) ==
    /\ t.c.size = s.c.size
    /\ t.c.newNr = s.c.newNr /\ t.c.nrFree = s.c.nrFree /\ t.c.firstFree = s.c.firstFree

\* What is not cached does not get into the cache, and is not changed in the file.
KeepsUncached(s, t, but) ==
    \A b \in Buckets \ but :
        s.c.slotNr[b] = -1 => t.c.slotNr[b] = -1 /\ t.f[b] = s.f[b]

\* The ages of the slots: the one used last is the only one of its age.
Aged(s) ==
    /\ \A i \in UsedSlots(s.c) : s.c.slot[i].lru <= s.c.counter
    /\ \A i, j \in UsedSlots(s.c) :
          s.c.slot[i].lru = s.c.counter /\ s.c.slot[j].lru = s.c.counter => i = j
    /\ s.c.used > 0 => s.c.counter > 0

-----------------------------------------------------------------------------

LEMMA Assumed ==
    /\ MaxBuckets \in Nat \ {0} /\ MaxLRU \in Nat \ {0} /\ Sizes \subseteq Nat
    /\ Fresh \in Data /\ Null \notin Data /\ Freed \notin Data
    /\ Data \cap Links = {} /\ Unset \notin Data
  BY BucketCacheAssumption

LEMMA CacheFields ==
    ASSUME NEW s, Shaped(s)
    PROVE  /\ s.c.size \in Nat \ {0} /\ s.c.used \in Nat /\ s.c.actual \in Nat
           /\ s.c.curNr \in 0 .. MaxBuckets /\ s.c.newNr \in 0 .. MaxBuckets
           /\ s.c.slot \in [Slots(s.c) -> SlotValue]
           /\ s.c.slotNr \in [Buckets -> Int]
           /\ s.c.counter \in 0 .. MaxLRU
           /\ s.c.nrFree \in Int
           /\ s.c.firstFree \in Buckets \cup {NoBucket}
           /\ s.f \in [Buckets -> Contents]
           /\ s.c.used <= s.c.size /\ s.c.actual \in Slots(s.c)
           /\ UsedSlots(s.c) \subseteq Slots(s.c)
           /\ s.c \in CacheValue
           /\ s \in StateValue
  <1>1. s \in StateValue /\ s.c \in CacheValue
    BY DEF Shaped, StateValue
  <1>2. s.c.size \in Nat \ {0} /\ s.c.used \in Nat /\ s.c.actual \in Nat
    BY <1>1 DEF CacheValue
  <1>3. s.c.used <= s.c.size /\ s.c.actual < s.c.size /\ s.c.slot \in [Slots(s.c) -> SlotValue]
    BY DEF Shaped
  <1>4. s.c.actual \in Slots(s.c) /\ UsedSlots(s.c) \subseteq Slots(s.c)
    BY <1>2, <1>3 DEF Slots, UsedSlots
  <1>5. s.f \in [Buckets -> Contents]
    BY <1>1 DEF StateValue
  <1>6. /\ s.c.curNr \in 0 .. MaxBuckets /\ s.c.newNr \in 0 .. MaxBuckets
        /\ s.c.slotNr \in [Buckets -> Int] /\ s.c.counter \in 0 .. MaxLRU
        /\ s.c.nrFree \in Int /\ s.c.firstFree \in Buckets \cup {NoBucket}
    BY <1>1 DEF CacheValue
  <1> QED BY <1>1, <1>2, <1>3, <1>4, <1>5, <1>6

LEMMA SlotFields ==
    ASSUME NEW x \in SlotValue
    PROVE  /\ x.bucket \in Buckets /\ x.data \in Data \cup {Null}
           /\ x.dirty \in BOOLEAN /\ x.lru \in 0 .. MaxLRU
  BY DEF SlotValue

LEMMA SlotsAre ==
    ASSUME NEW s, Shaped(s), NEW slot \in [Slots(s.c) -> SlotValue]
    PROVE  slot \in SlotsValue
  <1>1. s.c.size \in Nat
    BY CacheFields
  <1> QED BY <1>1 DEF SlotsValue, Slots

LEMMA BucketsAre == \A b \in Buckets : b \in Nat /\ b < MaxBuckets /\ b # -1
  BY Assumed DEF Buckets

-----------------------------------------------------------------------------
(* setLRU.                                                                  *)

\* Everything but the ages is the same.
LooksLike(s, t) ==
    /\ t.f = s.f /\ t.c.slotNr = s.c.slotNr
    /\ t.c.used = s.c.used /\ t.c.actual = s.c.actual /\ t.c.curNr = s.c.curNr
    /\ SameCounts(s, t)
    /\ \A i \in Slots(s.c) :
          /\ t.c.slot[i].bucket = s.c.slot[i].bucket
          /\ t.c.slot[i].data = s.c.slot[i].data
          /\ t.c.slot[i].dirty = s.c.slot[i].dirty

LEMMA SetLRUIs ==
    ASSUME NEW s, Shaped(s)
    PROVE  /\ Shaped(SetLRU(s)) /\ LooksLike(s, SetLRU(s))
           /\ (\A i \in UsedSlots(s.c) \ {s.c.actual} : s.c.slot[i].lru <= s.c.counter)
              /\ s.c.actual \in UsedSlots(s.c)
              => Aged(SetLRU(s))
  <1> DEFINE wraps == s.c.counter = MaxLRU
             count == IF wraps THEN 1 ELSE s.c.counter + 1
             age(i) == IF i = s.c.actual THEN count
                       ELSE IF wraps /\ i < s.c.used THEN 0 ELSE s.c.slot[i].lru
             slot == [i \in DOMAIN s.c.slot |-> [s.c.slot[i] EXCEPT !.lru = age(i)]]
             t == SetLRU(s)
  <1>1. t = [s EXCEPT !.c.counter = count, !.c.slot = slot]
    BY DEF SetLRU
  <1>2. count \in 1 .. MaxLRU
    BY CacheFields, Assumed
  <1>3. ASSUME NEW i \in Slots(s.c)
        PROVE  /\ age(i) \in 0 .. MaxLRU
               /\ slot[i] \in SlotValue
               /\ slot[i].bucket = s.c.slot[i].bucket /\ slot[i].data = s.c.slot[i].data
               /\ slot[i].dirty = s.c.slot[i].dirty /\ slot[i].lru = age(i)
    <2>1. s.c.slot[i] \in SlotValue /\ i \in DOMAIN s.c.slot
      BY CacheFields
    <2>2. age(i) \in 0 .. MaxLRU
      BY <1>2, <2>1, SlotFields, Assumed
    <2>3. slot[i] = [s.c.slot[i] EXCEPT !.lru = age(i)]
      BY <2>1
    <2> HIDE DEF age, slot
    <2> QED BY <2>1, <2>2, <2>3 DEF SlotValue
  <1>4. slot \in [Slots(s.c) -> SlotValue]
    <2>1. DOMAIN s.c.slot = Slots(s.c)
      BY CacheFields
    <2>2. slot = [i \in Slots(s.c) |-> slot[i]]
      BY <2>1
    <2> HIDE DEF slot
    <2> QED BY <1>3, <2>2
  <1>5. slot \in SlotsValue
    BY <1>4, SlotsAre
  <1> HIDE DEF slot, count
  <1>6. /\ t \in StateValue /\ t.f = s.f /\ t.c.slotNr = s.c.slotNr
        /\ t.c.used = s.c.used /\ t.c.actual = s.c.actual /\ t.c.curNr = s.c.curNr
        /\ SameCounts(s, t) /\ t.c.slot = slot /\ t.c.counter = count
    <2>1. count \in 0 .. MaxLRU
      BY <1>2, Assumed
    <2>2. s \in StateValue /\ s.c \in CacheValue
      BY CacheFields
    <2> HIDE DEF t
    <2> QED BY <1>1, <1>5, <2>1, <2>2 DEF StateValue, CacheValue, SameCounts
  <1> HIDE DEF t
  <1>7. Slots(t.c) = Slots(s.c) /\ UsedSlots(t.c) = UsedSlots(s.c)
    BY <1>6 DEF SameCounts, Slots, UsedSlots
  <1>8. Shaped(t)
    <2>1. s.c.used <= s.c.size /\ s.c.actual < s.c.size
      BY DEF Shaped
    <2> QED BY <1>4, <1>6, <1>7, <2>1 DEF Shaped, SameCounts
  <1>9. LooksLike(s, t)
    BY <1>3, <1>6 DEF LooksLike
  <1>10. ASSUME \A i \in UsedSlots(s.c) \ {s.c.actual} : s.c.slot[i].lru <= s.c.counter,
                s.c.actual \in UsedSlots(s.c)
         PROVE  Aged(t)
    <2>1. ASSUME NEW i \in UsedSlots(s.c)
          PROVE  /\ i = s.c.actual => t.c.slot[i].lru = count
                 /\ i # s.c.actual => t.c.slot[i].lru < count
      <3>1. i \in Slots(s.c) /\ i \in Nat /\ i < s.c.used /\ s.c.slot[i] \in SlotValue
        BY CacheFields DEF UsedSlots
      <3>2. t.c.slot[i].lru = age(i)
        BY <1>3, <1>6, <3>1
      <3>3. s.c.slot[i].lru \in Nat /\ s.c.counter \in Nat
        BY <3>1, SlotFields, CacheFields, Assumed
      <3>4. i # s.c.actual => s.c.slot[i].lru <= s.c.counter
        BY <1>10
      <3> QED BY <3>1, <3>2, <3>3, <3>4, <1>2 DEF count
    <2>2. \A i \in UsedSlots(s.c) : t.c.slot[i].lru <= count
      <3>1. ASSUME NEW i \in UsedSlots(s.c)
            PROVE  t.c.slot[i].lru \in Nat
        <4>1. i \in Slots(s.c) /\ t.c.slot[i] \in SlotValue
          BY <1>4, <1>6, CacheFields
        <4> QED BY <4>1, SlotFields
      <3> QED BY <1>2, <2>1, <3>1
    <2> QED
      <3>1. \A i \in UsedSlots(s.c) : t.c.slot[i].lru = count => i = s.c.actual
        BY <2>1, <1>2
      <3> QED BY <1>2, <1>6, <1>7, <2>2, <3>1 DEF Aged
  <1> QED BY <1>8, <1>9, <1>10 DEF t

-----------------------------------------------------------------------------
(* Making a slot free.                                                      *)

\* The least lately used slot is one of those in use.
LEMMA LeastUsedIs ==
    ASSUME NEW s, Shaped(s), s.c.used > 0
    PROVE  /\ LeastUsed(s.c) \in UsedSlots(s.c)
           /\ \A j \in UsedSlots(s.c) : s.c.slot[LeastUsed(s.c)].lru <= s.c.slot[j].lru
  <1> DEFINE used == UsedSlots(s.c)
             age(i) == s.c.slot[i].lru
             Ages == {age(i) : i \in used}
             before(i, j) == age(i) < age(j) \/ (age(i) = age(j) /\ i <= j)
  <1>1. used \subseteq Nat /\ 0 \in used
    BY CacheFields DEF UsedSlots
  <1>2. ASSUME NEW i \in used
        PROVE  age(i) \in Nat
    <2>1. s.c.slot[i] \in SlotValue
      BY CacheFields
    <2> QED BY <2>1, SlotFields
  <1> HIDE DEF age, used
  <1>3. PICK least \in Ages : \A x \in Ages : least <= x
    <2>1. Ages \in SUBSET Nat /\ Ages # {}
      BY <1>1, <1>2
    <2> HIDE DEF Ages
    <2> QED BY <2>1, Least
  <1> DEFINE Oldest == {i \in used : age(i) = least}
  <1>4. PICK i \in Oldest : \A j \in Oldest : i <= j
    <2>1. Oldest \in SUBSET Nat /\ Oldest # {}
      BY <1>1, <1>3
    <2> HIDE DEF Oldest
    <2> QED BY <2>1, Least
  <1>5. i \in used /\ \A j \in used : before(i, j)
    <2>1. ASSUME NEW j \in used
          PROVE  before(i, j)
      <3>1. age(i) = least /\ least <= age(j) /\ age(i) \in Nat /\ age(j) \in Nat
        BY <1>2, <1>3, <1>4
      <3>2. age(j) = least => i <= j
        BY <1>4
      <3> QED BY <3>1, <3>2
    <2> QED BY <1>4, <2>1
  <1>6. LeastUsed(s.c) = CHOOSE x \in used : \A j \in used : before(x, j)
    BY DEF LeastUsed, used, age
  <1> DEFINE chosen == CHOOSE x \in used : \A j \in used : before(x, j)
  <1>7. chosen \in used /\ \A j \in used : before(chosen, j)
    <2> HIDE DEF before
    <2> QED BY <1>5
  <1>8. ASSUME NEW j \in used
        PROVE  age(chosen) <= age(j)
    <2>1. chosen \in used /\ before(chosen, j)
      BY <1>7
    <2> HIDE DEF chosen
    <2>2. age(chosen) \in Nat /\ age(j) \in Nat
      BY <1>2, <2>1
    <2> QED BY <2>1, <2>2
  <1> HIDE DEF chosen
  <1> QED BY <1>6, <1>7, <1>8 DEF age, used, chosen

LEMMA SameLinks ==
    ASSUME NEW s, NEW t, NEW but, NEW without, Linked(s, but),
           Used(t, without) = Used(s, but), t.c.slotNr = s.c.slotNr,
           \A i \in Used(s, but) : /\ t.c.slot[i].bucket = s.c.slot[i].bucket
                                   /\ t.c.slot[i].data = s.c.slot[i].data
    PROVE  Linked(t, without)
  <1>1. ASSUME NEW i \in Used(t, without), t.c.slot[i].data # Null
        PROVE  t.c.slotNr[t.c.slot[i].bucket] = i
    <2>1. s.c.slot[i].data # Null /\ i \in Used(s, but)
      BY <1>1
    <2>2. s.c.slotNr[s.c.slot[i].bucket] = i
      BY <2>1 DEF Linked
    <2> QED BY <2>1, <2>2
  <1>2. ASSUME NEW b \in Buckets, t.c.slotNr[b] # -1
        PROVE  /\ t.c.slotNr[b] \in Used(t, without)
               /\ t.c.slot[t.c.slotNr[b]].bucket = b
               /\ t.c.slot[t.c.slotNr[b]].data # Null
    <2>1. /\ s.c.slotNr[b] \in Used(s, but) /\ s.c.slot[s.c.slotNr[b]].bucket = b
          /\ s.c.slot[s.c.slotNr[b]].data # Null
      BY <1>2 DEF Linked
    <2> QED BY <2>1
  <1> QED BY <1>1, <1>2 DEF Linked

LEMMA SameMarks ==
    ASSUME NEW s, NEW t, NEW but, NEW without, Marked(s, but),
           Used(t, without) \subseteq Used(s, but), t.f = s.f,
           \A i \in Used(t, without) : t.c.slot[i] = s.c.slot[i]
    PROVE  Marked(t, without)
  BY DEF Marked

\* Only a slot's mark is changed, and the file where it differed.
Written(s, t, i) ==
    /\ Consistent(t, {})
    /\ SameValues(s, t) /\ SameCounts(s, t) /\ KeepsUncached(s, t, {})
    /\ t.c.used = s.c.used /\ t.c.curNr = s.c.curNr /\ t.c.actual = s.c.actual
    /\ t.c.slotNr = s.c.slotNr /\ t.c.counter = s.c.counter
    /\ ~t.c.slot[i].dirty
    /\ \A j \in Slots(s.c) :
          /\ t.c.slot[j].bucket = s.c.slot[j].bucket
          /\ t.c.slot[j].data = s.c.slot[j].data
          /\ t.c.slot[j].lru = s.c.slot[j].lru
          /\ j # i => t.c.slot[j].dirty = s.c.slot[j].dirty

LEMMA WriteDirtyIs ==
    ASSUME NEW s, Consistent(s, {}), NEW i \in UsedSlots(s.c)
    PROVE  Written(s, WriteDirty(s, i), i)
  <1>1. Shaped(s) /\ Linked(s, {}) /\ Marked(s, {})
    BY DEF Consistent
  <1>2. i \in Slots(s.c) /\ s.c.slot[i] \in SlotValue /\ DOMAIN s.c.slot = Slots(s.c)
    BY <1>1, CacheFields
  <1>3. CASE ~s.c.slot[i].dirty
    <2>1. WriteDirty(s, i) = s
      BY <1>3 DEF WriteDirty
    <2> QED
      BY <1>3, <2>1 DEF Written, SameValues, SameCounts, KeepsUncached
  <1>4. CASE s.c.slot[i].dirty
    <2> DEFINE b == s.c.slot[i].bucket
               x == [s.c.slot[i] EXCEPT !.dirty = FALSE]
               slot == [s.c.slot EXCEPT ![i] = x]
               f == [s.f EXCEPT ![b] = s.c.slot[i].data]
               t == WriteDirty(s, i)
    <2>1. t = [s EXCEPT !.f = f, !.c.slot = slot]
      BY <1>1, <1>2, <1>4, CacheFields DEF WriteDirty, WriteBucket, StateValue, CacheValue
    <2>2. b \in Buckets /\ s.c.slot[i].data \in Data
      <3>1. i \in Used(s, {})
        BY DEF Used
      <3>2. s.c.slot[i].data # Null
        BY <1>1, <1>4, <3>1 DEF Marked
      <3> QED BY <1>2, <3>2, SlotFields
    <2>3. /\ x \in SlotValue /\ x.bucket = b /\ x.data = s.c.slot[i].data
          /\ x.lru = s.c.slot[i].lru /\ x.dirty = FALSE
      <3> HIDE DEF b
      <3> QED BY <1>2 DEF SlotValue, b
    <2> HIDE DEF x
    <2>4. slot \in [Slots(s.c) -> SlotValue] /\ slot \in SlotsValue
      <3>1. slot \in [Slots(s.c) -> SlotValue]
        BY <1>1, <1>2, <2>3, CacheFields
      <3> QED BY <1>1, <3>1, SlotsAre
    <2>5. slot[i] = x /\ \A j \in Slots(s.c) : j # i => slot[j] = s.c.slot[j]
      BY <1>2
    <2>6. f \in [Buckets -> Contents] /\ f[b] = s.c.slot[i].data
          /\ \A a \in Buckets : a # b => f[a] = s.f[a]
      <3>1. s.c.slot[i].data \in Contents
        BY <2>2 DEF Contents
      <3>2. s.f \in [Buckets -> Contents]
        BY <1>1, CacheFields
      <3> HIDE DEF b
      <3> QED BY <2>2, <3>1, <3>2
    <2> HIDE DEF slot, f, t
    <2>7. /\ t \in StateValue /\ t.f = f /\ t.c.slot = slot
          /\ t.c.used = s.c.used /\ t.c.curNr = s.c.curNr /\ t.c.actual = s.c.actual
          /\ t.c.slotNr = s.c.slotNr /\ t.c.counter = s.c.counter /\ SameCounts(s, t)
      <3>1. s \in StateValue /\ s.c \in CacheValue
        BY <1>1, CacheFields
      <3> HIDE DEF b
      <3> QED BY <2>1, <2>4, <2>6, <3>1 DEF StateValue, CacheValue, SameCounts
    <2>8. UsedSlots(t.c) = UsedSlots(s.c) /\ Slots(t.c) = Slots(s.c)
      BY <2>7 DEF SameCounts, UsedSlots, Slots
    <2>9. Shaped(t)
      BY <1>1, <2>4, <2>7, <2>8 DEF Shaped, SameCounts
    <2>10. ASSUME NEW j \in Slots(s.c)
           PROVE  /\ t.c.slot[j].bucket = s.c.slot[j].bucket
                  /\ t.c.slot[j].data = s.c.slot[j].data
                  /\ t.c.slot[j].lru = s.c.slot[j].lru
                  /\ j # i => t.c.slot[j].dirty = s.c.slot[j].dirty
                  /\ j = i => t.c.slot[j].dirty = FALSE
      BY <2>3, <2>5, <2>7
    <2>11. \A j \in Used(s, {}) : j \in Slots(s.c)
      BY <1>1, CacheFields DEF Used
    <2>12. Used(t, {}) = Used(s, {})
      BY <2>8 DEF Used
    <2>13. Linked(t, {})
      <3>1. \A j \in Used(s, {}) : /\ t.c.slot[j].bucket = s.c.slot[j].bucket
                                    /\ t.c.slot[j].data = s.c.slot[j].data
        BY <2>10, <2>11
      <3> QED BY <1>1, <2>7, <2>12, <3>1, SameLinks
    <2>14. s.c.slotNr[b] = i
      BY <1>1, <2>2, Assumed DEF Linked, Used
    <2>15. Marked(t, {})
      <3>1. ASSUME NEW j \in Used(s, {}), j # i, s.c.slot[j].data # Null
            PROVE  s.c.slot[j].bucket # b /\ s.c.slot[j].bucket \in Buckets
        <4>1. s.c.slot[j] \in SlotValue
          BY <1>1, <2>11, <3>1, CacheFields
        <4> QED BY <1>1, <2>14, <3>1, <4>1, SlotFields DEF Linked
      <3>2. ASSUME NEW j \in Used(s, {}), j # i
            PROVE  IF t.c.slot[j].dirty THEN t.c.slot[j].data # Null
                   ELSE t.c.slot[j].data # Null => t.f[t.c.slot[j].bucket] = t.c.slot[j].data
        <4>1. IF s.c.slot[j].dirty THEN s.c.slot[j].data # Null
              ELSE s.c.slot[j].data # Null => s.f[s.c.slot[j].bucket] = s.c.slot[j].data
          BY <1>1, <3>2 DEF Marked
        <4>2. /\ t.c.slot[j].bucket = s.c.slot[j].bucket /\ t.c.slot[j].data = s.c.slot[j].data
              /\ t.c.slot[j].dirty = s.c.slot[j].dirty
          BY <2>10, <2>11, <3>2
        <4>3. s.c.slot[j].data # Null => t.f[s.c.slot[j].bucket] = s.f[s.c.slot[j].bucket]
          BY <2>6, <2>7, <3>1, <3>2
        <4> HIDE DEF b
        <4> QED BY <4>1, <4>2, <4>3
      <3>3. /\ t.c.slot[i].dirty = FALSE /\ t.f[t.c.slot[i].bucket] = t.c.slot[i].data
        BY <1>2, <2>6, <2>7, <2>10
      <3> HIDE DEF b
      <3> QED BY <2>12, <3>2, <3>3 DEF Marked
    <2>16. SameValues(s, t) /\ KeepsUncached(s, t, {})
      <3>1. ASSUME NEW a \in Buckets
            PROVE  /\ Value(t, a) = Value(s, a)
                   /\ s.c.slotNr[a] = -1 => t.f[a] = s.f[a]
        <4>1. CASE s.c.slotNr[a] = -1
          <5>1. a # b
            <6>1. i \in Nat
              BY <1>1, CacheFields DEF UsedSlots
            <6> QED BY <2>14, <4>1, <6>1
          <5> QED BY <2>6, <2>7, <4>1, <5>1 DEF Value
        <4>2. CASE s.c.slotNr[a] # -1
          <5>1. s.c.slotNr[a] \in Slots(s.c)
            BY <1>1, <2>11, <4>2 DEF Linked
          <5> QED BY <2>7, <2>10, <4>2, <5>1 DEF Value
        <4> QED BY <4>1, <4>2
      <3> QED BY <2>7, <3>1 DEF SameValues, KeepsUncached
    <2> QED BY <1>2, <2>7, <2>9, <2>10, <2>13, <2>15, <2>16 DEF Written, Consistent, t
  <1> QED BY <1>3, <1>4

\* A slot that no bucket is in, and as it is before setLRU.
HasRoom(s, t, i) ==
    /\ Consistent(t, {i})
    /\ i \in UsedSlots(t.c) /\ UsedSlots(s.c) \subseteq UsedSlots(t.c)
    /\ SameValues(s, t) /\ SameCounts(s, t) /\ KeepsUncached(s, t, {})
    /\ t.c.curNr = s.c.curNr
    /\ \A j \in UsedSlots(t.c) \ {i} :
          /\ j \in UsedSlots(s.c)
          /\ t.c.slot[j].bucket = s.c.slot[j].bucket
          /\ t.c.slot[j].data = s.c.slot[j].data

IsFree(s, t, i) ==
    /\ HasRoom(s, t, i)
    /\ t.c.counter = s.c.counter
    /\ \A j \in UsedSlots(t.c) \ {i} : t.c.slot[j].lru = s.c.slot[j].lru

LEMMA EvictIs ==
    ASSUME NEW s, Consistent(s, {}), NEW i \in UsedSlots(s.c)
    PROVE  /\ IsFree(s, Evict(s, i), i)
           /\ Evict(s, i).c.used = s.c.used
  <1> DEFINE w == WriteDirty(s, i)
             t == Evict(s, i)
  <1>1. Written(s, w, i)
    BY WriteDirtyIs
  <1> HIDE DEF w
  <1>2. Consistent(w, {}) /\ Shaped(w) /\ Linked(w, {}) /\ Marked(w, {})
    BY <1>1 DEF Written, Consistent
  <1>3. Shaped(s) /\ Linked(s, {}) /\ i \in Slots(s.c) /\ i \in Nat
    BY CacheFields DEF Consistent, UsedSlots
  <1>4. /\ UsedSlots(w.c) = UsedSlots(s.c) /\ Slots(w.c) = Slots(s.c)
        /\ w.c.slot[i] \in SlotValue
    <2>1. UsedSlots(w.c) = UsedSlots(s.c) /\ Slots(w.c) = Slots(s.c)
      BY <1>1 DEF Written, SameCounts, UsedSlots, Slots
    <2> QED BY <1>2, <1>3, <2>1, CacheFields
  <1>5. /\ w.c.slot[i].data = s.c.slot[i].data /\ w.c.slot[i].bucket = s.c.slot[i].bucket
        /\ ~w.c.slot[i].dirty
    BY <1>1, <1>3 DEF Written
  <1>6. CASE s.c.slot[i].data = Null
    <2>1. t = w
      BY <1>6 DEF Evict, w
    <2>2. ASSUME NEW b \in Buckets PROVE w.c.slotNr[b] # i
      BY <1>2, <1>3, <1>5, <1>6, <2>2 DEF Linked, Used
    <2>3. Linked(w, {i}) /\ Marked(w, {i})
      <3>1. \A b \in Buckets : w.c.slotNr[b] # -1 => w.c.slotNr[b] \in Used(w, {i})
        BY <1>2, <2>2 DEF Linked, Used
      <3> QED BY <1>2, <3>1 DEF Linked, Used, Marked
    <2>4. \A j \in UsedSlots(s.c) : j \in Slots(s.c)
      BY <1>3, CacheFields
    <2> QED BY <1>1, <1>2, <1>4, <2>1, <2>3, <2>4 DEF IsFree, HasRoom, Written, Consistent
  <1>7. CASE s.c.slot[i].data # Null
    <2> DEFINE b == w.c.slot[i].bucket
               x == [w.c.slot[i] EXCEPT !.data = Null]
               slot == [w.c.slot EXCEPT ![i] = x]
               nrs == [w.c.slotNr EXCEPT ![b] = -1]
    <2>1. t = [w EXCEPT !.c.slot = slot, !.c.slotNr = nrs]
      BY <1>2, <1>4, <1>5, <1>7, CacheFields DEF Evict, w, StateValue, CacheValue
    <2>2. b \in Buckets /\ x \in SlotValue
      BY <1>4 DEF SlotValue
    <2> HIDE DEF x, b
    <2>3. slot \in [Slots(s.c) -> SlotValue] /\ slot \in SlotsValue
      <3>1. slot \in [Slots(s.c) -> SlotValue]
        BY <1>2, <1>4, <2>2, CacheFields
      <3> QED BY <1>3, <3>1, SlotsAre
    <2>4. \A j \in Slots(s.c) : j # i => slot[j] = w.c.slot[j]
      BY <1>2, <1>4, CacheFields
    <2>5. nrs \in [Buckets -> Int] /\ nrs[b] = -1 /\ \A a \in Buckets : a # b => nrs[a] = w.c.slotNr[a]
      BY <1>2, <2>2, CacheFields
    <2> HIDE DEF slot, nrs, t
    <2>6. /\ t \in StateValue /\ t.f = w.f /\ t.c.slot = slot /\ t.c.slotNr = nrs
          /\ t.c.used = w.c.used /\ t.c.curNr = w.c.curNr /\ t.c.actual = w.c.actual
          /\ t.c.counter = w.c.counter /\ SameCounts(w, t)
      <3>1. w \in StateValue /\ w.c \in CacheValue
        BY <1>2, CacheFields
      <3> QED BY <2>1, <2>3, <2>5, <3>1 DEF StateValue, CacheValue, SameCounts
    <2>7. /\ UsedSlots(t.c) = UsedSlots(s.c) /\ Slots(t.c) = Slots(s.c)
      BY <1>4, <2>6 DEF SameCounts, UsedSlots, Slots
    <2>8. Shaped(t)
      BY <1>2, <1>4, <2>3, <2>6, <2>7 DEF Shaped, SameCounts
    <2>9. w.c.slotNr[b] = i
      BY <1>2, <1>4, <1>5, <1>7 DEF Linked, Used, b
    <2>10. /\ \A j \in Used(t, {i}) : j \in Used(w, {}) /\ j # i /\ t.c.slot[j] = w.c.slot[j]
           /\ \A j \in Used(w, {}) : j # i => j \in Used(t, {i})
      <3>1. \A j \in UsedSlots(s.c) : j \in Slots(s.c)
        BY <1>3, CacheFields
      <3> QED BY <1>4, <2>4, <2>6, <2>7, <3>1 DEF Used
    <2>11. ASSUME NEW j \in Used(t, {i}), t.c.slot[j].data # Null
           PROVE  t.c.slotNr[t.c.slot[j].bucket] = j /\ t.c.slot[j].bucket # b
      <3>1. j \in Used(w, {}) /\ j # i /\ t.c.slot[j] = w.c.slot[j]
        BY <2>10
      <3>2. w.c.slotNr[w.c.slot[j].bucket] = j
        BY <1>2, <2>11, <3>1 DEF Linked
      <3>3. w.c.slot[j].bucket \in Buckets
        <4>1. w.c.slot[j] \in SlotValue
          BY <1>2, <3>1, CacheFields DEF Used
        <4> QED BY <4>1, SlotFields
      <3> QED BY <2>5, <2>6, <2>9, <3>1, <3>2, <3>3
    <2>12. ASSUME NEW a \in Buckets, t.c.slotNr[a] # -1
           PROVE  /\ a # b /\ t.c.slotNr[a] = w.c.slotNr[a]
                  /\ t.c.slotNr[a] \in Used(t, {i})
                  /\ t.c.slot[t.c.slotNr[a]].bucket = a
                  /\ t.c.slot[t.c.slotNr[a]].data # Null
      <3>1. a # b /\ t.c.slotNr[a] = w.c.slotNr[a]
        BY <2>5, <2>6, <2>12
      <3>2. /\ w.c.slotNr[a] \in Used(w, {}) /\ w.c.slot[w.c.slotNr[a]].bucket = a
            /\ w.c.slot[w.c.slotNr[a]].data # Null
        BY <1>2, <2>12, <3>1 DEF Linked
      <3>3. w.c.slotNr[a] # i
        BY <3>1, <3>2 DEF b
      <3> QED BY <2>10, <3>1, <3>2, <3>3
    <2>13. Linked(t, {i})
      BY <2>11, <2>12 DEF Linked
    <2>14. Marked(t, {i})
      BY <1>2, <2>6, <2>10 DEF Marked
    <2>15. ASSUME NEW a \in Buckets
           PROVE  Value(t, a) = Value(w, a)
      <3>1. CASE a = b
        <4>1. w.f[b] = w.c.slot[i].data
          BY <1>2, <1>4, <1>5, <1>7 DEF Marked, Used, b
        <4> QED BY <1>3, <2>5, <2>6, <2>9, <3>1, <4>1 DEF Value
      <3>2. CASE a # b /\ w.c.slotNr[a] = -1
        BY <2>5, <2>6, <3>2 DEF Value
      <3>3. CASE a # b /\ w.c.slotNr[a] # -1
        <4>1. t.c.slotNr[a] = w.c.slotNr[a]
          BY <2>5, <2>6, <3>3
        <4>2. t.c.slot[t.c.slotNr[a]] = w.c.slot[t.c.slotNr[a]]
          BY <2>10, <2>12, <3>3, <4>1
        <4> QED BY <3>3, <4>1, <4>2 DEF Value
      <3> QED BY <3>1, <3>2, <3>3
    <2>16. SameValues(s, t)
      BY <1>1, <2>15 DEF Written, SameValues
    <2>17. KeepsUncached(s, t, {})
      <3>1. ASSUME NEW a \in Buckets, w.c.slotNr[a] = -1 PROVE t.c.slotNr[a] = -1
        BY <2>5, <2>6, <3>1
      <3> QED BY <1>1, <2>6, <3>1 DEF Written, KeepsUncached
    <2>18. SameCounts(s, t) /\ t.c.curNr = s.c.curNr /\ t.c.counter = s.c.counter
           /\ t.c.used = s.c.used
      BY <1>1, <2>6 DEF Written, SameCounts
    <2>19. ASSUME NEW j \in UsedSlots(t.c) \ {i}
           PROVE  /\ j \in UsedSlots(s.c)
                  /\ t.c.slot[j].bucket = s.c.slot[j].bucket
                  /\ t.c.slot[j].data = s.c.slot[j].data
                  /\ t.c.slot[j].lru = s.c.slot[j].lru
      <3>1. j \in UsedSlots(s.c) /\ j \in Slots(s.c) /\ t.c.slot[j] = w.c.slot[j]
        BY <1>3, <2>7, <2>10, CacheFields DEF Used
      <3> QED BY <1>1, <3>1 DEF Written
    <2> QED BY <2>7, <2>8, <2>13, <2>14, <2>16, <2>17, <2>18, <2>19 DEF IsFree, HasRoom, Consistent, t
  <1> QED
    <2>1. w.c.used = s.c.used
      BY <1>1 DEF Written
    <2>2. CASE s.c.slot[i].data = Null
      <3>1. Evict(s, i).c.used = s.c.used
        BY <2>1, <2>2 DEF Evict, w
      <3> QED BY <1>6, <2>2, <3>1
    <2>3. CASE s.c.slot[i].data # Null
      <3>1. Evict(s, i).c.used = w.c.used
        <4>1. w \in StateValue /\ w.c \in CacheValue
          BY <1>2, CacheFields
        <4>2. Evict(s, i) = [w EXCEPT !.c.slot[i].data = Null, !.c.slotNr[s.c.slot[i].bucket] = -1]
          BY <2>3 DEF Evict, w
        <4> QED BY <4>1, <4>2 DEF StateValue, CacheValue
      <3> QED BY <1>7, <2>1, <2>3, <3>1
    <2> QED BY <2>2, <2>3

LEMMA RoomIs ==
    ASSUME NEW s, Consistent(s, {}), s.c.used < s.c.size
    PROVE  /\ IsFree(s, [s EXCEPT !.c.used = @ + 1], s.c.used)
           /\ [s EXCEPT !.c.used = @ + 1].c.used = s.c.used + 1
  <1> DEFINE t == [s EXCEPT !.c.used = @ + 1]
             i == s.c.used
  <1>1. Shaped(s) /\ Linked(s, {}) /\ Marked(s, {})
    BY DEF Consistent
  <1>2. i \in Nat /\ s \in StateValue /\ s.c \in CacheValue
    BY <1>1, CacheFields
  <1>3. /\ t \in StateValue /\ t.f = s.f /\ t.c.slot = s.c.slot /\ t.c.slotNr = s.c.slotNr
        /\ t.c.used = i + 1 /\ t.c.curNr = s.c.curNr /\ t.c.actual = s.c.actual
        /\ t.c.counter = s.c.counter /\ SameCounts(s, t)
    BY <1>2 DEF StateValue, CacheValue, SameCounts
  <1> HIDE DEF t
  <1>4. UsedSlots(t.c) = UsedSlots(s.c) \cup {i} /\ i \notin UsedSlots(s.c)
        /\ Slots(t.c) = Slots(s.c)
    BY <1>2, <1>3 DEF UsedSlots, SameCounts, Slots
  <1>5. Shaped(t)
    BY <1>1, <1>2, <1>3, <1>4, CacheFields DEF Shaped, SameCounts
  <1>6. Used(t, {i}) = Used(s, {})
    BY <1>4 DEF Used
  <1>7. Linked(t, {i}) /\ Marked(t, {i})
    <2>1. Linked(t, {i})
      BY <1>1, <1>3, <1>6, SameLinks
    <2>2. Marked(t, {i})
      BY <1>1, <1>3, <1>6, SameMarks
    <2> QED BY <2>1, <2>2
  <1>8. SameValues(s, t) /\ KeepsUncached(s, t, {})
    BY <1>3 DEF SameValues, Value, KeepsUncached
  <1> QED BY <1>3, <1>4, <1>5, <1>7, <1>8 DEF IsFree, HasRoom, Consistent, t

-----------------------------------------------------------------------------
(* getSlot.                                                                 *)

\* Which slot it takes, what is there when it is free, and when it is the actual one.
Place(s) == IF s.c.used = s.c.size THEN LeastUsed(s.c) ELSE s.c.used
Emptied(s) == IF s.c.used = s.c.size THEN Evict(s, Place(s)) ELSE [s EXCEPT !.c.used = @ + 1]
Aimed(s) == SetLRU([Emptied(s) EXCEPT !.c.actual = Place(s)])

LEMMA EmptiedIs ==
    ASSUME NEW s, Consistent(s, {})
    PROVE  /\ IsFree(s, Emptied(s), Place(s))
           /\ Place(s) \in Slots(s.c)
  <1>1. /\ s.c.size \in Nat \ {0} /\ s.c.used \in Nat /\ s.c.used <= s.c.size
        /\ UsedSlots(s.c) \subseteq Slots(s.c)
    BY CacheFields DEF Consistent
  <1>2. CASE s.c.used = s.c.size
    <2>1. LeastUsed(s.c) \in UsedSlots(s.c)
      BY <1>1, <1>2, LeastUsedIs DEF Consistent
    <2> QED BY <1>1, <1>2, <2>1, EvictIs DEF Emptied, Place
  <1>3. CASE s.c.used # s.c.size
    <2>1. s.c.used < s.c.size
      BY <1>1, <1>3
    <2>2. IsFree(s, [s EXCEPT !.c.used = @ + 1], s.c.used)
      BY <2>1, RoomIs
    <2> QED BY <1>1, <1>3, <2>1, <2>2 DEF Emptied, Place, Slots
  <1> QED BY <1>2, <1>3

LEMMA AimedIs ==
    ASSUME NEW s, Consistent(s, {})
    PROVE  /\ HasRoom(s, Aimed(s), Place(s))
           /\ Aimed(s).c.actual = Place(s)
           /\ Aged(s) => Aged(Aimed(s))
  <1> DEFINE i == Place(s)
             e == Emptied(s)
             m == [e EXCEPT !.c.actual = i]
             t == SetLRU(m)
  <1>1. IsFree(s, e, i) /\ i \in Slots(s.c)
    BY EmptiedIs
  <1> HIDE DEF e, i
  <1>2. HasRoom(s, e, i) /\ Shaped(e) /\ Linked(e, {i}) /\ Marked(e, {i}) /\ i \in UsedSlots(e.c)
    BY <1>1 DEF IsFree, HasRoom, Consistent
  <1>3. i \in Nat /\ i < s.c.size /\ s.c.size = e.c.size
    <2>1. s.c.size \in Nat
      BY CacheFields DEF Consistent
    <2> QED BY <1>1, <1>2, <2>1 DEF Slots, HasRoom, SameCounts
  <1>4. /\ m \in StateValue /\ m.f = e.f /\ m.c.slot = e.c.slot /\ m.c.slotNr = e.c.slotNr
        /\ m.c.used = e.c.used /\ m.c.curNr = e.c.curNr /\ m.c.actual = i
        /\ m.c.counter = e.c.counter /\ SameCounts(e, m)
    <2>1. e \in StateValue /\ e.c \in CacheValue
      BY <1>2, CacheFields
    <2> QED BY <1>3, <2>1 DEF StateValue, CacheValue, SameCounts
  <1> HIDE DEF m
  <1>5. UsedSlots(m.c) = UsedSlots(e.c) /\ Slots(m.c) = Slots(e.c) /\ UsedSlots(e.c) \subseteq Slots(e.c)
    <2>1. UsedSlots(m.c) = UsedSlots(e.c) /\ Slots(m.c) = Slots(e.c)
      BY <1>4 DEF SameCounts, UsedSlots, Slots
    <2> QED BY <1>2, <2>1, CacheFields
  <1>6. Shaped(m)
    BY <1>2, <1>3, <1>4, <1>5 DEF Shaped, SameCounts
  <1>7. /\ Shaped(t) /\ LooksLike(m, t)
        /\ (\A j \in UsedSlots(m.c) \ {i} : m.c.slot[j].lru <= m.c.counter) /\ i \in UsedSlots(m.c)
           => Aged(t)
    BY <1>4, <1>6, SetLRUIs
  <1> HIDE DEF t
  <1>8. /\ t.f = e.f /\ t.c.slotNr = e.c.slotNr /\ t.c.used = e.c.used /\ t.c.actual = i
        /\ t.c.curNr = e.c.curNr /\ SameCounts(e, t)
        /\ UsedSlots(t.c) = UsedSlots(e.c)
    BY <1>4, <1>7 DEF LooksLike, SameCounts, UsedSlots
  <1>9. \A j \in UsedSlots(e.c) :
            /\ t.c.slot[j].bucket = e.c.slot[j].bucket /\ t.c.slot[j].data = e.c.slot[j].data
            /\ t.c.slot[j].dirty = e.c.slot[j].dirty
    BY <1>4, <1>5, <1>7 DEF LooksLike
  <1>10. Used(t, {i}) = Used(e, {i})
    BY <1>8 DEF Used
  <1>11. Linked(t, {i})
    <2>1. \A j \in Used(e, {i}) : /\ t.c.slot[j].bucket = e.c.slot[j].bucket
                                  /\ t.c.slot[j].data = e.c.slot[j].data
      BY <1>9 DEF Used
    <2> QED BY <1>2, <1>8, <1>10, <2>1, SameLinks
  <1>12. Marked(t, {i})
    <2>1. ASSUME NEW j \in Used(t, {i})
          PROVE  IF t.c.slot[j].dirty THEN t.c.slot[j].data # Null
                 ELSE t.c.slot[j].data # Null => t.f[t.c.slot[j].bucket] = t.c.slot[j].data
      <3>1. j \in Used(e, {i}) /\ j \in UsedSlots(e.c)
        BY <1>10, <2>1 DEF Used
      <3>2. IF e.c.slot[j].dirty THEN e.c.slot[j].data # Null
            ELSE e.c.slot[j].data # Null => e.f[e.c.slot[j].bucket] = e.c.slot[j].data
        BY <1>2, <3>1 DEF Marked
      <3> QED BY <1>8, <1>9, <3>1, <3>2
    <2> QED BY <2>1 DEF Marked
  <1>13. SameValues(s, t)
    <2>1. ASSUME NEW b \in Buckets
          PROVE  Value(t, b) = Value(e, b)
      <3>1. CASE e.c.slotNr[b] = -1
        BY <1>8, <3>1 DEF Value
      <3>2. CASE e.c.slotNr[b] # -1
        <4>1. e.c.slotNr[b] \in UsedSlots(e.c)
          BY <1>2, <3>2 DEF Linked, Used
        <4> QED BY <1>8, <1>9, <3>2, <4>1 DEF Value
      <3> QED BY <3>1, <3>2
    <2> QED BY <1>2, <2>1 DEF SameValues, HasRoom
  <1>14. KeepsUncached(s, t, {})
    BY <1>2, <1>8 DEF KeepsUncached, HasRoom
  <1>15. SameCounts(s, t) /\ t.c.curNr = s.c.curNr /\ UsedSlots(s.c) \subseteq UsedSlots(t.c)
    BY <1>2, <1>8 DEF SameCounts, HasRoom
  <1>16. ASSUME NEW j \in UsedSlots(t.c) \ {i}
         PROVE  /\ j \in UsedSlots(s.c)
                /\ t.c.slot[j].bucket = s.c.slot[j].bucket
                /\ t.c.slot[j].data = s.c.slot[j].data
    BY <1>2, <1>8, <1>9 DEF HasRoom
  <1>17. HasRoom(s, t, i)
    BY <1>2, <1>7, <1>8, <1>11, <1>12, <1>13, <1>14, <1>15, <1>16 DEF HasRoom, Consistent
  <1>18. ASSUME Aged(s)
         PROVE  Aged(t)
    <2>1. ASSUME NEW j \in UsedSlots(m.c) \ {i}
          PROVE  m.c.slot[j].lru <= m.c.counter
      <3>1. m.c.slot[j].lru = s.c.slot[j].lru /\ m.c.counter = s.c.counter /\ j \in UsedSlots(s.c)
        BY <1>1, <1>4, <1>5 DEF IsFree, HasRoom
      <3> QED BY <1>18, <3>1 DEF Aged
    <2> QED BY <1>2, <1>5, <1>7, <2>1
  <1> QED BY <1>8, <1>17, <1>18 DEF Aimed, t, m, e, i

\* A bucket comes into the cache, where the caller of getSlot puts its buffer.
Takes(s, t, b, data) ==
    /\ Consistent(t, {})
    /\ SameCounts(s, t) /\ t.c.curNr = s.c.curNr
    /\ Value(t, b) = data
    /\ \A a \in Buckets \ {b} : Value(t, a) = Value(s, a)
    /\ KeepsUncached(s, t, {b})
    /\ t.c.slotNr[b] = t.c.actual
    /\ t.c.actual = Place(s)
    /\ UsedSlots(s.c) \subseteq UsedSlots(t.c)
    /\ \A j \in UsedSlots(t.c) \ {t.c.actual} :
          /\ j \in UsedSlots(s.c)
          /\ t.c.slot[j].bucket = s.c.slot[j].bucket
          /\ t.c.slot[j].data = s.c.slot[j].data
    /\ Aged(s) => Aged(t)

LEMMA GetSlotIs ==
    ASSUME NEW s, Consistent(s, {}), NEW b \in Buckets
    PROVE  GetSlot(s, b) =
             [Aimed(s) EXCEPT !.c.slot[Place(s)].bucket = b, !.c.slotNr[b] = Place(s)]
  BY DEF GetSlot, Aimed, Emptied, Place

LEMMA FillIs ==
    ASSUME NEW s, Consistent(s, {}), NEW b \in Buckets, s.c.slotNr[b] = -1,
           NEW data \in Data, NEW dirty \in BOOLEAN, dirty \/ s.f[b] = data
    PROVE  Takes(s, Fill(s, b, data, dirty), b, data)
  <1> DEFINE i == Place(s)
             u == Aimed(s)
             g == GetSlot(s, b)
             t == Fill(s, b, data, dirty)
             x == [bucket |-> b, data |-> data, dirty |-> u.c.slot[i].dirty \/ dirty,
                   lru |-> u.c.slot[i].lru]
             slot == [u.c.slot EXCEPT ![i] = x]
             nrs == [u.c.slotNr EXCEPT ![b] = i]
  <1>1. HasRoom(s, u, i) /\ u.c.actual = i /\ (Aged(s) => Aged(u))
    BY AimedIs
  <1>2. g = [u EXCEPT !.c.slot[i].bucket = b, !.c.slotNr[b] = i]
    BY GetSlotIs
  <1>3. t = [g EXCEPT !.c.slot[g.c.actual] =
               [bucket |-> b, data |-> data, dirty |-> @.dirty \/ dirty, lru |-> @.lru]]
    BY DEF Fill, PutData
  <1> HIDE DEF g, t, u, i
  <1>4. Shaped(u) /\ Linked(u, {i}) /\ Marked(u, {i}) /\ i \in UsedSlots(u.c) /\ i \in Slots(u.c)
        /\ i \in Nat /\ u.c.slot[i] \in SlotValue /\ u \in StateValue /\ u.c \in CacheValue
    <2>1. Shaped(u) /\ Linked(u, {i}) /\ Marked(u, {i}) /\ i \in UsedSlots(u.c)
      BY <1>1 DEF HasRoom, Consistent
    <2>2. i \in Slots(u.c) /\ i \in Nat
      BY <2>1, CacheFields DEF Slots
    <2> QED BY <2>1, <2>2, CacheFields
  <1>5. /\ x \in SlotValue /\ x.bucket = b /\ x.data = data /\ x.lru = u.c.slot[i].lru
        /\ x.dirty = (u.c.slot[i].dirty \/ dirty)
    BY <1>4 DEF SlotValue
  <1> DEFINE y == [u.c.slot[i] EXCEPT !.bucket = b]
             mid == [u.c.slot EXCEPT ![i] = y]
  <1>6. y \in SlotValue /\ y.dirty = u.c.slot[i].dirty /\ y.lru = u.c.slot[i].lru
    BY <1>4 DEF SlotValue
  <1> HIDE DEF x, y
  <1>7. /\ mid \in [Slots(u.c) -> SlotValue] /\ mid \in SlotsValue
        /\ slot \in [Slots(u.c) -> SlotValue] /\ slot \in SlotsValue
    <2>1. mid \in [Slots(u.c) -> SlotValue] /\ slot \in [Slots(u.c) -> SlotValue]
      BY <1>4, <1>5, <1>6, CacheFields
    <2> QED BY <1>4, <2>1, SlotsAre
  <1>8. mid[i] = y /\ [mid EXCEPT ![i] = x] = slot /\ slot[i] = x
        /\ \A j \in Slots(u.c) : j # i => slot[j] = u.c.slot[j]
    BY <1>4, CacheFields
  <1>9. /\ nrs \in [Buckets -> Int] /\ nrs[b] = i
        /\ \A a \in Buckets : a # b => nrs[a] = u.c.slotNr[a]
    BY <1>4, CacheFields
  <1>10. g = [u EXCEPT !.c.slot = mid, !.c.slotNr = nrs]
    BY <1>2, <1>4 DEF StateValue, CacheValue, y
  <1> HIDE DEF mid, nrs, slot
  <1>11. /\ g \in StateValue /\ g.c \in CacheValue /\ g.f = u.f /\ g.c.slot = mid
         /\ g.c.slotNr = nrs
         /\ g.c.used = u.c.used /\ g.c.actual = i /\ g.c.curNr = u.c.curNr
         /\ g.c.counter = u.c.counter /\ SameCounts(u, g)
    BY <1>1, <1>4, <1>7, <1>9, <1>10 DEF StateValue, CacheValue, SameCounts
  <1>12. t = [g EXCEPT !.c.slot = slot]
    <2>1. t = [g EXCEPT !.c.slot = [mid EXCEPT ![i] = x]]
      BY <1>3, <1>6, <1>8, <1>11 DEF x
    <2> QED BY <1>8, <2>1
  <1>13. /\ t \in StateValue /\ t.f = u.f /\ t.c.slot = slot /\ t.c.slotNr = nrs
         /\ t.c.used = u.c.used /\ t.c.actual = i /\ t.c.curNr = u.c.curNr
         /\ t.c.counter = u.c.counter /\ SameCounts(u, t)
    BY <1>7, <1>11, <1>12 DEF StateValue, CacheValue, SameCounts
  <1>14. UsedSlots(t.c) = UsedSlots(u.c) /\ Slots(t.c) = Slots(u.c)
         /\ UsedSlots(u.c) \subseteq Slots(u.c)
    <2>1. UsedSlots(u.c) \subseteq Slots(u.c)
      BY <1>4, CacheFields
    <2> QED BY <1>13, <2>1 DEF SameCounts, UsedSlots, Slots
  <1>15. Shaped(t)
    <2>1. u.c.used <= u.c.size /\ i < u.c.size
      BY <1>4, CacheFields DEF Slots
    <2>2. t.c.size = u.c.size
      BY <1>13 DEF SameCounts
    <2> QED BY <1>7, <1>13, <1>14, <2>1, <2>2 DEF Shaped
  <1>16. u.c.slotNr[b] = -1 /\ u.f[b] = s.f[b]
    BY <1>1 DEF HasRoom, KeepsUncached
  <1>17. \A j \in Used(u, {i}) : j \in Used(t, {}) /\ j # i /\ t.c.slot[j] = u.c.slot[j]
                               /\ u.c.slot[j] \in SlotValue
    BY <1>4, <1>8, <1>13, <1>14, CacheFields DEF Used
  <1>18. Used(t, {}) = Used(u, {i}) \cup {i}
    BY <1>4, <1>14 DEF Used
  <1>19. /\ t.c.slot[i].bucket = b /\ t.c.slot[i].data = data
         /\ t.c.slot[i].dirty = (u.c.slot[i].dirty \/ dirty) /\ data # Null
    BY <1>5, <1>8, <1>13, Assumed
  <1>20. Linked(t, {})
    <2>1. ASSUME NEW j \in Used(u, {i}), u.c.slot[j].data # Null
          PROVE  t.c.slotNr[u.c.slot[j].bucket] = j
      <3>1. u.c.slotNr[u.c.slot[j].bucket] = j /\ j # -1
        BY <1>4, <2>1, CacheFields DEF Linked, Used, UsedSlots
      <3>2. u.c.slot[j].bucket \in Buckets
        BY <1>17, SlotFields
      <3> QED BY <1>9, <1>13, <1>16, <3>1, <3>2
    <2>2. ASSUME NEW a \in Buckets, a # b, t.c.slotNr[a] # -1
          PROVE  /\ t.c.slotNr[a] \in Used(u, {i})
                 /\ u.c.slot[t.c.slotNr[a]].bucket = a
                 /\ u.c.slot[t.c.slotNr[a]].data # Null
      BY <1>4, <1>9, <1>13, <2>2 DEF Linked
    <2>3. \A j \in Used(t, {}) :
            t.c.slot[j].data # Null => t.c.slotNr[t.c.slot[j].bucket] = j
      BY <1>9, <1>13, <1>17, <1>18, <1>19, <2>1
    <2>4. \A a \in Buckets : t.c.slotNr[a] # -1 =>
              /\ t.c.slotNr[a] \in Used(t, {})
              /\ t.c.slot[t.c.slotNr[a]].bucket = a
              /\ t.c.slot[t.c.slotNr[a]].data # Null
      BY <1>9, <1>13, <1>17, <1>18, <1>19, <2>2
    <2> QED BY <2>3, <2>4 DEF Linked
  <1>21. Marked(t, {})
    <2>1. ASSUME NEW j \in Used(u, {i})
          PROVE  IF t.c.slot[j].dirty THEN t.c.slot[j].data # Null
                 ELSE t.c.slot[j].data # Null => t.f[t.c.slot[j].bucket] = t.c.slot[j].data
      BY <1>4, <1>13, <1>17 DEF Marked
    <2>2. t.c.slot[i].dirty \/ t.f[t.c.slot[i].bucket] = t.c.slot[i].data
      BY <1>13, <1>16, <1>19
    <2> QED BY <1>18, <1>19, <2>1, <2>2 DEF Marked
  <1>22. Value(t, b) = data /\ t.c.slotNr[b] = i
    BY <1>4, <1>9, <1>13, <1>19 DEF Value
  <1>23. ASSUME NEW a \in Buckets \ {b}
         PROVE  Value(t, a) = Value(s, a)
    <2>1. t.c.slotNr[a] = u.c.slotNr[a]
      BY <1>9, <1>13
    <2>2. Value(t, a) = Value(u, a)
      <3>1. CASE u.c.slotNr[a] = -1
        BY <1>13, <2>1, <3>1 DEF Value
      <3>2. CASE u.c.slotNr[a] # -1
        <4>1. u.c.slotNr[a] \in Used(u, {i})
          BY <1>4, <3>2 DEF Linked
        <4>2. t.c.slot[u.c.slotNr[a]] = u.c.slot[u.c.slotNr[a]]
          BY <1>17, <4>1
        <4> QED BY <2>1, <3>2, <4>2 DEF Value
      <3> QED BY <3>1, <3>2
    <2> QED BY <1>1, <2>2 DEF HasRoom, SameValues
  <1>24. KeepsUncached(s, t, {b})
    BY <1>1, <1>9, <1>13 DEF HasRoom, KeepsUncached
  <1>25. SameCounts(s, t) /\ t.c.curNr = s.c.curNr /\ UsedSlots(s.c) \subseteq UsedSlots(t.c)
    BY <1>1, <1>13, <1>14 DEF HasRoom, SameCounts
  <1>26. ASSUME NEW j \in UsedSlots(t.c) \ {i}
         PROVE  /\ j \in UsedSlots(s.c)
                /\ t.c.slot[j].bucket = s.c.slot[j].bucket
                /\ t.c.slot[j].data = s.c.slot[j].data
    <2>1. j \in UsedSlots(u.c) \ {i} /\ j \in Slots(u.c)
      BY <1>14
    <2>2. t.c.slot[j] = u.c.slot[j]
      BY <1>8, <1>13, <2>1
    <2> QED BY <1>1, <2>1, <2>2 DEF HasRoom
  <1>27. ASSUME Aged(s)
         PROVE  Aged(t)
    <2>1. \A j \in UsedSlots(u.c) : t.c.slot[j].lru = u.c.slot[j].lru
      BY <1>5, <1>8, <1>13, <1>14
    <2>2. Aged(u)
      BY <1>1, <1>27
    <2> QED BY <1>13, <1>14, <2>1, <2>2 DEF Aged
  <1>28. Takes(s, t, b, data)
    BY <1>13, <1>15, <1>20, <1>21, <1>22, <1>23, <1>24, <1>25, <1>26, <1>27
       DEF Takes, Consistent, i
  <1> QED BY <1>28 DEF t

-----------------------------------------------------------------------------
(* The buckets that are in the file or in the cache, and those of an extension. *)

ContentOf(s, b) == IF b < s.c.curNr THEN Value(s, b) ELSE Fresh

Whole(s) ==
    /\ Consistent(s, {})
    /\ s.c.curNr <= s.c.newNr
    /\ \A b \in Buckets :
          IF b < s.c.curNr THEN Value(s, b) \in Data \cup Links ELSE s.c.slotNr[b] = -1

\* What every call keeps that changes no bucket.
Keeps(s, t) ==
    /\ t.c.newNr = s.c.newNr /\ t.c.nrFree = s.c.nrFree /\ t.c.firstFree = s.c.firstFree
    /\ s.c.curNr <= t.c.curNr
    /\ \A b \in Buckets : ContentOf(t, b) = ContentOf(s, b)
    /\ Aged(s) => Aged(t)

LEMMA WholeFields ==
    ASSUME NEW s, Whole(s)
    PROVE  /\ Consistent(s, {}) /\ Shaped(s) /\ Linked(s, {}) /\ Marked(s, {})
           /\ s.c.curNr \in Nat /\ s.c.newNr \in Nat /\ s.c.curNr <= s.c.newNr
           /\ s.c.newNr <= MaxBuckets
           /\ s.c.size \in Nat \ {0} /\ s.c.used \in Nat /\ s.c.used <= s.c.size
  <1>1. Shaped(s)
    BY DEF Whole, Consistent
  <1>2. /\ s.c.curNr \in 0 .. MaxBuckets /\ s.c.newNr \in 0 .. MaxBuckets
        /\ s.c.size \in Nat \ {0} /\ s.c.used \in Nat /\ s.c.used <= s.c.size
    BY <1>1, CacheFields
  <1> QED BY <1>2, Assumed DEF Whole, Consistent

LEMMA KeepsSame ==
    ASSUME NEW s, Whole(s)
    PROVE  Keeps(s, s)
  BY WholeFields DEF Keeps

LEMMA KeepsBoth ==
    ASSUME NEW s, NEW t, NEW u, Whole(s), Whole(t), Whole(u), Keeps(s, t), Keeps(t, u)
    PROVE  Keeps(s, u)
  <1>1. s.c.curNr \in Nat /\ t.c.curNr \in Nat /\ u.c.curNr \in Nat
    BY WholeFields
  <1>2. s.c.curNr <= u.c.curNr
    BY <1>1 DEF Keeps
  <1> QED BY <1>2 DEF Keeps

-----------------------------------------------------------------------------
(* initializeBuckets.                                                       *)

LEMMA InitializeNextIs ==
    ASSUME NEW s, Whole(s), s.c.curNr < s.c.newNr
    PROVE  LET t == InitializeNext(s) IN
           /\ Whole(t) /\ Keeps(s, t)
           /\ t.c.curNr = s.c.curNr + 1 /\ t.c.size = s.c.size
           /\ t.c.slotNr[s.c.curNr] = t.c.actual
  <1> DEFINE b == s.c.curNr
             u == Fill(s, b, Fresh, TRUE)
             t == [u EXCEPT !.c.curNr = @ + 1]
  <1>1. b \in Buckets /\ b \in Nat
    BY WholeFields, Assumed DEF Buckets
  <1>2. s.c.slotNr[b] = -1
    BY <1>1 DEF Whole
  <1>3. Takes(s, u, b, Fresh)
    <2>1. Fresh \in Data
      BY Assumed
    <2> HIDE DEF u, b
    <2> QED BY <1>1, <1>2, <2>1, WholeFields, FillIs DEF u
  <1> HIDE DEF u
  <1>4. Consistent(u, {}) /\ Shaped(u) /\ u.c.curNr = b /\ SameCounts(s, u)
    BY <1>3 DEF Takes, Consistent
  <1>5. /\ t \in StateValue /\ t.f = u.f /\ t.c.slot = u.c.slot /\ t.c.slotNr = u.c.slotNr
        /\ t.c.used = u.c.used /\ t.c.curNr = b + 1 /\ t.c.actual = u.c.actual
        /\ t.c.counter = u.c.counter /\ SameCounts(s, t)
    <2>1. u \in StateValue /\ u.c \in CacheValue
      BY <1>4, CacheFields
    <2>2. b + 1 \in 0 .. MaxBuckets
      BY WholeFields, Assumed
    <2> HIDE DEF b
    <2> QED BY <1>4, <2>1, <2>2 DEF StateValue, CacheValue, SameCounts
  <1> HIDE DEF t
  <1>6. UsedSlots(t.c) = UsedSlots(u.c) /\ Slots(t.c) = Slots(u.c)
    BY <1>4, <1>5 DEF UsedSlots, Slots, SameCounts
  <1>7. Consistent(t, {})
    <2>1. Used(t, {}) = Used(u, {})
      BY <1>6 DEF Used
    <2>2. Linked(t, {}) /\ Marked(t, {})
      BY <1>4, <1>5, <2>1, SameLinks, SameMarks DEF Consistent
    <2>3. Shaped(t)
      BY <1>4, <1>5, <1>6 DEF Shaped, SameCounts
    <2> QED BY <2>2, <2>3 DEF Consistent
  <1>8. \A a \in Buckets : Value(t, a) = Value(u, a)
    BY <1>5 DEF Value
  <1>9. Value(t, b) = Fresh
    BY <1>1, <1>3, <1>8 DEF Takes
  <1>10. ASSUME NEW a \in Buckets, a # b
         PROVE  /\ Value(t, a) = Value(s, a)
                /\ s.c.slotNr[a] = -1 => t.c.slotNr[a] = -1
    BY <1>3, <1>5, <1>8, <1>10 DEF Takes, KeepsUncached
  <1>11. Whole(t)
    <2>1. t.c.curNr <= t.c.newNr
      BY <1>5, WholeFields DEF SameCounts
    <2>2. ASSUME NEW a \in Buckets
          PROVE  IF a < t.c.curNr THEN Value(t, a) \in Data \cup Links ELSE t.c.slotNr[a] = -1
      <3>1. CASE a = b
        BY <1>1, <1>5, <1>9, <3>1, Assumed
      <3>2. CASE a # b
        <4>1. a < t.c.curNr <=> a < s.c.curNr
          BY <1>1, <1>5, <3>2, BucketsAre
        <4>2. IF a < s.c.curNr THEN Value(s, a) \in Data \cup Links ELSE s.c.slotNr[a] = -1
          BY DEF Whole
        <4> QED BY <1>10, <3>2, <4>1, <4>2
      <3> QED BY <3>1, <3>2
    <2> QED BY <1>7, <2>1, <2>2 DEF Whole
  <1>12. ASSUME NEW a \in Buckets
         PROVE  ContentOf(t, a) = ContentOf(s, a)
    <2>1. CASE a = b
      BY <1>1, <1>5, <1>9, <2>1 DEF ContentOf
    <2>2. CASE a # b
      <3>1. a < t.c.curNr <=> a < s.c.curNr
        BY <1>1, <1>5, <2>2, BucketsAre
      <3> QED BY <1>10, <2>2, <3>1 DEF ContentOf
    <2> QED BY <2>1, <2>2
  <1>13. ASSUME Aged(s) PROVE Aged(t)
    BY <1>3, <1>5, <1>6, <1>13 DEF Takes, Aged
  <1>14. Keeps(s, t)
    BY <1>1, <1>5, <1>12, <1>13 DEF Keeps, SameCounts
  <1>15. t.c.slotNr[b] = t.c.actual
    BY <1>3, <1>5 DEF Takes
  <1> QED BY <1>5, <1>11, <1>14, <1>15 DEF InitializeNext, t, u, SameCounts

\* after is what the turns make of s.
InitializeRuns(after, n, s) ==
    /\ after[0] = s
    /\ \A k \in 1 .. n : after[k] = InitializeNext(after[k - 1])

NrInitialized(s, b) == IF b < s.c.curNr THEN 0 ELSE b + 1 - s.c.curNr

LEMMA InitializeLoop ==
    ASSUME NEW s, NEW b, NrInitialized(s, b) \in Nat
    PROVE  \E after :
            /\ InitializeRuns(after, NrInitialized(s, b), s)
            /\ InitializeBuckets(s, b) = after[NrInitialized(s, b)]
  <1> DEFINE n == NrInitialized(s, b)
             turns(f, D) == [k \in D |-> IF k = 0 THEN s ELSE InitializeNext(f[k - 1])]
             T == {j \in Nat : \E f : f = turns(f, 0 .. j)}
  <1>1. InitializeBuckets(s, b) = (CHOOSE f : f = turns(f, Nat))[n]
    BY DEF InitializeBuckets, NrInitialized
  <1>2. 0 \in T
    <2>1. turns([k \in 0 .. 0 |-> s], 0 .. 0) = [k \in 0 .. 0 |-> s]
      OBVIOUS
    <2> QED BY <2>1
  <1>3. ASSUME NEW j \in Nat, j \in T
        PROVE  j + 1 \in T
    <2>1. PICK f : f = turns(f, 0 .. j)
      BY <1>3
    <2> DEFINE g == turns(f, 0 .. (j + 1))
    <2>2. ASSUME NEW k \in 0 .. j
          PROVE  g[k] = f[k]
      BY <2>1, <2>2
    <2>3. ASSUME NEW k \in 0 .. (j + 1), k # 0
          PROVE  g[k - 1] = f[k - 1]
      <3>1. k - 1 \in 0 .. j
        BY <2>3
      <3> HIDE DEF g
      <3> QED BY <2>2, <3>1
    <2>4. g = turns(g, 0 .. (j + 1))
      <3> DEFINE h == turns(g, 0 .. (j + 1))
      <3>1. \A k \in 0 .. (j + 1) : g[k] = h[k]
        BY <2>3
      <3>2. g = [k \in 0 .. (j + 1) |-> g[k]] /\ h = [k \in 0 .. (j + 1) |-> h[k]]
        OBVIOUS
      <3> HIDE DEF g, h
      <3>3. g = h
        BY <3>1, <3>2
      <3> QED BY <3>3 DEF h
    <2> HIDE DEF g
    <2> QED BY <2>4
  <1> DEFINE upTo(j) == CHOOSE f : f = turns(f, 0 .. j)
  <1>4. ASSUME NEW j \in Nat
        PROVE  /\ upTo(j)[0] = s
               /\ \A k \in 1 .. j : upTo(j)[k] = InitializeNext(upTo(j)[k - 1])
    <2>1. j \in T
      <3> HIDE DEF T
      <3> QED BY <1>2, <1>3, Induction
    <2>2. upTo(j) = turns(upTo(j), 0 .. j)
      BY <2>1
    <2> HIDE DEF upTo
    <2> QED BY <2>2
  <1> HIDE DEF upTo
  <1>5. ASSUME NEW j \in Nat
        PROVE  \A k \in 0 .. j : upTo(j + 1)[k] = upTo(j)[k]
    <2> DEFINE S == {k \in 0 .. j : upTo(j + 1)[k] = upTo(j)[k]}
    <2>1. 0 \in S
      BY <1>4
    <2>2. ASSUME NEW k \in 1 .. j, k - 1 \in S
          PROVE  k \in S
      <3>1. /\ upTo(j)[k] = InitializeNext(upTo(j)[k - 1])
            /\ upTo(j + 1)[k] = InitializeNext(upTo(j + 1)[k - 1])
        BY <1>4
      <3>2. upTo(j + 1)[k - 1] = upTo(j)[k - 1] /\ k \in 0 .. j
        BY <2>2
      <3> QED BY <3>1, <3>2
    <2> HIDE DEF S
    <2>3. \A k \in 0 .. j : k \in S
      BY <2>1, <2>2, TurnInduction
    <2> QED BY <2>3 DEF S
  <1> DEFINE all == [k \in Nat |-> upTo(k)[k]]
             after == CHOOSE f : f = turns(f, Nat)
  <1>6. ASSUME NEW k \in Nat, k # 0
        PROVE  all[k] = InitializeNext(all[k - 1])
    <2> DEFINE j == k - 1
    <2>1. j \in Nat /\ k = j + 1 /\ j \in 0 .. j /\ k \in 1 .. k
      BY <1>6
    <2>2. all[k] = upTo(k)[k] /\ all[j] = upTo(j)[j]
      BY <2>1
    <2> HIDE DEF all, j
    <2>3. upTo(k)[k] = InitializeNext(upTo(k)[j])
      BY <1>4, <2>1 DEF j
    <2>4. upTo(k)[j] = upTo(j)[j]
      BY <1>5, <2>1
    <2> QED BY <2>2, <2>3, <2>4 DEF j
  <1>7. all[0] = s
    BY <1>4
  <1>8. all = turns(all, Nat)
    <2>1. all = [k \in Nat |-> all[k]]
      OBVIOUS
    <2> HIDE DEF all
    <2> QED BY <1>6, <1>7, <2>1
  <1> HIDE DEF all
  <1>9. after = turns(after, Nat)
    BY <1>8
  <1> HIDE DEF after
  <1>10. after[0] = s /\ \A k \in 1 .. n : after[k] = InitializeNext(after[k - 1])
    BY <1>9
  <1> QED BY <1>1, <1>10 DEF InitializeRuns, after

LEMMA InitializeIs ==
    ASSUME NEW s, Whole(s), NEW b \in -1 .. (s.c.newNr - 1)
    PROVE  LET t == InitializeBuckets(s, b) IN
           /\ Whole(t) /\ Keeps(s, t) /\ t.c.size = s.c.size
           /\ b < s.c.curNr => t = s
           /\ b >= s.c.curNr => t.c.curNr = b + 1 /\ t.c.slotNr[b] = t.c.actual
  <1> DEFINE n == NrInitialized(s, b)
  <1>1. /\ s.c.curNr \in Nat /\ s.c.newNr \in Nat /\ s.c.curNr <= s.c.newNr /\ b \in Int
        /\ b < s.c.newNr
    BY WholeFields
  <1>2. n \in Nat /\ (b < s.c.curNr => n = 0) /\ (b >= s.c.curNr => s.c.curNr + n = b + 1 /\ n > 0)
        /\ s.c.curNr + n <= s.c.newNr
    BY <1>1 DEF NrInitialized
  <1>3. PICK after : InitializeRuns(after, n, s) /\ InitializeBuckets(s, b) = after[n]
    BY <1>2, InitializeLoop
  <1> HIDE DEF n
  <1> DEFINE Turned(k) == /\ Whole(after[k]) /\ Keeps(s, after[k])
                          /\ after[k].c.size = s.c.size
                          /\ after[k].c.curNr = s.c.curNr + k
                          /\ k > 0 => after[k].c.slotNr[s.c.curNr + k - 1] = after[k].c.actual
             T == {k \in 0 .. n : Turned(k)}
  <1>4. after[0] = s /\ \A k \in 1 .. n : after[k] = InitializeNext(after[k - 1])
    BY <1>3 DEF InitializeRuns
  <1>5. 0 \in T
    BY <1>1, <1>2, <1>4, KeepsSame
  <1>6. ASSUME NEW k \in 1 .. n, k - 1 \in T
        PROVE  k \in T
    <2> DEFINE u == after[k - 1]
               t == after[k]
    <2>1. t = InitializeNext(u)
      BY <1>4
    <2>2. /\ Whole(u) /\ Keeps(s, u) /\ u.c.size = s.c.size
          /\ u.c.curNr = s.c.curNr + (k - 1)
      BY <1>6
    <2> HIDE DEF u, t, T
    <2>3. u.c.newNr = s.c.newNr
      BY <2>2 DEF Keeps
    <2>4. u.c.curNr < u.c.newNr /\ u.c.curNr = s.c.curNr + k - 1 /\ u.c.curNr + 1 = s.c.curNr + k
      BY <1>1, <1>2, <2>2, <2>3
    <2>5. /\ Whole(t) /\ Keeps(u, t) /\ t.c.curNr = u.c.curNr + 1 /\ t.c.size = u.c.size
          /\ t.c.slotNr[u.c.curNr] = t.c.actual
      BY <2>1, <2>2, <2>4, InitializeNextIs
    <2>6. Keeps(s, t)
      BY <2>2, <2>5, KeepsBoth
    <2>7. Turned(k)
      BY <2>2, <2>4, <2>5, <2>6 DEF t
    <2> QED BY <2>7 DEF T
  <1>7. n \in T
    <2> HIDE DEF T
    <2>1. \A k \in 0 .. n : k \in T
      BY <1>2, <1>5, <1>6, TurnInduction
    <2> QED BY <1>2, <2>1
  <1>8. Turned(n)
    BY <1>7
  <1>9. b >= s.c.curNr => s.c.curNr + n - 1 = b
    BY <1>1, <1>2
  <1> QED BY <1>2, <1>3, <1>4, <1>8, <1>9

-----------------------------------------------------------------------------
(* getBucket.                                                               *)

LEMMA LooksWhole ==
    ASSUME NEW s, Whole(s), NEW t, Shaped(t), LooksLike(s, t)
    PROVE  /\ Whole(t)
           /\ \A b \in Buckets : ContentOf(t, b) = ContentOf(s, b)
  <1>1. Shaped(s) /\ Linked(s, {}) /\ Marked(s, {}) /\ UsedSlots(s.c) \subseteq Slots(s.c)
    BY WholeFields, CacheFields
  <1>2. UsedSlots(t.c) = UsedSlots(s.c) /\ Used(t, {}) = Used(s, {})
    BY DEF LooksLike, UsedSlots, Used
  <1>3. \A i \in UsedSlots(s.c) :
            /\ t.c.slot[i].bucket = s.c.slot[i].bucket /\ t.c.slot[i].data = s.c.slot[i].data
            /\ t.c.slot[i].dirty = s.c.slot[i].dirty
    BY <1>1 DEF LooksLike
  <1>4. t.f = s.f /\ t.c.slotNr = s.c.slotNr /\ t.c.curNr = s.c.curNr /\ t.c.newNr = s.c.newNr
    BY DEF LooksLike, SameCounts
  <1>5. Linked(t, {})
    <2>1. \A j \in Used(s, {}) : /\ t.c.slot[j].bucket = s.c.slot[j].bucket
                                 /\ t.c.slot[j].data = s.c.slot[j].data
      BY <1>3 DEF Used
    <2> QED BY <1>1, <1>2, <1>4, <2>1, SameLinks
  <1>6. Marked(t, {})
    <2>1. ASSUME NEW j \in Used(t, {})
          PROVE  IF t.c.slot[j].dirty THEN t.c.slot[j].data # Null
                 ELSE t.c.slot[j].data # Null => t.f[t.c.slot[j].bucket] = t.c.slot[j].data
      <3>1. j \in Used(s, {}) /\ j \in UsedSlots(s.c)
        BY <1>2, <2>1 DEF Used
      <3>2. IF s.c.slot[j].dirty THEN s.c.slot[j].data # Null
            ELSE s.c.slot[j].data # Null => s.f[s.c.slot[j].bucket] = s.c.slot[j].data
        BY <1>1, <3>1 DEF Marked
      <3> QED BY <1>3, <1>4, <3>1, <3>2
    <2> QED BY <2>1 DEF Marked
  <1>7. ASSUME NEW b \in Buckets
        PROVE  Value(t, b) = Value(s, b)
    <2>1. CASE s.c.slotNr[b] = -1
      BY <1>4, <2>1 DEF Value
    <2>2. CASE s.c.slotNr[b] # -1
      <3>1. s.c.slotNr[b] \in UsedSlots(s.c)
        BY <1>1, <2>2 DEF Linked, Used
      <3> QED BY <1>3, <1>4, <2>2, <3>1 DEF Value
    <2> QED BY <2>1, <2>2
  <1>8. Whole(t)
    BY <1>4, <1>5, <1>6, <1>7 DEF Whole, Consistent
  <1>9. \A b \in Buckets : ContentOf(t, b) = ContentOf(s, b)
    BY <1>4, <1>7 DEF ContentOf
  <1> QED BY <1>8, <1>9

\* The bucket is the actual one, with what is in it.
IsActual(t, b, data) ==
    /\ b < t.c.curNr
    /\ t.c.slotNr[b] = t.c.actual
    /\ t.c.actual \in UsedSlots(t.c)
    /\ t.c.slot[t.c.actual].bucket = b
    /\ t.c.slot[t.c.actual].data = data
    /\ data \in Data

LEMMA ActualIs ==
    ASSUME NEW t, Whole(t), NEW b \in Buckets, b < t.c.curNr, t.c.slotNr[b] = t.c.actual
    PROVE  IsActual(t, b, ContentOf(t, b))
  <1>1. Shaped(t) /\ Linked(t, {}) /\ t.c.actual \in Nat
    BY WholeFields, CacheFields
  <1>2. t.c.slotNr[b] # -1
    BY <1>1
  <1>3. /\ t.c.actual \in UsedSlots(t.c) /\ t.c.slot[t.c.actual].bucket = b
        /\ t.c.slot[t.c.actual].data # Null
    BY <1>1, <1>2 DEF Linked, Used
  <1>4. t.c.slot[t.c.actual] \in SlotValue
    BY <1>1, <1>3, CacheFields
  <1>5. t.c.slot[t.c.actual].data \in Data
    BY <1>3, <1>4, SlotFields
  <1>6. ContentOf(t, b) = t.c.slot[t.c.actual].data
    BY <1>2 DEF ContentOf, Value
  <1> QED BY <1>3, <1>5, <1>6 DEF IsActual

LEMMA CachedBucket ==
    ASSUME NEW s, Whole(s), NEW b \in Buckets, s.c.slotNr[b] >= 0
    PROVE  LET t == SetLRU([s EXCEPT !.c.actual = s.c.slotNr[b]]) IN
           /\ Whole(t) /\ Keeps(s, t) /\ t.c.size = s.c.size
           /\ b < t.c.curNr /\ t.c.slotNr[b] = t.c.actual
           /\ UsedSlots(t.c) = UsedSlots(s.c)
           /\ \A j \in UsedSlots(s.c) : t.c.slot[j].bucket = s.c.slot[j].bucket
  <1> DEFINE i == s.c.slotNr[b]
             m == [s EXCEPT !.c.actual = i]
             t == SetLRU(m)
  <1>1. /\ Shaped(s) /\ Linked(s, {}) /\ Marked(s, {}) /\ s \in StateValue /\ s.c \in CacheValue
        /\ UsedSlots(s.c) \subseteq Slots(s.c)
    BY WholeFields, CacheFields
  <1>2. i # -1
    BY <1>1, CacheFields
  <1>3. i \in UsedSlots(s.c) /\ i \in Nat /\ i < s.c.size
    <2>1. i \in UsedSlots(s.c)
      BY <1>1, <1>2 DEF Linked, Used
    <2> HIDE DEF i
    <2> QED BY <1>1, <2>1, CacheFields DEF UsedSlots
  <1>4. b < s.c.curNr
    BY <1>2 DEF Whole
  <1> HIDE DEF i
  <1>5. /\ m \in StateValue /\ m.f = s.f /\ m.c.slot = s.c.slot /\ m.c.slotNr = s.c.slotNr
        /\ m.c.used = s.c.used /\ m.c.curNr = s.c.curNr /\ m.c.actual = i
        /\ m.c.counter = s.c.counter /\ SameCounts(s, m)
    BY <1>1, <1>3 DEF StateValue, CacheValue, SameCounts
  <1> HIDE DEF m
  <1>6. UsedSlots(m.c) = UsedSlots(s.c) /\ Slots(m.c) = Slots(s.c) /\ Used(m, {}) = Used(s, {})
    BY <1>5 DEF SameCounts, UsedSlots, Slots, Used
  <1>7. Shaped(m)
    BY <1>1, <1>3, <1>5, <1>6 DEF Shaped, SameCounts
  <1>8. Linked(m, {}) /\ Marked(m, {})
    BY <1>1, <1>5, <1>6, SameLinks, SameMarks
  <1>9. \A a \in Buckets : Value(m, a) = Value(s, a)
    BY <1>5 DEF Value
  <1>10. Whole(m)
    BY <1>5, <1>7, <1>8, <1>9 DEF Whole, Consistent, SameCounts
  <1>11. /\ Shaped(t) /\ LooksLike(m, t)
         /\ (\A j \in UsedSlots(m.c) \ {i} : m.c.slot[j].lru <= m.c.counter) /\ i \in UsedSlots(m.c)
            => Aged(t)
    BY <1>5, <1>7, SetLRUIs
  <1> HIDE DEF t
  <1>12. /\ Whole(t) /\ \A a \in Buckets : ContentOf(t, a) = ContentOf(m, a)
    BY <1>10, <1>11, LooksWhole
  <1>13. /\ t.c.slotNr = s.c.slotNr /\ t.c.used = s.c.used /\ t.c.curNr = s.c.curNr
         /\ t.c.actual = i /\ SameCounts(s, t)
    BY <1>5, <1>11 DEF LooksLike, SameCounts
  <1>14. \A a \in Buckets : ContentOf(t, a) = ContentOf(s, a)
    BY <1>5, <1>9, <1>12 DEF ContentOf
  <1>15. Aged(s) => Aged(t)
    BY <1>3, <1>5, <1>6, <1>11 DEF Aged
  <1>16. Keeps(s, t)
    BY <1>12, <1>13, <1>14, <1>15, WholeFields DEF Keeps, SameCounts
  <1>17. \A j \in UsedSlots(s.c) : t.c.slot[j].bucket = s.c.slot[j].bucket
    BY <1>1, <1>5, <1>6, <1>11 DEF LooksLike
  <1>18. UsedSlots(t.c) = UsedSlots(s.c)
    BY <1>13 DEF UsedSlots
  <1> QED BY <1>4, <1>12, <1>13, <1>16, <1>17, <1>18 DEF t, m, i, SameCounts

\* A bucket with its content comes into the cache.
LEMMA TakesOwn ==
    ASSUME NEW s, Whole(s), NEW t, NEW b \in Buckets, b < s.c.curNr,
           ContentOf(s, b) \in Data, Takes(s, t, b, ContentOf(s, b))
    PROVE  Whole(t) /\ Keeps(s, t) /\ t.c.size = s.c.size
  <1>1. /\ Consistent(t, {}) /\ SameCounts(s, t) /\ t.c.curNr = s.c.curNr
        /\ Aged(s) => Aged(t)
    BY DEF Takes
  <1>2. ASSUME NEW a \in Buckets
        PROVE  Value(t, a) = Value(s, a) \/ (a = b /\ Value(t, a) = Value(s, a))
    BY DEF Takes, ContentOf
  <1>3. Whole(t)
    <2>1. t.c.curNr <= t.c.newNr
      BY <1>1 DEF Whole, SameCounts
    <2>2. ASSUME NEW a \in Buckets, ~(a < t.c.curNr)
          PROVE  t.c.slotNr[a] = -1
      <3>1. a # b /\ s.c.slotNr[a] = -1
        BY <1>1, <2>2 DEF Whole
      <3> QED BY <3>1 DEF Takes, KeepsUncached
    <2>3. ASSUME NEW a \in Buckets, a < t.c.curNr
          PROVE  Value(t, a) \in Data \cup Links
      BY <1>1, <1>2, <2>3 DEF Whole
    <2> QED BY <1>1, <2>1, <2>2, <2>3 DEF Whole
  <1>4. \A a \in Buckets : ContentOf(t, a) = ContentOf(s, a)
    BY <1>1, <1>2 DEF ContentOf
  <1> QED BY <1>1, <1>3, <1>4, WholeFields DEF Keeps, SameCounts

LEMMA ReadBucketIs ==
    ASSUME NEW s, Whole(s), NEW b \in Buckets, b < s.c.curNr, s.c.slotNr[b] = -1,
           ContentOf(s, b) \in Data
    PROVE  Takes(s, ReadBucket(s, b), b, ContentOf(s, b))
  <1> DEFINE g == GetSlot(s, b)
             u == Aimed(s)
  <1>1. Consistent(s, {})
    BY WholeFields
  <1>2. g = [u EXCEPT !.c.slot[Place(s)].bucket = b, !.c.slotNr[b] = Place(s)]
    BY <1>1, GetSlotIs
  <1>3. HasRoom(s, u, Place(s))
    BY <1>1, AimedIs
  <1> HIDE DEF u, g
  <1>4. u \in StateValue
    BY <1>3, CacheFields DEF HasRoom, Consistent
  <1>5. g.f = u.f
    BY <1>2, <1>4 DEF StateValue
  <1>6. u.f[b] = s.f[b]
    BY <1>3 DEF HasRoom, KeepsUncached
  <1>7. s.f[b] = ContentOf(s, b)
    BY DEF ContentOf, Value
  <1>8. ReadBucket(s, b) = Fill(s, b, ContentOf(s, b), FALSE)
    BY <1>5, <1>6, <1>7 DEF ReadBucket, Fill, g
  <1>9. Takes(s, Fill(s, b, ContentOf(s, b), FALSE), b, ContentOf(s, b))
    BY <1>1, <1>7, FillIs
  <1> QED BY <1>8, <1>9

LEMMA GetBucketIs ==
    ASSUME NEW s, Whole(s), NEW b \in Buckets, b < s.c.newNr, ContentOf(s, b) \in Data
    PROVE  LET t == GetBucket(s, b) IN
           /\ Whole(t) /\ Keeps(s, t) /\ t.c.size = s.c.size
           /\ IsActual(t, b, ContentOf(s, b))
  <1> DEFINE t == GetBucket(s, b)
  <1>1. s.c.slotNr[b] \in Int /\ (s.c.slotNr[b] # -1 => s.c.slotNr[b] >= 0)
    <2>1. s.c.slotNr[b] \in Int
      BY WholeFields, CacheFields
    <2>2. ASSUME s.c.slotNr[b] # -1
          PROVE  s.c.slotNr[b] \in UsedSlots(s.c)
      BY <2>2, WholeFields DEF Linked, Used
    <2> QED BY <2>1, <2>2 DEF UsedSlots
  <1>2. Whole(t) /\ Keeps(s, t) /\ t.c.size = s.c.size /\ b < t.c.curNr /\ t.c.slotNr[b] = t.c.actual
    <2>1. CASE s.c.slotNr[b] >= 0
      BY <2>1, CachedBucket DEF GetBucket
    <2>2. CASE ~(s.c.slotNr[b] >= 0) /\ b < s.c.curNr
      <3>1. t = ReadBucket(s, b)
        BY <2>2 DEF GetBucket
      <3>2. s.c.slotNr[b] = -1
        BY <1>1, <2>2
      <3>3. Takes(s, ReadBucket(s, b), b, ContentOf(s, b))
        BY <2>2, <3>2, ReadBucketIs
      <3>4. Whole(ReadBucket(s, b)) /\ Keeps(s, ReadBucket(s, b)) /\ ReadBucket(s, b).c.size = s.c.size
        BY <2>2, <3>3, TakesOwn
      <3> QED BY <2>2, <3>1, <3>3, <3>4 DEF Takes
    <2>3. CASE ~(s.c.slotNr[b] >= 0) /\ ~(b < s.c.curNr)
      <3>1. t = InitializeBuckets(s, b)
        BY <2>3 DEF GetBucket
      <3>2. b \in -1 .. (s.c.newNr - 1) /\ b >= s.c.curNr /\ b \in Nat
        BY <2>3, WholeFields, BucketsAre
      <3> HIDE DEF t
      <3> QED BY <3>1, <3>2, InitializeIs
    <2> QED BY <2>1, <2>2, <2>3
  <1> HIDE DEF t
  <1>3. ContentOf(t, b) = ContentOf(s, b)
    BY <1>2 DEF Keeps
  <1> QED BY <1>2, <1>3, ActualIs DEF t

-----------------------------------------------------------------------------
(* flush.                                                                   *)

AllMade(s, from) ==
    IF from = 0 /\ s.c.newNr > 0 THEN InitializeBuckets(s, s.c.newNr - 1) ELSE s
NrWrites(s, from) == IF s.c.used < from THEN 0 ELSE s.c.used - from

WriteRuns(after, n, s, from) ==
    /\ after[0] = s
    /\ \A k \in 1 .. n : after[k] = WriteDirty(after[k - 1], from + k - 1)

LEMMA WriteLoop ==
    ASSUME NEW s, NEW from, NrWrites(AllMade(s, from), from) \in Nat
    PROVE  \E after :
            /\ WriteRuns(after, NrWrites(AllMade(s, from), from), AllMade(s, from), from)
            /\ FlushFrom(s, from) = after[NrWrites(AllMade(s, from), from)]
  <1> DEFINE made == AllMade(s, from)
             n == NrWrites(made, from)
             turns(f, D) == [k \in D |-> IF k = 0 THEN made
                                         ELSE WriteDirty(f[k - 1], from + k - 1)]
             T == {j \in Nat : \E f : f = turns(f, 0 .. j)}
  <1>1. FlushFrom(s, from) = (CHOOSE f : f = turns(f, Nat))[n]
    BY DEF FlushFrom, NrWrites, AllMade
  <1> HIDE DEF n, made
  <1>2. 0 \in T
    <2>1. turns([k \in 0 .. 0 |-> made], 0 .. 0) = [k \in 0 .. 0 |-> made]
      OBVIOUS
    <2> QED BY <2>1
  <1>3. ASSUME NEW j \in Nat, j \in T
        PROVE  j + 1 \in T
    <2>1. PICK f : f = turns(f, 0 .. j)
      BY <1>3
    <2> DEFINE g == turns(f, 0 .. (j + 1))
    <2>2. ASSUME NEW k \in 0 .. j
          PROVE  g[k] = f[k]
      BY <2>1, <2>2
    <2>3. ASSUME NEW k \in 0 .. (j + 1), k # 0
          PROVE  g[k - 1] = f[k - 1]
      <3>1. k - 1 \in 0 .. j
        BY <2>3
      <3> HIDE DEF g
      <3> QED BY <2>2, <3>1
    <2>4. g = turns(g, 0 .. (j + 1))
      <3> DEFINE h == turns(g, 0 .. (j + 1))
      <3>1. \A k \in 0 .. (j + 1) : g[k] = h[k]
        BY <2>3
      <3>2. g = [k \in 0 .. (j + 1) |-> g[k]] /\ h = [k \in 0 .. (j + 1) |-> h[k]]
        OBVIOUS
      <3> HIDE DEF g, h
      <3>3. g = h
        BY <3>1, <3>2
      <3> QED BY <3>3 DEF h
    <2> HIDE DEF g
    <2> QED BY <2>4
  <1> DEFINE upTo(j) == CHOOSE f : f = turns(f, 0 .. j)
  <1>4. ASSUME NEW j \in Nat
        PROVE  /\ upTo(j)[0] = made
               /\ \A k \in 1 .. j : upTo(j)[k] = WriteDirty(upTo(j)[k - 1], from + k - 1)
    <2>1. j \in T
      <3> HIDE DEF T
      <3> QED BY <1>2, <1>3, Induction
    <2>2. upTo(j) = turns(upTo(j), 0 .. j)
      BY <2>1
    <2> HIDE DEF upTo
    <2> QED BY <2>2
  <1> HIDE DEF upTo
  <1>5. ASSUME NEW j \in Nat
        PROVE  \A k \in 0 .. j : upTo(j + 1)[k] = upTo(j)[k]
    <2> DEFINE S == {k \in 0 .. j : upTo(j + 1)[k] = upTo(j)[k]}
    <2>1. 0 \in S
      BY <1>4
    <2>2. ASSUME NEW k \in 1 .. j, k - 1 \in S
          PROVE  k \in S
      <3>1. /\ upTo(j)[k] = WriteDirty(upTo(j)[k - 1], from + k - 1)
            /\ upTo(j + 1)[k] = WriteDirty(upTo(j + 1)[k - 1], from + k - 1)
        BY <1>4
      <3>2. upTo(j + 1)[k - 1] = upTo(j)[k - 1] /\ k \in 0 .. j
        BY <2>2
      <3> QED BY <3>1, <3>2
    <2> HIDE DEF S
    <2>3. \A k \in 0 .. j : k \in S
      BY <2>1, <2>2, TurnInduction
    <2> QED BY <2>3 DEF S
  <1> DEFINE all == [k \in Nat |-> upTo(k)[k]]
             after == CHOOSE f : f = turns(f, Nat)
  <1>6. ASSUME NEW k \in Nat, k # 0
        PROVE  all[k] = WriteDirty(all[k - 1], from + k - 1)
    <2> DEFINE j == k - 1
    <2>1. j \in Nat /\ k = j + 1 /\ j \in 0 .. j /\ k \in 1 .. k
      BY <1>6
    <2>2. all[k] = upTo(k)[k] /\ all[j] = upTo(j)[j]
      BY <2>1
    <2> HIDE DEF all, j
    <2>3. upTo(k)[k] = WriteDirty(upTo(k)[j], from + k - 1)
      BY <1>4, <2>1 DEF j
    <2>4. upTo(k)[j] = upTo(j)[j]
      BY <1>5, <2>1
    <2> QED BY <2>2, <2>3, <2>4 DEF j
  <1>7. all[0] = made
    BY <1>4
  <1>8. all = turns(all, Nat)
    <2>1. all = [k \in Nat |-> all[k]]
      OBVIOUS
    <2> HIDE DEF all
    <2> QED BY <1>6, <1>7, <2>1
  <1> HIDE DEF all
  <1>9. after = turns(after, Nat)
    BY <1>8
  <1> HIDE DEF after
  <1>10. after[0] = made /\ \A k \in 1 .. n : after[k] = WriteDirty(after[k - 1], from + k - 1)
    BY <1>9
  <1> QED BY <1>1, <1>10 DEF WriteRuns, n, made, after

\* Some slots have been written.
Writes(s, t, done) ==
    /\ Whole(t) /\ Keeps(s, t)
    /\ t.c.size = s.c.size /\ t.c.used = s.c.used /\ t.c.curNr = s.c.curNr
    /\ t.c.slotNr = s.c.slotNr
    /\ \A i \in UsedSlots(s.c) :
          t.c.slot[i].bucket = s.c.slot[i].bucket /\ t.c.slot[i].data = s.c.slot[i].data
    /\ \A i \in done : ~t.c.slot[i].dirty

LEMMA WritesOne ==
    ASSUME NEW s, NEW t, NEW done, Whole(s), Writes(s, t, done), done \subseteq UsedSlots(s.c),
           NEW i \in UsedSlots(s.c)
    PROVE  Writes(s, WriteDirty(t, i), done \cup {i})
  <1> DEFINE u == WriteDirty(t, i)
  <1>1. /\ Whole(t) /\ Keeps(s, t) /\ t.c.size = s.c.size /\ t.c.used = s.c.used
        /\ t.c.curNr = s.c.curNr /\ t.c.slotNr = s.c.slotNr
        /\ \A j \in UsedSlots(s.c) :
              t.c.slot[j].bucket = s.c.slot[j].bucket /\ t.c.slot[j].data = s.c.slot[j].data
        /\ \A j \in done : ~t.c.slot[j].dirty
    BY DEF Writes
  <1>2. Consistent(t, {}) /\ UsedSlots(t.c) = UsedSlots(s.c)
    BY <1>1, WholeFields DEF UsedSlots
  <1>3. Written(t, u, i)
    BY <1>2, WriteDirtyIs
  <1> HIDE DEF u
  <1>4. /\ Consistent(u, {}) /\ SameValues(t, u) /\ SameCounts(t, u)
        /\ u.c.used = t.c.used /\ u.c.curNr = t.c.curNr /\ u.c.slotNr = t.c.slotNr
        /\ u.c.counter = t.c.counter /\ ~u.c.slot[i].dirty
    BY <1>3 DEF Written
  <1>5. ASSUME NEW j \in UsedSlots(t.c)
        PROVE  /\ u.c.slot[j].bucket = t.c.slot[j].bucket
               /\ u.c.slot[j].data = t.c.slot[j].data /\ u.c.slot[j].lru = t.c.slot[j].lru
               /\ j # i => u.c.slot[j].dirty = t.c.slot[j].dirty
    <2>1. j \in Slots(t.c)
      BY <1>1, WholeFields, CacheFields
    <2> QED BY <1>3, <2>1 DEF Written
  <1>6. Whole(u)
    BY <1>1, <1>4 DEF Whole, SameValues, SameCounts
  <1>7. UsedSlots(u.c) = UsedSlots(t.c)
    BY <1>4 DEF UsedSlots
  <1>8. Keeps(t, u)
    <2>1. \A b \in Buckets : ContentOf(u, b) = ContentOf(t, b)
      BY <1>4 DEF ContentOf, SameValues
    <2>2. Aged(t) => Aged(u)
      BY <1>4, <1>5, <1>7 DEF Aged
    <2> QED BY <1>1, <1>4, <2>1, <2>2, WholeFields DEF Keeps, SameCounts
  <1>9. Keeps(s, u)
    BY <1>1, <1>6, <1>8, KeepsBoth
  <1>10. \A j \in done \cup {i} : ~u.c.slot[j].dirty
    BY <1>1, <1>2, <1>4, <1>5
  <1>11. u.c.size = s.c.size /\ u.c.used = s.c.used /\ u.c.curNr = s.c.curNr /\ u.c.slotNr = s.c.slotNr
    BY <1>1, <1>4 DEF SameCounts
  <1>12. \A j \in UsedSlots(s.c) :
            u.c.slot[j].bucket = s.c.slot[j].bucket /\ u.c.slot[j].data = s.c.slot[j].data
    BY <1>1, <1>2, <1>5
  <1> QED BY <1>6, <1>9, <1>10, <1>11, <1>12 DEF Writes, u

LEMMA AllMadeIs ==
    ASSUME NEW s, Whole(s), NEW from \in Nat
    PROVE  /\ Whole(AllMade(s, from)) /\ Keeps(s, AllMade(s, from))
           /\ AllMade(s, from).c.size = s.c.size
           /\ from = 0 => AllMade(s, from).c.curNr = AllMade(s, from).c.newNr
           /\ from > 0 \/ s.c.curNr = s.c.newNr => AllMade(s, from) = s
  <1> DEFINE b == s.c.newNr - 1
             t == InitializeBuckets(s, b)
  <1>1. /\ s.c.newNr \in Nat /\ s.c.curNr \in Nat /\ s.c.curNr <= s.c.newNr
        /\ b \in -1 .. (s.c.newNr - 1)
    BY WholeFields
  <1>2. CASE from = 0 /\ s.c.newNr > 0
    <2>1. /\ Whole(t) /\ Keeps(s, t) /\ t.c.size = s.c.size
          /\ b < s.c.curNr => t = s
          /\ b >= s.c.curNr => t.c.curNr = b + 1
      BY <1>1, InitializeIs
    <2>2. AllMade(s, from) = t
      BY <1>2 DEF AllMade
    <2>3. t.c.newNr = s.c.newNr
      BY <2>1 DEF Keeps
    <2> HIDE DEF t
    <2>4. b < s.c.curNr <=> s.c.curNr = s.c.newNr
      BY <1>1
    <2>5. b < s.c.curNr \/ b >= s.c.curNr
      BY <1>1
    <2>6. b + 1 = s.c.newNr
      BY <1>1
    <2> HIDE DEF b
    <2> QED BY <1>2, <2>1, <2>2, <2>3, <2>4, <2>5, <2>6
  <1>3. CASE ~(from = 0 /\ s.c.newNr > 0)
    <2>1. AllMade(s, from) = s
      BY <1>3 DEF AllMade
    <2> QED BY <1>1, <1>3, <2>1, KeepsSame
  <1> QED BY <1>2, <1>3

LEMMA FlushFromIs ==
    ASSUME NEW s, Whole(s), NEW from \in Nat
    PROVE  LET all == AllMade(s, from)
               t == FlushFrom(s, from)
           IN  /\ Writes(all, t, {i \in UsedSlots(all.c) : i >= from})
               /\ Whole(all) /\ Keeps(s, t) /\ t.c.size = s.c.size
               /\ from = 0 => t.c.curNr = t.c.newNr
  <1> DEFINE all == AllMade(s, from)
             n == NrWrites(all, from)
  <1>1. /\ Whole(all) /\ Keeps(s, all) /\ all.c.size = s.c.size
        /\ from = 0 => all.c.curNr = all.c.newNr
    BY AllMadeIs
  <1>2. all.c.used \in Nat /\ n \in Nat /\ (n = 0 \/ from + n = all.c.used)
        /\ (all.c.used < from => n = 0) /\ (all.c.used >= from => from + n = all.c.used)
    <2>1. all.c.used \in Nat
      BY <1>1, WholeFields
    <2> QED BY <2>1 DEF NrWrites
  <1>3. PICK after : WriteRuns(after, n, all, from) /\ FlushFrom(s, from) = after[n]
    BY <1>2, WriteLoop
  <1> HIDE DEF n, all
  <1>4. after[0] = all /\ \A k \in 1 .. n : after[k] = WriteDirty(after[k - 1], from + k - 1)
    BY <1>3 DEF WriteRuns
  <1> DEFINE done(k) == {i \in UsedSlots(all.c) : i >= from /\ i < from + k}
             T == {k \in 0 .. n : Writes(all, after[k], done(k))}
  <1>5. 0 \in T
    <2>1. done(0) = {}
      BY <1>2 DEF UsedSlots
    <2> HIDE DEF done
    <2> QED BY <1>1, <1>2, <1>4, <2>1, KeepsSame DEF Writes
  <1>6. ASSUME NEW k \in 1 .. n, k - 1 \in T
        PROVE  k \in T
    <2> DEFINE i == from + k - 1
    <2>1. i \in UsedSlots(all.c)
      BY <1>2 DEF UsedSlots
    <2>2. done(k - 1) \cup {i} = done(k) /\ done(k - 1) \subseteq UsedSlots(all.c)
      BY <1>2, <2>1 DEF UsedSlots
    <2>3. Writes(all, after[k - 1], done(k - 1)) /\ after[k] = WriteDirty(after[k - 1], i)
      BY <1>4, <1>6
    <2> HIDE DEF i, done
    <2>4. Writes(all, after[k], done(k - 1) \cup {i})
      BY <1>1, <2>1, <2>2, <2>3, WritesOne
    <2>5. Writes(all, after[k], done(k))
      BY <2>2, <2>4
    <2>6. k \in 0 .. n
      BY <1>2
    <2> QED BY <2>5, <2>6
  <1>7. n \in T
    <2> HIDE DEF T
    <2>1. \A k \in 0 .. n : k \in T
      BY <1>2, <1>5, <1>6, TurnInduction
    <2> QED BY <1>2, <2>1
  <1>8. done(n) = {i \in UsedSlots(all.c) : i >= from}
    BY <1>2 DEF UsedSlots
  <1>9. Writes(all, after[n], {i \in UsedSlots(all.c) : i >= from})
    <2>1. Writes(all, after[n], done(n))
      BY <1>7
    <2> HIDE DEF done
    <2> QED BY <1>8, <2>1
  <1>10. Keeps(all, after[n]) /\ Whole(after[n]) /\ after[n].c.size = all.c.size
         /\ after[n].c.curNr = all.c.curNr
    BY <1>9 DEF Writes
  <1>11. Keeps(s, after[n]) /\ after[n].c.newNr = all.c.newNr
    <2>1. after[n].c.newNr = all.c.newNr
      BY <1>10 DEF Keeps
    <2> QED BY <1>1, <1>10, <2>1, KeepsBoth
  <1> QED BY <1>1, <1>3, <1>9, <1>10, <1>11 DEF all

-----------------------------------------------------------------------------
(* clear and resize.                                                        *)

LEMMA ClearFromIs ==
    ASSUME NEW s, Whole(s), NEW from \in Nat, ~Forgets(s.c, from)
    PROVE  LET t == ClearFrom(s, from) IN
           /\ Whole(t) /\ Keeps(s, t) /\ t.c.size = s.c.size
           /\ t.c.used <= from
           /\ from = 0 => t.c.curNr = t.c.newNr
  <1> DEFINE all == AllMade(s, from)
             w == FlushFrom(s, from)
             gone == from .. (w.c.used - 1)
             slot == [i \in DOMAIN w.c.slot |-> IF i \in gone THEN EmptySlot ELSE w.c.slot[i]]
             nrs == [b \in Buckets |-> IF \E i \in gone : w.c.slot[i].bucket = b THEN -1
                                       ELSE w.c.slotNr[b]]
             counter == IF from = 0 THEN 0 ELSE w.c.counter
             used == IF from < w.c.used THEN from ELSE w.c.used
             t == ClearFrom(s, from)
  <1>1. /\ Writes(all, w, {i \in UsedSlots(all.c) : i >= from})
        /\ Whole(all) /\ Keeps(s, w) /\ w.c.size = s.c.size
        /\ from = 0 => w.c.curNr = w.c.newNr
    BY FlushFromIs
  <1>2. t = [w EXCEPT !.c.slot = slot, !.c.slotNr = nrs, !.c.counter = counter, !.c.used = used]
    BY DEF ClearFrom
  <1>3. from > 0 => ~Forgets(w.c, from)
    <2>1. /\ w.c.used = all.c.used /\ w.c.slotNr = all.c.slotNr
          /\ \A i \in UsedSlots(all.c) :
                /\ w.c.slot[i].bucket = all.c.slot[i].bucket
                /\ w.c.slot[i].data = all.c.slot[i].data
      BY <1>1 DEF Writes
    <2>2. from > 0 => all = s
      BY AllMadeIs
    <2>3. \A i \in from .. (w.c.used - 1) : i \in UsedSlots(all.c)
      BY <1>1, <2>1, WholeFields DEF UsedSlots
    <2> HIDE DEF w, all
    <2> QED BY <2>1, <2>2, <2>3 DEF Forgets
  <1>4. /\ Whole(w) /\ Shaped(w) /\ Linked(w, {}) /\ Marked(w, {}) /\ Consistent(w, {})
        /\ w.c.used \in Nat /\ w.c.used <= w.c.size /\ w.c.size \in Nat \ {0}
        /\ w.c.curNr \in Nat /\ w.c.newNr \in Nat
        /\ UsedSlots(w.c) \subseteq Slots(w.c) /\ w \in StateValue /\ w.c \in CacheValue
        /\ w.c.slot \in [Slots(w.c) -> SlotValue] /\ w.c.slotNr \in [Buckets -> Int]
        /\ w.c.counter \in 0 .. MaxLRU
    <2>1. Whole(w)
      BY <1>1 DEF Writes
    <2> HIDE DEF w
    <2> QED BY <2>1, WholeFields, CacheFields
  <1>5. \A i \in gone : i \in UsedSlots(w.c) /\ i >= from /\ ~w.c.slot[i].dirty
    <2>1. UsedSlots(w.c) = UsedSlots(all.c)
      BY <1>1 DEF Writes, UsedSlots
    <2>2. \A i \in UsedSlots(w.c) : i >= from => ~w.c.slot[i].dirty
      BY <1>1, <2>1 DEF Writes
    <2>3. \A i \in gone : i \in UsedSlots(w.c) /\ i >= from
      <3> HIDE DEF w
      <3> QED BY <1>4 DEF UsedSlots
    <2> QED BY <2>2, <2>3
  <1> HIDE DEF w, all
  <1>6. used \in Nat /\ used <= from /\ used <= w.c.used
        /\ \A i \in Nat : i < used <=> i < w.c.used /\ i \notin gone
    BY <1>4
  <1>7. /\ \A i \in 0 .. (used - 1) : i \in UsedSlots(w.c) /\ i \notin gone
        /\ \A i \in UsedSlots(w.c) : i \in gone \/ i \in 0 .. (used - 1)
    <2> HIDE DEF used, gone
    <2> QED BY <1>4, <1>6 DEF UsedSlots
  <1> HIDE DEF gone, used
  <1>8. /\ slot \in [Slots(w.c) -> SlotValue] /\ slot \in SlotsValue
        /\ \A i \in 0 .. (used - 1) : slot[i] = w.c.slot[i]
    <2>1. EmptySlot \in SlotValue
      BY Assumed DEF EmptySlot, SlotValue, Buckets
    <2>2. slot \in [Slots(w.c) -> SlotValue]
      BY <1>4, <2>1
    <2>3. \A i \in 0 .. (used - 1) : slot[i] = w.c.slot[i]
      BY <1>4, <1>7
    <2> HIDE DEF slot
    <2> QED BY <1>4, <2>2, <2>3, SlotsAre
  <1>9. /\ nrs \in [Buckets -> Int]
        /\ \A b \in Buckets : nrs[b] # -1 => nrs[b] = w.c.slotNr[b] /\ nrs[b] \notin gone
    <2>1. ASSUME NEW b \in Buckets, nrs[b] # -1
          PROVE  nrs[b] = w.c.slotNr[b] /\ nrs[b] \notin gone
      <3>1. nrs[b] = w.c.slotNr[b] /\ ~\E i \in gone : w.c.slot[i].bucket = b
        BY <2>1
      <3>2. w.c.slot[w.c.slotNr[b]].bucket = b
        BY <1>4, <2>1, <3>1 DEF Linked
      <3> HIDE DEF nrs
      <3> QED BY <3>1, <3>2
    <2>2. \A b \in Buckets : nrs[b] \in Int
      BY <1>4
    <2>3. nrs \in [Buckets -> Int]
      <3>1. nrs = [b \in Buckets |-> nrs[b]]
        OBVIOUS
      <3> HIDE DEF nrs
      <3> QED BY <2>2, <3>1
    <2> QED BY <2>1, <2>3
  <1>10. ASSUME NEW b \in Buckets, nrs[b] = -1, w.c.slotNr[b] # -1
         PROVE  w.c.slotNr[b] \in gone
    <2>1. w.c.slotNr[b] \in UsedSlots(w.c) /\ w.c.slotNr[b] \in Used(w, {})
      BY <1>4, <1>10 DEF Linked, Used
    <2>2. CASE from = 0
      <3>1. UsedSlots(w.c) \subseteq gone
        BY <1>4, <2>2 DEF gone, UsedSlots
      <3> QED BY <2>1, <3>1
    <2>3. CASE from > 0
      <3>1. PICK i \in gone : w.c.slot[i].bucket = b
        BY <1>10
      <3>2. CASE w.c.slot[i].data # Null
        <4>1. w.c.slotNr[b] = i
          BY <1>4, <1>5, <3>1, <3>2 DEF Linked, Used
        <4> QED BY <4>1
      <3>3. CASE w.c.slot[i].data = Null
        <4>1. w.c.slotNr[b] \notin 0 .. (from - 1)
          BY <1>3, <2>3, <3>1, <3>3 DEF Forgets, gone
        <4> QED BY <1>4, <2>1, <4>1 DEF gone, UsedSlots
      <3> QED BY <3>2, <3>3
    <2> QED BY <2>2, <2>3
  <1>11. counter \in 0 .. MaxLRU /\ (from # 0 => counter = w.c.counter)
    BY <1>4, Assumed
  <1> HIDE DEF slot, nrs, counter
  <1>12. /\ t \in StateValue /\ t.f = w.f /\ t.c.slot = slot /\ t.c.slotNr = nrs
         /\ t.c.used = used /\ t.c.counter = counter /\ t.c.curNr = w.c.curNr
         /\ t.c.actual = w.c.actual /\ SameCounts(w, t)
    <2>1. w \in StateValue /\ w.c \in CacheValue
      BY <1>4
    <2>2. used \in Nat /\ slot \in SlotsValue /\ nrs \in [Buckets -> Int] /\ counter \in 0 .. MaxLRU
      BY <1>6, <1>8, <1>9, <1>11
    <2> DEFINE v == [w EXCEPT !.c.slot = slot, !.c.slotNr = nrs]
    <2>3. t = [v EXCEPT !.c.counter = counter, !.c.used = used]
      BY <1>2
    <2>4. /\ v \in StateValue /\ v.c \in CacheValue
          /\ v.f = w.f /\ v.c.slot = slot /\ v.c.slotNr = nrs
          /\ v.c.curNr = w.c.curNr /\ v.c.actual = w.c.actual /\ SameCounts(w, v)
      BY <2>1, <2>2 DEF StateValue, CacheValue, SameCounts
    <2> HIDE DEF v, t
    <2> QED BY <2>2, <2>3, <2>4 DEF StateValue, CacheValue, SameCounts
  <1> HIDE DEF t
  <1>13. UsedSlots(t.c) = 0 .. (used - 1) /\ Slots(t.c) = Slots(w.c) /\ Used(t, {}) = 0 .. (used - 1)
    BY <1>12 DEF UsedSlots, Slots, SameCounts, Used
  <1>14. Shaped(t)
    <2>1. used <= t.c.size /\ t.c.actual < t.c.size
      BY <1>4, <1>6, <1>12 DEF Shaped, SameCounts
    <2> QED BY <1>8, <1>12, <1>13, <2>1 DEF Shaped
  <1>15. ASSUME NEW i \in Used(t, {})
         PROVE  /\ i \in UsedSlots(w.c) /\ i \in Used(w, {}) /\ i \notin gone
                /\ t.c.slot[i] = w.c.slot[i]
    BY <1>7, <1>8, <1>12, <1>13 DEF Used
  <1>16. Linked(t, {})
    <2>1. ASSUME NEW i \in Used(t, {}), t.c.slot[i].data # Null
          PROVE  t.c.slotNr[t.c.slot[i].bucket] = i
      <3>1. w.c.slotNr[w.c.slot[i].bucket] = i /\ w.c.slot[i].bucket \in Buckets
        <4>1. w.c.slot[i] \in SlotValue
          BY <1>4, <1>15, <2>1
        <4> QED BY <1>4, <1>15, <2>1, <4>1, SlotFields DEF Linked
      <3>2. i # -1 /\ i \notin gone
        BY <1>15, <2>1 DEF UsedSlots
      <3>3. nrs[w.c.slot[i].bucket] # -1
        BY <1>10, <3>1, <3>2
      <3> QED BY <1>9, <1>12, <1>15, <2>1, <3>1, <3>3
    <2>2. ASSUME NEW b \in Buckets, t.c.slotNr[b] # -1
          PROVE  /\ t.c.slotNr[b] \in Used(t, {})
                 /\ t.c.slot[t.c.slotNr[b]].bucket = b
                 /\ t.c.slot[t.c.slotNr[b]].data # Null
      <3>1. t.c.slotNr[b] = w.c.slotNr[b] /\ w.c.slotNr[b] \notin gone
        BY <1>9, <1>12, <2>2
      <3>2. /\ w.c.slotNr[b] \in UsedSlots(w.c) /\ w.c.slot[w.c.slotNr[b]].bucket = b
            /\ w.c.slot[w.c.slotNr[b]].data # Null
        BY <1>4, <2>2, <3>1 DEF Linked, Used
      <3>3. w.c.slotNr[b] \in Used(t, {})
        BY <1>7, <1>13, <3>1, <3>2
      <3> QED BY <1>15, <3>1, <3>2, <3>3
    <2> QED BY <2>1, <2>2 DEF Linked
  <1>17. Marked(t, {})
    BY <1>4, <1>12, <1>15 DEF Marked
  <1>18. ASSUME NEW b \in Buckets
         PROVE  Value(t, b) = Value(w, b)
    <2>1. CASE nrs[b] # -1
      <3>1. nrs[b] = w.c.slotNr[b] /\ nrs[b] \in Used(t, {})
        BY <1>9, <1>12, <1>16, <2>1 DEF Linked
      <3>2. t.c.slot[nrs[b]] = w.c.slot[nrs[b]]
        BY <1>15, <3>1
      <3> QED BY <1>12, <2>1, <3>1, <3>2 DEF Value
    <2>2. CASE nrs[b] = -1 /\ w.c.slotNr[b] = -1
      BY <1>12, <2>2 DEF Value
    <2>3. CASE nrs[b] = -1 /\ w.c.slotNr[b] # -1
      <3> DEFINE i == w.c.slotNr[b]
      <3>1. i \in Used(w, {}) /\ ~w.c.slot[i].dirty
        BY <1>5, <1>10, <2>3 DEF Used
      <3>2. w.c.slot[i].bucket = b /\ w.c.slot[i].data # Null
        BY <1>4, <2>3 DEF Linked
      <3>3. w.f[b] = w.c.slot[i].data
        BY <1>4, <3>1, <3>2 DEF Marked
      <3> QED BY <1>12, <2>3, <3>3 DEF Value
    <2> QED BY <2>1, <2>2, <2>3
  <1>19. Whole(t)
    <2>1. \A b \in Buckets : w.c.slotNr[b] = -1 => t.c.slotNr[b] = -1
      BY <1>9, <1>12
    <2> QED BY <1>4, <1>12, <1>14, <1>16, <1>17, <1>18, <2>1 DEF Whole, Consistent, SameCounts
  <1>20. Keeps(w, t)
    <2>1. \A b \in Buckets : ContentOf(t, b) = ContentOf(w, b)
      BY <1>12, <1>18 DEF ContentOf
    <2>2. Aged(w) => Aged(t)
      <3>1. CASE from = 0
        <4>1. UsedSlots(t.c) = {} /\ ~(t.c.used > 0)
          BY <1>6, <1>12, <1>13, <3>1
        <4> QED BY <4>1 DEF Aged
      <3>2. CASE from # 0
        <4>1. t.c.counter = w.c.counter
          BY <1>11, <1>12, <3>2
        <4>2. t.c.used > 0 => w.c.used > 0
          BY <1>4, <1>6, <1>12
        <4>3. \A i \in UsedSlots(t.c) : i \in UsedSlots(w.c) /\ t.c.slot[i] = w.c.slot[i]
          BY <1>13, <1>15
        <4> QED BY <4>1, <4>2, <4>3 DEF Aged
      <3> QED BY <3>1, <3>2
    <2> QED BY <1>4, <1>12, <2>1, <2>2 DEF Keeps, SameCounts
  <1>21. Keeps(s, t)
    BY <1>1, <1>4, <1>19, <1>20, KeepsBoth
  <1> QED BY <1>1, <1>6, <1>12, <1>19, <1>21 DEF t, SameCounts

LEMMA ResizeToIs ==
    ASSUME NEW s, Whole(s), NEW asked \in Nat, ~Forgets(s.c, asked)
    PROVE  LET t == ResizeTo(s, asked) IN Whole(t) /\ Keeps(s, t)
  <1> DEFINE w == ClearFrom(s, asked)
             size == IF asked = 0 THEN 1 ELSE asked
             slot == [i \in 0 .. (size - 1) |-> IF i < w.c.size THEN w.c.slot[i] ELSE EmptySlot]
             used == IF w.c.used > size THEN size ELSE w.c.used
             t == ResizeTo(s, asked)
  <1>1. Whole(w) /\ Keeps(s, w) /\ w.c.used <= asked
    BY ClearFromIs
  <1>2. t = IF size = w.c.size THEN w
            ELSE [w EXCEPT !.c.slot = slot, !.c.size = size, !.c.used = used, !.c.actual = 0]
    BY DEF ResizeTo
  <1> HIDE DEF w
  <1>3. /\ Shaped(w) /\ Linked(w, {}) /\ Marked(w, {}) /\ w \in StateValue /\ w.c \in CacheValue
        /\ w.c.used \in Nat /\ w.c.used <= w.c.size /\ w.c.size \in Nat \ {0}
        /\ UsedSlots(w.c) \subseteq Slots(w.c) /\ w.c.slot \in [Slots(w.c) -> SlotValue]
    BY <1>1, WholeFields, CacheFields
  <1>4. size \in Nat \ {0} /\ used = w.c.used /\ w.c.used <= size
    BY <1>1, <1>3
  <1>5. CASE size = w.c.size
    BY <1>1, <1>2, <1>5
  <1>6. CASE size # w.c.size
    <2>1. /\ slot \in [0 .. (size - 1) -> SlotValue] /\ slot \in SlotsValue
          /\ \A i \in UsedSlots(w.c) : slot[i] = w.c.slot[i]
      <3>1. EmptySlot \in SlotValue
        BY Assumed DEF EmptySlot, SlotValue, Buckets
      <3>2. \A i \in 0 .. (size - 1) : i < w.c.size => i \in Slots(w.c)
        BY <1>3 DEF Slots
      <3>3. slot \in [0 .. (size - 1) -> SlotValue]
        BY <1>3, <3>1, <3>2
      <3>4. slot \in SlotsValue
        <4> HIDE DEF slot
        <4> QED BY <1>4, <3>3 DEF SlotsValue
      <3>5. \A i \in UsedSlots(w.c) : i \in 0 .. (size - 1) /\ i < w.c.size
        BY <1>3, <1>4 DEF UsedSlots
      <3> QED BY <3>3, <3>4, <3>5
    <2> HIDE DEF slot, used, size
    <2> DEFINE v == [w EXCEPT !.c.slot = slot, !.c.size = size]
    <2>2. t = [v EXCEPT !.c.used = used, !.c.actual = 0]
      BY <1>2, <1>6
    <2>3. /\ v \in StateValue /\ v.c \in CacheValue /\ v.f = w.f /\ v.c.slot = slot
          /\ v.c.size = size /\ v.c.slotNr = w.c.slotNr /\ v.c.curNr = w.c.curNr
          /\ v.c.newNr = w.c.newNr /\ v.c.counter = w.c.counter
          /\ v.c.nrFree = w.c.nrFree /\ v.c.firstFree = w.c.firstFree
      BY <1>3, <1>4, <2>1 DEF StateValue, CacheValue
    <2> HIDE DEF v, t
    <2>4. /\ t \in StateValue /\ t.f = w.f /\ t.c.slot = slot /\ t.c.size = size
          /\ t.c.used = w.c.used /\ t.c.actual = 0 /\ t.c.slotNr = w.c.slotNr
          /\ t.c.curNr = w.c.curNr /\ t.c.newNr = w.c.newNr /\ t.c.counter = w.c.counter
          /\ t.c.nrFree = w.c.nrFree /\ t.c.firstFree = w.c.firstFree
      <3>1. used \in Nat /\ used = w.c.used /\ 0 \in Nat
        BY <1>3, <1>4
      <3> QED BY <2>2, <2>3, <3>1 DEF StateValue, CacheValue
    <2>5. UsedSlots(t.c) = UsedSlots(w.c) /\ Used(t, {}) = Used(w, {}) /\ Slots(t.c) = 0 .. (size - 1)
      BY <2>4 DEF UsedSlots, Used, Slots
    <2>6. Shaped(t)
      BY <1>4, <2>1, <2>4, <2>5 DEF Shaped
    <2>7. \A i \in UsedSlots(w.c) : t.c.slot[i] = w.c.slot[i]
      BY <2>1, <2>4
    <2>8. Linked(t, {}) /\ Marked(t, {})
      <3>1. \A i \in Used(w, {}) : t.c.slot[i] = w.c.slot[i]
        BY <2>7 DEF Used
      <3> QED BY <1>3, <2>4, <2>5, <3>1, SameLinks, SameMarks
    <2>9. ASSUME NEW b \in Buckets
          PROVE  Value(t, b) = Value(w, b)
      <3>1. w.c.slotNr[b] # -1 => w.c.slotNr[b] \in UsedSlots(w.c)
        BY <1>3 DEF Linked, Used
      <3> QED BY <2>4, <2>7, <3>1 DEF Value
    <2>10. Whole(t)
      BY <1>1, <2>4, <2>6, <2>8, <2>9 DEF Whole, Consistent
    <2>11. Keeps(w, t)
      <3>1. \A b \in Buckets : ContentOf(t, b) = ContentOf(w, b)
        BY <2>4, <2>9 DEF ContentOf
      <3>2. Aged(w) => Aged(t)
        BY <2>4, <2>5, <2>7 DEF Aged
      <3> QED BY <1>1, <2>4, <3>1, <3>2, WholeFields DEF Keeps
    <2> QED BY <1>1, <2>10, <2>11, KeepsBoth DEF t
  <1> QED BY <1>5, <1>6

-----------------------------------------------------------------------------
(* The free list.                                                           *)

Nth(q, n, k) == IF k <= n THEN q[k] ELSE NoBucket

\* q has the free buckets, as their links in the file give them.
IsFreeList(q, s) ==
    /\ s.c.nrFree \in Nat
    /\ q \in [1 .. s.c.nrFree -> Buckets]
    /\ \A j, k \in 1 .. s.c.nrFree : q[j] = q[k] => j = k
    /\ s.c.firstFree = Nth(q, s.c.nrFree, 1)
    /\ \A k \in 1 .. s.c.nrFree :
          /\ q[k] < s.c.curNr
          /\ ContentOf(s, q[k]) = Link(Nth(q, s.c.nrFree, k + 1))

LEMMA LinkIs ==
    ASSUME NEW b \in Buckets \cup {NoBucket}
    PROVE  Link(b) \in Links /\ Link(b)[1] = b /\ Link(b) \notin Data
  BY Assumed DEF Link, Links

LEMMA NthIs ==
    ASSUME NEW n \in Nat, NEW q \in [1 .. n -> Buckets], NEW k \in Nat \ {0}
    PROVE  Nth(q, n, k) \in Buckets \cup {NoBucket}
  BY DEF Nth

\* A free bucket is not in the cache, but its link is in the file.
LEMMA FreeInFile ==
    ASSUME NEW s, Whole(s), NEW b \in Buckets, b < s.c.curNr, ContentOf(s, b) \notin Data
    PROVE  s.c.slotNr[b] = -1 /\ s.f[b] = ContentOf(s, b)
  <1>1. ASSUME s.c.slotNr[b] # -1
        PROVE  FALSE
    <2> DEFINE i == s.c.slotNr[b]
    <2>1. i \in Used(s, {}) /\ s.c.slot[i].data # Null
      BY <1>1, WholeFields DEF Linked
    <2>2. s.c.slot[i] \in SlotValue
      BY <2>1, WholeFields, CacheFields DEF Used
    <2>3. s.c.slot[i].data \in Data
      BY <2>1, <2>2, SlotFields
    <2> QED BY <1>1, <2>3 DEF ContentOf, Value
  <1> QED BY <1>1 DEF ContentOf, Value

LEMMA FreeListKept ==
    ASSUME NEW s, NEW t, NEW q, Whole(s), Whole(t), IsFreeList(q, s),
           t.c.nrFree = s.c.nrFree, t.c.firstFree = s.c.firstFree, s.c.curNr <= t.c.curNr,
           \A k \in 1 .. s.c.nrFree : ContentOf(t, q[k]) = ContentOf(s, q[k])
    PROVE  IsFreeList(q, t)
  <1>1. s.c.curNr \in Nat /\ t.c.curNr \in Nat
    BY WholeFields
  <1>2. ASSUME NEW k \in 1 .. s.c.nrFree
        PROVE  q[k] < t.c.curNr
    <2>1. q[k] \in Buckets /\ q[k] < s.c.curNr
      BY DEF IsFreeList
    <2> QED BY <1>1, <2>1, BucketsAre
  <1> QED BY <1>2 DEF IsFreeList

-----------------------------------------------------------------------------
(* addBucket, removeBucket, extend.                                         *)

\* Only the numbers of buckets and the head of the free list differ.
SameSlots(s, t) ==
    /\ t \in StateValue /\ t.f = s.f /\ t.c.slot = s.c.slot /\ t.c.slotNr = s.c.slotNr
    /\ t.c.size = s.c.size /\ t.c.used = s.c.used /\ t.c.actual = s.c.actual
    /\ t.c.counter = s.c.counter

LEMMA SameSlotsIs ==
    ASSUME NEW s, NEW t, Consistent(s, {}), SameSlots(s, t)
    PROVE  /\ Consistent(t, {})
           /\ \A b \in Buckets : Value(t, b) = Value(s, b)
           /\ Aged(s) => Aged(t)
  <1>1. Shaped(s) /\ Linked(s, {}) /\ Marked(s, {})
    BY DEF Consistent
  <1>2. UsedSlots(t.c) = UsedSlots(s.c) /\ Slots(t.c) = Slots(s.c) /\ Used(t, {}) = Used(s, {})
    BY DEF SameSlots, UsedSlots, Slots, Used
  <1>3. Shaped(t)
    BY <1>1, <1>2 DEF SameSlots, Shaped
  <1>4. Linked(t, {}) /\ Marked(t, {})
    BY <1>1, <1>2, SameLinks, SameMarks DEF SameSlots
  <1>5. \A b \in Buckets : Value(t, b) = Value(s, b)
    BY DEF SameSlots, Value
  <1>6. Aged(s) => Aged(t)
    BY <1>2 DEF SameSlots, Aged
  <1> QED BY <1>3, <1>4, <1>5, <1>6 DEF Consistent

\* One bucket has another content.
Changes(s, t, b, content) ==
    /\ Whole(t)
    /\ ContentOf(t, b) = content
    /\ \A a \in Buckets \ {b} : ContentOf(t, a) = ContentOf(s, a)
    /\ s.c.curNr <= t.c.curNr
    /\ Aged(s) => Aged(t)

LEMMA FillChanges ==
    ASSUME NEW s, NEW t, NEW b \in Buckets, NEW data \in Data, Takes(s, t, b, data),
           Consistent(s, {}), s.c.curNr <= s.c.newNr, b < s.c.curNr,
           \A a \in Buckets \ {b} : IF a < s.c.curNr THEN Value(s, a) \in Data \cup Links
                                    ELSE s.c.slotNr[a] = -1
    PROVE  Changes(s, t, b, data)
  <1>1. /\ Consistent(t, {}) /\ SameCounts(s, t) /\ t.c.curNr = s.c.curNr
        /\ Value(t, b) = data /\ (Aged(s) => Aged(t))
        /\ \A a \in Buckets \ {b} : Value(t, a) = Value(s, a)
        /\ KeepsUncached(s, t, {b})
    BY DEF Takes
  <1>2. ASSUME NEW a \in Buckets
        PROVE  IF a < t.c.curNr THEN Value(t, a) \in Data \cup Links ELSE t.c.slotNr[a] = -1
    <2>1. CASE a = b
      BY <1>1, <2>1
    <2>2. CASE a # b
      BY <1>1, <2>2 DEF KeepsUncached
    <2> QED BY <2>1, <2>2
  <1>3. Whole(t)
    BY <1>1, <1>2 DEF Whole, SameCounts
  <1>4. ContentOf(t, b) = data /\ \A a \in Buckets \ {b} : ContentOf(t, a) = ContentOf(s, a)
    BY <1>1 DEF ContentOf
  <1>5. s.c.curNr <= t.c.curNr
    BY <1>1, <1>3, WholeFields
  <1> QED BY <1>1, <1>3, <1>4, <1>5 DEF Changes

\* The list without the bucket in front.
After(q, n) == [k \in 1 .. (n - 1) |-> q[k + 1]]

LEMMA FreeListShorter ==
    ASSUME NEW s, NEW t, NEW q, Whole(s), Whole(t), IsFreeList(q, s), s.c.nrFree > 0,
           s.c.curNr <= t.c.curNr, t.c.nrFree = s.c.nrFree - 1,
           t.c.firstFree = Nth(q, s.c.nrFree, 2),
           \A a \in Buckets \ {q[1]} : ContentOf(t, a) = ContentOf(s, a)
    PROVE  IsFreeList(After(q, s.c.nrFree), t)
  <1> DEFINE n == s.c.nrFree
             rest == After(q, n)
  <1>1. n \in Nat /\ q \in [1 .. n -> Buckets] /\ n > 0
    BY DEF IsFreeList
  <1>2. \A k \in 1 .. (n - 1) : k + 1 \in 1 .. n /\ k + 1 # 1 /\ rest[k] = q[k + 1]
    BY <1>1 DEF After
  <1>3. n - 1 \in Nat /\ rest \in [1 .. (n - 1) -> Buckets]
    BY <1>1, <1>2 DEF After
  <1> HIDE DEF rest
  <1>4. ASSUME NEW j \in 1 .. (n - 1), NEW k \in 1 .. (n - 1), rest[j] = rest[k]
        PROVE  j = k
    BY <1>2, <1>4 DEF IsFreeList
  <1>5. ASSUME NEW k \in Nat, k > 0
        PROVE  Nth(rest, n - 1, k) = Nth(q, n, k + 1)
    <2>1. k <= n - 1 <=> k + 1 <= n
      BY <1>1
    <2>2. k <= n - 1 => k \in 1 .. (n - 1)
      BY <1>1, <1>5
    <2> QED BY <1>2, <2>1, <2>2 DEF Nth
  <1>6. t.c.firstFree = Nth(rest, n - 1, 1)
    <2>1. Nth(rest, n - 1, 1) = Nth(q, n, 1 + 1)
      BY <1>5
    <2> QED BY <2>1
  <1>7. ASSUME NEW k \in 1 .. (n - 1)
        PROVE  rest[k] < t.c.curNr /\ ContentOf(t, rest[k]) = Link(Nth(rest, n - 1, k + 1))
    <2>1. k + 1 \in 1 .. n /\ rest[k] = q[k + 1] /\ q[k + 1] # q[1] /\ q[k + 1] \in Buckets
      <3>1. 1 \in 1 .. n
        BY <1>1
      <3> QED BY <1>1, <1>2, <3>1 DEF IsFreeList
    <2>2. q[k + 1] < s.c.curNr /\ ContentOf(s, q[k + 1]) = Link(Nth(q, n, k + 2))
      <3>1. (k + 1) + 1 = k + 2
        OBVIOUS
      <3> QED BY <2>1, <3>1 DEF IsFreeList
    <2>3. Nth(rest, n - 1, k + 1) = Nth(q, n, k + 2)
      <3>1. k + 1 \in Nat /\ k + 1 > 0 /\ (k + 1) + 1 = k + 2
        OBVIOUS
      <3> QED BY <1>5, <3>1
    <2>4. q[k + 1] < t.c.curNr
      <3>1. t.c.curNr \in Nat /\ s.c.curNr \in Nat
        BY WholeFields
      <3> QED BY <2>1, <2>2, <3>1, BucketsAre
    <2> QED BY <2>1, <2>2, <2>3, <2>4
  <1> QED BY <1>3, <1>4, <1>6, <1>7 DEF IsFreeList, rest

\* The bucket in front, and the one its link tells of.
LEMMA FirstFreeIs ==
    ASSUME NEW s, Whole(s), NEW q, IsFreeList(q, s), s.c.firstFree >= 0
    PROVE  /\ s.c.nrFree \in Nat /\ s.c.nrFree > 0
           /\ s.c.firstFree = q[1] /\ s.c.firstFree \in Buckets
           /\ s.c.firstFree < s.c.curNr /\ s.c.firstFree < s.c.newNr
           /\ s.c.slotNr[s.c.firstFree] = -1
           /\ s.f[s.c.firstFree][1] = Nth(q, s.c.nrFree, 2)
           /\ Nth(q, s.c.nrFree, 2) \in Buckets \cup {NoBucket}
  <1> DEFINE b == s.c.firstFree
             n == s.c.nrFree
             next == Nth(q, n, 2)
  <1>1. n \in Nat /\ q \in [1 .. n -> Buckets] /\ b = Nth(q, n, 1)
    BY DEF IsFreeList
  <1>2. n > 0 /\ b = q[1] /\ b \in Buckets
    <2>1. 1 <= n
      <3>1. ~(b = -1)
        BY DEF NoBucket
      <3> QED BY <1>1, <3>1 DEF Nth, NoBucket
    <2> QED BY <1>1, <2>1 DEF Nth
  <1>3. /\ b < s.c.curNr /\ ContentOf(s, b) = Link(next) /\ next \in Buckets \cup {NoBucket}
    <2>1. 1 \in 1 .. n
      BY <1>1, <1>2
    <2>2. next \in Buckets \cup {NoBucket}
      BY <1>1, NthIs
    <2> QED BY <1>2, <2>1, <2>2 DEF IsFreeList
  <1>4. s.c.slotNr[b] = -1 /\ s.f[b][1] = next
    BY <1>2, <1>3, LinkIs, FreeInFile
  <1>5. b < s.c.newNr
    BY <1>2, <1>3, WholeFields, BucketsAre
  <1> QED BY <1>1, <1>2, <1>3, <1>4, <1>5

LEMMA NoneFree ==
    ASSUME NEW s, NEW q, IsFreeList(q, s), ~(s.c.firstFree >= 0)
    PROVE  s.c.nrFree = 0 /\ s.c.firstFree = NoBucket
  <1>1. s.c.nrFree \in Nat /\ q \in [1 .. s.c.nrFree -> Buckets] /\ s.c.firstFree = Nth(q, s.c.nrFree, 1)
    BY DEF IsFreeList
  <1>2. ~(1 <= s.c.nrFree)
    <2>1. ASSUME 1 <= s.c.nrFree PROVE FALSE
      <3>1. s.c.firstFree = q[1] /\ q[1] \in Buckets
        BY <1>1, <2>1 DEF Nth
      <3> QED BY <3>1, BucketsAre
    <2> QED BY <2>1
  <1> QED BY <1>1, <1>2 DEF Nth

LEMMA AddFromFreeList ==
    ASSUME NEW s, Whole(s), NEW q, IsFreeList(q, s), s.c.firstFree >= 0, NEW data \in Data
    PROVE  LET t == AddBucket(s, data)
               b == s.c.firstFree
               n == s.c.nrFree
           IN  /\ n > 0 /\ b \in Buckets /\ b = q[1] /\ b < s.c.newNr
               /\ Changes(s, t, b, data)
               /\ t.c.newNr = s.c.newNr /\ t.c.nrFree = n - 1
               /\ IsFreeList(After(q, n), t)
  <1> DEFINE b == s.c.firstFree
             n == s.c.nrFree
             next == Nth(q, n, 2)
             m == [s EXCEPT !.c.firstFree = s.f[b][1], !.c.nrFree = @ - 1]
             t == AddBucket(s, data)
  <1>1. /\ n \in Nat /\ n > 0 /\ b = q[1] /\ b \in Buckets /\ b < s.c.newNr
        /\ b < s.c.curNr /\ s.c.slotNr[b] = -1 /\ s.f[b][1] = next
        /\ next \in Buckets \cup {NoBucket}
    BY FirstFreeIs
  <1> HIDE DEF next
  <1>2. SameSlots(s, m) /\ m.c.firstFree = next /\ m.c.nrFree = n - 1
        /\ m.c.newNr = s.c.newNr /\ m.c.curNr = s.c.curNr
    <2>1. s \in StateValue /\ s.c \in CacheValue
      BY WholeFields, CacheFields
    <2>2. n - 1 \in Int
      BY <1>1
    <2> QED BY <1>1, <2>1, <2>2 DEF SameSlots, StateValue, CacheValue
  <1>3. t = Fill(m, b, data, TRUE)
    BY DEF AddBucket
  <1> HIDE DEF m, t
  <1>4. /\ Consistent(m, {}) /\ \A a \in Buckets : Value(m, a) = Value(s, a)
        /\ Aged(s) => Aged(m)
    BY <1>2, SameSlotsIs, WholeFields
  <1>5. Takes(m, t, b, data)
    <2>1. m.c.slotNr[b] = -1
      BY <1>1, <1>2 DEF SameSlots
    <2> QED BY <1>1, <1>3, <1>4, <2>1, FillIs
  <1>6. Changes(m, t, b, data)
    <2>1. \A a \in Buckets : m.c.slotNr[a] = s.c.slotNr[a]
      BY <1>2 DEF SameSlots
    <2>2. \A a \in Buckets : IF a < m.c.curNr THEN Value(m, a) \in Data \cup Links
                             ELSE m.c.slotNr[a] = -1
      BY <1>2, <1>4, <2>1 DEF Whole
    <2> QED BY <1>1, <1>2, <1>4, <1>5, <2>2, WholeFields, FillChanges
  <1>7. \A a \in Buckets : ContentOf(m, a) = ContentOf(s, a)
    BY <1>2, <1>4 DEF ContentOf
  <1>8. Changes(s, t, b, data)
    BY <1>2, <1>4, <1>6, <1>7 DEF Changes
  <1>9. t.c.newNr = s.c.newNr /\ t.c.nrFree = n - 1 /\ t.c.firstFree = next
    BY <1>2, <1>5 DEF Takes, SameCounts
  <1>10. IsFreeList(After(q, n), t)
    <2>1. Whole(t) /\ s.c.curNr <= t.c.curNr
          /\ \A a \in Buckets \ {q[1]} : ContentOf(t, a) = ContentOf(s, a)
      <3> HIDE DEF b
      <3> QED BY <1>1, <1>8 DEF Changes
    <2> QED BY <1>1, <1>9, <2>1, FreeListShorter DEF next
  <1> QED BY <1>1, <1>8, <1>9, <1>10 DEF t

LEMMA AddAtEndIs ==
    ASSUME NEW s, Whole(s), NEW q, IsFreeList(q, s), ~(s.c.firstFree >= 0),
           s.c.newNr < MaxBuckets, NEW data \in Data
    PROVE  LET t == AddBucket(s, data)
               b == s.c.newNr
           IN  /\ b \in Buckets /\ s.c.nrFree = 0 /\ s.c.firstFree = NoBucket
               /\ Changes(s, t, b, data)
               /\ t.c.newNr = s.c.newNr + 1 /\ t.c.nrFree = 0 /\ t.c.firstFree = NoBucket
  <1> DEFINE b == s.c.newNr
             full == InitializeBuckets(s, s.c.newNr - 1)
             m == [full EXCEPT !.c.newNr = @ + 1, !.c.curNr = @ + 1]
             t == AddBucket(s, data)
  <1>1. s.c.nrFree = 0 /\ s.c.firstFree = NoBucket
    BY NoneFree
  <1>2. /\ b \in Nat /\ b \in Buckets /\ s.c.curNr \in Nat /\ s.c.curNr <= b
        /\ b - 1 \in -1 .. (b - 1)
    BY WholeFields, Assumed DEF Buckets
  <1>3. /\ Whole(full) /\ Keeps(s, full) /\ full.c.size = s.c.size
        /\ full.c.curNr = b /\ full.c.newNr = b
    <2> DEFINE c == b - 1
    <2>1. c \in -1 .. (s.c.newNr - 1)
      BY <1>2
    <2>2. /\ Whole(full) /\ Keeps(s, full) /\ full.c.size = s.c.size
          /\ c < s.c.curNr => full = s
          /\ c >= s.c.curNr => full.c.curNr = c + 1
      <3> HIDE DEF c
      <3> QED BY <2>1, InitializeIs DEF c
    <2>3. full.c.newNr = b
      BY <2>2 DEF Keeps
    <2> HIDE DEF full
    <2> QED BY <1>2, <2>2, <2>3
  <1>4. t = Fill(m, b, data, TRUE)
    <2>1. b = s.c.newNr
      OBVIOUS
    <2> QED BY DEF AddBucket
  <1> HIDE DEF full
  <1>5. SameSlots(full, m) /\ m.c.newNr = b + 1 /\ m.c.curNr = b + 1
        /\ m.c.nrFree = 0 /\ m.c.firstFree = NoBucket
    <2>1. full \in StateValue /\ full.c \in CacheValue
      BY <1>3, WholeFields, CacheFields
    <2>2. full.c.nrFree = 0 /\ full.c.firstFree = NoBucket
      BY <1>1, <1>3 DEF Keeps
    <2>3. b + 1 \in 0 .. MaxBuckets
      BY <1>2, Assumed
    <2> HIDE DEF b
    <2> QED BY <1>3, <2>1, <2>2, <2>3 DEF SameSlots, StateValue, CacheValue
  <1> HIDE DEF m, t
  <1>6. /\ Consistent(m, {}) /\ \A a \in Buckets : Value(m, a) = Value(full, a)
        /\ Aged(full) => Aged(m)
    BY <1>3, <1>5, SameSlotsIs, WholeFields
  <1>7. full.c.slotNr[b] = -1 /\ \A a \in Buckets : m.c.slotNr[a] = full.c.slotNr[a]
    BY <1>2, <1>3, <1>5 DEF SameSlots, Whole
  <1>8. Takes(m, t, b, data)
    BY <1>2, <1>4, <1>6, <1>7, FillIs
  <1>9. \A a \in Buckets \ {b} : a < m.c.curNr <=> a < full.c.curNr
    BY <1>2, <1>3, <1>5, BucketsAre
  <1>10. Changes(m, t, b, data)
    <2>1. \A a \in Buckets \ {b} : IF a < m.c.curNr THEN Value(m, a) \in Data \cup Links
                                   ELSE m.c.slotNr[a] = -1
      BY <1>3, <1>6, <1>7, <1>9 DEF Whole
    <2>2. m.c.curNr <= m.c.newNr /\ b < m.c.curNr
      BY <1>2, <1>5
    <2> QED BY <1>2, <1>6, <1>8, <2>1, <2>2, FillChanges
  <1>11. \A a \in Buckets \ {b} : ContentOf(t, a) = ContentOf(s, a)
    <2>1. \A a \in Buckets \ {b} : ContentOf(m, a) = ContentOf(full, a)
      BY <1>6, <1>9 DEF ContentOf
    <2> QED BY <1>3, <1>10, <2>1 DEF Changes, Keeps
  <1>12. s.c.curNr <= t.c.curNr
    <2>1. m.c.curNr <= t.c.curNr /\ t.c.curNr \in Nat
      BY <1>10, WholeFields DEF Changes
    <2> QED BY <1>2, <1>5, <2>1
  <1>13. Changes(s, t, b, data)
    BY <1>3, <1>6, <1>10, <1>11, <1>12 DEF Changes, Keeps
  <1>14. t.c.newNr = b + 1 /\ t.c.nrFree = 0 /\ t.c.firstFree = NoBucket
    BY <1>5, <1>8 DEF Takes, SameCounts
  <1> QED BY <1>1, <1>2, <1>13, <1>14 DEF t

-----------------------------------------------------------------------------
(* An update of the actual bucket, and its removal.                         *)

\* The actual slot gets other contents, and nothing else is changed in the cache.
Replaced(s, t, b, x) ==
    /\ Shaped(t) /\ UsedSlots(t.c) = UsedSlots(s.c)
    /\ t.c.slot[s.c.actual] = x
    /\ \A j \in UsedSlots(s.c) : j # s.c.actual =>
          /\ t.c.slot[j] = s.c.slot[j]
          /\ s.c.slot[j].data # Null =>
                s.c.slot[j].bucket # b /\ s.c.slot[j].bucket \in Buckets
    /\ \A a \in Buckets : a # b /\ s.c.slotNr[a] # -1 =>
          s.c.slotNr[a] \in UsedSlots(s.c) /\ s.c.slotNr[a] # s.c.actual

LEMMA OtherSlots ==
    ASSUME NEW s, Whole(s), NEW b \in Buckets, NEW old, IsActual(s, b, old),
           NEW t \in StateValue, NEW x \in SlotValue,
           t.c.slot = [s.c.slot EXCEPT ![s.c.actual] = x],
           t.c.size = s.c.size, t.c.used = s.c.used, t.c.actual < t.c.size
    PROVE  Replaced(s, t, b, x)
  <1> DEFINE i == s.c.actual
  <1>1. /\ Shaped(s) /\ Linked(s, {}) /\ UsedSlots(s.c) \subseteq Slots(s.c)
        /\ s.c.slot \in [Slots(s.c) -> SlotValue] /\ s.c.used <= s.c.size
        /\ i \in UsedSlots(s.c) /\ s.c.slotNr[b] = i /\ s.c.slot[i].bucket = b
    BY WholeFields, CacheFields DEF IsActual
  <1>2. UsedSlots(t.c) = UsedSlots(s.c) /\ Slots(t.c) = Slots(s.c)
    BY DEF UsedSlots, Slots
  <1>3. t.c.slot \in [Slots(s.c) -> SlotValue] /\ t.c.slot[i] = x
        /\ \A j \in Slots(s.c) : j # i => t.c.slot[j] = s.c.slot[j]
    <2>1. i \in Slots(s.c)
      BY <1>1
    <2> HIDE DEF i
    <2> QED BY <1>1, <2>1 DEF i
  <1>4. Shaped(t)
    BY <1>1, <1>2, <1>3 DEF Shaped
  <1>5. ASSUME NEW j \in UsedSlots(s.c), j # i, s.c.slot[j].data # Null
        PROVE  s.c.slot[j].bucket # b /\ s.c.slot[j].bucket \in Buckets
    <2>1. s.c.slotNr[s.c.slot[j].bucket] = j
      BY <1>1, <1>5 DEF Linked, Used
    <2>2. s.c.slot[j] \in SlotValue
      BY <1>1
    <2> QED BY <1>1, <1>5, <2>1, <2>2, SlotFields
  <1>6. ASSUME NEW a \in Buckets, a # b, s.c.slotNr[a] # -1
        PROVE  s.c.slotNr[a] \in UsedSlots(s.c) /\ s.c.slotNr[a] # i
    BY <1>1, <1>6 DEF Linked, Used
  <1> QED BY <1>1, <1>2, <1>3, <1>4, <1>5, <1>6 DEF Replaced

\* An update of the buffer, and setDirty.
Updated(s, data) == [SetDirty(s) EXCEPT !.c.slot[SetDirty(s).c.actual].data = data]

LEMMA UpdatedIs ==
    ASSUME NEW s, Whole(s), NEW b \in Buckets, NEW old, IsActual(s, b, old), NEW data \in Data
    PROVE  LET t == Updated(s, data) IN
           /\ Changes(s, t, b, data)
           /\ t.c.newNr = s.c.newNr /\ t.c.nrFree = s.c.nrFree /\ t.c.firstFree = s.c.firstFree
  <1> DEFINE i == s.c.actual
             d == SetDirty(s)
             y == [s.c.slot[i] EXCEPT !.dirty = TRUE]
             x == [y EXCEPT !.data = data]
             slot == [s.c.slot EXCEPT ![i] = x]
             t == Updated(s, data)
  <1>1. /\ s \in StateValue /\ s.c \in CacheValue /\ Shaped(s) /\ Linked(s, {}) /\ Marked(s, {})
        /\ s.c.slot \in [Slots(s.c) -> SlotValue] /\ i \in Slots(s.c) /\ s.c.curNr \in Nat
        /\ b < s.c.curNr /\ s.c.slotNr[b] = i /\ i \in UsedSlots(s.c) /\ i \in Nat
        /\ s.c.slot[i].bucket = b /\ s.c.slotNr[b] # -1
    BY WholeFields, CacheFields DEF IsActual
  <1>2. y \in SlotValue /\ y.bucket = b /\ y.dirty /\ y.lru = s.c.slot[i].lru
    <2>1. s.c.slot[i] \in SlotValue
      BY <1>1
    <2> QED BY <1>1, <2>1 DEF SlotValue
  <1>3. /\ x \in SlotValue /\ x.bucket = b /\ x.data = data /\ x.dirty
        /\ x.lru = s.c.slot[i].lru
    <2> HIDE DEF y
    <2> QED BY <1>2 DEF SlotValue
  <1>4. d = [s EXCEPT !.c.slot = [s.c.slot EXCEPT ![i] = y]]
    BY <1>1 DEF SetDirty, StateValue, CacheValue
  <1> HIDE DEF y, d
  <1>5. slot \in SlotsValue /\ [s.c.slot EXCEPT ![i] = y] \in SlotsValue
    <2>1. slot \in [Slots(s.c) -> SlotValue] /\ [s.c.slot EXCEPT ![i] = y] \in [Slots(s.c) -> SlotValue]
      BY <1>1, <1>2, <1>3
    <2> HIDE DEF slot
    <2> QED BY <1>1, <2>1, SlotsAre
  <1>6. /\ d \in StateValue /\ d.f = s.f /\ d.c.slot = [s.c.slot EXCEPT ![i] = y]
        /\ d.c.slotNr = s.c.slotNr /\ d.c.size = s.c.size /\ d.c.used = s.c.used
        /\ d.c.actual = i /\ d.c.counter = s.c.counter /\ d.c.curNr = s.c.curNr
        /\ d.c.newNr = s.c.newNr /\ d.c.nrFree = s.c.nrFree /\ d.c.firstFree = s.c.firstFree
        /\ d.c \in CacheValue
    BY <1>1, <1>4, <1>5 DEF StateValue, CacheValue
  <1>7. t = [d EXCEPT !.c.slot = slot]
    <2>1. d.c.slot[i] = y
      BY <1>1, <1>6
    <2>2. [d.c.slot EXCEPT ![i] = x] = slot
      BY <1>1, <1>6
    <2>3. t = [d EXCEPT !.c.slot[i].data = data]
      BY <1>6 DEF Updated, d
    <2>4. t = [d EXCEPT !.c.slot = [d.c.slot EXCEPT ![i] = [d.c.slot[i] EXCEPT !.data = data]]]
      BY <1>6, <2>3 DEF StateValue, CacheValue
    <2> QED BY <2>1, <2>2, <2>4
  <1> HIDE DEF t, slot
  <1>8. /\ t \in StateValue /\ t.f = s.f /\ t.c.slot = slot
        /\ t.c.slotNr = s.c.slotNr /\ t.c.size = s.c.size /\ t.c.used = s.c.used
        /\ t.c.actual = i /\ t.c.counter = s.c.counter /\ t.c.curNr = s.c.curNr
        /\ t.c.newNr = s.c.newNr /\ t.c.nrFree = s.c.nrFree /\ t.c.firstFree = s.c.firstFree
    BY <1>5, <1>6, <1>7 DEF StateValue, CacheValue
  <1>9. /\ Shaped(t) /\ UsedSlots(t.c) = UsedSlots(s.c) /\ t.c.slot[i] = x
        /\ \A j \in UsedSlots(s.c) : j # i => t.c.slot[j] = s.c.slot[j]
        /\ \A a \in Buckets : a # b /\ s.c.slotNr[a] # -1 =>
              s.c.slotNr[a] \in UsedSlots(s.c) /\ s.c.slotNr[a] # i
    <2>1. t.c.actual < t.c.size
      BY <1>1, <1>8 DEF Shaped
    <2>2. t.c.slot = [s.c.slot EXCEPT ![i] = x]
      BY <1>8 DEF slot
    <2>3. /\ t \in StateValue /\ x \in SlotValue
          /\ t.c.size = s.c.size /\ t.c.used = s.c.used
      BY <1>3, <1>8
    <2> HIDE DEF x
    <2>4. Replaced(s, t, b, x)
      <3>1. t.c.slot = [s.c.slot EXCEPT ![s.c.actual] = x]
        BY <2>2
      <3>2. Whole(s) /\ IsActual(s, b, old) /\ b \in Buckets
        OBVIOUS
      <3> HIDE DEF i, t, slot, d
      <3> QED BY ONLY <2>1, <2>3, <3>1, <3>2, OtherSlots
    <2> QED BY <2>4 DEF Replaced
  <1> HIDE DEF x, i
  <1>10. Used(t, {}) = Used(s, {}) /\ Used(s, {}) = UsedSlots(s.c)
    BY <1>9 DEF Used
  <1>11. data # Null
    BY Assumed
  <1>12. Linked(t, {})
    <2>1. ASSUME NEW j \in UsedSlots(s.c), t.c.slot[j].data # Null
          PROVE  t.c.slotNr[t.c.slot[j].bucket] = j
      <3>1. CASE j = i
        BY <1>1, <1>3, <1>8, <1>9, <3>1
      <3>2. CASE j # i
        <4>1. t.c.slot[j] = s.c.slot[j] /\ j \in Used(s, {})
          BY <1>9, <1>10, <3>2
        <4>2. s.c.slotNr[s.c.slot[j].bucket] = j
          BY <1>1, <2>1, <4>1 DEF Linked
        <4> QED BY <1>8, <4>1, <4>2
      <3> QED BY <3>1, <3>2
    <2>2. ASSUME NEW a \in Buckets, t.c.slotNr[a] # -1
          PROVE  /\ t.c.slotNr[a] \in UsedSlots(s.c)
                 /\ t.c.slot[t.c.slotNr[a]].bucket = a
                 /\ t.c.slot[t.c.slotNr[a]].data # Null
      <3>1. CASE a = b
        BY <1>1, <1>3, <1>8, <1>9, <1>11, <3>1
      <3>2. CASE a # b
        <4>1. s.c.slotNr[a] \in UsedSlots(s.c) /\ t.c.slot[s.c.slotNr[a]] = s.c.slot[s.c.slotNr[a]]
          BY <1>8, <1>9, <2>2, <3>2
        <4> QED BY <1>1, <1>8, <2>2, <4>1 DEF Linked
      <3> QED BY <3>1, <3>2
    <2> QED BY <1>10, <2>1, <2>2 DEF Linked
  <1>13. Marked(t, {})
    <2>1. ASSUME NEW j \in UsedSlots(s.c)
          PROVE  IF t.c.slot[j].dirty THEN t.c.slot[j].data # Null
                 ELSE t.c.slot[j].data # Null => t.f[t.c.slot[j].bucket] = t.c.slot[j].data
      <3>1. CASE j = i
        BY <1>3, <1>9, <1>11, <3>1
      <3>2. CASE j # i
        BY <1>1, <1>8, <1>9, <1>10, <3>2 DEF Marked
      <3> QED BY <3>1, <3>2
    <2> QED BY <1>10, <2>1 DEF Marked
  <1>14. Value(t, b) = data
    BY <1>1, <1>3, <1>8, <1>9 DEF Value
  <1>15. \A a \in Buckets \ {b} : Value(t, a) = Value(s, a)
    BY <1>8, <1>9 DEF Value
  <1>16. Whole(t)
    BY <1>8, <1>9, <1>12, <1>13, <1>14, <1>15 DEF Whole, Consistent
  <1>17. ContentOf(t, b) = data /\ \A a \in Buckets \ {b} : ContentOf(t, a) = ContentOf(s, a)
    BY <1>1, <1>8, <1>14, <1>15 DEF ContentOf
  <1>18. Aged(s) => Aged(t)
    <2>1. \A j \in UsedSlots(s.c) : t.c.slot[j].lru = s.c.slot[j].lru
      BY <1>3, <1>9
    <2> QED BY <1>8, <1>9, <2>1 DEF Aged
  <1>19. Changes(s, t, b, data)
    BY <1>1, <1>8, <1>16, <1>17, <1>18 DEF Changes
  <1> QED BY <1>8, <1>19 DEF t

-----------------------------------------------------------------------------
(* removeBucket and extend.                                                 *)

\* The list with a bucket in front.
Before(b, q, n) == [k \in 1 .. (n + 1) |-> IF k = 1 THEN b ELSE q[k - 1]]

IsLonger(l, b, q, n) ==
    /\ l \in [1 .. (n + 1) -> Buckets]
    /\ l[1] = b
    /\ Nth(l, n + 1, 1) = b
    /\ \A k \in Nat \ {0} : Nth(l, n + 1, k + 1) = Nth(q, n, k)
    /\ \A k \in 1 .. (n + 1) : k = 1 \/ (k - 1 \in 1 .. n /\ l[k] = q[k - 1])

LEMMA BeforeIs ==
    ASSUME NEW n \in Nat, NEW q \in [1 .. n -> Buckets], NEW b \in Buckets
    PROVE  IsLonger(Before(b, q, n), b, q, n)
  <1> DEFINE l == Before(b, q, n)
  <1>1. \A k \in 1 .. (n + 1) : k = 1 \/ k - 1 \in 1 .. n
    OBVIOUS
  <1>2. \A k \in 1 .. (n + 1) : l[k] = IF k = 1 THEN b ELSE q[k - 1]
    BY DEF Before
  <1>3. l \in [1 .. (n + 1) -> Buckets]
    BY <1>1 DEF Before
  <1> HIDE DEF l
  <1>4. 1 \in 1 .. (n + 1) /\ l[1] = b
    BY <1>2
  <1>5. \A k \in 1 .. n : k + 1 \in 1 .. (n + 1) /\ k + 1 # 1 /\ (k + 1) - 1 = k
    OBVIOUS
  <1>6. \A k \in 1 .. n : l[k + 1] = q[k]
    BY <1>2, <1>5
  <1>7. Nth(l, n + 1, 1) = b
    <2>1. 1 <= n + 1
      OBVIOUS
    <2> QED BY <1>4, <2>1 DEF Nth
  <1>8. ASSUME NEW k \in Nat \ {0}
        PROVE  Nth(l, n + 1, k + 1) = Nth(q, n, k)
    <2>1. k + 1 <= n + 1 <=> k <= n
      OBVIOUS
    <2>2. k <= n => k \in 1 .. n
      OBVIOUS
    <2> QED BY <1>6, <2>1, <2>2 DEF Nth
  <1>9. \A k \in 1 .. (n + 1) : k = 1 \/ (k - 1 \in 1 .. n /\ l[k] = q[k - 1])
    BY <1>1, <1>2
  <1> QED BY <1>3, <1>4, <1>5, <1>6, <1>7, <1>8, <1>9 DEF l, IsLonger

\* A bucket in use put in front of the free list.
LEMMA FreeListLonger ==
    ASSUME NEW s, NEW t, NEW q, NEW b \in Buckets, Whole(s), Whole(t), IsFreeList(q, s),
           ContentOf(s, b) \in Data, b < t.c.curNr, s.c.curNr <= t.c.curNr,
           t.c.nrFree = s.c.nrFree + 1, t.c.firstFree = b,
           ContentOf(t, b) = Link(s.c.firstFree),
           \A a \in Buckets \ {b} : ContentOf(t, a) = ContentOf(s, a)
    PROVE  IsFreeList(Before(b, q, s.c.nrFree), t)
  <1> DEFINE n == s.c.nrFree
             l == Before(b, q, n)
  <1>1. /\ n \in Nat /\ q \in [1 .. n -> Buckets] /\ s.c.firstFree = Nth(q, n, 1)
        /\ \A j, k \in 1 .. n : q[j] = q[k] => j = k
    BY DEF IsFreeList
  <1>2. /\ l \in [1 .. (n + 1) -> Buckets] /\ l[1] = b
        /\ Nth(l, n + 1, 1) = b
        /\ \A k \in Nat \ {0} : Nth(l, n + 1, k + 1) = Nth(q, n, k)
        /\ \A k \in 1 .. (n + 1) : k = 1 \/ (k - 1 \in 1 .. n /\ l[k] = q[k - 1])
    <2>1. IsLonger(l, b, q, n)
      BY <1>1, BeforeIs
    <2> HIDE DEF l, n
    <2> QED BY <2>1 DEF IsLonger
  <1>3. ASSUME NEW k \in 1 .. n
        PROVE  /\ q[k] # b /\ q[k] \in Buckets /\ q[k] < t.c.curNr
               /\ ContentOf(t, q[k]) = Link(Nth(q, n, k + 1))
    <2>1. q[k] \in Buckets /\ q[k] < s.c.curNr /\ ContentOf(s, q[k]) = Link(Nth(q, n, k + 1))
      BY <1>1 DEF IsFreeList
    <2>2. Nth(q, n, k + 1) \in Buckets \cup {NoBucket}
      <3>1. n \in Nat /\ q \in [1 .. n -> Buckets] /\ k + 1 \in Nat \ {0}
        BY <1>1
      <3> HIDE DEF n
      <3> QED BY <3>1, NthIs
    <2>3. q[k] # b
      BY <2>1, <2>2, LinkIs
    <2>4. q[k] < t.c.curNr
      BY <2>1, WholeFields, BucketsAre
    <2> QED BY <2>1, <2>3, <2>4
  <1> HIDE DEF l
  <1>4. ASSUME NEW j \in 1 .. (n + 1), NEW k \in 1 .. (n + 1), l[j] = l[k]
        PROVE  j = k
    <2>1. CASE j = 1 /\ k # 1
      BY <1>2, <1>3, <1>4, <2>1
    <2>2. CASE j # 1 /\ k = 1
      BY <1>2, <1>3, <1>4, <2>2
    <2>3. CASE j # 1 /\ k # 1
      <3>1. j - 1 \in 1 .. n /\ k - 1 \in 1 .. n /\ q[j - 1] = q[k - 1]
        BY <1>2, <1>4, <2>3
      <3>2. j - 1 = k - 1
        BY <1>1, <3>1
      <3> QED BY <3>2
    <2> QED BY <2>1, <2>2, <2>3
  <1>5. ASSUME NEW k \in 1 .. (n + 1)
        PROVE  l[k] < t.c.curNr /\ ContentOf(t, l[k]) = Link(Nth(l, n + 1, k + 1))
    <2>1. k \in Nat \ {0} /\ Nth(l, n + 1, k + 1) = Nth(q, n, k)
      BY <1>2
    <2>2. CASE k = 1
      BY <1>1, <1>2, <2>1, <2>2
    <2>3. CASE k # 1
      <3>1. k - 1 \in 1 .. n /\ l[k] = q[k - 1] /\ (k - 1) + 1 = k
        <4>1. k - 1 \in 1 .. n /\ l[k] = q[k - 1]
          BY <1>2, <2>3
        <4>2. (k - 1) + 1 = k
          BY <1>1
        <4> QED BY <4>1, <4>2
      <3>2. q[k - 1] < t.c.curNr /\ ContentOf(t, q[k - 1]) = Link(Nth(q, n, k))
        BY <1>3, <3>1
      <3> QED BY <2>1, <3>1, <3>2
    <2> QED BY <2>2, <2>3
  <1>6. n + 1 \in Nat
    BY <1>1
  <1> QED BY <1>2, <1>4, <1>5, <1>6 DEF IsFreeList, l

LEMMA RemoveBucketIs ==
    ASSUME NEW s, Whole(s), NEW b \in Buckets, NEW old, IsActual(s, b, old), NEW q, IsFreeList(q, s)
    PROVE  LET t == RemoveBucket(s) IN
           /\ Changes(s, t, b, Link(s.c.firstFree))
           /\ t.c.newNr = s.c.newNr /\ t.c.nrFree = s.c.nrFree + 1
           /\ IsFreeList(Before(b, q, s.c.nrFree), t)
  <1> DEFINE i == s.c.actual
             first == s.c.firstFree
             x == [bucket |-> b, data |-> Null, dirty |-> FALSE, lru |-> 0]
             slot == [s.c.slot EXCEPT ![i] = x]
             nrs == [s.c.slotNr EXCEPT ![b] = -1]
             f == [s.f EXCEPT ![b] = Link(first)]
             gone == [s EXCEPT !.c.slot = slot, !.c.slotNr = nrs, !.c.actual = 0]
             t == RemoveBucket(s)
  <1>1. /\ s \in StateValue /\ s.c \in CacheValue /\ Shaped(s) /\ Linked(s, {}) /\ Marked(s, {})
        /\ s.c.slot \in [Slots(s.c) -> SlotValue] /\ i \in Slots(s.c) /\ s.c.curNr \in Nat
        /\ b < s.c.curNr /\ s.c.slotNr[b] = i /\ i \in UsedSlots(s.c) /\ i \in Nat
        /\ s.c.slot[i].bucket = b /\ s.c.slotNr[b] # -1 /\ s.c.slot[i].data = old
        /\ old \in Data /\ s.c.used > 0 /\ s.c.counter \in Nat
        /\ s.c.slotNr \in [Buckets -> Int] /\ s.f \in [Buckets -> Contents]
        /\ first \in Buckets \cup {NoBucket} /\ s.c.nrFree \in Nat
    <2>1. i \in Nat /\ s.c.used > 0
      BY WholeFields, CacheFields DEF IsActual, UsedSlots
    <2> QED BY <2>1, WholeFields, CacheFields DEF IsActual, IsFreeList
  <1>2. x \in SlotValue /\ x.bucket = b /\ x.data = Null /\ ~x.dirty /\ x.lru = 0
    <2>1. 0 \in 0 .. MaxLRU
      BY Assumed
    <2> QED BY <2>1 DEF SlotValue
  <1> HIDE DEF x
  <1>3. slot \in SlotsValue
    <2>1. slot \in [Slots(s.c) -> SlotValue]
      BY <1>1, <1>2
    <2> HIDE DEF slot
    <2> QED BY <1>1, <2>1, SlotsAre
  <1>4. nrs \in [Buckets -> Int] /\ nrs[b] = -1 /\ \A a \in Buckets : a # b => nrs[a] = s.c.slotNr[a]
    BY <1>1
  <1>5. f \in [Buckets -> Contents] /\ f[b] = Link(first) /\ \A a \in Buckets : a # b => f[a] = s.f[a]
    <2>1. Link(first) \in Contents
      BY <1>1, LinkIs DEF Contents
    <2> HIDE DEF first
    <2> QED BY <1>1, <2>1
  <1>6. t = [gone EXCEPT !.f[b] = Link(first), !.c.firstFree = b, !.c.nrFree = @ + 1]
    <2>1. gone = [s EXCEPT !.c.slot[i] = x, !.c.slotNr[b] = -1, !.c.actual = 0]
      <3> HIDE DEF i
      <3> QED BY <1>1 DEF StateValue, CacheValue
    <2>2. b = s.c.slot[i].bucket
      BY <1>1
    <2> HIDE DEF gone
    <2> QED BY <2>1, <2>2 DEF RemoveBucket, x
  <1> HIDE DEF t, slot, nrs, i
  <1>7. /\ gone \in StateValue /\ gone.c \in CacheValue /\ gone.f = s.f /\ gone.c.slot = slot
        /\ gone.c.slotNr = nrs /\ gone.c.size = s.c.size /\ gone.c.used = s.c.used
        /\ gone.c.actual = 0 /\ gone.c.counter = s.c.counter /\ gone.c.curNr = s.c.curNr
        /\ gone.c.newNr = s.c.newNr /\ gone.c.nrFree = s.c.nrFree
    BY <1>1, <1>3, <1>4 DEF StateValue, CacheValue
  <1> HIDE DEF gone
  <1>8. t = [gone EXCEPT !.f = f, !.c.firstFree = b, !.c.nrFree = s.c.nrFree + 1]
    <2> HIDE DEF first
    <2> QED BY <1>6, <1>7 DEF StateValue, CacheValue
  <1> HIDE DEF f, first
  <1>9. /\ t \in StateValue /\ t.f = f /\ t.c.slot = slot
        /\ t.c.slotNr = nrs /\ t.c.size = s.c.size /\ t.c.used = s.c.used
        /\ t.c.actual = 0 /\ t.c.counter = s.c.counter /\ t.c.curNr = s.c.curNr
        /\ t.c.newNr = s.c.newNr /\ t.c.nrFree = s.c.nrFree + 1 /\ t.c.firstFree = b
    <2>1. s.c.nrFree + 1 \in Int
      BY <1>1
    <2> QED BY <1>5, <1>7, <1>8, <2>1 DEF StateValue, CacheValue
  <1>10. Replaced(s, t, b, x)
    <2>1. t.c.actual < t.c.size
      BY <1>9, WholeFields
    <2>2. t.c.slot = [s.c.slot EXCEPT ![s.c.actual] = x]
      BY <1>9 DEF slot, i
    <2> QED BY <1>2, <1>9, <2>1, <2>2, OtherSlots
  <1>11. /\ Shaped(t) /\ UsedSlots(t.c) = UsedSlots(s.c) /\ t.c.slot[i] = x
         /\ \A j \in UsedSlots(s.c) : j # i =>
               /\ t.c.slot[j] = s.c.slot[j]
               /\ s.c.slot[j].data # Null =>
                     s.c.slot[j].bucket # b /\ s.c.slot[j].bucket \in Buckets
         /\ \A a \in Buckets : a # b /\ s.c.slotNr[a] # -1 =>
               s.c.slotNr[a] \in UsedSlots(s.c) /\ s.c.slotNr[a] # i
    BY <1>10 DEF Replaced, i
  <1>12. Used(t, {}) = Used(s, {}) /\ Used(s, {}) = UsedSlots(s.c)
    BY <1>11 DEF Used
  <1>13. Linked(t, {})
    <2>1. ASSUME NEW j \in UsedSlots(s.c), t.c.slot[j].data # Null
          PROVE  t.c.slotNr[t.c.slot[j].bucket] = j
      <3>1. j # i
        BY <1>2, <1>11, <2>1
      <3>2. s.c.slotNr[s.c.slot[j].bucket] = j
        <4>1. j \in Used(s, {}) /\ s.c.slot[j].data # Null
          BY <1>11, <1>12, <2>1, <3>1
        <4> QED BY <1>1, <4>1 DEF Linked
      <3> QED BY <1>4, <1>9, <1>11, <2>1, <3>1, <3>2
    <2>2. ASSUME NEW a \in Buckets, t.c.slotNr[a] # -1
          PROVE  /\ t.c.slotNr[a] \in UsedSlots(s.c)
                 /\ t.c.slot[t.c.slotNr[a]].bucket = a
                 /\ t.c.slot[t.c.slotNr[a]].data # Null
      <3>1. a # b /\ t.c.slotNr[a] = s.c.slotNr[a]
        BY <1>4, <1>9, <2>2
      <3>2. s.c.slotNr[a] \in UsedSlots(s.c) /\ t.c.slot[s.c.slotNr[a]] = s.c.slot[s.c.slotNr[a]]
        BY <1>11, <2>2, <3>1
      <3> QED BY <1>1, <2>2, <3>1, <3>2 DEF Linked
    <2> QED BY <1>12, <2>1, <2>2 DEF Linked
  <1>14. Marked(t, {})
    <2>1. ASSUME NEW j \in UsedSlots(s.c)
          PROVE  IF t.c.slot[j].dirty THEN t.c.slot[j].data # Null
                 ELSE t.c.slot[j].data # Null => t.f[t.c.slot[j].bucket] = t.c.slot[j].data
      <3>1. CASE j = i
        BY <1>2, <1>11, <3>1
      <3>2. CASE j # i
        <4>1. /\ t.c.slot[j] = s.c.slot[j]
              /\ s.c.slot[j].data # Null => t.f[s.c.slot[j].bucket] = s.f[s.c.slot[j].bucket]
          BY <1>5, <1>9, <1>11, <3>2
        <4>2. IF s.c.slot[j].dirty THEN s.c.slot[j].data # Null
              ELSE s.c.slot[j].data # Null => s.f[s.c.slot[j].bucket] = s.c.slot[j].data
          BY <1>1, <1>12 DEF Marked
        <4> QED BY <4>1, <4>2
      <3> QED BY <3>1, <3>2
    <2> QED BY <1>12, <2>1 DEF Marked
  <1>15. Value(t, b) = Link(first)
    BY <1>4, <1>5, <1>9 DEF Value
  <1>16. ASSUME NEW a \in Buckets \ {b}
         PROVE  Value(t, a) = Value(s, a)
    <2>1. t.c.slotNr[a] = s.c.slotNr[a] /\ t.f[a] = s.f[a]
      BY <1>4, <1>5, <1>9
    <2>2. s.c.slotNr[a] # -1 => t.c.slot[s.c.slotNr[a]] = s.c.slot[s.c.slotNr[a]]
      BY <1>11
    <2> QED BY <2>1, <2>2 DEF Value
  <1>17. Link(first) \in Links
    BY <1>1, LinkIs
  <1>18. Whole(t)
    <2>1. ASSUME NEW a \in Buckets
          PROVE  IF a < t.c.curNr THEN Value(t, a) \in Data \cup Links ELSE t.c.slotNr[a] = -1
      BY <1>4, <1>9, <1>15, <1>16, <1>17 DEF Whole
    <2> QED BY <1>9, <1>11, <1>13, <1>14, <2>1 DEF Whole, Consistent
  <1>19. ContentOf(t, b) = Link(first) /\ \A a \in Buckets \ {b} : ContentOf(t, a) = ContentOf(s, a)
    BY <1>1, <1>9, <1>15, <1>16 DEF ContentOf
  <1>20. Aged(s) => Aged(t)
    <2>1. ASSUME Aged(s), NEW j \in UsedSlots(s.c)
          PROVE  /\ t.c.slot[j].lru <= t.c.counter
                 /\ t.c.slot[j].lru = t.c.counter => j # i /\ s.c.slot[j].lru = s.c.counter
      <3>1. s.c.counter > 0
        BY <1>1, <2>1 DEF Aged
      <3>2. CASE j = i
        BY <1>1, <1>2, <1>9, <1>11, <3>1, <3>2
      <3>3. CASE j # i
        BY <1>9, <1>11, <2>1, <3>3 DEF Aged
      <3> QED BY <3>2, <3>3
    <2> QED BY <1>9, <1>11, <2>1 DEF Aged
  <1>21. Changes(s, t, b, Link(s.c.firstFree))
    <2>1. s.c.curNr <= t.c.curNr
      BY <1>1, <1>9
    <2> QED BY <1>18, <1>19, <1>20, <2>1 DEF Changes, first
  <1>22. IsFreeList(Before(b, q, s.c.nrFree), t)
    <2>1. ContentOf(s, b) \in Data
      BY <1>1 DEF ContentOf, Value
    <2>2. b < t.c.curNr /\ s.c.curNr <= t.c.curNr
      BY <1>1, <1>9
    <2>3. ContentOf(t, b) = Link(s.c.firstFree)
      BY <1>19 DEF first
    <2> QED BY <1>9, <1>18, <1>19, <2>1, <2>2, <2>3, FreeListLonger
  <1> QED BY <1>9, <1>21, <1>22 DEF t

LEMMA ExtendByIs ==
    ASSUME NEW s, Whole(s), NEW n \in Nat, s.c.newNr + n <= MaxBuckets
    PROVE  LET t == ExtendBy(s, n) IN
           /\ Whole(t) /\ t.c.newNr = s.c.newNr + n /\ t.c.curNr = s.c.curNr
           /\ t.c.nrFree = s.c.nrFree /\ t.c.firstFree = s.c.firstFree
           /\ \A b \in Buckets : ContentOf(t, b) = ContentOf(s, b)
           /\ Aged(s) => Aged(t)
  <1> DEFINE t == ExtendBy(s, n)
  <1>1. /\ s \in StateValue /\ s.c \in CacheValue /\ Consistent(s, {})
        /\ s.c.curNr \in Nat /\ s.c.newNr \in Nat /\ s.c.curNr <= s.c.newNr
    BY WholeFields, CacheFields
  <1>2. s.c.newNr + n \in 0 .. MaxBuckets /\ s.c.curNr <= s.c.newNr + n
    BY <1>1, Assumed
  <1>3. t = [s EXCEPT !.c.newNr = s.c.newNr + n]
    BY <1>1 DEF ExtendBy, StateValue, CacheValue
  <1> HIDE DEF t
  <1>4. /\ SameSlots(s, t) /\ t.c.newNr = s.c.newNr + n /\ t.c.curNr = s.c.curNr
        /\ t.c.nrFree = s.c.nrFree /\ t.c.firstFree = s.c.firstFree
    BY <1>1, <1>2, <1>3 DEF SameSlots, StateValue, CacheValue
  <1>5. /\ Consistent(t, {})
        /\ \A b \in Buckets : Value(t, b) = Value(s, b)
        /\ Aged(s) => Aged(t)
    BY <1>1, <1>4, SameSlotsIs
  <1>6. Whole(t)
    <2>1. \A b \in Buckets : t.c.slotNr[b] = s.c.slotNr[b]
      BY <1>4 DEF SameSlots
    <2> QED BY <1>2, <1>4, <1>5, <2>1 DEF Whole
  <1>7. \A b \in Buckets : ContentOf(t, b) = ContentOf(s, b)
    BY <1>4, <1>5 DEF ContentOf
  <1> QED BY <1>4, <1>5, <1>6, <1>7 DEF t

-----------------------------------------------------------------------------
(* resync.                                                                  *)

\* Flushed, of a state.
IsFlushed(s) == s.c.curNr = s.c.newNr /\ \A i \in UsedSlots(s.c) : ~s.c.slot[i].dirty

\* A flush finds nothing to do, whatever has become of the file.
LEMMA NothingToFlush ==
    ASSUME NEW s, Shaped(s), IsFlushed(s)
    PROVE  FlushFrom(s, 0) = s
  <1>1. s.c.used \in Nat /\ s.c.newNr \in Nat /\ s.c.curNr = s.c.newNr
    BY CacheFields DEF IsFlushed
  <1>2. AllMade(s, 0) = s
    <2>1. CASE s.c.newNr > 0
      <3> DEFINE b == s.c.newNr - 1
      <3>1. NrInitialized(s, b) = 0
        BY <1>1 DEF NrInitialized
      <3>2. PICK after : /\ InitializeRuns(after, NrInitialized(s, b), s)
                         /\ InitializeBuckets(s, b) = after[NrInitialized(s, b)]
        BY <3>1, InitializeLoop
      <3>3. InitializeBuckets(s, b) = s
        BY <3>1, <3>2 DEF InitializeRuns
      <3> QED BY <2>1, <3>3 DEF AllMade
    <2>2. CASE ~(s.c.newNr > 0)
      BY <2>2 DEF AllMade
    <2> QED BY <2>1, <2>2
  <1> DEFINE n == s.c.used
  <1>3. NrWrites(AllMade(s, 0), 0) = n /\ n \in Nat
    BY <1>1, <1>2 DEF NrWrites
  <1>4. PICK after : WriteRuns(after, n, s, 0) /\ FlushFrom(s, 0) = after[n]
    BY <1>2, <1>3, WriteLoop
  <1> DEFINE T == {k \in Nat : after[k] = s}
  <1>5. 0 \in T
    BY <1>4 DEF WriteRuns
  <1>6. ASSUME NEW k \in 1 .. n, k - 1 \in T
        PROVE  k \in T
    <2>1. after[k] = WriteDirty(s, 0 + k - 1) /\ 0 + k - 1 = k - 1
      BY <1>4, <1>6 DEF WriteRuns
    <2>2. k - 1 \in UsedSlots(s.c)
      BY <1>1 DEF UsedSlots
    <2>3. WriteDirty(s, k - 1) = s
      BY <2>2 DEF WriteDirty, IsFlushed
    <2>4. k \in Nat
      BY <1>3
    <2> QED BY <2>1, <2>3, <2>4
  <1> HIDE DEF T, n
  <1>7. \A k \in 0 .. n : k \in T
    BY <1>3, <1>5, <1>6, TurnInduction
  <1>8. n \in T
    BY <1>3, <1>7
  <1> QED BY <1>4, <1>8 DEF T

\* Nothing cached, and in the file what another process has left there.
Taken(t, f, nr, nrFree, firstFree) ==
    /\ t \in StateValue /\ Shaped(t)
    /\ t.f = f /\ t.c.used = 0 /\ \A b \in Buckets : t.c.slotNr[b] = -1
    /\ t.c.curNr = nr /\ t.c.newNr = nr
    /\ t.c.nrFree = nrFree /\ t.c.firstFree = firstFree

LEMMA ResyncToIs ==
    ASSUME NEW s, Consistent(s, {}), IsFlushed(s), NEW f \in [Buckets -> Contents],
           NEW nr \in 0 .. MaxBuckets, s.c.newNr <= nr, NEW nrFree \in Int,
           NEW firstFree \in Buckets \cup {NoBucket}
    PROVE  Taken(ResyncTo([c |-> s.c, f |-> f], nr, nrFree, firstFree), f, nr, nrFree, firstFree)
  <1> DEFINE x == [c |-> s.c, f |-> f]
             gone == 0 .. (x.c.used - 1)
             slot == [i \in DOMAIN x.c.slot |-> IF i \in gone THEN EmptySlot ELSE x.c.slot[i]]
             nrs == [b \in Buckets |-> IF \E i \in gone : x.c.slot[i].bucket = b THEN -1
                                       ELSE x.c.slotNr[b]]
             used == IF 0 < x.c.used THEN 0 ELSE x.c.used
             w == ClearFrom(x, 0)
             t == ResyncTo(x, nr, nrFree, firstFree)
  <1>1. /\ Shaped(s) /\ Linked(s, {}) /\ s.c \in CacheValue /\ s.c.used \in Nat
        /\ s.c.size \in Nat \ {0} /\ s.c.newNr \in Nat /\ s.c.curNr = s.c.newNr
        /\ s.c.slot \in [Slots(s.c) -> SlotValue] /\ s.c.slotNr \in [Buckets -> Int]
        /\ s.c.actual < s.c.size /\ s.c.actual \in Nat
    BY CacheFields DEF Consistent, IsFlushed, Shaped
  <1>2. x.c = s.c /\ x.f = f /\ x \in StateValue /\ Shaped(x) /\ IsFlushed(x)
    <2>1. x.c = s.c /\ x.f = f
      OBVIOUS
    <2>2. x \in StateValue
      BY <1>1 DEF StateValue
    <2> HIDE DEF x
    <2> QED BY <1>1, <2>1, <2>2 DEF Shaped, IsFlushed
  <1>3. w = [x EXCEPT !.c.slot = slot, !.c.slotNr = nrs, !.c.counter = 0, !.c.used = used]
    <2>1. FlushFrom(x, 0) = x
      BY <1>2, NothingToFlush
    <2> HIDE DEF x
    <2> QED BY <2>1 DEF ClearFrom
  <1> HIDE DEF x
  <1>4. used = 0 /\ \A i \in gone : i \in UsedSlots(s.c)
    BY <1>1, <1>2 DEF UsedSlots
  <1>5. UsedSlots(s.c) \subseteq gone
    BY <1>1, <1>2 DEF UsedSlots
  <1> HIDE DEF gone, used
  <1>6. slot \in [Slots(s.c) -> SlotValue] /\ slot \in SlotsValue
    <2>1. EmptySlot \in SlotValue
      BY Assumed DEF EmptySlot, SlotValue, Buckets
    <2>2. slot \in [Slots(s.c) -> SlotValue]
      BY <1>1, <1>2, <2>1
    <2> HIDE DEF slot
    <2> QED BY <1>1, <2>2, SlotsAre
  <1>7. \A b \in Buckets : nrs[b] = -1
    <2>1. ASSUME NEW b \in Buckets, s.c.slotNr[b] # -1
          PROVE  \E i \in gone : s.c.slot[i].bucket = b
      <3>1. s.c.slotNr[b] \in UsedSlots(s.c) /\ s.c.slot[s.c.slotNr[b]].bucket = b
        BY <1>1, <2>1 DEF Linked, Used
      <3> QED BY <1>5, <3>1
    <2> QED BY <1>2, <2>1
  <1>8. nrs \in [Buckets -> Int]
    <2>1. nrs = [b \in Buckets |-> nrs[b]]
      OBVIOUS
    <2> HIDE DEF nrs
    <2> QED BY <1>7, <2>1
  <1> HIDE DEF slot, nrs
  <1>9. /\ w \in StateValue /\ w.c \in CacheValue /\ w.f = f /\ w.c.slot = slot
        /\ w.c.slotNr = nrs /\ w.c.used = 0 /\ w.c.actual = s.c.actual
        /\ w.c.size = s.c.size /\ w.c.newNr = s.c.newNr
    <2> DEFINE v == [x EXCEPT !.c.slot = slot, !.c.slotNr = nrs]
    <2>1. w = [v EXCEPT !.c.counter = 0, !.c.used = 0]
      BY <1>3, <1>4
    <2>2. /\ v \in StateValue /\ v.c \in CacheValue
          /\ v.f = f /\ v.c.slot = slot /\ v.c.slotNr = nrs /\ v.c.actual = s.c.actual
          /\ v.c.size = s.c.size /\ v.c.newNr = s.c.newNr
      BY <1>1, <1>2, <1>6, <1>8 DEF StateValue, CacheValue
    <2>3. 0 \in 0 .. MaxLRU /\ 0 \in Nat
      BY Assumed
    <2> HIDE DEF v, w
    <2> QED BY <2>1, <2>2, <2>3 DEF StateValue, CacheValue
  <1>10. t = [w EXCEPT !.c.newNr = nr, !.c.curNr = nr, !.c.nrFree = nrFree,
                       !.c.firstFree = firstFree]
    <2>1. (IF nr > w.c.newNr THEN nr ELSE w.c.newNr) = nr
      BY <1>1, <1>9
    <2> HIDE DEF w, x
    <2>2. t = [w EXCEPT !.c.newNr = IF nr > w.c.newNr THEN nr ELSE w.c.newNr, !.c.curNr = nr,
                        !.c.nrFree = nrFree, !.c.firstFree = firstFree]
      BY <1>9 DEF ResyncTo, w, StateValue, CacheValue
    <2> QED BY <2>1, <2>2
  <1> HIDE DEF w, t
  <1>11. /\ t \in StateValue /\ t.f = f /\ t.c.slot = slot /\ t.c.slotNr = nrs /\ t.c.used = 0
         /\ t.c.actual = s.c.actual /\ t.c.size = s.c.size
         /\ t.c.newNr = nr /\ t.c.curNr = nr /\ t.c.nrFree = nrFree /\ t.c.firstFree = firstFree
    <2> DEFINE v == [w EXCEPT !.c.newNr = nr, !.c.curNr = nr]
    <2>1. t = [v EXCEPT !.c.nrFree = nrFree, !.c.firstFree = firstFree]
      BY <1>10
    <2>2. /\ v \in StateValue /\ v.c \in CacheValue
          /\ v.f = f /\ v.c.slot = slot /\ v.c.slotNr = nrs /\ v.c.actual = s.c.actual
          /\ v.c.size = s.c.size /\ v.c.newNr = nr /\ v.c.curNr = nr /\ v.c.used = 0
      BY <1>9 DEF StateValue, CacheValue
    <2> HIDE DEF v
    <2> QED BY <2>1, <2>2 DEF StateValue, CacheValue
  <1>12. Shaped(t)
    BY <1>1, <1>6, <1>11 DEF Shaped, Slots
  <1> QED BY <1>7, <1>11, <1>12 DEF Taken, t, x

LEMMA TakenIs ==
    ASSUME NEW t, NEW f, NEW nr \in 0 .. MaxBuckets, NEW nrFree, NEW firstFree,
           Taken(t, f, nr, nrFree, firstFree),
           \A b \in Buckets : b < nr => f[b] \in Data \cup Links
    PROVE  /\ Whole(t) /\ Aged(t)
           /\ \A b \in Buckets : ContentOf(t, b) = IF b < nr THEN f[b] ELSE Fresh
  <1>1. UsedSlots(t.c) = {} /\ Used(t, {}) = {}
    BY DEF Taken, UsedSlots, Used
  <1>2. \A b \in Buckets : Value(t, b) = f[b]
    BY DEF Taken, Value
  <1>3. Linked(t, {}) /\ Marked(t, {}) /\ Aged(t)
    BY <1>1 DEF Linked, Marked, Aged, Taken
  <1>4. Whole(t)
    BY <1>2, <1>3 DEF Whole, Consistent, Taken
  <1> QED BY <1>2, <1>3, <1>4 DEF ContentOf, Taken

\* What has been flushed is in the file.
LEMMA FlushedIs ==
    ASSUME NEW s, Whole(s), IsFlushed(s), NEW b \in Buckets, b < s.c.curNr
    PROVE  s.f[b] = ContentOf(s, b) /\ s.f[b] \in Data \cup Links
  <1>1. s.f[b] = Value(s, b)
    <2>1. ASSUME s.c.slotNr[b] # -1
          PROVE  s.f[b] = s.c.slot[s.c.slotNr[b]].data
      <3>1. /\ s.c.slotNr[b] \in UsedSlots(s.c) /\ s.c.slotNr[b] \in Used(s, {})
            /\ s.c.slot[s.c.slotNr[b]].bucket = b /\ s.c.slot[s.c.slotNr[b]].data # Null
        BY <2>1, WholeFields DEF Linked, Used
      <3>2. ~s.c.slot[s.c.slotNr[b]].dirty
        BY <3>1 DEF IsFlushed
      <3> QED BY <3>1, <3>2, WholeFields DEF Marked
    <2> QED BY <2>1 DEF Value
  <1> QED BY <1>1 DEF ContentOf, Whole

-----------------------------------------------------------------------------
(* The state of the variables.                                              *)

LEMMA StateIs == State.c = cache /\ State.f = file
  BY DEF State

LEMMA NextStateIs ==
    ASSUME NEW t \in StateValue, Becomes(t)
    PROVE  State' = t /\ cache' = t.c /\ file' = t.f
  <1>1. cache' = t.c /\ file' = t.f
    BY DEF Becomes
  <1>2. t = [c |-> t.c, f |-> t.f]
    BY DEF StateValue
  <1>3. State' = [c |-> cache', f |-> file']
    BY DEF State
  <1> QED BY <1>1, <1>2, <1>3

\* What a caller finds, for the model and for the lemmas above.
LEMMA ContentIs ==
    ASSUME Whole(State)
    PROVE  /\ \A b \in Buckets : Content(b) = ContentOf(State, b)
           /\ \A b \in Buckets : b < cache.newNr => ContentOf(State, b) \in Data \cup Links
           /\ \A b \in Buckets : InUse(b) => b < cache.newNr /\ ContentOf(State, b) \in Data
           /\ \A b \in Buckets : b < cache.newNr /\ ContentOf(State, b) \in Data => InUse(b)
  <1>1. State.c = cache /\ State.f = file
    BY StateIs
  <1>2. Linked(State, {}) /\ cache.curNr \in Nat /\ cache.slotNr \in [Buckets -> Int]
    BY <1>1, WholeFields, CacheFields
  <1>3. ASSUME NEW b \in Buckets
        PROVE  /\ Content(b) = ContentOf(State, b)
               /\ ContentOf(State, b) \in Data \cup Links
    <2>1. /\ IF b < cache.curNr THEN Value(State, b) \in Data \cup Links ELSE cache.slotNr[b] = -1
          /\ Value(State, b) = IF cache.slotNr[b] = -1 THEN file[b]
                               ELSE cache.slot[cache.slotNr[b]].data
          /\ ContentOf(State, b) = IF b < cache.curNr THEN Value(State, b) ELSE Fresh
      BY <1>1 DEF Whole, Value, ContentOf
    <2>2. b \in Nat /\ cache.slotNr[b] \in Int
      BY <1>2, BucketsAre
    <2>3. cache.slotNr[b] = -1 \/ cache.slotNr[b] >= 0
      <3>1. ASSUME cache.slotNr[b] # -1
            PROVE  cache.slotNr[b] >= 0
        <4>1. cache.slotNr[b] \in UsedSlots(cache)
          BY <1>1, <1>2, <3>1 DEF Linked, Used
        <4> QED BY <2>2, <4>1 DEF UsedSlots
      <3> QED BY <3>1
    <2>4. CASE cache.slotNr[b] >= 0
      <3>1. Content(b) = cache.slot[cache.slotNr[b]].data
        BY <2>2, <2>4 DEF Content
      <3> QED BY <2>1, <2>2, <2>4, <3>1
    <2>5. CASE cache.slotNr[b] = -1 /\ b >= cache.curNr
      <3>1. Content(b) = Fresh
        BY <1>2, <2>2, <2>5 DEF Content
      <3> QED BY <1>2, <2>1, <2>2, <2>5, <3>1, Assumed
    <2>6. CASE cache.slotNr[b] = -1 /\ b < cache.curNr
      <3>1. Content(b) = file[b]
        BY <1>2, <2>2, <2>6 DEF Content
      <3> QED BY <1>2, <2>1, <2>2, <2>6, <3>1
    <2> QED BY <1>2, <2>2, <2>3, <2>4, <2>5, <2>6
  <1> QED BY <1>3, Assumed DEF InUse

-----------------------------------------------------------------------------
(* The free list as the model reads it from the file.                       *)

LEMMA FreeBucketIs ==
    ASSUME Whole(State), NEW q, IsFreeList(q, State)
    PROVE  \A k \in 1 .. MaxBuckets : FreeBucket[k] = Nth(q, cache.nrFree, k)
  <1> DEFINE n == cache.nrFree
             turns(f) == [k \in 1 .. MaxBuckets |->
                 IF k = 1 THEN cache.firstFree
                 ELSE IF f[k - 1] \in Buckets /\ file[f[k - 1]] \in Links
                      THEN file[f[k - 1]][1]
                      ELSE NoBucket]
             g == [k \in 1 .. MaxBuckets |-> Nth(q, n, k)]
             f == FreeBucket
  <1>1. State.c = cache /\ State.f = file
    BY StateIs
  <1>2. /\ n \in Nat /\ q \in [1 .. n -> Buckets] /\ cache.firstFree = Nth(q, n, 1)
        /\ \A k \in 1 .. n : q[k] < cache.curNr /\ ContentOf(State, q[k]) = Link(Nth(q, n, k + 1))
    BY <1>1 DEF IsFreeList
  <1>3. ASSUME NEW k \in Nat, k > 1
        PROVE  Nth(q, n, k) = IF Nth(q, n, k - 1) \in Buckets /\ file[Nth(q, n, k - 1)] \in Links
                              THEN file[Nth(q, n, k - 1)][1]
                              ELSE NoBucket
    <2>1. CASE k - 1 <= n
      <3>1. k - 1 \in 1 .. n /\ (k - 1) + 1 = k
        BY <1>2, <1>3, <2>1
      <3>2. /\ Nth(q, n, k - 1) = q[k - 1] /\ q[k - 1] \in Buckets
            /\ q[k - 1] < cache.curNr /\ ContentOf(State, q[k - 1]) = Link(Nth(q, n, k))
        BY <1>2, <3>1 DEF Nth
      <3>3. Nth(q, n, k) \in Buckets \cup {NoBucket}
        <4>1. n \in Nat /\ q \in [1 .. n -> Buckets] /\ k \in Nat \ {0}
          BY <1>2, <1>3
        <4> HIDE DEF n
        <4> QED BY <4>1, NthIs
      <3>4. /\ Link(Nth(q, n, k)) \in Links /\ Link(Nth(q, n, k))[1] = Nth(q, n, k)
            /\ Link(Nth(q, n, k)) \notin Data
        BY <3>3, LinkIs
      <3>5. file[q[k - 1]] = Link(Nth(q, n, k))
        BY <1>1, <3>2, <3>4, FreeInFile
      <3> QED BY <3>2, <3>4, <3>5
    <2>2. CASE ~(k - 1 <= n)
      <3>1. ~(k <= n)
        BY <1>2, <1>3, <2>2
      <3>2. Nth(q, n, k) = NoBucket /\ Nth(q, n, k - 1) = NoBucket
        BY <2>2, <3>1 DEF Nth
      <3>3. NoBucket \notin Buckets
        BY BucketsAre DEF NoBucket
      <3> QED BY <3>2, <3>3
    <2> QED BY <2>1, <2>2
  <1> HIDE DEF n
  <1>4. g = turns(g)
    <2>1. ASSUME NEW k \in 1 .. MaxBuckets
          PROVE  g[k] = turns(g)[k]
      <3>1. CASE k = 1
        BY <1>2, <3>1
      <3>2. CASE k # 1
        <4>1. k \in Nat /\ k > 1 /\ k - 1 \in 1 .. MaxBuckets
          BY <3>2, Assumed
        <4>2. g[k - 1] = Nth(q, n, k - 1) /\ g[k] = Nth(q, n, k)
          BY <4>1
        <4> HIDE DEF g
        <4> QED BY <1>3, <3>2, <4>1, <4>2
      <3> QED BY <3>1, <3>2
    <2>2. g = [k \in 1 .. MaxBuckets |-> g[k]] /\ turns(g) = [k \in 1 .. MaxBuckets |-> turns(g)[k]]
      OBVIOUS
    <2> DEFINE h == turns(g)
    <2> HIDE DEF g, h
    <2>3. g = h
      BY <2>1, <2>2 DEF h
    <2> QED BY <2>3 DEF h
  <1>5. f = CHOOSE e : e = turns(e)
    BY DEF FreeBucket
  <1>6. f = turns(f)
    <2> HIDE DEF g, f
    <2> QED BY <1>4, <1>5
  <1>7. /\ f[1] = cache.firstFree
        /\ \A k \in 1 .. MaxBuckets : k # 1 =>
              f[k] = IF f[k - 1] \in Buckets /\ file[f[k - 1]] \in Links
                     THEN file[f[k - 1]][1] ELSE NoBucket
    <2> HIDE DEF f, g
    <2>1. 1 \in 1 .. MaxBuckets
      BY Assumed
    <2>2. f[1] = turns(f)[1] /\ \A k \in 1 .. MaxBuckets : f[k] = turns(f)[k]
      BY <1>6
    <2> QED BY <2>1, <2>2
  <1> HIDE DEF f, g
  <1> DEFINE T == {k \in Nat : k > 0 => f[k] = Nth(q, n, k)}
  <1>8. 0 \in T
    OBVIOUS
  <1>9. ASSUME NEW k \in 1 .. MaxBuckets, k - 1 \in T
        PROVE  k \in T
    <2>1. k \in Nat
      BY Assumed
    <2>2. CASE k = 1
      BY <1>2, <1>7, <2>1, <2>2
    <2>3. CASE k # 1
      <3>1. k > 1 /\ k - 1 \in Nat /\ k - 1 > 0
        BY <2>1, <2>3
      <3>2. f[k - 1] = Nth(q, n, k - 1)
        BY <1>9, <3>1
      <3>3. f[k] = IF f[k - 1] \in Buckets /\ file[f[k - 1]] \in Links
                   THEN file[f[k - 1]][1] ELSE NoBucket
        BY <1>7, <2>3
      <3> QED BY <1>3, <2>1, <3>1, <3>2, <3>3
    <2> QED BY <2>2, <2>3
  <1> HIDE DEF T
  <1>10. \A k \in 0 .. MaxBuckets : k \in T
    BY <1>8, <1>9, Assumed, TurnInduction
  <1>11. ASSUME NEW k \in 1 .. MaxBuckets
         PROVE  FreeBucket[k] = Nth(q, cache.nrFree, k)
    <2>1. k \in T /\ k > 0
      BY <1>10, Assumed
    <2> QED BY <2>1 DEF T, f, n
  <1> QED BY <1>11

-----------------------------------------------------------------------------
(* What the calls do to the buckets and to the free list.                   *)

Same(s, t) == Whole(t) /\ Keeps(s, t)

Replaces(s, t, b, data) ==
    /\ b < s.c.newNr /\ ContentOf(s, b) \in Data
    /\ Changes(s, t, b, data)
    /\ t.c.newNr = s.c.newNr /\ t.c.nrFree = s.c.nrFree /\ t.c.firstFree = s.c.firstFree

AddsFree(s, t, q, data) ==
    /\ s.c.nrFree > 0 /\ q[1] < s.c.newNr
    /\ Changes(s, t, q[1], data)
    /\ t.c.newNr = s.c.newNr /\ t.c.nrFree = s.c.nrFree - 1
    /\ IsFreeList(After(q, s.c.nrFree), t)

AddsEnd(s, t, data) ==
    /\ s.c.newNr < MaxBuckets
    /\ Changes(s, t, s.c.newNr, data)
    /\ t.c.newNr = s.c.newNr + 1
    /\ s.c.nrFree = 0 /\ t.c.nrFree = 0
    /\ s.c.firstFree = NoBucket /\ t.c.firstFree = NoBucket

Frees(s, t, q, b) ==
    /\ b < s.c.newNr /\ ContentOf(s, b) \in Data
    /\ Changes(s, t, b, Link(s.c.firstFree))
    /\ t.c.newNr = s.c.newNr /\ t.c.nrFree = s.c.nrFree + 1
    /\ IsFreeList(Before(b, q, s.c.nrFree), t)

Extends(s, t, n) ==
    /\ Whole(t) /\ s.c.newNr + n <= MaxBuckets /\ t.c.newNr = s.c.newNr + n
    /\ t.c.curNr = s.c.curNr
    /\ t.c.nrFree = s.c.nrFree /\ t.c.firstFree = s.c.firstFree
    /\ \A b \in Buckets : ContentOf(t, b) = ContentOf(s, b)
    /\ Aged(s) => Aged(t)

Answers(answer) == got' = answer

LEMMA WholeState ==
    ASSUME NEW s, Whole(s)
    PROVE  s \in StateValue
  BY WholeFields DEF Shaped

\* Nothing is changed before the change.
LEMMA KeepsChanges ==
    ASSUME NEW s, NEW u, NEW t, NEW b, NEW content, Whole(s), Whole(u), Keeps(s, u),
           Changes(u, t, b, content)
    PROVE  Changes(s, t, b, content)
  <1>1. s.c.curNr \in Nat /\ u.c.curNr \in Nat /\ t.c.curNr \in Nat
    BY WholeFields DEF Changes
  <1>2. s.c.curNr <= t.c.curNr
    BY <1>1 DEF Keeps, Changes
  <1> QED BY <1>2 DEF Keeps, Changes

LEMMA ReadIs ==
    ASSUME Whole(State), NEW b \in Buckets, Read(b)
    PROVE  /\ Same(State, State') /\ Answers(ContentOf(State, b))
           /\ b < cache.newNr /\ ContentOf(State, b) \in Data
  <1> DEFINE t == GetBucket(State, b)
  <1>1. InUse(b) /\ Becomes(t) /\ got' = t.c.slot[t.c.actual].data
    BY DEF Read
  <1>2. b < cache.newNr /\ ContentOf(State, b) \in Data
    BY <1>1, ContentIs
  <1>3. Whole(t) /\ Keeps(State, t) /\ IsActual(t, b, ContentOf(State, b))
    BY <1>2, StateIs, GetBucketIs
  <1> HIDE DEF t
  <1>4. State' = t
    BY <1>1, <1>3, WholeState, NextStateIs
  <1> QED BY <1>1, <1>2, <1>3, <1>4 DEF Same, Answers, IsActual

LEMMA WriteIs ==
    ASSUME Whole(State), NEW b \in Buckets, NEW data \in Data, Write(b, data)
    PROVE  Replaces(State, State', b, data) /\ Answers(NoAnswer)
  <1> DEFINE u == GetBucket(State, b)
             t == Updated(u, data)
  <1>1. InUse(b) /\ Becomes(t) /\ got' = NoAnswer
    BY DEF Write, Updated
  <1>2. b < State.c.newNr /\ ContentOf(State, b) \in Data
    BY <1>1, ContentIs, StateIs
  <1>3. Whole(u) /\ Keeps(State, u) /\ IsActual(u, b, ContentOf(State, b))
    BY <1>2, GetBucketIs
  <1> HIDE DEF u
  <1>4. /\ Changes(u, t, b, data)
        /\ t.c.newNr = u.c.newNr /\ t.c.nrFree = u.c.nrFree /\ t.c.firstFree = u.c.firstFree
    BY <1>3, UpdatedIs
  <1> HIDE DEF t
  <1>5. Changes(State, t, b, data)
    BY <1>3, <1>4, KeepsChanges
  <1>6. State' = t
    BY <1>1, <1>4, WholeState, NextStateIs DEF Changes
  <1>7. Replaces(State, t, b, data)
    BY <1>2, <1>3, <1>4, <1>5 DEF Replaces, Keeps
  <1> QED BY <1>1, <1>6, <1>7 DEF Answers

LEMMA AddIs ==
    ASSUME Whole(State), NEW q, IsFreeList(q, State), NEW data \in Data, Add(data)
    PROVE  /\ AddsFree(State, State', q, data) \/ AddsEnd(State, State', data)
           /\ Answers(NoAnswer)
  <1> DEFINE t == AddBucket(State, data)
  <1>1. /\ State.c.firstFree >= 0 \/ State.c.newNr < MaxBuckets
        /\ Becomes(t) /\ got' = NoAnswer
    BY StateIs DEF Add
  <1>2. CASE State.c.firstFree >= 0
    <2>1. /\ State.c.nrFree > 0 /\ State.c.firstFree = q[1] /\ State.c.firstFree < State.c.newNr
          /\ Changes(State, t, State.c.firstFree, data)
          /\ t.c.newNr = State.c.newNr /\ t.c.nrFree = State.c.nrFree - 1
          /\ IsFreeList(After(q, State.c.nrFree), t)
      BY <1>2, AddFromFreeList
    <2> HIDE DEF t
    <2>2. AddsFree(State, t, q, data)
      BY <2>1 DEF AddsFree
    <2>3. State' = t
      BY <1>1, <2>1, WholeState, NextStateIs DEF Changes
    <2> QED BY <1>1, <2>2, <2>3 DEF Answers
  <1>3. CASE ~(State.c.firstFree >= 0)
    <2>1. /\ State.c.nrFree = 0 /\ State.c.firstFree = NoBucket
          /\ Changes(State, t, State.c.newNr, data)
          /\ t.c.newNr = State.c.newNr + 1 /\ t.c.nrFree = 0 /\ t.c.firstFree = NoBucket
      BY <1>1, <1>3, AddAtEndIs
    <2> HIDE DEF t
    <2>2. AddsEnd(State, t, data)
      BY <1>1, <1>3, <2>1 DEF AddsEnd
    <2>3. State' = t
      BY <1>1, <2>1, WholeState, NextStateIs DEF Changes
    <2> QED BY <1>1, <2>2, <2>3 DEF Answers
  <1> QED BY <1>2, <1>3

LEMMA DiscardIs ==
    ASSUME Whole(State), NEW q, IsFreeList(q, State), NEW b \in Buckets, Discard(b)
    PROVE  Frees(State, State', q, b) /\ Answers(NoAnswer)
  <1> DEFINE u == GetBucket(State, b)
             t == RemoveBucket(u)
  <1>1. InUse(b) /\ Becomes(t) /\ got' = NoAnswer
    BY DEF Discard
  <1>2. b < State.c.newNr /\ ContentOf(State, b) \in Data
    BY <1>1, ContentIs, StateIs
  <1>3. Whole(u) /\ Keeps(State, u) /\ IsActual(u, b, ContentOf(State, b))
    BY <1>2, GetBucketIs
  <1> HIDE DEF u
  <1>4. /\ u.c.newNr = State.c.newNr /\ u.c.nrFree = State.c.nrFree
        /\ u.c.firstFree = State.c.firstFree /\ State.c.curNr <= u.c.curNr
        /\ \A a \in Buckets : ContentOf(u, a) = ContentOf(State, a)
    BY <1>3 DEF Keeps
  <1>5. IsFreeList(q, u)
    <2>1. \A k \in 1 .. State.c.nrFree : q[k] \in Buckets
      BY DEF IsFreeList
    <2> QED BY <1>3, <1>4, <2>1, FreeListKept
  <1>6. /\ Changes(u, t, b, Link(u.c.firstFree))
        /\ t.c.newNr = u.c.newNr /\ t.c.nrFree = u.c.nrFree + 1
        /\ IsFreeList(Before(b, q, u.c.nrFree), t)
    BY <1>3, <1>5, RemoveBucketIs
  <1> HIDE DEF t
  <1>7. Changes(State, t, b, Link(State.c.firstFree))
    BY <1>3, <1>4, <1>6, KeepsChanges
  <1>8. Frees(State, t, q, b)
    BY <1>2, <1>4, <1>6, <1>7 DEF Frees
  <1>9. State' = t
    BY <1>1, <1>6, WholeState, NextStateIs DEF Changes
  <1> QED BY <1>1, <1>8, <1>9 DEF Answers

LEMMA ExtendIs ==
    ASSUME Whole(State), NEW n \in Nat, Extend(n)
    PROVE  Extends(State, State', n) /\ Answers(NoAnswer)
  <1> DEFINE t == ExtendBy(State, n)
  <1>1. State.c.newNr + n <= MaxBuckets /\ Becomes(t) /\ got' = NoAnswer
    BY StateIs DEF Extend
  <1>2. Extends(State, t, n)
    BY <1>1, ExtendByIs DEF Extends
  <1> HIDE DEF t
  <1>3. State' = t
    BY <1>1, <1>2, WholeState, NextStateIs DEF Extends
  <1> QED BY <1>1, <1>2, <1>3 DEF Answers

LEMMA FlushIs ==
    ASSUME Whole(State), Flush
    PROVE  Same(State, State') /\ Answers(NoAnswer)
  <1> DEFINE t == FlushFrom(State, 0)
  <1>1. Becomes(t) /\ got' = NoAnswer
    BY DEF Flush
  <1>2. Whole(t) /\ Keeps(State, t)
    BY FlushFromIs DEF Writes
  <1> HIDE DEF t
  <1>3. State' = t
    BY <1>1, <1>2, WholeState, NextStateIs
  <1> QED BY <1>1, <1>2, <1>3 DEF Answers, Same

LEMMA ResizeIs ==
    ASSUME Whole(State), NEW size \in Sizes, ~Forgetful, Resize(size)
    PROVE  Same(State, State') /\ Answers(NoAnswer)
  <1> DEFINE t == ResizeTo(State, size)
  <1>1. /\ ~Forgets(State.c, size)
        /\ Becomes(t) /\ got' = NoAnswer
    BY StateIs DEF Resize
  <1>2. Whole(t) /\ Keeps(State, t)
    <2>1. size \in Nat
      BY Assumed
    <2> QED BY <1>1, <2>1, ResizeToIs
  <1> HIDE DEF t
  <1>3. State' = t
    BY <1>1, <1>2, WholeState, NextStateIs
  <1> QED BY <1>1, <1>2, <1>3 DEF Answers, Same

-----------------------------------------------------------------------------
(* The updates of another process.                                          *)

\* It has put something in bucket b, which may be a new one.
LEMMA ResyncIs ==
    ASSUME Whole(State), NEW b \in Buckets, NEW content \in Data \cup Links,
           NEW nr \in 0 .. MaxBuckets, nr = cache.newNr \/ (nr = cache.newNr + 1 /\ b = cache.newNr),
           b < nr, NEW nrFree \in Int, NEW firstFree \in Buckets \cup {NoBucket},
           Resync([file EXCEPT ![b] = content], nr, nrFree, firstFree)
    PROVE  /\ Changes(State, State', b, content) /\ Answers(NoAnswer)
           /\ State'.c.newNr = nr /\ State'.c.nrFree = nrFree /\ State'.c.firstFree = firstFree
  <1> DEFINE f == [file EXCEPT ![b] = content]
             t == ResyncTo([c |-> State.c, f |-> f], nr, nrFree, firstFree)
  <1>1. State.c = cache /\ State.f = file
    BY StateIs
  <1>2. /\ Becomes(t) /\ got' = NoAnswer /\ IsFlushed(State)
    BY <1>1 DEF Resync, Flushed, IsFlushed
  <1>3. /\ file \in [Buckets -> Contents] /\ Consistent(State, {})
        /\ State.c.newNr \in Nat /\ State.c.curNr = State.c.newNr /\ State.c.newNr <= nr
    BY <1>1, <1>2, WholeFields, CacheFields DEF IsFlushed
  <1>4. /\ f \in [Buckets -> Contents] /\ f[b] = content
        /\ \A a \in Buckets : a # b => f[a] = file[a]
    <2>1. content \in Contents
      BY DEF Contents
    <2> QED BY <1>3, <2>1
  <1> HIDE DEF f
  <1>5. Taken(t, f, nr, nrFree, firstFree)
    BY <1>2, <1>3, <1>4, ResyncToIs
  <1> HIDE DEF t
  <1>6. \A a \in Buckets : a # b /\ a < nr =>
            a < State.c.curNr /\ f[a] = ContentOf(State, a) /\ f[a] \in Data \cup Links
    <2>1. ASSUME NEW a \in Buckets, a # b, a < nr
          PROVE  a < State.c.curNr
      BY <1>1, <1>3, <2>1, BucketsAre
    <2>2. ASSUME NEW a \in Buckets, a # b, a < State.c.curNr
          PROVE  f[a] = ContentOf(State, a) /\ f[a] \in Data \cup Links
      <3>1. State.f[a] = ContentOf(State, a) /\ State.f[a] \in Data \cup Links
        BY <1>2, <2>2, FlushedIs
      <3> QED BY <1>1, <1>4, <2>2, <3>1
    <2> QED BY <2>1, <2>2
  <1>7. /\ Whole(t) /\ Aged(t)
        /\ \A a \in Buckets : ContentOf(t, a) = IF a < nr THEN f[a] ELSE Fresh
    <2>1. \A a \in Buckets : a < nr => f[a] \in Data \cup Links
      BY <1>4, <1>6
    <2> QED BY <1>5, <2>1, TakenIs
  <1>8. ASSUME NEW a \in Buckets \ {b}
        PROVE  ContentOf(t, a) = ContentOf(State, a)
    <2>1. CASE a < nr
      BY <1>6, <1>7, <2>1
    <2>2. CASE ~(a < nr)
      <3>1. ~(a < State.c.curNr)
        BY <1>3, <2>2, BucketsAre
      <3> QED BY <1>7, <2>2, <3>1 DEF ContentOf
    <2> QED BY <2>1, <2>2
  <1>9. ContentOf(t, b) = content
    BY <1>4, <1>7
  <1>10. Changes(State, t, b, content)
    BY <1>3, <1>5, <1>7, <1>8, <1>9 DEF Changes, Taken
  <1>11. State' = t
    BY <1>2, <1>7, WholeState, NextStateIs
  <1> QED BY <1>2, <1>5, <1>7, <1>10, <1>11 DEF Taken, Answers

LEMMA OthersWriteIs ==
    ASSUME Whole(State), NEW b \in Buckets, NEW data \in Data, OthersWrite(b, data)
    PROVE  Replaces(State, State', b, data) /\ Answers(NoAnswer)
  <1>1. InUse(b) /\ Resync([file EXCEPT ![b] = data], cache.newNr, cache.nrFree, cache.firstFree)
    BY DEF OthersWrite
  <1>2. b < State.c.newNr /\ ContentOf(State, b) \in Data /\ State.c = cache
    BY <1>1, ContentIs, StateIs
  <1>3. /\ cache.newNr \in 0 .. MaxBuckets /\ cache.nrFree \in Int
        /\ cache.firstFree \in Buckets \cup {NoBucket}
    BY <1>2, WholeFields, CacheFields
  <1>4. /\ Changes(State, State', b, data) /\ Answers(NoAnswer)
        /\ State'.c.newNr = cache.newNr /\ State'.c.nrFree = cache.nrFree
        /\ State'.c.firstFree = cache.firstFree
    BY <1>1, <1>2, <1>3, ResyncIs
  <1> QED BY <1>2, <1>4 DEF Replaces

LEMMA OthersAddIs ==
    ASSUME Whole(State), NEW q, IsFreeList(q, State), NEW data \in Data, OthersAdd(data)
    PROVE  /\ AddsFree(State, State', q, data) \/ AddsEnd(State, State', data)
           /\ Answers(NoAnswer)
  <1> DEFINE b == cache.firstFree
             n == cache.nrFree
             next == Nth(q, n, 2)
  <1>1. State.c = cache /\ State.f = file
    BY StateIs
  <1>2. cache.newNr \in 0 .. MaxBuckets /\ cache.nrFree \in Int
    BY <1>1, WholeFields, CacheFields
  <1>3. CASE b >= 0 /\ Resync([file EXCEPT ![b] = data], cache.newNr, cache.nrFree - 1, file[b][1])
    <2>1. /\ n \in Nat /\ n > 0 /\ b = q[1] /\ b \in Buckets /\ b < cache.newNr
          /\ file[b][1] = next /\ next \in Buckets \cup {NoBucket}
      BY <1>1, <1>3, FirstFreeIs
    <2>2. Resync([file EXCEPT ![b] = data], cache.newNr, cache.nrFree - 1, next)
      BY <1>3, <2>1
    <2> HIDE DEF next, b
    <2>3. /\ Changes(State, State', b, data) /\ Answers(NoAnswer)
          /\ State'.c.newNr = cache.newNr /\ State'.c.nrFree = cache.nrFree - 1
          /\ State'.c.firstFree = next
      <3>1. cache.nrFree - 1 \in Int /\ data \in Data \cup Links
        BY <1>2
      <3> HIDE DEF n
      <3> QED BY <1>2, <2>1, <2>2, <3>1, ResyncIs
    <2>4. IsFreeList(After(q, n), State')
      <3>1. Whole(State') /\ State.c.curNr <= State'.c.curNr
            /\ \A a \in Buckets \ {q[1]} : ContentOf(State', a) = ContentOf(State, a)
        BY <2>1, <2>3 DEF Changes
      <3> QED BY <1>1, <2>1, <2>3, <3>1, FreeListShorter DEF next
    <2>5. AddsFree(State, State', q, data)
      BY <1>1, <2>1, <2>3, <2>4 DEF AddsFree
    <2> QED BY <2>3, <2>5
  <1>4. CASE b < 0 /\ cache.newNr < MaxBuckets
             /\ Resync([file EXCEPT ![cache.newNr] = data], cache.newNr + 1, 0, NoBucket)
    <2>1. cache.nrFree = 0 /\ cache.firstFree = NoBucket
      <3>1. ~(cache.firstFree >= 0)
        <4>1. cache.firstFree \in Int
          <5>1. cache.firstFree \in Buckets \cup {NoBucket}
            BY <1>1, WholeFields, CacheFields
          <5> QED BY <5>1, BucketsAre DEF NoBucket
        <4> QED BY <1>4, <4>1
      <3> QED BY <1>1, <3>1, NoneFree
    <2>2. cache.newNr \in Buckets /\ cache.newNr < cache.newNr + 1
          /\ cache.newNr + 1 \in 0 .. MaxBuckets
      BY <1>2, <1>4, Assumed DEF Buckets
    <2>3. /\ Changes(State, State', cache.newNr, data) /\ Answers(NoAnswer)
          /\ State'.c.newNr = cache.newNr + 1 /\ State'.c.nrFree = 0
          /\ State'.c.firstFree = NoBucket
      <3>1. 0 \in Int /\ data \in Data \cup Links
        OBVIOUS
      <3> DEFINE a == cache.newNr
                 nr == cache.newNr + 1
      <3>2. a \in Buckets /\ a < nr /\ nr \in 0 .. MaxBuckets /\ nr = cache.newNr + 1 /\ a = cache.newNr
            /\ Resync([file EXCEPT ![a] = data], nr, 0, NoBucket)
        BY <1>4, <2>2
      <3> HIDE DEF a, nr
      <3>3. /\ Changes(State, State', a, data) /\ Answers(NoAnswer)
            /\ State'.c.newNr = nr /\ State'.c.nrFree = 0
            /\ State'.c.firstFree = NoBucket
        BY <3>1, <3>2, ResyncIs
      <3> QED BY <3>2, <3>3
    <2>4. AddsEnd(State, State', data)
      BY <1>1, <1>4, <2>1, <2>3 DEF AddsEnd
    <2> QED BY <2>3, <2>4
  <1>5. \/ b >= 0 /\ Resync([file EXCEPT ![b] = data], cache.newNr, cache.nrFree - 1, file[b][1])
        \/ b < 0 /\ cache.newNr < MaxBuckets
             /\ Resync([file EXCEPT ![cache.newNr] = data], cache.newNr + 1, 0, NoBucket)
    BY DEF OthersAdd
  <1> QED BY <1>3, <1>4, <1>5

LEMMA OthersRemoveIs ==
    ASSUME Whole(State), NEW q, IsFreeList(q, State), NEW b \in Buckets, OthersRemove(b)
    PROVE  Frees(State, State', q, b) /\ Answers(NoAnswer)
  <1> DEFINE n == cache.nrFree
             link == Link(cache.firstFree)
  <1>1. /\ InUse(b)
        /\ Resync([file EXCEPT ![b] = link], cache.newNr, n + 1, b)
    BY DEF OthersRemove
  <1>2. b < State.c.newNr /\ ContentOf(State, b) \in Data /\ State.c = cache
    BY <1>1, ContentIs, StateIs
  <1>3. /\ cache.newNr \in 0 .. MaxBuckets /\ n \in Nat /\ n + 1 \in Int
        /\ link \in Data \cup Links /\ b \in Buckets \cup {NoBucket}
    <2>1. n \in Nat
      BY <1>2 DEF IsFreeList
    <2>2. cache.newNr \in 0 .. MaxBuckets /\ cache.firstFree \in Buckets \cup {NoBucket}
      BY <1>2, WholeFields, CacheFields
    <2> QED BY <2>1, <2>2, LinkIs
  <1> HIDE DEF link, n
  <1>4. /\ Changes(State, State', b, link) /\ Answers(NoAnswer)
        /\ State'.c.newNr = cache.newNr /\ State'.c.nrFree = n + 1
        /\ State'.c.firstFree = b
    <2> DEFINE m == n + 1
    <2>1. m \in Int /\ Resync([file EXCEPT ![b] = link], cache.newNr, m, b)
      BY <1>1, <1>3
    <2> HIDE DEF m
    <2>2. /\ Changes(State, State', b, link) /\ Answers(NoAnswer)
          /\ State'.c.newNr = cache.newNr /\ State'.c.nrFree = m
          /\ State'.c.firstFree = b
      BY <1>2, <1>3, <2>1, ResyncIs
    <2> QED BY <2>2 DEF m
  <1>5. IsFreeList(Before(b, q, State.c.nrFree), State')
    <2>1. /\ Whole(State') /\ ContentOf(State', b) = Link(State.c.firstFree)
          /\ \A a \in Buckets \ {b} : ContentOf(State', a) = ContentOf(State, a)
          /\ State.c.curNr <= State'.c.curNr
      BY <1>2, <1>4 DEF Changes, link
    <2>2. b < State'.c.curNr
      <3>1. ContentOf(State', b) # Fresh
        <4>1. Link(cache.firstFree) \notin Data
          <5>1. cache.firstFree \in Buckets \cup {NoBucket}
            BY <1>2, WholeFields, CacheFields
          <5> QED BY <5>1, LinkIs
        <4> QED BY <1>2, <2>1, <4>1, Assumed
      <3> QED BY <3>1 DEF ContentOf
    <2> QED BY <1>2, <1>4, <2>1, <2>2, FreeListLonger DEF n
  <1>6. Frees(State, State', q, b)
    BY <1>2, <1>4, <1>5 DEF Frees, link, n
  <1> QED BY <1>1, <1>4, <1>6

-----------------------------------------------------------------------------
(* The inductive invariant.                                                 *)

IInv ==
    /\ Whole(State) /\ Aged(State)
    /\ \E q : IsFreeList(q, State)
    /\ got \in Data \cup {NoAnswer}

LEMMA InitHolds == Init => IInv
  <1> SUFFICES ASSUME Init
               PROVE  IInv
    OBVIOUS
  <1>1. PICK size \in Sizes \ {0} :
          cache = [size |-> size, used |-> 0, actual |-> 0,
                   curNr |-> 0, newNr |-> 0,
                   slot |-> [s \in 0 .. (size - 1) |-> EmptySlot],
                   slotNr |-> [b \in Buckets |-> -1],
                   counter |-> 0, nrFree |-> 0, firstFree |-> NoBucket]
    BY DEF Init
  <1>2. file = [b \in Buckets |-> Unset] /\ got = NoAnswer
    BY DEF Init
  <1>3. State.c = cache /\ State.f = file /\ size \in Nat \ {0}
    BY <1>1, StateIs, Assumed
  <1> DEFINE slot == [s \in 0 .. (size - 1) |-> EmptySlot]
             nrs == [b \in Buckets |-> -1]
  <1>4. slot \in [0 .. (size - 1) -> SlotValue] /\ slot \in SlotsValue
    <2>1. EmptySlot \in SlotValue
      BY Assumed DEF EmptySlot, SlotValue, Buckets
    <2>2. slot \in [0 .. (size - 1) -> SlotValue]
      BY <2>1
    <2> HIDE DEF slot
    <2> QED BY <1>3, <2>2 DEF SlotsValue
  <1>5. nrs \in [Buckets -> Int] /\ \A b \in Buckets : nrs[b] = -1
    OBVIOUS
  <1> HIDE DEF slot, nrs
  <1>6. /\ cache.size = size /\ cache.used = 0 /\ cache.actual = 0 /\ cache.curNr = 0
        /\ cache.newNr = 0 /\ cache.slot = slot /\ cache.slotNr = nrs /\ cache.counter = 0
        /\ cache.nrFree = 0 /\ cache.firstFree = NoBucket
    BY <1>1 DEF slot, nrs
  <1>7. cache \in CacheValue
    <2>1. 0 \in Nat /\ 0 \in Int /\ 0 \in 0 .. MaxBuckets /\ 0 \in 0 .. MaxLRU
      BY Assumed
    <2>2. cache = [size |-> size, used |-> 0, actual |-> 0,
                   curNr |-> 0, newNr |-> 0, slot |-> slot, slotNr |-> nrs,
                   counter |-> 0, nrFree |-> 0, firstFree |-> NoBucket]
      BY <1>1 DEF slot, nrs
    <2> QED BY <1>3, <1>4, <1>5, <2>1, <2>2 DEF CacheValue
  <1>8. State \in StateValue
    <2>1. file \in [Buckets -> Contents]
      BY <1>2 DEF Contents
    <2> QED BY <1>7, <2>1 DEF State, StateValue
  <1>9. Shaped(State)
    BY <1>3, <1>4, <1>6, <1>8 DEF Shaped, Slots
  <1>10. UsedSlots(State.c) = {} /\ Used(State, {}) = {}
    BY <1>3, <1>6 DEF UsedSlots, Used
  <1>11. Linked(State, {}) /\ Marked(State, {}) /\ Aged(State)
    BY <1>3, <1>5, <1>6, <1>10 DEF Linked, Marked, Aged
  <1>12. Whole(State)
    <2>1. \A b \in Buckets : ~(b < 0)
      BY BucketsAre
    <2> QED BY <1>3, <1>5, <1>6, <1>9, <1>11, <2>1 DEF Whole, Consistent
  <1>13. \E q : IsFreeList(q, State)
    <2> DEFINE q == [k \in 1 .. 0 |-> 0]
    <2>1. 1 .. 0 = {}
      OBVIOUS
    <2>2. q \in [1 .. 0 -> Buckets]
      BY <2>1
    <2> HIDE DEF q
    <2>3. Nth(q, 0, 1) = NoBucket
      BY DEF Nth
    <2>4. IsFreeList(q, State)
      BY <1>3, <1>6, <2>1, <2>2, <2>3 DEF IsFreeList
    <2> QED BY <2>4
  <1> QED BY <1>2, <1>6, <1>11, <1>12, <1>13 DEF IInv

\* What any step does.
Outcome(q) ==
    \/ \E b \in Buckets :
          /\ Same(State, State') /\ Answers(ContentOf(State, b))
          /\ b < cache.newNr /\ ContentOf(State, b) \in Data
    \/ Same(State, State') /\ Answers(NoAnswer)
    \/ \E b \in Buckets, data \in Data : Replaces(State, State', b, data) /\ Answers(NoAnswer)
    \/ \E data \in Data :
          /\ AddsFree(State, State', q, data) \/ AddsEnd(State, State', data)
          /\ Answers(NoAnswer)
    \/ \E b \in Buckets : Frees(State, State', q, b) /\ Answers(NoAnswer)
    \/ \E n \in 1 .. 2 : Extends(State, State', n) /\ Answers(NoAnswer)

LEMMA Outcomes ==
    ASSUME IInv, ~Forgetful, Next, NEW q, IsFreeList(q, State)
    PROVE  Outcome(q)
  <1>1. Whole(State)
    BY DEF IInv
  <1>2. ASSUME NEW b \in Buckets, Read(b)
        PROVE  Outcome(q)
    BY <1>1, <1>2, ReadIs DEF Outcome
  <1>3. ASSUME NEW b \in Buckets, Discard(b) \/ OthersRemove(b)
        PROVE  Outcome(q)
    BY <1>1, <1>3, DiscardIs, OthersRemoveIs DEF Outcome
  <1>4. ASSUME NEW b \in Buckets, NEW data \in Data, Write(b, data) \/ OthersWrite(b, data)
        PROVE  Outcome(q)
    BY <1>1, <1>4, WriteIs, OthersWriteIs DEF Outcome
  <1>5. ASSUME NEW data \in Data, Add(data) \/ OthersAdd(data)
        PROVE  Outcome(q)
    BY <1>1, <1>5, AddIs, OthersAddIs DEF Outcome
  <1>6. ASSUME NEW n \in 1 .. 2, Extend(n)
        PROVE  Outcome(q)
    <2>1. n \in Nat
      OBVIOUS
    <2> QED BY <1>1, <1>6, <2>1, ExtendIs DEF Outcome
  <1>7. ASSUME Flush
        PROVE  Outcome(q)
    BY <1>1, <1>7, FlushIs DEF Outcome
  <1>8. ASSUME NEW size \in Sizes, Resize(size)
        PROVE  Outcome(q)
    BY <1>1, <1>8, ResizeIs DEF Outcome
  <1> QED BY <1>2, <1>3, <1>4, <1>5, <1>6, <1>7, <1>8 DEF Next

\* Where the free list stays as it is.
LEMMA ListStays ==
    ASSUME NEW s, NEW t, Whole(s), NEW q, IsFreeList(q, s),
           \/ Same(s, t)
           \/ \E b \in Buckets, data \in Data : Replaces(s, t, b, data)
           \/ \E data \in Data : AddsEnd(s, t, data)
           \/ \E n \in 1 .. 2 : Extends(s, t, n)
    PROVE  IsFreeList(q, t)
  <1>1. /\ s.c.nrFree \in Nat /\ q \in [1 .. s.c.nrFree -> Buckets]
        /\ \A k \in 1 .. s.c.nrFree : q[k] \in Buckets
    BY DEF IsFreeList
  <1>2. ASSUME NEW k \in 1 .. s.c.nrFree
        PROVE  ContentOf(s, q[k]) \notin Data
    <2>1. k + 1 \in Nat \ {0}
      BY <1>1
    <2>2. Nth(q, s.c.nrFree, k + 1) \in Buckets \cup {NoBucket}
      BY <1>1, <2>1, NthIs
    <2> QED BY <2>2, LinkIs DEF IsFreeList
  <1>3. CASE Same(s, t)
    BY <1>1, <1>3, FreeListKept DEF Same, Keeps
  <1>4. ASSUME NEW b \in Buckets, NEW data \in Data, Replaces(s, t, b, data)
        PROVE  IsFreeList(q, t)
    <2>1. \A k \in 1 .. s.c.nrFree : q[k] # b
      BY <1>2, <1>4 DEF Replaces
    <2>2. \A k \in 1 .. s.c.nrFree : ContentOf(t, q[k]) = ContentOf(s, q[k])
      BY <1>1, <1>4, <2>1 DEF Replaces, Changes
    <2> QED BY <1>4, <2>2, FreeListKept DEF Replaces, Changes
  <1>5. ASSUME NEW data \in Data, AddsEnd(s, t, data)
        PROVE  IsFreeList(q, t)
    <2>1. \A k \in 1 .. s.c.nrFree : FALSE
      BY <1>5 DEF AddsEnd
    <2> QED BY <1>5, <2>1, FreeListKept DEF AddsEnd, Changes
  <1>6. ASSUME NEW n \in 1 .. 2, Extends(s, t, n)
        PROVE  IsFreeList(q, t)
    <2>1. s.c.curNr \in Nat /\ s.c.curNr <= t.c.curNr
      BY <1>6, WholeFields DEF Extends
    <2> QED BY <1>1, <1>6, <2>1, FreeListKept DEF Extends
  <1> QED BY <1>3, <1>4, <1>5, <1>6

LEMMA Preserved ==
    ASSUME IInv, NEW q, IsFreeList(q, State), Outcome(q)
    PROVE  IInv'
  <1>1. State.c = cache /\ State'.c = cache' /\ State.f = file
    BY StateIs DEF State
  <1>2. Whole(State) /\ Aged(State)
    BY DEF IInv
  <1> DEFINE Kept(list) ==
               Whole(State') /\ Aged(State') /\ IsFreeList(list, State')
             Told(answer) == answer \in Data \cup {NoAnswer} /\ Answers(answer)
  <1>3. ASSUME NEW list, Kept(list), NEW answer, Told(answer)
        PROVE  IInv'
    <2>1. Whole(State)' /\ Aged(State)' /\ (\E l : IsFreeList(l, State))'
      BY <1>3
    <2> QED BY <1>3, <2>1 DEF IInv, Answers
  <1>4. ASSUME Same(State, State')
        PROVE  Kept(q)
    BY <1>2, <1>4, ListStays DEF Same, Keeps
  <1>5. ASSUME NEW b \in Buckets, NEW data \in Data, Replaces(State, State', b, data)
        PROVE  Kept(q)
    <2>1. IsFreeList(q, State')
      BY <1>2, <1>5, ListStays
    <2> QED BY <1>2, <1>5, <2>1 DEF Replaces, Changes
  <1>6. ASSUME NEW data \in Data, AddsFree(State, State', q, data)
        PROVE  Kept(After(q, State.c.nrFree))
    BY <1>2, <1>6 DEF AddsFree, Changes
  <1>7. ASSUME NEW data \in Data, AddsEnd(State, State', data)
        PROVE  Kept(q)
    <2>1. IsFreeList(q, State')
      BY <1>2, <1>7, ListStays
    <2> QED BY <1>2, <1>7, <2>1 DEF AddsEnd, Changes
  <1>8. ASSUME NEW b \in Buckets, Frees(State, State', q, b)
        PROVE  Kept(Before(b, q, State.c.nrFree))
    BY <1>2, <1>8 DEF Frees, Changes
  <1>9. ASSUME NEW n \in 1 .. 2, Extends(State, State', n)
         PROVE  Kept(q)
    <2>1. IsFreeList(q, State')
      BY <1>2, <1>9, ListStays
    <2> QED BY <1>2, <1>9, <2>1 DEF Extends
  <1> HIDE DEF Kept
  <1>10. Answers(NoAnswer) => Told(NoAnswer)
    OBVIOUS
  <1>11. \A b \in Buckets : ContentOf(State, b) \in Data /\ Answers(ContentOf(State, b))
             => Told(ContentOf(State, b))
    OBVIOUS
  <1> HIDE DEF Told
  <1> QED BY <1>3, <1>4, <1>5, <1>6, <1>7, <1>8, <1>9, <1>10, <1>11 DEF Outcome

\* As long as no shrink makes the cache forget a bucket.
LEMMA InvariantHolds == ~Forgetful => (Spec => []IInv)
  <1> SUFFICES ASSUME ~Forgetful
               PROVE  Spec => []IInv
    OBVIOUS
  <1>1. ASSUME IInv, [Next]_vars
        PROVE  IInv'
    <2>1. CASE Next
      <3>1. PICK q : IsFreeList(q, State)
        BY <1>1 DEF IInv
      <3> QED BY <1>1, <2>1, <3>1, Outcomes, Preserved
    <2>2. CASE UNCHANGED vars
      <3>1. cache' = cache /\ file' = file /\ got' = got
        BY <2>2 DEF vars
      <3>2. State' = State
        BY <3>1 DEF State
      <3> QED BY <1>1, <3>1, <3>2 DEF IInv
    <2> QED BY <1>1, <2>1, <2>2
  <1> QED BY <1>1, InitHolds, PTL DEF Spec

-----------------------------------------------------------------------------
(* What the runs check of a state.                                          *)

LEMMA FreeListIs ==
    ASSUME Whole(State), NEW q, IsFreeList(q, State)
    PROVE  /\ cache.nrFree \in 0 .. MaxBuckets
           /\ q \in [1 .. cache.nrFree -> Buckets]
           /\ FreeList = q
           /\ \A k \in 1 .. cache.nrFree : FreeBucket[k] = q[k]
  <1> DEFINE n == cache.nrFree
  <1>1. /\ n \in Nat /\ q \in [1 .. n -> Buckets]
        /\ \A j, k \in 1 .. n : q[j] = q[k] => j = k
    BY StateIs DEF IsFreeList
  <1>2. n <= MaxBuckets
    <2>1. IsFiniteSet(Buckets) /\ Cardinality(Buckets) = MaxBuckets
      <3> DEFINE m == MaxBuckets - 1
      <3>1. 0 \in Int /\ m \in Int /\ (IF 0 > m THEN 0 ELSE m - 0 + 1) = MaxBuckets
        BY Assumed
      <3> HIDE DEF m
      <3>2. IsFiniteSet(0 .. m) /\ Cardinality(0 .. m) = MaxBuckets
        BY <3>1, FS_Interval
      <3> QED BY <3>2 DEF Buckets, m
    <2>2. Cardinality(1 .. n) = n
      <3>1. 1 \in Int /\ n \in Int /\ (IF 1 > n THEN 0 ELSE n - 1 + 1) = n
        BY <1>1
      <3> HIDE DEF n
      <3>2. Cardinality(1 .. n) = IF 1 > n THEN 0 ELSE n - 1 + 1
        BY <3>1, FS_Interval
      <3> QED BY <3>1, <3>2
    <2> HIDE DEF n
    <2>3. q \in Injection(1 .. n, Buckets)
      BY <1>1 DEF Injection, IsInjective
    <2>4. Cardinality(1 .. n) <= Cardinality(Buckets)
      BY <2>1, <2>3, FS_Injection
    <2> QED BY <2>1, <2>2, <2>4
  <1>3. ASSUME NEW k \in 1 .. n
        PROVE  FreeBucket[k] = q[k]
    <2>1. k \in 1 .. MaxBuckets /\ k <= n
      BY <1>1, <1>2, Assumed
    <2>2. FreeBucket[k] = Nth(q, cache.nrFree, k)
      BY <2>1, FreeBucketIs
    <2> QED BY <2>1, <2>2 DEF Nth
  <1>4. FreeList = q
    <2>1. FreeList = [k \in 1 .. n |-> FreeBucket[k]] /\ q = [k \in 1 .. n |-> q[k]]
      BY <1>1 DEF FreeList
    <2> QED BY <1>3, <2>1
  <1> QED BY <1>1, <1>2, <1>3, <1>4, Assumed

LEMMA TypesAre == IInv => TypeOK
  <1> SUFFICES ASSUME IInv
               PROVE  TypeOK
    OBVIOUS
  <1>1. /\ Whole(State) /\ State.c = cache /\ State.f = file
        /\ got \in Data \cup {NoAnswer}
    BY StateIs DEF IInv
  <1>2. PICK q : IsFreeList(q, State)
    BY DEF IInv
  <1>3. cache.nrFree \in 0 .. MaxBuckets
    BY <1>1, <1>2, FreeListIs
  <1>4. /\ cache.size \in Nat \ {0} /\ cache.used \in Nat /\ cache.used <= cache.size
        /\ cache.curNr \in 0 .. MaxBuckets /\ cache.newNr \in 0 .. MaxBuckets
        /\ cache.curNr <= cache.newNr /\ cache.actual \in Slots(cache)
        /\ cache.slot \in [Slots(cache) -> SlotValue] /\ cache.slotNr \in [Buckets -> Int]
        /\ cache.counter \in 0 .. MaxLRU /\ cache.firstFree \in Buckets \cup {NoBucket}
        /\ file \in [Buckets -> Contents]
        /\ Linked(State, {})
    BY <1>1, WholeFields, CacheFields
  <1>5. ASSUME NEW b \in Buckets
        PROVE  cache.slotNr[b] \in -1 .. (cache.size - 1)
    <2>1. CASE cache.slotNr[b] = -1
      BY <1>4, <2>1
    <2>2. CASE cache.slotNr[b] # -1
      <3>1. cache.slotNr[b] \in UsedSlots(cache)
        BY <1>1, <1>4, <2>2 DEF Linked, Used
      <3> QED BY <1>4, <3>1 DEF UsedSlots
    <2> QED BY <2>1, <2>2
  <1>6. cache.used \in 0 .. cache.size /\ cache.newNr \in cache.curNr .. MaxBuckets
    BY <1>4, Assumed
  <1>7. cache.slotNr \in [Buckets -> -1 .. (cache.size - 1)]
    BY <1>4, <1>5
  <1> QED BY <1>1, <1>3, <1>4, <1>6, <1>7 DEF TypeOK, SlotValue, Contents

LEMMA CacheIsKnown == IInv => CachedWhereKnown
  <1> SUFFICES ASSUME IInv
               PROVE  CachedWhereKnown
    OBVIOUS
  <1>1. State.c = cache /\ Linked(State, {})
    BY StateIs, WholeFields DEF IInv
  <1> QED BY <1>1 DEF CachedWhereKnown, Linked, Used

LEMMA FreeListIsSound == IInv => FreeListSound
  <1> SUFFICES ASSUME IInv
               PROVE  FreeListSound
    OBVIOUS
  <1> DEFINE n == cache.nrFree
  <1>1. State.c = cache /\ State.f = file /\ Whole(State)
    BY StateIs DEF IInv
  <1>2. PICK q : IsFreeList(q, State)
    BY DEF IInv
  <1>3. /\ n \in Nat /\ q \in [1 .. n -> Buckets] /\ FreeList = q
        /\ \A k \in 1 .. n : FreeBucket[k] = q[k]
    BY <1>1, <1>2, FreeListIs
  <1>4. /\ \A j, k \in 1 .. n : q[j] = q[k] => j = k
        /\ cache.firstFree = Nth(q, n, 1)
    BY <1>1, <1>2 DEF IsFreeList
  <1>5. ASSUME NEW k \in 1 .. n
        PROVE  /\ file[q[k]] = Link(Nth(q, n, k + 1)) /\ file[q[k]] \in Links
               /\ cache.slotNr[q[k]] = -1
    <2>1. /\ q[k] \in Buckets /\ q[k] < cache.curNr
          /\ ContentOf(State, q[k]) = Link(Nth(q, n, k + 1))
      BY <1>1, <1>2, <1>3 DEF IsFreeList
    <2>2. Nth(q, n, k + 1) \in Buckets \cup {NoBucket}
      <3>1. k + 1 \in Nat \ {0}
        BY <1>3
      <3> HIDE DEF n
      <3> QED BY <1>3, <3>1, NthIs
    <2>3. ContentOf(State, q[k]) \in Links /\ ContentOf(State, q[k]) \notin Data
      BY <2>1, <2>2, LinkIs
    <2> QED BY <1>1, <2>1, <2>3, FreeInFile
  <1>6. IsInjective(FreeList)
    BY <1>3, <1>4 DEF IsInjective
  <1>7. n = 0 => cache.firstFree = NoBucket
    BY <1>4 DEF Nth
  <1>8. ASSUME n > 0
        PROVE  file[FreeBucket[n]] = Link(NoBucket)
    <2>1. n \in 1 .. n /\ ~(n + 1 <= n)
      BY <1>3, <1>8
    <2>2. Nth(q, n, n + 1) = NoBucket
      BY <2>1 DEF Nth
    <2> QED BY <1>3, <1>5, <2>1, <2>2
  <1> QED BY <1>3, <1>5, <1>6, <1>7, <1>8 DEF FreeListSound

-----------------------------------------------------------------------------
(* The store of BucketStore.                                                *)

Seen(content) == IF content \in Links THEN Freed ELSE content
StoreOf(s) == [b \in 0 .. (s.c.newNr - 1) |-> Seen(ContentOf(s, b))]

LEMMA StoredIs == IInv => Stored = StoreOf(State)
  <1> SUFFICES ASSUME IInv
               PROVE  Stored = StoreOf(State)
    OBVIOUS
  <1>1. Whole(State) /\ State.c = cache
    BY StateIs DEF IInv
  <1>2. cache.newNr \in 0 .. MaxBuckets
    BY <1>1, WholeFields, CacheFields
  <1>3. \A b \in 0 .. (cache.newNr - 1) : b \in Buckets
    BY <1>2, Assumed DEF Buckets
  <1>4. \A b \in 0 .. (cache.newNr - 1) : Content(b) = ContentOf(State, b)
    BY <1>1, <1>3, ContentIs
  <1> QED BY <1>1, <1>4 DEF Stored, StoreOf, Seen

\* There is only one free list.
FreeListFound == \A q : IsFreeList(q, State) => FreeList = q

LEMMA ListIsFound == IInv => FreeListFound
  BY FreeListIs DEF IInv, FreeListFound

LEMMA StoreIs ==
    ASSUME NEW s, Whole(s)
    PROVE  /\ s.c.newNr \in Nat /\ DOMAIN StoreOf(s) = 0 .. (s.c.newNr - 1)
           /\ \A b \in Buckets : b \in 0 .. (s.c.newNr - 1) <=> b < s.c.newNr
           /\ 0 .. (s.c.newNr - 1) \subseteq Buckets
           /\ \A b \in Buckets : b < s.c.newNr => StoreOf(s)[b] = Seen(ContentOf(s, b))
           /\ Cardinality(DOMAIN StoreOf(s)) = s.c.newNr
  <1> DEFINE n == s.c.newNr
  <1>1. n \in Nat /\ n <= MaxBuckets
    BY WholeFields
  <1>2. DOMAIN StoreOf(s) = 0 .. (n - 1)
    BY DEF StoreOf
  <1>3. \A b \in Buckets : b \in 0 .. (n - 1) <=> b < n
    BY <1>1, Assumed DEF Buckets
  <1>4. \A b \in Buckets : b < n => StoreOf(s)[b] = Seen(ContentOf(s, b))
    BY <1>3 DEF StoreOf
  <1>5. 0 .. (n - 1) \subseteq Buckets
    BY <1>1, Assumed DEF Buckets
  <1>6. Cardinality(0 .. (n - 1)) = n
    <2> DEFINE m == n - 1
    <2>1. 0 \in Int /\ m \in Int /\ (IF 0 > m THEN 0 ELSE m - 0 + 1) = n
      BY <1>1
    <2> HIDE DEF m
    <2>2. Cardinality(0 .. m) = IF 0 > m THEN 0 ELSE m - 0 + 1
      BY <2>1, FS_Interval
    <2> QED BY <2>1, <2>2 DEF m
  <1> QED BY <1>1, <1>2, <1>3, <1>4, <1>5, <1>6

LEMMA SeenIs ==
    /\ \A data \in Data : Seen(data) = data /\ data # Freed
    /\ \A b \in Buckets \cup {NoBucket} : Seen(Link(b)) = Freed
  <1>1. \A data \in Data : Seen(data) = data /\ data # Freed
    BY Assumed DEF Seen
  <1>2. \A b \in Buckets \cup {NoBucket} : Seen(Link(b)) = Freed
    BY LinkIs DEF Seen
  <1> QED BY <1>1, <1>2

LEMMA StoreSame ==
    ASSUME NEW s, NEW t, Whole(s), Whole(t), t.c.newNr = s.c.newNr,
           \A b \in Buckets : ContentOf(t, b) = ContentOf(s, b)
    PROVE  StoreOf(t) = StoreOf(s)
  <1>1. \A b \in 0 .. (s.c.newNr - 1) : ContentOf(t, b) = ContentOf(s, b)
    BY StoreIs
  <1> QED BY <1>1 DEF StoreOf

LEMMA StoreChanges ==
    ASSUME NEW s, NEW t, Whole(s), NEW b \in Buckets, b < s.c.newNr, NEW content,
           Changes(s, t, b, content), t.c.newNr = s.c.newNr
    PROVE  StoreOf(t) = [StoreOf(s) EXCEPT ![b] = Seen(content)]
  <1>1. \A a \in 0 .. (s.c.newNr - 1) : a # b => ContentOf(t, a) = ContentOf(s, a)
    BY StoreIs DEF Changes
  <1>2. ContentOf(t, b) = content
    BY DEF Changes
  <1> DEFINE n == s.c.newNr
             new(a) == Seen(ContentOf(t, a))
             old(a) == Seen(ContentOf(s, a))
  <1>3. StoreOf(t) = [a \in 0 .. (n - 1) |-> new(a)] /\ StoreOf(s) = [a \in 0 .. (n - 1) |-> old(a)]
    BY DEF StoreOf
  <1>4. \A a \in 0 .. (n - 1) : new(a) = IF a = b THEN Seen(content) ELSE old(a)
    BY <1>1, <1>2
  <1> HIDE DEF new, old, n
  <1> QED BY <1>3, <1>4

\* As Lengthened.
LEMMA StoreLonger ==
    ASSUME NEW s, NEW t, Whole(s), Whole(t), NEW n \in Nat, t.c.newNr = s.c.newNr + n,
           NEW data \in Data,
           \A b \in Buckets : b < s.c.newNr => ContentOf(t, b) = ContentOf(s, b),
           \A b \in Buckets : b >= s.c.newNr /\ b < t.c.newNr => ContentOf(t, b) = data
    PROVE  StoreOf(t) = [b \in 0 .. (s.c.newNr + n - 1) |->
                            IF b < s.c.newNr THEN StoreOf(s)[b] ELSE data]
  <1>1. \A b \in 0 .. (t.c.newNr - 1) : b \in Buckets /\ b < t.c.newNr
    BY StoreIs
  <1>2. ASSUME NEW b \in 0 .. (t.c.newNr - 1)
        PROVE  Seen(ContentOf(t, b)) = IF b < s.c.newNr THEN StoreOf(s)[b] ELSE data
    <2>1. CASE b < s.c.newNr
      BY <1>1, <2>1, StoreIs
    <2>2. CASE ~(b < s.c.newNr)
      <3>1. b >= s.c.newNr
        BY <2>2, StoreIs
      <3>2. ContentOf(t, b) = data
        BY <1>1, <3>1
      <3> QED BY <2>2, <3>2, SeenIs
    <2> QED BY <2>1, <2>2
  <1>3. t.c.newNr - 1 = s.c.newNr + n - 1
    <2>1. s.c.newNr \in Nat
      BY WholeFields
    <2> QED BY <2>1
  <1> QED BY <1>2, <1>3 DEF StoreOf

\* The free list as a sequence.
LEMMA ListIs ==
    ASSUME NEW n \in Nat, NEW q \in [1 .. n -> Buckets], NEW b \in Buckets
    PROVE  /\ n > 0 => q # <<>> /\ Head(q) = q[1] /\ Tail(q) = After(q, n)
           /\ n = 0 => q = <<>>
           /\ <<b>> \o q = Before(b, q, n)
  <1>1. q \in Seq(Buckets) /\ Len(q) = n
    OBVIOUS
  <1>2. ASSUME n > 0
        PROVE  q # <<>> /\ Head(q) = q[1] /\ Tail(q) = After(q, n)
    <2>1. q # <<>> /\ Head(q) = q[1]
      BY <1>1, <1>2
    <2>2. Tail(q) \in Seq(Buckets) /\ Len(Tail(q)) = n - 1
          /\ \A k \in 1 .. (n - 1) : Tail(q)[k] = q[k + 1]
      BY <1>1, <2>1, HeadTailProperties
    <2> DEFINE l == Tail(q)
    <2>3. l = [k \in 1 .. (n - 1) |-> l[k]]
      <3>1. l \in Seq(Buckets) /\ Len(l) = n - 1
        BY <2>2
      <3> HIDE DEF l
      <3> QED BY <3>1
    <2> QED BY <2>1, <2>2, <2>3 DEF After
  <1>3. n = 0 => q = <<>>
    BY <1>1
  <1>4. <<b>> \o q = Before(b, q, n)
    <2> DEFINE l == <<b>> \o q
    <2>1. <<b>> \in Seq(Buckets) /\ Len(<<b>>) = 1
      OBVIOUS
    <2>2. l \in Seq(Buckets) /\ Len(l) = 1 + n
          /\ \A k \in 1 .. (1 + n) : l[k] = IF k <= 1 THEN <<b>>[k] ELSE q[k - 1]
      BY <1>1, <2>1, ConcatProperties
    <2> HIDE DEF l
    <2>3. l = [k \in 1 .. (n + 1) |-> l[k]]
      BY <2>2
    <2>4. \A k \in 1 .. (n + 1) : l[k] = IF k = 1 THEN b ELSE q[k - 1]
      BY <2>2
    <2> QED BY <2>3, <2>4 DEF Before, l
  <1> QED BY <1>2, <1>3, <1>4

-----------------------------------------------------------------------------
(* Every step is one of BucketStore.                                        *)

LEMMA Mapped ==
    ASSUME IInv, IInv', NEW q, IsFreeList(q, State), NEW r, IsFreeList(r, State')
    PROVE  /\ Stored = StoreOf(State) /\ Stored' = StoreOf(State')
           /\ FreeList = q /\ FreeList' = r
           /\ State.c = cache /\ State'.c = cache' /\ Whole(State) /\ Whole(State')
           /\ cache.nrFree \in Nat /\ q \in [1 .. cache.nrFree -> Buckets]
  <1>1. /\ State.c = cache /\ State'.c = cache' /\ Whole(State) /\ Whole(State')
    BY StateIs DEF IInv, State
  <1>2. (IInv => Stored = StoreOf(State)) /\ (IInv => Stored = StoreOf(State))'
    BY StoredIs, PTL
  <1>3. (IInv => FreeListFound) /\ (IInv => FreeListFound)'
    BY ListIsFound, PTL
  <1>4. FreeList = q /\ FreeList' = r
    BY <1>3 DEF FreeListFound
  <1> QED BY <1>1, <1>2, <1>4 DEF IsFreeList

\* Those that change no bucket.
LEMMA GetIsGet ==
    ASSUME IInv, IInv', NEW b \in Buckets, NEW q, IsFreeList(q, State),
           Same(State, State'), Answers(ContentOf(State, b)),
           b < cache.newNr, ContentOf(State, b) \in Data
    PROVE  b \in DOMAIN Stored /\ Store!Get(b)
  <1>1. IsFreeList(q, State')
    BY ListStays DEF IInv
  <1>2. /\ Stored = StoreOf(State) /\ Stored' = StoreOf(State') /\ FreeList' = FreeList
        /\ Whole(State) /\ Whole(State') /\ State.c = cache
    BY <1>1, Mapped
  <1>3. Stored' = Stored
    <2>1. StoreOf(State') = StoreOf(State)
      BY <1>2, StoreSame DEF Same, Keeps
    <2> QED BY <1>2, <2>1
  <1>4. b \in DOMAIN Stored /\ Stored[b] = ContentOf(State, b) /\ Stored[b] # Freed
    <2>1. b \in DOMAIN StoreOf(State) /\ StoreOf(State)[b] = Seen(ContentOf(State, b))
      BY <1>2, StoreIs
    <2> QED BY <1>2, <2>1, SeenIs
  <1> QED BY <1>2, <1>3, <1>4 DEF Store!Get, Store!InUse, Store!Freed, Freed, Answers

LEMMA KeptIsQuiet ==
    ASSUME IInv, IInv', NEW q, IsFreeList(q, State), Same(State, State'), Answers(NoAnswer)
    PROVE  Store!Quiet
  <1>1. IsFreeList(q, State')
    BY ListStays DEF IInv
  <1>2. /\ Stored = StoreOf(State) /\ Stored' = StoreOf(State') /\ FreeList' = FreeList
        /\ Whole(State) /\ Whole(State')
    BY <1>1, Mapped
  <1>3. StoreOf(State') = StoreOf(State)
    BY <1>2, StoreSame DEF Same, Keeps
  <1> QED BY <1>2, <1>3 DEF Store!Quiet, Answers, Store!NoAnswer, NoAnswer

LEMMA ReplaceIsPut ==
    ASSUME IInv, IInv', NEW b \in Buckets, NEW data \in Data, NEW q, IsFreeList(q, State),
           Replaces(State, State', b, data), Answers(NoAnswer)
    PROVE  b \in DOMAIN Stored /\ Store!Put(b, data)
  <1>1. IsFreeList(q, State')
    BY ListStays DEF IInv
  <1>2. /\ Stored = StoreOf(State) /\ Stored' = StoreOf(State') /\ FreeList' = FreeList
        /\ Whole(State) /\ Whole(State')
    BY <1>1, Mapped
  <1>3. b < State.c.newNr /\ ContentOf(State, b) \in Data
    BY DEF Replaces
  <1>4. StoreOf(State') = [StoreOf(State) EXCEPT ![b] = data]
    <2>1. StoreOf(State') = [StoreOf(State) EXCEPT ![b] = Seen(data)]
      BY <1>2, <1>3, StoreChanges DEF Replaces
    <2> QED BY <2>1, SeenIs
  <1>5. b \in DOMAIN Stored /\ Stored[b] # Freed
    <2>1. b \in DOMAIN StoreOf(State) /\ StoreOf(State)[b] = Seen(ContentOf(State, b))
      BY <1>2, <1>3, StoreIs
    <2> QED BY <1>2, <1>3, <2>1, SeenIs
  <1> QED BY <1>2, <1>4, <1>5
          DEF Store!Put, Store!InUse, Store!Freed, Freed, Answers, Store!NoAnswer, NoAnswer

\* Those that add a bucket.
LEMMA NrBucketsIs == Store!NrBuckets = Cardinality(DOMAIN Stored)
  BY DEF Store!NrBuckets, Store!Cardinality, Cardinality

LEMMA AddIsAddFromFree ==
    ASSUME IInv, IInv', NEW data \in Data, NEW q, IsFreeList(q, State),
           AddsFree(State, State', q, data), Answers(NoAnswer)
    PROVE  Store!AddFromFree(data)
  <1> DEFINE n == cache.nrFree
             r == After(q, n)
  <1>1. IsFreeList(r, State')
    BY StateIs DEF AddsFree
  <1> HIDE DEF r
  <1>2. /\ Stored = StoreOf(State) /\ Stored' = StoreOf(State') /\ FreeList = q /\ FreeList' = r
        /\ Whole(State) /\ Whole(State') /\ State.c = cache
        /\ n \in Nat /\ q \in [1 .. n -> Buckets]
    BY <1>1, Mapped
  <1>3. n > 0 /\ q[1] < State.c.newNr /\ q[1] \in Buckets
    <2>1. n > 0 /\ q[1] < State.c.newNr
      BY <1>2 DEF AddsFree
    <2> QED BY <1>2, <2>1
  <1>4. q # <<>> /\ Head(q) = q[1] /\ Tail(q) = r
    <2> HIDE DEF n
    <2> QED BY <1>2, <1>3, ListIs DEF r
  <1>5. StoreOf(State') = [StoreOf(State) EXCEPT ![q[1]] = data]
    <2> DEFINE b == q[1]
    <2>1. Changes(State, State', b, data) /\ State'.c.newNr = State.c.newNr
          /\ b \in Buckets /\ b < State.c.newNr
      BY <1>3 DEF AddsFree
    <2> HIDE DEF b
    <2>2. StoreOf(State') = [StoreOf(State) EXCEPT ![b] = Seen(data)]
      BY <1>2, <2>1, StoreChanges
    <2> QED BY <2>2, SeenIs DEF b
  <1> QED BY <1>2, <1>4, <1>5 DEF Store!AddFromFree, Answers, Store!NoAnswer, NoAnswer

LEMMA AddIsAddAtEnd ==
    ASSUME IInv, IInv', NEW data \in Data, NEW q, IsFreeList(q, State),
           AddsEnd(State, State', data), Answers(NoAnswer)
    PROVE  Store!AddAtEnd(data)
  <1> DEFINE n == cache.newNr
  <1>1. IsFreeList(q, State')
    BY ListStays DEF IInv
  <1>2. /\ Stored = StoreOf(State) /\ Stored' = StoreOf(State') /\ FreeList = q /\ FreeList' = q
        /\ Whole(State) /\ Whole(State') /\ State.c = cache
        /\ q \in [1 .. cache.nrFree -> Buckets]
    BY <1>1, Mapped
  <1>3. /\ n < MaxBuckets /\ State'.c.newNr = n + 1 /\ cache.nrFree = 0
        /\ Changes(State, State', n, data) /\ State.c.newNr = n /\ n \in Nat
    BY <1>2, WholeFields DEF AddsEnd
  <1>4. q = <<>>
    BY <1>2, <1>3
  <1>5. Store!NrBuckets = n
    BY <1>2, StoreIs, NrBucketsIs
  <1> HIDE DEF n
  <1>6. StoreOf(State') = [b \in 0 .. (n + 1 - 1) |-> IF b < n THEN StoreOf(State)[b] ELSE data]
    <2>1. n \in Buckets
      BY <1>3, Assumed DEF Buckets
    <2>2. ASSUME NEW b \in Buckets, b < State.c.newNr
          PROVE  ContentOf(State', b) = ContentOf(State, b)
      <3>1. b # n
        BY <1>3, <2>2
      <3> QED BY <1>3, <3>1 DEF Changes
    <2>3. ASSUME NEW b \in Buckets, b >= State.c.newNr, b < State'.c.newNr
          PROVE  ContentOf(State', b) = data
      <3>1. b = n
        BY <1>3, <2>3, BucketsAre
      <3> QED BY <1>3, <3>1 DEF Changes
    <2>4. 1 \in Nat /\ State'.c.newNr = State.c.newNr + 1
      BY <1>3
    <2>5. StoreOf(State') = [b \in 0 .. (State.c.newNr + 1 - 1) |->
                                IF b < State.c.newNr THEN StoreOf(State)[b] ELSE data]
      BY <1>2, <2>2, <2>3, <2>4, StoreLonger
    <2> QED BY <1>3, <2>5
  <1>7. Stored' = Store!Lengthened(1, data)
    BY <1>2, <1>5, <1>6 DEF Store!Lengthened
  <1> QED BY <1>2, <1>3, <1>4, <1>5, <1>7
          DEF Store!AddAtEnd, Answers, Store!NoAnswer, NoAnswer

LEMMA ExtendIsExtend ==
    ASSUME IInv, IInv', NEW m \in 1 .. 2, NEW q, IsFreeList(q, State),
           Extends(State, State', m), Answers(NoAnswer)
    PROVE  m \in 1 .. MaxBuckets /\ Store!Extend(m)
  <1> DEFINE n == cache.newNr
  <1>1. IsFreeList(q, State')
    BY ListStays DEF IInv
  <1>2. /\ Stored = StoreOf(State) /\ Stored' = StoreOf(State') /\ FreeList = q /\ FreeList' = q
        /\ Whole(State) /\ Whole(State') /\ State.c = cache
    BY <1>1, Mapped
  <1>3. /\ n + m <= MaxBuckets /\ State'.c.newNr = n + m /\ State.c.newNr = n /\ n \in Nat
        /\ State.c.curNr \in Nat /\ State.c.curNr <= n /\ State'.c.curNr = State.c.curNr
    BY <1>2, WholeFields DEF Extends
  <1>4. m \in 1 .. MaxBuckets /\ m \in Nat
    BY <1>3, Assumed
  <1>5. Store!NrBuckets = n
    BY <1>2, StoreIs, NrBucketsIs
  <1> HIDE DEF n
  <1>6. StoreOf(State') = [b \in 0 .. (n + m - 1) |-> IF b < n THEN StoreOf(State)[b] ELSE Fresh]
    <2>1. \A b \in Buckets : b < State.c.newNr => ContentOf(State', b) = ContentOf(State, b)
      BY DEF Extends
    <2>2. ASSUME NEW b \in Buckets, b >= State.c.newNr
          PROVE  ContentOf(State', b) = Fresh
      <3>1. ~(b < State'.c.curNr)
        BY <1>3, <2>2, BucketsAre
      <3> QED BY <3>1 DEF ContentOf
    <2>3. Fresh \in Data
      BY Assumed
    <2>4. StoreOf(State') = [b \in 0 .. (State.c.newNr + m - 1) |->
                                IF b < State.c.newNr THEN StoreOf(State)[b] ELSE Fresh]
      BY <1>2, <1>3, <1>4, <2>1, <2>2, <2>3, StoreLonger
    <2> QED BY <1>3, <2>4
  <1>7. Stored' = Store!Lengthened(m, Fresh)
    BY <1>2, <1>5, <1>6 DEF Store!Lengthened
  <1> QED BY <1>2, <1>3, <1>4, <1>5, <1>7
          DEF Store!Extend, Answers, Store!NoAnswer, NoAnswer

\* That which gives one up.
LEMMA FreeIsDiscard ==
    ASSUME IInv, IInv', NEW b \in Buckets, NEW q, IsFreeList(q, State),
           Frees(State, State', q, b), Answers(NoAnswer)
    PROVE  b \in DOMAIN Stored /\ Store!Discard(b)
  <1> DEFINE n == cache.nrFree
             r == Before(b, q, n)
  <1>1. IsFreeList(r, State')
    BY StateIs DEF Frees
  <1> HIDE DEF r
  <1>2. /\ Stored = StoreOf(State) /\ Stored' = StoreOf(State') /\ FreeList = q /\ FreeList' = r
        /\ Whole(State) /\ Whole(State') /\ State.c = cache
        /\ n \in Nat /\ q \in [1 .. n -> Buckets]
    BY <1>1, Mapped
  <1>3. b < State.c.newNr /\ ContentOf(State, b) \in Data
    BY DEF Frees
  <1>4. <<b>> \o q = r
    <2> HIDE DEF n
    <2> QED BY <1>2, ListIs DEF r
  <1>5. StoreOf(State') = [StoreOf(State) EXCEPT ![b] = Freed]
    <2> DEFINE link == Link(State.c.firstFree)
    <2>1. Seen(link) = Freed
      <3>1. State.c.firstFree \in Buckets \cup {NoBucket}
        BY <1>2, WholeFields, CacheFields
      <3> QED BY <3>1, SeenIs
    <2>2. Changes(State, State', b, link) /\ State'.c.newNr = State.c.newNr
      BY DEF Frees
    <2> HIDE DEF link
    <2>3. StoreOf(State') = [StoreOf(State) EXCEPT ![b] = Seen(link)]
      BY <1>2, <1>3, <2>2, StoreChanges
    <2> QED BY <2>1, <2>3
  <1>6. b \in DOMAIN Stored /\ Stored[b] # Freed
    <2>1. b \in DOMAIN StoreOf(State) /\ StoreOf(State)[b] = Seen(ContentOf(State, b))
      BY <1>2, <1>3, StoreIs
    <2> QED BY <1>2, <1>3, <2>1, SeenIs
  <1> QED BY <1>2, <1>4, <1>5, <1>6
          DEF Store!Discard, Store!InUse, Store!Freed, Freed, Answers, Store!NoAnswer, NoAnswer

LEMMA StepIsStoreStep ==
    ASSUME IInv, IInv', NEW q, IsFreeList(q, State), Outcome(q)
    PROVE  Store!StoreNext
  <1>1. ASSUME NEW b \in Buckets, Same(State, State'), Answers(ContentOf(State, b)),
               b < cache.newNr, ContentOf(State, b) \in Data
        PROVE  Store!StoreNext
    BY <1>1, GetIsGet DEF Store!StoreNext
  <1>2. ASSUME Same(State, State'), Answers(NoAnswer)
        PROVE  Store!StoreNext
    BY <1>2, KeptIsQuiet DEF Store!StoreNext
  <1>3. ASSUME NEW b \in Buckets, NEW data \in Data,
               Replaces(State, State', b, data), Answers(NoAnswer)
        PROVE  Store!StoreNext
    BY <1>3, ReplaceIsPut DEF Store!StoreNext
  <1>4. ASSUME NEW data \in Data, AddsFree(State, State', q, data), Answers(NoAnswer)
        PROVE  Store!StoreNext
    BY <1>4, AddIsAddFromFree DEF Store!StoreNext
  <1>5. ASSUME NEW data \in Data, AddsEnd(State, State', data), Answers(NoAnswer)
        PROVE  Store!StoreNext
    BY <1>5, AddIsAddAtEnd DEF Store!StoreNext
  <1>6. ASSUME NEW b \in Buckets, Frees(State, State', q, b), Answers(NoAnswer)
        PROVE  Store!StoreNext
    BY <1>6, FreeIsDiscard DEF Store!StoreNext
  <1>7. ASSUME NEW n \in 1 .. 2, Extends(State, State', n), Answers(NoAnswer)
        PROVE  Store!StoreNext
    BY <1>7, ExtendIsExtend DEF Store!StoreNext
  <1> QED BY <1>1, <1>2, <1>3, <1>4, <1>5, <1>6, <1>7 DEF Outcome

-----------------------------------------------------------------------------
(* What the runs check of a step.                                           *)

\* The slot a full cache gives up is not the one used last.
LEMMA PlaceIs ==
    ASSUME NEW s, Whole(s), Aged(s), s.c.size >= 2,
           NEW i \in UsedSlots(s.c), s.c.slot[i].lru = s.c.counter
    PROVE  Place(s) # i
  <1> DEFINE age(j) == s.c.slot[j].lru
  <1>1. /\ s.c.size \in Nat /\ s.c.used \in Nat /\ UsedSlots(s.c) \subseteq Slots(s.c)
        /\ s.c.slot \in [Slots(s.c) -> SlotValue] /\ s.c.counter \in Nat
        /\ i \in 0 .. (s.c.used - 1)
    BY WholeFields, CacheFields, Assumed DEF UsedSlots
  <1>2. CASE s.c.used # s.c.size
    BY <1>1, <1>2 DEF Place
  <1>3. CASE s.c.used = s.c.size
    <2>1. PICK j \in UsedSlots(s.c) : j # i
      <3>1. 0 \in UsedSlots(s.c) /\ 1 \in UsedSlots(s.c)
        BY <1>1, <1>3 DEF UsedSlots
      <3> QED BY <3>1
    <2>2. age(j) < s.c.counter
      <3>1. age(j) \in Nat
        <4>1. s.c.slot[j] \in SlotValue
          BY <1>1
        <4> QED BY <4>1, SlotFields, Assumed
      <3>2. age(j) <= s.c.counter /\ age(j) # s.c.counter
        BY <2>1 DEF Aged
      <3> QED BY <1>1, <3>1, <3>2
    <2>3. age(LeastUsed(s.c)) <= age(j)
      <3>1. s.c.used > 0
        BY <1>1
      <3> QED BY <3>1, LeastUsedIs, WholeFields
    <2>4. ASSUME LeastUsed(s.c) = i
          PROVE  FALSE
      <3>1. s.c.counter <= age(j) /\ age(j) \in Nat
        <4>1. s.c.slot[j] \in SlotValue
          BY <1>1
        <4> QED BY <2>3, <2>4, <4>1, SlotFields, Assumed
      <3> HIDE DEF age
      <3> QED BY <1>1, <2>2, <3>1
    <2> QED BY <1>3, <2>4 DEF Place
  <1> QED BY <1>2, <1>3

\* LastUsedSurvives, of a step.
LastUsedKept ==
    \A b \in Buckets, i \in UsedSlots(cache) :
        /\ Read(b) /\ b < cache.curNr /\ cache.size >= 2
        /\ cache.slot[i].data # Null
        /\ cache.slot[i].lru = cache.counter
        => cache'.slot[i].bucket = cache.slot[i].bucket

LEMMA LastUsedIsKept == IInv => LastUsedKept
  <1> SUFFICES ASSUME IInv, NEW b \in Buckets, NEW i \in UsedSlots(cache),
                      Read(b), b < cache.curNr, cache.size >= 2,
                      cache.slot[i].lru = cache.counter
               PROVE  cache'.slot[i].bucket = cache.slot[i].bucket
    BY DEF LastUsedKept
  <1> DEFINE t == GetBucket(State, b)
  <1>1. Whole(State) /\ Aged(State) /\ State.c = cache /\ State.f = file
    BY StateIs DEF IInv
  <1>2. InUse(b) /\ cache' = t.c
    BY DEF Read, Becomes
  <1>3. cache.slotNr[b] \in Int /\ (~(cache.slotNr[b] >= 0) => cache.slotNr[b] = -1)
    <2>1. Linked(State, {}) /\ cache.slotNr[b] \in Int
      BY <1>1, WholeFields, CacheFields
    <2>2. cache.slotNr[b] # -1 => cache.slotNr[b] \in UsedSlots(cache)
      BY <1>1, <2>1 DEF Linked, Used
    <2> QED BY <2>1, <2>2 DEF UsedSlots
  <1>4. CASE cache.slotNr[b] >= 0
    <2>1. t = SetLRU([State EXCEPT !.c.actual = State.c.slotNr[b]])
      BY <1>1, <1>4 DEF GetBucket
    <2>2. b \in Buckets /\ i \in UsedSlots(State.c) /\ State.c.slotNr[b] >= 0
      BY <1>1, <1>4
    <2> HIDE DEF t
    <2>3. \A j \in UsedSlots(State.c) : t.c.slot[j].bucket = State.c.slot[j].bucket
      BY <1>1, <2>1, <2>2, CachedBucket
    <2> QED BY <1>1, <1>2, <2>2, <2>3 DEF t
  <1>5. CASE ~(cache.slotNr[b] >= 0)
    <2>1. t = ReadBucket(State, b)
      BY <1>1, <1>5 DEF GetBucket
    <2>2. ContentOf(State, b) \in Data
      BY <1>1, <1>2, ContentIs
    <2>3. Takes(State, t, b, ContentOf(State, b))
      BY <1>1, <1>3, <1>5, <2>1, <2>2, ReadBucketIs
    <2> HIDE DEF t
    <2>4. i \in UsedSlots(t.c) /\ i # t.c.actual
      BY <1>1, <2>3, PlaceIs DEF Takes
    <2> QED BY <1>1, <1>2, <2>3, <2>4 DEF Takes
  <1> QED BY <1>4, <1>5

-----------------------------------------------------------------------------
(* As long as no shrink makes the cache forget a bucket it keeps.           *)

\* Every field of the object keeps its type: no slot number runs out of the
\* arrays, no counter out of its range.
THEOREM TypesCorrect == ~Forgetful => (Spec => []TypeOK)
  BY InvariantHolds, TypesAre, PTL

\* its_SlotNr, its_BucketNr and the buffers agree after every call: no bucket is
\* in the cache twice, and none is looked for in another one's slot.
THEOREM CacheIsTrue == ~Forgetful => (Spec => []CachedWhereKnown)
  BY InvariantHolds, CacheIsKnown, PTL

\* The free list in the file is as long as its_NrOfFree says, has no bucket twice
\* and none that is in the cache: no bucket is given out twice.
THEOREM FreeListIsTrue == ~Forgetful => (Spec => []FreeListSound)
  BY InvariantHolds, FreeListIsSound, PTL

\* getBucket never takes the slot of the bucket used last, also where the LRU
\* counter wraps.
THEOREM LastUsedStays == ~Forgetful => (Spec => LastUsedSurvives)
  <1> SUFFICES ASSUME ~Forgetful
               PROVE  Spec => LastUsedSurvives
    OBVIOUS
  <1>1. IInv => [LastUsedKept]_vars
    BY LastUsedIsKept
  <1> QED BY <1>1, InvariantHolds, PTL DEF LastUsedSurvives, LastUsedKept

LEMMA StartIsStoreStart == Init => Store!StoreInit
  <1> SUFFICES ASSUME Init
               PROVE  Store!StoreInit
    OBVIOUS
  <1>1. cache.newNr = 0 /\ cache.nrFree = 0 /\ got = NoAnswer
    BY DEF Init
  <1>2. Stored = <<>>
    <2> DEFINE n == cache.newNr - 1
               content(b) == IF Content(b) \in Links THEN Freed ELSE Content(b)
    <2>1. n = -1 /\ Stored = [b \in 0 .. n |-> content(b)]
      BY <1>1 DEF Stored
    <2> HIDE DEF n, content
    <2>2. 0 .. n = {}
      BY <2>1
    <2>3. DOMAIN Stored = {} /\ Stored = [b \in {} |-> content(b)]
      BY <2>1, <2>2
    <2>4. [b \in {} |-> content(b)] = <<>>
      OBVIOUS
    <2> QED BY <2>3, <2>4
  <1>3. FreeList = <<>>
    <2> DEFINE n == cache.nrFree
    <2>1. n = 0 /\ FreeList = [k \in 1 .. n |-> FreeBucket[k]]
      BY <1>1 DEF FreeList
    <2> HIDE DEF n
    <2> QED BY <2>1
  <1> QED BY <1>1, <1>2, <1>3 DEF Store!StoreInit, Store!NoAnswer, NoAnswer

\* The cache is the array of buckets of BucketStore: each call does to the buckets
\* and the free list what its name says, whatever it evicts, writes or reads.
THEOREM CacheIsStore == ~Forgetful => (Spec => IsStore)
  <1> SUFFICES ASSUME ~Forgetful
               PROVE  Spec => IsStore
    OBVIOUS
  <1>1. ASSUME IInv, IInv', [Next]_vars
        PROVE  [Store!StoreNext]_(Store!storeVars)
    <2>1. CASE Next
      <3>1. PICK q : IsFreeList(q, State)
        BY <1>1 DEF IInv
      <3>2. Outcome(q)
        BY <1>1, <2>1, <3>1, Outcomes
      <3> QED BY <1>1, <3>1, <3>2, StepIsStoreStep
    <2>2. CASE UNCHANGED vars
      <3>1. cache' = cache /\ file' = file /\ got' = got
        BY <2>2 DEF vars
      <3>2. FreeBucket' = FreeBucket /\ \A b : Content(b)' = Content(b)
        BY <3>1 DEF FreeBucket, Content
      <3>3. Stored' = Stored /\ FreeList' = FreeList
        BY <3>1, <3>2 DEF Stored, FreeList
      <3> QED BY <3>1, <3>3 DEF Store!storeVars
    <2> QED BY <1>1, <2>1, <2>2
  <1> QED BY <1>1, StartIsStoreStart, InvariantHolds, PTL DEF Spec, IsStore, Store!StoreSpec

=============================================================================
