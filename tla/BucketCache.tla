----------------------------- MODULE BucketCache -----------------------------
(***************************************************************************)
(* casa/IO/BucketCache.cc: the cache of buckets every storage manager keeps *)
(* of its data file.  One object in one thread: an action is a whole call   *)
(* of a member function, in the way the storage managers call it, and the   *)
(* functions it calls are functions from object to object.                  *)
(***************************************************************************)
EXTENDS Integers, SequencesExt

CONSTANTS
    Data,        \* what a bucket in use may contain
    Fresh,       \* what the owner's AddBuffer callback makes
    MaxBuckets,  \* bound: the number of buckets there may be
    MaxLRU,      \* the value at which the LRU counter wraps, 2^32 - 1
    Sizes,       \* the cache sizes that are asked for
    Forgetful    \* whether the cache may be made smaller also when that makes
                 \* it forget a bucket it keeps (Forgets)

Buckets == 0 .. (MaxBuckets - 1)
NoBucket == -1

Link(b) == <<b>>         \* the content of a free bucket in the file
Unset == <<>>            \* the content of a bucket nobody has written yet
Null == "null"           \* its_Cache of a slot without a buffer
Freed == "free"          \* what a free bucket is to the user of the cache
NoAnswer == "none"

Links == {Link(b) : b \in Buckets \cup {NoBucket}}

ASSUME BucketCacheAssumption ==
    /\ MaxBuckets \in Nat \ {0}
    /\ MaxLRU \in Nat \ {0}
    /\ Sizes \subseteq Nat
    /\ Fresh \in Data
    /\ Data \cap (Links \cup {Unset}) = {}
    /\ Null \notin Data /\ Freed \notin Data
    /\ Forgetful \in BOOLEAN

VARIABLES
    cache,       \* the object's members
    file,        \* the buckets in the file
    got          \* what the last getBucket gave its caller

vars == <<cache, file, got>>

\* its_SlotNr has an element for every bucket there may ever be.
EmptySlot == [bucket |-> 0, data |-> Null, dirty |-> FALSE, lru |-> 0]

Slots(c) == 0 .. (c.size - 1)
UsedSlots(c) == 0 .. (c.used - 1)

TypeOK ==
    /\ cache.size \in Nat \ {0}
    /\ cache.used \in 0 .. cache.size
    /\ cache.actual \in Slots(cache)
    /\ cache.curNr \in 0 .. MaxBuckets
    /\ cache.newNr \in cache.curNr .. MaxBuckets
    /\ cache.slot \in [Slots(cache) -> [bucket : Buckets, data : Data \cup {Null},
                                        dirty : BOOLEAN, lru : 0 .. MaxLRU]]
    /\ cache.slotNr \in [Buckets -> -1 .. (cache.size - 1)]
    /\ cache.counter \in 0 .. MaxLRU
    /\ cache.nrFree \in 0 .. MaxBuckets
    /\ cache.firstFree \in Buckets \cup {NoBucket}
    /\ file \in [Buckets -> Data \cup Links \cup {Unset}]
    /\ got \in Data \cup {NoAnswer}

\* The object and the file as the functions below take and give them.
State == [c |-> cache, f |-> file]

Init ==
    /\ \E size \in Sizes \ {0} :
          cache = [size |-> size, used |-> 0, actual |-> 0,
                   curNr |-> 0, newNr |-> 0,
                   slot |-> [s \in 0 .. (size - 1) |-> EmptySlot],
                   slotNr |-> [b \in Buckets |-> -1],
                   counter |-> 0, nrFree |-> 0, firstFree |-> NoBucket]
    /\ file = [b \in Buckets |-> Unset]
    /\ got = NoAnswer

-----------------------------------------------------------------------------
(* The private functions, each from a state to the state it leaves.         *)

\* setLRU: before the counter would wrap, all slots are made equally old.
SetLRU(s) ==
    LET wraps == s.c.counter = MaxLRU
        count == IF wraps THEN 1 ELSE s.c.counter + 1
        age(i) == IF i = s.c.actual THEN count
                  ELSE IF wraps /\ i < s.c.used THEN 0 ELSE s.c.slot[i].lru
    IN  [s EXCEPT
            !.c.counter = count,
            !.c.slot = [i \in DOMAIN @ |-> [@[i] EXCEPT !.lru = age(i)]]]

\* writeBucket
WriteBucket(s, i) ==
    [s EXCEPT !.f[s.c.slot[i].bucket] = s.c.slot[i].data,
              !.c.slot[i].dirty = FALSE]

WriteDirty(s, i) == IF s.c.slot[i].dirty THEN WriteBucket(s, i) ELSE s

\* The slot getSlot takes in a full cache: the first of the least lately used.
LeastUsed(c) ==
    CHOOSE i \in UsedSlots(c) : \A j \in UsedSlots(c) :
        \/ c.slot[i].lru < c.slot[j].lru
        \/ c.slot[i].lru = c.slot[j].lru /\ i <= j

\* As it would be if the slot of a removed bucket still spoke for that bucket.
EvictAny(s, i) ==
    LET written == WriteDirty(s, i)
    IN  [written EXCEPT !.c.slot[i].data = Null,
                        !.c.slotNr[s.c.slot[i].bucket] = -1]

\* As it would be if a dirty bucket were not written when it has to go.
EvictUnwritten(s, i) ==
    IF s.c.slot[i].data = Null
    THEN s
    ELSE [s EXCEPT !.c.slot[i].data = Null, !.c.slot[i].dirty = FALSE,
                   !.c.slotNr[s.c.slot[i].bucket] = -1]

\* getSlot makes a used slot free; a removed bucket left its slot without data.
Evict(s, i) ==
    LET written == WriteDirty(s, i)
    IN  IF s.c.slot[i].data = Null
        THEN written
        ELSE [written EXCEPT !.c.slot[i].data = Null,
                             !.c.slotNr[s.c.slot[i].bucket] = -1]

\* getSlot: the slot becomes the actual one.
GetSlot(s, b) ==
    LET isFull == s.c.used = s.c.size
        i      == IF isFull THEN LeastUsed(s.c) ELSE s.c.used
        freed  == IF isFull THEN Evict(s, i) ELSE [s EXCEPT !.c.used = @ + 1]
    IN  [SetLRU([freed EXCEPT !.c.actual = i]) EXCEPT
            !.c.slot[i].bucket = b, !.c.slotNr[b] = i]

\* The caller of getSlot puts a buffer in the slot.
PutData(s, b, data, dirty) ==
    [s EXCEPT !.c.slot[s.c.actual] =
        [bucket |-> b, data |-> data, dirty |-> @.dirty \/ dirty, lru |-> @.lru]]

Fill(s, b, data, dirty) == PutData(GetSlot(s, b), b, data, dirty)

\* A turn of the loop of initializeBuckets.
InitializeNext(s) == [Fill(s, s.c.curNr, Fresh, TRUE) EXCEPT !.c.curNr = @ + 1]

\* initializeBuckets: all buckets up to b that are not in the file yet.
InitializeBuckets(s, b) ==
    LET n == IF b < s.c.curNr THEN 0 ELSE b + 1 - s.c.curNr
        after[k \in Nat] == IF k = 0 THEN s
                            ELSE LET before == after[k - 1] IN InitializeNext(before)
    IN  after[n]

\* getSlot may write another bucket to the file before this one is read.
ReadBucket(s, b) == LET t == GetSlot(s, b) IN PutData(t, b, t.f[b], FALSE)

-----------------------------------------------------------------------------
(* The public functions.                                                    *)

\* getBucket: from the cache, from the file, or of an extension.
GetBucket(s, b) ==
    IF s.c.slotNr[b] >= 0
    THEN SetLRU([s EXCEPT !.c.actual = s.c.slotNr[b]])
    ELSE IF b < s.c.curNr
         THEN ReadBucket(s, b)
         ELSE InitializeBuckets(s, b)

SetDirty(s) == [s EXCEPT !.c.slot[s.c.actual].dirty = TRUE]

\* flush: only a flush of everything creates the buckets of an extension.
FlushFrom(s, from) ==
    LET all == IF from = 0 /\ s.c.newNr > 0
               THEN InitializeBuckets(s, s.c.newNr - 1)
               ELSE s
        n == IF all.c.used < from THEN 0 ELSE all.c.used - from
        after[k \in Nat] ==
            IF k = 0 THEN all
            ELSE LET before == after[k - 1] IN WriteDirty(before, from + k - 1)
    IN  after[n]

\* As it would be if every clear restarted the LRU counter.
ClearFromCounter(s, from) ==
    LET t == FlushFrom(s, from)
        gone == from .. (t.c.used - 1)
    IN  [t EXCEPT
            !.c.slot = [i \in DOMAIN @ |->
                IF i \in gone THEN EmptySlot ELSE @[i]],
            !.c.slotNr = [b \in Buckets |->
                IF \E i \in gone : t.c.slot[i].bucket = b THEN -1 ELSE @[b]],
            !.c.counter = 0,
            !.c.used = IF from < @ THEN from ELSE @]

\* clear with its flush.  The slots of the cleared part lose their bucket, also
\* those whose bucket was removed and may be in another slot by now.  What is
\* left in the arrays beyond its_CacheSizeUsed is not read before it is set.
ClearFrom(s, from) ==
    LET t == FlushFrom(s, from)
        gone == from .. (t.c.used - 1)
    IN  [t EXCEPT
            !.c.slot = [i \in DOMAIN @ |->
                IF i \in gone THEN EmptySlot ELSE @[i]],
            !.c.slotNr = [b \in Buckets |->
                IF \E i \in gone : t.c.slot[i].bucket = b THEN -1 ELSE @[b]],
            !.c.counter = IF from = 0 THEN 0 ELSE @,
            !.c.used = IF from < @ THEN from ELSE @]

ResizeTo(s, asked) ==
    LET t == ClearFrom(s, asked)
        size == IF asked = 0 THEN 1 ELSE asked
    IN  IF size = t.c.size
        THEN t
        ELSE [t EXCEPT
                !.c.slot = [i \in 0 .. (size - 1) |->
                               IF i < t.c.size THEN @[i] ELSE EmptySlot],
                !.c.size = size,
                !.c.used = IF @ > size THEN size ELSE @,
                !.c.actual = 0]

ExtendBy(s, n) == [s EXCEPT !.c.newNr = @ + n]

\* As it would be if its_NrOfFree were not decremented.
AddBucketCounting(s, data) ==
    IF s.c.firstFree >= 0
    THEN Fill([s EXCEPT !.c.firstFree = s.f[s.c.firstFree][1]],
              s.c.firstFree, data, TRUE)
    ELSE LET full == InitializeBuckets(s, s.c.newNr - 1)
         IN  Fill([full EXCEPT !.c.newNr = @ + 1, !.c.curNr = @ + 1],
                  s.c.newNr, data, TRUE)

\* addBucket: from the free list, or at the end of the file.
AddBucket(s, data) ==
    IF s.c.firstFree >= 0
    THEN Fill([s EXCEPT !.c.firstFree = s.f[s.c.firstFree][1],
                        !.c.nrFree = @ - 1],
              s.c.firstFree, data, TRUE)
    ELSE LET full == InitializeBuckets(s, s.c.newNr - 1)
         IN  Fill([full EXCEPT !.c.newNr = @ + 1, !.c.curNr = @ + 1],
                  s.c.newNr, data, TRUE)

\* As it would be if its_FirstFree were set before the link is written.
RemoveBucketSwapped(s) ==
    LET i == s.c.actual
        b == s.c.slot[i].bucket
        gone == [s EXCEPT !.c.slot[i] = [bucket |-> b, data |-> Null, dirty |-> FALSE, lru |-> 0],
                          !.c.slotNr[b] = -1,
                          !.c.actual = 0]
    IN  [gone EXCEPT !.f[b] = Link(b),
                     !.c.firstFree = b,
                     !.c.nrFree = @ + 1]

\* removeBucket: the actual bucket, in the file at once.
RemoveBucket(s) ==
    LET i == s.c.actual
        b == s.c.slot[i].bucket
        gone == [s EXCEPT !.c.slot[i] = [bucket |-> b, data |-> Null, dirty |-> FALSE, lru |-> 0],
                          !.c.slotNr[b] = -1,
                          !.c.actual = 0]
    IN  [gone EXCEPT !.f[b] = Link(s.c.firstFree),
                     !.c.firstFree = b,
                     !.c.nrFree = @ + 1]

\* resync: forget all, and take over what another process has written.
ResyncTo(s, nr, nrFree, firstFree) ==
    LET t == ClearFrom(s, 0)
    IN  [t EXCEPT !.c.newNr = IF nr > @ THEN nr ELSE @,
                  !.c.curNr = nr,
                  !.c.nrFree = nrFree,
                  !.c.firstFree = firstFree]

-----------------------------------------------------------------------------
(* The calls of a storage manager.                                          *)

Becomes(s) == cache' = s.c /\ file' = s.f

\* What a caller would find in bucket b.
Content(b) ==
    CASE cache.slotNr[b] >= 0                          -> cache.slot[cache.slotNr[b]].data
      [] cache.slotNr[b] < 0 /\ b >= cache.curNr       -> Fresh
      [] cache.slotNr[b] < 0 /\ b < cache.curNr        -> file[b]

\* The buckets the storage manager has and has not given up.
InUse(b) == b < cache.newNr /\ Content(b) \notin Links

Read(b) ==
    LET s == GetBucket(State, b)
    IN  /\ InUse(b)
        /\ Becomes(s)
        /\ got' = s.c.slot[s.c.actual].data

\* getBucket, an update of the buffer it gave, and setDirty.
Write(b, data) ==
    LET s == SetDirty(GetBucket(State, b))
    IN  /\ InUse(b)
        /\ Becomes([s EXCEPT !.c.slot[s.c.actual].data = data])
        /\ got' = NoAnswer

Add(data) ==
    /\ cache.firstFree >= 0 \/ cache.newNr < MaxBuckets
    /\ Becomes(AddBucket(State, data))
    /\ got' = NoAnswer

Discard(b) ==
    /\ InUse(b)
    /\ Becomes(RemoveBucket(GetBucket(State, b)))
    /\ got' = NoAnswer

Extend(n) ==
    /\ cache.newNr + n <= MaxBuckets
    /\ Becomes(ExtendBy(State, n))
    /\ got' = NoAnswer

Flush ==
    /\ Becomes(FlushFrom(State, 0))
    /\ got' = NoAnswer

\* A removed bucket may have been given out and cached again in another slot
\* than it was removed from.  If the old slot, without a buffer but still with
\* the bucket's number, goes and the new one stays, then clear sets its_SlotNr
\* of the bucket to -1 although the cache keeps it.
Forgets(c, size) ==
    \E i \in size .. (c.used - 1) :
        /\ c.slot[i].data = Null
        /\ c.slotNr[c.slot[i].bucket] \in 0 .. (size - 1)

Resize(size) ==
    /\ Forgetful \/ ~Forgets(cache, size)
    /\ Becomes(ResizeTo(State, size))
    /\ got' = NoAnswer

-----------------------------------------------------------------------------
(* Another process updates the file while it has the table's lock; this one  *)
(* has flushed before it released its lock, and resynchronizes when it gets  *)
(* it back.                                                                  *)

Flushed ==
    /\ cache.curNr = cache.newNr
    /\ \A i \in UsedSlots(cache) : ~cache.slot[i].dirty

\* The file, the number of buckets and the free list the other process leaves.
Resync(f, nr, nrFree, firstFree) ==
    /\ Flushed
    /\ Becomes(ResyncTo([c |-> cache, f |-> f], nr, nrFree, firstFree))
    /\ got' = NoAnswer

OthersWrite(b, data) ==
    /\ InUse(b)
    /\ Resync([file EXCEPT ![b] = data], cache.newNr, cache.nrFree, cache.firstFree)

OthersAdd(data) ==
    \/ /\ cache.firstFree >= 0
       /\ Resync([file EXCEPT ![cache.firstFree] = data], cache.newNr,
                 cache.nrFree - 1, file[cache.firstFree][1])
    \/ /\ cache.firstFree < 0
       /\ cache.newNr < MaxBuckets
       /\ Resync([file EXCEPT ![cache.newNr] = data], cache.newNr + 1, 0, NoBucket)

OthersRemove(b) ==
    /\ InUse(b)
    /\ Resync([file EXCEPT ![b] = Link(cache.firstFree)], cache.newNr,
              cache.nrFree + 1, b)

-----------------------------------------------------------------------------
Next ==
    \/ \E b \in Buckets :
           \/ Read(b)
           \/ Discard(b)
           \/ OthersRemove(b)
           \/ \E data \in Data : Write(b, data) \/ OthersWrite(b, data)
    \/ \E data \in Data : Add(data) \/ OthersAdd(data)
    \/ \E n \in 1 .. 2 : Extend(n)
    \/ Flush
    \/ \E size \in Sizes : Resize(size)

Spec == Init /\ [][Next]_vars

-----------------------------------------------------------------------------
(* What the cache promises.                                                 *)

\* The k-th bucket of the free list, as the links in the file give it.
FreeBucket ==
    LET at[k \in 1 .. MaxBuckets] ==
            IF k = 1 THEN cache.firstFree
            ELSE IF at[k - 1] \in Buckets /\ file[at[k - 1]] \in Links
                 THEN file[at[k - 1]][1]
                 ELSE NoBucket
    IN  at

FreeList == [k \in 1 .. cache.nrFree |-> FreeBucket[k]]

Stored == [b \in 0 .. (cache.newNr - 1) |->
              IF Content(b) \in Links THEN Freed ELSE Content(b)]

\* The cache implements the array of buckets: no update is lost or undone by
\* an eviction, a resize, a flush, a removal or a resync, a reader gets the
\* last content, and a free bucket is given out once.
Store == INSTANCE BucketStore WITH store <- Stored, free <- FreeList

IsStore == Store!StoreSpec

\* BucketCache.h:351, its_SlotNr: "-1 = not in cache".  A bucket is in the cache
\* at most once, its_SlotNr knows where, and points to no other bucket's slot.
CachedWhereKnown ==
    /\ \A i \in UsedSlots(cache) :
          cache.slot[i].data # Null => cache.slotNr[cache.slot[i].bucket] = i
    /\ \A b \in Buckets : cache.slotNr[b] # -1 =>
          /\ cache.slotNr[b] \in UsedSlots(cache)
          /\ cache.slot[cache.slotNr[b]].bucket = b
          /\ cache.slot[cache.slotNr[b]].data # Null

\* Storage managers use the buffer of one getBucket while they get another one
\* (SSMBase makes its cache at least two slots big): fetching a bucket never
\* evicts the one used last.
LastUsedSurvives ==
    [][\A b \in Buckets, i \in UsedSlots(cache) :
          /\ Read(b) /\ b < cache.curNr /\ cache.size >= 2
          /\ cache.slot[i].data # Null
          /\ cache.slot[i].lru = cache.counter
          => cache'.slot[i].bucket = cache.slot[i].bucket]_vars

\* The free list in the file is as long as its_NrOfFree says, ends there, and
\* has no bucket twice; none of its buckets is cached.
FreeListSound ==
    /\ IsInjective(FreeList)
    /\ cache.nrFree = 0 => cache.firstFree = NoBucket
    /\ cache.nrFree > 0 => file[FreeBucket[cache.nrFree]] = Link(NoBucket)
    /\ \A k \in 1 .. cache.nrFree :
          /\ file[FreeBucket[k]] \in Links
          /\ cache.slotNr[FreeBucket[k]] = -1
=============================================================================
