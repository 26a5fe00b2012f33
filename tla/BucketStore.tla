----------------------------- MODULE BucketStore -----------------------------
(***************************************************************************)
(* What casa/IO/BucketCache.h promises to a storage manager: an array of    *)
(* buckets that can be read, overwritten, added at the end or from a list   *)
(* of free buckets, and put on that list.  No cache, no file.               *)
(***************************************************************************)
EXTENDS Integers, Sequences, FiniteSets

CONSTANTS
    Data,        \* what a bucket in use may contain
    Fresh,       \* what the owner's AddBuffer callback makes
    MaxBuckets   \* bound: the number of buckets there may be

Freed == "free"      \* the content of a bucket on the free list
NoAnswer == "none"

VARIABLES
    store,       \* the content of each bucket, from bucket 0
    free,        \* the free buckets, the one to be used first in front
    got          \* what the last getBucket gave

storeVars == <<store, free, got>>

InUse(b) == b \in DOMAIN store /\ store[b] # Freed

StoreInit ==
    /\ store = <<>>
    /\ free = <<>>
    /\ got = NoAnswer

Get(b) ==
    /\ InUse(b)
    /\ got' = store[b]
    /\ UNCHANGED <<store, free>>

Put(b, data) ==
    /\ InUse(b)
    /\ store' = [store EXCEPT ![b] = data]
    /\ got' = NoAnswer
    /\ UNCHANGED free

NrBuckets == Cardinality(DOMAIN store)

Lengthened(n, data) ==
    [b \in 0 .. (NrBuckets + n - 1) |-> IF b < NrBuckets THEN store[b] ELSE data]

AddAtEnd(data) ==
    /\ free = <<>>
    /\ NrBuckets < MaxBuckets
    /\ store' = Lengthened(1, data)
    /\ got' = NoAnswer
    /\ UNCHANGED free

AddFromFree(data) ==
    /\ free # <<>>
    /\ store' = [store EXCEPT ![Head(free)] = data]
    /\ free' = Tail(free)
    /\ got' = NoAnswer

Discard(b) ==
    /\ InUse(b)
    /\ store' = [store EXCEPT ![b] = Freed]
    /\ free' = <<b>> \o free
    /\ got' = NoAnswer

Extend(n) ==
    /\ NrBuckets + n <= MaxBuckets
    /\ store' = Lengthened(n, Fresh)
    /\ got' = NoAnswer
    /\ UNCHANGED free

\* Flushing, resizing, clearing and resynchronizing change no content.
Quiet ==
    /\ got' = NoAnswer
    /\ UNCHANGED <<store, free>>

StoreNext ==
    \/ \E b \in DOMAIN store :
           \/ Get(b)
           \/ Discard(b)
           \/ \E data \in Data : Put(b, data)
    \/ \E data \in Data : AddAtEnd(data) \/ AddFromFree(data)
    \/ \E n \in 1 .. MaxBuckets : Extend(n)
    \/ Quiet

StoreSpec == StoreInit /\ [][StoreNext]_storeVars
=============================================================================
