----------------------------- MODULE FileLocker -----------------------------
(***************************************************************************)
(* casa/IO/FileLocker.cc: advisory fcntl locks on one byte of a lock file,  *)
(* as several processes use them.  The kernel keeps one lock per process;   *)
(* every FileLocker keeps two flags that say what its process believes.     *)
(* The module has the state and the effect of one fcntl-based operation;    *)
(* LockFile and TableSync build their protocols from it.                    *)
(***************************************************************************)
EXTENDS Naturals, FiniteSets

CONSTANT Proc            \* the processes that use the file

VARIABLES
    held,                \* the kernel's lock of each process on the byte
    readLocked,          \* FileLocker::itsReadLocked of each process
    writeLocked          \* FileLocker::itsWriteLocked of each process

lockerVars == <<held, readLocked, writeLocked>>

LockType == {"read", "write"}

LockerTypeOK ==
    /\ held \in [Proc -> LockType \cup {"none"}]
    /\ readLocked \in [Proc -> BOOLEAN]
    /\ writeLocked \in [Proc -> BOOLEAN]

LockerInit ==
    /\ held = [p \in Proc |-> "none"]
    /\ readLocked = [p \in Proc |-> FALSE]
    /\ writeLocked = [p \in Proc |-> FALSE]

\* fcntl: p's request conflicts with no lock of another process.  A process
\* never conflicts with itself, so a request may up- or downgrade its lock.
CanLock(p, type) ==
    \A q \in Proc \ {p} :
        held[q] # "none" => type = "read" /\ held[q] = "read"

\* FileLocker::hasLock, a test of the flags only.
HasLock(p, type) == IF type = "read" THEN readLocked[p] ELSE writeLocked[p]

\* The read request of a process that believes it has the write lock is tried
\* as a write lock, because a read lock would replace the write lock.
StillWriteLocked(p, type) ==
    /\ type = "read"
    /\ writeLocked[p]
    /\ CanLock(p, "write")

CanAcquire(p, type) == StillWriteLocked(p, type) \/ CanLock(p, type)

\* As it would be without that test: the read lock replaces the write lock.
AcquiredReplacing(p, type) ==
    /\ CanLock(p, type)
    /\ held' = [held EXCEPT ![p] = type]
    /\ readLocked' = [readLocked EXCEPT ![p] = TRUE]
    /\ writeLocked' = [writeLocked EXCEPT ![p] = @ \/ type = "write"]

\* FileLocker::acquire when fcntl grants the lock.
Acquired(p, type) ==
    \/ /\ StillWriteLocked(p, type)
       /\ held' = [held EXCEPT ![p] = "write"]
       /\ UNCHANGED <<readLocked, writeLocked>>
    \/ /\ ~StillWriteLocked(p, type)
       /\ CanLock(p, type)
       /\ held' = [held EXCEPT ![p] = type]
       /\ readLocked' = [readLocked EXCEPT ![p] = TRUE]
       /\ writeLocked' = [writeLocked EXCEPT ![p] = (type = "write")]

\* As it would be if a refused process did not look for its read lock again.
NoLockLeft(p, type) == FALSE

\* What is left of the read lock of a process whose request is refused: none
\* after a read request; after a write request what a new attempt finds.
ReadLockLeft(p, type) ==
    /\ readLocked[p]
    /\ type = "write"
    /\ CanLock(p, "read")

\* FileLocker::acquire when the last attempt fails or fcntl reports an error.
NotAcquired(p, type) ==
    /\ ~CanAcquire(p, type)
    /\ writeLocked' = [writeLocked EXCEPT ![p] = FALSE]
    /\ readLocked' = [readLocked EXCEPT ![p] = ReadLockLeft(p, type)]
    /\ held' = [held EXCEPT ![p] = IF ReadLockLeft(p, type) THEN "read" ELSE @]

\* As it would be if only the read flag were reset.
ReleasedHalf(p) ==
    /\ held' = [held EXCEPT ![p] = "none"]
    /\ readLocked' = [readLocked EXCEPT ![p] = FALSE]
    /\ UNCHANGED writeLocked

\* FileLocker::release.
Released(p) ==
    /\ held' = [held EXCEPT ![p] = "none"]
    /\ readLocked' = [readLocked EXCEPT ![p] = FALSE]
    /\ writeLocked' = [writeLocked EXCEPT ![p] = FALSE]

\* POSIX: closing any descriptor of a file, or the end of the process, drops
\* all locks of the process on it.  The flags are not told.
KernelDropsLocks(p) ==
    held' = [held EXCEPT ![p] = "none"]

-----------------------------------------------------------------------------
(* The lock on its own: what any protocol with one FileLocker in each        *)
(* process does to it.                                                      *)

LockerNext ==
    \E p \in Proc :
        \/ \E type \in LockType : Acquired(p, type) \/ NotAcquired(p, type)
        \/ Released(p)

LockerSpec == LockerInit /\ [][LockerNext]_lockerVars

\* fcntl's table is consistent: a write lock is alone.
KernelExclusive ==
    \A p, q \in Proc : p # q /\ held[p] = "write" => held[q] = "none"

\* What a process believes about its lock is what the kernel holds for it,
\* through every refusal, retry, upgrade and downgrade of FileLocker::acquire:
\* no lock is believed that is not there, and none is left behind.
FlagsSound ==
    \A p \in Proc :
        /\ readLocked[p] <=> held[p] # "none"
        /\ writeLocked[p] <=> held[p] = "write"

\* A process that believes it may write is the only one that may even read
\* (FileLocker::hasLock, asked before each access of a table).
Exclusive ==
    \A p, q \in Proc : p # q /\ writeLocked[p] => ~readLocked[q]
=============================================================================
