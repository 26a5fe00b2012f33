--------------------------- MODULE TableSyncProofs ---------------------------
(***************************************************************************)
(* TableSync for every set of processes and data managers and without the   *)
(* bounds of the runs: types, that the flags of the lock are true although  *)
(* syncTable drops the lock behind their back, that data is accessed under  *)
(* a lock, and that updates which are not written yet are, too; that the    *)
(* counters tell what is new, that what is accessed is, and that the        *)
(* processes together implement one shared table.                           *)
(***************************************************************************)
EXTENDS TableSync, TLAPS

-----------------------------------------------------------------------------
(* Types.                                                                   *)

\* Where lock() and a release go on.
LockReturn == Access \cup {"idle"}
ThenValue == LockReturn \cup {"closed", "flushed", "changed", "changing"}

\* Without it TypeOK is not inductive: lock() goes on at call[p].then.
LockReturns ==
    \A p \in Proc : pc[p] \in {"lock", "syncTable"} => call[p].then \in LockReturn

TypeInv == TypeOK /\ LockReturns

LEMMA NewTyped ==
    NewContent \in Content /\ NewCounters \in Counters /\ NoCall \in CallValue
    /\ Clean \in [tab : BOOLEAN, dm : SUBSET DataMan]
  BY DEF NewContent, Content, NewCounters, Counters, NoCall, CallValue, Clean, LockType

\* Every operation on the lock keeps its types.
LEMMA LockerTyped ==
    ASSUME LockerTypeOK, NEW p \in Proc,
           \/ \E type \in LockType : Acquired(p, type) \/ NotAcquired(p, type)
           \/ Released(p)
           \/ KernelDropsLocks(p) /\ UNCHANGED <<readLocked, writeLocked>>
           \/ UNCHANGED lockerVars
    PROVE  LockerTypeOK'
  BY DEF LockerTypeOK, LockType, Acquired, NotAcquired, ReadLockLeft, Released,
         KernelDropsLocks, lockerVars

LEMMA ThenTyped ==
    /\ Access \subseteq LockReturn
    /\ "idle" \in LockReturn
    /\ LockReturn \subseteq ThenValue
    /\ {"closed", "flushed", "changed", "changing"} \subseteq ThenValue
  BY DEF LockReturn, ThenValue

ProcTyped ==
    /\ mem \in [Proc -> Content]
    /\ dirty \in [Proc -> [tab : BOOLEAN, dm : SUBSET DataMan]]
    /\ sync \in [Proc -> Counters]

OpenTyped == mode \in [Proc -> {"auto", "user"}] /\ inUse \in SUBSET Proc

FilesTyped == disk \in Content /\ syncFile \in Counters

CallTyped ==
    /\ pc \in [Proc -> PcValue]
    /\ call \in [Proc -> CallValue]
    /\ LockReturns

LEMMA TypeParts ==
    /\ TypeInv <=> LockerTypeOK /\ OpenTyped /\ FilesTyped /\ ProcTyped /\ CallTyped
    /\ TypeInv' <=> (LockerTypeOK /\ OpenTyped /\ FilesTyped /\ ProcTyped /\ CallTyped)'
  BY DEF TypeInv, TypeOK, OpenTyped, FilesTyped, ProcTyped, CallTyped

\* A process that gets to a label with a call that fits it.
LEMMA MoveTyped ==
    ASSUME CallTyped, NEW p \in Proc, NEW label \in PcValue, NEW c \in CallValue,
           pc' = [pc EXCEPT ![p] = label], call' = [call EXCEPT ![p] = c],
           label \in {"lock", "syncTable"} => c.then \in LockReturn
    PROVE  CallTyped'
  BY DEF CallTyped, LockReturns

LEMMA ReturnTyped ==
    ASSUME CallTyped, NEW p \in Proc, Return(p)
    PROVE  CallTyped'
  BY MoveTyped, NewTyped DEF Return, Goto, PcValue

LEMMA GotoTyped ==
    ASSUME CallTyped, NEW p \in Proc, NEW label \in PcValue, Goto(p, label),
           UNCHANGED call,
           label \in {"lock", "syncTable"} => call[p].then \in LockReturn
    PROVE  CallTyped'
  <1>1. call' = [call EXCEPT ![p] = call[p]] /\ call[p] \in CallValue
    BY DEF CallTyped
  <1> QED BY <1>1, MoveTyped DEF Goto

LEMMA ProceedTyped ==
    ASSUME CallTyped, NEW p \in Proc, pc[p] \in {"lock", "syncTable"}, Proceed(p)
    PROVE  CallTyped'
  <1>1. CASE call[p].then = "idle"
    BY <1>1, ReturnTyped DEF Proceed
  <1>2. CASE call[p].then # "idle"
    <2>1. call[p].then \in Access
      BY <1>2 DEF CallTyped, LockReturns, LockReturn
    <2> QED BY <1>2, <2>1, GotoTyped DEF Proceed, PcValue, Access
  <1> QED BY <1>1, <1>2

LEMMA CallMade ==
    ASSUME CallTyped, NEW p \in Proc, NEW label \in PcValue,
           NEW type \in LockType, NEW noSync \in BOOLEAN,
           NEW wait \in {"once", "forever"},
           NEW then \in ThenValue,
           Goto(p, label), Doing(p, type, noSync, wait, then),
           label \in {"lock", "syncTable"} => then \in LockReturn
    PROVE  CallTyped'
  <1> DEFINE c == [type |-> type, noSync |-> noSync, wait |-> wait, then |-> then]
  <1>1. c \in CallValue /\ c.then = then
    BY DEF CallValue, ThenValue, LockReturn
  <1>2. pc' = [pc EXCEPT ![p] = label] /\ call' = [call EXCEPT ![p] = c]
    BY DEF Goto, Doing
  <1> HIDE DEF c
  <1> QED BY <1>1, <1>2, MoveTyped

\* The steps that ask for the lock or reread after it.
LEMMA LockingTyped ==
    ASSUME TypeInv, NEW p \in Proc,
           \/ LockGranted(p) \/ LockRefused(p) \/ LockTried(p) \/ LockDeadlock(p)
           \/ SyncTable(p)
    PROVE  TypeInv'
  <1> LockerTypeOK /\ OpenTyped /\ FilesTyped /\ ProcTyped /\ CallTyped
    BY TypeParts
  <1>1. call[p].type \in LockType
    BY DEF CallTyped, CallValue
  <1>2. OpenTyped'
    BY DEF LockGranted, LockRefused, LockTried, LockDeadlock, SyncTable, OpenTyped,
           openVars
  <1>3. FilesTyped'
    BY DEF LockGranted, LockRefused, LockTried, LockDeadlock, SyncTable, FilesTyped,
           fileVars
  <1>4. CASE LockGranted(p)
    <2>1. LockerTypeOK'
      BY <1>1, <1>4, LockerTyped DEF LockGranted
    <2>2. ProcTyped'
      <3>1. CASE Resynced(p)
        <4> DEFINE dm == [d \in DataMan |-> IF syncFile.dm[d] # sync[p].dm[d]
                                            THEN disk.dm[d] ELSE mem[p].dm[d]]
        <4>1. dm \in [DataMan -> Nat]
          BY DEF ProcTyped, FilesTyped, Content
        <4>2. mem' = [mem EXCEPT ![p].dm = dm]
          BY <3>1 DEF Resynced
        <4> HIDE DEF dm
        <4> QED BY <1>4, <3>1, <4>1, <4>2
                DEF LockGranted, Resynced, ProcTyped, FilesTyped, Content
      <3>2. CASE UNCHANGED mem
        BY <1>4, <3>2 DEF LockGranted, Resynced, ProcTyped, FilesTyped
      <3> QED BY <1>4, <3>1, <3>2 DEF LockGranted
    <2>3. CallTyped'
      <3>1. CASE Proceed(p)
        BY <1>4, <3>1, ProceedTyped DEF LockGranted
      <3>2. CASE Return(p)
        BY <3>2, ReturnTyped
      <3>3. CASE Goto(p, "syncTable") /\ UNCHANGED call
        BY <1>4, <3>3, GotoTyped DEF LockGranted, CallTyped, LockReturns, PcValue
      <3> QED BY <1>4, <3>1, <3>2, <3>3 DEF LockGranted
    <2> QED BY <1>2, <1>3, <2>1, <2>2, <2>3, TypeParts
  <1>5. CASE LockRefused(p) \/ LockTried(p) \/ LockDeadlock(p)
    <2>1. LockerTypeOK'
      BY <1>1, <1>5, LockerTyped DEF LockRefused, LockTried, LockDeadlock
    <2>2. ProcTyped'
      BY <1>5 DEF LockRefused, LockTried, LockDeadlock, ProcTyped, procVars
    <2>3. CallTyped'
      <3>1. CASE LockRefused(p)
        BY <3>1, ProceedTyped DEF LockRefused
      <3>2. CASE LockTried(p)
        BY <3>2 DEF LockTried, CallTyped, LockReturns
      <3>3. CASE LockDeadlock(p)
        <4>1. CASE Goto(p, "release") /\ Doing(p, "read", FALSE, "forever", "idle")
          BY <4>1, CallMade, ThenTyped DEF PcValue, LockType
        <4> QED BY <3>3, <4>1, ReturnTyped DEF LockDeadlock
      <3> QED BY <1>5, <3>1, <3>2, <3>3
    <2> QED BY <1>2, <1>3, <2>1, <2>2, <2>3, TypeParts
  <1>6. CASE SyncTable(p)
    <2>1. LockerTypeOK'
      BY <1>6, LockerTyped DEF SyncTable, lockerVars
    <2>2. ProcTyped'
      <3>1. [mem[p] EXCEPT !.keys = disk.keys] \in Content
        BY DEF ProcTyped, FilesTyped, Content
      <3> QED BY <1>6, <3>1 DEF SyncTable, ProcTyped
    <2>3. CallTyped'
      <3>1. CASE Return(p)
        BY <3>1, ReturnTyped
      <3>2. CASE Goto(p, "lock") /\ UNCHANGED call
        BY <1>6, <3>2, GotoTyped DEF SyncTable, CallTyped, LockReturns, PcValue
      <3> QED BY <1>6, <3>1, <3>2 DEF SyncTable
    <2> QED BY <1>2, <1>3, <2>1, <2>2, <2>3, TypeParts
  <1> QED BY <1>4, <1>5, <1>6

\* The calls that go on with lock() or with a release.
LEMMA CallingTyped ==
    ASSUME TypeInv, NEW p \in Proc,
           \/ \E kind \in Access : Begin(p, kind)
           \/ UserLock(p) \/ Unlock(p) \/ Close(p) \/ Flush(p) \/ Release(p)
           \/ Read(p)
    PROVE  TypeInv'
  <1> LockerTypeOK /\ OpenTyped /\ FilesTyped /\ ProcTyped /\ CallTyped
    BY TypeParts
  <1>1. UNCHANGED <<lockerVars, openVars, fileVars, procVars>>
    BY DEF Begin, RequestLock, UserLock, Unlock, Close, Flush, Release, Read
  <1>2. LockerTypeOK' /\ OpenTyped' /\ FilesTyped' /\ ProcTyped'
    BY <1>1 DEF LockerTypeOK, OpenTyped, FilesTyped, ProcTyped, lockerVars,
                openVars, fileVars, procVars
  <1> SUFFICES CallTyped'
    BY <1>2, TypeParts
  <1>3. ASSUME NEW type \in LockType, NEW wait \in {"once", "forever"},
               NEW then \in LockReturn, RequestLock(p, type, wait, then)
        PROVE  CallTyped'
    <2>1. HasLock(p, "read") \in BOOLEAN
      BY DEF HasLock, LockerTypeOK
    <2> QED BY <1>3, <2>1, CallMade, ThenTyped DEF RequestLock, PcValue
  <1>4. ASSUME NEW kind \in Access, Begin(p, kind)
        PROVE  CallTyped'
    <2>1. CASE Goto(p, kind) /\ UNCHANGED call
      BY <2>1, GotoTyped DEF PcValue, Access
    <2>2. LockFor(kind) \in LockType /\ MaxWait \in {"once", "forever"}
      BY TableSyncAssumption DEF LockFor, LockType
    <2>3. CASE RequestLock(p, LockFor(kind), MaxWait, kind)
      BY <1>3, <2>2, <2>3, ThenTyped
    <2>4. CASE RequestLock(p, "write", "forever", kind)
      BY <1>3, <2>4, ThenTyped DEF LockType
    <2> QED BY <1>4, <2>1, <2>3, <2>4 DEF Begin
  <1>5. CASE UserLock(p)
    <2>1. PICK type \in LockType, wait \in Attempts : RequestLock(p, type, wait, "idle")
      BY <1>5 DEF UserLock
    <2>2. wait \in {"once", "forever"}
      BY TableSyncAssumption
    <2> QED BY <1>3, <2>1, <2>2, ThenTyped
  <1>6. ASSUME NEW then \in ThenValue, NEW label \in {"release", "put"},
               Goto(p, label), Doing(p, "read", FALSE, "forever", then)
        PROVE  CallTyped'
    <2>1. label \in PcValue /\ label \notin {"lock", "syncTable"}
      BY DEF PcValue
    <2>2. "read" \in LockType /\ FALSE \in BOOLEAN /\ "forever" \in {"once", "forever"}
      BY DEF LockType
    <2> QED BY <1>6, <2>1, <2>2, CallMade
  <1>7. CASE Unlock(p) \/ Close(p) \/ Flush(p)
    BY <1>6, <1>7, ThenTyped DEF Unlock, Close, Flush
  <1>8. CASE Release(p) \/ Read(p)
    <2>1. ASSUME NEW label \in {"put", "unlock"}, Goto(p, label), UNCHANGED call
          PROVE  CallTyped'
      BY <2>1, GotoTyped DEF PcValue
    <2>2. CASE Release(p)
      BY <2>1, <2>2 DEF Release
    <2>3. CASE Read(p)
      BY <1>6, <2>3, ReturnTyped, ThenTyped DEF Read, AfterAccess
    <2> QED BY <1>8, <2>2, <2>3
  <1> QED BY <1>4, <1>5, <1>7, <1>8

LEMMA AfterAccessTyped ==
    ASSUME CallTyped, NEW p \in Proc,
           \/ AfterAccess(p)
           \/ \E then \in {"changed", "changing"} :
                 Goto(p, "release") /\ Doing(p, "read", FALSE, "forever", then)
    PROVE  CallTyped'
  <1>1. ASSUME NEW then \in ThenValue, Goto(p, "release"),
               Doing(p, "read", FALSE, "forever", then)
        PROVE  CallTyped'
    <2>1. "release" \in PcValue /\ "release" \notin {"lock", "syncTable"}
      BY DEF PcValue
    <2>2. "read" \in LockType /\ FALSE \in BOOLEAN /\ "forever" \in {"once", "forever"}
      BY DEF LockType
    <2> QED BY <1>1, <2>1, <2>2, CallMade
  <1> QED BY <1>1, ReturnTyped, ThenTyped DEF AfterAccess

\* The changes of a process's own copy.
LEMMA ChangingTyped ==
    ASSUME TypeInv, NEW p \in Proc,
           Write(p) \/ WriteKeyword(p) \/ ColumnKeyword(p) \/ AddColumn(p)
    PROVE  TypeInv'
  <1> LockerTypeOK /\ OpenTyped /\ FilesTyped /\ ProcTyped /\ CallTyped
    BY TypeParts
  <1>1. LockerTypeOK' /\ OpenTyped' /\ FilesTyped'
    BY DEF Write, WriteKeyword, ColumnKeyword, AddColumn, LockerTypeOK, OpenTyped,
           FilesTyped, lockerVars, openVars, fileVars
  <1>2. CallTyped'
    BY AfterAccessTyped, ReturnTyped
    DEF Write, WriteKeyword, ColumnKeyword, AddColumn
  <1>3. ProcTyped'
    <2>1. UNCHANGED sync
      BY DEF Write, WriteKeyword, ColumnKeyword, AddColumn
    <2>2. mem[p] \in Content /\ dirty[p] \in [tab : BOOLEAN, dm : SUBSET DataMan]
      BY DEF ProcTyped
    <2>3. [mem[p] EXCEPT !.keys = @ + 1] \in Content
      BY <2>2 DEF Content
    <2>4. ASSUME NEW d \in DataMan
          PROVE  /\ [mem[p] EXCEPT !.dm[d] = @ + 1] \in Content
                 /\ WithColumn(mem[p], d) \in Content
      <3>1. [mem[p].dm EXCEPT ![d] = @ + 1] \in [DataMan -> Nat] /\ mem[p].cols + 1 \in Nat
        BY <2>2 DEF Content
      <3>2. [mem[p] EXCEPT !.dm[d] = @ + 1] \in Content
        BY <2>2, <3>1 DEF Content
      <3>3. WithColumn(mem[p], d) \in Content
        BY <2>2, <3>1 DEF Content, WithColumn
      <3> QED BY <3>2, <3>3
    <2>5. /\ [dirty[p] EXCEPT !.tab = TRUE] \in [tab : BOOLEAN, dm : SUBSET DataMan]
          /\ \A d \in DataMan :
                /\ [dirty[p] EXCEPT !.dm = @ \cup {d}] \in [tab : BOOLEAN, dm : SUBSET DataMan]
                /\ [tab |-> TRUE, dm |-> dirty[p].dm \cup {d}]
                      \in [tab : BOOLEAN, dm : SUBSET DataMan]
      BY <2>2
    <2>6. CASE Write(p)
      BY <2>1, <2>4, <2>5, <2>6 DEF Write, ProcTyped
    <2>7. CASE WriteKeyword(p)
      BY <2>1, <2>3, <2>5, <2>7 DEF WriteKeyword, ProcTyped
    <2>8. CASE ColumnKeyword(p)
      BY <2>1, <2>3, <2>5, <2>8 DEF ColumnKeyword, ProcTyped
    <2>9. CASE AddColumn(p)
      <3>1. PICK d \in DataMan :
              /\ mem' = [mem EXCEPT ![p] = WithColumn(mem[p], d)]
              /\ \/ dirty' = [dirty EXCEPT ![p] = [tab |-> TRUE, dm |-> @.dm \cup {d}]]
                 \/ dirty' = [dirty EXCEPT ![p].dm = @ \cup {d}]
        BY <2>9 DEF AddColumn
      <3>2. mem' \in [Proc -> Content]
        BY <2>4, <3>1 DEF ProcTyped
      <3>3. dirty' \in [Proc -> [tab : BOOLEAN, dm : SUBSET DataMan]]
        <4>1. CASE dirty' = [dirty EXCEPT ![p] = [tab |-> TRUE, dm |-> @.dm \cup {d}]]
          BY <2>5, <4>1 DEF ProcTyped
        <4>2. CASE dirty' = [dirty EXCEPT ![p].dm = @ \cup {d}]
          BY <2>5, <4>2 DEF ProcTyped
        <4> QED BY <3>1, <4>1, <4>2
      <3> QED BY <2>1, <3>2, <3>3 DEF ProcTyped
    <2> QED BY <2>6, <2>7, <2>8, <2>9
  <1> QED BY <1>1, <1>2, <1>3, TypeParts

LEMMA CountedTyped ==
    ASSUME TypeInv, NEW p \in Proc
    PROVE  Counted(p) \in Counters
  <1> ProcTyped
    BY TypeParts
  <1>1. mem[p] \in Content /\ sync[p] \in Counters
    BY DEF ProcTyped
  <1> QED BY <1>1 DEF Counted, Content, Counters

\* putFile.
LEMMA PuttingTyped ==
    ASSUME TypeInv, NEW p \in Proc, PutData(p) \/ PutInfo(p)
    PROVE  TypeInv'
  <1> LockerTypeOK /\ OpenTyped /\ FilesTyped /\ ProcTyped /\ CallTyped
    BY TypeParts
  <1>1. LockerTypeOK' /\ OpenTyped'
    BY DEF PutData, PutInfo, LockerTypeOK, OpenTyped, lockerVars, openVars
  <1>2. CallTyped'
    <2>1. ASSUME NEW label \in {"putInfo", "unlock"}, Goto(p, label), UNCHANGED call
          PROVE  CallTyped'
      BY <2>1, GotoTyped DEF PcValue
    <2> QED BY <2>1, ReturnTyped DEF PutData, PutInfo, AfterPut
  <1>3. FilesTyped'
    <2>1. CASE PutData(p)
      BY <2>1 DEF PutData, FilesTyped, ProcTyped, Content
    <2>2. CASE PutInfo(p)
      BY <2>2, CountedTyped DEF PutInfo, FilesTyped
    <2> QED BY <2>1, <2>2
  <1>4. ProcTyped'
    <2>1. CASE PutData(p)
      BY <2>1 DEF PutData, ProcTyped, procVars
    <2>2. CASE PutInfo(p)
      BY <2>2, CountedTyped, NewTyped DEF PutInfo, ProcTyped
    <2> QED BY <2>1, <2>2
  <1> QED BY <1>1, <1>2, <1>3, <1>4, TypeParts

\* Opening, releasing and leaving.
LEMMA LeavingTyped ==
    ASSUME TypeInv, NEW p \in Proc, Open(p) \/ Opened(p) \/ Unlocked(p) \/ Crash(p)
    PROVE  TypeInv'
  <1> LockerTypeOK /\ OpenTyped /\ FilesTyped /\ ProcTyped /\ CallTyped
    BY TypeParts
  <1>1. ASSUME NEW label \in {"open", "idle", "unlock"}, Goto(p, label), UNCHANGED call
        PROVE  CallTyped'
    BY <1>1, GotoTyped DEF PcValue
  <1>2. CASE Open(p)
    <2>1. LockerTypeOK' /\ FilesTyped' /\ ProcTyped'
      BY <1>2, LockerTyped DEF Open, FilesTyped, ProcTyped, fileVars, procVars
    <2>2. OpenTyped'
      BY <1>2, TableSyncAssumption DEF Open, OpenTyped
    <2>3. CallTyped'
      BY <1>1, <1>2 DEF Open
    <2> QED BY <2>1, <2>2, <2>3, TypeParts
  <1>3. CASE Opened(p)
    <2>1. LockerTypeOK' /\ FilesTyped' /\ OpenTyped'
      BY <1>3, LockerTyped DEF Opened, FilesTyped, OpenTyped, fileVars, openVars, LockType
    <2>2. ProcTyped'
      BY <1>3 DEF Opened, ProcTyped, FilesTyped
    <2>3. CallTyped'
      BY <1>1, <1>3 DEF Opened
    <2> QED BY <2>1, <2>2, <2>3, TypeParts
  <1>4. ASSUME Gone(p)
        PROVE  TypeInv'
    <2>1. LockerTypeOK' /\ FilesTyped' /\ OpenTyped'
      BY <1>4, LockerTyped DEF Gone, FilesTyped, OpenTyped, fileVars
    <2>2. ProcTyped'
      BY <1>4, NewTyped DEF Gone, ProcTyped
    <2>3. CallTyped'
      BY <1>4, MoveTyped, NewTyped DEF Gone, Goto, PcValue
    <2> QED BY <2>1, <2>2, <2>3, TypeParts
  <1>5. CASE Unlocked(p) /\ call[p].then # "closed"
    <2>1. LockerTypeOK' /\ FilesTyped' /\ OpenTyped' /\ CallTyped'
      BY <1>5, LockerTyped, ReturnTyped
      DEF Unlocked, FilesTyped, OpenTyped, fileVars, openVars
    <2>2. [mem[p] EXCEPT !.keys = @ + 1] \in Content
      BY DEF ProcTyped, Content
    <2>3. [dirty[p] EXCEPT !.tab = TRUE] \in [tab : BOOLEAN, dm : SUBSET DataMan]
      BY DEF ProcTyped
    <2>4. ProcTyped'
      BY <1>5, <2>2, <2>3 DEF Unlocked, ProcTyped
    <2> QED BY <2>1, <2>4, TypeParts
  <1> QED BY <1>2, <1>3, <1>4, <1>5 DEF Unlocked, Crash

LEMMA TypeStep == TypeInv /\ [Next]_vars => TypeInv'
  <1> SUFFICES ASSUME TypeInv, [Next]_vars
               PROVE  TypeInv'
    OBVIOUS
  <1>1. CASE Next
    <2>1. PICK p \in Proc : Step(p) \/ Call(p)
      BY <1>1 DEF Next
    <2> QED BY <2>1, LockingTyped, CallingTyped, ChangingTyped, PuttingTyped, LeavingTyped
            DEF Step, Call
  <1>2. CASE UNCHANGED vars
    BY <1>2 DEF TypeInv, TypeOK, LockReturns, LockerTypeOK, vars, lockerVars, openVars,
                fileVars, procVars
  <1> QED BY <1>1, <1>2

LEMMA TypeInit == Init => TypeInv
  BY NewTyped DEF Init, LockerInit, TypeInv, TypeOK, LockerTypeOK, LockReturns, PcValue

\* The table, the counters and the calls keep their types, in whatever order
\* the processes make their calls (PlainTable, ColumnSet, TableLockData).
THEOREM TypeCorrect == Spec => []TypeOK
  <1>1. TypeInv => TypeOK
    BY DEF TypeInv
  <1> QED BY <1>1, TypeInit, TypeStep, PTL DEF Spec

-----------------------------------------------------------------------------
(* The flags of the lock.                                                   *)

Honest(p) ==
    /\ readLocked[p] <=> held[p] # "none"
    /\ writeLocked[p] <=> held[p] = "write"

\* After syncTable the kernel has no lock of the process, and lock() is about
\* to ask for it again.  The write flag is never set without the read flag.
Forgotten(p) ==
    /\ pc[p] = "lock"
    /\ held[p] = "none"
    /\ writeLocked[p] => readLocked[p]

LockState == KernelExclusive /\ \A p \in Proc : Honest(p) \/ Forgotten(p)

LEMMA HonestWrite ==
    ASSUME NEW p \in Proc, Honest(p)
    PROVE  writeLocked[p] => readLocked[p]
  BY DEF Honest

\* A granted request makes the flags true again.
LEMMA GrantedHonest ==
    ASSUME LockerTypeOK, LockState, NEW p \in Proc, NEW type \in LockType,
           Acquired(p, type)
    PROVE  KernelExclusive' /\ Honest(p)' /\ HasLock(p, type)'
  <1>1. CASE StillWriteLocked(p, type)
    <2>1. /\ CanLock(p, "write") /\ writeLocked[p] /\ type = "read"
          /\ held' = [held EXCEPT ![p] = "write"]
          /\ UNCHANGED <<readLocked, writeLocked>>
      BY <1>1 DEF Acquired, StillWriteLocked
    <2>2. readLocked[p]
      BY <2>1, HonestWrite DEF LockState, Forgotten
    <2> QED BY <2>1, <2>2 DEF LockerTypeOK, KernelExclusive, Honest, HasLock, CanLock
  <1>2. CASE ~StillWriteLocked(p, type)
    <2>1. /\ CanLock(p, type)
          /\ held' = [held EXCEPT ![p] = type]
          /\ readLocked' = [readLocked EXCEPT ![p] = TRUE]
          /\ writeLocked' = [writeLocked EXCEPT ![p] = (type = "write")]
      BY <1>2 DEF Acquired
    <2>2. KernelExclusive'
      BY <2>1 DEF LockerTypeOK, LockState, KernelExclusive, CanLock, LockType
    <2>3. Honest(p)' /\ HasLock(p, type)'
      BY <2>1 DEF LockerTypeOK, Honest, HasLock, LockType
    <2> QED BY <2>2, <2>3
  <1> QED BY <1>1, <1>2

\* So does a refused one; true flags it leaves as they are.
LEMMA RefusedHonest ==
    ASSUME LockerTypeOK, LockState, NEW p \in Proc, NEW type \in LockType,
           NotAcquired(p, type)
    PROVE  /\ KernelExclusive' /\ Honest(p)'
           /\ Honest(p) => UNCHANGED lockerVars
  <1>1. /\ ~CanLock(p, type) /\ ~StillWriteLocked(p, type)
        /\ writeLocked' = [writeLocked EXCEPT ![p] = FALSE]
        /\ readLocked' = [readLocked EXCEPT ![p] = ReadLockLeft(p, type)]
        /\ held' = [held EXCEPT ![p] = IF ReadLockLeft(p, type) THEN "read" ELSE @]
    BY DEF NotAcquired, CanAcquire
  <1>2. CASE Honest(p)
    <2>1. CASE readLocked[p]
      <3>1. held[p] \in LockType
        BY <1>2, <2>1 DEF LockerTypeOK, Honest, LockType
      <3>2. \A q \in Proc \ {p} : held[q] \in {"none", "read"}
        BY <3>1 DEF LockerTypeOK, LockState, KernelExclusive, LockType
      <3>3. CanLock(p, "read")
        BY <3>2 DEF CanLock
      <3>4. writeLocked[p] => CanLock(p, "write")
        BY <1>2 DEF LockState, KernelExclusive, Honest, CanLock
      <3>5. type = "write" /\ ~writeLocked[p] /\ held[p] = "read"
        BY <1>1, <1>2, <3>1, <3>3, <3>4 DEF LockType, Honest
      <3>6. UNCHANGED lockerVars
        BY <1>1, <2>1, <3>3, <3>5 DEF ReadLockLeft, LockerTypeOK, lockerVars
      <3> QED BY <1>2, <3>6 DEF LockState, KernelExclusive, Honest, lockerVars
    <2>2. CASE ~readLocked[p]
      <3>1. ~writeLocked[p]
        BY <1>2, <2>2, HonestWrite
      <3>2. UNCHANGED lockerVars
        BY <1>1, <2>2, <3>1 DEF ReadLockLeft, LockerTypeOK, lockerVars
      <3> QED BY <1>2, <3>2 DEF LockState, KernelExclusive, Honest, lockerVars
    <2> QED BY <2>1, <2>2
  <1>3. CASE ~Honest(p)
    <2>1. held[p] = "none"
      BY <1>3 DEF LockState, Forgotten
    <2>2. ReadLockLeft(p, type) \in BOOLEAN /\ (ReadLockLeft(p, type) => CanLock(p, "read"))
      BY DEF ReadLockLeft, LockerTypeOK, CanLock
    <2>3. Honest(p)'
      BY <1>1, <2>1, <2>2 DEF LockerTypeOK, Honest
    <2>4. KernelExclusive'
      BY <1>1, <2>1, <2>2 DEF LockerTypeOK, LockState, KernelExclusive, CanLock
    <2> QED BY <1>3, <2>3, <2>4
  <1> QED BY <1>2, <1>3

LEMMA ReleasedHonest ==
    ASSUME LockerTypeOK, LockState, NEW p \in Proc, Released(p)
    PROVE  KernelExclusive' /\ Honest(p)' /\ ~writeLocked'[p]
  BY DEF LockerTypeOK, LockState, KernelExclusive, Honest, Released

\* What a step of p does to the lock, it does to p's.
OthersLocks(p) ==
    \A q \in Proc \ {p} :
        /\ held'[q] = held[q]
        /\ readLocked'[q] = readLocked[q]
        /\ writeLocked'[q] = writeLocked[q]
        /\ pc'[q] = pc[q]

LEMMA OwnLockOnly ==
    ASSUME TypeInv, NEW p \in Proc, Step(p) \/ Call(p)
    PROVE  OthersLocks(p)
  <1>1. \A q \in Proc \ {p} : pc'[q] = pc[q]
    <2>1. pc \in [Proc -> PcValue]
      BY DEF TypeInv, TypeOK
    <2>2. (\E label : Goto(p, label)) \/ UNCHANGED pc
      BY DEF Step, Call, Open, Opened, LockGranted, LockRefused, LockTried,
             LockDeadlock, SyncTable, Begin, RequestLock, AfterAccess, Read, Write,
             WriteKeyword, ColumnKeyword, AddColumn, UserLock, Unlock, Close, Flush,
             Release, AfterPut, PutData, PutInfo, Gone, Unlocked, Crash, Proceed, Return
    <2> QED BY <2>1, <2>2 DEF Goto
  <1>2. \/ \E type \in LockType : Acquired(p, type) \/ NotAcquired(p, type)
        \/ Released(p)
        \/ KernelDropsLocks(p) /\ UNCHANGED <<readLocked, writeLocked>>
        \/ UNCHANGED lockerVars
    <2>1. call[p].type \in LockType
      BY DEF TypeInv, TypeOK, CallValue
    <2> QED BY <2>1 DEF Step, Call, Open, Opened, LockGranted, LockRefused, LockTried,
           LockDeadlock, SyncTable, Begin, RequestLock, Read, Write, WriteKeyword,
           ColumnKeyword, AddColumn, UserLock, Unlock, Close, Flush, Release, PutData,
           PutInfo, Gone, Unlocked, Crash, lockerVars, LockType
  <1>3. LockerTypeOK
    BY DEF TypeInv, TypeOK
  <1> QED BY <1>1, <1>2, <1>3
          DEF OthersLocks, LockerTypeOK, Acquired, NotAcquired, Released, KernelDropsLocks,
              lockerVars

\* The steps of p between which its lock does not change.
LockLeft(p) == UNCHANGED lockerVars /\ pc[p] # "lock"

\* How a step of p treats the lock.
LEMMA LockSteps ==
    ASSUME TypeInv, NEW p \in Proc, Step(p) \/ Call(p)
    PROVE  \/ \E type \in LockType : Acquired(p, type) \/ NotAcquired(p, type)
           \/ Released(p)
           \/ LockLeft(p)
           \/ /\ pc[p] = "syncTable" /\ pc'[p] = "lock"
              /\ KernelDropsLocks(p) /\ UNCHANGED <<readLocked, writeLocked>>
  <1>1. call[p].type \in LockType /\ pc \in [Proc -> PcValue]
    BY DEF TypeInv, TypeOK, CallValue
  <1>2. CASE \/ Opened(p) \/ LockGranted(p) \/ LockRefused(p) \/ LockTried(p)
             \/ LockDeadlock(p)
    BY <1>1, <1>2 DEF Opened, LockGranted, LockRefused, LockTried, LockDeadlock, LockType
  <1>3. CASE SyncTable(p)
    BY <1>1, <1>3 DEF SyncTable, LockLeft, lockerVars, Goto
  <1>4. CASE Read(p) \/ Write(p) \/ WriteKeyword(p) \/ ColumnKeyword(p) \/ AddColumn(p)
    BY <1>4 DEF Read, Write, WriteKeyword, ColumnKeyword, AddColumn, LockLeft
  <1>5. CASE Release(p) \/ PutData(p) \/ PutInfo(p)
    BY <1>5 DEF Release, PutData, PutInfo, LockLeft
  <1>6. CASE Unlocked(p) \/ Crash(p)
    BY <1>6 DEF Unlocked, Crash, Gone
  <1>7. CASE Call(p)
    BY <1>7 DEF Call, Open, Begin, RequestLock, UserLock, Unlock, Close, Flush, LockLeft
  <1> QED BY <1>2, <1>3, <1>4, <1>5, <1>6, <1>7 DEF Step

LEMMA LockStateStep ==
    ASSUME TypeInv, LockState, NEW p \in Proc, Step(p) \/ Call(p)
    PROVE  LockState'
  <1>1. LockerTypeOK
    BY DEF TypeInv, TypeOK
  <1>2. OthersLocks(p)
    BY OwnLockOnly
  <1>3. \A q \in Proc \ {p} : (Honest(q) \/ Forgotten(q))'
    BY <1>2 DEF OthersLocks, LockState, Honest, Forgotten
  <1> SUFFICES KernelExclusive' /\ (Honest(p) \/ Forgotten(p))'
    BY <1>3 DEF LockState
  <1>4. ASSUME NEW type \in LockType, Acquired(p, type) \/ NotAcquired(p, type)
        PROVE  KernelExclusive' /\ Honest(p)'
    BY <1>1, <1>4, GrantedHonest, RefusedHonest
  <1>5. CASE Released(p)
    BY <1>1, <1>5, ReleasedHonest
  <1>6. CASE LockLeft(p)
    BY <1>6 DEF LockLeft, LockState, KernelExclusive, Honest, Forgotten, lockerVars
  <1>7. CASE /\ pc[p] = "syncTable" /\ pc'[p] = "lock"
             /\ KernelDropsLocks(p) /\ UNCHANGED <<readLocked, writeLocked>>
    <2>1. writeLocked[p] => readLocked[p]
      BY <1>7, HonestWrite DEF LockState, Forgotten
    <2>2. held' = [held EXCEPT ![p] = "none"]
      BY <1>7 DEF KernelDropsLocks
    <2> QED BY <1>1, <1>7, <2>1, <2>2
            DEF LockerTypeOK, LockState, KernelExclusive, Forgotten
  <1> QED BY <1>4, <1>5, <1>6, <1>7, LockSteps

LEMMA LockStateNext == TypeInv /\ LockState /\ [Next]_vars => LockState'
  <1> SUFFICES ASSUME TypeInv, LockState, [Next]_vars
               PROVE  LockState'
    OBVIOUS
  <1>1. CASE Next
    BY <1>1, LockStateStep DEF Next
  <1>2. CASE UNCHANGED vars
    BY <1>2 DEF LockState, KernelExclusive, Honest, Forgotten, vars, lockerVars
  <1> QED BY <1>1, <1>2

LEMMA LockStateInvariant == Spec => [](TypeInv /\ LockState)
  <1>1. Init => LockState
    BY DEF Init, LockerInit, LockState, KernelExclusive, Honest
  <1> QED BY <1>1, TypeInit, TypeStep, LockStateNext, PTL DEF Spec

\* Whoever can ask hasLock (PlainTable, ColumnSet, TableLockData) gets the truth:
\* that syncTable drops the lock is repaired before lock() returns, whether its
\* second request is granted, refused or fails.
THEOREM HasLockIsHonest == Spec => []LockHonest
  <1>1. LockState => LockHonest
    BY DEF LockState, LockHonest, Honest, Forgotten
  <1> QED BY <1>1, LockStateInvariant, PTL

-----------------------------------------------------------------------------
(* Accesses are locked, if AutoLocking waits as long as it takes.  With a    *)
(* finite maxWait they are not: ColumnSet::doLock ignores the refusal.       *)

AccessState ==
    \A p \in Proc :
        /\ pc[p] \in {"lock", "syncTable"} /\ call[p].then \in Access =>
              call[p].wait = "forever" /\ call[p].type = LockFor(call[p].then)
        /\ pc[p] \in Access => HasLock(p, LockFor(pc[p]))

LEMMA NoAccess ==
    {"closed", "open", "idle", "lock", "syncTable", "release", "put", "putInfo", "unlock"}
        \cap Access = {}
  BY DEF Access

\* A step of p leaves the calls of the others alone.
LEMMA OwnCallOnly ==
    ASSUME TypeInv, NEW p \in Proc, Step(p) \/ Call(p)
    PROVE  \A q \in Proc \ {p} : call'[q] = call[q]
  <1>1. call \in [Proc -> CallValue]
    BY DEF TypeInv, TypeOK
  <1>2. (\E c : call' = [call EXCEPT ![p] = c]) \/ UNCHANGED call
    BY DEF Step, Call, Open, Opened, LockGranted, LockRefused, LockTried, LockDeadlock,
           SyncTable, Begin, RequestLock, AfterAccess, Read, Write, WriteKeyword,
           ColumnKeyword, AddColumn, UserLock, Unlock, Close, Flush, Release, AfterPut,
           PutData, PutInfo, Gone, Unlocked, Crash, Proceed, Return, Doing
  <1> QED BY <1>1, <1>2

\* What has to hold for p after its step; the others keep what they have.
AccessStateOf(p) ==
    /\ pc[p] \in {"lock", "syncTable"} /\ call[p].then \in Access =>
          call[p].wait = "forever" /\ call[p].type = LockFor(call[p].then)
    /\ pc[p] \in Access => HasLock(p, LockFor(pc[p]))

LEMMA IdleAccess ==
    ASSUME NEW p \in Proc, TypeInv,
           \/ Return(p)
           \/ \E label \in {"open", "closed", "idle", "release", "put", "putInfo", "unlock"} :
                 Goto(p, label)
    PROVE  AccessStateOf(p)'
  <1>1. pc \in [Proc -> PcValue]
    BY DEF TypeInv, TypeOK
  <1>2. pc'[p] \in {"open", "closed", "idle", "release", "put", "putInfo", "unlock"}
    BY <1>1 DEF Return, Goto
  <1> QED BY <1>2, NoAccess DEF AccessStateOf

LEMMA RequestAccess ==
    ASSUME TypeInv, NEW p \in Proc, NEW type, NEW wait, NEW then,
           RequestLock(p, type, wait, then),
           then \in Access => wait = "forever" /\ type = LockFor(then)
    PROVE  AccessStateOf(p)'
  <1>1. pc \in [Proc -> PcValue] /\ call \in [Proc -> CallValue]
    BY DEF TypeInv, TypeOK
  <1>2. /\ pc'[p] = "lock" /\ call'[p].then = then
        /\ call'[p].wait = wait /\ call'[p].type = type
    BY <1>1 DEF RequestLock, Doing, Goto
  <1> QED BY <1>2, NoAccess DEF AccessStateOf

LEMMA GrantedAccess ==
    ASSUME TypeInv, LockState, NEW p \in Proc, AccessStateOf(p), LockGranted(p)
    PROVE  AccessStateOf(p)'
  <1>1. /\ pc \in [Proc -> PcValue] /\ call[p].type \in LockType /\ LockerTypeOK
        /\ pc[p] = "lock" /\ call[p].then \in LockReturn
    BY DEF TypeInv, TypeOK, CallValue, LockGranted, LockReturns
  <1>3. IF call[p].type = "read" THEN readLocked'[p] ELSE writeLocked'[p]
    BY <1>1, GrantedHonest DEF LockGranted, HasLock
  <1>4. CASE Goto(p, "syncTable") /\ UNCHANGED call
    BY <1>1, <1>4, NoAccess DEF Goto, AccessStateOf
  <1>5. CASE Return(p)
    BY <1>5, IdleAccess
  <1>6. CASE call[p].then \in Access /\ Goto(p, call[p].then) /\ UNCHANGED call
    <2>1. pc'[p] = call[p].then /\ call[p].type = LockFor(call[p].then)
      BY <1>1, <1>6 DEF Goto, AccessStateOf
    <2>2. HasLock(p, LockFor(pc[p]))'
      BY <1>3, <2>1 DEF HasLock, LockFor
    <2> QED BY <1>6, <2>1, <2>2, NoAccess DEF AccessStateOf
  <1> QED BY <1>1, <1>4, <1>5, <1>6 DEF LockGranted, Proceed, LockReturn

LEMMA BeginAccess ==
    ASSUME MaxWait = "forever", TypeInv, NEW p \in Proc, NEW kind \in Access,
           Begin(p, kind)
    PROVE  AccessStateOf(p)'
  <1>1. pc \in [Proc -> PcValue]
    BY DEF TypeInv, TypeOK
  <1>2. CASE /\ HasLock(p, LockFor(kind)) /\ Goto(p, kind)
             /\ UNCHANGED <<lockerVars, openVars, fileVars, procVars, call>>
    BY <1>1, <1>2, NoAccess DEF Goto, AccessStateOf, HasLock, LockFor, lockerVars
  <1>3. CASE RequestLock(p, LockFor(kind), MaxWait, kind)
    BY <1>3, RequestAccess
  <1>4. CASE kind = "columnKeyword" /\ RequestLock(p, "write", "forever", kind)
    BY <1>4, RequestAccess DEF LockFor
  <1> QED BY <1>2, <1>3, <1>4 DEF Begin

LEMMA AccessStep ==
    ASSUME MaxWait = "forever", TypeInv, LockState, AccessState,
           NEW p \in Proc, Step(p) \/ Call(p)
    PROVE  AccessState'
  <1>1. AccessStateOf(p)
    BY DEF AccessState, AccessStateOf
  <1>2. \A q \in Proc \ {p} : AccessStateOf(q)'
    BY OwnLockOnly, OwnCallOnly DEF AccessState, AccessStateOf, OthersLocks, HasLock
  <1> SUFFICES AccessStateOf(p)'
    BY <1>2 DEF AccessState, AccessStateOf
  <1>3. CASE LockGranted(p)
    BY <1>1, <1>3, GrantedAccess
  <1>4. CASE LockRefused(p)
    <2>1. pc[p] = "lock" /\ call[p].wait = "once" /\ call[p].then \in LockReturn
      BY <1>4 DEF LockRefused, TypeInv, LockReturns
    <2>2. call[p].then = "idle"
      BY <1>1, <2>1 DEF AccessStateOf, LockReturn
    <2> QED BY <1>4, <2>2, IdleAccess DEF LockRefused, Proceed
  <1>5. CASE SyncTable(p)
    <2>1. pc[p] = "syncTable" /\ pc \in [Proc -> PcValue]
      BY <1>5 DEF SyncTable, TypeInv, TypeOK
    <2>2. CASE Goto(p, "lock") /\ UNCHANGED call
      BY <1>1, <2>1, <2>2, NoAccess DEF Goto, AccessStateOf
    <2> QED BY <1>5, <2>2, IdleAccess DEF SyncTable
  <1>6. ASSUME NEW kind \in Access, Begin(p, kind)
        PROVE  AccessStateOf(p)'
    BY <1>6, BeginAccess
  <1>7. CASE UserLock(p)
    <2>1. PICK type \in LockType, wait \in Attempts : RequestLock(p, type, wait, "idle")
      BY <1>7 DEF UserLock
    <2> QED BY <2>1, RequestAccess, NoAccess
  <1>8. CASE Opened(p) \/ LockDeadlock(p) \/ Read(p) \/ Write(p) \/ WriteKeyword(p)
             \/ ColumnKeyword(p) \/ AddColumn(p)
    BY <1>8, IdleAccess DEF Opened, LockDeadlock, Read, Write, WriteKeyword, ColumnKeyword,
                            AddColumn, AfterAccess
  <1>9. CASE Release(p) \/ PutData(p) \/ PutInfo(p) \/ Unlocked(p) \/ Crash(p)
    BY <1>9, IdleAccess DEF Release, PutData, PutInfo, AfterPut, Unlocked, Crash, Gone
  <1>10. CASE Open(p) \/ Unlock(p) \/ Close(p) \/ Flush(p)
    BY <1>10, IdleAccess DEF Open, Unlock, Close, Flush
  <1>11. CASE LockTried(p)
    BY <1>1, <1>11, NoAccess DEF LockTried, AccessStateOf
  <1> QED BY <1>3, <1>4, <1>5, <1>6, <1>7, <1>8, <1>9, <1>10, <1>11 DEF Step, Call

LEMMA AccessNext ==
    ASSUME MaxWait = "forever"
    PROVE  TypeInv /\ LockState /\ AccessState /\ [Next]_vars => AccessState'
  <1> SUFFICES ASSUME TypeInv, LockState, AccessState, [Next]_vars
               PROVE  AccessState'
    OBVIOUS
  <1>1. CASE Next
    BY <1>1, AccessStep DEF Next
  <1>2. CASE UNCHANGED vars
    BY <1>2 DEF AccessState, HasLock, vars, lockerVars
  <1> QED BY <1>1, <1>2

LEMMA AccessInvariant ==
    ASSUME MaxWait = "forever"
    PROVE  Spec => [](TypeInv /\ LockState /\ AccessState)
  <1>1. Init => AccessState
    BY NoAccess DEF Init, AccessState
  <1> QED BY <1>1, AccessNext, LockStateInvariant, PTL DEF Spec

\* Table.h:458: with AutoLocking that waits for ever, and with UserLocking, data
\* is read and written under the lock for it, in the flags and in the kernel
\* (ColumnSet::checkReadLock, checkWriteLock, PlainTable::lock).
THEOREM AccessIsLocked ==
    ASSUME MaxWait = "forever"
    PROVE  Spec => []AccessLocked
  <1>1. TypeInv /\ LockState /\ AccessState => AccessLocked
    <2> SUFFICES ASSUME TypeInv, LockState, AccessState,
                        NEW p \in Proc, pc[p] \in Access
                 PROVE  /\ HasLock(p, LockFor(pc[p]))
                        /\ held[p] = IF writeLocked[p] THEN "write" ELSE "read"
      BY DEF AccessLocked
    <2>1. HasLock(p, LockFor(pc[p]))
      BY DEF AccessState
    <2>2. Honest(p) /\ held[p] \in {"none", "read", "write"}
      BY NoAccess DEF LockState, Forgotten, TypeInv, TypeOK, LockerTypeOK, LockType
    <2> QED BY <2>1, <2>2 DEF HasLock, Honest, LockFor
  <1> QED BY <1>1, AccessInvariant, PTL

-----------------------------------------------------------------------------
(* Updates that are not written are under a write lock, in tables to which no *)
(* columns are added.  The flag that addColumn sets too late is the exception. *)

UpdateStateOf(p) ==
    /\ dirty[p] # Clean => writeLocked[p]
    /\ pc[p] \in {"closed", "open", "unlock"} => dirty[p] = Clean
    /\ pc[p] \in {"lock", "syncTable"} /\ ~call[p].noSync => dirty[p] = Clean
    /\ pc[p] = "lock" /\ call[p].noSync => Honest(p)
    /\ pc[p] = "syncTable" => ~call[p].noSync
    /\ pc[p] # "column"
    /\ call[p].then \notin {"column", "changed"}

UpdateState == \A p \in Proc : UpdateStateOf(p)

\* The write lock of an honest process survives a request, whatever it asks for.
LEMMA WriteLockStays ==
    ASSUME LockerTypeOK, LockState, NEW p \in Proc, NEW type \in LockType,
           Honest(p), writeLocked[p], Acquired(p, type) \/ NotAcquired(p, type)
    PROVE  writeLocked'[p]
  <1>1. CASE Acquired(p, type)
    <2>1. CanLock(p, "write")
      BY DEF LockState, KernelExclusive, Honest, CanLock
    <2> QED BY <1>1, <2>1 DEF Acquired, StillWriteLocked, LockerTypeOK, LockType
  <1>2. CASE NotAcquired(p, type)
    BY <1>2, RefusedHonest DEF lockerVars
  <1> QED BY <1>1, <1>2

\* Where a process with nothing to write may go with or without a lock.
LEMMA CleanUpdates ==
    ASSUME NEW p \in Proc, dirty'[p] = Clean,
           pc'[p] \notin {"lock", "syncTable", "column"},
           call'[p].then \notin {"column", "changed"}
    PROVE  UpdateStateOf(p)'
  BY DEF UpdateStateOf

LEMMA LockedUpdates ==
    ASSUME NEW p \in Proc, writeLocked'[p],
           pc'[p] \notin {"closed", "open", "unlock", "lock", "syncTable", "column"},
           call'[p].then \notin {"column", "changed"}
    PROVE  UpdateStateOf(p)'
  BY DEF UpdateStateOf

\* A step that leaves the lock and the updates alone.
LEMMA LeftUpdates ==
    ASSUME NEW p \in Proc, UpdateStateOf(p),
           UNCHANGED <<lockerVars, openVars, fileVars, procVars>>,
           pc'[p] \in {"idle", "release"}, call'[p].then = "idle"
    PROVE  UpdateStateOf(p)'
  BY DEF UpdateStateOf, lockerVars, procVars

LEMMA RequestUpdates ==
    ASSUME TypeInv, LockState, NEW p \in Proc, UpdateStateOf(p), pc[p] = "idle",
           NEW type, NEW wait, NEW then, then \notin {"column", "changed"},
           RequestLock(p, type, wait, then)
    PROVE  UpdateStateOf(p)'
  <1>1. pc \in [Proc -> PcValue] /\ call \in [Proc -> CallValue]
    BY DEF TypeInv, TypeOK
  <1>2. /\ pc'[p] = "lock" /\ call'[p].then = then /\ call'[p].noSync = readLocked[p]
        /\ UNCHANGED <<dirty, held, readLocked, writeLocked>>
    BY <1>1 DEF RequestLock, Doing, Goto, HasLock, lockerVars, procVars
  <1>3. Honest(p) /\ Honest(p)'
    BY <1>2 DEF LockState, Forgotten, Honest
  <1>4. ~readLocked[p] => dirty[p] = Clean
    BY <1>3 DEF UpdateStateOf, Honest
  <1> QED BY <1>2, <1>3, <1>4 DEF UpdateStateOf

LEMMA AnsweredUpdates ==
    ASSUME TypeInv, LockState, NEW p \in Proc, UpdateStateOf(p), pc[p] = "lock",
           NEW type \in LockType, Acquired(p, type) \/ NotAcquired(p, type),
           UNCHANGED dirty, call'[p].then \notin {"column", "changed"},
           \/ pc'[p] \notin {"closed", "open", "unlock", "lock", "syncTable", "column"}
           \/ pc'[p] = "syncTable" /\ UNCHANGED call /\ ~call[p].noSync
    PROVE  UpdateStateOf(p)'
  <1>1. LockerTypeOK
    BY DEF TypeInv, TypeOK
  <1>2. CASE dirty[p] = Clean
    BY <1>2 DEF UpdateStateOf
  <1>3. CASE dirty[p] # Clean
    <2>1. writeLocked[p] /\ call[p].noSync /\ Honest(p)
      <3>1. writeLocked[p] /\ (call[p].noSync \/ ~call[p].noSync)
        BY <1>3 DEF UpdateStateOf
      <3> QED BY <1>3, <3>1 DEF UpdateStateOf
    <2>2. writeLocked'[p]
      BY <1>1, <2>1, WriteLockStays
    <2> QED BY <2>1, <2>2, LockedUpdates
  <1> QED BY <1>2, <1>3

LEMMA UpdateStep ==
    ASSUME MaxWait = "forever", "column" \notin Kinds,
           TypeInv, LockState, AccessState, UpdateState, NEW p \in Proc, Step(p) \/ Call(p)
    PROVE  UpdateState'
  <1>1. /\ pc \in [Proc -> PcValue] /\ call \in [Proc -> CallValue]
        /\ dirty \in [Proc -> [tab : BOOLEAN, dm : SUBSET DataMan]]
        /\ LockerTypeOK
    BY DEF TypeInv, TypeOK
  <1>2. UpdateStateOf(p)
    BY DEF UpdateState
  <1>3. \A q \in Proc \ {p} : dirty'[q] = dirty[q]
    <2>1. (\E c : dirty' = [dirty EXCEPT ![p] = c]) \/ UNCHANGED dirty
      BY DEF Step, Call, Open, Opened, LockGranted, LockRefused, LockTried,
             LockDeadlock, SyncTable, Begin, RequestLock, Read, Write, WriteKeyword,
             ColumnKeyword, AddColumn, UserLock, Unlock, Close, Flush, Release, PutData,
             PutInfo, Gone, Unlocked, Crash, procVars
    <2> QED BY <1>1, <2>1
  <1>4. \A q \in Proc \ {p} : UpdateStateOf(q)'
    BY <1>3, OwnLockOnly, OwnCallOnly DEF UpdateState, UpdateStateOf, OthersLocks, Honest
  <1> SUFFICES UpdateStateOf(p)'
    BY <1>4 DEF UpdateState
  <1>5. ASSUME Return(p)
        PROVE  /\ pc'[p] = "idle" /\ call'[p].then = "idle"
    BY <1>1, <1>5 DEF Return, Goto, NoCall
  <1>6. ASSUME NEW label, Goto(p, label)
        PROVE  pc'[p] = label
    BY <1>1, <1>6 DEF Goto
  <1>7. ASSUME NEW then, Doing(p, "read", FALSE, "forever", then)
        PROVE  call'[p].then = then
    BY <1>1, <1>7 DEF Doing
  <1>8. ASSUME AfterAccess(p)
        PROVE  pc'[p] \in {"idle", "release"} /\ call'[p].then = "idle"
    BY <1>5, <1>6, <1>7, <1>8 DEF AfterAccess
  <1>9. ASSUME pc[p] = "lock", Proceed(p)
        PROVE  /\ pc'[p] \in {"idle"} \cup (Access \ {"column"})
               /\ call'[p].then \notin {"column", "changed"}
    <2>1. call[p].then \in LockReturn \ {"column"}
      BY <1>2, <1>9 DEF UpdateStateOf, TypeInv, LockReturns
    <2>2. CASE call[p].then = "idle"
      BY <1>5, <1>9, <2>2 DEF Proceed
    <2>3. CASE call[p].then # "idle"
      BY <1>2, <1>6, <1>9, <2>1, <2>3 DEF Proceed, UpdateStateOf, LockReturn
    <2> QED BY <2>2, <2>3
  <1>10. CASE LockGranted(p) \/ LockRefused(p) \/ LockDeadlock(p)
    <2>1. /\ pc[p] = "lock" /\ call[p].type \in LockType /\ UNCHANGED dirty
          /\ Acquired(p, call[p].type) \/ NotAcquired(p, call[p].type)
      BY <1>1, <1>10
      DEF LockGranted, LockRefused, LockDeadlock, Blocked, procVars, CallValue
    <2>2. CASE Return(p) \/ Proceed(p)
      BY <1>2, <1>5, <1>9, <2>1, <2>2, AnsweredUpdates DEF Access
    <2>3. CASE Goto(p, "syncTable") /\ UNCHANGED call /\ ~call[p].noSync
      BY <1>2, <1>6, <2>1, <2>3, AnsweredUpdates DEF UpdateStateOf
    <2>4. CASE Goto(p, "release") /\ Doing(p, "read", FALSE, "forever", "idle")
      <3>1. pc'[p] = "release" /\ call'[p].then = "idle"
        BY <1>6, <1>7, <2>4
      <3> QED BY <1>2, <2>1, <3>1, AnsweredUpdates
    <2> QED BY <1>10, <2>2, <2>3, <2>4 DEF LockGranted, LockRefused, LockDeadlock
  <1>11. CASE SyncTable(p)
    <2>1. dirty'[p] = Clean /\ ~call[p].noSync
      BY <1>2, <1>11 DEF SyncTable, UpdateStateOf
    <2>2. CASE Goto(p, "lock") /\ UNCHANGED call
      BY <1>2, <1>6, <2>1, <2>2 DEF UpdateStateOf
    <2>3. CASE Return(p)
      BY <1>5, <2>1, <2>3, CleanUpdates
    <2> QED BY <1>11, <2>2, <2>3 DEF SyncTable
  <1>12. CASE Read(p)
    BY <1>2, <1>8, <1>12, LeftUpdates DEF Read
  <1>13. CASE Write(p) \/ WriteKeyword(p) \/ ColumnKeyword(p)
    <2>1. pc[p] \in {"write", "keyword", "columnKeyword"} /\ UNCHANGED lockerVars
      BY <1>13 DEF Write, WriteKeyword, ColumnKeyword
    <2>2. writeLocked'[p]
      BY <2>1 DEF AccessState, Access, LockFor, HasLock, lockerVars
    <2>3. /\ pc'[p] \in {"idle", "release"}
          /\ call'[p].then \in {"idle", "changing"}
      BY <1>5, <1>6, <1>7, <1>8, <1>13 DEF Write, WriteKeyword, ColumnKeyword
    <2> QED BY <2>2, <2>3, LockedUpdates
  <1>14. CASE AddColumn(p)
    BY <1>2, <1>14 DEF AddColumn, UpdateStateOf
  <1>15. CASE Release(p)
    <2>1. /\ UNCHANGED <<dirty, writeLocked, call>>
          /\ pc'[p] = IF writeLocked[p] THEN "put" ELSE "unlock"
      BY <1>6, <1>15 DEF Release, HasLock, lockerVars, procVars
    <2> QED BY <1>2, <2>1 DEF UpdateStateOf
  <1>16. CASE PutData(p)
    <2>1. UNCHANGED <<dirty, writeLocked>>
      BY <1>16 DEF PutData, lockerVars, procVars
    <2>2. CASE Goto(p, "putInfo") /\ UNCHANGED call
      BY <1>2, <1>6, <2>1, <2>2 DEF UpdateStateOf
    <2>3. CASE ~WritesTable(p) /\ dirty[p].dm = {} /\ AfterPut(p)
      <3>1. dirty[p] = Clean
        BY <1>1, <2>3 DEF WritesTable, Clean
      <3>2. pc'[p] \in {"idle", "unlock"} /\ call'[p].then \notin {"column", "changed"}
        BY <1>2, <1>5, <1>6, <2>3 DEF AfterPut, UpdateStateOf
      <3> QED BY <2>1, <3>1, <3>2, CleanUpdates
    <2> QED BY <1>16, <2>2, <2>3 DEF PutData
  <1>17. CASE PutInfo(p)
    <2>1. pc'[p] \in {"idle", "unlock"} /\ call'[p].then \notin {"column", "changed"}
      BY <1>2, <1>5, <1>6, <1>17 DEF PutInfo, AfterPut, UpdateStateOf
    <2> QED BY <1>1, <1>17, <2>1, CleanUpdates DEF PutInfo
  <1>18. ASSUME Gone(p)
         PROVE  UpdateStateOf(p)'
    BY <1>1, <1>6, <1>18, CleanUpdates DEF Gone, NoCall
  <1>19. CASE Unlocked(p) /\ call[p].then # "closed"
    <2>1. dirty'[p] = Clean
      BY <1>2, <1>19 DEF Unlocked, UpdateStateOf
    <2> QED BY <1>5, <1>19, <2>1, CleanUpdates DEF Unlocked
  <1>20. CASE Open(p) \/ Opened(p)
    <2>1. /\ dirty'[p] = Clean /\ UNCHANGED call
          /\ pc'[p] \in {"open", "idle", "unlock"}
      BY <1>2, <1>6, <1>20 DEF Open, Opened, UpdateStateOf, procVars
    <2> QED BY <1>2, <2>1, CleanUpdates DEF UpdateStateOf
  <1>21. ASSUME NEW kind \in Access, Begin(p, kind)
         PROVE  UpdateStateOf(p)'
    <2>1. pc[p] = "idle" /\ kind \notin {"column", "changed"}
      BY <1>21 DEF Begin, Access
    <2>2. CASE Goto(p, kind) /\ UNCHANGED <<lockerVars, procVars, call>>
      BY <1>2, <1>6, <2>1, <2>2, NoAccess DEF UpdateStateOf, lockerVars, procVars
    <2>3. CASE \E type, wait : RequestLock(p, type, wait, kind)
      BY <1>2, <2>1, <2>3, RequestUpdates
    <2> QED BY <1>21, <2>2, <2>3 DEF Begin
  <1>22. CASE UserLock(p)
    BY <1>2, <1>22, RequestUpdates DEF UserLock
  <1>23. CASE Unlock(p) \/ Close(p) \/ Flush(p)
    <2>1. /\ UNCHANGED <<dirty, writeLocked>>
          /\ pc'[p] \in {"release", "put"}
          /\ call'[p].then \in {"idle", "closed", "flushed"}
      BY <1>6, <1>7, <1>23 DEF Unlock, Close, Flush, lockerVars, procVars
    <2> QED BY <1>2, <2>1 DEF UpdateStateOf
  <1>24. CASE LockTried(p)
    <2>1. /\ pc[p] = "lock" /\ call[p].type \in LockType /\ UNCHANGED <<pc, call, dirty>>
          /\ NotAcquired(p, call[p].type) /\ LockState
      BY <1>1, <1>24 DEF LockTried, procVars, CallValue
    <2>2. Honest(p)'
      BY <1>1, <2>1, RefusedHonest
    <2>3. dirty[p] # Clean => writeLocked'[p]
      BY <1>1, <1>2, <2>1, WriteLockStays DEF UpdateStateOf
    <2> QED BY <1>2, <2>1, <2>2, <2>3 DEF UpdateStateOf
  <1> QED BY <1>10, <1>11, <1>12, <1>13, <1>14, <1>15, <1>16, <1>17, <1>18, <1>19,
             <1>20, <1>21, <1>22, <1>23, <1>24 DEF Step, Call, Unlocked, Crash

LEMMA UpdateNext ==
    ASSUME MaxWait = "forever", "column" \notin Kinds
    PROVE  TypeInv /\ LockState /\ AccessState /\ UpdateState /\ [Next]_vars
              => UpdateState'
  <1> SUFFICES ASSUME TypeInv, LockState, AccessState, UpdateState, [Next]_vars
               PROVE  UpdateState'
    OBVIOUS
  <1>1. CASE Next
    BY <1>1, UpdateStep DEF Next
  <1>2. CASE UNCHANGED vars
    BY <1>2 DEF UpdateState, UpdateStateOf, Honest, vars, lockerVars, procVars
  <1> QED BY <1>1, <1>2

\* Tables.h:1435-1437: with AutoLocking that waits for ever, with UserLocking, and
\* without new columns, a process that has something unwritten has the write lock:
\* every way out of the lock (release, refusal, the dropped lock of syncTable, an
\* exception) has flushed first or had nothing to flush.
THEOREM UpdatesAreLocked ==
    ASSUME MaxWait = "forever", "column" \notin Kinds
    PROVE  Spec => []UpdatesLocked
  <1>1. Init => UpdateState
    BY DEF Init, UpdateState, UpdateStateOf, NoCall
  <1>2. UpdateState => UpdatesLocked
    BY DEF UpdateState, UpdateStateOf, UpdatesLocked
  <1> QED BY <1>1, <1>2, AccessInvariant, UpdateNext, PTL DEF Spec

-----------------------------------------------------------------------------
(* What the counters are for: with equal counters the data is equal.  That   *)
(* needs a use of the table in which no column is added, no column keyword   *)
(* is changed without a lock, no process dies between its data and its       *)
(* counters, and nobody goes on with the read lock that a refused request    *)
(* took back after syncTable: where keywords change, either no request is    *)
(* refused, or who is refused because of a deadlock unlocks.                 *)

SteadyUse ==
    /\ MaxWait = "forever"
    /\ Kinds \cap {"column", "columnKeyword"} = {}
    /\ MayCrash # "any"
    /\ "once" \in Attempts \/ Undeterred => "keyword" \notin Kinds

\* What such a use never meets: another number of columns, a flag or keywords
\* that are changed after the lock is given up, and, without keywords, a table
\* that has to be reread.  Only after that does a process that is still asking
\* for its lock believe that it has one.
UseStateOf(p) ==
    /\ mem[p].cols = 1
    /\ pc[p] # "columnKeyword"
    /\ call[p].then \notin {"columnKeyword", "changing"}
    /\ pc[p] \in {"lock", "syncTable"} /\ call[p].wait = "once" => "once" \in Attempts
    /\ pc[p] = "lock" /\ ~call[p].noSync /\ readLocked[p] =>
          call[p].wait = "forever" /\ "keyword" \in Kinds
    /\ pc[p] = "lock" /\ call[p].noSync => readLocked[p]
    /\ "keyword" \notin Kinds =>
          /\ ~dirty[p].tab /\ sync[p].tab = 0
          /\ pc[p] \notin {"keyword", "syncTable"} /\ call[p].then # "keyword"

UseState ==
    /\ disk.cols = 1 /\ syncFile.cols = 1
    /\ "keyword" \notin Kinds => syncFile.tab = 0
    /\ \A p \in Proc : UseStateOf(p)

\* A process that has a lock it has synchronized under.  The read lock that it
\* releases may be one that a refused request has left.
Synced(p) ==
    \/ /\ readLocked[p]
       /\ pc[p] \notin {"closed", "open", "lock", "syncTable"}
       /\ pc[p] \in {"release", "unlock"} => writeLocked[p]
    \/ pc[p] = "lock" /\ call[p].noSync

TellsTable(p) ==
    \/ sync[p].tab # syncFile.tab
    \/ FreshTable(p)
    \/ \E q \in Proc : pc[q] = "putInfo" /\ dirty[q].tab

TellsData(p, d) ==
    \/ sync[p].dm[d] # syncFile.dm[d]
    \/ FreshData(p, d)
    \/ \E q \in Proc : pc[q] = "putInfo" /\ d \in dirty[q].dm

\* CountersTell is not inductive: that the next count is new to everybody else
\* needs that nobody knows a higher one than the file has, and that who writes
\* it, under its lock, knows the one in the file.
CountStateOf(p) ==
    /\ sync[p].tab <= syncFile.tab
    /\ \A d \in DataMan : sync[p].dm[d] <= syncFile.dm[d]
    /\ Synced(p) => /\ sync[p].tab = syncFile.tab
                    /\ \A d \in DataMan : sync[p].dm[d] = syncFile.dm[d]
    /\ pc[p] \notin {"closed", "open", "syncTable"} => TellsTable(p)
    /\ pc[p] \notin {"closed", "open"} => \A d \in DataMan : TellsData(p, d)
    /\ pc[p] = "put" /\ call[p].then = "closed" => writeLocked[p]
    /\ pc[p] = "putInfo" => /\ writeLocked[p] /\ mem[p].keys = disk.keys
                            /\ \A d \in DataMan : mem[p].dm[d] = disk.dm[d]

CountState == \A p \in Proc : CountStateOf(p)

\* What has been shown of every such use.
UpdateInv == TypeInv /\ LockState /\ AccessState /\ UpdateState

LEMMA UpdateInvariant == SteadyUse => (Spec => []UpdateInv)
  <1> SUFFICES ASSUME SteadyUse PROVE Spec => []UpdateInv
    OBVIOUS
  <1>1. MaxWait = "forever" /\ "column" \notin Kinds
    BY DEF SteadyUse
  <1>2. Init => UpdateState
    BY DEF Init, UpdateState, UpdateStateOf, NoCall
  <1>3. Spec => [](TypeInv /\ LockState /\ AccessState)
    BY <1>1, AccessInvariant
  <1>4. TypeInv /\ LockState /\ AccessState /\ UpdateState /\ [Next]_vars => UpdateState'
    BY <1>1, UpdateNext
  <1> QED BY <1>2, <1>3, <1>4, PTL DEF Spec, UpdateInv

\* What a step of p does to its copy of the table and its place, it does to p's.
OthersLeft(p) ==
    \A q \in Proc \ {p} :
        /\ held'[q] = held[q]
        /\ readLocked'[q] = readLocked[q]
        /\ writeLocked'[q] = writeLocked[q]
        /\ pc'[q] = pc[q]
        /\ call'[q] = call[q]
        /\ mem'[q] = mem[q]
        /\ dirty'[q] = dirty[q]
        /\ sync'[q] = sync[q]

LEMMA OwnCopyOnly ==
    ASSUME TypeInv, NEW p \in Proc, Step(p) \/ Call(p)
    PROVE  OthersLeft(p)
  <1>1. /\ mem \in [Proc -> Content] /\ sync \in [Proc -> Counters]
        /\ dirty \in [Proc -> [tab : BOOLEAN, dm : SUBSET DataMan]]
    BY DEF TypeInv, TypeOK
  <1>2. (\E c : dirty' = [dirty EXCEPT ![p] = c]) \/ UNCHANGED dirty
    BY DEF Step, Call, Open, Opened, LockGranted, LockRefused, LockTried, LockDeadlock,
           SyncTable, Begin, RequestLock, Read, Write, WriteKeyword, ColumnKeyword,
           AddColumn, UserLock, Unlock, Close, Flush, Release, PutData, PutInfo, Gone,
           Unlocked, Crash, procVars
  <1>3. (\E c : sync' = [sync EXCEPT ![p] = c]) \/ UNCHANGED sync
    BY DEF Step, Call, Open, Opened, LockGranted, LockRefused, LockTried, LockDeadlock,
           SyncTable, Begin, RequestLock, Read, Write, WriteKeyword, ColumnKeyword,
           AddColumn, UserLock, Unlock, Close, Flush, Release, PutData, PutInfo, Gone,
           Unlocked, Crash, procVars, Resynced
  <1>4. (\E c : mem' = [mem EXCEPT ![p] = c]) \/ UNCHANGED mem
    BY DEF Step, Call, Open, Opened, LockGranted, LockRefused, LockTried, LockDeadlock,
           SyncTable, Begin, RequestLock, Read, Write, WriteKeyword, ColumnKeyword,
           AddColumn, UserLock, Unlock, Close, Flush, Release, PutData, PutInfo, Gone,
           Unlocked, Crash, procVars, Resynced
  <1>5. \A q \in Proc \ {p} : mem'[q] = mem[q] /\ dirty'[q] = dirty[q] /\ sync'[q] = sync[q]
    BY <1>1, <1>2, <1>3, <1>4
  <1> QED BY <1>5, OwnLockOnly, OwnCallOnly DEF OthersLeft, OthersLocks

\* Where a step leads.
LEMMA ReturnLeads ==
    ASSUME TypeInv, NEW p \in Proc, Return(p)
    PROVE  pc'[p] = "idle" /\ call'[p] = NoCall /\ call'[p].then = "idle"
  BY DEF TypeInv, TypeOK, Return, Goto, NoCall

LEMMA GotoLeads ==
    ASSUME TypeInv, NEW p \in Proc, NEW label, Goto(p, label)
    PROVE  pc'[p] = label
  BY DEF TypeInv, TypeOK, Goto

LEMMA DoingLeads ==
    ASSUME TypeInv, NEW p \in Proc, NEW type, NEW noSync, NEW wait, NEW then,
           Doing(p, type, noSync, wait, then)
    PROVE  /\ call'[p].type = type /\ call'[p].noSync = noSync
           /\ call'[p].wait = wait /\ call'[p].then = then
  BY DEF TypeInv, TypeOK, Doing

LEMMA AccessLeads ==
    ASSUME TypeInv, NEW p \in Proc, AfterAccess(p)
    PROVE  pc'[p] \in {"idle", "release"} /\ call'[p].then = "idle"
  <1>1. CASE Return(p)
    BY <1>1, ReturnLeads
  <1>2. CASE Goto(p, "release") /\ Doing(p, "read", FALSE, "forever", "idle")
    BY <1>2, GotoLeads, DoingLeads
  <1> QED BY <1>1, <1>2 DEF AfterAccess

LEMMA PutLeads ==
    ASSUME TypeInv, NEW p \in Proc, AfterPut(p)
    PROVE  \/ pc'[p] = "idle" /\ call'[p].then = "idle"
           \/ pc'[p] = "unlock" /\ call'[p] = call[p]
  <1>1. CASE Return(p)
    BY <1>1, ReturnLeads
  <1>2. CASE Goto(p, "unlock") /\ UNCHANGED call
    BY <1>2, GotoLeads
  <1> QED BY <1>1, <1>2 DEF AfterPut

\* Where lock() goes on.
LEMMA ProceedLeads ==
    ASSUME UpdateInv, UseState, NEW p \in Proc, pc[p] = "lock", Proceed(p)
    PROVE  /\ pc'[p] \in {"idle", "read", "write", "keyword"}
           /\ call'[p].then \in {"idle", "read", "write", "keyword"}
           /\ "keyword" \notin Kinds => pc'[p] # "keyword" /\ call'[p].then # "keyword"
  <1>1. TypeInv /\ UpdateStateOf(p) /\ UseStateOf(p)
    BY DEF UpdateInv, UpdateState, UseState
  <1>2. call[p].then \in {"idle", "read", "write", "keyword"}
    BY <1>1 DEF TypeInv, LockReturns, LockReturn, UpdateStateOf, UseStateOf, Access
  <1>3. "keyword" \notin Kinds => call[p].then # "keyword"
    BY <1>1 DEF UseStateOf
  <1>4. CASE call[p].then = "idle"
    BY <1>1, <1>4, ReturnLeads DEF Proceed
  <1>5. CASE call[p].then # "idle"
    BY <1>1, <1>2, <1>3, <1>5, GotoLeads DEF Proceed
  <1> QED BY <1>4, <1>5

\* The request of a lock.
LEMMA RequestLeads ==
    ASSUME TypeInv, NEW p \in Proc, NEW type, NEW wait, NEW then,
           RequestLock(p, type, wait, then)
    PROVE  /\ pc'[p] = "lock" /\ call'[p].then = then /\ call'[p].wait = wait
           /\ call'[p].noSync = readLocked[p]
           /\ UNCHANGED <<lockerVars, openVars, fileVars, procVars>>
  <1>1. Doing(p, type, readLocked[p], wait, then) /\ Goto(p, "lock")
    BY DEF RequestLock, HasLock
  <1> QED BY <1>1, GotoLeads, DoingLeads DEF RequestLock

LEMMA UseRequested ==
    ASSUME UpdateInv, UseState, NEW p \in Proc, pc[p] = "idle",
           NEW type, NEW wait, NEW then, RequestLock(p, type, wait, then),
           wait = "once" => "once" \in Attempts,
           then \notin {"columnKeyword", "changing"},
           "keyword" \notin Kinds => then # "keyword"
    PROVE  UseStateOf(p)'
  <1>1. TypeInv /\ UseStateOf(p) /\ Honest(p)
    BY DEF UpdateInv, UseState, LockState, Forgotten
  <1>2. UNCHANGED <<mem, dirty, sync, held, readLocked>>
    BY <1>1, RequestLeads DEF procVars, lockerVars
  <1>3. held \in [Proc -> LockType \cup {"none"}] /\ readLocked \in [Proc -> BOOLEAN]
    BY <1>1 DEF TypeInv, TypeOK, LockerTypeOK
  <1> QED BY <1>1, <1>2, <1>3, RequestLeads DEF UseStateOf, Honest

\* Every step keeps to such a use.
LEMMA UseStep ==
    ASSUME SteadyUse, UpdateInv, UseState, NEW p \in Proc, Step(p) \/ Call(p)
    PROVE  UseState'
  <1>1. /\ TypeInv /\ UpdateStateOf(p) /\ UseStateOf(p) /\ LockState
        /\ disk.cols = 1 /\ syncFile.cols = 1
        /\ "keyword" \notin Kinds => syncFile.tab = 0
    BY DEF UpdateInv, UpdateState, UseState
  <1>2. /\ pc \in [Proc -> PcValue] /\ call \in [Proc -> CallValue]
        /\ mem \in [Proc -> Content] /\ sync \in [Proc -> Counters]
        /\ dirty \in [Proc -> [tab : BOOLEAN, dm : SUBSET DataMan]]
        /\ held \in [Proc -> LockType \cup {"none"}] /\ readLocked \in [Proc -> BOOLEAN]
    BY <1>1 DEF TypeInv, TypeOK, LockerTypeOK
  <1>3. \A q \in Proc \ {p} : UseStateOf(q)'
    BY <1>1, OwnCopyOnly DEF OthersLeft, UseState, UseStateOf
  <1>4. ASSUME UNCHANGED fileVars, UseStateOf(p)'
        PROVE  UseState'
    BY <1>1, <1>3, <1>4 DEF UseState, fileVars
  <1>5. ASSUME UNCHANGED fileVars, UNCHANGED <<mem, dirty, sync>>,
               pc'[p] \notin {"lock", "syncTable", "columnKeyword", "keyword"},
               call'[p].then \notin {"columnKeyword", "changing", "keyword"}
        PROVE  UseState'
    <2>1. UseStateOf(p)'
      BY <1>1, <1>5 DEF UseStateOf
    <2> QED BY <1>4, <1>5, <2>1
  <1>6. ASSUME UNCHANGED fileVars, UNCHANGED <<mem, dirty, sync>>, pc[p] = "lock",
               Proceed(p)
        PROVE  UseState'
    <2>1. UseStateOf(p)'
      BY <1>1, <1>6, ProceedLeads DEF UseStateOf
    <2> QED BY <1>4, <1>6, <2>1
  <1>7. CASE LockGranted(p)
    <2>1. pc[p] = "lock" /\ UNCHANGED <<fileVars, dirty>> /\ syncFile.cols = mem[p].cols
      BY <1>1, <1>7 DEF LockGranted, UseStateOf
    <2>2. CASE call[p].noSync
      BY <1>6, <1>7, <2>1, <2>2 DEF LockGranted
    <2>3. CASE ~call[p].noSync
      <3>1. /\ Resynced(p)
            /\ IF syncFile.tab # sync[p].tab
               THEN Goto(p, "syncTable") /\ UNCHANGED call ELSE Proceed(p)
        BY <1>7, <2>1, <2>3 DEF LockGranted
      <3>2. /\ sync'[p] = syncFile /\ mem'[p].cols = mem[p].cols /\ dirty'[p] = dirty[p]
        BY <1>2, <2>1, <3>1 DEF Resynced, Content
      <3>3. CASE syncFile.tab # sync[p].tab
        <4>1. pc'[p] = "syncTable" /\ call'[p] = call[p] /\ "keyword" \in Kinds
          BY <1>1, <3>1, <3>3, GotoLeads DEF UseStateOf
        <4>2. UseStateOf(p)'
          BY <1>1, <2>1, <2>3, <3>2, <4>1 DEF UseStateOf
        <4> QED BY <1>4, <2>1, <4>2
      <3>4. CASE syncFile.tab = sync[p].tab
        <4>1. UseStateOf(p)'
          BY <1>1, <2>1, <3>1, <3>2, <3>4, ProceedLeads DEF UseStateOf
        <4> QED BY <1>4, <2>1, <4>1
      <3> QED BY <3>3, <3>4
    <2> QED BY <2>2, <2>3
  <1>8. CASE LockRefused(p)
    BY <1>6, <1>8 DEF LockRefused, procVars
  <1>9. CASE LockDeadlock(p)
    <2>1. pc'[p] \in {"idle", "release"} /\ call'[p].then = "idle"
      <3>1. CASE Goto(p, "release") /\ Doing(p, "read", FALSE, "forever", "idle")
        <4>1. pc'[p] = "release"
          BY <1>1, <3>1, GotoLeads
        <4>2. call'[p].then = "idle"
          BY <1>1, <3>1, DoingLeads
        <4> QED BY <4>1, <4>2
      <3> QED BY <1>1, <1>9, <3>1, ReturnLeads DEF LockDeadlock
    <2> QED BY <1>5, <1>9, <2>1 DEF LockDeadlock, procVars
  <1>10. CASE SyncTable(p)
    <2>1. /\ pc[p] = "syncTable" /\ "keyword" \in Kinds /\ ~call[p].noSync
          /\ mem' = [mem EXCEPT ![p].keys = disk.keys]
          /\ held' = [held EXCEPT ![p] = "none"]
          /\ Goto(p, "lock") /\ UNCHANGED <<call, fileVars, dirty, sync, readLocked>>
      BY <1>1, <1>10 DEF SyncTable, UseStateOf, UpdateStateOf, KernelDropsLocks
    <2>2. pc'[p] = "lock"
      BY <1>1, <2>1, GotoLeads
    <2>3. call[p].wait \in {"once", "forever"} /\ "once" \notin Attempts
      BY <1>2, <2>1 DEF SteadyUse, CallValue
    <2>4. call[p].wait = "forever"
      BY <1>1, <2>1, <2>3 DEF UseStateOf
    <2>5. mem'[p].cols = mem[p].cols /\ held'[p] = "none"
      BY <1>2, <2>1 DEF Content
    <2>6. UseStateOf(p)'
      BY <1>1, <2>1, <2>2, <2>4, <2>5 DEF UseStateOf
    <2> QED BY <1>4, <2>1, <2>6
  <1>11. CASE Read(p)
    BY <1>1, <1>5, <1>11, AccessLeads DEF Read, procVars
  <1>12. CASE Write(p)
    <2>1. PICK d \in DataMan :
            /\ mem' = [mem EXCEPT ![p].dm[d] = @ + 1]
            /\ dirty' = [dirty EXCEPT ![p].dm = @ \cup {d}]
      BY <1>12 DEF Write
    <2>2. mem'[p].cols = mem[p].cols /\ dirty'[p].tab = dirty[p].tab
      BY <1>2, <2>1 DEF Content
    <2>3. AfterAccess(p) /\ UNCHANGED <<fileVars, sync>>
      BY <1>12 DEF Write
    <2>4. UseStateOf(p)'
      BY <1>1, <2>2, <2>3, AccessLeads DEF UseStateOf
    <2> QED BY <1>4, <2>3, <2>4
  <1>13. CASE WriteKeyword(p)
    <2>1. /\ mem'[p].cols = mem[p].cols /\ UNCHANGED <<fileVars, sync>> /\ Return(p)
          /\ pc[p] = "keyword"
      BY <1>2, <1>13 DEF WriteKeyword, Content
    <2>2. UseStateOf(p)'
      BY <1>1, <2>1, ReturnLeads DEF UseStateOf
    <2> QED BY <1>4, <2>1, <2>2
  <1>14. ~ColumnKeyword(p) /\ ~AddColumn(p)
    BY <1>1 DEF ColumnKeyword, AddColumn, UseStateOf, UpdateStateOf
  <1>15. CASE Release(p)
    <2>1. pc'[p] \in {"put", "unlock"} /\ UNCHANGED <<mem, dirty, sync, fileVars, call>>
      BY <1>1, <1>15, GotoLeads DEF Release, procVars
    <2>2. UseStateOf(p)'
      BY <1>1, <2>1 DEF UseStateOf
    <2> QED BY <1>4, <2>1, <2>2
  <1>16. CASE PutData(p)
    <2>1. /\ disk'.cols = 1
          /\ UNCHANGED <<syncFile, mem, dirty, sync>>
      BY <1>1, <1>16 DEF PutData, procVars, UseStateOf
    <2>2. (pc'[p] = "putInfo" /\ call' = call) \/ AfterPut(p)
      BY <1>1, <1>16, GotoLeads DEF PutData
    <2>3. UseStateOf(p)'
      BY <1>1, <2>1, <2>2, PutLeads DEF UseStateOf
    <2> QED BY <1>1, <1>3, <2>1, <2>3 DEF UseState
  <1>17. CASE PutInfo(p)
    <2>1. /\ syncFile' = Counted(p) /\ sync'[p] = Counted(p) /\ dirty'[p] = Clean
          /\ AfterPut(p) /\ UNCHANGED <<disk, mem>>
      BY <1>2, <1>17 DEF PutInfo
    <2>2. /\ Counted(p).cols = 1 /\ ~Clean.tab
          /\ "keyword" \notin Kinds => Counted(p).tab = 0
      BY <1>1 DEF Counted, UseStateOf, Clean
    <2>3. UseStateOf(p)'
      BY <1>1, <2>1, <2>2, PutLeads DEF UseStateOf
    <2> QED BY <1>1, <1>3, <2>1, <2>2, <2>3 DEF UseState
  <1>18. ASSUME Gone(p)
         PROVE  UseState'
    <2>1. /\ mem'[p].cols = 1 /\ ~dirty'[p].tab /\ sync'[p].tab = 0
          /\ call'[p].then = "idle" /\ UNCHANGED fileVars
      BY <1>2, <1>18 DEF Gone, NewContent, Clean, NewCounters, NoCall
    <2>2. pc'[p] = "closed"
      BY <1>1, <1>18, GotoLeads DEF Gone
    <2>3. UseStateOf(p)'
      BY <2>1, <2>2 DEF UseStateOf
    <2> QED BY <1>4, <2>1, <2>3
  <1>19. CASE Unlocked(p) /\ call[p].then # "closed"
    <2>1. /\ Return(p) /\ UNCHANGED <<dirty, mem, fileVars, sync>>
      BY <1>1, <1>19 DEF Unlocked, UseStateOf, UpdateStateOf
    <2> QED BY <1>1, <1>5, <2>1, ReturnLeads
  <1>20. CASE Open(p)
    <2>1. pc'[p] = "open" /\ UNCHANGED <<mem, dirty, sync, fileVars, call>>
      BY <1>1, <1>20, GotoLeads DEF Open, procVars
    <2>2. UseStateOf(p)'
      BY <1>1, <2>1 DEF UseStateOf
    <2> QED BY <1>4, <2>1, <2>2
  <1>21. CASE Opened(p)
    <2>1. /\ pc'[p] \in {"idle", "unlock"} /\ UNCHANGED <<fileVars, dirty, call>>
          /\ sync'[p] = syncFile /\ mem'[p] = disk
      BY <1>1, <1>2, <1>21, GotoLeads DEF Opened
    <2>2. UseStateOf(p)'
      BY <1>1, <2>1 DEF UseStateOf
    <2> QED BY <1>4, <2>1, <2>2
  <1>22. ASSUME NEW kind \in Access, Begin(p, kind)
         PROVE  UseState'
    <2>1. pc[p] = "idle" /\ kind \in {"read", "write", "keyword"} \cap Kinds
      BY <1>22 DEF Begin, Access, SteadyUse
    <2>2. CASE Goto(p, kind) /\ UNCHANGED <<lockerVars, fileVars, procVars, call>>
      <3>1. pc'[p] = kind /\ UNCHANGED <<mem, dirty, sync, call>>
        BY <1>1, <2>2, GotoLeads DEF procVars
      <3>2. UseStateOf(p)'
        BY <1>1, <2>1, <3>1 DEF UseStateOf
      <3> QED BY <1>4, <2>2, <3>2
    <2>3. CASE RequestLock(p, LockFor(kind), MaxWait, kind)
      <3>1. UseStateOf(p)'
        BY <2>1, <2>3, UseRequested DEF SteadyUse
      <3> QED BY <1>4, <2>3, <3>1 DEF RequestLock
    <2> QED BY <1>22, <2>1, <2>2, <2>3 DEF Begin
  <1>23. CASE UserLock(p)
    <2>1. PICK type \in LockType : \E wait \in Attempts : RequestLock(p, type, wait, "idle")
      BY <1>23 DEF UserLock
    <2>2. PICK wait \in Attempts : RequestLock(p, type, wait, "idle")
      BY <2>1
    <2>3. pc[p] = "idle"
      BY <1>23 DEF UserLock
    <2>4. UseStateOf(p)'
      BY <2>2, <2>3, UseRequested
    <2> QED BY <1>4, <2>2, <2>4 DEF RequestLock
  <1>24. CASE Unlock(p) \/ Close(p) \/ Flush(p)
    <2>1. /\ UNCHANGED <<mem, dirty, sync, fileVars>>
          /\ Goto(p, "release") \/ Goto(p, "put")
          /\ \/ Doing(p, "read", FALSE, "forever", "idle")
             \/ Doing(p, "read", FALSE, "forever", "closed")
             \/ Doing(p, "read", FALSE, "forever", "flushed")
      BY <1>24 DEF Unlock, Close, Flush, procVars
    <2>2. pc'[p] \in {"release", "put"}
      BY <1>1, <2>1, GotoLeads
    <2>3. call'[p].then \in {"idle", "closed", "flushed"}
      BY <1>1, <2>1, DoingLeads
    <2> QED BY <1>5, <2>1, <2>2, <2>3
  <1>25. CASE LockTried(p)
    <2>1. /\ pc[p] = "lock" /\ call[p].type \in LockType /\ LockerTypeOK
          /\ NotAcquired(p, call[p].type)
          /\ UNCHANGED <<pc, call, fileVars, mem, dirty, sync>>
      BY <1>1, <1>2, <1>25 DEF LockTried, procVars, CallValue, TypeInv, TypeOK
    <2>2. readLocked'[p] => readLocked[p]
      BY <2>1 DEF NotAcquired, ReadLockLeft, LockerTypeOK
    <2>3. call[p].noSync => UNCHANGED lockerVars
      BY <1>1, <2>1, RefusedHonest DEF UpdateStateOf
    <2>4. UseStateOf(p)'
      BY <1>1, <2>1, <2>2, <2>3 DEF UseStateOf, lockerVars
    <2> QED BY <1>4, <2>1, <2>4
  <1> QED BY <1>7, <1>8, <1>9, <1>10, <1>11, <1>12, <1>13, <1>14, <1>15, <1>16, <1>17,
             <1>18, <1>19, <1>20, <1>21, <1>22, <1>23, <1>24, <1>25
          DEF Step, Call, Unlocked, Crash

LEMMA UseNext ==
    ASSUME SteadyUse
    PROVE  UpdateInv /\ UseState /\ [Next]_vars => UseState'
  <1> SUFFICES ASSUME UpdateInv, UseState, [Next]_vars PROVE UseState'
    OBVIOUS
  <1>1. CASE Next
    BY <1>1, UseStep DEF Next
  <1>2. CASE UNCHANGED vars
    BY <1>2 DEF UseState, UseStateOf, vars, lockerVars, procVars, fileVars
  <1> QED BY <1>1, <1>2

\* The types the counters are compared with.
LEMMA CountTypes ==
    ASSUME TypeInv
    PROVE  /\ disk \in Content /\ syncFile \in Counters
           /\ syncFile.tab \in Nat /\ disk.keys \in Nat
           /\ \A d \in DataMan : syncFile.dm[d] \in Nat /\ disk.dm[d] \in Nat
           /\ \A p \in Proc :
                /\ mem[p] \in Content /\ sync[p] \in Counters
                /\ sync[p].tab \in Nat /\ mem[p].keys \in Nat
                /\ dirty[p].tab \in BOOLEAN
                /\ \A d \in DataMan : sync[p].dm[d] \in Nat /\ mem[p].dm[d] \in Nat
  BY DEF TypeInv, TypeOK, Content, Counters

\* A process with something to write, or between its data and its counters, is
\* the only one that has a lock it is synchronized under.
LEMMA WriterAlone ==
    ASSUME UpdateInv, UseState, NEW p \in Proc, writeLocked[p], Honest(p),
           NEW q \in Proc \ {p}
    PROVE  /\ ~Synced(q) /\ held[q] = "none" /\ dirty[q] = Clean
           /\ pc[q] # "lock" => ~writeLocked[q]
  <1>1. held[p] = "write" /\ KernelExclusive /\ (Honest(q) \/ Forgotten(q))
    BY DEF UpdateInv, LockState, Honest
  <1>2. held[q] = "none"
    BY <1>1 DEF KernelExclusive
  <1>3. UpdateStateOf(q) /\ UseStateOf(q)
    BY DEF UpdateInv, UpdateState, UseState
  <1>4. CASE Honest(q)
    <2>1. ~readLocked[q] /\ ~writeLocked[q]
      BY <1>2, <1>4 DEF Honest
    <2> QED BY <1>2, <1>3, <2>1 DEF Synced, UseStateOf, UpdateStateOf
  <1>5. CASE Forgotten(q) /\ ~Honest(q)
    <2>1. ~(pc[q] = "lock" /\ call[q].noSync) /\ pc[q] = "lock"
      BY <1>3, <1>5 DEF Forgotten, UpdateStateOf
    <2>2. dirty[q] = Clean
      BY <1>3, <2>1 DEF UpdateStateOf
    <2> QED BY <1>2, <1>3, <2>1, <2>2 DEF Synced, UseStateOf, UpdateStateOf
  <1> QED BY <1>1, <1>4, <1>5

\* Who is between its data and its counters has the write lock.
LEMMA PuttingLocked ==
    ASSUME UpdateInv, CountState, NEW p \in Proc, pc[p] = "putInfo"
    PROVE  writeLocked[p] /\ readLocked[p] /\ Honest(p) /\ held[p] = "write" /\ Synced(p)
  <1>1. Honest(p) \/ Forgotten(p)
    BY DEF UpdateInv, LockState
  <1>2. writeLocked[p] /\ Honest(p)
    BY <1>1 DEF CountState, CountStateOf, Forgotten
  <1> QED BY <1>2 DEF Honest, Synced

\* Under a lock it is synchronized under, a process has the newest data.
LEMMA SyncedFresh ==
    ASSUME UpdateInv, UseState, CountState, NEW p \in Proc, Synced(p)
    PROVE  /\ FreshTable(p) /\ sync[p].tab = syncFile.tab
           /\ \A d \in DataMan : FreshData(p, d) /\ sync[p].dm[d] = syncFile.dm[d]
  <1>1. /\ pc[p] \notin {"closed", "open", "syncTable"} /\ CountStateOf(p)
        /\ sync[p].tab = syncFile.tab
        /\ \A d \in DataMan : sync[p].dm[d] = syncFile.dm[d]
    BY DEF Synced, CountState, CountStateOf
  <1>2. ASSUME NEW q \in Proc, pc[q] = "putInfo"
        PROVE  q = p
    BY <1>2, PuttingLocked, WriterAlone
  <1>3. FreshTable(p)
    BY <1>1, <1>2 DEF CountStateOf, TellsTable, FreshTable
  <1>4. ASSUME NEW d \in DataMan
        PROVE  FreshData(p, d)
    BY <1>1, <1>2 DEF CountStateOf, TellsData, FreshData
  <1> QED BY <1>1, <1>3, <1>4

\* A step that is not one of the writer between its data and its counters leaves
\* what the counters tell a process whose copy it does not change.
LEMMA TellsKept ==
    ASSUME NEW p \in Proc, OthersLeft(p), UNCHANGED fileVars, pc[p] # "putInfo",
           NEW q \in Proc, sync'[q] = sync[q], dirty'[q] = dirty[q], mem'[q] = mem[q]
    PROVE  /\ TellsTable(q) => TellsTable(q)'
           /\ \A d \in DataMan : TellsData(q, d) => TellsData(q, d)'
  <1>1. \A r \in Proc : pc[r] = "putInfo" => pc'[r] = "putInfo" /\ dirty'[r] = dirty[r]
    BY DEF OthersLeft
  <1>2. TellsTable(q) => TellsTable(q)'
    BY <1>1 DEF TellsTable, FreshTable, fileVars
  <1>3. ASSUME NEW d \in DataMan, TellsData(q, d)
        PROVE  TellsData(q, d)'
    BY <1>1, <1>3 DEF TellsData, FreshData, fileVars
  <1> QED BY <1>2, <1>3

LEMMA OthersCounted ==
    ASSUME CountState, NEW p \in Proc, OthersLeft(p), UNCHANGED fileVars,
           pc[p] # "putInfo", NEW q \in Proc \ {p}
    PROVE  CountStateOf(q)'
  <1>1. /\ CountStateOf(q) /\ UNCHANGED <<disk, syncFile>>
        /\ readLocked'[q] = readLocked[q] /\ writeLocked'[q] = writeLocked[q]
        /\ pc'[q] = pc[q] /\ call'[q] = call[q]
        /\ mem'[q] = mem[q] /\ sync'[q] = sync[q] /\ dirty'[q] = dirty[q]
    BY DEF CountState, OthersLeft, fileVars
  <1>2. Synced(q)' <=> Synced(q)
    BY <1>1 DEF Synced
  <1>3. /\ TellsTable(q) => TellsTable(q)'
        /\ \A d \in DataMan : TellsData(q, d) => TellsData(q, d)'
    BY <1>1, TellsKept
  <1> QED BY <1>1, <1>2, <1>3 DEF CountStateOf

\* A step that leaves the copy of the process and gives it no new lock.
LEMMA MovedCounted ==
    ASSUME NEW p \in Proc, CountStateOf(p), OthersLeft(p), UNCHANGED fileVars,
           sync'[p] = sync[p], dirty'[p] = dirty[p], mem'[p] = mem[p],
           pc[p] \notin {"closed", "open", "putInfo"},
           pc[p] = "syncTable" => pc'[p] = "syncTable",
           pc'[p] # "putInfo", Synced(p)' => Synced(p),
           pc'[p] = "put" /\ call'[p].then = "closed" => writeLocked'[p]
    PROVE  CountStateOf(p)'
  <1>1. /\ TellsTable(p) => TellsTable(p)'
        /\ \A d \in DataMan : TellsData(p, d) => TellsData(p, d)'
    BY TellsKept
  <1>2. UNCHANGED <<disk, syncFile>>
    BY DEF fileVars
  <1> QED BY <1>1, <1>2 DEF CountStateOf

\* A step after which the process has the counters and the data of the files.
LEMMA FreshCounted ==
    ASSUME NEW p \in Proc, TypeInv',
           sync'[p].tab = syncFile'.tab,
           \A d \in DataMan : sync'[p].dm[d] = syncFile'.dm[d],
           pc'[p] # "syncTable" => FreshTable(p)',
           \A d \in DataMan : FreshData(p, d)',
           pc'[p] \notin {"put", "putInfo"}
    PROVE  CountStateOf(p)'
  <1>1. /\ syncFile'.tab \in Nat /\ \A d \in DataMan : syncFile'.dm[d] \in Nat
    BY DEF TypeInv, TypeOK, Counters
  <1>2. pc'[p] # "syncTable" => TellsTable(p)'
    BY DEF TellsTable
  <1>3. \A d \in DataMan : TellsData(p, d)'
    BY DEF TellsData
  <1> QED BY <1>1, <1>2, <1>3 DEF CountStateOf

\* Who gets a lock finds nobody between its data and its counters.
LEMMA GrantedAlone ==
    ASSUME UpdateInv, CountState, NEW p \in Proc, OthersLeft(p), pc[p] # "putInfo",
           NEW type \in LockType, Acquired(p, type)
    PROVE  \A q \in Proc : pc[q] # "putInfo"
  <1>1. LockerTypeOK /\ LockState
    BY DEF UpdateInv, TypeInv, TypeOK
  <1>2. KernelExclusive' /\ Honest(p)' /\ HasLock(p, type)'
    BY <1>1, GrantedHonest
  <1>3. held'[p] # "none"
    BY <1>2 DEF Honest, HasLock
  <1>4. ASSUME NEW q \in Proc \ {p}, pc[q] = "putInfo"
        PROVE  FALSE
    <2>1. held'[q] = "write"
      BY <1>4, PuttingLocked DEF OthersLeft
    <2> QED BY <1>2, <1>3, <2>1 DEF KernelExclusive
  <1> QED BY <1>4

\* putFile, the first part: the files are what the writer has; nobody else has a
\* lock, and the counters may be told by later.
LEMMA PutDataCounted ==
    ASSUME UpdateInv, UseState, CountState, NEW p \in Proc, OthersLeft(p), PutData(p)
    PROVE  CountState'
  <1>1. /\ TypeInv /\ UpdateStateOf(p) /\ CountStateOf(p) /\ UseStateOf(p)
        /\ pc[p] = "put" /\ UNCHANGED <<readLocked, writeLocked, syncFile, mem, dirty, sync>>
        /\ LockState
    BY DEF UpdateInv, UpdateState, CountState, UseState, PutData, lockerVars, procVars
  <1>2. dirty[p] \in [tab : BOOLEAN, dm : SUBSET DataMan]
    BY <1>1 DEF TypeInv, TypeOK
  <1>3. ~writeLocked[p] => dirty[p] = Clean /\ ~WritesTable(p)
    BY <1>1 DEF UpdateStateOf, CountStateOf, WritesTable, Clean
  <1>4. Honest(p)
    BY <1>1 DEF LockState, Forgotten
  <1>5. writeLocked[p] => Synced(p)
    BY <1>1, <1>4 DEF Honest, Synced
  <1>6. disk' = [keys |-> IF WritesTable(p) THEN mem[p].keys ELSE disk.keys,
                 cols |-> IF WritesTable(p) THEN mem[p].cols ELSE disk.cols,
                 dm   |-> [d \in DataMan |-> IF d \in dirty[p].dm THEN mem[p].dm[d]
                                             ELSE disk.dm[d]]]
    BY DEF PutData
  <1>7. /\ disk'.cols = disk.cols
        /\ ~dirty[p].tab => disk'.keys = disk.keys
        /\ \A d \in DataMan : d \notin dirty[p].dm => disk'.dm[d] = disk.dm[d]
    <2>1. disk.cols = 1 /\ mem[p].cols = 1
      BY <1>1 DEF UseState, UseStateOf
    <2>2. writeLocked[p] => FreshTable(p)
      BY <1>5, SyncedFresh
    <2>3. ~dirty[p].tab => disk'.keys = disk.keys
      BY <1>3, <1>6, <2>2 DEF FreshTable
    <2> QED BY <1>6, <2>1, <2>3
  <1>8. \/ /\ writeLocked[p] /\ pc'[p] = "putInfo" /\ call' = call
        \/ /\ dirty[p] = Clean /\ ~WritesTable(p) /\ AfterPut(p)
    <2>1. CASE WritesTable(p) \/ dirty[p].dm # {}
      BY <1>1, <1>3, <2>1, GotoLeads DEF PutData, Clean
    <2>2. CASE ~(WritesTable(p) \/ dirty[p].dm # {})
      BY <1>2, <2>2 DEF PutData, WritesTable, Clean
    <2> QED BY <2>1, <2>2
  <1>9. pc'[p] = "putInfo" \/ (dirty[p] = Clean /\ pc'[p] \in {"idle", "unlock"})
    BY <1>1, <1>8, PutLeads
  <1>10. /\ \A r \in Proc : pc[r] = "putInfo" => pc'[r] = "putInfo" /\ r # p
         /\ dirty[p].tab => pc'[p] = "putInfo"
         /\ \A d \in dirty[p].dm : pc'[p] = "putInfo"
    BY <1>1, <1>9 DEF OthersLeft, Clean
  <1>11. ASSUME NEW q \in Proc
         PROVE  /\ TellsTable(q) => TellsTable(q)'
                /\ \A d \in DataMan : TellsData(q, d) => TellsData(q, d)'
    <2>1. TellsTable(q) => TellsTable(q)'
      BY <1>1, <1>7, <1>10 DEF TellsTable, FreshTable
    <2>2. ASSUME NEW d \in DataMan, TellsData(q, d)
          PROVE  TellsData(q, d)'
      BY <1>1, <1>7, <1>10, <2>2 DEF TellsData, FreshData
    <2> QED BY <2>1, <2>2
  <1>12. CountStateOf(p)'
    <2>1. Synced(p)' => Synced(p)
      BY <1>1, <1>9 DEF Synced
    <2>2. pc'[p] = "putInfo" => /\ writeLocked'[p] /\ mem'[p].keys = disk'.keys
                                /\ \A d \in DataMan : mem'[p].dm[d] = disk'.dm[d]
      <3>1. SUFFICES ASSUME pc'[p] = "putInfo"
                     PROVE  /\ writeLocked'[p] /\ mem'[p].keys = disk'.keys
                            /\ \A d \in DataMan : mem'[p].dm[d] = disk'.dm[d]
        OBVIOUS
      <3>2. writeLocked[p]
        BY <1>1, <1>8, <3>1, PutLeads
      <3>3. FreshTable(p) /\ \A d \in DataMan : FreshData(p, d)
        BY <1>5, <3>2, SyncedFresh
      <3>4. mem[p].keys = disk'.keys
        BY <1>6, <3>3 DEF FreshTable, WritesTable
      <3>5. ASSUME NEW d \in DataMan
            PROVE  mem[p].dm[d] = disk'.dm[d]
        BY <1>6, <3>3 DEF FreshData
      <3> QED BY <1>1, <3>2, <3>4, <3>5
    <2> QED BY <1>1, <1>9, <1>11, <2>1, <2>2 DEF CountStateOf
  <1>13. ASSUME NEW q \in Proc \ {p}
         PROVE  CountStateOf(q)'
    <2>1. /\ CountStateOf(q) /\ pc'[q] = pc[q] /\ call'[q] = call[q]
      BY <1>13 DEF CountState, OthersLeft
    <2>2. Synced(q)' <=> Synced(q)
      BY <1>1, <2>1 DEF Synced
    <2>3. ASSUME pc[q] = "putInfo"
          PROVE  /\ disk'.keys = disk.keys
                 /\ \A d \in DataMan : disk'.dm[d] = disk.dm[d]
      <3>1. dirty[p] = Clean
        BY <2>3, PuttingLocked, WriterAlone
      <3> QED BY <1>7, <3>1 DEF Clean
    <2> QED BY <1>1, <1>11, <2>1, <2>2, <2>3 DEF CountStateOf
  <1> QED BY <1>12, <1>13 DEF CountState

\* The second part: the counts of what was written are new to everybody else.
LEMMA PutInfoCounted ==
    ASSUME UpdateInv, UseState, CountState, UseState', TypeInv',
           NEW p \in Proc, OthersLeft(p), PutInfo(p)
    PROVE  CountState'
  <1>1. /\ TypeInv /\ CountStateOf(p) /\ pc[p] = "putInfo"
        /\ UNCHANGED <<readLocked, writeLocked, disk, mem>>
        /\ syncFile' = Counted(p) /\ AfterPut(p)
    BY DEF UpdateInv, CountState, PutInfo, lockerVars
  <1>2. sync'[p] = syncFile' /\ dirty'[p] = Clean
    BY <1>1 DEF PutInfo, TypeInv, TypeOK
  <1>3. /\ sync[p].tab = syncFile.tab
        /\ \A d \in DataMan : sync[p].dm[d] = syncFile.dm[d]
    BY <1>1, PuttingLocked, SyncedFresh
  <1>4. /\ syncFile'.tab = IF dirty[p].tab THEN syncFile.tab + 1 ELSE syncFile.tab
        /\ \A d \in DataMan :
            syncFile'.dm[d] = IF d \in dirty[p].dm THEN syncFile.dm[d] + 1
                              ELSE syncFile.dm[d]
    BY <1>1, <1>3 DEF Counted
  <1>5. pc'[p] \in {"idle", "unlock"}
    BY <1>1, PutLeads
  <1>6. CountStateOf(p)'
    <2>1. FreshTable(p)'
      <3>1. mem'[p].cols = 1 /\ disk'.cols = 1
        BY DEF UseState, UseStateOf
      <3> QED BY <1>1, <3>1 DEF CountStateOf, FreshTable
    <2>2. \A d \in DataMan : FreshData(p, d)'
      BY <1>1 DEF CountStateOf, FreshData
    <2> QED BY <1>2, <1>5, <2>1, <2>2, FreshCounted
  <1>7. ASSUME NEW q \in Proc \ {p}
        PROVE  CountStateOf(q)'
    <2>1. /\ CountStateOf(q) /\ pc'[q] = pc[q] /\ call'[q] = call[q]
          /\ sync'[q] = sync[q] /\ dirty'[q] = dirty[q] /\ mem'[q] = mem[q]
      BY <1>7 DEF CountState, OthersLeft
    <2>2. /\ sync[q].tab \in Nat /\ syncFile.tab \in Nat
          /\ \A d \in DataMan : sync[q].dm[d] \in Nat /\ syncFile.dm[d] \in Nat
      BY <1>1, CountTypes
    <2>3. ~Synced(q) /\ ~Synced(q)'
      BY <1>1, <2>1, PuttingLocked, WriterAlone DEF Synced
    <2>4. \A r \in Proc : pc[r] = "putInfo" => r = p
      BY <1>1, PuttingLocked, WriterAlone
    <2>5. TellsTable(q) => TellsTable(q)'
      <3>1. CASE dirty[p].tab
        <4>1. syncFile'.tab = syncFile.tab + 1 /\ sync[q].tab <= syncFile.tab
          BY <1>4, <2>1, <3>1 DEF CountStateOf
        <4>2. sync'[q].tab # syncFile'.tab
          BY <2>1, <2>2, <4>1
        <4> QED BY <4>2 DEF TellsTable
      <3>2. CASE ~dirty[p].tab
        BY <1>1, <1>4, <2>1, <2>4, <3>2 DEF TellsTable, FreshTable
      <3> QED BY <3>1, <3>2
    <2>6. ASSUME NEW d \in DataMan, TellsData(q, d)
          PROVE  TellsData(q, d)'
      <3>1. CASE d \in dirty[p].dm
        <4>1. syncFile'.dm[d] = syncFile.dm[d] + 1 /\ sync[q].dm[d] <= syncFile.dm[d]
          BY <1>4, <2>1, <3>1 DEF CountStateOf
        <4>2. sync'[q].dm[d] # syncFile'.dm[d]
          BY <2>1, <2>2, <4>1
        <4> QED BY <4>2 DEF TellsData
      <3>2. CASE d \notin dirty[p].dm
        BY <1>1, <1>4, <2>1, <2>4, <2>6, <3>2 DEF TellsData, FreshData
      <3> QED BY <3>1, <3>2
    <2>7. sync[q].tab <= syncFile'.tab
      BY <1>4, <2>1, <2>2 DEF CountStateOf
    <2>8. ASSUME NEW d \in DataMan
          PROVE  sync[q].dm[d] <= syncFile'.dm[d]
      BY <1>4, <2>1, <2>2 DEF CountStateOf
    <2> QED BY <1>1, <2>1, <2>3, <2>5, <2>6, <2>7, <2>8 DEF CountStateOf
  <1> QED BY <1>6, <1>7 DEF CountState

\* lock() once it has the lock: what has other counters is read again, the rest is new.
LEMMA GrantedCounted ==
    ASSUME SteadyUse, UpdateInv, UseState, CountState, TypeInv', NEW p \in Proc,
           OthersLeft(p), LockGranted(p)
    PROVE  CountStateOf(p)'
  <1>1. /\ TypeInv /\ LockState /\ CountStateOf(p) /\ UseStateOf(p) /\ UpdateStateOf(p)
        /\ pc[p] = "lock" /\ Acquired(p, call[p].type) /\ call[p].type \in LockType
        /\ UNCHANGED <<fileVars, dirty>> /\ disk.cols = 1
    BY DEF UpdateInv, UpdateState, CountState, UseState, LockGranted, TypeInv, TypeOK,
           CallValue
  <1>2. CASE call[p].noSync
    <2>1. Synced(p) /\ Proceed(p) /\ UNCHANGED <<sync, mem>>
      BY <1>1, <1>2 DEF Synced, LockGranted
    <2> QED BY <1>1, <2>1, ProceedLeads, MovedCounted
  <1>3. CASE ~call[p].noSync
    <2>1. /\ Resynced(p)
          /\ IF syncFile.tab # sync[p].tab
             THEN Goto(p, "syncTable") /\ UNCHANGED call ELSE Proceed(p)
      BY <1>1, <1>3 DEF LockGranted, UseState, UseStateOf
    <2>2. sync'[p] = syncFile' /\ syncFile' = syncFile /\ disk' = disk
      BY <1>1, <2>1 DEF Resynced, TypeInv, TypeOK, fileVars
    <2>3. /\ mem'[p].keys = mem[p].keys /\ mem'[p].cols = mem[p].cols
          /\ \A d \in DataMan : mem'[p].dm[d] = IF syncFile.dm[d] # sync[p].dm[d]
                                                THEN disk.dm[d] ELSE mem[p].dm[d]
      BY <1>1, <2>1 DEF Resynced, TypeInv, TypeOK, Content
    <2>4. \A q \in Proc : pc[q] # "putInfo"
      BY <1>1, GrantedAlone
    <2>5. dirty[p] = Clean
      BY <1>1, <1>3 DEF UpdateStateOf
    <2>6. ASSUME NEW d \in DataMan
          PROVE  FreshData(p, d)'
      <3>1. syncFile.dm[d] # sync[p].dm[d] \/ mem[p].dm[d] = disk.dm[d]
        BY <1>1, <2>4, <2>5 DEF CountStateOf, TellsData, FreshData, Clean
      <3> QED BY <2>2, <2>3, <3>1 DEF FreshData
    <2>7. CASE syncFile.tab # sync[p].tab
      BY <1>1, <2>1, <2>2, <2>6, <2>7, GotoLeads, FreshCounted
    <2>8. CASE syncFile.tab = sync[p].tab
      <3>1. mem[p].keys = disk.keys /\ mem[p].cols = disk.cols
        BY <1>1, <2>4, <2>5, <2>8 DEF CountStateOf, TellsTable, FreshTable, Clean
      <3>2. FreshTable(p)'
        BY <2>2, <2>3, <3>1 DEF FreshTable
      <3>3. pc'[p] \in {"idle", "read", "write", "keyword"}
        BY <1>1, <2>1, <2>8, ProceedLeads
      <3> QED BY <2>2, <2>6, <3>2, <3>3, FreshCounted
    <2> QED BY <2>7, <2>8
  <1> QED BY <1>2, <1>3

\* A request that is not granted leaves no lock with which the process goes on
\* unsynchronized: it had one before, or it goes on trying, or it releases it.
LEMMA RefusedCounted ==
    ASSUME SteadyUse, UpdateInv, UseState, CountState, NEW p \in Proc, OthersLeft(p),
           LockRefused(p) \/ LockTried(p) \/ LockDeadlock(p)
    PROVE  CountStateOf(p)'
  <1>1. /\ TypeInv /\ LockState /\ CountStateOf(p) /\ UseStateOf(p) /\ UpdateStateOf(p)
        /\ pc[p] = "lock" /\ NotAcquired(p, call[p].type)
        /\ UNCHANGED <<fileVars, sync, mem, dirty>>
    BY DEF UpdateInv, UpdateState, CountState, UseState, LockRefused, LockTried,
           LockDeadlock, Blocked, procVars
  <1>2. /\ ~readLocked[p] => ~readLocked'[p]
        /\ ~writeLocked'[p]
    BY <1>1 DEF NotAcquired, ReadLockLeft, TypeInv, TypeOK, LockerTypeOK
  <1>3. CASE LockRefused(p)
    <2>1. pc'[p] \in {"idle", "read", "write", "keyword"}
      BY <1>1, <1>3, ProceedLeads DEF LockRefused
    <2>2. ~call[p].noSync => ~readLocked[p]
      BY <1>1, <1>3 DEF LockRefused, UseStateOf
    <2>3. Synced(p)' => Synced(p)
      BY <1>1, <1>2, <2>1, <2>2 DEF Synced
    <2> QED BY <1>1, <2>1, <2>3, MovedCounted
  <1>4. CASE LockTried(p)
    <2>1. pc'[p] = "lock" /\ call'[p] = call[p]
      BY <1>1, <1>4 DEF LockTried
    <2>2. Synced(p)' => Synced(p)
      BY <1>1, <2>1 DEF Synced
    <2> QED BY <1>1, <2>1, <2>2, MovedCounted
  <1>5. CASE LockDeadlock(p)
    <2>1. pc'[p] = "release" \/ (Undeterred /\ pc'[p] = "idle")
      BY <1>1, <1>5, ReturnLeads, GotoLeads DEF LockDeadlock
    <2>2. Undeterred /\ ~call[p].noSync => ~readLocked[p]
      BY <1>1 DEF UseStateOf, SteadyUse
    <2>3. Synced(p)' => Synced(p)
      BY <1>1, <1>2, <2>1, <2>2 DEF Synced
    <2> QED BY <1>1, <2>1, <2>3, MovedCounted
  <1> QED BY <1>3, <1>4, <1>5

\* syncTable: the keywords are read while the process still has its lock.
LEMMA SyncTableCounted ==
    ASSUME UpdateInv, UseState, CountState, NEW p \in Proc, OthersLeft(p), SyncTable(p)
    PROVE  CountStateOf(p)'
  <1>1. /\ TypeInv /\ CountStateOf(p) /\ UseStateOf(p) /\ UpdateStateOf(p)
        /\ pc[p] = "syncTable" /\ ~call[p].noSync /\ disk.cols = 1
        /\ UNCHANGED <<fileVars, sync, dirty>>
    BY DEF UpdateInv, UpdateState, CountState, UseState, SyncTable, UpdateStateOf
  <1>2. /\ mem' = [mem EXCEPT ![p].keys = disk.keys] /\ Goto(p, "lock") /\ UNCHANGED call
    BY <1>1 DEF SyncTable, UseStateOf
  <1>3. pc'[p] = "lock" /\ ~Synced(p)'
    BY <1>1, <1>2, GotoLeads DEF Synced
  <1>4. /\ mem'[p].keys = disk.keys /\ mem'[p].cols = 1 /\ mem'[p].dm = mem[p].dm
        /\ disk' = disk /\ syncFile' = syncFile
    BY <1>1, <1>2 DEF TypeInv, TypeOK, Content, UseStateOf, fileVars
  <1>5. TellsTable(p)'
    BY <1>1, <1>4 DEF TellsTable, FreshTable
  <1>6. \A r \in Proc : pc[r] = "putInfo" => pc'[r] = "putInfo" /\ dirty'[r] = dirty[r]
    BY <1>1 DEF OthersLeft
  <1>7. ASSUME NEW d \in DataMan
        PROVE  TellsData(p, d)'
    BY <1>1, <1>4, <1>6 DEF CountStateOf, TellsData, FreshData
  <1> QED BY <1>1, <1>3, <1>4, <1>5, <1>7 DEF CountStateOf

\* The request of a lock by a process that may have one.
LEMMA RequestCounted ==
    ASSUME UpdateInv, CountState, NEW p \in Proc, OthersLeft(p), pc[p] = "idle",
           NEW type, NEW wait, NEW then, RequestLock(p, type, wait, then)
    PROVE  CountStateOf(p)'
  <1>1. TypeInv /\ CountStateOf(p)
    BY DEF UpdateInv, CountState
  <1>2. /\ pc'[p] = "lock" /\ call'[p].noSync = readLocked[p]
        /\ UNCHANGED <<fileVars, sync, mem, dirty>>
    BY <1>1, RequestLeads DEF procVars
  <1>3. Synced(p)' => Synced(p)
    BY <1>2 DEF Synced
  <1> QED BY <1>1, <1>2, <1>3, MovedCounted

\* An update, under the lock of its writer.
LEMMA ChangedCounted ==
    ASSUME UpdateInv, CountState, NEW p \in Proc, OthersLeft(p),
           Write(p) \/ WriteKeyword(p)
    PROVE  CountStateOf(p)'
  <1>1. /\ TypeInv /\ CountStateOf(p) /\ pc[p] \in {"write", "keyword"}
        /\ UNCHANGED <<readLocked, fileVars, disk, syncFile, sync>>
        /\ pc'[p] \in {"idle", "release"}
    <2>1. TypeInv /\ CountStateOf(p)
      BY DEF UpdateInv, CountState
    <2>2. /\ pc[p] \in {"write", "keyword"} /\ UNCHANGED <<readLocked, fileVars, sync>>
          /\ AfterAccess(p) \/ Return(p)
      BY DEF Write, WriteKeyword, lockerVars
    <2>3. pc'[p] \in {"idle", "release"}
      BY <2>1, <2>2, AccessLeads, ReturnLeads
    <2> QED BY <2>1, <2>2, <2>3 DEF fileVars
  <1>2. /\ dirty'[p].tab \/ (/\ mem'[p].keys = mem[p].keys /\ mem'[p].cols = mem[p].cols
                             /\ dirty'[p].tab = dirty[p].tab)
        /\ \A d \in DataMan : d \in dirty'[p].dm \/ (/\ mem'[p].dm[d] = mem[p].dm[d]
                                                     /\ d \notin dirty[p].dm)
    <2>1. /\ mem \in [Proc -> Content]
          /\ dirty \in [Proc -> [tab : BOOLEAN, dm : SUBSET DataMan]]
      BY <1>1 DEF TypeInv, TypeOK
    <2>2. CASE Write(p)
      <3>1. PICK c \in DataMan :
              /\ mem' = [mem EXCEPT ![p].dm[c] = @ + 1]
              /\ dirty' = [dirty EXCEPT ![p].dm = @ \cup {c}]
        BY <2>2 DEF Write
      <3>2. /\ mem'[p].keys = mem[p].keys /\ mem'[p].cols = mem[p].cols
            /\ mem'[p].dm = [mem[p].dm EXCEPT ![c] = @ + 1]
        BY <2>1, <3>1 DEF Content
      <3>3. dirty'[p].tab = dirty[p].tab /\ dirty'[p].dm = dirty[p].dm \cup {c}
        BY <2>1, <3>1
      <3>4. \A d \in DataMan : d # c => mem'[p].dm[d] = mem[p].dm[d]
        BY <2>1, <3>2 DEF Content
      <3>5. ASSUME NEW d \in DataMan
            PROVE  d \in dirty'[p].dm \/ (/\ mem'[p].dm[d] = mem[p].dm[d]
                                          /\ d \notin dirty[p].dm)
        BY <3>3, <3>4
      <3> QED BY <3>2, <3>3, <3>5
    <2>3. CASE WriteKeyword(p)
      <3>1. /\ dirty'[p].tab /\ dirty'[p].dm = dirty[p].dm /\ mem'[p].dm = mem[p].dm
        BY <2>1, <2>3 DEF WriteKeyword, Content
      <3> QED BY <3>1
    <2> QED BY <2>2, <2>3
  <1>3. \A r \in Proc \ {p} : pc'[r] = pc[r] /\ dirty'[r] = dirty[r]
    BY DEF OthersLeft
  <1>4. TellsTable(p)'
    BY <1>1, <1>2, <1>3 DEF CountStateOf, TellsTable, FreshTable
  <1>5. ASSUME NEW d \in DataMan
        PROVE  TellsData(p, d)'
    BY <1>1, <1>2, <1>3 DEF CountStateOf, TellsData, FreshData
  <1>6. Synced(p)' => Synced(p)
    BY <1>1 DEF Synced
  <1> QED BY <1>1, <1>4, <1>5, <1>6 DEF CountStateOf

LEMMA CountStep ==
    ASSUME SteadyUse, UpdateInv, UseState, CountState, UseState', TypeInv',
           NEW p \in Proc, Step(p) \/ Call(p)
    PROVE  CountState'
  <1>1. /\ TypeInv /\ LockState /\ CountStateOf(p) /\ UseStateOf(p) /\ UpdateStateOf(p)
        /\ OthersLeft(p)
    BY OwnCopyOnly DEF UpdateInv, UpdateState, CountState, UseState
  <1>2. ASSUME UNCHANGED fileVars, pc[p] # "putInfo", CountStateOf(p)'
        PROVE  CountState'
    BY <1>1, <1>2, OthersCounted DEF CountState
  <1>3. CASE LockGranted(p)
    BY <1>1, <1>2, <1>3, GrantedCounted DEF LockGranted
  <1>4. CASE LockRefused(p) \/ LockTried(p) \/ LockDeadlock(p)
    BY <1>1, <1>2, <1>4, RefusedCounted DEF LockRefused, LockTried, LockDeadlock, Blocked
  <1>5. CASE SyncTable(p)
    BY <1>1, <1>2, <1>5, SyncTableCounted DEF SyncTable
  <1>6. CASE Write(p) \/ WriteKeyword(p)
    BY <1>1, <1>2, <1>6, ChangedCounted DEF Write, WriteKeyword
  <1>7. CASE PutData(p)
    BY <1>1, <1>7, PutDataCounted
  <1>8. CASE PutInfo(p)
    BY <1>1, <1>8, PutInfoCounted
  <1>9. ~ColumnKeyword(p) /\ ~AddColumn(p)
    BY <1>1 DEF ColumnKeyword, AddColumn, UseStateOf, UpdateStateOf
  <1>10. ASSUME NEW type, NEW wait, NEW then, RequestLock(p, type, wait, then),
                pc[p] = "idle"
         PROVE  CountState'
    BY <1>1, <1>2, <1>10, RequestCounted DEF RequestLock
  <1>11. ASSUME pc[p] \notin {"closed", "open", "putInfo", "syncTable"},
                UNCHANGED <<fileVars, mem, dirty, sync>>,
                pc'[p] \notin {"putInfo", "lock"},
                pc'[p] = "put" /\ call'[p].then = "closed" => writeLocked'[p],
                Synced(p)' => Synced(p)
         PROVE  CountState'
    <2>1. CountStateOf(p)'
      BY <1>1, <1>11, MovedCounted
    <2> QED BY <1>2, <1>11, <2>1
  <1>12. CASE Read(p)
    <2>1. pc[p] = "read" /\ UNCHANGED <<readLocked, fileVars, mem, dirty, sync>>
          /\ AfterAccess(p)
      BY <1>12 DEF Read, lockerVars, procVars
    <2>2. pc'[p] \in {"idle", "release"}
      BY <1>1, <2>1, AccessLeads
    <2>3. Synced(p)' => Synced(p)
      BY <2>1, <2>2 DEF Synced
    <2> QED BY <1>11, <2>1, <2>2, <2>3
  <1>13. CASE Unlock(p) \/ Close(p) \/ Flush(p)
    <2>1. /\ pc[p] = "idle" /\ UNCHANGED <<readLocked, fileVars, mem, dirty, sync>>
          /\ \/ Goto(p, "release")
             \/ Goto(p, "put") /\ Doing(p, "read", FALSE, "forever", "flushed")
      BY <1>13 DEF Unlock, Close, Flush, lockerVars, procVars
    <2>2. \/ pc'[p] = "release"
          \/ pc'[p] = "put" /\ call'[p].then = "flushed"
      BY <1>1, <2>1, GotoLeads, DoingLeads
    <2>3. Synced(p)' => Synced(p)
      BY <2>1, <2>2 DEF Synced
    <2> QED BY <1>11, <2>1, <2>2, <2>3
  <1>14. CASE Release(p)
    <2>1. /\ pc[p] = "release"
          /\ UNCHANGED <<readLocked, writeLocked, fileVars, mem, dirty, sync>>
          /\ Goto(p, IF writeLocked[p] THEN "put" ELSE "unlock")
      BY <1>14 DEF Release, HasLock, lockerVars, procVars
    <2>2. pc'[p] = IF writeLocked[p] THEN "put" ELSE "unlock"
      BY <1>1, <2>1, GotoLeads
    <2>3. Synced(p)' => Synced(p)
      BY <2>1, <2>2 DEF Synced
    <2> QED BY <1>11, <2>1, <2>2, <2>3
  <1>15. CASE Unlocked(p) /\ call[p].then # "closed"
    <2>1. /\ pc[p] = "unlock" /\ Released(p) /\ Return(p)
          /\ UNCHANGED <<fileVars, mem, dirty, sync>>
      BY <1>1, <1>15 DEF Unlocked, UseStateOf, UpdateStateOf
    <2>2. ~readLocked'[p]
      BY <1>1, <2>1 DEF Released, TypeInv, TypeOK, LockerTypeOK
    <2>3. pc'[p] = "idle" /\ ~Synced(p)'
      BY <1>1, <2>1, <2>2, ReturnLeads DEF Synced
    <2> QED BY <1>11, <2>1, <2>3
  <1>16. ASSUME Gone(p), pc[p] # "putInfo"
         PROVE  CountState'
    <2>1. pc'[p] = "closed"
      BY <1>1, <1>16, GotoLeads DEF Gone
    <2>2. /\ sync'[p] = NewCounters /\ UNCHANGED fileVars
      BY <1>1, <1>16 DEF Gone, TypeInv, TypeOK
    <2>3. /\ sync'[p].tab = 0 /\ \A d \in DataMan : sync'[p].dm[d] = 0
      BY <2>2 DEF NewCounters
    <2>4. /\ syncFile'.tab \in Nat /\ \A d \in DataMan : syncFile'.dm[d] \in Nat
      BY <1>1, <2>2, CountTypes DEF fileVars
    <2>5. /\ sync'[p].tab <= syncFile'.tab
          /\ \A d \in DataMan : sync'[p].dm[d] <= syncFile'.dm[d]
      BY <2>3, <2>4
    <2>6. CountStateOf(p)'
      BY <2>1, <2>5 DEF CountStateOf, Synced
    <2> QED BY <1>2, <1>16, <2>2, <2>6
  <1>17. CASE Crash(p)
    BY <1>1, <1>16, <1>17, TableSyncAssumption DEF Crash, SteadyUse
  <1>18. CASE Open(p)
    <2>1. pc[p] = "closed" /\ pc'[p] = "open" /\ UNCHANGED <<fileVars, sync>>
      BY <1>1, <1>18, GotoLeads DEF Open, procVars
    <2>2. CountStateOf(p)'
      BY <1>1, <2>1 DEF CountStateOf, Synced, fileVars
    <2> QED BY <1>2, <2>1, <2>2
  <1>19. CASE Opened(p)
    <2>1. /\ pc[p] = "open" /\ pc'[p] \in {"idle", "unlock"} /\ UNCHANGED fileVars
          /\ sync'[p] = syncFile' /\ mem'[p] = disk'
      BY <1>1, <1>19, GotoLeads DEF Opened, fileVars, TypeInv, TypeOK
    <2>2. FreshTable(p)' /\ \A d \in DataMan : FreshData(p, d)'
      BY <2>1 DEF FreshTable, FreshData
    <2>3. CountStateOf(p)'
      BY <2>1, <2>2, FreshCounted
    <2> QED BY <1>2, <2>1, <2>3
  <1>20. ASSUME NEW kind \in Access, Begin(p, kind)
         PROVE  CountState'
    <2>1. CASE Goto(p, kind) /\ UNCHANGED <<lockerVars, fileVars, procVars>>
      <3>1. pc[p] = "idle" /\ UNCHANGED <<readLocked, fileVars, mem, dirty, sync>>
        BY <1>20, <2>1 DEF Begin, lockerVars, procVars
      <3>2. pc'[p] = kind
        BY <1>1, <2>1, GotoLeads
      <3>3. Synced(p)' => Synced(p)
        BY <3>1, <3>2, NoAccess DEF Synced
      <3> QED BY <1>11, <3>1, <3>2, <3>3, NoAccess
    <2> QED BY <1>10, <1>20, <2>1 DEF Begin
  <1>21. CASE UserLock(p)
    BY <1>10, <1>21 DEF UserLock
  <1>22. CASE Unlocked(p) /\ call[p].then = "closed"
    BY <1>16, <1>22 DEF Unlocked
  <1> QED BY <1>3, <1>4, <1>5, <1>6, <1>7, <1>8, <1>9, <1>12, <1>13, <1>14, <1>15,
             <1>17, <1>18, <1>19, <1>20, <1>21, <1>22 DEF Step, Call

SteadyInv == UpdateInv /\ UseState /\ CountState

LEMMA SteadyInvariant ==
    ASSUME SteadyUse
    PROVE  Spec => []SteadyInv
  <1>1. Init => UseState
    BY DEF Init, UseState, UseStateOf, NewContent, NewCounters, NoCall, Clean
  <1>2. Init => CountState
    BY DEF Init, CountState, CountStateOf, Synced, NewCounters, NoCall
  <1>3. Spec => []UpdateInv
    BY UpdateInvariant
  <1>4. UpdateInv /\ UseState /\ [Next]_vars => UseState'
    BY UseNext
  <1>5. UpdateInv /\ UpdateInv' /\ UseState /\ UseState' /\ CountState /\ [Next]_vars
            => CountState'
    <2> SUFFICES ASSUME UpdateInv, UpdateInv', UseState, UseState', CountState, [Next]_vars
                 PROVE  CountState'
      OBVIOUS
    <2>1. CASE Next
      BY <2>1, CountStep DEF Next, UpdateInv
    <2>2. CASE UNCHANGED vars
      BY <2>2 DEF CountState, CountStateOf, Synced, TellsTable, TellsData, FreshTable,
                  FreshData, vars, lockerVars, fileVars, procVars
    <2> QED BY <2>1, <2>2
  <1> QED BY <1>1, <1>2, <1>3, <1>4, <1>5, PTL DEF Spec, SteadyInv

\* PlainTable.cc:425-431: what a process reads or updates is the newest content,
\* although it compares counters only when it gets the lock, and not at all when
\* it already has a read lock.
THEOREM AccessIsFresh ==
    ASSUME SteadyUse
    PROVE  Spec => []AccessFresh
  <1>1. SteadyInv => AccessFresh
    <2> SUFFICES ASSUME SteadyInv, NEW p \in Proc, pc[p] \in Access
                 PROVE  FreshTable(p) /\ \A d \in DataMan : FreshData(p, d)
      BY DEF AccessFresh
    <2>1. UpdateInv /\ UseState /\ CountState
      BY DEF SteadyInv
    <2>2. HasLock(p, LockFor(pc[p])) /\ Honest(p)
      BY <2>1, NoAccess DEF UpdateInv, AccessState, LockState, Forgotten
    <2>3. readLocked[p]
      BY <2>2, HonestWrite DEF HasLock
    <2>4. Synced(p)
      BY <2>3, NoAccess DEF Synced
    <2> QED BY <2>1, <2>4, SyncedFresh
  <1> QED BY <1>1, SteadyInvariant, PTL

\* TableSyncData.h: a process that finds the counters it knows has the data they
\* stand for, but for what a writer is just about to count.
THEOREM CountersTellTheTruth ==
    ASSUME SteadyUse
    PROVE  Spec => []CountersTell
  <1>1. SteadyInv => CountersTell
    BY DEF SteadyInv, CountState, CountStateOf, TellsTable, TellsData, CountersTell
  <1> QED BY <1>1, SteadyInvariant, PTL

-----------------------------------------------------------------------------
(* The processes implement one table.                                       *)

\* The content of the table, as the refinement maps it.
Shared ==
    IF \E p \in Proc : dirty[p] # Clean
    THEN mem[CHOOSE p \in Proc : dirty[p] # Clean]
    ELSE disk

SharedRight ==
    /\ \A p \in Proc : dirty[p] # Clean => Shared = mem[p]
    /\ (\A p \in Proc : dirty[p] = Clean) => Shared = disk

\* At most one process has something to write.
LEMMA OneWriter ==
    ASSUME SteadyInv, NEW p \in Proc, dirty[p] # Clean
    PROVE  writeLocked[p] /\ Honest(p) /\ \A q \in Proc \ {p} : dirty[q] = Clean
  <1>1. UpdateInv /\ UseState /\ UpdateStateOf(p)
    BY DEF SteadyInv, UpdateInv, UpdateState
  <1>2. writeLocked[p]
    BY <1>1 DEF UpdateStateOf
  <1>3. Honest(p)
    BY <1>1 DEF UpdateInv, LockState, Forgotten, UpdateStateOf
  <1> QED BY <1>1, <1>2, <1>3, WriterAlone

LEMMA SharedIs == SteadyInv => SharedRight
  <1> SUFFICES ASSUME SteadyInv PROVE SharedRight
    OBVIOUS
  <1>1. ASSUME NEW p \in Proc, dirty[p] # Clean
        PROVE  Shared = mem[p]
    <2>1. \A q \in Proc : dirty[q] # Clean <=> q = p
      BY <1>1, OneWriter
    <2>2. (CHOOSE q \in Proc : dirty[q] # Clean) = p
      BY <2>1
    <2> QED BY <1>1, <2>2 DEF Shared
  <1>2. (\A p \in Proc : dirty[p] = Clean) => Shared = disk
    BY DEF Shared
  <1> QED BY <1>1, <1>2 DEF SharedRight

LEMMA SameContent ==
    ASSUME NEW a \in Content, NEW b \in Content, a.keys = b.keys, a.cols = b.cols,
           \A d \in DataMan : a.dm[d] = b.dm[d]
    PROVE  a = b
  <1>1. a.dm = b.dm
    BY DEF Content
  <1>2. a = [keys |-> a.keys, cols |-> a.cols, dm |-> a.dm]
    BY DEF Content
  <1>3. b = [keys |-> b.keys, cols |-> b.cols, dm |-> b.dm]
    BY DEF Content
  <1> QED BY <1>1, <1>2, <1>3

\* What a writer has is the content of the table.
LEMMA WriterHasShared ==
    ASSUME SteadyInv, SharedRight, NEW p \in Proc, writeLocked[p], Honest(p), Synced(p)
    PROVE  Shared = mem[p]
  <1>1. UpdateInv /\ UseState /\ CountState /\ TypeInv
    BY DEF SteadyInv, UpdateInv
  <1>2. CASE dirty[p] # Clean
    BY <1>2 DEF SharedRight
  <1>3. CASE dirty[p] = Clean
    <2>1. Shared = disk
      BY <1>1, <1>3, WriterAlone DEF SharedRight
    <2>2. FreshTable(p) /\ \A d \in DataMan : FreshData(p, d)
      BY <1>1, SyncedFresh
    <2>3. disk \in Content /\ mem[p] \in Content
      BY <1>1 DEF TypeInv, TypeOK
    <2>4. disk.keys = mem[p].keys /\ disk.cols = mem[p].cols
      BY <1>3, <2>2 DEF FreshTable, Clean
    <2>5. \A d \in DataMan : disk.dm[d] = mem[p].dm[d]
      BY <1>3, <2>2 DEF FreshData, Clean
    <2> QED BY <2>1, <2>3, <2>4, <2>5, SameContent
  <1> QED BY <1>2, <1>3

\* A step that changes neither what a writer has nor who is one.
LEMMA SharedStays ==
    ASSUME SharedRight, SharedRight', NEW p \in Proc, OthersLeft(p), UNCHANGED disk,
           dirty'[p] = dirty[p], dirty[p] # Clean => mem'[p] = mem[p]
    PROVE  Shared' = Shared
  <1>1. \A q \in Proc : dirty'[q] = dirty[q] /\ (dirty[q] # Clean => mem'[q] = mem[q])
    BY DEF OthersLeft
  <1>2. CASE \E q \in Proc : dirty[q] # Clean
    BY <1>1, <1>2 DEF SharedRight
  <1>3. CASE \A q \in Proc : dirty[q] = Clean
    BY <1>1, <1>3 DEF SharedRight
  <1> QED BY <1>2, <1>3

TableStep == [Table!TableNext]_<<Shared, disk>>

LEMMA PutDataShared ==
    ASSUME SteadyInv, SteadyInv', SharedRight, SharedRight', NEW p \in Proc,
           OthersLeft(p), PutData(p)
    PROVE  Shared' = Shared /\ (disk' = disk \/ disk' = Shared)
  <1>1. /\ UpdateInv /\ UseState /\ CountState /\ TypeInv /\ TypeInv' /\ LockState
        /\ UpdateStateOf(p) /\ CountStateOf(p) /\ pc[p] = "put"
        /\ UNCHANGED <<mem, dirty>>
    BY DEF SteadyInv, UpdateInv, UpdateState, CountState, PutData, procVars
  <1>2. disk \in Content /\ disk' \in Content /\ mem[p] \in Content
    BY <1>1 DEF TypeInv, TypeOK
  <1>3. disk' = [keys |-> IF WritesTable(p) THEN mem[p].keys ELSE disk.keys,
                 cols |-> IF WritesTable(p) THEN mem[p].cols ELSE disk.cols,
                 dm   |-> [d \in DataMan |-> IF d \in dirty[p].dm THEN mem[p].dm[d]
                                             ELSE disk.dm[d]]]
    BY DEF PutData
  <1>4. CASE writeLocked[p]
    <2>1. Honest(p) /\ Synced(p)
      BY <1>1, <1>4 DEF LockState, Forgotten, Honest, Synced
    <2>2. Shared = mem[p] /\ FreshTable(p) /\ \A d \in DataMan : FreshData(p, d)
      BY <1>1, <1>4, <2>1, WriterHasShared, SyncedFresh
    <2>3. disk'.keys = mem[p].keys /\ disk'.cols = mem[p].cols
      BY <1>3, <2>2 DEF FreshTable, WritesTable
    <2>4. ASSUME NEW d \in DataMan
          PROVE  disk'.dm[d] = mem[p].dm[d]
      BY <1>3, <2>2 DEF FreshData
    <2>5. disk' = mem[p]
      BY <1>2, <2>3, <2>4, SameContent
    <2>6. Shared' = mem[p]
      <3>1. CASE dirty[p] # Clean
        BY <1>1, <3>1 DEF SharedRight
      <3>2. CASE dirty[p] = Clean
        <4>1. \A q \in Proc : dirty'[q] = Clean
          BY <1>1, <1>4, <2>1, <3>2, WriterAlone
        <4> QED BY <2>5, <4>1 DEF SharedRight
      <3> QED BY <3>1, <3>2
    <2> QED BY <2>2, <2>5, <2>6
  <1>5. CASE ~writeLocked[p]
    <2>1. dirty[p] = Clean /\ ~WritesTable(p)
      BY <1>1, <1>5 DEF UpdateStateOf, CountStateOf, WritesTable, Clean
    <2>2. /\ disk'.keys = disk.keys /\ disk'.cols = disk.cols
          /\ \A d \in DataMan : disk'.dm[d] = disk.dm[d]
      BY <1>3, <2>1 DEF Clean
    <2>3. disk' = disk
      BY <1>2, <2>2, SameContent
    <2> QED BY <1>1, <2>3, SharedStays
  <1> QED BY <1>4, <1>5

LEMMA SharedStep ==
    ASSUME SteadyUse, SteadyInv, SteadyInv', SharedRight, SharedRight',
           NEW p \in Proc, Step(p) \/ Call(p)
    PROVE  TableStep
  <1>1. /\ UpdateInv /\ UseState /\ CountState /\ TypeInv /\ LockState /\ AccessState
        /\ CountStateOf(p) /\ UseStateOf(p) /\ UpdateStateOf(p) /\ OthersLeft(p)
    BY OwnCopyOnly DEF SteadyInv, UpdateInv, UpdateState, CountState, UseState
  <1>2. ASSUME UNCHANGED disk, dirty'[p] = dirty[p], dirty[p] # Clean => mem'[p] = mem[p]
        PROVE  TableStep
    BY <1>1, <1>2, SharedStays DEF TableStep
  <1>3. ASSUME UNCHANGED <<fileVars, procVars>>
        PROVE  TableStep
    BY <1>2, <1>3 DEF fileVars, procVars
  <1>4. CASE Write(p) \/ WriteKeyword(p)
    <2>1. /\ pc[p] \in {"write", "keyword"} /\ UNCHANGED disk
          /\ mem \in [Proc -> Content] /\ mem[p] \in Content
          /\ dirty \in [Proc -> [tab : BOOLEAN, dm : SUBSET DataMan]]
      BY <1>1, <1>4 DEF Write, WriteKeyword, fileVars, TypeInv, TypeOK
    <2>2. writeLocked[p] /\ Honest(p) /\ Synced(p)
      <3>1. HasLock(p, "write") /\ Honest(p)
        BY <1>1, <2>1 DEF AccessState, Access, LockFor, LockState, Forgotten
      <3> QED BY <2>1, <3>1 DEF HasLock, Honest, Synced
    <2>3. Shared = mem[p]
      BY <2>2, WriterHasShared
    <2>4. dirty'[p] # Clean
      <3>1. (\E d \in DataMan : d \in dirty'[p].dm) \/ dirty'[p].tab
        BY <1>4, <2>1 DEF Write, WriteKeyword
      <3> QED BY <3>1 DEF Clean
    <2>5. Shared' = mem'[p]
      BY <2>4 DEF SharedRight
    <2>6. \/ \E d \in DataMan : mem'[p] = [mem[p] EXCEPT !.dm[d] = @ + 1]
          \/ mem'[p] = [mem[p] EXCEPT !.keys = @ + 1]
      BY <1>4, <2>1 DEF Write, WriteKeyword
    <2>7. Table!Update
      BY <2>1, <2>3, <2>5, <2>6 DEF Table!Update, Shared
    <2> QED BY <2>7 DEF TableStep, Table!TableNext
  <1>5. CASE PutData(p)
    <2>1. Shared' = Shared /\ (disk' = disk \/ disk' = Shared)
      BY <1>1, <1>5, PutDataShared
    <2> QED BY <2>1 DEF TableStep, Table!TableNext, Table!Flush, Shared
  <1>6. CASE PutInfo(p)
    <2>1. /\ pc[p] = "putInfo" /\ UNCHANGED <<disk, mem>> /\ dirty'[p] = Clean
      BY <1>1, <1>6 DEF PutInfo, TypeInv, TypeOK
    <2>2. writeLocked[p] /\ Honest(p) /\ Synced(p)
      BY <1>1, <2>1, PuttingLocked
    <2>3. Shared = mem[p]
      BY <2>2, WriterHasShared
    <2>4. mem[p] = disk
      <3>1. mem[p].cols = disk.cols
        BY <1>1 DEF UseState, UseStateOf
      <3>2. mem[p] \in Content /\ disk \in Content
        BY <1>1 DEF TypeInv, TypeOK
      <3> QED BY <1>1, <2>1, <3>1, <3>2, SameContent DEF CountStateOf
    <2>5. \A q \in Proc : dirty'[q] = Clean
      BY <1>1, <2>1, <2>2, WriterAlone DEF OthersLeft
    <2>6. Shared' = disk
      BY <2>1, <2>5 DEF SharedRight
    <2> QED BY <2>1, <2>3, <2>4, <2>6 DEF TableStep
  <1>7. ASSUME Gone(p)
        PROVE  TableStep
    <2>1. dirty'[p] = Clean /\ UNCHANGED disk
      BY <1>1, <1>7 DEF Gone, fileVars, TypeInv, TypeOK
    <2>2. CASE dirty[p] = Clean
      BY <1>2, <2>1, <2>2
    <2>3. CASE dirty[p] # Clean
      <3>1. \A q \in Proc : dirty'[q] = Clean
        BY <1>1, <2>1, <2>3, OneWriter DEF OthersLeft
      <3>2. Shared' = disk
        BY <2>1, <3>1 DEF SharedRight
      <3> QED BY <2>1, <3>2 DEF TableStep, Table!TableNext, Table!WriterDies, Shared
    <2> QED BY <2>2, <2>3
  <1>8. CASE LockGranted(p)
    <2>1. UNCHANGED <<disk, dirty>> /\ pc[p] = "lock"
      BY <1>8 DEF LockGranted, fileVars
    <2>2. dirty[p] # Clean => UNCHANGED mem
      BY <1>1, <1>8, <2>1 DEF LockGranted, UpdateStateOf
    <2> QED BY <1>2, <2>1, <2>2
  <1>9. CASE SyncTable(p)
    <2>1. UNCHANGED <<disk, dirty>> /\ dirty[p] = Clean
      BY <1>1, <1>9 DEF SyncTable, fileVars, UpdateStateOf
    <2> QED BY <1>2, <2>1
  <1>10. CASE Opened(p)
    <2>1. UNCHANGED <<disk, dirty>> /\ dirty[p] = Clean
      BY <1>1, <1>10 DEF Opened, fileVars, UpdateStateOf
    <2> QED BY <1>2, <2>1
  <1>11. CASE \/ LockRefused(p) \/ LockTried(p) \/ LockDeadlock(p) \/ Read(p)
              \/ Release(p)
    BY <1>3, <1>11 DEF LockRefused, LockTried, LockDeadlock, Read, Release
  <1>12. CASE Call(p)
    BY <1>3, <1>12 DEF Call, Open, Begin, RequestLock, UserLock, Unlock, Close, Flush
  <1>13. CASE Unlocked(p) /\ call[p].then # "closed"
    <2>1. UNCHANGED <<disk, mem, dirty>>
      BY <1>1, <1>13 DEF Unlocked, UseStateOf, UpdateStateOf, fileVars
    <2> QED BY <1>2, <2>1
  <1>14. ~ColumnKeyword(p) /\ ~AddColumn(p)
    BY <1>1 DEF ColumnKeyword, AddColumn, UseStateOf, UpdateStateOf
  <1> QED BY <1>4, <1>5, <1>6, <1>7, <1>8, <1>9, <1>10, <1>11, <1>12, <1>13, <1>14
          DEF Step, Unlocked, Crash

LEMMA SharedNext ==
    ASSUME SteadyUse
    PROVE  SteadyInv /\ SteadyInv' /\ SharedRight /\ SharedRight' /\ [Next]_vars
              => TableStep
  <1> SUFFICES ASSUME SteadyInv, SteadyInv', SharedRight, SharedRight', [Next]_vars
               PROVE  TableStep
    OBVIOUS
  <1>1. CASE Next
    BY <1>1, SharedStep DEF Next
  <1>2. CASE UNCHANGED vars
    <2>1. UNCHANGED <<disk, mem, dirty>>
      BY <1>2 DEF vars, fileVars, procVars
    <2> QED BY <2>1 DEF TableStep, Shared
  <1> QED BY <1>1, <1>2

\* The processes see one table, whose updates come one after the other, although
\* each works on its own copy; a process that dies takes away only what it had
\* not flushed (PlainTable::lock and putFile, TableSyncData, ColumnSet::resync).
THEOREM TableIsShared ==
    ASSUME SteadyUse
    PROVE  Spec => IsSharedTable
  <1>1. Init => Table!TableInit
    BY DEF Init, Table!TableInit, Table!NewContent, NewContent
  <1>2. TableStep => [Table!TableNext]_Table!tableVars
    BY DEF TableStep, Table!tableVars, Shared
  <1> QED BY <1>1, <1>2, SharedNext, SharedIs, SteadyInvariant, PTL
          DEF Spec, IsSharedTable, Table!TableSpec
=============================================================================
