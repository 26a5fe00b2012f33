---------------------------- MODULE LockFileProofs ----------------------------
(***************************************************************************)
(* LockFile for every set of processes and every length of the request      *)
(* list: type correctness, that the protocol of LockFile::acquire is a use  *)
(* of FileLocker, and with it mutual exclusion.                             *)
(***************************************************************************)
EXTENDS LockFile, SequenceTheorems, WellFoundedInduction, TLAPS

-----------------------------------------------------------------------------
(* The bare lock.                                                            *)

\* The inductive invariant.  Exclusive alone is not inductive: whether a
\* request is granted depends on the kernel's table, not on the flags.
LockerInv == LockerTypeOK /\ KernelExclusive /\ FlagsSound

\* fcntl's answer to a process that asks again for a lock it has: the other
\* locks still permit it.
LEMMA OwnLockAgain ==
    ASSUME LockerInv, NEW p \in Proc, readLocked[p]
    PROVE  CanLock(p, "read") /\ (writeLocked[p] => CanLock(p, "write"))
  <1>1. held[p] \in LockType
    BY DEF LockerInv, LockerTypeOK, FlagsSound, LockType
  <1>2. \A q \in Proc \ {p} : held[q] \in {"none", "read"}
    BY <1>1 DEF LockerInv, LockerTypeOK, KernelExclusive, LockType
  <1>3. CanLock(p, "read")
    BY <1>2 DEF CanLock
  <1>4. writeLocked[p] => CanLock(p, "write")
    BY DEF LockerInv, KernelExclusive, FlagsSound, CanLock
  <1> QED BY <1>3, <1>4

\* A granted request leaves the table and the flags consistent.
LEMMA AcquiredKeeps ==
    ASSUME LockerInv, NEW p \in Proc, NEW type \in LockType, Acquired(p, type)
    PROVE  LockerInv'
  <1>1. CASE StillWriteLocked(p, type)
    <2>1. held[p] = "write" /\ UNCHANGED <<readLocked, writeLocked>>
      BY <1>1 DEF Acquired, StillWriteLocked, LockerInv, FlagsSound
    <2>2. UNCHANGED held
      BY <1>1, <2>1 DEF Acquired, LockerInv, LockerTypeOK
    <2> QED BY <2>1, <2>2 DEF LockerInv, LockerTypeOK, KernelExclusive,
                               FlagsSound
  <1>2. CASE ~StillWriteLocked(p, type)
    <2>1. /\ CanLock(p, type)
          /\ held' = [held EXCEPT ![p] = type]
          /\ readLocked' = [readLocked EXCEPT ![p] = TRUE]
          /\ writeLocked' = [writeLocked EXCEPT ![p] = (type = "write")]
      BY <1>2 DEF Acquired
    <2>2. LockerTypeOK'
      BY <2>1 DEF LockerInv, LockerTypeOK
    <2>3. KernelExclusive'
      BY <2>1 DEF LockerInv, LockerTypeOK, KernelExclusive, CanLock, LockType
    <2>4. FlagsSound'
      BY <2>1 DEF LockerInv, LockerTypeOK, FlagsSound, LockType
    <2> QED BY <2>2, <2>3, <2>4 DEF LockerInv
  <1> QED BY <1>1, <1>2

\* A refused request takes no lock away: what the process held, it still holds
\* and still believes to hold.
LEMMA NotAcquiredKeepsLocks ==
    ASSUME LockerInv, NEW p \in Proc, NEW type \in LockType,
           NotAcquired(p, type)
    PROVE  UNCHANGED lockerVars
  <1>1. ~CanLock(p, type) /\ ~StillWriteLocked(p, type)
    BY DEF NotAcquired, CanAcquire
  <1>2. CASE readLocked[p]
    <2>1. CanLock(p, "read") /\ type = "write" /\ ~writeLocked[p]
      BY <1>1, <1>2, OwnLockAgain DEF LockType
    <2>2. held[p] = "read" /\ ReadLockLeft(p, type)
      BY <1>2, <2>1 DEF ReadLockLeft, LockerInv, LockerTypeOK, FlagsSound,
                        LockType
    <2> QED BY <1>2, <2>1, <2>2
            DEF NotAcquired, LockerInv, LockerTypeOK, lockerVars
  <1>3. CASE ~readLocked[p]
    <2>1. ~writeLocked[p]
      BY <1>3 DEF LockerInv, FlagsSound
    <2> QED BY <1>3, <2>1
            DEF NotAcquired, ReadLockLeft, LockerInv, LockerTypeOK, lockerVars
  <1> QED BY <1>2, <1>3

LEMMA ReleasedKeeps ==
    ASSUME LockerInv, NEW p \in Proc, Released(p)
    PROVE  LockerInv'
  BY DEF LockerInv, LockerTypeOK, KernelExclusive, FlagsSound, Released

LEMMA StutterKeeps ==
    ASSUME LockerInv, UNCHANGED lockerVars
    PROVE  LockerInv'
  BY DEF LockerInv, LockerTypeOK, KernelExclusive, FlagsSound, lockerVars

\* LockerInv is an invariant of every protocol with one FileLocker in each
\* process (FileLocker::acquire and release).
THEOREM LockerInvariant == LockerSpec => []LockerInv
  <1>1. LockerInit => LockerInv
    BY DEF LockerInit, LockerInv, LockerTypeOK, KernelExclusive, FlagsSound
  <1>2. LockerInv /\ [LockerNext]_lockerVars => LockerInv'
    <2> SUFFICES ASSUME LockerInv, [LockerNext]_lockerVars
                 PROVE  LockerInv'
      OBVIOUS
    <2>1. CASE LockerNext
      <3>1. PICK p \in Proc :
              \/ \E type \in LockType : Acquired(p, type) \/ NotAcquired(p, type)
              \/ Released(p)
        BY <2>1 DEF LockerNext
      <3>2. ASSUME NEW type \in LockType, Acquired(p, type)
            PROVE  LockerInv'
        BY <3>2, AcquiredKeeps
      <3>3. ASSUME NEW type \in LockType, NotAcquired(p, type)
            PROVE  LockerInv'
        BY <3>3, NotAcquiredKeepsLocks, StutterKeeps
      <3>4. CASE Released(p)
        BY <3>4, ReleasedKeeps
      <3> QED BY <3>1, <3>2, <3>3, <3>4
    <2>2. CASE UNCHANGED lockerVars
      BY <2>2, StutterKeeps
    <2> QED BY <2>1, <2>2
  <1> QED BY <1>1, <1>2, PTL DEF LockerSpec

LEMMA InvExcludes == LockerInv => Exclusive
  BY DEF LockerInv, KernelExclusive, FlagsSound, Exclusive

\* FileLocker::hasLock tells the truth: it answers True exactly when the kernel
\* holds such a lock for the process.
THEOREM FlagsAreSound == LockerSpec => []FlagsSound
  <1>1. LockerInv => FlagsSound
    BY DEF LockerInv
  <1> QED BY <1>1, LockerInvariant, PTL

\* When hasLock(Write) is True in one process, hasLock(Read) is False in all
\* other processes.
THEOREM WritersExclude == LockerSpec => []Exclusive
  BY LockerInvariant, InvExcludes, PTL

\* A process in acquire has a call of LockFile::acquire to finish: without
\* this TypeOK is not inductive, because a second call is taken from the tail.
CallsLeft ==
    \A p \in Proc : pc[p] \notin {"closed", "idle"} => call[p].rounds # <<>>

TypeInv == TypeOK /\ CallsLeft

-----------------------------------------------------------------------------
(* The request list.                                                        *)

\* The list never outgrows its place in the lock file.
LEMMA WithRequestTyped ==
    ASSUME NEW list \in RequestList, NEW p \in Proc
    PROVE  WithRequest(list, p) \in RequestList
  <1>0. list \in Seq(Proc) /\ Len(list) \in Nat /\ Len(list) <= NrReqId
    BY DEF RequestList
  <1>1. NrReqId \in Nat /\ NrReqId >= 1
    BY LockFileAssumption
  <1>2. CASE Len(list) >= NrReqId
    <2>1. Front(list) \in Seq(Proc) /\ Len(Front(list)) = Len(list) - 1
      <3>1. \A i \in 1 .. Len(list) - 1 : list[i] \in Proc
        BY <1>0, ElementOfSeq
      <3>2. 1 \in Int /\ Len(list) - 1 \in Int
        BY <1>0
      <3>3. /\ SubSeq(list, 1, Len(list) - 1) \in Seq(Proc)
            /\ Len(SubSeq(list, 1, Len(list) - 1))
                 = IF 1 <= Len(list) - 1 THEN Len(list) - 1 - 1 + 1 ELSE 0
        BY <3>1, <3>2, SubSeqProperties
      <3>4. Front(list) = SubSeq(list, 1, Len(list) - 1)
        BY DEF Front
      <3>5. Len(Front(list)) = Len(list) - 1
        <4> DEFINE n == Len(list)
        <4>1. n \in Nat /\ n >= 1
          BY <1>0, <1>1, <1>2
        <4>2. Len(Front(list)) = IF 1 <= n - 1 THEN n - 1 - 1 + 1 ELSE 0
          BY <3>3, <3>4
        <4> HIDE DEF n
        <4>3. Len(Front(list)) = n - 1
          BY <4>1, <4>2
        <4> QED BY <4>3 DEF n
      <3> QED BY <3>3, <3>4, <3>5
    <2> QED BY <1>0, <1>1, <1>2, <2>1 DEF WithRequest, RequestList
  <1>3. CASE Len(list) < NrReqId
    <2>1. ~(Len(list) >= NrReqId)
      BY <1>0, <1>1, <1>3
    <2> QED BY <1>0, <1>1, <1>3, <2>1 DEF WithRequest, RequestList
  <1> QED BY <1>0, <1>1, <1>2, <1>3

LEMMA WithoutRequestTyped ==
    ASSUME NEW list \in RequestList, NEW p \in Proc
    PROVE  WithoutRequest(list, p) \in RequestList
  <1>0. list \in Seq(Proc) /\ Len(list) \in Nat /\ Len(list) <= NrReqId
    BY DEF RequestList
  <1>1. NrReqId \in Nat
    BY LockFileAssumption
  <1>2. CASE p \notin Range(list)
    BY <1>2 DEF WithoutRequest
  <1>3. CASE p \in Range(list)
    <2> DEFINE First(j) == list[j] = p /\ \A k \in 1 .. (j - 1) : list[k] # p
               i == CHOOSE j \in 1 .. Len(list) : First(j)
    <2>1. WithoutRequest(list, p) = SubSeq(list, i, Len(list) - 1)
      BY <1>3 DEF WithoutRequest
    <2>2. \E j \in 1 .. Len(list) : First(j)
      <3> DEFINE Hits == {j \in 1 .. Len(list) : list[j] = p}
      <3>1. Hits # {} /\ Hits \subseteq Nat
        BY <1>0, <1>3 DEF Range
      <3>2. PICK j \in Hits : \A k \in Hits : <<k, j>> \notin OpToRel(<, Nat)
        BY <3>1, WFMin, NatLessThanWellFounded, Zenon
      <3>3. \A k \in Hits : ~(k < j)
        BY <3>1, <3>2, Zenon DEF OpToRel
      <3> QED BY <1>0, <3>3
    <2>3. i \in 1 .. Len(list)
      BY <2>2
    <2> HIDE DEF i
    <2>4. /\ SubSeq(list, i, Len(list) - 1) \in Seq(Proc)
          /\ Len(SubSeq(list, i, Len(list) - 1)) <= Len(list)
      <3>1. \A k \in i .. Len(list) - 1 : list[k] \in Proc
        BY <1>0, <2>3, ElementOfSeq
      <3> QED BY <1>0, <2>3, <3>1, SubSeqProperties
    <2> QED BY <1>0, <1>1, <2>1, <2>4 DEF RequestList
  <1> QED BY <1>2, <1>3
-----------------------------------------------------------------------------
(* Type correctness, one lemma for the calls and one for each shared part.  *)

LEMMA RoundsTyped ==
    ASSUME NEW patience \in Patience \cup {"permanentOnce", "permanentWait"}
    PROVE  Rounds(patience) \in RoundsValue \ {<<>>}
  <1>1. patience \in {"once", "bounded", "long", "forever", "permanentOnce",
                      "permanentWait"}
    BY LockFileAssumption
  <1>2. CASE patience = "once"
    BY <1>2 DEF Rounds, RoundsValue
  <1>3. CASE patience = "bounded"
    BY <1>3 DEF Rounds, RoundsValue
  <1>4. CASE patience = "long"
    BY <1>4 DEF Rounds, RoundsValue
  <1>5. CASE patience = "forever"
    BY <1>5 DEF Rounds, RoundsValue
  <1>6. CASE patience = "permanentOnce"
    BY <1>6 DEF Rounds, RoundsValue
  <1>7. CASE patience = "permanentWait"
    BY <1>7 DEF Rounds, RoundsValue
  <1> QED BY <1>1, <1>2, <1>3, <1>4, <1>5, <1>6, <1>7

\* TableLockData::acquire has at most one call of LockFile::acquire left after
\* the first.
LEMMA TailOfRounds ==
    ASSUME NEW rounds \in RoundsValue \ {<<>>}, Len(rounds) # 1
    PROVE  Tail(rounds) \in RoundsValue \ {<<>>}
  <1>1. rounds \in {<<2, 0>>, <<2, 2>>}
    BY DEF RoundsValue
  <1>2. Tail(<<2, 0>>) = <<0>> /\ Tail(<<2, 2>>) = <<2>>
    OBVIOUS
  <1>3. <<0>> \in RoundsValue \ {<<>>} /\ <<2>> \in RoundsValue \ {<<>>}
    BY DEF RoundsValue
  <1> QED BY <1>1, <1>2, <1>3

\* The updates of a call that the actions make.
LEMMA CallUpdates ==
    ASSUME NEW c \in CallValue, NEW b \in BOOLEAN
    PROVE  /\ Tail(c.rounds) \in RoundsValue
                 => NextRound(c) \in CallValue
           /\ NextRound(c).rounds = Tail(c.rounds)
           /\ [c EXCEPT !.succ = b] \in CallValue
           /\ [c EXCEPT !.succ = b].rounds = c.rounds
           /\ [c EXCEPT !.added = b] \in CallValue
           /\ [c EXCEPT !.added = b].rounds = c.rounds
  BY DEF CallValue, NextRound

LEMMA NoCallTyped == NoCall \in CallValue
  BY DEF NoCall, CallValue, RoundsValue, LockType

\* What every step has to establish of pc and call.
ProcTyped ==
    /\ pc \in [Proc -> PcValue]
    /\ call \in [Proc -> CallValue]
    /\ CallsLeft

\* A step of p that gives it a call of the right type, and that leaves it idle
\* or with a round to go, keeps the types.
LEMMA StepTyped ==
    ASSUME ProcTyped, NEW p \in Proc, NEW label \in PcValue,
           NEW c \in CallValue,
           pc' = [pc EXCEPT ![p] = label], call' = [call EXCEPT ![p] = c],
           label \notin {"closed", "idle"} => c.rounds # <<>>
    PROVE  ProcTyped'
  BY DEF ProcTyped, CallsLeft

\* A return leaves the process idle, or with a call to finish.
LEMMA ReturnTyped ==
    ASSUME ProcTyped, NEW p \in Proc, NEW succ \in BOOLEAN, Return(p, succ),
           pc[p] \notin {"closed", "idle"}
    PROVE  ProcTyped'
  <1>0. call[p] \in CallValue /\ call[p].rounds \in RoundsValue \ {<<>>}
    BY DEF ProcTyped, CallsLeft, CallValue
  <1>1. CASE succ \/ Len(call[p].rounds) = 1
    BY <1>1, NoCallTyped, StepTyped DEF Return, Goto, PcValue
  <1>2. CASE ~(succ \/ Len(call[p].rounds) = 1)
    <2>1. Tail(call[p].rounds) \in RoundsValue \ {<<>>}
      BY <1>0, <1>2, TailOfRounds
    <2>2. NextRound(call[p]) \in CallValue /\ NextRound(call[p]).rounds # <<>>
      BY <1>0, <2>1, CallUpdates
    <2>3. /\ pc' = [pc EXCEPT ![p] = "try"]
          /\ call' = [call EXCEPT ![p] = NextRound(call[p])]
      BY <1>2 DEF Return, Goto
    <2> QED BY <2>2, <2>3, StepTyped DEF PcValue
  <1> QED BY <1>1, <1>2

LEMMA AnswerTyped ==
    ASSUME ProcTyped, NEW p \in Proc, NEW succ \in BOOLEAN, Answer(p, succ),
           pc[p] \notin {"closed", "idle"}
    PROVE  ProcTyped'
  <1>1. CASE (succ /\ call[p].info) \/ call[p].added
    <2> DEFINE c == [call[p] EXCEPT !.succ = succ]
               label == IF succ /\ call[p].info THEN "getInfo" ELSE "getReqId"
    <2>1. call[p] \in CallValue /\ call[p].rounds \in RoundsValue \ {<<>>}
      BY DEF ProcTyped, CallsLeft, CallValue
    <2>2. c \in CallValue /\ c.rounds # <<>>
      BY <2>1, CallUpdates
    <2>3. pc' = [pc EXCEPT ![p] = label] /\ call' = [call EXCEPT ![p] = c]
      BY <1>1 DEF Answer, Goto, ProcTyped
    <2>4. label \in PcValue
      BY DEF PcValue
    <2> HIDE DEF c, label
    <2> QED BY <2>2, <2>3, <2>4, StepTyped
  <1>2. CASE ~((succ /\ call[p].info) \/ call[p].added)
    BY <1>2, ReturnTyped DEF Answer
  <1> QED BY <1>1, <1>2

\* Every fcntl operation keeps the types of the lock.
LEMMA LockerTyped ==
    ASSUME LockerTypeOK, NEW p \in Proc, NEW type \in LockType,
           Acquired(p, type) \/ NotAcquired(p, type) \/ Released(p)
    PROVE  LockerTypeOK'
  BY DEF LockerTypeOK, LockType, Acquired, NotAcquired, ReadLockLeft, CanLock,
         Released

\* A step that leaves the lock alone keeps its types, too.
LEMMA LockerUntouched ==
    ASSUME LockerTypeOK, UNCHANGED lockerVars
    PROVE  LockerTypeOK'
  BY DEF LockerTypeOK, lockerVars

-----------------------------------------------------------------------------
(* Type correctness of the protocol.                                        *)

ListTyped == reqFile \in RequestList /\ reqId \in [Proc -> RequestList]

LEMMA InvParts == TypeInv <=> LockerTypeOK /\ ListTyped /\ ProcTyped
  BY DEF TypeInv, TypeOK, ListTyped, ProcTyped

\* The steps in which p asks fcntl, and how each leaves the other variables.
LEMMA AskingTyped ==
    ASSUME LockerTypeOK, ListTyped, ProcTyped, NEW p \in Proc,
           TryGranted(p) \/ TryRefused(p) \/ WaitGranted(p) \/ WaitGivesUp(p)
             \/ WaitDeadlock(p)
    PROVE  LockerTypeOK' /\ ListTyped' /\ ProcTyped'
  <1>1. call[p] \in CallValue /\ call[p].type \in LockType
    BY DEF ProcTyped, CallValue
  <1>2. pc[p] \notin {"closed", "idle"}
    BY DEF TryGranted, TryRefused, WaitGranted, WaitGivesUp, WaitDeadlock
  <1>3. ListTyped'
    BY DEF ListTyped, listVars, TryGranted, TryRefused, WaitGranted,
           WaitGivesUp, WaitDeadlock
  <1>4. Acquired(p, call[p].type) \/ NotAcquired(p, call[p].type)
    BY DEF TryGranted, TryRefused, WaitGranted, WaitGivesUp, WaitDeadlock
  <1>5. LockerTypeOK'
    BY <1>1, <1>4, LockerTyped
  <1>6. ProcTyped'
    <2>1. \/ Answer(p, TRUE)
          \/ Answer(p, FALSE)
          \/ Goto(p, "add") /\ UNCHANGED call
      BY DEF TryGranted, TryRefused, WaitGranted, WaitGivesUp, WaitDeadlock
    <2>2. CASE Answer(p, TRUE)
      BY <1>2, <2>2, AnswerTyped
    <2>3. CASE Answer(p, FALSE)
      BY <1>2, <2>3, AnswerTyped
    <2>4. CASE Goto(p, "add") /\ UNCHANGED call
      BY <1>2, <2>4 DEF Goto, ProcTyped, CallsLeft, PcValue
    <2> QED BY <2>1, <2>2, <2>3, <2>4
  <1> QED BY <1>3, <1>5, <1>6

\* The steps that read or write the request list.
LEMMA ListStepsTyped ==
    ASSUME LockerTypeOK, ListTyped, ProcTyped, NEW p \in Proc,
           AddReqId(p) \/ GetInfo(p) \/ GetReqId(p) \/ RemoveReqId(p)
    PROVE  LockerTypeOK' /\ ListTyped' /\ ProcTyped'
  <1>0. /\ reqFile \in RequestList /\ reqId[p] \in RequestList
        /\ call[p] \in CallValue
        /\ call[p].succ \in BOOLEAN
        /\ pc[p] \notin {"closed", "idle"}
    BY DEF ListTyped, ProcTyped, CallValue, AddReqId, GetInfo, GetReqId,
           RemoveReqId
  <1>1. LockerTypeOK'
    BY LockerUntouched DEF AddReqId, GetInfo, GetReqId, RemoveReqId
  <1>2. CASE AddReqId(p)
    <2>1. ListTyped'
      BY <1>0, <1>2, WithRequestTyped DEF ListTyped, AddReqId
    <2>2. ProcTyped'
      <3> DEFINE c == [call[p] EXCEPT !.added = TRUE]
      <3>1. c \in CallValue /\ c.rounds = call[p].rounds
        BY <1>0, CallUpdates
      <3>2. call[p].rounds # <<>>
        BY <1>0 DEF ProcTyped, CallsLeft
      <3>3. pc' = [pc EXCEPT ![p] = "wait"] /\ call' = [call EXCEPT ![p] = c]
        BY <1>2 DEF AddReqId, Goto
      <3> HIDE DEF c
      <3> QED BY <3>1, <3>2, <3>3, StepTyped DEF PcValue
    <2> QED BY <1>1, <2>1, <2>2
  <1>3. CASE GetInfo(p)
    <2>1. ListTyped'
      BY <1>0, <1>3 DEF ListTyped, GetInfo
    <2>2. ProcTyped'
      <3>1. CASE call[p].added
        BY <1>0, <1>3, <3>1 DEF GetInfo, Goto, ProcTyped, CallsLeft, PcValue
      <3>2. CASE ~call[p].added
        BY <1>0, <1>3, <3>2, ReturnTyped DEF GetInfo
      <3> QED BY <3>1, <3>2
    <2> QED BY <1>1, <2>1, <2>2
  <1>4. CASE GetReqId(p)
    <2>1. ListTyped'
      BY <1>4 DEF ListTyped, GetReqId, listVars
    <2>2. ProcTyped'
      BY <1>0, <1>4 DEF GetReqId, Goto, ProcTyped, CallsLeft, PcValue
    <2> QED BY <1>1, <2>1, <2>2
  <1>5. CASE RemoveReqId(p)
    <2>1. ListTyped'
      BY <1>0, <1>5, WithoutRequestTyped DEF ListTyped, RemoveReqId
    <2>2. ProcTyped'
      BY <1>0, <1>5, ReturnTyped DEF RemoveReqId
    <2> QED BY <1>1, <2>1, <2>2
  <1> QED BY <1>2, <1>3, <1>4, <1>5

\* Opening, closing, dying, asking and releasing.
LEMMA OtherStepsTyped ==
    ASSUME LockerTypeOK, ListTyped, ProcTyped, NEW p \in Proc,
           \/ Open(p) \/ Leave(p) \/ RequestAny(p) \/ Release(p)
    PROVE  LockerTypeOK' /\ ListTyped' /\ ProcTyped'
  <1>0. <<>> \in RequestList
    BY LockFileAssumption DEF RequestList
  <1>1. CASE Open(p)
    <2>1. LockerTypeOK'
      BY <1>1, LockerUntouched DEF Open
    <2>2. ListTyped'
      BY <1>0, <1>1 DEF Open, ListTyped
    <2>3. ProcTyped'
      BY <1>1 DEF Open, ProcTyped, CallsLeft, Goto, PcValue
    <2> QED BY <2>1, <2>2, <2>3
  <1>2. CASE Leave(p)
    <2>1. LockerTypeOK'
      BY <1>2, LockerTyped DEF Leave, LockType
    <2>2. ListTyped'
      BY <1>2 DEF Leave, listVars, ListTyped
    <2>3. ProcTyped'
      BY <1>2, NoCallTyped, StepTyped DEF Leave, Goto, PcValue
    <2> QED BY <2>1, <2>2, <2>3
  <1>3. CASE RequestAny(p)
    <2>1. PICK type \in Types,
               patience \in Patience \cup {"permanentOnce", "permanentWait"} :
            Request(p, type, patience)
      BY <1>3, Zenon DEF RequestAny
    <2>2. LockerTypeOK' /\ ListTyped'
      BY <2>1, LockerUntouched DEF Request, listVars, ListTyped
    <2>3. ProcTyped'
      <3> DEFINE c == [type |-> type, rounds |-> Rounds(patience),
                       info |-> patience \in Patience,
                       added |-> FALSE, succ |-> FALSE]
      <3>1. Rounds(patience) \in RoundsValue /\ Rounds(patience) # <<>>
        BY RoundsTyped
      <3>2. type \in LockType /\ (patience \in Patience) \in BOOLEAN
        BY LockFileAssumption
      <3>3. c \in CallValue /\ c.rounds # <<>>
        BY <3>1, <3>2 DEF CallValue
      <3>4. pc' = [pc EXCEPT ![p] = "try"] /\ call' = [call EXCEPT ![p] = c]
        BY <2>1 DEF Request, Goto
      <3> HIDE DEF c
      <3> QED BY <3>3, <3>4, StepTyped DEF PcValue
    <2> QED BY <2>2, <2>3
  <1>4. CASE Release(p)
    <2>1. LockerTypeOK'
      BY <1>4, LockerTyped DEF Release, LockType
    <2> QED BY <1>4, <2>1
            DEF Release, listVars, ListTyped, ProcTyped, CallsLeft
  <1> QED BY <1>1, <1>2, <1>3, <1>4

\* The actions by the part of LockFile they belong to.
LEMMA NextParts ==
    ASSUME Next
    PROVE  \E p \in Proc :
             \/ \/ TryGranted(p) \/ TryRefused(p) \/ WaitGranted(p)
                \/ WaitGivesUp(p) \/ WaitDeadlock(p)
             \/ AddReqId(p) \/ GetInfo(p) \/ GetReqId(p) \/ RemoveReqId(p)
             \/ Open(p) \/ Leave(p) \/ RequestAny(p) \/ Release(p)
             \/ Block(p)
  BY Zenon DEF Next, Acquire, Close, Crash, Unlock, AutoRelease

\* All variables have their types in every reachable state, for every set of
\* processes and every NrReqId; the request list fits its place in the file.
THEOREM TypeCorrect == Spec => []TypeOK
  <1>1. Init => TypeInv
    <2>1. <<>> \in RequestList
      BY LockFileAssumption DEF RequestList
    <2> QED BY <2>1, NoCallTyped
            DEF Init, LockerInit, TypeInv, TypeOK, LockerTypeOK, CallsLeft,
                PcValue
  <1>2. TypeInv /\ [Next]_vars => TypeInv'
    <2> SUFFICES ASSUME TypeInv, [Next]_vars
                 PROVE  LockerTypeOK' /\ ListTyped' /\ ProcTyped'
      BY DEF TypeInv, TypeOK, ListTyped, ProcTyped
    <2>0. LockerTypeOK /\ ListTyped /\ ProcTyped
      BY InvParts
    <2>1. CASE Next
      <3>1. PICK p \in Proc :
             \/ \/ TryGranted(p) \/ TryRefused(p) \/ WaitGranted(p)
                \/ WaitGivesUp(p) \/ WaitDeadlock(p)
             \/ AddReqId(p) \/ GetInfo(p) \/ GetReqId(p) \/ RemoveReqId(p)
             \/ Open(p) \/ Leave(p) \/ RequestAny(p) \/ Release(p)
             \/ Block(p)
        BY <2>1, NextParts
      <3>2. CASE Block(p)
        <4>1. LockerTypeOK' /\ ListTyped'
          BY <2>0, <3>2, LockerUntouched DEF Block, listVars, ListTyped
        <4>2. ProcTyped'
          BY <2>0, <3>2 DEF Block, Goto, ProcTyped, CallsLeft, PcValue
        <4> QED BY <4>1, <4>2
      <3> QED BY <2>0, <3>1, <3>2, AskingTyped, ListStepsTyped, OtherStepsTyped
    <2>2. CASE UNCHANGED vars
      BY <2>0, <2>2, LockerUntouched
         DEF vars, listVars, ListTyped, ProcTyped, CallsLeft
    <2> QED BY <2>1, <2>2
  <1>3. TypeInv => TypeOK
    BY DEF TypeInv
  <1> QED BY <1>1, <1>2, <1>3, PTL DEF Spec

-----------------------------------------------------------------------------
(* LockFile uses FileLocker as it is meant to be used.                      *)

LEMMA StepIsLockerStep ==
    ASSUME TypeOK, [Next]_vars
    PROVE  [LockerNext]_lockerVars
  <1>1. CASE Next
    <2>1. PICK p \in Proc :
             \/ \/ TryGranted(p) \/ TryRefused(p) \/ WaitGranted(p)
                \/ WaitGivesUp(p) \/ WaitDeadlock(p)
             \/ AddReqId(p) \/ GetInfo(p) \/ GetReqId(p) \/ RemoveReqId(p)
             \/ Open(p) \/ Leave(p) \/ RequestAny(p) \/ Release(p)
             \/ Block(p)
      BY <1>1, NextParts
    <2>2. CASE \/ TryGranted(p) \/ TryRefused(p) \/ WaitGranted(p)
               \/ WaitGivesUp(p) \/ WaitDeadlock(p)
      <3>1. call[p].type \in LockType
        BY DEF TypeOK, CallValue
      <3>2. Acquired(p, call[p].type) \/ NotAcquired(p, call[p].type)
        BY <2>2 DEF TryGranted, TryRefused, WaitGranted, WaitGivesUp,
                    WaitDeadlock
      <3> QED BY <3>1, <3>2 DEF LockerNext
    <2>3. CASE Leave(p) \/ Release(p)
      BY <2>3 DEF Leave, Release, LockerNext
    <2>4. CASE \/ AddReqId(p) \/ GetInfo(p) \/ GetReqId(p) \/ RemoveReqId(p)
               \/ Open(p) \/ RequestAny(p) \/ Block(p)
      BY <2>4 DEF AddReqId, GetInfo, GetReqId, RemoveReqId, Open, RequestAny,
                  Request, Block
    <2> QED BY <2>1, <2>2, <2>3, <2>4
  <1>2. CASE UNCHANGED vars
    BY <1>2 DEF vars
  <1> QED BY <1>1, <1>2

\* Whatever the order of the attempts, list updates, crashes and EDEADLK
\* refusals: the lock is only changed by FileLocker::acquire and release.
LEMMA LockFileImplementsLocker == Spec => LockerSpec
  <1>1. Init => LockerInit
    BY DEF Init
  <1> QED BY <1>1, StepIsLockerStep, TypeCorrect, PTL DEF Spec, LockerSpec

\* Between the processes of LockFile, hasLock(Write) excludes hasLock(Read) and
\* the flags are what the kernel holds.
THEOREM LockFileExcludes == Spec => []Exclusive /\ []FlagsSound
  BY LockFileImplementsLocker, WritersExclude, FlagsAreSound, PTL

\* A process that asks for the write lock, waits, gives up or is refused with
\* EDEADLK keeps the read lock it had (LockFile::acquire, FileLocker::acquire).
THEOREM AskingIsHarmless == Spec => AskingKeepsReadLock
  <1> DEFINE Kept == \A p \in Proc : readLocked[p] /\ ~readLocked'[p]
                                       => pc[p] = "idle" \/ pc'[p] = "closed"
  <1>1. TypeOK /\ LockerInv /\ [Next]_vars => Kept
    <2> SUFFICES ASSUME TypeOK, LockerInv, Next,
                        NEW q \in Proc, readLocked[q], ~readLocked'[q]
                 PROVE  pc[q] = "idle" \/ pc'[q] = "closed"
      BY DEF vars, lockerVars
    <2>1. PICK p \in Proc :
             \/ \/ TryGranted(p) \/ TryRefused(p) \/ WaitGranted(p)
                \/ WaitGivesUp(p) \/ WaitDeadlock(p)
             \/ AddReqId(p) \/ GetInfo(p) \/ GetReqId(p) \/ RemoveReqId(p)
             \/ Open(p) \/ Leave(p) \/ RequestAny(p) \/ Release(p)
             \/ Block(p)
      BY NextParts
    <2>2. readLocked \in [Proc -> BOOLEAN] /\ pc \in [Proc -> PcValue]
      BY DEF TypeOK, LockerTypeOK
    <2>3. CASE \/ TryGranted(p) \/ TryRefused(p) \/ WaitGranted(p)
               \/ WaitGivesUp(p) \/ WaitDeadlock(p)
      <3>1. call[p].type \in LockType
        BY DEF TypeOK, CallValue
      <3>2. Acquired(p, call[p].type) \/ NotAcquired(p, call[p].type)
        BY <2>3 DEF TryGranted, TryRefused, WaitGranted, WaitGivesUp,
                    WaitDeadlock
      <3>3. CASE Acquired(p, call[p].type)
        BY <2>2, <3>3 DEF Acquired
      <3>4. CASE NotAcquired(p, call[p].type)
        BY <3>1, <3>4, NotAcquiredKeepsLocks DEF lockerVars
      <3> QED BY <3>2, <3>3, <3>4
    <2>4. CASE Leave(p)
      BY <2>2, <2>4 DEF Leave, Released, Goto
    <2>5. CASE Release(p)
      BY <2>2, <2>5 DEF Release, Released
    <2>6. CASE \/ AddReqId(p) \/ GetInfo(p) \/ GetReqId(p) \/ RemoveReqId(p)
               \/ Open(p) \/ RequestAny(p) \/ Block(p)
      BY <2>6 DEF AddReqId, GetInfo, GetReqId, RemoveReqId, Open, RequestAny,
                  Request, Block, lockerVars
    <2> QED BY <2>1, <2>3, <2>4, <2>5, <2>6
  <1>2. Spec => []LockerInv
    BY LockFileImplementsLocker, LockerInvariant, PTL
  <1>3. Spec => [][Kept]_vars
    BY <1>1, <1>2, TypeCorrect, PTL DEF Spec
  <1> QED BY <1>3 DEF AskingKeepsReadLock
=============================================================================
