------------------------------ MODULE LockFile ------------------------------
(***************************************************************************)
(* casa/IO/LockFile.cc and tables/Tables/TableLockData.cc: how processes    *)
(* acquire and release the lock of a table, and how the list of requests    *)
(* in table.lock tells the holder that somebody waits.  Each read or write  *)
(* of the lock file, and each fcntl call, is a step of its own: between     *)
(* two of them any other process may run.                                   *)
(***************************************************************************)
EXTENDS FileLocker, SequencesExt

CONSTANTS
    NrReqId,     \* NRREQID, the entries the request list has room for
    Types,       \* the lock types the processes ask for
    Patience,    \* how long a process that is not permanent may wait
    Permanent,   \* the processes that open with PermanentLocking(Wait)
    AutoLocked,  \* the processes that open with AutoLocking
    MayCrash     \* whether a process may die at any moment

ASSUME LockFileAssumption ==
    /\ NrReqId \in Nat \ {0}
    /\ Types \subseteq LockType
    /\ Patience \subseteq {"once", "bounded", "long", "forever"}
    /\ Permanent \subseteq Proc
    /\ AutoLocked \subseteq Proc \ Permanent
    /\ MayCrash \in BOOLEAN

VARIABLES
    reqFile,     \* the request list in the lock file
    reqId,       \* LockFile::itsReqId, each process's copy of it
    pc,          \* where each process is in acquire
    call         \* the arguments and locals of that call

listVars == <<reqFile, reqId>>
vars == <<lockerVars, listVars, pc, call>>

PcValue == {"closed", "idle", "try", "add", "wait", "blocked", "getInfo",
            "getReqId", "remove"}

RequestList == {list \in Seq(Proc) : Len(list) <= NrReqId}

\* The attempts TableLockData::acquire and makeLock ask of LockFile::acquire,
\* one call after the other; 0 waits for ever.  2 stands for any number of
\* attempts above 1: the pauses between them are the other processes' steps.
Rounds(patience) ==
    CASE patience = "once"      -> <<1>>
      [] patience = "bounded"   -> <<2>>
      [] patience = "long"      -> <<2, 2>>
      [] patience = "forever"   -> <<2, 0>>
      [] patience = "permanentOnce" -> <<1>>
      [] patience = "permanentWait" -> <<0>>

NoCall == [type |-> "read", rounds |-> <<>>, info |-> FALSE,
           added |-> FALSE, succ |-> FALSE]

RoundsValue == {<<>>, <<0>>, <<1>>, <<2>>, <<2, 0>>, <<2, 2>>}

CallValue == [type : LockType, rounds : RoundsValue,
              info : BOOLEAN, added : BOOLEAN, succ : BOOLEAN]

TypeOK ==
    /\ LockerTypeOK
    /\ reqFile \in RequestList
    /\ reqId \in [Proc -> RequestList]
    /\ pc \in [Proc -> PcValue]
    /\ call \in [Proc -> CallValue]

Init ==
    /\ LockerInit
    /\ reqFile = <<>>
    /\ reqId = [p \in Proc |-> <<>>]
    /\ pc = [p \in Proc |-> "closed"]
    /\ call = [p \in Proc |-> NoCall]

Goto(p, label) == pc' = [pc EXCEPT ![p] = label]

-----------------------------------------------------------------------------
(* The request list.                                                        *)

\* As it would be with the limit tested one too late.
WithRequestUnbounded(list, p) ==
    Append(IF Len(list) > NrReqId THEN Front(list) ELSE list, p)

\* addReqId: p becomes the last entry; in a full list it replaces the last.
WithRequest(list, p) ==
    Append(IF Len(list) >= NrReqId THEN Front(list) ELSE list, p)

\* removeReqId: with p's first entry at i, nr - i entries are kept.  They are
\* copied from entry i itself, so the entry that is lost is the last one.
WithoutRequest(list, p) ==
    IF p \in Range(list)
    THEN LET i == CHOOSE j \in 1 .. Len(list) :
                      list[j] = p /\ \A k \in 1 .. (j - 1) : list[k] # p
         IN  SubSeq(list, i, Len(list) - 1)
    ELSE list

\* getNrReqId: what LockFile::inspect reports once its interval has passed.
Requested == reqFile # <<>>

-----------------------------------------------------------------------------
(* Opening the table's lock file and leaving it.                            *)

Open(p) ==
    /\ pc[p] = "closed"
    /\ reqId' = [reqId EXCEPT ![p] = <<>>]
    /\ Goto(p, "idle")
    /\ UNCHANGED <<lockerVars, reqFile, call>>

\* The kernel drops the locks of the process, its FileLocker is gone.
Leave(p) ==
    /\ Released(p)
    /\ call' = [call EXCEPT ![p] = NoCall]
    /\ Goto(p, "closed")
    /\ UNCHANGED listVars

Close(p) == pc[p] = "idle" /\ Leave(p)

\* A process dies; what it wrote in the request list stays there.
Crash(p) == MayCrash /\ pc[p] # "closed" /\ Leave(p)

-----------------------------------------------------------------------------
(* Acquiring a lock.                                                        *)

Request(p, type, patience) ==
    /\ pc[p] = "idle"
    /\ call' = [call EXCEPT ![p] = [type |-> type, rounds |-> Rounds(patience),
                                    info |-> patience \in Patience,
                                    added |-> FALSE, succ |-> FALSE]]
    /\ Goto(p, "try")
    /\ UNCHANGED <<lockerVars, listVars>>

NextRound(c) ==
    [c EXCEPT !.rounds = Tail(@), !.added = FALSE, !.succ = FALSE]

\* A call of LockFile::acquire that has nothing more to do returns; after a
\* refusal TableLockData::acquire makes its second call, if there is one.
Return(p, succ) ==
    IF succ \/ Len(call[p].rounds) = 1
    THEN /\ Goto(p, "idle")
         /\ call' = [call EXCEPT ![p] = NoCall]
    ELSE /\ Goto(p, "try")
         /\ call' = [call EXCEPT ![p] = NextRound(@)]

\* What follows the answer to the lock request: the list is read if the
\* lock's information is wanted, or if an entry has to be removed.
Answer(p, succ) ==
    IF \/ succ /\ call[p].info
       \/ call[p].added
    THEN /\ Goto(p, IF succ /\ call[p].info THEN "getInfo" ELSE "getReqId")
         /\ call' = [call EXCEPT ![p].succ = succ]
    ELSE Return(p, succ)

TryGranted(p) ==
    /\ pc[p] = "try"
    /\ Acquired(p, call[p].type)
    /\ Answer(p, TRUE)
    /\ UNCHANGED listVars

TryRefused(p) ==
    /\ pc[p] = "try"
    /\ NotAcquired(p, call[p].type)
    /\ IF Head(call[p].rounds) = 1
       THEN Answer(p, FALSE)
       ELSE Goto(p, "add") /\ UNCHANGED call
    /\ UNCHANGED listVars

AddReqId(p) ==
    /\ pc[p] = "add"
    /\ reqId' = [reqId EXCEPT ![p] = WithRequest(@, p)]
    /\ reqFile' = WithRequest(reqId[p], p)
    /\ call' = [call EXCEPT ![p].added = TRUE]
    /\ Goto(p, "wait")
    /\ UNCHANGED lockerVars

\* One of the attempts, or the blocking request, succeeds.
WaitGranted(p) ==
    /\ pc[p] \in {"wait", "blocked"}
    /\ Acquired(p, call[p].type)
    /\ Answer(p, TRUE)
    /\ UNCHANGED listVars

\* The last of a finite number of attempts fails.
WaitGivesUp(p) ==
    /\ pc[p] = "wait"
    /\ Head(call[p].rounds) # 0
    /\ NotAcquired(p, call[p].type)
    /\ Answer(p, FALSE)
    /\ UNCHANGED listVars

\* F_SETLKW is refused with EDEADLK when p would wait for a process that is
\* itself blocked by p's lock.
WouldDeadlock(p) ==
    /\ held[p] # "none"
    /\ \E q \in Proc \ {p} : pc[q] = "blocked" /\ held[q] # "none"

Block(p) ==
    /\ pc[p] = "wait"
    /\ Head(call[p].rounds) = 0
    /\ ~CanAcquire(p, call[p].type)
    /\ ~WouldDeadlock(p)
    /\ Goto(p, "blocked")
    /\ UNCHANGED <<lockerVars, listVars, call>>

\* As it would be if EDEADLK were taken for EAGAIN.
WaitDeadlockAgain(p) ==
    /\ pc[p] = "wait"
    /\ Head(call[p].rounds) = 0
    /\ ~CanAcquire(p, call[p].type)
    /\ WouldDeadlock(p)
    /\ UNCHANGED vars

WaitDeadlock(p) ==
    /\ pc[p] = "wait"
    /\ Head(call[p].rounds) = 0
    /\ ~CanAcquire(p, call[p].type)
    /\ WouldDeadlock(p)
    /\ NotAcquired(p, call[p].type)
    /\ Answer(p, FALSE)
    /\ UNCHANGED listVars

GetInfo(p) ==
    /\ pc[p] = "getInfo"
    /\ reqId' = [reqId EXCEPT ![p] = reqFile]
    /\ IF call[p].added
       THEN Goto(p, "remove") /\ UNCHANGED call
       ELSE Return(p, TRUE)
    /\ UNCHANGED <<lockerVars, reqFile>>

\* getReqId converts itsReqId into its local buffer, not the buffer into
\* itsReqId: the list of the process stays what it was.
GetReqId(p) ==
    /\ pc[p] = "getReqId"
    /\ Goto(p, "remove")
    /\ UNCHANGED <<lockerVars, listVars, call>>

RemoveReqId(p) ==
    /\ pc[p] = "remove"
    /\ reqId' = [reqId EXCEPT ![p] = WithoutRequest(@, p)]
    /\ reqFile' = IF p \in Range(reqId[p])
                  THEN WithoutRequest(reqId[p], p)
                  ELSE reqFile
    /\ Return(p, call[p].succ)
    /\ UNCHANGED lockerVars

-----------------------------------------------------------------------------
(* Releasing it.                                                            *)

Release(p) ==
    /\ pc[p] = "idle"
    /\ Released(p)
    /\ UNCHANGED <<listVars, pc, call>>

Unlock(p) == p \notin Permanent /\ readLocked[p] /\ Release(p)

\* Every access of an AutoLocking table ends with it: the lock is given up if
\* LockFile::inspect finds the request list not empty, and kept otherwise.
AutoRelease(p) == p \in AutoLocked /\ readLocked[p] /\ Requested /\ Release(p)

-----------------------------------------------------------------------------
Acquire(p) ==
    \/ TryGranted(p)
    \/ TryRefused(p)
    \/ AddReqId(p)
    \/ WaitGranted(p)
    \/ WaitGivesUp(p)
    \/ Block(p)
    \/ WaitDeadlock(p)
    \/ GetInfo(p)
    \/ GetReqId(p)
    \/ RemoveReqId(p)

RequestAny(p) ==
    \E type \in Types :
        \/ \E patience \in Patience : Request(p, type, patience)
        \/ /\ p \in Permanent
           /\ \E patience \in {"permanentOnce", "permanentWait"} :
                 Request(p, type, patience)

Next ==
    \E p \in Proc :
        \/ Open(p)
        \/ Close(p)
        \/ Crash(p)
        \/ RequestAny(p)
        \/ Acquire(p)
        \/ Unlock(p)
        \/ AutoRelease(p)

Spec == Init /\ [][Next]_vars

\* How a process that is not acquiring a lock gives up the one it holds: an
\* AutoLocking process only if it sees a request in the list, with
\* PermanentLocking by closing the table, a user at the end of its TableLocker.
GivesUp(p) ==
    CASE p \in AutoLocked -> AutoRelease(p)
      [] p \in Permanent  -> Close(p)
      [] OTHER            -> Unlock(p)

\* A process goes on with its own call, the kernel serves a blocked request
\* that it can grant again and again, and a process that again and again may
\* give up its lock in its way does so: a scope ends, a table is closed, an
\* AutoLocking process accesses its table again.
Fairness ==
    \A p \in Proc :
        /\ WF_vars(Acquire(p))
        /\ SF_vars(WaitGranted(p) /\ pc[p] = "blocked")
        /\ SF_vars(GivesUp(p))

FairSpec == Spec /\ Fairness

-----------------------------------------------------------------------------
(* What the lock promises.                                                  *)

\* A process that asks for more than its read lock never loses that lock by
\* asking: FileLocker::acquire clears the flag of a refused request and has to
\* find the lock again.  Only the process's own release ends a lock.
AskingKeepsReadLock ==
    [][\A p \in Proc : readLocked[p] /\ ~readLocked'[p]
                          => pc[p] = "idle" \/ pc'[p] = "closed"]_vars

Returned(p) == pc[p] \in {"idle", "closed"}

\* An AutoLocking process keeps the lock p waits for, and finds the list empty
\* whenever it looks: p's entry has been lost.
Unheard(p) ==
    /\ pc[p] \in {"wait", "blocked"}
    /\ \E q \in AutoLocked \ {p} :
          held[q] # "none" /\ (pc[q] = "idle" => ~Requested)

\* Every request for the lock returns, with the lock or with a refusal, whoever
\* dies: a user's holder unlocks in the end, an AutoLocking one when it sees
\* the request.  Only a request of which the list has lost the entry may wait
\* for ever, for an AutoLocking holder that sees none.  Two readers that both
\* wait for the write lock would wait for ever if the refusal with EDEADLK
\* were not acted upon.
RequestReturns ==
    \A p \in Proc : pc[p] = "try" ~> (Returned(p) \/ []Unheard(p))

-----------------------------------------------------------------------------
(* What the comments say of the request list, and the code does not do.      *)

\* TableLock.h:96-98, AutoLocking: "from time to time (...) it is checked whether
\* another process wants to access the table.  If so, the lock is released".
\* Whoever waits would be heard, and every request would return.
RequestHeard ==
    \A p \in Proc : pc[p] = "try" ~> Returned(p)

\* LockFile.h:301-302, removeReqId: "Remove the request id of this process
\* from the list (and all the ones before it)".
RemovesOwnRequest ==
    [][\A p \in Proc :
          /\ pc[p] = "remove" /\ pc'[p] # "remove"
          /\ Cardinality({i \in DOMAIN reqId[p] : reqId[p][i] = p}) = 1
          => p \notin Range(reqId'[p])]_vars
=============================================================================
