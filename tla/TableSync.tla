------------------------------ MODULE TableSync ------------------------------
(***************************************************************************)
(* tables/Tables: how processes that have opened the same table see each    *)
(* other's updates.  PlainTable::lock, putFile and syncTable, TableSyncData *)
(* and ColumnSet::resync, over the lock of FileLocker.  The table is a set  *)
(* of parts (the keywords and columns in table.dat, the data of each data   *)
(* manager in its files), each with the number of its last update.          *)
(***************************************************************************)
EXTENDS FileLocker

CONSTANTS
    Modes,           \* the locking options the processes open the table with
    DataMan,         \* the data managers (ColumnSet::blockDataMan_p)
    MaxChange,       \* bound: the updates of the table itself and of one data
                     \* manager's data, together
    Attempts,        \* how UserLocking asks for the lock: "forever", nattempts
                     \* 0, or "once", any other number
    MaxWait,         \* how AutoLocking asks for it: "forever", the default
                     \* maxWait 0, or "once"
    Kinds,           \* the kinds of access that are made
    Undeterred,      \* whether a process whose lock() has thrown because of a
                     \* deadlock goes on with the lock that is left, or unlocks
    MayCrash         \* "never", "clean": not in the middle of a flush, "any"

Access == {"read", "write", "keyword", "columnKeyword", "column"}

ASSUME TableSyncAssumption ==
    /\ Modes \subseteq {"auto", "user"}
    /\ MaxChange \in Nat
    /\ Attempts \subseteq {"once", "forever"}
    /\ MaxWait \in {"once", "forever"}
    /\ Kinds \subseteq Access
    /\ Undeterred \in BOOLEAN
    /\ MayCrash \in {"never", "clean", "any"}

VARIABLES
    mode,        \* the locking option of each process
    inUse,       \* the processes whose "in use" lock the kernel holds
    disk,        \* the table's files
    syncFile,    \* the synchronization data in the lock file
    mem,         \* each process's copy of the table
    dirty,       \* the parts of it that are not in the files
    sync,        \* PlainTable::lockSync_p
    pc,          \* where each process is
    call         \* what it is doing there

procVars == <<mem, dirty, sync>>
fileVars == <<disk, syncFile>>
openVars == <<mode, inUse>>
vars == <<lockerVars, openVars, fileVars, procVars, pc, call>>

Content == [keys : Nat, cols : Nat, dm : [DataMan -> Nat]]
NewContent == [keys |-> 0, cols |-> 1, dm |-> [d \in DataMan |-> 0]]

Counters == [tab : Nat, cols : Nat, dm : [DataMan -> Nat]]
NewCounters == [tab |-> 0, cols |-> 1, dm |-> [d \in DataMan |-> 0]]

Clean == [tab |-> FALSE, dm |-> {}]

PcValue == {"closed", "open", "idle", "lock", "syncTable", "release", "put",
            "putInfo", "unlock"} \cup Access

CallValue == [type : LockType, noSync : BOOLEAN, wait : {"once", "forever"},
              then : Access \cup {"idle", "closed", "flushed", "changed", "changing"}]

NoCall == [type |-> "read", noSync |-> FALSE, wait |-> "forever", then |-> "idle"]

TypeOK ==
    /\ LockerTypeOK
    /\ mode \in [Proc -> {"auto", "user"}]
    /\ inUse \in SUBSET Proc
    /\ disk \in Content
    /\ syncFile \in Counters
    /\ mem \in [Proc -> Content]
    /\ dirty \in [Proc -> [tab : BOOLEAN, dm : SUBSET DataMan]]
    /\ sync \in [Proc -> Counters]
    /\ pc \in [Proc -> PcValue]
    /\ call \in [Proc -> CallValue]

Init ==
    /\ LockerInit
    /\ mode = [p \in Proc |-> "user"]
    /\ inUse = {}
    /\ disk = NewContent
    /\ syncFile = NewCounters
    /\ mem = [p \in Proc |-> NewContent]
    /\ dirty = [p \in Proc |-> Clean]
    /\ sync = [p \in Proc |-> NewCounters]
    /\ pc = [p \in Proc |-> "closed"]
    /\ call = [p \in Proc |-> NoCall]

Goto(p, label) == pc' = [pc EXCEPT ![p] = label]

Doing(p, type, noSync, wait, then) ==
    call' = [call EXCEPT ![p] = [type |-> type, noSync |-> noSync,
                                 wait |-> wait, then |-> then]]

Return(p) ==
    /\ Goto(p, "idle")
    /\ call' = [call EXCEPT ![p] = NoCall]

\* lock() returns to the access that needs the lock, or to the user.
Proceed(p) ==
    IF call[p].then = "idle"
    THEN Return(p)
    ELSE Goto(p, call[p].then) /\ UNCHANGED call

-----------------------------------------------------------------------------
(* Opening an existing table for update: PlainTable's second constructor.   *)

Open(p) ==
    /\ pc[p] = "closed"
    /\ \E option \in Modes : mode' = [mode EXCEPT ![p] = option]
    /\ inUse' = inUse \cup {p}
    /\ Goto(p, "open")
    /\ UNCHANGED <<lockerVars, fileVars, procVars, call>>

\* With its read lock it reads the sync data and the table; with UserLocking it
\* then releases the lock.
Opened(p) ==
    /\ pc[p] = "open"
    /\ Acquired(p, "read")
    /\ sync' = [sync EXCEPT ![p] = syncFile]
    /\ mem' = [mem EXCEPT ![p] = disk]
    /\ Goto(p, IF mode[p] = "auto" THEN "idle" ELSE "unlock")
    /\ UNCHANGED <<openVars, fileVars, dirty, call>>

-----------------------------------------------------------------------------
(* PlainTable::lock                                                         *)

\* A process that has a lock, a read lock is enough, need not synchronize.
RequestLock(p, type, wait, then) ==
    /\ Doing(p, type, HasLock(p, "read"), wait, then)
    /\ Goto(p, "lock")
    /\ UNCHANGED <<lockerVars, openVars, fileVars, procVars>>

\* As it would be if no data manager were told to reread.
ResyncedNone(p) ==
    /\ sync' = [sync EXCEPT ![p] = syncFile]
    /\ UNCHANGED mem

\* TableSyncData::read and ColumnSet::resync, if the number of columns is still
\* the same.  The data managers with another counter reread their data.
Resynced(p) ==
    /\ sync' = [sync EXCEPT ![p] = syncFile]
    /\ mem' = [mem EXCEPT ![p].dm =
                  [d \in DataMan |-> IF syncFile.dm[d] # sync[p].dm[d]
                                     THEN disk.dm[d] ELSE @[d]]]

\* lock() once it has the lock.  The exception leaves the lock as it is.
LockGranted(p) ==
    /\ pc[p] = "lock"
    /\ Acquired(p, call[p].type)
    /\ \/ /\ call[p].noSync
          /\ Proceed(p)
          /\ UNCHANGED <<sync, mem>>
       \/ /\ ~call[p].noSync
          /\ syncFile.cols = mem[p].cols
          /\ Resynced(p)
          /\ IF syncFile.tab # sync[p].tab
             THEN Goto(p, "syncTable") /\ UNCHANGED call
             ELSE Proceed(p)
       \/ /\ ~call[p].noSync
          /\ syncFile.cols # mem[p].cols
          /\ sync' = [sync EXCEPT ![p] = syncFile]
          /\ Return(p)
          /\ UNCHANGED mem
    /\ UNCHANGED <<openVars, fileVars, dirty>>

\* lock() returns False.  ColumnSet::doLock does not look at that.
LockRefused(p) ==
    /\ pc[p] = "lock"
    /\ call[p].wait = "once"
    /\ NotAcquired(p, call[p].type)
    /\ Proceed(p)
    /\ UNCHANGED <<openVars, fileVars, procVars>>

\* A refused attempt of a lock() that goes on trying: the attempts before it
\* waits in F_SETLKW.  It changes something only if syncTable has dropped the
\* lock behind the flags: then a write request may take the read lock again, of
\* a table that is not synchronized yet.
LockTried(p) ==
    /\ pc[p] = "lock"
    /\ call[p].wait = "forever"
    /\ NotAcquired(p, call[p].type)
    /\ UNCHANGED <<openVars, fileVars, procVars, pc, call>>

\* It waits in F_SETLKW, with the read lock it may have.
Blocked(p) ==
    /\ pc[p] = "lock"
    /\ call[p].wait = "forever"
    /\ ~CanAcquire(p, call[p].type)
    /\ held[p] # "none"

\* F_SETLKW is refused with EDEADLK: TableLockData::acquire throws, and a read
\* lock may be left.
LockDeadlock(p) ==
    /\ Blocked(p)
    /\ \E q \in Proc \ {p} : Blocked(q)
    /\ NotAcquired(p, call[p].type)
    /\ \/ Undeterred /\ Return(p)
       \/ /\ ~Undeterred
          /\ Goto(p, "release")
          /\ Doing(p, "read", FALSE, "forever", "idle")
    /\ UNCHANGED <<openVars, fileVars, procVars>>

\* As it would be if lock() did not go back to acquire the lock again.
SyncTableOnce(p) ==
    /\ pc[p] = "syncTable"
    /\ mem' = [mem EXCEPT ![p].keys = disk.keys]
    /\ KernelDropsLocks(p)
    /\ inUse' = inUse \ {p}
    /\ Proceed(p)
    /\ UNCHANGED <<mode, readLocked, writeLocked, fileVars, dirty, sync>>

\* syncTable: the keywords are read through a second PlainTable; when that is
\* deleted, its LockFile closes a descriptor of the lock file.  It is not
\* deleted if ColumnSet::syncColumns throws.
SyncTable(p) ==
    /\ pc[p] = "syncTable"
    /\ \/ /\ mem[p].cols = disk.cols
          /\ mem' = [mem EXCEPT ![p].keys = disk.keys]
          /\ KernelDropsLocks(p)
          /\ inUse' = inUse \ {p}
          /\ Goto(p, "lock")
          /\ UNCHANGED call
       \/ /\ mem[p].cols # disk.cols
          /\ Return(p)
          /\ UNCHANGED <<mem, held, inUse>>
    /\ UNCHANGED <<mode, readLocked, writeLocked, fileVars, dirty, sync>>

-----------------------------------------------------------------------------
(* Access of the data.                                                      *)

LockFor(kind) == IF kind = "read" THEN "read" ELSE "write"

\* ColumnSet::checkReadLock and checkWriteLock: AutoLocking acquires the lock
\* it does not have, UserLocking throws, except for the keywords of a column:
\* there ColumnSet::userLock acquires it for the moment.
Begin(p, kind) ==
    /\ pc[p] = "idle"
    /\ kind \in Kinds
    /\ \/ /\ HasLock(p, LockFor(kind))
          /\ Goto(p, kind)
          /\ UNCHANGED <<lockerVars, openVars, fileVars, procVars, call>>
       \/ /\ ~HasLock(p, LockFor(kind))
          /\ mode[p] = "auto"
          /\ RequestLock(p, LockFor(kind), MaxWait, kind)
       \/ /\ ~HasLock(p, LockFor(kind))
          /\ mode[p] = "user"
          /\ kind = "columnKeyword"
          /\ RequestLock(p, "write", "forever", kind)

\* TableLockData::autoRelease: it depends on the interval and on the requests of
\* others whether the lock is released after an access.
AfterAccess(p) ==
    \/ Return(p)
    \/ /\ mode[p] = "auto"
       /\ Goto(p, "release")
       /\ Doing(p, "read", FALSE, "forever", "idle")

Read(p) ==
    /\ pc[p] = "read"
    /\ AfterAccess(p)
    /\ UNCHANGED <<lockerVars, openVars, fileVars, procVars>>

Write(p) ==
    /\ pc[p] = "write"
    /\ \E d \in DataMan :
          /\ mem' = [mem EXCEPT ![p].dm[d] = @ + 1]
          /\ dirty' = [dirty EXCEPT ![p].dm = @ \cup {d}]
    /\ AfterAccess(p)
    /\ UNCHANGED <<lockerVars, openVars, fileVars, sync>>

\* rwKeywordSet does not release the lock.
WriteKeyword(p) ==
    /\ pc[p] = "keyword"
    /\ mem' = [mem EXCEPT ![p].keys = @ + 1]
    /\ dirty' = [dirty EXCEPT ![p].tab = TRUE]
    /\ Return(p)
    /\ UNCHANGED <<lockerVars, openVars, fileVars, sync>>

\* PlainColumn::rwKeywordSet.  A lock that was acquired for it is released
\* before the caller has the keywords in hand.
ColumnKeyword(p) ==
    /\ pc[p] = "columnKeyword"
    /\ dirty' = [dirty EXCEPT ![p].tab = TRUE]
    /\ IF mode[p] = "user" /\ call[p].then = "columnKeyword"
       THEN /\ Goto(p, "release")
            /\ Doing(p, "read", FALSE, "forever", "changing")
            /\ UNCHANGED mem
       ELSE /\ mem' = [mem EXCEPT ![p].keys = @ + 1]
            /\ Return(p)
    /\ UNCHANGED <<lockerVars, openVars, fileVars, sync>>

\* The new column is kept by data manager d, which writes its first data.
WithColumn(content, d) ==
    [keys |-> content.keys,
     cols |-> content.cols + 1,
     dm   |-> [content.dm EXCEPT ![d] = @ + 1]]

\* ColumnSet::doAddColumn ends with autoReleaseLock; it is after it that
\* PlainTable::addColumn tells that the table file has to be written.
AddColumn(p) ==
    /\ pc[p] = "column"
    /\ \E d \in DataMan :
          /\ mem' = [mem EXCEPT ![p] = WithColumn(@, d)]
          /\ \/ /\ dirty' = [dirty EXCEPT ![p] = [tab |-> TRUE, dm |-> @.dm \cup {d}]]
                /\ Return(p)
             \/ /\ mode[p] = "auto"
                /\ dirty' = [dirty EXCEPT ![p].dm = @ \cup {d}]
                /\ Goto(p, "release")
                /\ Doing(p, "read", FALSE, "forever", "changed")
    /\ UNCHANGED <<lockerVars, openVars, fileVars, sync>>

-----------------------------------------------------------------------------
(* Flushing and releasing.                                                  *)

\* Table::lock with UserLocking.
UserLock(p) ==
    /\ pc[p] = "idle"
    /\ mode[p] = "user"
    /\ \E type \in LockType, wait \in Attempts : RequestLock(p, type, wait, "idle")

\* Table::unlock, and TableCache::relinquishAutoLocks.
Unlock(p) ==
    /\ pc[p] = "idle"
    /\ readLocked[p]
    /\ Goto(p, "release")
    /\ Doing(p, "read", FALSE, "forever", "idle")
    /\ UNCHANGED <<lockerVars, openVars, fileVars, procVars>>

Close(p) ==
    /\ pc[p] = "idle"
    /\ Goto(p, "release")
    /\ Doing(p, "read", FALSE, "forever", "closed")
    /\ UNCHANGED <<lockerVars, openVars, fileVars, procVars>>

\* Table::flush without a release; it needs no lock.
Flush(p) ==
    /\ pc[p] = "idle"
    /\ Goto(p, "put")
    /\ Doing(p, "read", FALSE, "forever", "flushed")
    /\ UNCHANGED <<lockerVars, openVars, fileVars, procVars>>

\* As it would be if the call back were only made for PermanentLocking.
ReleaseUnflushed(p) ==
    /\ pc[p] = "release"
    /\ Goto(p, "unlock")
    /\ UNCHANGED <<lockerVars, openVars, fileVars, procVars, call>>

\* TableLockData::release: the call back flushes if there is a write lock.
Release(p) ==
    /\ pc[p] = "release"
    /\ Goto(p, IF HasLock(p, "write") THEN "put" ELSE "unlock")
    /\ UNCHANGED <<lockerVars, openVars, fileVars, procVars, call>>

\* As it would be if a flush returned to where a release goes.
AfterPutThen(p) == Goto(p, call[p].then) /\ UNCHANGED call

AfterPut(p) ==
    IF call[p].then = "flushed"
    THEN Return(p)
    ELSE Goto(p, "unlock") /\ UNCHANGED call

WritesTable(p) == dirty[p].tab \/ call[p].then = "closed"

\* putFile, the first part.  Closing writes the table file in any case.
PutData(p) ==
    /\ pc[p] = "put"
    /\ disk' = [keys |-> IF WritesTable(p) THEN mem[p].keys ELSE disk.keys,
                cols |-> IF WritesTable(p) THEN mem[p].cols ELSE disk.cols,
                dm   |-> [d \in DataMan |-> IF d \in dirty[p].dm THEN mem[p].dm[d]
                                            ELSE disk.dm[d]]]
    /\ IF WritesTable(p) \/ dirty[p].dm # {}
       THEN Goto(p, "putInfo") /\ UNCHANGED call
       ELSE AfterPut(p)
    /\ UNCHANGED <<lockerVars, openVars, syncFile, procVars>>

\* As it would be if the counter of the table file were the only one.
CountedTable(p) ==
    [tab  |-> IF dirty[p].tab THEN sync[p].tab + 1 ELSE sync[p].tab,
     cols |-> mem[p].cols,
     dm   |-> sync[p].dm]

\* TableSyncData::write
Counted(p) ==
    [tab  |-> IF dirty[p].tab THEN sync[p].tab + 1 ELSE sync[p].tab,
     cols |-> mem[p].cols,
     dm   |-> [d \in DataMan |-> IF d \in dirty[p].dm THEN sync[p].dm[d] + 1
                                 ELSE sync[p].dm[d]]]

\* putFile, the second part: putInfo, and the flags are cleared.
PutInfo(p) ==
    /\ pc[p] = "putInfo"
    /\ syncFile' = Counted(p)
    /\ sync' = [sync EXCEPT ![p] = Counted(p)]
    /\ dirty' = [dirty EXCEPT ![p] = Clean]
    /\ AfterPut(p)
    /\ UNCHANGED <<lockerVars, openVars, disk, mem>>

\* The process has nothing of the table any more.
Gone(p) ==
    /\ Released(p)
    /\ mode' = [mode EXCEPT ![p] = "user"]
    /\ inUse' = inUse \ {p}
    /\ mem' = [mem EXCEPT ![p] = NewContent]
    /\ dirty' = [dirty EXCEPT ![p] = Clean]
    /\ sync' = [sync EXCEPT ![p] = NewCounters]
    /\ call' = [call EXCEPT ![p] = NoCall]
    /\ Goto(p, "closed")
    /\ UNCHANGED fileVars

\* The call that has released the lock goes on without it: to set the changed
\* flag, or to the caller that changes the keywords.
Unlocked(p) ==
    /\ pc[p] = "unlock"
    /\ IF call[p].then = "closed"
       THEN Gone(p)
       ELSE /\ Released(p)
            /\ Return(p)
            /\ dirty' = IF call[p].then = "changed"
                        THEN [dirty EXCEPT ![p].tab = TRUE] ELSE dirty
            /\ mem' = IF call[p].then = "changing"
                      THEN [mem EXCEPT ![p].keys = @ + 1] ELSE mem
            /\ UNCHANGED <<openVars, fileVars, sync>>

Crash(p) ==
    /\ pc[p] # "closed"
    /\ MayCrash # "never"
    /\ MayCrash = "clean" => pc[p] # "putInfo"
    /\ Gone(p)

-----------------------------------------------------------------------------
Step(p) ==
    \/ Opened(p)
    \/ LockGranted(p)
    \/ LockRefused(p)
    \/ LockTried(p)
    \/ LockDeadlock(p)
    \/ SyncTable(p)
    \/ Read(p)
    \/ Write(p)
    \/ WriteKeyword(p)
    \/ ColumnKeyword(p)
    \/ AddColumn(p)
    \/ Release(p)
    \/ PutData(p)
    \/ PutInfo(p)
    \/ Unlocked(p)
    \/ Crash(p)

\* The bound on the updates is in the calls, so that no call is left hanging.
WithinBound ==
    \A p \in Proc :
        /\ sync[p].tab < MaxChange
        /\ \A d \in DataMan : mem[p].keys + mem[p].dm[d] < MaxChange

Call(p) ==
    \/ Open(p)
    \/ \E kind \in Access : (kind # "read" => WithinBound) /\ Begin(p, kind)
    \/ UserLock(p)
    \/ Unlock(p)
    \/ Close(p)
    \/ Flush(p)

Next == \E p \in Proc : Step(p) \/ Call(p)

Spec == Init /\ [][Next]_vars

-----------------------------------------------------------------------------
(* What the users of a table are promised.                                  *)

\* Table.h:458: a process accesses the table's data only with the lock for it,
\* in its own belief and in the kernel's table.
AccessLocked ==
    \A p \in Proc : pc[p] \in Access =>
        /\ HasLock(p, LockFor(pc[p]))
        /\ held[p] = IF writeLocked[p] THEN "write" ELSE "read"

FreshTable(p) == dirty[p].tab \/ (mem[p].keys = disk.keys /\ mem[p].cols = disk.cols)
FreshData(p, d) == d \in dirty[p].dm \/ mem[p].dm[d] = disk.dm[d]

\* PlainTable.cc:425-431: what a process reads, and what it bases an update on,
\* is the newest content, although it only looks at the counters when it gets
\* the lock, and at nothing when it already has a read lock.
AccessFresh ==
    \A p \in Proc : pc[p] \in Access =>
        /\ FreshTable(p)
        /\ \A d \in DataMan : FreshData(p, d)

\* TableSyncData.h: equal counters mean equal data.  A process that finds the
\* counters it knows may keep its copy, except while a writer is between its
\* data and its counters, and while the table itself is being reread.
CountersTell ==
    \A p \in Proc : pc[p] \notin {"closed", "open", "syncTable"} =>
        /\ \/ sync[p].tab # syncFile.tab
           \/ FreshTable(p)
           \/ \E q \in Proc : pc[q] = "putInfo" /\ dirty[q].tab
        /\ \A d \in DataMan :
              \/ sync[p].dm[d] # syncFile.dm[d]
              \/ FreshData(p, d)
              \/ \E q \in Proc : pc[q] = "putInfo" /\ d \in dirty[q].dm

\* Table::hasLock tells the truth to whoever can ask it, although syncTable
\* drops the lock behind the back of the flags.
LockHonest ==
    \A p \in Proc : pc[p] # "lock" =>
        /\ readLocked[p] <=> held[p] # "none"
        /\ writeLocked[p] <=> held[p] = "write"

\* Tables.h:1435-1437: with the lock a process gives away its updates: what it
\* has not written, nobody else can overwrite.
UpdatesLocked ==
    \A p \in Proc : dirty[p] # Clean => writeLocked[p]

\* The processes see one table: no update is lost but those a writer had not
\* flushed when it died, and no update is based on an older content.
Table == INSTANCE SharedTable WITH
    current <- IF \E p \in Proc : dirty[p] # Clean
               THEN mem[CHOOSE p \in Proc : dirty[p] # Clean]
               ELSE disk,
    stable <- disk

IsSharedTable == Table!TableSpec

\* Tables.h, LockFile.h: an open table is in use, so that no other process
\* deletes it (LockFile::isMultiUsed).
OpenIsInUse ==
    \A p \in Proc : pc[p] # "closed" => p \in inUse
=============================================================================
