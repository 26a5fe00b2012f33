# TLA+ models of casacore's tables and of CASA's threads and servers

The repository holds CASA's libraries (`src/casa6`) with casacore as their
foundation (`src/casa6/casatools/casacore`). Most of its code is numeric and
sequential. Three parts depend for their correctness on what several processes or
threads do at the same time, on what a crash leaves behind or on long sequences
of calls, and this directory models them:

* casacore's table system: several processes open one table, lock it through
  `fcntl`, see each other's updates through counters in `table.lock`, keep the
  table's data in caches of buckets, and may put all its files in one `MultiFile`;
* the visibility iterator that reads ahead: a thread fills a ring of buffers
  while another one goes through them, selects and writes;
* `mpi4casa`: a client with three kinds of service threads that sends commands to
  MPI servers and watches which of them are alive.

Paths below are relative to `src/casa6/casatools/casacore` unless they begin
with `casa5`.

## 1. Inventory

| Component | State | Operations | Talks to |
|---|---|---|---|
| `casa/IO/FileLocker` | two flags: read locked, write locked; the kernel's lock table | `acquire`, `release`, `canLock`, `hasLock` | the kernel (`fcntl`) |
| `casa/IO/LockFile` | the request list in the file and a copy in memory, a `FileLocker` for the lock, one for "in use", one for "permanently locked" | `acquire`, `release`, `inspect`, `getInfo`, `putInfo`, `addReqId`, `removeReqId`, `isMultiUsed`, `showLock` | `FileLocker`, the file `table.lock` |
| `tables/Tables/TableLock`, `TableLockData`, `TableLocker` | the locking mode, the call back for a release | `makeLock`, `acquire`, `release`, `autoRelease` | `LockFile`, `PlainTable` by call back |
| `tables/Tables/TableSyncData` | the change counters of the table and of each storage manager, the number of rows and columns | `write`, `read` | `LockFile` through a `MemoryIO` |
| `tables/Tables/PlainTable` | the flag "table changed", the row count, keywords and description | open, `lock`, `unlock`, `flush`, `putFile`, `syncTable`, `resync`, `addRow`, `addColumn`, `rwKeywordSet`, close | all of the above, `ColumnSet` |
| `tables/Tables/ColumnSet` and the column objects | the storage managers and which of them have changed | `checkReadLock`, `checkWriteLock`, `doLock`, `userLock`, `resync`, `syncColumns`, `putFile`, `addColumn` | `PlainTable::lock`, storage managers |
| `tables/Tables/TableCache` | the tables a process has open | `relinquishAutoLocks` | `PlainTable` |
| `tables/Tables/ExternalLockSync` | a `LockFile` and a `TableSyncData` of its own | `acquire`, `release` | as above |
| `casa/IO/BucketCache`, `BucketFile` | slots with bucket, buffer, dirty mark and age; the free list in the file | `getBucket`, `setDirty`, `addBucket`, `removeBucket`, `extend`, `flush`, `clear`, `resize`, `resync` | a storage manager by call backs |
| `tables/DataMan/SSM*` | header, index from rows to data buckets, a copy of the current string bucket, the last string bucket | get, put, set shape, add and remove rows and columns, flush, resync | `BucketCache` |
| `tables/DataMan/ISM*`, `TSM*` | index, header, tiles | get, put, add and remove rows and columns, flush, resync | `BucketCache` |
| `casa/IO/MultiFileBase`, `MultiFile`, `MFFileIO` | virtual files with their blocks, a buffer each, the free blocks, a header | `addFile`, `deleteFile`, `read`, `write`, `flush`, `resync` | a file, storage managers |
| `casa/IO/AipsIO`, `FilebufIO` | encoded streams | read, write | files |
| `tables/TaQL` | expression trees | parse, evaluate | tables |
| `casa5/code/msvis/MSVis/AsynchronousInterface`, `VLAT` | a ring of visibility buffers, lists of chunks, requests and a write queue between two threads | `originChunks`, `origin`, `advance`, `nextChunk`, select, write; fill, sweep, reset, terminate | the visibility iterator, the measurement set |
| `casa5/code/synthesis/ImagerObjects/SynthesisIterBot` | the state of the imaging cycles | summaries from the deconvolvers, changes from the user | GUI, imager |
| `casa5/gcwrap/python/scripts/mpi4casa`, monitor | per server: timed out, busy, ping without answer | ping, answer, time out, recover | MPI processes |
| `casa5/gcwrap/python/scripts/mpi4casa`, command client and servers | requests, responses, queues, two events | push requests, get responses, wait for a group, stop | the monitor, MPI processes |
| flagging, images, lattices, coordinates, measures, FITS, scimath | numeric arrays | numeric | each other |

How the modelled components work together: an access of a column calls
`ColumnSet::checkReadLock` or `checkWriteLock`. Without the lock, AutoLocking calls
`PlainTable::lock`, which acquires it through `TableLockData` and `LockFile`,
reads the counters that are in the lock file behind the request list, and tells
the storage managers whose counter has changed to forget their cached data
(`BucketCache::resync`). A storage manager then reads buckets from its file when
they are asked for. At the end of the access `autoRelease` looks whether
another process has put itself in the request list. If so, `release` calls
back `PlainTable::putFile`, the storage managers flush their caches
(`BucketCache::flush`), and the new counters are put in the lock file.

The data file of a storage manager may be a virtual file of a `MultiFile`, which
gives it blocks, keeps one of them in a buffer, and writes its header when the
table is flushed under the lock.

The main thread of an iterator that looks ahead asks the VLAT for chunks and
subchunks; the VLAT keeps filling the ring until it is full, does the writes the
main thread has queued, and starts again when it is asked to reset. Both wait for
one condition.

An application's `push_command_request` puts requests in an input queue; the
queue service matches them with servers that are neither busy nor timed out, and
sends them; a server executes one and answers; the response handler stores the
answer and marks the server as free; the monitor pings the servers and tells who
has timed out, which the queue service and waiting calls look at.

What is hard here: `fcntl` locks belong to a process and disappear when any
descriptor of the file is closed; a lock request is a sequence of system calls;
the request list is updated without a lock; a lock is refused, given up, dropped or
taken over while state that depends on it is kept; the data and the counters are
two writes; a process can die between any two of them; caches have to follow files
that other processes change; data are read ahead of a write or of a selection that
changes them; services clear the events they wait for; a request, its response and
the status of its server are handled by three threads, mostly without a lock; servers
die, and late answers come after timeouts. What makes each component correct is written with its
properties in section 3.

## 2. Plan

Done, in the order of what the rest relies on:

1. `FileLocker`: the lock itself, with its theorems (in `LockFileProofs`).
2. `LockFile`: the protocol around it (`LockFileProofs`).
3. `SharedTable`, `TableSync`: one table for several processes,
   and its implementation with locks and counters (`TableSyncProofs`).
4. `BucketStore`, `BucketCache`: an array of buckets, and its implementation with
   a cache, a file and a free list (`BucketCacheProofs`).
5. `VisIterator`, `LookAhead`: what an iterator promises, and `AsynchronousInterface`
   with `VLAT` that keeps it although it reads ahead (`LookAheadProofs`).
6. `ServerStatus`, `MPIMonitor`: which servers have timed out, and the pings that
   tell. `JobQueue`, `MPICommand`: jobs given to servers, and the
   command client that does it on top of `ServerStatus` (`MPICommandProofs`, for both).
7. `VirtualFiles`, `MultiFile`: separate files, and the blocks they share
   (`MultiFileProofs`).
8. `StringBuckets`: the strings of the standard storage manager, and the buckets they
   are in (`StringBucketsProofs`, `StringBucketRowsProofs`).

What is left, most important first:

9. `SSMBase::writeIndex` on top of `BucketCache`, with a crash between its steps:
   after a crash the header points to an index that is there, and to a free list of
   buckets that are free.  The free space of `SSMIndex` when columns come and go.
10. `TableSync` extended with rows, `resync` and the NoReadLocking modes, the removal of
   columns, deletion of a table (`isMultiUsed`), and the sync data of external fillers.
11. `IterBot`: the shared state of `SynthesisIterBot`.

Theorems left: none for the modules there are, except what section 5 lists as only
model-checked.

## 3. Modules, and how they correspond to the code

`PROJECT.json` lists for every definition the lines it stands for. In all
modules a process is an element of `Proc`, and a step of a process is the code
between two points where another process could make a difference: a system
call on the lock, or a read or write of the shared file.

### FileLocker

`held` is the kernel's table: the one lock a process has on the byte.
`readLocked` and `writeLocked` are `itsReadLocked` and `itsWriteLocked`.
`Acquired`, `NotAcquired` and `Released` are the outcomes of `acquire` and `release`.
The write-lock test that precedes a read request is in `StillWriteLocked`, the read request that
follows a refused write request in `ReadLockLeft`. `KernelDropsLocks` is the
POSIX rule for closed descriptors. `LockerSpec` lets processes do these things in
any order. It is the abstract specification of the lock.

* `FlagsSound`: the flags say what the kernel has. This is what all code above
  relies on when it calls `hasLock`.
* `Exclusive`: a process that believes it may write is alone.

### LockFile

`reqFile` is the request list in the file, `reqId` the copy of each process. The
steps of `LockFile::acquire` are separate: the first attempt, `addReqId`, the
further attempts or the blocking request, `getInfo` or `getReqId`, and
`removeReqId`. `Rounds` gives the calls that `TableLockData::acquire` and
`makeLock` make. Any number of attempts above one is `2`, because what the others do in a
pause is a step of theirs; the duration of a pause is not modelled.
`RemoveReqId` and `GetReqId` do what the code does, which is not what the
comments say (section 6).

Of what follows a request, `Permanent` and `AutoLocked` say who gives up the lock when: a
process with PermanentLocking when it closes the table, one with AutoLocking when it sees
a request in the list (`AutoRelease`), and any other at the end of its scope (`Unlock`).
The lock is changed by `FileLocker`'s operators only, so `FlagsSound` and `Exclusive`
apply to the protocol as well.

* `AskingKeepsReadLock`: asking for a write lock never costs a reader its lock.
* `RequestReturns`: every request returns, although holders may die and two
  readers may both wait for the write lock, unless an AutoLocking holder finds the list
  empty (`Unheard`), because it was written back from an old copy.
* `RequestHeard`: the same without the exception. It is false (section 6).

### TableSync and SharedTable

A table is its keywords, its number of columns and the data of its storage
managers. Each is the number of its last update, which is enough to tell old from new. `disk` is
in the files, `mem[p]` in the process. `dirty[p]` is what the process
has changed and not written: `tableChanged_p` and the storage managers' own flags.
`syncFile` is the synchronization data in the lock file, and `sync[p]` the counters a
process knows. `pc[p]` is where the process is in `lock`, in an access, or in a
release; `call[p]` are the arguments, and `mode[p]` is the locking option it chose
when it opened the table. `putFile` is in two steps, because the
files and the counters are written one after the other. `SyncTable` closes a
descriptor of the lock file and so drops the locks without the flags, and `lock` acquires
them again. `LockTried` is an attempt of `lock` that is refused while it goes on trying: it
may take back the read lock of a table that is not synchronized yet. `LockRefused` is a
`lock` that gives up, and `LockDeadlock` one that throws because of a deadlock: a lock may
be left then, with which the process goes on (`Undeterred`, what the code makes
possible), or it unlocks.
`ColumnKeyword` and `AddColumn` have the order of the code: the lock may be released
before the change is complete.

`SharedTable` is what the processes should see together: one content, updated in
turns, with a stable copy that a dying process cannot take away.

* `AccessLocked`: an access happens with the lock, in the flags and in the kernel.
* `AccessFresh`: what is accessed is the newest content.
* `CountersTell`: who finds equal counters has equal data.
* `LockHonest`: the flags are right whenever the process can ask for them.
* `UpdatesLocked`: an update that is not written yet is under a write lock.
* `IsSharedTable`: the processes implement `SharedTable`.

### BucketCache and BucketStore

One object in one thread, so an action is one call. `cache` has the members,
`file` the buckets in the file with the links of the free list, `got` the buffer
the last `getBucket` gave. The functions take the object and the file and give
the object and the file after the call, and each calls what the code calls:
`getSlot` evicts, `addBucket` initializes the buckets of an extension first,
`resize` clears, and so on. `OthersWrite`, `OthersAdd` and `OthersRemove` are
updates by another process that holds the table's lock, followed by the `resync`
of this one; they need a flushed cache, because the lock is only given away after
a flush. The buckets' conversion between local and canonical form is left out.
`Forgets` is a resize that makes the cache forget a bucket it keeps, which the code does
(section 6); `Forgetful` is whether a use includes it.

* `IsStore`: the cache implements `BucketStore`, the array of buckets.
* `CachedWhereKnown`: `its_SlotNr` and the slots agree.
* `LastUsedSurvives`: the bucket used last is not evicted by the next one.
* `FreeListSound`: the free list in the file is what the counters say, and no
  free bucket is cached.

### VisIterator and LookAhead

`VisIterator` is an iterator without a second thread: it goes from subchunk to
subchunk, and its buffer has what is in the table, as the selection of the last
`originChunks` asks. `Layout` gives the measurement set, as many subchunks for each
chunk; the data of a subchunk is the number of its last write, and a selection a
number. `LookAhead` has the two threads. `at`, `buffer` and `more` belong to the main
thread, `readAt`, `writeAt` and `datum` to the VLAT; `ring`, `validChunks` and
`validSubs` are `VlaData`, and the four flags those of `AsynchronousInterface`. A
critical section under the interface's mutex is one step, as nothing can come in
between, but not while the VLAT does writes with the mutex (`MutexFree`), because
those come from a queue with another mutex. Waiting for the condition is being in
`asleep`, and every notification empties it, so a lost one is lost in the model, too.
Main: `OriginChunks` with `AwaitReset`, `Origin`, `Advance`, `NextChunkCall` with what
they ask of `VlaData` (`IsValidSubChunk`, `IsValidChunk`, `ReadStart`), `Write`,
`Select`, `Terminate`, `Join`. VLAT: one action for each part of `sweepVi` and
`waitForViReset`. An exception or a failed assertion ends in `failed`.

* `IsIterator`: in spite of reading ahead of writes and selections, what the user
  sees is what the plain iterator shows.
* `RingInOrder`, `MoreIsRight`: the ring is never overrun and in order, and there is
  another subchunk exactly when the iterator says so.
* `NothingFails`: neither the readers' checks nor the forward-only write iterator fail.
* `WritesDone`: no write is behind when a sweep begins or the thread has ended.
* `CallsReturn`: no call waits forever.

### ServerStatus and MPIMonitor

`ServerStatus` is what the command client knows of the servers: `alive`, which it cannot
see, and `timeout`. `MPIMonitor` implements it with pings: `SendPing` and `NotePing` are
separate because the code marks the ping as pending after it has sent it, and the
other thread (`ReceivePong`) may be faster. The time a ping takes is not modelled: any
ping without an answer may be late. Each step that changes a status contains the step of
`ServerStatus` it is, so that implementing it is a matter of reading the definitions.

* `OnePingAtATime` (a theorem of `MPICommandProofs`): no server is pinged while a ping to it or
  its answer is on its way.
* `ServerRecovers`: a server that answers does not stay in timeout. It may (section 6).

### JobQueue and MPICommand

`JobQueue`: a job is submitted for a server or for any, runs at most once, on a free
server and the one it is meant for, and its outcome is what its run gave.
`MPICommand` EXTENDS `ServerStatus`, of which its monitor is an instance. `server` and
`response` are the two lists of the client, `busy` the flag in the server list,
`queuePc`, `responsePc` and `mainPc` where the queue service, the response handler and
the application are; `queueEvent` and `responseEvent` are the two events. A step ends
wherever another thread could make a difference: `Match` looks at a copy of the
servers' status, `Send` uses it later; a service's look at its list, its wait and
its clearing of the event are separate; `MakeGroup` enters the group in the list before
`KeyRequest` enters it in each request. `SendFails` is the exception of a send.

* `IsJobQueue`: the threads together are a job queue.
* `OneCommandPerServer`, `NoServerLeaked`: a server has at most one command, is busy as
  long as it has one, and not any longer unless a send has failed.
* `NoLostWakeup`: a service does not wait while there is work.
* `FirstComeFirstSent`: no request is overtaken by a later one for the same target.
* `CallsReturn`: a blocking call returns unless its server is taken by a failed send or
  all servers have timed out; `stop_services` ends.

### MultiFile and VirtualFiles

`VirtualFiles`: each name is a file of its own; a death may spoil only the files
touched since the last flush. In `MultiFile`, `mem[p]` is a process' `MultiFileBase`:
`info` with the block numbers, size and buffer of each file, `nrBlock`, `freeBlocks`
and `changed`; `header` and `disk` are in the file. `holder` has the table's lock, which
is released after a flush. `Write` and `Read` go block by block as `read` and `write`
do: through the buffer if it has the block, directly if the block is whole, or by loading it,
which writes the old one. The free blocks are kept in order by the code and are a set.
`gaps` and `touched` are history: units a write has skipped, which nobody reads, and
files changed since the last flush. Each of `flush`'s writes is a step, and a process may
die in between. The code never calls `resync` when it gets the lock of a table;
`Resyncs` is whether it does.

* `BlocksUnshared`: a block is in one file or on the free list, and none is lost.
* `ReadsContent`: a read gives the file's content, from buffer and blocks.
* `IsVirtualFiles`: `MultiFile` implements `VirtualFiles`, deaths included.
* `SeesFlushed`: who gets the lock sees what others flushed. It does not (section 6).

### StringBuckets

`store` is the buckets, as the cache gives them, and the handler: `current` to
`changed` are its copy of one string bucket with that bucket's header, `last` is
`itsLastBucket`. `index` is `SSMIndex`, an entry for each data bucket with its last row.
A cell is the three Ints of the code, or a short string in their place. The operators of
the handler map a store to the one after the call (`Put`, `PutShape`, `RemoveUnits`,
`Replace`, `GetData`), with the flush of the copy whenever another bucket becomes the
current one. A loop of the handler, and the recursion of `remove`, are a function of the
number of turns (`PutTurn`, `RemoveTurn`, `ReplaceTurn`, `GetTurn`), with as many turns
as there can be; those after the last change nothing. `PutString`, `PutArray`, `SetShape`, `Get`, `AddRow`, `RemoveRow` and
`RenewColumn` (a column is removed and another takes its place) are the calls of the
columns and of `SSMBase`; `Resync` is the release and acquisition of the lock, so that
what another process does in between is what this one does with a fresh copy.
A unit of a bucket stands for some bytes and tells of which value it is which part.
What is left of a value after its removal, or in the copy past the used length, is taken
to be zeroes: reading it would be an error whatever it is. Any new bucket is the least
free one; all columns are in one index.

* `HoldsWhatWasPut`: each cell holds what was put into it last.
* `BytesCounted`: no byte belongs to two values; the header of every bucket counts what
  the cells use of it; every bucket that nothing uses was given back.

## 4. What the runs check

| Run | Instance | Shows |
|---|---|---|
| `LockFileTwo` | 2 processes, one permanent and one AutoLocking, one attempt, many, or attempts that end in a blocking request, deaths, fairness | types, true flags, exclusion, a reader that keeps its lock; every request returns, unless the list has lost it |
| `TableSyncKeys` | AutoLocking or UserLocking, data and keywords, refused attempts before one that waits, deadlocks after which a process unlocks, deaths outside a flush, 3 updates | all properties of TableSync but those about the locks, which `TableSyncColumns` checks and the theorems prove |
| `TableSyncData` | UserLocking, 2 storage managers, refused attempts, deaths outside a flush, 3 updates | freshness and refinement, also when lock attempts are refused |
| `TableSyncColumns` | AutoLocking or UserLocking, columns and column keywords, locks only taken by the calls themselves, 2 updates | accesses are locked and the flags true even through exceptions, and through locks that calls take and release themselves |
| `BucketCacheStore` | 3 buckets, caches of 0, 1 and 2 slots, LRU wrap at 3, buckets removed and the cache resized in any order, except a cut that makes it forget a bucket | refinement and consistency for SSM, ISM and TSM |
| `MPICommand` | 2 servers, one of which may be late, come back, or die, 2 requests for any server, a given one or both, a send that may fail | all properties of MPICommand |
| `LookAhead` | a chunk of 2 subchunks and one of 1, a ring of 2, 2 writes, 1 selection, 2 restarts | all properties of LookAhead |
| `StringBuckets` | 2 rows of a string and an array, buckets of 4 units, strings of 1 (in the cell), 2 and 5 units, an array of 3 and a shape of 2, 4 buckets | both properties of StringBuckets |
| `MultiFile` | 1 process that may die and start anew, 2 files, blocks of 2 units, 3 blocks, 5 changes | all properties of MultiFile but `SeesFlushed` |

The runs that end in a violation are in section 6.

Bounds, and why they are enough. `Proc`: two processes give every pair of holder
and requester, and overflow the request list, since a process may be in it more
than once. `NrReqId` is 2 instead of 32 for that. `MaxChange` bounds the
updates of the keywords and of one storage manager's data, together, and the counted ones of
the table file; three allow a process to miss one update, see the next and update on
top of it. With columns two are enough: the first makes two processes disagree
about their number, and the one that has not noticed meets the exceptions of `lock` and
`syncTable`. The
bound is a guard of the calls that begin an update, so no call is cut in half. `MaxLRU` is 3
instead of 2^32-1, so that the counter wraps in the middle of ordinary use.
`MaxBuckets` 3 with 2 slots gives evictions, extensions and a free list of more
than one bucket. `Sizes` has 0 where `TSMCube` resizes to it.

`StringBuckets`: the long string takes two buckets wherever it begins, the array one or
two, the short string leaves a rest when it replaces the long one, and a rest of one unit is
too little to begin in (`NearlyFull`, 50 bytes in the code). Two rows share their data bucket; with
`StringBucketsRows`, which holds too, three rows need a second one, which may get empty.
In the run an application does not remove a row that has an array in it
(`ArrayRowsStay`), and sets the shape of an array only where there is none
(`ShapeOnce`): section 6 says what happens otherwise.
`MPICommand`: with two servers one can fail while the other goes on; two requests
compete for a server, overtake, and are pushed together. `MaxFaults` 1 is the one
timeout, death, late answer or failed send. `LookAhead`: `TwoChunks` has the step within a
chunk, the step to the next and the end; a ring of 2 is full while the third subchunk is
filled; two writes can be for one subchunk or for two, one selection is made before or after
a restart, and a second restart meets the reset of the first at any point.
`MultiFile`: blocks of 2 units have whole and partial writes; with 3 blocks a file takes
blocks from the free list and from the end in one write; five changes are enough to
write two files, remove one, and reuse its blocks. Files, values and processes are
interchangeable there (`SYMMETRY`); the properties of that run are safety properties. With two processes, `Resyncs =
TRUE`, and two blocks, all its properties hold, `SeesFlushed` included: that is what the
call of `resync` would give.

The runs of `MPICommand`, `LookAhead` and `MPIMonitor` do not check deadlock, because the
services may be stopped, the iterator may be gone, and the bounds be reached.

What the constants leave out, the violations show to be left out for a reason:
`MayCrash = "clean"` keeps a process from dying between its data and its counters. No passing
run of `AccessFresh` has columns added. `TableSyncKeys` has attempts that are refused while
`lock` goes on, but no `lock` that gives up, and a process unlocks after a deadlock
(`Undeterred = FALSE`); `TableSyncData`, where no keywords change, has both.
`Forgetful = FALSE` excludes a resize that forgets a bucket; everything else that SSM, ISM and
TSM do with a cache is in the run, also removing buckets and making the cache smaller.

Fairness. In `LockFile!FairSpec`: a process goes on with a call it has
begun (weak fairness of `Acquire`); the kernel serves a blocked request that is
grantable again and again (strong fairness of `WaitGranted` for a blocked
process: `F_SETLKW` is a queue in the kernel); and a process that has the lock and is not
in a request gives it up in the end in its own way (strong fairness of `GivesUp`): one
with AutoLocking only if it sees a request in the list when it accesses its table again,
one with PermanentLocking by closing the table, any other at the end of the scope of a
`TableLocker`. Without this no lock could
promise that a request returns. With two processes an entry gets lost when the holder
removes its own entry and writes the list back; `RequestReturns` has this
exception, and `LockFileAuto` shows it. In `LookAhead`: both threads run on (weak fairness of
`Vlat`, and of `Main` within a call); the application need not make another call. In
`MPICommand` and `MPIMonitor`: the service threads of the client and the servers that are
alive run on, a dead server is found to be one (what the monitor does after some
rounds without an answer), and the application finishes the call it is in. The late
answer of a server alive is not forced.

Every checked property has a mutant in `PROJECT.json`: a change of one
definition, as a slip in that code would make it, with which TLC finds the
property violated. The mutated forms stand before the definitions they belong to
("As it would be if ...").

## 5. What is proved

For any set of processes, without bounds:

* `LockFileProofs`, of `FileLocker`: `LockerInvariant`, `FlagsAreSound`, `WritersExclude`. The
  inductive invariant is the types, `KernelExclusive` (no assumption on `fcntl` but its
  conflict rule) and `FlagsSound`. `FlagsSound` alone is not inductive: that a
  refused writer still has its read lock exactly if its second request is granted needs the
  kernel's exclusion (`OwnLockAgain`).
* `LockFileProofs`, of `LockFile`: `TypeCorrect` (no list grows beyond `NrReqId`, with the
  lemmas on `WithRequest` and `WithoutRequest`). Each of its actions contains one of
  `FileLocker` or leaves the lock alone, which the lemma `LockFileImplementsLocker` says, so that
  what holds of the bare lock holds of the protocol: `LockFileExcludes` and `AskingIsHarmless`. The assumptions are those of the
  module `LockFile` on its constants (`LockFileAssumption`).
* `TableSyncProofs`, for any number of data managers and any `MaxChange`, with all kinds of
  access and deaths anywhere unless it says otherwise:
  * `TypeCorrect`. `TypeOK` is not inductive, because `lock` goes on at `call[p].then`;
    `LockReturns` says that this is an access or the end of the call.
  * `HasLockIsHonest`, no assumption. `LockHonest` leaves out the processes at "lock",
    so it says nothing to start from when `lock` returns. `LockState` says what they may be:
    `Honest`, or `Forgotten` (the kernel has dropped the lock, the flags have not
    noticed), and that the kernel's locks exclude each other.
  * `AccessIsLocked`, if `MaxWait = "forever"`. `AccessState` adds that a request made
    for an access waits and is for the lock the access needs. Without the assumption
    the property is false (`TableSyncImpatient`).
  * `UpdatesAreLocked`, if also no columns are added. `UpdateState` adds that a process that
    is going to synchronize has nothing unwritten, that one which is not has not lost its
    lock, and that a release gets to the kernel only when everything is written. Without the
    assumption it is false (`TableSyncLateFlag`).
  * `AccessIsFresh`, `CountersTellTheTruth` and `TableIsShared`, under `SteadyUse`, whose
    parts are the cases in which the code does not keep the promise: a lock that is
    waited for only so long is ignored when it is refused (`TableSyncImpatient`); a refused
    write request leaves a lock on a table that is not synchronized, when it is the last one
    (`TableSyncRefused`), or when the one that waits ends in a deadlock and the
    process does not unlock (`TableSyncDeadlock`), which both need keywords that others change; `addColumn` marks the table as changed too
    late (`TableSyncLateFlag`); a column's keywords may be changed after the flush; and a
    death between data and counters hides the data. Attempts that are refused, before or after `syncTable`, releases,
    deadlocks, deaths elsewhere, any number of processes and data managers remain.
    `CountersTell` compares two numbers that differ again after the next update;
    `CountState` adds what makes the next number new: no process knows a higher count
    than the file has, and a process that is synchronized under a lock knows the one in
    the file. It also says when counters may lag behind the data: only while a
    writer is between its data and its counters ("putInfo"), under its write lock.
    `AccessFresh` follows with `AccessState`, since nobody else can be at "putInfo" then.
    The refinement maps the shared table to what the one process with unwritten
    updates has (`OneWriter`), or else to the file; a step that begins, makes or flushes an
    update is mapped with `SharedRight`, the others do not change it.
* `MPICommandProofs`: `OneCommand`, for any number of servers and requests, any
  faults and targets. `OneCommandPerServer` is not inductive: that a server about to be
  sent a request has no command depends on `Match`, several steps before. `CommandInv`
  adds the types (`CommandTypes`), that the requests in the queues are registered
  (`QueuesRegistered`), that each of the requests matched or in hand has a
  server of its own which is not busy (`OwnServers`), and what the application's call
  has to register (`CallInv`).
  On `CommandInv`, with nothing assumed of faults or their order,
  `RequestInv` says where a request can be: registered and in one of the queues, in the
  hand of the queue service, with one server, in an answer on its way, or received
  (`Apart`), with an answer that is what running it gave (`AnswersTrue`). From it follow
  `TypesCorrect`, `WakeupsArrive` (the services clear their event before they look, so
  an event is set or the service is not yet asleep), `ServersComeBack` (a server counts
  as busy only while a request is `At` it, or its send raised an exception) and
  `SentInOrder`, which needs `MatchingInOrder`: what `Match` takes out of the middle of
  the queue leaves nothing behind that came first and is for the same server.
  `ClientIsJobQueue` is the refinement of `JobQueue`, one lemma per action.
  The module ends with the pings of `MPIMonitor`, for any number of servers and faults:
  `MonitorTypes`, and `OnePingAtATime`. `pongPending` is reset by the thread that receives the
  answer and set by the other one after it has sent the ping, so it does not tell by itself:
  `PingNoted` adds that a ping on its way is noted, or is the one that is about to be. The
  lemma `MonitorIsStatus` says that a step of the pings is a step of `ServerStatus` or none,
  which holds as the definitions are written.
* `LookAheadProofs`: `RingIsOrdered`, for any layout, ring size and use, roving
  included. `RingInOrder` says nothing of what is being filled; `RingInv` adds that
  there is room from `waitUntilFillCanStart` to `fillComplete` (`RingRoom`), and that
  the subchunk being filled is `readAt` and after all those in the ring (`RingOrder`).
  `TypesCorrect`, roving included too; `TypesInv` adds where in the layout each thread is.
  `NothingThrows`, `AnswersAreRight`, `WritesArrive` and `LookAheadIsIterator` assume
  `~MayRove`, that the application visits subchunks in order: with `origin` and
  `nextChunk` in the middle of a chunk the code throws (`LookAheadRove`). Their invariant,
  `IterationInv`, relates three places, how far the main thread has read (`ToRead`), what
  the VLAT has filled (`FilledTo`) and what it has announced (`ListedTo`):
  * `ListInv` and `ChunkListInv`: between what the main thread asks and what is announced
    the lists have everything, and nothing beyond it, so that a list without an
    answer means "wait" and never "no";
  * `SpanInv`: the ring is what is filled and not read;
  * `AheadInv`: what is in the ring is as the application has written it, under
    the selection in force, although the writes may be done later;
  * `QueueInv` and `PendingInv`: queued writes are of subchunks that were read, in
    ascending order from where the writing iterator is, and the measurement set with
    them is what was written;
  * `FlagsInv`, `SweepInv`: which of these may be broken between the request of a reset
    and its answer.

* `MultiFileProofs`, for any processes, names, values, block size and bounds, with deaths
  and with or without `Resyncs`: `TypesCorrect` and `BlocksAreUnshared`. Neither is
  inductive: a process that gets the lock without `resync`, or that crashed and opens the
  file again, starts from a copy or a header that `BlocksUnshared` must hold of, and `extend`
  needs room for what it appends. `IInv` says of each copy, held or not, and of the
  header, what `BlocksPlaced` says of each block (`Placed`), and that every block of a
  virtual file can be read: it is in the file, or lies before the block that is in the
  file's buffer and dirty (`ReachedTo`), since what is written beyond the end of the file
  fills the gap. The bounds of `extend` follow from the order of an allocation
  (`AllocationIs`): it ascends, and appends only when it has taken all free blocks. What the
  loops of `write` and `read` do is an induction over their turns (`PutLoop`, `GetLoop`
  with `PutTurn`, `GetTurn`), for which `TurnInduction` derives induction over a set
  from the well-foundedness of the natural numbers.
* `MultiFileProofs`, on top of `IInv`: `ReadsGiveTheContent` and
  `VirtualFilesImplemented`. They assume `Fresh`, that there is one process or that who
  gets the lock reads the header again (`Resyncs`). The code does not read it again, and
  with more processes the property is false (`MultiFileLock`); the run `MultiFile` is the case
  of one process. `AbsentAssumption` says that the mark for "no such file" is no content.
  A read looks at one copy of the header, one buffer and the file, and `ReadsContent` says
  nothing of what these hold between reads; `ContentInv` does, for the copy of the process
  that has the lock or could get it as it is (`Speaks`):
  * no two files of a copy, or of the header, have one name (`UniqueNames`);
  * a copy differs from the header only in files changed since the last flush
    (`Untouched`), so that a crash, which leaves the header, loses changes of these only;
  * a clean buffer has what its block has in the file, and a dirty one is of a
    changed file (`BufferTrue`, `InfoTrue`);
  * every unit of a file that was not skipped by a write beyond its end is in the
    buffer or in the file (`Present`).

  Each action has a lemma that says what it does to the contents of the files
  by name: `KeepsView` (nothing changes, as in a read that replaces the buffer, or a
  flush) or `ChangesView` (one file does, as in a write, a creation or a removal). That a
  write of several blocks leaves other files alone rests on `BlocksPlaced`.
* `BucketCacheProofs`, for any number of buckets, contents, cache sizes and value at
  which the LRU counter wraps: `TypesCorrect`, `CacheIsTrue`, `FreeListIsTrue`, `LastUsedStays`
  and `CacheIsStore`. They assume `~Forgetful`, that no resize makes the cache forget a bucket
  it keeps (`Forgets`): SSM and ISM remove buckets, and `setCacheSize` can make their
  cache smaller, and when the slot a bucket was removed from goes while the bucket is in
  another one that stays, `CachedWhereKnown` is false (`BucketCacheShrink`). `IInv` adds to what the
  runs check:
  * `Marked`: what is in a used slot and not in the file is marked as dirty, and a
    slot that is marked has a buffer, so that an eviction loses nothing;
  * `Whole`: a bucket that `initializeBuckets` has not yet made is in no slot, and the
    others have contents;
  * `IsFreeList`: the links from `its_FirstFree` through the contents of the buckets, in
    the cache or in the file, pass `its_NrOfFree` different buckets and end;
  * `Aged`: no slot is younger than the counter, and only one is as young.

  `CachedWhereKnown` is broken inside `getSlot`, where a slot belongs to no bucket; `Linked`
  and `Marked` therefore leave out a set of slots. Each private function has a lemma that
  says what it does to the content of every bucket, in the terms of `Takes` (a bucket
  comes into the cache), `Keeps` (nothing changes) and `Changes` (one bucket does); what
  the loops of `initializeBuckets` and `flush` do is an induction over their turns
  (`InitializeLoop`, `WriteLoop`). `Outcomes` then gives each call one of six effects on the
  buckets and the free list, and invariant (`Preserved`) and refinement (`StepIsStoreStep`)
  follow from these alone.
* `StringBucketRowsProofs`, with the lemmas of `StringBucketsProofs`: `PutIsHeld` and
  `BytesAreCounted`, for any columns, values and their sizes, any length of the buckets,
  rows per bucket and bounds. They assume what the runs do, `ArrayRowsStay`, and
  for the second one `ShapeOnce`; without them the properties are false
  (`StringBucketsStale`, `StringBucketsShape`). `StringBucketsAssumption` has it that the
  columns are finite, that a value of no column is empty, and that `put` does not begin in a
  full bucket (`NearlyFull`, 50 in the code, is above 0).

  Neither property is inductive: both follow a value from its cell through the headers of its
  buckets, and say nothing of bytes that no cell reaches. `IInv` says that there is a layout
  of the store (`IsLaidOut`): for the cells of all data buckets, also the places that no row
  has yet, the value of each (`val`) and where each unit of it is (`at`).
  * `Laid`: a unit of a value is at the next byte, or where the bucket is full at the
    first byte of the next one (`Linked`); no byte is of two units (`Apart`), and all
    lie before what is used (`PlacesUsed`). The copy of the handler counts for its bucket;
  * `Counted` and `Full`: the header counts the bytes without a unit, and no string bucket
    is without a unit. Without `ShapeOnce` only the first as an upper bound is left, which
    `PutIsHeld` does with: a bucket is never given back too early;
  * `HoldsIn`: each byte holds its unit; `Written`: a copy not marked as changed is that
    of the file; `Fits`: each cell tells where its value begins, and how long it is;
  * `Agreed`: the cells at the places of a row hold what was put for it, and places
    without a row hold nothing, so that a new row is empty.

  In the middle of an operation a value has only some of its units: a prefix while
  `putData` goes on, a suffix while `remove` does (`CanCut`, `HasCut`). Each turn of a loop has a
  lemma on the layout, and the loop is an induction over its turns. In `StringBucketRowsProofs`
  the cells move: while a row is removed, the units of a value stay where they are and
  belong to another cell (`Renamed`), column after column. `IndexOk` gives each row one
  entry and one place in it.

Only model-checked:

* all liveness (`RequestReturns` of `LockFile`, `CallsReturn` of `LookAhead` and of
  `MPICommand`): it needs fairness and ENABLED;
* `LookAhead` for an application that roves, except types and the order of the ring.

## 6. Where the code and its documentation differ

Three have a run that ends in a violation of a property that states the
documentation, and an entry in `PROJECT.json` that quotes it.

1. `MPIPong`: a ping is noted as pending after it was sent. If its answer is faster, the
   server is never pinged again and times out for good (`ServerRecovers`).
2. `MultiFileLock`: the header of a MultiFile is not read again when a process gets the
   lock of the table, so it does not see what others wrote (`SeesFlushed`).
3. `TableSyncDeadlock` (`AccessFresh`): after `syncTable` has dropped the locks, a refused
   attempt for the write lock takes the read lock again, of a table that is not synchronized.
   If the attempt that waits ends in EDEADLK, `lock` throws, and the read lock stays. Who goes on
   after that reads old data, since "when the table is already locked (read locked is
   sufficient), no synchronization is needed" (`PlainTable.cc:425`).

Eleven more have a configuration beside the others, with which TLC finds the named
property violated:

4. `BucketCacheShrink` (`CachedWhereKnown`): `removeBucket` leaves the bucket's number in its
   slot. If the bucket has been given out again and is in another slot, a `resize` that
   clears the old slot sets `its_SlotNr` of the bucket to -1, "not in cache"
   (`BucketCache.h:351`), and an update of it may be lost. SSM and ISM remove buckets, and
   `SSMBase::setCacheSize` and `ISMBase::setCacheSize` resize their cache to a smaller size.
5. `LockFileAuto` (`RequestHeard`): the holder writes the request list back from its copy when it
   removes its own entry, and so loses that of a process that waits. With AutoLocking
   the lock is released if "another process wants to access the table" (`TableLock.h:96`); the
   holder finds the list empty and keeps it.
6. `MPIGroup` (`GroupSignalled`): `get_command_response_event` never sets its event if a
   response came before the request got the key of its group.
7. `LockFileRemove` (`RemovesOwnRequest`): `removeReqId` keeps its own entry and loses
   the last one.
8. `TableSyncUse` (`OpenIsInUse`): after `syncTable` the table does not count as in use
   any more.
9. `TableSyncImpatient` (`AccessLocked`): with a finite `maxWait` a refused lock is ignored.
10. `TableSyncRefused` (`AccessFresh`): a write request that is refused after `syncTable`
   has dropped the locks leaves a read lock on a table that is not synchronized.
11. `TableSyncLateFlag` (`UpdatesLocked`): `addColumn` marks the table as changed after
   the call that may have flushed and released it.
12. `LookAheadRove` (`RoverServed`): `origin` in the middle of a chunk, or `nextChunk` before
   its end, finds another subchunk in the ring and throws.
13. `StringBucketsShape` (`BytesCounted`): `putShape` makes a new last bucket before it
   knows whether it needs one. Where the new shape takes the place of an old array, it goes on
   in that array's bucket; the new one keeps a header of zeroes and can never be given
   back, although "when the string part is deleted, the bucket is added to the free
   bucket list" (`SSMStringHandler.h:80`).
14. `StringBucketsStale` (`HoldsWhatWasPut`): `SSMDirColumn::deleteRow` does not clear the
   cell of the last row of a data bucket, as `shiftRows` does "so a putString on a new row
   finds zeroes" (`SSMColumn.cc:190`): a new row has the array of the removed one. In the
   middle of a bucket the array of a removed row is never removed from its string bucket
   (`BytesCounted`).

The models show more, each with a change of the constants or a one-line property:

* `addReqId` writes the list from the copy the process has, so a waiting process may not
  be in the list in the file (`LockFile`: `pc[p] = "blocked"` with `reqFile = <<>>`).
* `getReqId` converts in the wrong direction (`GetReqId` leaves `reqId` alone).
* The exception for another number of columns leaves lock and counters in place, and later
  accesses are not synchronized (`AccessFresh` with "column" in `Kinds`).
* A crash between data and counters hides the new data (`AccessFresh` with
  `MayCrash = "any"`).
* Without a user lock, a column's keywords are changed after the flush that should
  write them (`ColumnKeyword`, the branch "changing").
* A write may wait until the next call of the reader, because `enqueue` notifies without
  the mutex the VLAT waits with (`WritesHappen` in `LookAhead` with a ring of 1).
* A request for any server that has not been sent is waited for forever when all servers have
  timed out, and one that could not be sent takes its server for good (the two exceptions in
  `CallsReturn` of `MPICommand`).

## 7. What is not modelled, and why

The components with status `not_modelled` in `PROJECT.json` are numeric or
sequential, or stand in the plan. Within the modelled components: `ENOLCK`
treated as success makes every lock property false by definition; the NoReadLocking
modes promise nothing without an explicit `resync`; the inspection interval and the
25-call counter of `LockFile::inspect` are replaced by a free choice, which allows more
behaviours than the code; the sync data of external fillers, creation and deletion of
tables, rows, and the removal of columns are left to later work; `showLock` and the
statistics of the cache change nothing that another component sees.

Of `mpi4casa`: the start of the services, the control signals at the end (which wait for
servers that may have died meanwhile), `wait_for_command_request_sent` (nothing calls it),
two application threads (the request counter has no lock; the code uses one), and the
virtual frame buffers. Of the look-ahead: exceptions while data are read, which end the
process; the columns of a buffer; and the copies for the second visibility iterator
(`AsynchronousInterface2`, `VLAT2`, `VisibilityIteratorImplAsync2`), which have the same
protocol. Of `MultiFile`: a header larger than a block, which is written in two parts; failing
writes; reading what was never written; `reopenRW`, `truncate` and `MultiHDF5`. Of the standard
storage manager: the header and the index in the file, columns of numbers, strings of
fixed length, and the free space of `SSMIndex` (a column added where another kind of column was
removed finds, in the places of rows that are added later, what that one left there:
`SSMColumn::addRow` clears only the rows there are).

Some hazards of the code have no property and no entry: ENOLCK treated as success
(`FileLocker.cc:127`), the sync data of external fillers without a column count
(`TableSyncData.cc:149`), `resync` dropping a write lock (`PlainTable.cc:538`), and SSM's
cache of fewer than two slots (`SSMBase.cc:344`).

## 8. Running

    tlc -config LockFileTwo.cfg LockFile.tla
    tlc -config TableSyncKeys.cfg TableSync.tla
    tlc -config LookAhead.cfg MCLookAhead.tla
    tlc -config MPICommand.cfg MPICommand.tla
    tlapm LockFileProofs.tla

A run is of the module its name begins with. `MCLookAhead` gives the layout of the
measurement set, `MCMultiFile` the symmetry, `MCStringBuckets` the sizes of strings; they are the
modules to check for the runs `LookAhead*`, `MultiFile*` and `StringBuckets*`. `MPIPong` is of `MPIMonitor`, `MPIGroup` of
`MPICommand`. Everywhere else the constants are model values and small sets that the
configuration gives by itself.
