----------------------------- MODULE MultiFile -----------------------------
(***************************************************************************)
(* casa/IO/MultiFileBase.cc, MultiFile.cc and MFFileIO.cc: virtual files in   *)
(* the blocks of one file.  Each process that has the file open has a copy of  *)
(* the header, and for each virtual file a buffer for one block; who holds    *)
(* the lock of the table may change them and flushes when it gives the lock   *)
(* up.  A process may die between any two writes to the file.                 *)
(***************************************************************************)
EXTENDS Integers, Sequences, FiniteSets, SequencesExt

CONSTANTS
    Proc,        \* the processes that may have the file open
    Names,       \* the names of virtual files
    Values,      \* what may be written to a unit of a file
    Zero,        \* what memset and the file system fill with
    Gap,         \* what a unit holds that was skipped
    Absent,      \* there is no such file
    None,        \* no process, no name
    BlockSize,   \* itsBlockSize, in the units the application writes
    MaxBlocks,   \* bound: the blocks of the file
    MaxSize,     \* bound: the units of a virtual file
    MaxChange,   \* bound: the calls that create, remove or write a file
    UseODirect,  \* itsUseODirect
    MayCrash,    \* whether a process may die
    Resyncs      \* whether who gets the lock calls resync

ASSUME MultiFileAssumption ==
    /\ BlockSize \in Nat \ {0}
    /\ MaxBlocks \in Nat /\ MaxSize \in Nat /\ MaxChange \in Nat
    /\ None \notin Proc \cup Names
    /\ UseODirect \in BOOLEAN /\ MayCrash \in BOOLEAN /\ Resyncs \in BOOLEAN

ASSUME AbsentAssumption == Absent \notin Seq(Values \cup {Zero, Gap})

VARIABLES
    mem,      \* MultiFileBase of each process
    opened,   \* the processes that have the file open
    holder,   \* the process that has the lock
    stage,    \* whether it flushes
    header,   \* the header in the file
    disk,     \* the other blocks of the file
    gaps,     \* the units of each virtual file that were skipped (history)
    touched,  \* the virtual files changed since the last flush (history)
    changes   \* the calls that changed one so far

historyVars == <<gaps, touched>>
fileVars == <<header, disk>>
vars == <<mem, opened, holder, stage, fileVars, historyVars, changes>>

Offsets == 0..(BlockSize - 1)
Block == [Offsets -> Values \cup {Zero}]
ZeroBlock == [c \in Offsets |-> Zero]

Lesser(m, n) == IF m < n THEN m ELSE n
Greater(m, n) == IF m < n THEN n ELSE m

\* MultiFileInfo, with nothing in its buffer: as read from the header, as made for
\* a new file, and as made by deleteFile.
Info(name, blockNrs, fsize) ==
    [name |-> name, blockNrs |-> blockNrs, fsize |-> fsize,
     curBlock |-> -1, dirty |-> FALSE, data |-> ZeroBlock]
NewInfo(name) == Info(name, <<>>, 0)
NoInfo == NewInfo(None)

Kept(info) == [name |-> info.name, blockNrs |-> info.blockNrs,
               fsize |-> info.fsize]

\* writeHeader and readHeader; the buffers of a header just read are empty.
HeaderOf(m) == [info |-> [i \in DOMAIN m.info |-> Kept(m.info[i])],
                nrBlock |-> m.nrBlock, freeBlocks |-> m.freeBlocks]
FromHeader(h) ==
    [info |-> [i \in DOMAIN h.info |->
        Info(h.info[i].name, h.info[i].blockNrs, h.info[i].fsize)],
     nrBlock |-> h.nrBlock, freeBlocks |-> h.freeBlocks, changed |-> FALSE]

NrBlocks(size) == (size + BlockSize - 1) \div BlockSize

InfoValue == [name : Names \cup {None}, blockNrs : Seq(1..MaxBlocks),
              fsize : 0..MaxSize, curBlock : -1..(MaxSize - 1), dirty : BOOLEAN,
              data : Block]
MemValue == [info : Seq(InfoValue), nrBlock : 1..(MaxBlocks + 1),
             freeBlocks : SUBSET (1..MaxBlocks), changed : BOOLEAN]

TypeOK ==
    /\ mem \in [Proc -> MemValue]
    /\ opened \subseteq Proc
    /\ holder \in opened \cup {None}
    /\ stage \in {"ready", "flush", "release"}
    /\ header.info \in Seq([name : Names \cup {None},
                            blockNrs : Seq(1..MaxBlocks), fsize : 0..MaxSize])
    /\ header.nrBlock \in 1..(MaxBlocks + 1)
    /\ header.freeBlocks \subseteq 1..MaxBlocks
    /\ disk \in Seq(Block) /\ Len(disk) <= MaxBlocks
    /\ gaps \in [Names -> SUBSET (1..MaxSize)]
    /\ touched \subseteq Names
    /\ changes \in 0..MaxChange

\* A new file, whose first block is for administration; every process has
\* opened it.
EmptyHeader == [info |-> <<>>, nrBlock |-> 1, freeBlocks |-> {}]

Init ==
    /\ mem = [p \in Proc |-> FromHeader(EmptyHeader)]
    /\ opened = Proc
    /\ holder = None
    /\ stage = "ready"
    /\ header = EmptyHeader
    /\ disk = <<>>
    /\ gaps = [n \in Names |-> {}]
    /\ touched = {}
    /\ changes = 0

-----------------------------------------------------------------------------
(* Blocks of the file.  What is between its end and a block written is zero.  *)

DiskPut(d, b, block) ==
    [i \in 1..Greater(Len(d), b) |->
        IF i = b THEN block ELSE IF i <= Len(d) THEN d[i] ELSE ZeroBlock]

\* writeDirty
Flushed(info, d) ==
    IF info.dirty THEN DiskPut(d, info.blockNrs[info.curBlock + 1], info.data)
    ELSE d

\* With a block in the buffer.
Loaded(info, b, block, dirty) ==
    [name |-> info.name, blockNrs |-> info.blockNrs, fsize |-> info.fsize,
     curBlock |-> b, dirty |-> dirty, data |-> block]

\* The blocks of the range: the first one, from 0, and how many there are.
FirstBlock(offset) == offset \div BlockSize
NrTurns(offset, size) == NrBlocks((offset % BlockSize) + size)
Covers(offset, size, b, c) == b * BlockSize + c \in offset..(offset + size - 1)
IsWhole(offset, size, b) == \A c \in Offsets : Covers(offset, size, b, c)

-----------------------------------------------------------------------------
(* The lock of the table; ColumnSet::putFile flushes before it is released.   *)

Holds(p) == holder = p /\ stage = "ready"

\* A call that changes a virtual file.
Changes(p, name) ==
    /\ Holds(p)
    /\ changes < MaxChange
    /\ changes' = changes + 1
    /\ touched' = touched \cup {name}

Acquire(p) ==
    /\ holder = None
    /\ p \in opened
    /\ holder' = p
    /\ mem' = IF Resyncs THEN [mem EXCEPT ![p] = FromHeader(header)] ELSE mem
    /\ UNCHANGED <<opened, stage, fileVars, historyVars, changes>>

Flush(p) ==
    /\ Holds(p)
    /\ stage' \in {"flush", "release"}
    /\ UNCHANGED <<mem, opened, holder, fileVars, historyVars, changes>>

Dirty(m) == {i \in DOMAIN m.info : m.info[i].dirty}

\* flush writes the buffers first, in the order of the files.
FlushDirty ==
    /\ stage \in {"flush", "release"}
    /\ \E i \in Dirty(mem[holder]) :
        /\ \A j \in Dirty(mem[holder]) : i <= j
        /\ disk' = Flushed(mem[holder].info[i], disk)
        /\ mem' = [mem EXCEPT ![holder].info[i].dirty = FALSE]
    /\ UNCHANGED <<opened, holder, stage, header, historyVars, changes>>

FlushHeader ==
    /\ stage \in {"flush", "release"}
    /\ Dirty(mem[holder]) = {}
    /\ header' = IF mem[holder].changed THEN HeaderOf(mem[holder]) ELSE header
    /\ mem' = [mem EXCEPT ![holder].changed = FALSE]
    /\ holder' = IF stage = "release" THEN None ELSE holder
    /\ stage' = "ready"
    /\ touched' = {}
    /\ UNCHANGED <<opened, disk, gaps, changes>>

\* The holder dies; the kernel gives the lock back.  What is in the file of
\* the virtual files it has touched is any mixture.
Crash ==
    /\ MayCrash
    /\ holder # None
    /\ opened' = opened \ {holder}
    /\ mem' = [mem EXCEPT ![holder] = FromHeader(EmptyHeader)]
    /\ holder' = None
    /\ stage' = "ready"
    /\ gaps' = [n \in Names |-> IF n \in touched THEN {} ELSE gaps[n]]
    /\ touched' = {}
    /\ UNCHANGED <<fileVars, changes>>

\* The table is opened again.
Open(p) ==
    /\ p \notin opened
    /\ holder = None
    /\ opened' = opened \cup {p}
    /\ mem' = [mem EXCEPT ![p] = FromHeader(header)]
    /\ UNCHANGED <<holder, stage, fileVars, historyVars, changes>>

-----------------------------------------------------------------------------
(* Files.                                                                   *)

Ids(m) == {i \in DOMAIN m.info : m.info[i].name # None}
InUse(m, name) == \E i \in Ids(m) : m.info[i].name = name

\* A header that is to be written.
Changed(info, nrBlock, freeBlocks) ==
    [info |-> info, nrBlock |-> nrBlock, freeBlocks |-> freeBlocks, changed |-> TRUE]

\* deleteFile; the free blocks are kept in order, so that they are a set.
Deleted(m, id) ==
    Changed([m.info EXCEPT ![id] = NoInfo], m.nrBlock,
            m.freeBlocks \cup ToSet(m.info[id].blockNrs))

\* addFile takes the last free entry, if there is one.
Added(m, name) ==
    LET open == DOMAIN m.info \ Ids(m)
        id == IF open = {} THEN Len(m.info) + 1
              ELSE CHOOSE i \in open : \A j \in open : j <= i
    IN  Changed([i \in 1..Greater(Len(m.info), id) |->
                    IF i = id THEN NewInfo(name) ELSE m.info[i]],
                m.nrBlock, m.freeBlocks)

\* A new MFFileIO deletes the file that has its name.
New(p, name) ==
    /\ Changes(p, name)
    /\ IF InUse(mem[p], name)
       THEN \E id \in Ids(mem[p]) :
                /\ mem[p].info[id].name = name
                /\ mem' = [mem EXCEPT ![p] = Added(Deleted(@, id), name)]
       ELSE mem' = [mem EXCEPT ![p] = Added(@, name)]
    /\ gaps' = [gaps EXCEPT ![name] = {}]
    /\ UNCHANGED <<opened, holder, stage, fileVars>>

RemoveFile(p, id) ==
    /\ id \in Ids(mem[p])
    /\ Changes(p, mem[p].info[id].name)
    /\ mem' = [mem EXCEPT ![p] = Deleted(@, id)]
    /\ gaps' = [gaps EXCEPT ![mem[p].info[id].name] = {}]
    /\ UNCHANGED <<opened, holder, stage, fileVars>>

\* extend: the lowest free blocks first, then new ones at the end.
IsAllocation(m, new) ==
    \A i \in DOMAIN new :
        IF i <= Cardinality(m.freeBlocks)
        THEN /\ new[i] \in m.freeBlocks
             /\ \A j \in 1..(i - 1) : new[j] < new[i]
             /\ \A b \in m.freeBlocks : b < new[i] => \E j \in 1..(i - 1) : new[j] = b
        ELSE new[i] = m.nrBlock + i - 1 - Cardinality(m.freeBlocks)

\* The new blocks that are not from the free list.
NrAppended(m, new) == Greater(0, Len(new) - Cardinality(m.freeBlocks))

WithBlocks(m, id, new) == [m.info EXCEPT ![id].blockNrs = @ \o new]

\* As it would be if the blocks taken stayed on the free list.
ExtendedOnly(m, id, new) ==
    Changed(WithBlocks(m, id, new), m.nrBlock + NrAppended(m, new), m.freeBlocks)

\* As it would be if itsNrBlock counted them as well.
ExtendedAll(m, id, new) ==
    Changed(WithBlocks(m, id, new), m.nrBlock + Len(new), m.freeBlocks \ ToSet(new))

Extended(m, id, new) ==
    Changed(WithBlocks(m, id, new), m.nrBlock + NrAppended(m, new),
            m.freeBlocks \ ToSet(new))

\* As it would be if a whole block were always written to the file.
PutBlockDirect(s, nrold, offset, size, value, b) ==
    LET phys == s.info.blockNrs[b + 1]
        put(block) == [c \in Offsets |-> IF Covers(offset, size, b, c) THEN value
                                         ELSE block[c]]
        written == Flushed(s.info, s.disk)
        old == IF b >= nrold THEN ZeroBlock ELSE written[phys]
    IN  IF IsWhole(offset, size, b)
        THEN [info |-> s.info, disk |-> DiskPut(s.disk, phys, put(ZeroBlock))]
        ELSE IF b = s.info.curBlock
        THEN [info |-> Loaded(s.info, b, put(s.info.data), TRUE), disk |-> s.disk]
        ELSE [info |-> Loaded(s.info, b, put(old), TRUE), disk |-> written]

\* One turn of the loop of write: into the buffer when it has the block,
\* straight to the file when the block is written as a whole, or into the
\* buffer after the block was read, or made when the file did not have it.
PutBlock(s, nrold, offset, size, value, b) ==
    LET whole == IsWhole(offset, size, b)
        phys == s.info.blockNrs[b + 1]
        put(block) == [c \in Offsets |-> IF Covers(offset, size, b, c) THEN value
                                         ELSE block[c]]
        written == Flushed(s.info, s.disk)
        old == IF b >= nrold THEN ZeroBlock ELSE written[phys]
    IN  IF b = s.info.curBlock
        THEN [info |-> Loaded(s.info, b, put(s.info.data), TRUE), disk |-> s.disk]
        ELSE IF whole /\ ~UseODirect
        THEN [info |-> s.info, disk |-> DiskPut(s.disk, phys, put(ZeroBlock))]
        ELSE [info |-> Loaded(s.info, b, put(old), TRUE), disk |-> written]

Put(m, id, offset, size, value) ==
    LET nrold == NrBlocks(mem[holder].info[id].fsize)
        after[k \in 0..NrTurns(offset, size)] ==
            IF k = 0 THEN [info |-> m.info[id], disk |-> disk]
            ELSE PutBlock(after[k - 1], nrold, offset, size, value,
                          FirstBlock(offset) + k - 1)
    IN  after[NrTurns(offset, size)]

\* The units of a file that a write skips.
Skipped(fsize, offset) == (fsize + 1)..offset

Write(p, id, offset, size, value) ==
    /\ id \in Ids(mem[p])
    /\ Changes(p, mem[p].info[id].name)
    /\ LET m == mem[p]
           info == m.info[id]
           last == FirstBlock(offset) + NrTurns(offset, size)
           more == Greater(0, last - Len(info.blockNrs))
       IN  \E new \in [1..more -> m.freeBlocks \cup (m.nrBlock..MaxBlocks)] :
            /\ IsAllocation(m, new)
            /\ LET grown == IF last >= NrBlocks(info.fsize)
                            THEN Extended(m, id, new) ELSE m
                   s == Put(grown, id, offset, size, value)
               IN  /\ mem' = [mem EXCEPT ![p] = [grown EXCEPT !.info[id] =
                            [s.info EXCEPT !.fsize = Greater(@, offset + size)]]]
                   /\ disk' = s.disk
            /\ gaps' = [gaps EXCEPT ![info.name] =
                    (@ \cup Skipped(info.fsize, offset))
                        \ ((offset + 1)..(offset + size))]
    /\ UNCHANGED <<opened, holder, stage, header>>

\* As it would be if a whole block were always read from the file.
GetBlockDirect(s, offset, size, b) ==
    LET phys == s.info.blockNrs[b + 1]
        from == Greater(offset, b * BlockSize)
        todo == Lesser(offset + size, (b + 1) * BlockSize) - from
        got(block) == [i \in 1..todo |-> block[from - b * BlockSize + i - 1]]
        written == Flushed(s.info, s.disk)
    IN  IF IsWhole(offset, size, b)
        THEN [info |-> s.info, disk |-> s.disk,
              done |-> s.done \o got(IF phys <= Len(s.disk) THEN s.disk[phys]
                                     ELSE ZeroBlock)]
        ELSE IF b = s.info.curBlock
        THEN [info |-> s.info, disk |-> s.disk, done |-> s.done \o got(s.info.data)]
        ELSE [info |-> Loaded(s.info, b, written[phys], FALSE), disk |-> written,
              done |-> s.done \o got(written[phys])]

\* One turn of the loop of read.
GetBlock(s, offset, size, b) ==
    LET phys == s.info.blockNrs[b + 1]
        from == Greater(offset, b * BlockSize)
        todo == Lesser(offset + size, (b + 1) * BlockSize) - from
        got(block) == [i \in 1..todo |-> block[from - b * BlockSize + i - 1]]
        written == Flushed(s.info, s.disk)
    IN  IF b = s.info.curBlock
        THEN [info |-> s.info, disk |-> s.disk, done |-> s.done \o got(s.info.data)]
        ELSE IF IsWhole(offset, size, b) /\ ~UseODirect
        THEN [info |-> s.info, disk |-> s.disk, done |-> s.done \o got(s.disk[phys])]
        ELSE [info |-> Loaded(s.info, b, written[phys], FALSE), disk |-> written,
              done |-> s.done \o got(written[phys])]

\* What is left of read: the buffer, the file and what it has given.
Got(p, id, offset, size) ==
    LET info == mem[p].info[id]
        todo == Lesser(size, info.fsize - offset)
        after[k \in 0..NrTurns(offset, todo)] ==
            IF k = 0 THEN [info |-> info, disk |-> disk, done |-> <<>>]
            ELSE GetBlock(after[k - 1], offset, todo, FirstBlock(offset) + k - 1)
    IN  after[NrTurns(offset, todo)]

\* The application does not read what it never wrote.
Readable(p, id, offset, size) ==
    LET info == mem[p].info[id]
    IN  /\ Holds(p)
        /\ id \in Ids(mem[p])
        /\ offset < info.fsize
        /\ gaps[info.name] \cap ((offset + 1)..(offset + size)) = {}

Read(p, id, offset, size) ==
    /\ Readable(p, id, offset, size)
    /\ mem' = [mem EXCEPT ![p].info[id] = Got(p, id, offset, size).info]
    /\ disk' = Got(p, id, offset, size).disk
    /\ UNCHANGED <<opened, holder, stage, header, historyVars, changes>>

Next ==
    \/ FlushDirty \/ FlushHeader \/ Crash
    \/ \E p \in Proc :
        \/ Acquire(p) \/ Flush(p) \/ Open(p)
        \/ \E name \in Names : New(p, name)
        \/ \E id \in DOMAIN mem[p].info :
            \/ RemoveFile(p, id)
            \/ \E offset \in 0..(MaxSize - 1) :
                \E size \in 1..(MaxSize - offset) :
                    \/ Read(p, id, offset, size)
                    \/ \E value \in Values : Write(p, id, offset, size, value)

Spec == Init /\ [][Next]_vars

-----------------------------------------------------------------------------
(* Properties.                                                              *)

\* "A data block is never shared by multiple files", and none is lost: each
\* block has one place, in a file or on the free list; and a file has as many
\* as its size asks for.
BlocksPlaced(m) ==
    /\ \A i, j \in DOMAIN m.info :
        \A k \in DOMAIN m.info[i].blockNrs : \A l \in DOMAIN m.info[j].blockNrs :
            m.info[i].blockNrs[k] = m.info[j].blockNrs[l] => i = j /\ k = l
    /\ \A i \in DOMAIN m.info :
        /\ ToSet(m.info[i].blockNrs) \cap m.freeBlocks = {}
        /\ Len(m.info[i].blockNrs) = NrBlocks(m.info[i].fsize)
    /\ m.freeBlocks \cup UNION {ToSet(m.info[i].blockNrs) : i \in DOMAIN m.info}
            = 1..(m.nrBlock - 1)

BlocksUnshared ==
    /\ BlocksPlaced(header)
    /\ holder # None => BlocksPlaced(mem[holder])

\* What a virtual file has: in the buffer, or else in its block.
Content(m, name) ==
    IF ~InUse(m, name) THEN Absent
    ELSE LET id == CHOOSE i \in Ids(m) : m.info[i].name = name
             info == m.info[id]
             at(u) == LET b == (u - 1) \div BlockSize
                          c == (u - 1) % BlockSize
                      IN  IF b = info.curBlock THEN info.data[c]
                          ELSE disk[info.blockNrs[b + 1]][c]
         IN  [u \in 1..info.fsize |-> IF u \in gaps[name] THEN Gap ELSE at(u)]

Current == IF holder = None THEN FromHeader(header) ELSE mem[holder]

Virtual == INSTANCE VirtualFiles WITH
    Cells <- Values,
    files <- [n \in Names |-> Content(Current, n)]

\* Each virtual file is a file of its own, though its blocks are those of
\* files removed before, though its buffer holds what its block does not, and
\* though processes take turns; what a process did not touch since the last
\* flush survives its death.
IsVirtualFiles == Virtual!VirtualSpec

\* Any read gives what the file has.
ReadsContent ==
    \A p \in Proc : \A id \in DOMAIN mem[p].info :
        \A offset \in 0..(MaxSize - 1) : \A size \in 1..(MaxSize - offset) :
            Readable(p, id, offset, size) =>
                Got(p, id, offset, size).done =
                    SubSeq(Content(mem[p], mem[p].info[id].name), offset + 1,
                           Lesser(offset + size, mem[p].info[id].fsize))

\* MultiFileBase.h:124: the header is read back on open and resync, so that
\* who gets the lock sees what others have flushed.
SeesFlushed ==
    holder # None /\ touched = {} =>
        \A n \in Names : Content(mem[holder], n) = Content(FromHeader(header), n)

=============================================================================
