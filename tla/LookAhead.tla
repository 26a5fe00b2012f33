----------------------------- MODULE LookAhead -----------------------------
(***************************************************************************)
(* msvis/MSVis/AsynchronousInterface.cc, VLAT.cc and                        *)
(* VisibilityIteratorImplAsync.cc: a thread, the VLAT, reads a measurement   *)
(* set ahead of the main thread into a ring of buffers, and does the writes  *)
(* the main thread asks for.  One mutex guards the ring, the lists of chunks *)
(* and the requests, another one the write queue; every change notifies one  *)
(* condition, with or without the first mutex.  What a thread does within    *)
(* its critical section is one step, except while it does pending writes.    *)
(***************************************************************************)
EXTENDS Integers, Sequences, SequencesExt

CONSTANTS
    Layout,        \* the number of subchunks of each chunk
    NoBuffer,      \* no buffer is attached
    MaxNBuffers,   \* the buffers of the ring
    MaxWrites,     \* bound: the writes of the main thread
    MaxSelects,    \* bound: the selections it makes
    MaxRestarts,   \* bound: how often it starts the iteration anew
    MayRove        \* whether it may leave a chunk before its end, or go back
                   \* to the start of it

ASSUME LookAheadAssumption ==
    /\ Layout \in Seq(Nat \ {0}) /\ Layout # <<>>
    /\ MaxNBuffers \in Nat \ {0}
    /\ MaxWrites \in Nat /\ MaxSelects \in Nat /\ MaxRestarts \in Nat
    /\ MayRove \in BOOLEAN

VARIABLES
    mainPc,        \* where the main thread is in a call of the iterator
    at,            \* ViReadImplAsync::subchunk_p
    buffer,        \* ViReadImplAsync::visBufferAsync_p
    more,          \* what the last isValidChunk or isValidSubChunk said
    begun,         \* whether origin was called for this chunk
    written,       \* the last value the main thread wrote to a subchunk
    writes,        \* the writes so far, which are the values
    restarts,      \* the calls of originChunks so far
    wanted,        \* AsynchronousInterface::roviaModifiers_p
    applied,       \* the modifiers the iterators of the VLAT have
    vlatPc,        \* where the VLAT is
    readAt,        \* VLAT::readSubchunk_p
    writeAt,       \* VLAT::writeSubchunk_p
    datum,         \* the VlaDatum it is filling
    ring,          \* VlaData::data_p
    validChunks,   \* VlaData::validChunks_p
    validSubs,     \* VlaData::validSubChunks_p
    writeQueue,    \* WriteQueue::queue_p
    resetAsked,    \* viResetRequested_p
    resetDone,     \* viResetComplete_p
    endSweep,      \* sweepTerminationRequested_p
    endAll,        \* lookaheadTerminationRequested_p
    asleep,        \* the threads that wait for the interface to change
    stored,        \* what the measurement set holds
    failed         \* the assertion or exception that has ended a thread

mainVars == <<mainPc, at, buffer, more, begun, written, writes, restarts>>
vlatVars == <<vlatPc, readAt, writeAt, datum, applied>>
dataVars == <<ring, validChunks, validSubs>>
flagVars == <<resetAsked, resetDone, endSweep, endAll>>
vars == <<mainVars, wanted, vlatVars, dataVars, writeQueue, flagVars, asleep,
          stored, failed>>

NrChunks == Len(Layout)
SubChunks ==
    UNION {{<<c, s>> : s \in 0..(Layout[c + 1] - 1)} : c \in 0..(NrChunks - 1)}

\* SubChunkPair: the order, the increments, and the mark after the last one.
Before(p, q) == \/ p[1] < q[1]
                \/ p[1] = q[1] /\ p[2] < q[2]
NextSub(p) == <<p[1], p[2] + 1>>

\* As it would be without second = 0.
NextChunkKeeping(p) == <<p[1] + 1, p[2]>>

NextChunk(p) == <<p[1] + 1, 0>>
NoMoreData == <<NrChunks + 2, 0>>

Positions == SubChunks \cup {<<c, s>> : c \in 0..(NrChunks + 1), s \in 0..0}
                 \cup {<<c, Layout[c + 1]>> : c \in 0..(NrChunks - 1)}
Datum == [of : SubChunks, holds : 0..MaxWrites, selection : 0..MaxSelects]

TypeOK ==
    /\ mainPc \in {"app", "valid", "read", "chunk", "reset", "join", "gone"}
    /\ at \in Positions
    /\ buffer \in Datum \cup {NoBuffer}
    /\ more \in BOOLEAN
    /\ begun \in BOOLEAN
    /\ written \in [SubChunks -> 0..MaxWrites]
    /\ writes \in 0..MaxWrites
    /\ restarts \in 0..MaxRestarts
    /\ wanted \in 0..MaxSelects
    /\ applied \in 0..MaxSelects
    /\ vlatPc \in {"begin", "waitFill", "drainFill", "sleepFill", "start", "fill",
                   "complete", "write", "noMore", "waitReset", "drainIdle",
                   "sleepIdle", "drainReset", "final", "ended"}
    /\ readAt \in Positions
    /\ writeAt \in Positions
    /\ datum \in Datum \cup {NoBuffer}
    /\ ring \in Seq(Datum)
    /\ validChunks \in Seq(Nat)
    /\ validSubs \in Seq(SubChunks \cup {NoMoreData})
    /\ writeQueue \in Seq([of : SubChunks, value : 1..MaxWrites])
    /\ resetAsked \in BOOLEAN
    /\ resetDone \in BOOLEAN
    /\ endSweep \in BOOLEAN
    /\ endAll \in BOOLEAN
    /\ asleep \subseteq {"main", "vlat"}
    /\ stored \in [SubChunks -> 0..MaxWrites]
    /\ failed \in {"no", "reader", "writer"}

Init ==
    /\ mainPc = "app"
    /\ at = <<0, 0>>
    /\ buffer = NoBuffer
    /\ more = TRUE
    /\ begun = FALSE
    /\ written = [p \in SubChunks |-> 0]
    /\ writes = 0
    /\ restarts = 0
    /\ wanted = 0
    /\ applied = 0
    /\ vlatPc = "begin"
    /\ readAt = <<0, 0>>
    /\ writeAt = <<0, 0>>
    /\ datum = NoBuffer
    /\ ring = <<>>
    /\ validChunks = <<>>
    /\ validSubs = <<>>
    /\ writeQueue = <<>>
    /\ resetAsked = FALSE
    /\ resetDone = FALSE
    /\ endSweep = FALSE
    /\ endAll = FALSE
    /\ asleep = {}
    /\ stored = [p \in SubChunks |-> 0]
    /\ failed = "no"

\* The VLAT keeps the mutex of the interface while it does pending writes
\* before a wait or a reset.
MutexFree == vlatPc \notin {"drainFill", "sleepFill", "drainIdle", "sleepIdle",
                            "drainReset"}

NotifyAll == asleep' = {}
Running(thread) == thread \notin asleep /\ failed = "no"

-----------------------------------------------------------------------------
(* The main thread: ViReadImplAsync and ViWriteImplAsync.                   *)

InApp == mainPc = "app" /\ failed = "no"

\* selectChannel and the like: the modifier waits for the next reset.
Select ==
    /\ InApp
    /\ wanted < MaxSelects
    /\ wanted' = wanted + 1
    /\ UNCHANGED <<mainVars, vlatVars, dataVars, writeQueue, flagVars, asleep,
                   stored, failed>>

\* As it would be without the call of terminateSweep.
RequestResetOnly == resetAsked' = TRUE /\ resetDone' = FALSE /\ UNCHANGED endSweep

\* requestViReset: the flags.
RequestReset == resetAsked' = TRUE /\ resetDone' = FALSE /\ endSweep' = TRUE

\* It notifies the VLAT and waits.
OriginChunks ==
    /\ InApp
    /\ restarts < MaxRestarts
    /\ MutexFree
    /\ restarts' = restarts + 1
    /\ buffer' = NoBuffer
    /\ at' = <<0, 0>>
    /\ begun' = FALSE
    /\ more' = TRUE
    /\ RequestReset
    /\ asleep' = {"main"}
    /\ mainPc' = "reset"
    /\ UNCHANGED <<written, writes, wanted, vlatVars, dataVars, writeQueue,
                   endAll, stored, failed>>

\* The rest of requestViReset, woken and with the mutex again.
AwaitReset ==
    /\ mainPc = "reset"
    /\ Running("main")
    /\ MutexFree
    /\ IF resetDone
       THEN mainPc' = "app" /\ UNCHANGED asleep
       ELSE asleep' = asleep \cup {"main"} /\ UNCHANGED mainPc
    /\ UNCHANGED <<at, buffer, more, begun, written, writes, restarts, wanted,
                   vlatVars, dataVars, writeQueue, flagVars, stored, failed>>

\* A call that changes subchunk_p and then asks VlaData about it.
Call(allowed, position, asks) ==
    /\ InApp
    /\ allowed
    /\ at' = position
    /\ mainPc' = asks
    /\ UNCHANGED <<more, written, writes, restarts, wanted, vlatVars, dataVars,
                   writeQueue, flagVars, asleep, stored, failed>>

Origin ==
    /\ Call((more /\ ~begun) \/ (begun /\ MayRove), <<at[1], 0>>, "valid")
    /\ buffer' = NoBuffer
    /\ begun' = TRUE

Advance ==
    /\ Call(more /\ begun, NextSub(at), "valid")
    /\ UNCHANGED <<buffer, begun>>

NextChunkCall ==
    /\ Call(begun /\ (~more \/ MayRove), NextChunk(at), "chunk")
    /\ begun' = FALSE
    /\ UNCHANGED buffer

\* As it would be if isValidSubChunk did not drop anything.
SubsFromAll(p) == {validSubs}

\* VlaData::isValidChunk and isValidSubChunk: the loops pop the entries at the
\* front that are before the one asked for, which leaves the only member of
\* these sets.  Without a subchunk origin, which alone asks for subchunk 0,
\* finds no buffer and throws.
SubsFrom(p) ==
    {SubSeq(validSubs, n + 1, Len(validSubs)) : n \in
        {k \in 0..Len(validSubs) :
            /\ \A i \in 1..k : Before(validSubs[i], p)
            /\ k < Len(validSubs) => ~Before(validSubs[k + 1], p)}}
ChunksFrom(p) ==
    {SubSeq(validChunks, n + 1, Len(validChunks)) : n \in
        {k \in 0..Len(validChunks) :
            /\ \A i \in 1..k : validChunks[i] < p[1]
            /\ k < Len(validChunks) => validChunks[k + 1] >= p[1]}}

IsValidSubChunk ==
    /\ mainPc = "valid"
    /\ Running("main")
    /\ MutexFree
    /\ \E left \in SubsFrom(at) :
        /\ validSubs' = left
        /\ IF left = <<>>
           THEN asleep' = asleep \cup {"main"} /\ UNCHANGED <<mainPc, more, failed>>
           ELSE /\ more' = (Head(left) = at)
                /\ mainPc' = IF more' THEN "read" ELSE "app"
                /\ failed' = IF ~more' /\ at[2] = 0 THEN "reader" ELSE "no"
                /\ UNCHANGED asleep
    /\ UNCHANGED <<at, buffer, begun, written, writes, restarts, wanted, vlatVars,
                   ring, validChunks, writeQueue, flagVars, stored>>

IsValidChunk ==
    /\ mainPc = "chunk"
    /\ Running("main")
    /\ MutexFree
    /\ \E left \in ChunksFrom(at) :
        /\ validChunks' = left
        /\ IF left = <<>>
           THEN asleep' = asleep \cup {"main"} /\ UNCHANGED <<mainPc, more, buffer>>
           ELSE /\ more' = (Head(left) = at[1])
                /\ buffer' = IF more' THEN NoBuffer ELSE buffer
                /\ mainPc' = "app"
                /\ UNCHANGED asleep
    /\ UNCHANGED <<at, begun, written, writes, restarts, wanted, vlatVars, ring,
                   validSubs, writeQueue, flagVars, stored, failed>>

\* fillVisBuffer: readComplete and VlaData::readStart.
ReadStart ==
    /\ mainPc = "read"
    /\ Running("main")
    /\ MutexFree
    /\ IF ring = <<>>
       THEN /\ asleep' = asleep \cup {"main"}
            /\ buffer' = NoBuffer
            /\ UNCHANGED <<mainPc, ring, failed>>
       ELSE /\ ring' = Tail(ring)
            /\ NotifyAll
            /\ IF Head(ring).of = at
               THEN buffer' = Head(ring) /\ mainPc' = "app" /\ UNCHANGED failed
               ELSE buffer' = NoBuffer /\ failed' = "reader" /\ UNCHANGED mainPc
    /\ UNCHANGED <<at, more, begun, written, writes, restarts, wanted, vlatVars,
                   validChunks, validSubs, writeQueue, flagVars, stored>>

\* ViWriteImplAsync: the write goes to the queue, whose mutex is its own.
Write ==
    /\ InApp
    /\ buffer # NoBuffer /\ buffer.of = at
    /\ writes < MaxWrites
    /\ writes' = writes + 1
    /\ written' = [written EXCEPT ![at] = writes']
    /\ writeQueue' = Append(writeQueue, [of |-> at, value |-> writes'])
    /\ NotifyAll
    /\ UNCHANGED <<mainPc, at, buffer, more, begun, restarts, wanted, vlatVars,
                   dataVars, flagVars, stored, failed>>

\* The destructor: AsynchronousInterface::terminate, and the join.
Terminate ==
    /\ InApp
    /\ MutexFree
    /\ buffer' = NoBuffer
    /\ endAll' = TRUE
    /\ endSweep' = TRUE
    /\ NotifyAll
    /\ mainPc' = "join"
    /\ UNCHANGED <<at, more, begun, written, writes, restarts, wanted, vlatVars,
                   dataVars, writeQueue, resetAsked, resetDone, stored, failed>>

Join ==
    /\ mainPc = "join"
    /\ vlatPc = "ended"
    /\ mainPc' = "gone"
    /\ UNCHANGED <<at, buffer, more, begun, written, writes, restarts, wanted,
                   vlatVars, dataVars, writeQueue, flagVars, asleep, stored,
                   failed>>

Main ==
    \/ Select \/ OriginChunks \/ AwaitReset
    \/ Origin \/ Advance \/ NextChunkCall
    \/ IsValidSubChunk \/ IsValidChunk \/ ReadStart
    \/ Write \/ Terminate \/ Join

-----------------------------------------------------------------------------
(* The VLAT: run, sweepVi and the calls they make.                          *)

Goto(label) == vlatPc' = label

BeginSweep ==
    /\ vlatPc = "begin"
    /\ readAt' = <<0, 0>>
    /\ writeAt' = <<0, 0>>
    /\ datum' = NoBuffer
    /\ Goto("waitFill")
    /\ UNCHANGED <<applied, dataVars, writeQueue, flagVars, asleep, stored,
                   failed>>

\* As it would be with <=.
FillCanStartFull == Len(ring) <= MaxNBuffers

FillCanStart == Len(ring) < MaxNBuffers

\* waitUntilFillCanStart, with the mutex.
WaitUntilFillCanStart ==
    /\ vlatPc = "waitFill"
    /\ Running("vlat")
    /\ Goto(IF FillCanStart \/ endSweep THEN "start" ELSE "drainFill")
    /\ UNCHANGED <<readAt, writeAt, datum, applied, dataVars, writeQueue,
                   flagVars, asleep, stored, failed>>

\* handleWrite takes one write after the other; the write iterator only goes
\* forward, and not past the subchunk being read.
DoWrite(w) ==
    /\ writeQueue' = Tail(writeQueue)
    /\ IF Before(readAt, w.of) \/ Before(w.of, writeAt)
       THEN failed' = "writer" /\ UNCHANGED <<writeAt, stored>>
       ELSE /\ writeAt' = w.of
            /\ stored' = [stored EXCEPT ![w.of] = w.value]
            /\ UNCHANGED failed
    /\ UNCHANGED <<vlatPc, readAt, datum, applied, dataVars, flagVars, asleep>>

Draining == {"drainFill", "drainIdle", "drainReset", "write", "final"}

HandleWrite ==
    /\ vlatPc \in Draining
    /\ failed = "no"
    /\ vlatPc = "write" => ~endSweep
    /\ writeQueue # <<>>
    /\ DoWrite(Head(writeQueue))

\* As it would be without the handleWrite after the loop of waitForViReset.
DrainedInLoop == vlatPc = "drainReset" \/ writeQueue = <<>>

\* handleWrite returns.
Drained == writeQueue = <<>>

\* The write queue is empty; until the VLAT waits, the main thread may add to it.
NothingToWrite ==
    /\ Drained
    /\ \/ vlatPc = "drainFill" /\ Goto("sleepFill")
       \/ vlatPc = "drainIdle" /\ Goto("sleepIdle")
    /\ UNCHANGED <<readAt, writeAt, datum, applied, dataVars, writeQueue,
                   flagVars, asleep, stored, failed>>

Sleep ==
    /\ \/ vlatPc = "sleepFill" /\ Goto("waitFill")
       \/ vlatPc = "sleepIdle" /\ Goto("waitReset")
    /\ asleep' = asleep \cup {"vlat"}
    /\ UNCHANGED <<readAt, writeAt, datum, applied, dataVars, writeQueue,
                   flagVars, stored, failed>>

\* A step of the sweep before which throwIfSweepTerminated looks.
SweepStep(label) ==
    /\ vlatPc = label
    /\ ~endSweep

SweepTerminated ==
    /\ vlatPc \in {"start", "fill", "complete", "write"}
    /\ endSweep
    /\ Goto("waitReset")
    /\ UNCHANGED <<readAt, writeAt, datum, applied, dataVars, writeQueue,
                   flagVars, asleep, stored, failed>>

FillStart ==
    /\ SweepStep("start")
    /\ validChunks' = IF validChunks = <<>> \/ Last(validChunks) # readAt[1]
                      THEN Append(validChunks, readAt[1])
                      ELSE validChunks
    /\ validSubs' = Append(validSubs, readAt)
    /\ NotifyAll
    /\ Goto("fill")
    /\ UNCHANGED <<readAt, writeAt, datum, applied, ring, writeQueue, flagVars,
                   stored, failed>>

FillDatum ==
    /\ SweepStep("fill")
    /\ datum' = [of |-> readAt, holds |-> stored[readAt], selection |-> applied]
    /\ Goto("complete")
    /\ UNCHANGED <<readAt, writeAt, applied, dataVars, writeQueue, flagVars,
                   asleep, stored, failed>>

FillComplete ==
    /\ SweepStep("complete")
    /\ ring' = Append(ring, datum)
    /\ datum' = NoBuffer
    /\ NotifyAll
    /\ Goto("write")
    /\ UNCHANGED <<readAt, writeAt, applied, validChunks, validSubs, writeQueue,
                   flagVars, stored, failed>>

\* The loops of sweepVi: the next subchunk, the next chunk, or the end.
NextFill ==
    /\ SweepStep("write")
    /\ Drained
    /\ readAt' = IF NextSub(readAt) \in SubChunks THEN NextSub(readAt)
                 ELSE NextChunk(readAt)
    /\ Goto(IF readAt' \in SubChunks THEN "waitFill" ELSE "noMore")
    /\ UNCHANGED <<writeAt, datum, applied, dataVars, writeQueue, flagVars,
                   asleep, stored, failed>>

SetNoMoreData ==
    /\ vlatPc = "noMore"
    /\ validChunks' = Append(validChunks, NoMoreData[1])
    /\ validSubs' = Append(validSubs, NoMoreData)
    /\ NotifyAll
    /\ Goto("waitReset")
    /\ UNCHANGED <<readAt, writeAt, datum, applied, ring, writeQueue, flagVars,
                   stored, failed>>

WaitForViReset ==
    /\ vlatPc = "waitReset"
    /\ Running("vlat")
    /\ Goto(IF resetAsked \/ endAll THEN "drainReset" ELSE "drainIdle")
    /\ UNCHANGED <<readAt, writeAt, datum, applied, dataVars, writeQueue,
                   flagVars, asleep, stored, failed>>

\* As it would be without the loop that empties data_p.
ResetIndices == validChunks' = <<>> /\ validSubs' = <<>> /\ UNCHANGED ring

ResetBufferData == validChunks' = <<>> /\ validSubs' = <<>> /\ ring' = <<>>

\* As it would be if the VLAT kept the modifiers it had.
KeepModifiers == UNCHANGED applied

TransferModifiers == applied' = wanted

\* The rest of waitForViReset: the data are dropped, the modifiers taken.
ViReset ==
    /\ vlatPc = "drainReset"
    /\ Drained
    /\ ~endAll
    /\ ResetBufferData
    /\ TransferModifiers
    /\ resetAsked' = FALSE
    /\ endSweep' = FALSE
    /\ resetDone' = TRUE
    /\ NotifyAll
    /\ Goto("begin")
    /\ UNCHANGED <<readAt, writeAt, datum, writeQueue, endAll, stored, failed>>

Quit ==
    /\ Drained
    /\ endAll
    /\ \/ vlatPc = "drainReset" /\ Goto("final")
       \/ vlatPc = "final" /\ Goto("ended")
    /\ UNCHANGED <<readAt, writeAt, datum, applied, dataVars, writeQueue,
                   flagVars, asleep, stored, failed>>

Vlat ==
    /\ \/ BeginSweep \/ WaitUntilFillCanStart \/ HandleWrite
       \/ NothingToWrite \/ Sleep
       \/ SweepTerminated \/ FillStart \/ FillDatum \/ FillComplete \/ NextFill
       \/ SetNoMoreData \/ WaitForViReset \/ ViReset \/ Quit
    /\ UNCHANGED <<mainVars, wanted>>

Next == Main \/ Vlat

\* Both threads run on; the application need not make another call.
Spec == Init /\ [][Next]_vars /\ WF_vars(Vlat) /\ WF_vars(Main /\ mainPc # "app")

-----------------------------------------------------------------------------
(* Properties.                                                              *)

\* The ring has no more buffers than the interface was made for, and what is
\* in it are subchunks in ascending order before the one the VLAT fills next:
\* fillComplete asserts the one, the readers rely on the other.
RingInOrder ==
    /\ Len(ring) <= MaxNBuffers
    /\ vlatPc \in {"start", "fill", "complete"} /\ ~endSweep => Len(ring) < MaxNBuffers
    /\ \A i \in 1..Len(ring) :
        /\ ~Before(readAt, ring[i].of)
        /\ vlatPc \in {"waitFill", "start", "fill", "complete"} => ring[i].of # readAt
        /\ i < Len(ring) => Before(ring[i].of, ring[i + 1].of)

\* An application that goes through chunks and subchunks in order never makes
\* readStart or origin throw, and no write makes the write iterator of the VLAT
\* fail, which can neither go back nor overtake the read iterator.
NothingFails == failed = "no"

\* more and moreChunks say whether there is such a subchunk or chunk, however
\* far the VLAT has come.
MoreIsRight ==
    mainPc = "app" => (more <=> (IF begun THEN at ELSE <<at[1], 0>>) \in SubChunks)

\* What the application wrote is in the measurement set when the iteration
\* starts again and when the iterator is gone.
WritesDone ==
    vlatPc \in {"begin", "ended"} => writeQueue = <<>> /\ stored = written

\* The asynchronous iterator shows its user what a plain one would: the buffer
\* of a subchunk holds what was last written to it, as the modifiers made
\* before the last originChunks ask, although it was read ahead by a thread
\* that does the writes later.
Iterator == INSTANCE VisIterator WITH
    table <- written,
    buffer <- IF buffer # NoBuffer /\ buffer.of = at THEN buffer ELSE NoBuffer,
    selection <- IF resetAsked THEN wanted ELSE applied
IsIterator == Iterator!IteratorSpec

\* No call of the iterator waits forever, the destructor included.
CallsReturn == mainPc # "app" ~> mainPc \in {"app", "gone"}

\* VLAT.cc:715-719: a write that was requested wakes the VLAT.
WritesHappen == writeQueue # <<>> ~> writeQueue = <<>>

\* VisibilityIterator.h:414: origin resets to the start of the current chunk;
\* VisibilityIteratorImplAsync.cc:482: nextChunk ends the current read.
RoverServed == failed # "reader"

=============================================================================
