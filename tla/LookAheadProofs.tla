-------------------------- MODULE LookAheadProofs --------------------------
(***************************************************************************)
(* For any layout of the measurement set, any number of buffers, and any    *)
(* number of writes, selections and restarts: the types are right and the    *)
(* ring is in order, in either mode of the application.  For an application  *)
(* that takes chunks and subchunks in order, ~MayRove: nothing throws, more  *)
(* and moreChunks are right, the writes arrive, and what the application     *)
(* sees is what the plain iterator of VisIterator shows.                     *)
(*                                                                           *)
(* The invariant IterationInv relates three places in the order of           *)
(* subchunks: ToRead, before which all was read by the main thread, FilledTo,*)
(* before which all was put into the ring, and ListedTo, before which all    *)
(* was announced.  What is between the first and the second is in the ring;  *)
(* what is written is before the first, so that the VLAT never reads ahead   *)
(* what is yet to be written.                                                *)
(***************************************************************************)
EXTENDS LookAhead, SequenceTheorems, TLAPS

Place == Nat \X Nat
Entry == [of : Place, holds : Nat, selection : Nat]

\* Where the VLAT has a subchunk to read, and where it is not yet in the ring.
Sweeping == {"waitFill", "drainFill", "sleepFill", "start", "fill", "complete"}
Filling == {"start", "fill", "complete"}

\* The types the proof needs.
RingTypes ==
    /\ at \in Place
    /\ readAt \in Place
    /\ applied \in Nat /\ wanted \in Nat /\ writes \in Nat
    /\ stored \in [SubChunks -> Nat]
    /\ writeQueue \in Seq([of : Place, value : Nat])
    /\ ring \in Seq(Entry)
    /\ vlatPc \in Sweeping \cup {"write"} => readAt \in SubChunks
    /\ vlatPc = "complete" => datum \in Entry /\ datum.of = readAt

\* A sweep begins with an empty ring and asks for room before it fills.
RingRoom ==
    /\ Len(ring) <= MaxNBuffers
    /\ vlatPc \in Filling /\ ~endSweep => Len(ring) < MaxNBuffers
    /\ vlatPc = "begin" => ring = <<>>

Ordered(r) == \A i \in 1..Len(r) :
                    i < Len(r) => Before(r[i].of, r[i + 1].of)

RingOrder ==
    /\ Ordered(ring)
    /\ \A i \in 1..Len(ring) : ~Before(readAt, ring[i].of)
    /\ vlatPc \in Sweeping => \A i \in 1..Len(ring) : ring[i].of # readAt

RingInv == RingTypes /\ RingRoom /\ RingOrder

LEMMA SubChunksPlaces == SubChunks \subseteq Place
  BY LookAheadAssumption DEF SubChunks, NrChunks, Place

LEMMA FirstSubChunk == <<0, 0>> \in SubChunks
<1>1. NrChunks \in Nat /\ NrChunks > 0 /\ Layout[1] \in Nat \ {0}
  BY LookAheadAssumption DEF NrChunks
<1>2. 0 \in 0..(NrChunks - 1) /\ 0 \in 0..(Layout[0 + 1] - 1)
  BY <1>1
<1> QED
  BY <1>2 DEF SubChunks

\* The order of subchunks.
LEMMA BeforeTotal ==
    ASSUME NEW p \in Place, NEW q \in Place, ~Before(q, p), p # q
    PROVE  Before(p, q)
  BY DEF Before, Place

LEMMA BeforeNext ==
    ASSUME NEW p \in Place, NEW q \in Place, ~Before(q, p),
           NEW n \in {NextSub(q), NextChunk(q)}
    PROVE  n \in Place /\ ~Before(n, p) /\ p # n
  BY DEF Before, Place, NextSub, NextChunk

-----------------------------------------------------------------------------
(* What happens to the ring.                                                *)

LEMMA HeadGone ==
    ASSUME NEW r \in Seq(Entry), r # <<>>, Ordered(r)
    PROVE  /\ Tail(r) \in Seq(Entry)
           /\ Len(Tail(r)) = Len(r) - 1 /\ Len(r) \in Nat
           /\ Ordered(Tail(r))
           /\ \A i \in 1..Len(Tail(r)) : i + 1 \in 1..Len(r) /\ Tail(r)[i] = r[i + 1]
<1>1. /\ Tail(r) \in Seq(Entry)
      /\ Len(Tail(r)) = Len(r) - 1 /\ Len(r) \in Nat
      /\ \A i \in 1..Len(Tail(r)) : i + 1 \in 1..Len(r) /\ Tail(r)[i] = r[i + 1]
  OBVIOUS
<1>2. ASSUME NEW i \in 1..Len(Tail(r)), i < Len(Tail(r))
      PROVE  Before(Tail(r)[i].of, Tail(r)[i + 1].of)
  <2>1. i + 1 \in 1..Len(r) /\ i + 1 < Len(r) /\ i + 1 \in 1..Len(Tail(r))
    BY <1>1, <1>2
  <2> QED
    BY <1>1, <2>1 DEF Ordered
<1> QED
  BY <1>1, <1>2 DEF Ordered

LEMMA ReadStartKeeps ==
    ASSUME RingInv, ReadStart, UNCHANGED <<vlatVars, wanted>>
    PROVE  RingInv'
<1> USE DEF RingInv
<1>1. CASE ring = <<>>
  <2>1. UNCHANGED <<at, readAt, applied, wanted, writes, stored, writeQueue, ring,
                    vlatPc, datum, endSweep>>
    BY <1>1 DEF ReadStart, vlatVars, flagVars
  <2> QED
    BY <2>1 DEF RingTypes, RingRoom, RingOrder, Ordered
<1>2. CASE ring # <<>>
  <2>1. /\ ring' = Tail(ring)
        /\ UNCHANGED <<at, readAt, applied, wanted, writes, stored, writeQueue,
                       vlatPc, datum, endSweep>>
    BY <1>2 DEF ReadStart, vlatVars, flagVars
  <2>2. /\ Tail(ring) \in Seq(Entry)
        /\ Len(Tail(ring)) = Len(ring) - 1 /\ Len(ring) \in Nat
        /\ Ordered(Tail(ring))
        /\ \A i \in 1..Len(Tail(ring)) : i + 1 \in 1..Len(ring)
                                          /\ Tail(ring)[i] = ring[i + 1]
    BY <1>2, HeadGone DEF RingTypes, RingOrder
  <2>3. RingTypes'
    BY <2>1, <2>2 DEF RingTypes
  <2>4. RingRoom'
    BY <1>2, <2>1, <2>2, LookAheadAssumption DEF RingRoom
  <2>5. RingOrder'
    BY <2>1, <2>2 DEF RingOrder
  <2> QED
    BY <2>3, <2>4, <2>5
<1> QED
  BY <1>1, <1>2

LEMMA MainKeeps ==
    ASSUME RingInv, Main, UNCHANGED vlatVars
    PROVE  RingInv'
<1> USE DEF RingInv
<1>1. CASE ReadStart
  BY <1>1, ReadStartKeeps DEF ReadStart
<1>2. ASSUME ~ReadStart
      PROVE  /\ UNCHANGED <<ring, vlatVars, stored>>
             /\ endSweep => endSweep'
             /\ at' \in Place /\ wanted' \in Nat /\ writes' \in Nat
             /\ writeQueue' \in Seq([of : Place, value : Nat])
  <2> USE DEF RingTypes, dataVars, flagVars, mainVars
  <2>1. CASE Select
    BY <2>1 DEF Select
  <2>2. CASE OriginChunks
    BY <2>2 DEF OriginChunks, RequestReset, Place
  <2>3. CASE AwaitReset \/ IsValidSubChunk \/ IsValidChunk
    BY <2>3 DEF AwaitReset, IsValidSubChunk, IsValidChunk
  <2>4. CASE Origin \/ Advance \/ NextChunkCall
    <3>1. /\ UNCHANGED <<ring, vlatVars, stored, endSweep, wanted, writes,
                         writeQueue>>
          /\ at' \in {<<at[1], 0>>, NextSub(at), NextChunk(at)}
      BY <2>4 DEF Origin, Advance, NextChunkCall, Call
    <3> QED
      BY <3>1 DEF Place, NextSub, NextChunk
  <2>5. CASE Write
    <3>1. /\ UNCHANGED <<ring, vlatVars, stored, endSweep, at, wanted>>
          /\ writes' = writes + 1
          /\ writeQueue' = Append(writeQueue, [of |-> at, value |-> writes'])
      BY <2>5 DEF Write
    <3>2. [of |-> at, value |-> writes'] \in [of : Place, value : Nat]
      BY <3>1
    <3> QED
      BY <3>1, <3>2
  <2>6. CASE Terminate \/ Join
    BY <2>6 DEF Terminate, Join
  <2> QED
    BY <1>2, <2>1, <2>2, <2>3, <2>4, <2>5, <2>6 DEF Main
<1>3. CASE ~ReadStart
  <2>1. RingTypes'
    BY <1>2, <1>3 DEF RingTypes, vlatVars
  <2>2. RingRoom' /\ RingOrder'
    BY <1>2, <1>3 DEF RingRoom, RingOrder, Ordered, vlatVars
  <2> QED
    BY <2>1, <2>2
<1> QED
  BY <1>1, <1>3

-----------------------------------------------------------------------------
(* What the VLAT does.                                                      *)

LEMMA FillCompleteKeeps ==
    ASSUME RingInv, FillComplete, UNCHANGED <<mainVars, wanted>>
    PROVE  RingInv'
<1> USE DEF RingInv
<1>1. /\ ring' = Append(ring, datum)
      /\ vlatPc = "complete" /\ vlatPc' = "write" /\ ~endSweep
      /\ UNCHANGED <<at, readAt, applied, wanted, writes, stored, writeQueue>>
  BY DEF FillComplete, SweepStep, Goto, mainVars
<1>2. /\ datum \in Entry /\ datum.of = readAt
      /\ ring \in Seq(Entry) /\ Len(ring) \in Nat /\ Len(ring) < MaxNBuffers
  BY <1>1 DEF RingTypes, RingRoom, Filling
<1>3. /\ ring' \in Seq(Entry) /\ Len(ring') = Len(ring) + 1
      /\ \A i \in 1..Len(ring) : ring'[i] = ring[i]
      /\ ring'[Len(ring) + 1] = datum
  BY <1>1, <1>2
<1>4. RingTypes'
  BY <1>1, <1>3 DEF RingTypes, Sweeping
<1>5. RingRoom'
  BY <1>1, <1>2, <1>3, LookAheadAssumption DEF RingRoom, Filling
<1>6. ASSUME NEW i \in 1..Len(ring) PROVE Before(ring[i].of, readAt)
  <2>1. /\ ring[i].of \in Place /\ readAt \in Place
        /\ ~Before(readAt, ring[i].of) /\ ring[i].of # readAt
    <3>1. ring[i] \in Entry /\ vlatPc \in Sweeping
      BY <1>1, <1>2 DEF Sweeping
    <3> QED
      BY <3>1 DEF RingTypes, RingOrder, Entry
  <2> QED
    BY <2>1, BeforeTotal
<1>7. Ordered(ring)'
  <2>1. ASSUME NEW i \in 1..Len(ring'), i < Len(ring')
        PROVE  Before(ring'[i].of, ring'[i + 1].of)
    <3>1. i \in 1..Len(ring)
      BY <1>2, <1>3, <2>1
    <3>2. CASE i = Len(ring)
      BY <1>2, <1>3, <1>6, <3>1, <3>2
    <3>3. CASE i < Len(ring)
      <4>1. i + 1 \in 1..Len(ring)
        BY <1>2, <3>1, <3>3
      <4> QED
        BY <1>3, <3>1, <3>3, <4>1 DEF RingOrder, Ordered
    <3> QED
      BY <1>2, <3>1, <3>2, <3>3
  <2> QED
    BY <2>1 DEF Ordered
<1>8. ASSUME NEW i \in 1..Len(ring') PROVE ~Before(readAt, ring'[i].of)
  <2>1. CASE i = Len(ring) + 1
    BY <1>2, <1>3, <2>1 DEF Before, RingTypes, Place
  <2>2. CASE i \in 1..Len(ring)
    BY <1>3, <2>2 DEF RingOrder
  <2> QED
    BY <1>2, <1>3, <2>1, <2>2
<1> QED
  BY <1>1, <1>4, <1>5, <1>7, <1>8 DEF RingOrder, Sweeping

LEMMA NextFillKeeps ==
    ASSUME RingInv, NextFill, UNCHANGED <<mainVars, wanted>>
    PROVE  RingInv'
<1> USE DEF RingInv
<1>1. /\ readAt' \in {NextSub(readAt), NextChunk(readAt)}
      /\ vlatPc' = IF readAt' \in SubChunks THEN "waitFill" ELSE "noMore"
      /\ UNCHANGED <<at, applied, wanted, writes, stored, writeQueue, ring>>
  BY DEF NextFill, Goto, mainVars, dataVars
<1>2. ASSUME NEW i \in 1..Len(ring)
      PROVE  ~Before(readAt', ring[i].of) /\ ring[i].of # readAt'
  <2>1. ring[i].of \in Place /\ readAt \in Place /\ ~Before(readAt, ring[i].of)
    <3>1. ring[i] \in Entry
      BY DEF RingTypes
    <3> QED
      BY <3>1 DEF RingTypes, RingOrder, Entry
  <2> QED
    BY <1>1, <2>1, BeforeNext
<1>3. readAt' \in Place
  BY <1>1 DEF RingTypes, Place, NextSub, NextChunk
<1>4. RingTypes'
  BY <1>1, <1>3 DEF RingTypes, Sweeping
<1>5. RingRoom'
  BY <1>1 DEF RingRoom, Filling
<1>6. RingOrder'
  BY <1>1, <1>2 DEF RingOrder, Ordered
<1> QED
  BY <1>4, <1>5, <1>6

LEMMA HeadTail ==
    ASSUME NEW S, NEW q \in Seq(S), q # <<>>
    PROVE  Head(q) \in S /\ Tail(q) \in Seq(S)
  OBVIOUS

LEMMA HandleWriteKeeps ==
    ASSUME RingInv, HandleWrite, UNCHANGED <<mainVars, wanted>>
    PROVE  RingInv'
<1> USE DEF RingInv
<1> DEFINE w == Head(writeQueue)
<1>1. /\ UNCHANGED <<vlatPc, readAt, datum, applied, ring, endSweep, at, wanted,
                     writes>>
      /\ writeQueue # <<>> /\ writeQueue' = Tail(writeQueue)
      /\ UNCHANGED stored \/ stored' = [stored EXCEPT ![w.of] = w.value]
  BY DEF HandleWrite, DoWrite, dataVars, flagVars, mainVars
<1>2. w \in [of : Place, value : Nat]
      /\ writeQueue' \in Seq([of : Place, value : Nat])
  <2> HIDE DEF w
  <2>1. writeQueue \in Seq([of : Place, value : Nat])
    BY DEF RingTypes
  <2>2. /\ Head(writeQueue) \in [of : Place, value : Nat]
        /\ Tail(writeQueue) \in Seq([of : Place, value : Nat])
    BY <1>1, <2>1, HeadTail
  <2> QED
    BY <1>1, <2>2 DEF w
<1>3. stored' \in [SubChunks -> Nat]
  BY <1>1, <1>2 DEF RingTypes
<1>4. RingTypes'
  BY <1>1, <1>2, <1>3 DEF RingTypes
<1> QED
  BY <1>1, <1>4 DEF RingRoom, RingOrder, Ordered

LEMMA VlatKeeps ==
    ASSUME RingInv, Vlat
    PROVE  RingInv'
<1> USE DEF RingInv, mainVars, dataVars, flagVars, Goto
<1>0. UNCHANGED <<mainVars, wanted>>
  BY DEF Vlat
<1>1. CASE BeginSweep
  <2>1. /\ readAt' = <<0, 0>> /\ vlatPc = "begin" /\ vlatPc' = "waitFill"
        /\ UNCHANGED <<at, applied, wanted, writes, stored, writeQueue, ring>>
    BY <1>0, <1>1 DEF BeginSweep
  <2>2. readAt' \in Place /\ readAt' \in SubChunks
    BY <2>1, FirstSubChunk, SubChunksPlaces
  <2>3. RingTypes'
    <3>1. vlatPc' # "complete"
      BY <2>1
    <3>2. UNCHANGED <<at, applied, wanted, writes, stored, writeQueue, ring>>
      BY <2>1
    <3> QED
      BY <2>2, <3>1, <3>2 DEF RingTypes
  <2>4. ring = <<>> /\ RingRoom'
    BY <2>1 DEF RingRoom, Filling
  <2> QED
    BY <2>1, <2>3, <2>4 DEF RingOrder, Ordered
<1>2. CASE WaitUntilFillCanStart
  <2>1. /\ vlatPc = "waitFill"
        /\ vlatPc' \in {"start", "drainFill"}
        /\ vlatPc' = "start" /\ ~endSweep => Len(ring) < MaxNBuffers
        /\ UNCHANGED <<at, applied, wanted, writes, stored, writeQueue, ring,
                       readAt, endSweep, datum>>
    BY <1>0, <1>2 DEF WaitUntilFillCanStart, FillCanStart
  <2> QED
    BY <2>1 DEF RingTypes, RingRoom, RingOrder, Ordered, Sweeping, Filling
<1>3. CASE HandleWrite
  BY <1>0, <1>3, HandleWriteKeeps
<1>4. CASE NothingToWrite \/ Sleep
  <2>1. /\ vlatPc \in {"drainFill", "sleepFill"} => vlatPc' \in {"sleepFill", "waitFill"}
        /\ vlatPc \notin {"drainFill", "sleepFill"} => vlatPc' \in {"sleepIdle", "waitReset"}
        /\ UNCHANGED <<at, applied, wanted, writes, stored, writeQueue, ring,
                       readAt, endSweep, datum>>
    BY <1>0, <1>4 DEF NothingToWrite, Sleep
  <2> QED
    BY <2>1 DEF RingTypes, RingRoom, RingOrder, Ordered, Sweeping, Filling
<1>5. CASE SweepTerminated \/ WaitForViReset \/ Quit \/ SetNoMoreData
  <2>1. /\ vlatPc' \in {"waitReset", "drainReset", "drainIdle", "final", "ended"}
        /\ UNCHANGED <<at, applied, wanted, writes, stored, writeQueue, ring,
                       readAt, endSweep, datum>>
    BY <1>0, <1>5 DEF SweepTerminated, WaitForViReset, Quit, SetNoMoreData
  <2> QED
    BY <2>1 DEF RingTypes, RingRoom, RingOrder, Ordered, Sweeping, Filling
<1>6. CASE FillStart
  <2>1. /\ vlatPc = "start" /\ vlatPc' = "fill"
        /\ UNCHANGED <<at, applied, wanted, writes, stored, writeQueue, ring,
                       readAt, endSweep, datum>>
    BY <1>0, <1>6 DEF FillStart, SweepStep
  <2> QED
    BY <2>1 DEF RingTypes, RingRoom, RingOrder, Ordered, Sweeping, Filling
<1>7. CASE FillDatum
  <2>1. /\ vlatPc = "fill" /\ vlatPc' = "complete"
        /\ datum' = [of |-> readAt, holds |-> stored[readAt], selection |-> applied]
        /\ UNCHANGED <<at, applied, wanted, writes, stored, writeQueue, ring,
                       readAt, endSweep>>
    BY <1>0, <1>7 DEF FillDatum, SweepStep
  <2>2. stored[readAt] \in Nat /\ applied \in Nat /\ readAt \in Place
    BY <2>1 DEF RingTypes, Sweeping
  <2>3. datum' \in Entry /\ datum'.of = readAt'
    BY <2>1, <2>2 DEF Entry
  <2>4. RingTypes'
    BY <2>1, <2>3 DEF RingTypes, Sweeping
  <2> QED
    BY <2>1, <2>4 DEF RingRoom, RingOrder, Ordered, Sweeping, Filling
<1>8. CASE FillComplete
  BY <1>0, <1>8, FillCompleteKeeps
<1>9. CASE NextFill
  BY <1>0, <1>9, NextFillKeeps
<1>10. CASE ViReset
  <2>1. /\ ring' = <<>> /\ applied' = wanted /\ vlatPc' = "begin"
        /\ UNCHANGED <<at, wanted, writes, stored, writeQueue, readAt, datum>>
    BY <1>0, <1>10 DEF ViReset, ResetBufferData, TransferModifiers
  <2>2. RingTypes'
    BY <2>1 DEF RingTypes, Sweeping
  <2> QED
    BY <2>1, <2>2, LookAheadAssumption
       DEF RingRoom, RingOrder, Ordered, Sweeping, Filling
<1> QED
  BY <1>1, <1>2, <1>3, <1>4, <1>5, <1>6, <1>7, <1>8, <1>9, <1>10 DEF Vlat

\* What fillComplete asserts, that there is a free buffer, holds, and the
\* readers find the subchunks in the ring in ascending order.
THEOREM RingIsOrdered == Spec => []RingInOrder
<1>1. Init => RingInv
  <2> SUFFICES ASSUME Init PROVE RingInv
    OBVIOUS
  <2>1. RingTypes
    BY DEF Init, RingTypes, Place, Sweeping
  <2> QED
    BY <2>1, LookAheadAssumption
       DEF Init, RingInv, RingRoom, RingOrder, Ordered, Sweeping, Filling
<1>2. RingInv /\ [Next]_vars => RingInv'
  <2>1. ASSUME RingInv, UNCHANGED vars PROVE RingInv'
    BY <2>1 DEF vars, mainVars, vlatVars, dataVars, flagVars, RingInv, RingTypes,
       RingRoom, RingOrder, Ordered
  <2>2. ASSUME RingInv, Main PROVE RingInv'
    <3>1. UNCHANGED vlatVars
      BY <2>2 DEF Main, Select, OriginChunks, AwaitReset, Origin, Advance,
         NextChunkCall, Call, IsValidSubChunk, IsValidChunk, ReadStart, Write,
         Terminate, Join
    <3> QED
      BY <2>2, <3>1, MainKeeps
  <2> QED
    BY <2>1, <2>2, VlatKeeps DEF Next
<1>3. RingInv => RingInOrder
  BY DEF RingInv, RingRoom, RingOrder, Ordered, RingInOrder, Sweeping, Filling
<1> QED
  BY <1>1, <1>2, <1>3, PTL DEF Spec

-----------------------------------------------------------------------------
(* Where the two threads are in the measurement set.                        *)

\* The subchunk the VLAT reads after p, or the first place after the last one.
Succ(p) == IF NextSub(p) \in SubChunks THEN NextSub(p) ELSE NextChunk(p)
End == <<NrChunks, 0>>

\* After the last subchunk of a chunk.
ChunkEnds == {<<c, Layout[c + 1]>> : c \in 0..(NrChunks - 1)}
ChunkStarts == {<<c, 0>> : c \in 0..(NrChunks + 1)}

LEMMA BeforeOrders ==
    ASSUME NEW p \in Place, NEW q \in Place, NEW r \in Place
    PROVE  /\ ~Before(p, p)
           /\ Before(p, q) => ~Before(q, p)
           /\ p = q \/ Before(p, q) \/ Before(q, p)
           /\ Before(p, q) /\ ~Before(r, q) => Before(p, r)
           /\ ~Before(q, p) /\ Before(q, r) => Before(p, r)
           /\ ~Before(q, p) /\ ~Before(r, q) => ~Before(r, p)
  BY DEF Before, Place

LEMMA LayoutCounts ==
    /\ NrChunks \in Nat /\ NrChunks > 0
    /\ \A c \in 0..(NrChunks - 1) : Layout[c + 1] \in Nat \ {0}
<1>1. NrChunks \in Nat /\ NrChunks > 0
  BY LookAheadAssumption DEF NrChunks
<1>2. ASSUME NEW c \in 0..(NrChunks - 1) PROVE Layout[c + 1] \in Nat \ {0}
  <2>1. c + 1 \in 1..Len(Layout)
    BY <1>1 DEF NrChunks
  <2> QED
    BY <2>1, LookAheadAssumption
<1> QED
  BY <1>1, <1>2

LEMMA SubChunkIs ==
    ASSUME NEW p
    PROVE  p \in SubChunks <=>
             \E c \in 0..(NrChunks - 1) : \E s \in 0..(Layout[c + 1] - 1) : p = <<c, s>>
  BY DEF SubChunks

LEMMA ChunkOrEnd ==
    ASSUME NEW c \in Nat, c <= NrChunks
    PROVE  <<c, 0>> \in SubChunks \cup {End} /\ (c # NrChunks => <<c, 0>> \in SubChunks)
<1>1. CASE c = NrChunks
  BY <1>1 DEF End
<1>2. CASE c # NrChunks
  <2>1. c \in 0..(NrChunks - 1)
    BY <1>2, LayoutCounts
  <2>2. 0 \in 0..(Layout[c + 1] - 1)
    BY <2>1, LayoutCounts
  <2> QED
    BY <2>1, <2>2, SubChunkIs
<1> QED
  BY <1>1, <1>2

LEMMA PlacesAre ==
    /\ SubChunks \subseteq Place /\ ChunkEnds \subseteq Place
    /\ ChunkStarts \subseteq Place /\ End \in ChunkStarts /\ <<0, 0>> \in Place
    /\ ChunkEnds \cap SubChunks = {} /\ ChunkEnds \cap ChunkStarts = {}
    /\ End \notin SubChunks /\ End # NoMoreData /\ NoMoreData \in Place
    /\ \A p \in ChunkEnds : <<p[1], 0>> \in SubChunks /\ NextChunk(p) \in ChunkStarts
    /\ \A p \in SubChunks : <<p[1], 0>> \in SubChunks
    /\ \A p \in SubChunks : Before(p, End) /\ Before(p, NoMoreData)
<1>1. SubChunks \subseteq Place
  BY SubChunksPlaces
<1>2. ASSUME NEW p \in ChunkEnds
      PROVE  /\ p \in Place /\ p \notin SubChunks /\ p \notin ChunkStarts
             /\ <<p[1], 0>> \in SubChunks /\ NextChunk(p) \in ChunkStarts
  <2>1. PICK c \in 0..(NrChunks - 1) : p = <<c, Layout[c + 1]>>
    BY DEF ChunkEnds
  <2>2. Layout[c + 1] \in Nat \ {0} /\ NrChunks \in Nat
    BY LayoutCounts
  <2>3. p \in Place /\ p \notin ChunkStarts
    BY <2>1, <2>2 DEF Place, ChunkStarts
  <2>4. p \notin SubChunks
    BY <2>1, <2>2, SubChunkIs
  <2>5. <<p[1], 0>> \in SubChunks
    <3>1. 0 \in 0..(Layout[c + 1] - 1) /\ p[1] = c
      BY <2>1, <2>2
    <3> QED
      BY <3>1, SubChunkIs
  <2>6. NextChunk(p) \in ChunkStarts
    BY <2>1, <2>2 DEF NextChunk, ChunkStarts
  <2> QED
    BY <2>3, <2>4, <2>5, <2>6
<1>3. /\ ChunkStarts \subseteq Place /\ End \in ChunkStarts /\ <<0, 0>> \in Place
      /\ End # NoMoreData /\ NoMoreData \in Place
  BY LayoutCounts DEF ChunkStarts, Place, End, NoMoreData
<1>4. ASSUME NEW p \in SubChunks
      PROVE  /\ <<p[1], 0>> \in SubChunks /\ p # End
             /\ Before(p, End) /\ Before(p, NoMoreData)
  <2>0. PICK c \in 0..(NrChunks - 1) : \E s \in 0..(Layout[c + 1] - 1) : p = <<c, s>>
    BY SubChunkIs
  <2>1. PICK s \in 0..(Layout[c + 1] - 1) : p = <<c, s>>
    BY <2>0
  <2>2. 0 \in 0..(Layout[c + 1] - 1) /\ NrChunks \in Nat
    BY <2>1, LayoutCounts
  <2>3. <<p[1], 0>> \in SubChunks
    BY <2>1, <2>2, SubChunkIs
  <2> QED
    BY <2>1, <2>2, <2>3 DEF End, NoMoreData, Before
<1> QED
  BY <1>1, <1>2, <1>3, <1>4

\* The step of the iterators skips nothing.
LEMMA SuccIsNext ==
    ASSUME NEW p \in SubChunks
    PROVE  /\ Succ(p) \in SubChunks \cup {End} /\ Before(p, Succ(p))
           /\ \A q \in SubChunks : Before(q, Succ(p)) <=> ~Before(p, q)
           /\ NextSub(p) \in SubChunks => Succ(p) = NextSub(p)
           /\ NextSub(p) \notin SubChunks =>
                NextSub(p) \in ChunkEnds /\ Succ(p) = NextChunk(NextSub(p))
           /\ Before(p, NextSub(p))
<1>0. PICK c \in 0..(NrChunks - 1) : \E s \in 0..(Layout[c + 1] - 1) : p = <<c, s>>
  BY SubChunkIs
<1>1. PICK s \in 0..(Layout[c + 1] - 1) : p = <<c, s>>
  BY <1>0
<1>2. Layout[c + 1] \in Nat \ {0} /\ NrChunks \in Nat /\ c \in Nat /\ s \in Nat
  BY LayoutCounts
<1>3. NextSub(p) = <<c, s + 1>> /\ NextChunk(p) = <<c + 1, 0>>
      /\ NextChunk(NextSub(p)) = <<c + 1, 0>>
  BY <1>1 DEF NextSub, NextChunk
<1>4. CASE s + 1 < Layout[c + 1]
  <2>1. s + 1 \in 0..(Layout[c + 1] - 1)
    BY <1>2, <1>4
  <2>2. NextSub(p) \in SubChunks
    BY <1>3, <2>1, SubChunkIs
  <2>3. ASSUME NEW q \in SubChunks PROVE Before(q, NextSub(p)) <=> ~Before(p, q)
    <3>1. q \in Nat \X Nat
      BY SubChunksPlaces DEF Place
    <3> QED
      BY <1>1, <1>2, <1>3, <3>1 DEF Before
  <2>4. Before(p, NextSub(p))
    BY <1>1, <1>2, <1>3 DEF Before
  <2> QED
    BY <2>2, <2>3, <2>4 DEF Succ
<1>5. CASE ~(s + 1 < Layout[c + 1])
  <2>1. s + 1 = Layout[c + 1]
    BY <1>2, <1>5
  <2>2. NextSub(p) \in ChunkEnds
    BY <1>3, <2>1 DEF ChunkEnds
  <2>3. NextSub(p) \notin SubChunks
    BY <2>2, PlacesAre
  <2>4. Succ(p) = <<c + 1, 0>>
    BY <1>3, <2>3 DEF Succ
  <2>5. <<c + 1, 0>> \in SubChunks \cup {End}
    <3>1. c + 1 \in Nat /\ c + 1 <= NrChunks
      BY <1>2
    <3> QED
      BY <3>1, ChunkOrEnd
  <2>6. ASSUME NEW q \in SubChunks PROVE Before(q, <<c + 1, 0>>) <=> ~Before(p, q)
    <3>0. PICK d \in 0..(NrChunks - 1) : \E t \in 0..(Layout[d + 1] - 1) : q = <<d, t>>
      BY SubChunkIs
    <3>1. PICK t \in 0..(Layout[d + 1] - 1) : q = <<d, t>>
      BY <3>0
    <3>2. d \in Nat /\ t \in Nat /\ (d = c => t <= s)
      BY <1>2, <2>1, <3>1
    <3> QED
      BY <1>1, <1>2, <3>1, <3>2 DEF Before
  <2>7. Before(p, <<c + 1, 0>>) /\ Before(p, NextSub(p))
    BY <1>1, <1>2, <1>3 DEF Before
  <2> QED
    BY <1>3, <2>2, <2>3, <2>4, <2>5, <2>6, <2>7
<1> QED
  BY <1>4, <1>5

LEMMA ChunkEndIsNext ==
    ASSUME NEW p \in ChunkEnds
    PROVE  /\ NextChunk(p) \in SubChunks \cup {End} /\ Before(p, NextChunk(p))
           /\ \A q \in SubChunks : Before(q, NextChunk(p)) <=> Before(q, p)
<1>1. PICK c \in 0..(NrChunks - 1) : p = <<c, Layout[c + 1]>>
  BY DEF ChunkEnds
<1>2. Layout[c + 1] \in Nat \ {0} /\ NrChunks \in Nat /\ c \in Nat
  BY LayoutCounts
<1>3. NextChunk(p) = <<c + 1, 0>> /\ Before(p, NextChunk(p))
  BY <1>1, <1>2 DEF NextChunk, Before
<1>4. <<c + 1, 0>> \in SubChunks \cup {End}
  <2>1. c + 1 \in Nat /\ c + 1 <= NrChunks
    BY <1>2
  <2> QED
    BY <2>1, ChunkOrEnd
<1>5. ASSUME NEW q \in SubChunks PROVE Before(q, <<c + 1, 0>>) <=> Before(q, p)
  <2>0. PICK d \in 0..(NrChunks - 1) : \E t \in 0..(Layout[d + 1] - 1) : q = <<d, t>>
    BY SubChunkIs
  <2>1. PICK t \in 0..(Layout[d + 1] - 1) : q = <<d, t>>
    BY <2>0
  <2>2. d \in Nat /\ t \in Nat /\ (d = c => t < Layout[c + 1])
    BY <1>2, <2>1
  <2> QED
    BY <1>1, <1>2, <2>1, <2>2 DEF Before
<1> QED
  BY <1>3, <1>4, <1>5

-----------------------------------------------------------------------------
(* The types, in either mode of the application.                            *)

\* What the numbers of the chunks and the calls of the iterator keep, which
\* the types rest on.
TypesInv ==
    /\ TypeOK
    /\ IF begun THEN at \in SubChunks \cup ChunkEnds ELSE at \in ChunkStarts
    /\ mainPc \in {"app", "reset"} /\ more => at \in SubChunks
    /\ mainPc = "read" => at \in SubChunks /\ more /\ begun
    /\ mainPc = "valid" => begun
    /\ mainPc = "chunk" => ~begun
    /\ mainPc = "reset" => ~begun /\ more /\ at = <<0, 0>>
    /\ mainPc \in {"reset", "join", "gone"} => buffer = NoBuffer
    /\ vlatPc \in Sweeping \cup {"write"} => readAt \in SubChunks
    /\ vlatPc = "complete" => datum \in Datum
    /\ \A i \in DOMAIN validChunks :
        validChunks[i] \in 0..(NrChunks - 1) \cup {NoMoreData[1]}

LEMMA PositionsAre ==
    /\ SubChunks \subseteq Positions /\ ChunkEnds \subseteq Positions
    /\ ChunkStarts \subseteq Positions /\ End \in Positions /\ <<0, 0>> \in Positions
    /\ Positions \subseteq Place
<1>1. SubChunks \subseteq Positions /\ ChunkEnds \subseteq Positions
  BY DEF Positions, ChunkEnds
<1>2. ASSUME NEW c \in 0..(NrChunks + 1) PROVE <<c, 0>> \in Positions
  <2>1. 0 \in 0..0
    OBVIOUS
  <2> QED
    BY <2>1 DEF Positions
<1>3. ChunkStarts \subseteq Positions
  BY <1>2 DEF ChunkStarts
<1>4. /\ NrChunks \in 0..(NrChunks + 1) /\ 0 \in 0..(NrChunks + 1)
  BY LayoutCounts
<1>5. End \in Positions /\ <<0, 0>> \in Positions
  BY <1>2, <1>4 DEF End
<1>6. ASSUME NEW p \in Positions PROVE p \in Place
  <2>1. CASE p \in SubChunks
    BY <2>1, SubChunksPlaces
  <2>2. CASE p \in {<<c, s>> : c \in 0..(NrChunks + 1), s \in 0..0}
    BY <2>2, LayoutCounts DEF Place
  <2>3. CASE p \in {<<c, Layout[c + 1]>> : c \in 0..(NrChunks - 1)}
    BY <2>3, LayoutCounts DEF Place
  <2> QED
    BY <1>6, <2>1, <2>2, <2>3 DEF Positions
<1> QED
  BY <1>1, <1>3, <1>5, <1>6

\* What the calls do to the position.
LEMMA Moves ==
    /\ \A p \in SubChunks \cup ChunkEnds :
        /\ <<p[1], 0>> \in SubChunks
        /\ NextChunk(p) \in ChunkStarts
    /\ \A p \in SubChunks : NextSub(p) \in SubChunks \cup ChunkEnds
    /\ \A p \in ChunkStarts : p = <<p[1], 0>> /\ p # NoMoreData /\ p[1] # NoMoreData[1]
    /\ \A p \in SubChunks \cup ChunkEnds : p # NoMoreData
    /\ \A p \in ChunkStarts : p[1] \in 0..(NrChunks - 1) <=> p \in SubChunks
<1>1. ASSUME NEW p \in SubChunks
      PROVE  NextChunk(p) \in ChunkStarts /\ p # NoMoreData
  <2>0. PICK c \in 0..(NrChunks - 1) : \E s \in 0..(Layout[c + 1] - 1) : p = <<c, s>>
    BY SubChunkIs
  <2>1. PICK s \in 0..(Layout[c + 1] - 1) : p = <<c, s>>
    BY <2>0
  <2>2. c + 1 \in 0..(NrChunks + 1) /\ NextChunk(p) = <<c + 1, 0>>
        /\ c # NrChunks + 2
    BY <2>1, LayoutCounts DEF NextChunk
  <2> QED
    BY <2>1, <2>2 DEF ChunkStarts, NoMoreData
<1>2. ASSUME NEW p \in ChunkEnds PROVE p # NoMoreData
  BY LayoutCounts DEF ChunkEnds, NoMoreData
<1>3. ASSUME NEW p \in ChunkStarts
      PROVE  /\ p = <<p[1], 0>> /\ p # NoMoreData /\ p[1] # NoMoreData[1]
             /\ p[1] \in 0..(NrChunks - 1) <=> p \in SubChunks
  <2>1. PICK c \in 0..(NrChunks + 1) : p = <<c, 0>>
    BY DEF ChunkStarts
  <2>2. p = <<p[1], 0>> /\ p # NoMoreData /\ p[1] # NoMoreData[1] /\ p[1] = c
    BY <2>1, LayoutCounts DEF NoMoreData
  <2>3. c \in 0..(NrChunks - 1) => p \in SubChunks
    BY <2>1, ChunkOrEnd, LayoutCounts
  <2>4. p \in SubChunks => c \in 0..(NrChunks - 1)
    BY <2>1, SubChunkIs
  <2> QED
    BY <2>2, <2>3, <2>4
<1>4. ASSUME NEW p \in SubChunks PROVE NextSub(p) \in SubChunks \cup ChunkEnds
  BY SuccIsNext
<1> QED
  BY <1>1, <1>2, <1>3, <1>4, PlacesAre

\* What the loops that pop leave: an end of the sequence, of which the entries
\* that went are before what is asked for, and the first that stays is not.
LEMMA SuffixIs ==
    ASSUME NEW S, NEW q \in Seq(S), NEW n \in 0..Len(q)
    PROVE  /\ SubSeq(q, n + 1, Len(q)) \in Seq(S)
           /\ Len(SubSeq(q, n + 1, Len(q))) = Len(q) - n
           /\ \A i \in 1..(Len(q) - n) :
                n + i \in 1..Len(q) /\ SubSeq(q, n + 1, Len(q))[i] = q[n + i]
           /\ SubSeq(q, n + 1, Len(q)) = <<>> <=> n = Len(q)
<1> DEFINE left == SubSeq(q, n + 1, Len(q))
<1> HIDE DEF left
<1>1. Len(q) \in Nat /\ \A i \in (n + 1)..Len(q) : q[i] \in S
  OBVIOUS
<1>2. /\ left \in Seq(S)
      /\ Len(left) = IF n + 1 <= Len(q) THEN Len(q) - (n + 1) + 1 ELSE 0
      /\ \A i \in 1..(Len(q) - (n + 1) + 1) : left[i] = q[(n + 1) + i - 1]
  BY <1>1, SubSeqProperties DEF left
<1>3. Len(left) = Len(q) - n
  BY <1>1, <1>2
<1>4. ASSUME NEW i \in 1..Len(left) PROVE n + i \in 1..Len(q) /\ left[i] = q[n + i]
  <2>1. i \in 1..(Len(q) - (n + 1) + 1) /\ (n + 1) + i - 1 = n + i
    BY <1>1, <1>3
  <2> QED
    BY <1>1, <1>2, <1>3, <2>1
<1>5. left = <<>> <=> Len(left) = 0
  BY <1>2, EmptySeq
<1>6. Len(left) = 0 <=> n = Len(q)
  BY <1>1, <1>3
<1> QED
  BY <1>2, <1>3, <1>4, <1>5, <1>6 DEF left

LEMMA SubsFromIs ==
    ASSUME NEW S, validSubs \in Seq(S), NEW p, NEW left \in SubsFrom(p)
    PROVE  \E n \in 0..Len(validSubs) :
            /\ left \in Seq(S) /\ Len(left) = Len(validSubs) - n
            /\ \A i \in 1..Len(left) :
                n + i \in 1..Len(validSubs) /\ left[i] = validSubs[n + i]
            /\ left = <<>> <=> n = Len(validSubs)
            /\ \A i \in 1..n : Before(validSubs[i], p)
            /\ n < Len(validSubs) => ~Before(validSubs[n + 1], p)
<1>1. PICK n \in 0..Len(validSubs) :
        /\ left = SubSeq(validSubs, n + 1, Len(validSubs))
        /\ \A i \in 1..n : Before(validSubs[i], p)
        /\ n < Len(validSubs) => ~Before(validSubs[n + 1], p)
  BY DEF SubsFrom
<1>0. left = SubSeq(validSubs, n + 1, Len(validSubs))
  BY <1>1
<1>2. /\ left \in Seq(S) /\ Len(left) = Len(validSubs) - n
      /\ \A i \in 1..Len(left) :
            n + i \in 1..Len(validSubs) /\ left[i] = validSubs[n + i]
      /\ left = <<>> <=> n = Len(validSubs)
  BY <1>0, SuffixIs
<1> QED
  BY <1>1, <1>2

LEMMA ChunksFromIs ==
    ASSUME NEW S, validChunks \in Seq(S), NEW p, NEW left \in ChunksFrom(p)
    PROVE  \E n \in 0..Len(validChunks) :
            /\ left \in Seq(S) /\ Len(left) = Len(validChunks) - n
            /\ \A i \in 1..Len(left) :
                n + i \in 1..Len(validChunks) /\ left[i] = validChunks[n + i]
            /\ left = <<>> <=> n = Len(validChunks)
            /\ \A i \in 1..n : validChunks[i] < p[1]
            /\ n < Len(validChunks) => validChunks[n + 1] >= p[1]
<1>1. PICK n \in 0..Len(validChunks) :
        /\ left = SubSeq(validChunks, n + 1, Len(validChunks))
        /\ \A i \in 1..n : validChunks[i] < p[1]
        /\ n < Len(validChunks) => validChunks[n + 1] >= p[1]
  BY DEF ChunksFrom
<1>0. left = SubSeq(validChunks, n + 1, Len(validChunks))
  BY <1>1
<1>2. /\ left \in Seq(S) /\ Len(left) = Len(validChunks) - n
      /\ \A i \in 1..Len(left) :
            n + i \in 1..Len(validChunks) /\ left[i] = validChunks[n + i]
      /\ left = <<>> <=> n = Len(validChunks)
  BY <1>0, SuffixIs
<1> QED
  BY <1>1, <1>2

LEMMA TypesInit == Init => TypesInv
<1> SUFFICES ASSUME Init PROVE TypesInv
  OBVIOUS
<1>1. <<0, 0>> \in SubChunks /\ <<0, 0>> \in Positions /\ <<0, 0>> \in ChunkStarts
  <2>1. 0 \in 0..(NrChunks + 1)
    BY LayoutCounts
  <2> QED
    BY <2>1, FirstSubChunk, PositionsAre DEF ChunkStarts
<1>2. [p \in SubChunks |-> 0] \in [SubChunks -> 0..MaxWrites]
  BY LookAheadAssumption
<1>3. /\ at \in Positions /\ written \in [SubChunks -> 0..MaxWrites]
      /\ readAt \in Positions /\ writeAt \in Positions
      /\ stored \in [SubChunks -> 0..MaxWrites]
  BY <1>1, <1>2 DEF Init
<1>4. /\ writes \in 0..MaxWrites /\ restarts \in 0..MaxRestarts
      /\ wanted \in 0..MaxSelects /\ applied \in 0..MaxSelects
  BY LookAheadAssumption DEF Init
<1>5. /\ ring \in Seq(Datum) /\ validChunks \in Seq(Nat)
      /\ validSubs \in Seq(SubChunks \cup {NoMoreData})
      /\ writeQueue \in Seq([of : SubChunks, value : 1..MaxWrites])
  BY DEF Init
<1>6. TypeOK
  BY <1>3, <1>4, <1>5 DEF Init, TypeOK
<1> QED
  BY <1>1, <1>6 DEF Init, TypesInv, Sweeping


LEMMA CallTypes ==
    ASSUME TypesInv, Origin \/ Advance \/ NextChunkCall
    PROVE  TypesInv'
<1>1. /\ mainPc = "app" /\ mainPc' \in {"valid", "chunk"}
      /\ UNCHANGED <<more, written, writes, restarts, wanted, vlatVars, dataVars,
                     writeQueue, flagVars, asleep, stored, failed>>
      /\ buffer' \in {buffer, NoBuffer}
  BY DEF Origin, Advance, NextChunkCall, Call, InApp
<1>2. /\ at' \in Positions /\ begun' \in BOOLEAN
      /\ IF begun' THEN at' \in SubChunks \cup ChunkEnds ELSE at' \in ChunkStarts
      /\ mainPc' = "valid" => begun'
      /\ mainPc' = "chunk" => ~begun'
  <2>1. CASE Origin
    <3>1. /\ at' = <<at[1], 0>> /\ begun' = TRUE /\ mainPc' = "valid"
          /\ more \/ begun
      BY <2>1 DEF Origin, Call, InApp
    <3>2. at \in SubChunks \cup ChunkEnds
      BY <1>1, <3>1 DEF TypesInv
    <3>3. at' \in SubChunks
      BY <3>1, <3>2, Moves
    <3> QED
      BY <3>1, <3>3, PositionsAre
  <2>2. CASE Advance
    <3>1. /\ at' = NextSub(at) /\ begun' = begun /\ mainPc' = "valid"
          /\ more /\ begun
      BY <2>2 DEF Advance, Call, InApp
    <3>2. at \in SubChunks
      BY <1>1, <3>1 DEF TypesInv
    <3>3. at' \in SubChunks \cup ChunkEnds
      BY <3>1, <3>2, Moves
    <3>4. begun \in BOOLEAN
      BY DEF TypesInv, TypeOK
    <3> QED
      BY <3>1, <3>3, <3>4, PositionsAre
  <2>3. CASE NextChunkCall
    <3>1. /\ at' = NextChunk(at) /\ begun' = FALSE /\ mainPc' = "chunk" /\ begun
      BY <2>3 DEF NextChunkCall, Call, InApp
    <3>2. at \in SubChunks \cup ChunkEnds
      BY <3>1 DEF TypesInv
    <3>3. at' \in ChunkStarts
      BY <3>1, <3>2, Moves
    <3> QED
      BY <3>1, <3>3, PositionsAre
  <2> QED
    BY <2>1, <2>2, <2>3
<1>3. TypeOK'
  BY <1>1, <1>2, SMTT(30) DEF TypesInv, TypeOK, vlatVars, dataVars, flagVars
<1> QED
  BY <1>1, <1>2, <1>3 DEF TypesInv, vlatVars, dataVars

LEMMA AskTypes ==
    ASSUME TypesInv, IsValidSubChunk \/ IsValidChunk
    PROVE  TypesInv'
<1> DEFINE Numbers == 0..(NrChunks - 1) \cup {NoMoreData[1]}
<1>1. /\ mainPc \in {"valid", "chunk"} /\ mainPc' \in {"valid", "chunk", "app", "read"}
      /\ UNCHANGED <<at, begun, written, writes, restarts, wanted, vlatVars, ring,
                     writeQueue, flagVars, stored>>
      /\ buffer' \in {buffer, NoBuffer}
      /\ asleep' \in {asleep, asleep \cup {"main"}}
      /\ failed' \in {failed, "reader", "no"}
  BY DEF IsValidSubChunk, IsValidChunk
<1>2. /\ validSubs' \in Seq(SubChunks \cup {NoMoreData})
      /\ validChunks' \in Seq(Nat)
      /\ \A i \in DOMAIN validChunks' : validChunks'[i] \in Numbers
      /\ more' \in BOOLEAN
      /\ mainPc' \in {"valid", "chunk"} => mainPc' = mainPc
      /\ mainPc' = "app" /\ more' => at \in SubChunks
      /\ mainPc' = "read" => at \in SubChunks /\ more' /\ begun
  <2>1. CASE IsValidSubChunk
    <3>1. PICK left \in SubsFrom(at) :
            /\ validSubs' = left
            /\ IF left = <<>>
               THEN UNCHANGED <<mainPc, more>>
               ELSE /\ more' = (Head(left) = at)
                    /\ mainPc' = IF more' THEN "read" ELSE "app"
      BY <2>1 DEF IsValidSubChunk
    <3>2. left \in Seq(SubChunks \cup {NoMoreData})
      <4>1. validSubs \in Seq(SubChunks \cup {NoMoreData})
        BY DEF TypesInv, TypeOK
      <4> QED
        BY <4>1, SubsFromIs
    <3>3. UNCHANGED validChunks /\ mainPc = "valid" /\ begun /\ more \in BOOLEAN
      BY <2>1 DEF IsValidSubChunk, TypesInv, TypeOK
    <3>4. CASE left = <<>>
      BY <3>1, <3>2, <3>3, <3>4 DEF TypesInv, TypeOK
    <3>5. CASE left # <<>>
      <4>1. Head(left) \in SubChunks \cup {NoMoreData}
        BY <3>2, <3>5
      <4>2. at \in SubChunks \cup ChunkEnds
        BY <3>3 DEF TypesInv
      <4>3. Head(left) = at => at \in SubChunks
        BY <4>1, <4>2, Moves
      <4> QED
        BY <3>1, <3>2, <3>3, <3>5, <4>3 DEF TypesInv, TypeOK
    <3> QED
      BY <3>4, <3>5
  <2>2. CASE IsValidChunk
    <3>1. PICK left \in ChunksFrom(at) :
            /\ validChunks' = left
            /\ IF left = <<>>
               THEN UNCHANGED <<mainPc, more>>
               ELSE /\ more' = (Head(left) = at[1])
                    /\ mainPc' = "app"
      BY <2>2 DEF IsValidChunk
    <3>2. validChunks \in Seq(Nat) /\ \A i \in DOMAIN validChunks : validChunks[i] \in Numbers
      BY DEF TypesInv, TypeOK
    <3>3. PICK n \in 0..Len(validChunks) :
            /\ left \in Seq(Nat)
            /\ \A i \in 1..Len(left) :
                n + i \in 1..Len(validChunks) /\ left[i] = validChunks[n + i]
      BY <3>2, ChunksFromIs
    <3>4. \A i \in DOMAIN left : left[i] \in Numbers
      <4>1. DOMAIN left = 1..Len(left) /\ DOMAIN validChunks = 1..Len(validChunks)
        BY <3>2, <3>3
      <4> HIDE DEF Numbers
      <4> QED
        BY <3>2, <3>3, <4>1
    <3>5. /\ UNCHANGED validSubs /\ mainPc = "chunk" /\ ~begun
          /\ more \in BOOLEAN /\ begun \in BOOLEAN
          /\ validSubs \in Seq(SubChunks \cup {NoMoreData})
          /\ at \in ChunkStarts
      BY <2>2 DEF IsValidChunk, TypesInv, TypeOK
    <3>6. CASE left = <<>>
      BY <3>1, <3>3, <3>4, <3>5, <3>6
    <3>7. CASE left # <<>>
      <4>1. Head(left) \in Numbers
        BY <3>3, <3>4, <3>7
      <4>2. Head(left) = at[1] => at \in SubChunks
        BY <3>5, <4>1, Moves
      <4> QED
        BY <3>1, <3>3, <3>4, <3>5, <3>7, <4>2
    <3> QED
      BY <3>6, <3>7
  <2> QED
    BY <2>1, <2>2
<1>3. TypeOK'
  BY <1>1, <1>2, SMTT(30) DEF TypesInv, TypeOK, vlatVars, flagVars
<1> QED
  BY <1>1, <1>2, <1>3 DEF TypesInv, vlatVars

LEMMA WriteTypes ==
    ASSUME TypesInv, Write
    PROVE  TypesInv'
<1>1. /\ buffer # NoBuffer /\ buffer.of = at
      /\ writes < MaxWrites /\ writes' = writes + 1
      /\ written' = [written EXCEPT ![at] = writes']
      /\ writeQueue' = Append(writeQueue, [of |-> at, value |-> writes'])
      /\ asleep' = {}
      /\ UNCHANGED <<mainPc, at, buffer, more, begun, restarts, wanted, vlatVars,
                     dataVars, flagVars, stored, failed>>
  BY DEF Write, NotifyAll
<1>2. at \in SubChunks
  BY <1>1 DEF TypesInv, TypeOK, Datum
<1>3. writes' \in 0..MaxWrites /\ writes' \in 1..MaxWrites
  BY <1>1, LookAheadAssumption DEF TypesInv, TypeOK
<1>4. written' \in [SubChunks -> 0..MaxWrites]
  <2>1. written \in [SubChunks -> 0..MaxWrites]
    BY DEF TypesInv, TypeOK
  <2> QED
    BY <1>1, <1>3, <2>1
<1>5. writeQueue' \in Seq([of : SubChunks, value : 1..MaxWrites])
  <2>1. writeQueue \in Seq([of : SubChunks, value : 1..MaxWrites])
    BY DEF TypesInv, TypeOK
  <2>2. [of |-> at, value |-> writes'] \in [of : SubChunks, value : 1..MaxWrites]
    BY <1>2, <1>3
  <2> QED
    BY <1>1, <2>1, <2>2
<1>6. TypeOK'
  BY <1>1, <1>3, <1>4, <1>5 DEF TypesInv, TypeOK, vlatVars, dataVars, flagVars
<1> QED
  BY <1>1, <1>6 DEF TypesInv, vlatVars, dataVars

LEMMA ReadStartTypes ==
    ASSUME TypesInv, ReadStart
    PROVE  TypesInv'
<1>1. /\ mainPc = "read" /\ mainPc' \in {"read", "app"}
      /\ buffer' \in {NoBuffer, Head(ring)}
      /\ ring = <<>> => buffer' = NoBuffer /\ ring' = ring
      /\ ring # <<>> => ring' = Tail(ring)
      /\ asleep' \in {{}, asleep \cup {"main"}}
      /\ failed' \in {failed, "reader"}
      /\ UNCHANGED <<at, more, begun, written, writes, restarts, wanted, vlatVars,
                     validChunks, validSubs, writeQueue, flagVars, stored>>
  BY DEF ReadStart, NotifyAll
<1>2. buffer' \in Datum \cup {NoBuffer} /\ ring' \in Seq(Datum)
  <2>1. ring \in Seq(Datum)
    BY DEF TypesInv, TypeOK
  <2>2. ring # <<>> => Head(ring) \in Datum /\ Tail(ring) \in Seq(Datum)
    BY <2>1, HeadTail
  <2>3. CASE ring = <<>>
    BY <1>1, <2>1, <2>3
  <2>4. CASE ring # <<>>
    BY <1>1, <2>2, <2>4
  <2> QED
    BY <2>3, <2>4
<1>3. /\ mainPc' \in {"read", "app"} /\ asleep' \subseteq {"main", "vlat"}
      /\ failed' \in {"no", "reader", "writer"}
      /\ UNCHANGED <<at, more, begun, written, writes, restarts, wanted, vlatVars,
                     validChunks, validSubs, writeQueue, flagVars, stored>>
  <2>1. asleep \subseteq {"main", "vlat"} /\ failed \in {"no", "reader", "writer"}
    BY DEF TypesInv, TypeOK
  <2>2. asleep' \subseteq {"main", "vlat"}
    BY <1>1, <2>1
  <2> QED
    BY <1>1, <2>1, <2>2
<1>4. TypeOK'
  BY <1>2, <1>3, SMTT(30) DEF TypesInv, TypeOK, vlatVars, flagVars
<1> QED
  BY <1>1, <1>4 DEF TypesInv, vlatVars

LEMMA OriginChunksTypes ==
    ASSUME TypesInv, OriginChunks
    PROVE  TypesInv'
<1>1. /\ restarts < MaxRestarts /\ restarts' = restarts + 1
      /\ buffer' = NoBuffer /\ at' = <<0, 0>> /\ begun' = FALSE /\ more' = TRUE
      /\ resetAsked' = TRUE /\ resetDone' = FALSE /\ endSweep' = TRUE
      /\ asleep' = {"main"} /\ mainPc' = "reset"
      /\ UNCHANGED <<written, writes, wanted, vlatVars, dataVars, writeQueue,
                     endAll, stored, failed>>
  BY DEF OriginChunks, RequestReset
<1>2. restarts' \in 0..MaxRestarts
  BY <1>1, LookAheadAssumption DEF TypesInv, TypeOK
<1>3. at' \in SubChunks /\ at' \in Positions /\ at' \in ChunkStarts
  <2>1. 0 \in 0..(NrChunks + 1)
    BY LayoutCounts
  <2> QED
    BY <1>1, <2>1, FirstSubChunk, PositionsAre DEF ChunkStarts
<1>4. TypeOK'
  BY <1>1, <1>2, <1>3 DEF TypesInv, TypeOK, vlatVars, dataVars
<1> QED
  BY <1>1, <1>3, <1>4 DEF TypesInv, vlatVars, dataVars

LEMMA MainTypes ==
    ASSUME TypesInv, Main
    PROVE  TypesInv'
<1>1. CASE Select
  <2>1. /\ wanted < MaxSelects /\ wanted' = wanted + 1
        /\ UNCHANGED <<mainVars, vlatVars, dataVars, writeQueue, flagVars, asleep,
                       stored, failed>>
    BY <1>1 DEF Select
  <2>2. wanted' \in 0..MaxSelects
    BY <2>1, LookAheadAssumption DEF TypesInv, TypeOK
  <2>3. TypeOK'
    BY <2>1, <2>2 DEF TypesInv, TypeOK, mainVars, vlatVars, dataVars, flagVars
  <2> QED
    BY <2>1, <2>3 DEF TypesInv, mainVars, vlatVars, dataVars
<1>2. CASE OriginChunks
  BY <1>2, OriginChunksTypes
<1>3. CASE AwaitReset
  <2>1. /\ mainPc = "reset" /\ mainPc' \in {"reset", "app"}
        /\ asleep' \in {asleep, asleep \cup {"main"}}
        /\ UNCHANGED <<at, buffer, more, begun, written, writes, restarts, wanted,
                       vlatVars, dataVars, writeQueue, flagVars, stored, failed>>
    BY <1>3 DEF AwaitReset
  <2>2. TypeOK'
    BY <2>1 DEF TypesInv, TypeOK, vlatVars, dataVars, flagVars
  <2> QED
    BY <2>1, <2>2 DEF TypesInv, vlatVars, dataVars
<1>4. CASE Origin \/ Advance \/ NextChunkCall
  BY <1>4, CallTypes
<1>5. CASE IsValidSubChunk \/ IsValidChunk
  BY <1>5, AskTypes
<1>6. CASE ReadStart
  BY <1>6, ReadStartTypes
<1>7. CASE Write
  BY <1>7, WriteTypes
<1>8. CASE Terminate
  <2>1. /\ buffer' = NoBuffer /\ endAll' = TRUE /\ endSweep' = TRUE /\ asleep' = {}
        /\ mainPc' = "join"
        /\ UNCHANGED <<at, more, begun, written, writes, restarts, wanted, vlatVars,
                       dataVars, writeQueue, resetAsked, resetDone, stored, failed>>
    BY <1>8 DEF Terminate, NotifyAll
  <2>2. TypeOK'
    BY <2>1 DEF TypesInv, TypeOK, vlatVars, dataVars
  <2> QED
    BY <2>1, <2>2 DEF TypesInv, vlatVars, dataVars
<1>9. CASE Join
  <2>1. /\ mainPc = "join" /\ mainPc' = "gone"
        /\ UNCHANGED <<at, buffer, more, begun, written, writes, restarts, wanted,
                       vlatVars, dataVars, writeQueue, flagVars, asleep, stored,
                       failed>>
    BY <1>9 DEF Join
  <2>2. TypeOK'
    BY <2>1 DEF TypesInv, TypeOK, vlatVars, dataVars, flagVars
  <2> QED
    BY <2>1, <2>2 DEF TypesInv, vlatVars, dataVars
<1> QED
  BY <1>1, <1>2, <1>3, <1>4, <1>5, <1>6, <1>7, <1>8, <1>9 DEF Main

LEMMA DoWriteTypes ==
    ASSUME TypesInv, HandleWrite, UNCHANGED <<mainVars, wanted>>
    PROVE  TypesInv'
<1> DEFINE w == Head(writeQueue)
           Writes == [of : SubChunks, value : 1..MaxWrites]
<1>1. /\ UNCHANGED <<mainVars, wanted, vlatPc, readAt, datum, applied, dataVars,
                     flagVars, asleep>>
      /\ writeQueue # <<>> /\ writeQueue' = Tail(writeQueue)
      /\ failed' \in {failed, "writer"}
      /\ \/ UNCHANGED <<writeAt, stored>>
         \/ writeAt' = w.of /\ stored' = [stored EXCEPT ![w.of] = w.value]
  BY DEF HandleWrite, DoWrite
<1>2. w \in Writes /\ writeQueue' \in Seq(Writes)
  <2> HIDE DEF w, Writes
  <2>1. writeQueue \in Seq(Writes)
    BY DEF TypesInv, TypeOK, Writes
  <2>2. Head(writeQueue) \in Writes /\ Tail(writeQueue) \in Seq(Writes)
    BY <1>1, <2>1, HeadTail
  <2> QED
    BY <1>1, <2>2 DEF w
<1> HIDE DEF w
<1>3. writeAt' \in Positions
  BY <1>1, <1>2, PositionsAre DEF TypesInv, TypeOK
<1>4. stored' \in [SubChunks -> 0..MaxWrites]
  <2>1. stored \in [SubChunks -> 0..MaxWrites]
    BY DEF TypesInv, TypeOK
  <2>2. w.of \in SubChunks /\ w.value \in 0..MaxWrites
    BY <1>2
  <2> QED
    BY <1>1, <2>1, <2>2
<1>5. /\ writeQueue' \in Seq(Writes) /\ failed' \in {failed, "writer"}
      /\ UNCHANGED <<mainVars, wanted, vlatPc, readAt, datum, applied, dataVars,
                     flagVars, asleep>>
  BY <1>1, <1>2
<1>6. TypeOK'
  BY <1>3, <1>4, <1>5, SMTT(30) DEF TypesInv, TypeOK, mainVars, dataVars, flagVars
<1> QED
  BY <1>5, <1>6 DEF TypesInv, mainVars, dataVars

LEMMA AppendedIs ==
    ASSUME NEW S, NEW q \in Seq(S), NEW e \in S
    PROVE  /\ Append(q, e) \in Seq(S)
           /\ DOMAIN q = 1..Len(q) /\ Len(q) \in Nat
           /\ DOMAIN Append(q, e) = 1..(Len(q) + 1)
           /\ \A i \in DOMAIN Append(q, e) :
                \/ i \in DOMAIN q /\ Append(q, e)[i] = q[i]
                \/ i = Len(q) + 1 /\ i \notin DOMAIN q /\ Append(q, e)[i] = e
           /\ \A i \in DOMAIN q :
                i \in DOMAIN Append(q, e) /\ i < Len(q) + 1 /\ Append(q, e)[i] = q[i]
           /\ Append(q, e)[Len(q) + 1] = e
  OBVIOUS

LEMMA FillStartTypes ==
    ASSUME TypesInv, FillStart, UNCHANGED <<mainVars, wanted>>
    PROVE  TypesInv'
<1>1. /\ vlatPc = "start" /\ vlatPc' = "fill" /\ asleep' = {}
      /\ validChunks' \in {validChunks, Append(validChunks, readAt[1])}
      /\ validSubs' = Append(validSubs, readAt)
      /\ UNCHANGED <<mainVars, wanted, readAt, writeAt, datum, applied, ring,
                     writeQueue, flagVars, stored, failed>>
  BY DEF FillStart, SweepStep, NotifyAll, Goto
<1>2. readAt \in SubChunks /\ readAt[1] \in 0..(NrChunks - 1)
  <2>1. readAt \in SubChunks
    BY <1>1 DEF TypesInv, Sweeping
  <2>2. PICK c \in 0..(NrChunks - 1) : \E s \in 0..(Layout[c + 1] - 1) : readAt = <<c, s>>
    BY <2>1, SubChunkIs
  <2> QED
    BY <2>1, <2>2
<1>3. validSubs' \in Seq(SubChunks \cup {NoMoreData})
  <2>1. validSubs \in Seq(SubChunks \cup {NoMoreData})
    BY DEF TypesInv, TypeOK
  <2> QED
    BY <1>1, <1>2, <2>1
<1>4. /\ validChunks' \in Seq(Nat)
      /\ \A i \in DOMAIN validChunks' :
            validChunks'[i] \in 0..(NrChunks - 1) \cup {NoMoreData[1]}
  <2>1. /\ validChunks \in Seq(Nat) /\ readAt[1] \in Nat
        /\ \A i \in DOMAIN validChunks :
            validChunks[i] \in 0..(NrChunks - 1) \cup {NoMoreData[1]}
    BY <1>2 DEF TypesInv, TypeOK
  <2>2. CASE validChunks' = validChunks
    BY <2>1, <2>2
  <2>3. CASE validChunks' = Append(validChunks, readAt[1])
    BY <1>2, <2>1, <2>3, AppendedIs
  <2> QED
    BY <1>1, <2>2, <2>3
<1>5. TypeOK'
  BY <1>1, <1>3, <1>4, SMTT(30) DEF TypesInv, TypeOK, mainVars, flagVars
<1> QED
  BY <1>1, <1>2, <1>4, <1>5 DEF TypesInv, mainVars

LEMMA SetNoMoreDataTypes ==
    ASSUME TypesInv, SetNoMoreData, UNCHANGED <<mainVars, wanted>>
    PROVE  TypesInv'
<1>1. /\ vlatPc = "noMore" /\ vlatPc' = "waitReset" /\ asleep' = {}
      /\ validChunks' = Append(validChunks, NoMoreData[1])
      /\ validSubs' = Append(validSubs, NoMoreData)
      /\ UNCHANGED <<mainVars, wanted, readAt, writeAt, datum, applied, ring,
                     writeQueue, flagVars, stored, failed>>
  BY DEF SetNoMoreData, NotifyAll, Goto
<1>2. validSubs' \in Seq(SubChunks \cup {NoMoreData})
  <2>1. validSubs \in Seq(SubChunks \cup {NoMoreData})
    BY DEF TypesInv, TypeOK
  <2> QED
    BY <1>1, <2>1
<1>3. /\ validChunks' \in Seq(Nat)
      /\ \A i \in DOMAIN validChunks' :
            validChunks'[i] \in 0..(NrChunks - 1) \cup {NoMoreData[1]}
  <2>1. /\ validChunks \in Seq(Nat) /\ NoMoreData[1] \in Nat
        /\ \A i \in DOMAIN validChunks :
            validChunks[i] \in 0..(NrChunks - 1) \cup {NoMoreData[1]}
    BY LayoutCounts DEF TypesInv, TypeOK, NoMoreData
  <2> QED
    BY <1>1, <2>1
<1>4. TypeOK'
  BY <1>1, <1>2, <1>3, SMTT(30) DEF TypesInv, TypeOK, mainVars, flagVars
<1> QED
  BY <1>1, <1>3, <1>4 DEF TypesInv, mainVars, Sweeping

LEMMA FillTypes ==
    ASSUME TypesInv, FillDatum \/ FillComplete, UNCHANGED <<mainVars, wanted>>
    PROVE  TypesInv'
<1>1. CASE FillDatum
  <2>1. /\ vlatPc = "fill" /\ vlatPc' = "complete"
        /\ datum' = [of |-> readAt, holds |-> stored[readAt], selection |-> applied]
        /\ UNCHANGED <<mainVars, wanted, readAt, writeAt, applied, dataVars,
                       writeQueue, flagVars, asleep, stored, failed>>
    BY <1>1 DEF FillDatum, SweepStep, Goto
  <2>2. /\ readAt \in SubChunks /\ stored \in [SubChunks -> 0..MaxWrites]
        /\ applied \in 0..MaxSelects
    BY <2>1 DEF TypesInv, TypeOK, Sweeping
  <2>3. datum' \in Datum
    BY <2>1, <2>2 DEF Datum
  <2>4. TypeOK'
    BY <2>1, <2>3, SMTT(30) DEF TypesInv, TypeOK, mainVars, dataVars, flagVars
  <2> QED
    BY <2>1, <2>2, <2>3, <2>4 DEF TypesInv, mainVars, dataVars
<1>2. CASE FillComplete
  <2>1. /\ vlatPc = "complete" /\ vlatPc' = "write" /\ datum' = NoBuffer
        /\ asleep' = {} /\ ring' = Append(ring, datum)
        /\ UNCHANGED <<mainVars, wanted, readAt, writeAt, applied, validChunks,
                       validSubs, writeQueue, flagVars, stored, failed>>
    BY <1>2 DEF FillComplete, SweepStep, Goto, NotifyAll
  <2>2. ring' \in Seq(Datum)
    <3>1. ring \in Seq(Datum) /\ datum \in Datum
      BY <2>1 DEF TypesInv, TypeOK
    <3> QED
      BY <2>1, <3>1
  <2>3. TypeOK'
    BY <2>1, <2>2 DEF TypesInv, TypeOK, mainVars, flagVars
  <2> QED
    BY <2>1, <2>3 DEF TypesInv, mainVars, Sweeping
<1> QED
  BY <1>1, <1>2

LEMMA SweepTypes ==
    ASSUME TypesInv, BeginSweep \/ NextFill, UNCHANGED <<mainVars, wanted>>
    PROVE  TypesInv'
<1>1. CASE BeginSweep
  <2>1. /\ readAt' = <<0, 0>> /\ writeAt' = <<0, 0>> /\ datum' = NoBuffer
        /\ vlatPc' = "waitFill"
        /\ UNCHANGED <<mainVars, wanted, applied, dataVars, writeQueue, flagVars,
                       asleep, stored, failed>>
    BY <1>1 DEF BeginSweep, Goto
  <2>2. readAt' \in SubChunks /\ readAt' \in Positions /\ writeAt' \in Positions
    BY <2>1, FirstSubChunk, PositionsAre
  <2>3. TypeOK'
    BY <2>1, <2>2, SMTT(30) DEF TypesInv, TypeOK, mainVars, dataVars, flagVars
  <2> QED
    BY <2>1, <2>2, <2>3 DEF TypesInv, mainVars, dataVars
<1>2. CASE NextFill
  <2>1. /\ vlatPc = "write" /\ readAt' = Succ(readAt)
        /\ vlatPc' = IF readAt' \in SubChunks THEN "waitFill" ELSE "noMore"
        /\ UNCHANGED <<mainVars, wanted, writeAt, datum, applied, dataVars,
                       writeQueue, flagVars, asleep, stored, failed>>
    BY <1>2 DEF NextFill, SweepStep, Goto, Succ
  <2>2. readAt' \in SubChunks \cup {End}
    <3>1. readAt \in SubChunks
      BY <2>1 DEF TypesInv
    <3> QED
      BY <2>1, <3>1, SuccIsNext
  <2>3. readAt' \in Positions
    BY <2>2, PositionsAre
  <2>4. TypeOK'
    BY <2>1, <2>3, SMTT(30) DEF TypesInv, TypeOK, mainVars, dataVars, flagVars
  <2> QED
    BY <2>1, <2>4 DEF TypesInv, mainVars, dataVars, Sweeping
<1> QED
  BY <1>1, <1>2

LEMMA VlatTypes ==
    ASSUME TypesInv, Vlat
    PROVE  TypesInv'
<1>0. UNCHANGED <<mainVars, wanted>>
  BY DEF Vlat
<1>1. CASE BeginSweep \/ NextFill
  BY <1>0, <1>1, SweepTypes
<1>2. CASE \/ WaitUntilFillCanStart \/ NothingToWrite \/ Sleep \/ SweepTerminated
           \/ WaitForViReset \/ Quit
  <2>1. /\ vlatPc' \in {"waitFill", "drainFill", "sleepFill", "start", "waitReset",
                        "drainIdle", "sleepIdle", "drainReset", "final", "ended"}
        /\ vlatPc' \in Sweeping => vlatPc \in Sweeping
        /\ asleep' \in {asleep, asleep \cup {"vlat"}}
        /\ UNCHANGED <<readAt, writeAt, datum, applied, dataVars, writeQueue,
                       flagVars, stored, failed>>
    <3>1. CASE WaitUntilFillCanStart
      BY <3>1 DEF WaitUntilFillCanStart, Goto, Sweeping
    <3>2. CASE NothingToWrite
      BY <3>2 DEF NothingToWrite, Goto, Sweeping
    <3>3. CASE Sleep
      BY <3>3 DEF Sleep, Goto, Sweeping
    <3>4. CASE SweepTerminated
      BY <3>4 DEF SweepTerminated, Goto, Sweeping
    <3>5. CASE WaitForViReset
      BY <3>5 DEF WaitForViReset, Goto, Sweeping
    <3>6. CASE Quit
      BY <3>6 DEF Quit, Goto, Sweeping
    <3> QED
      BY <1>2, <3>1, <3>2, <3>3, <3>4, <3>5, <3>6
  <2>2. asleep' \subseteq {"main", "vlat"}
    BY <2>1 DEF TypesInv, TypeOK
  <2>3. TypeOK'
    BY <1>0, <2>1, <2>2, SMTT(30) DEF TypesInv, TypeOK, mainVars, dataVars, flagVars
  <2> QED
    BY <1>0, <2>1, <2>3 DEF TypesInv, mainVars, dataVars
<1>3. CASE HandleWrite
  BY <1>0, <1>3, DoWriteTypes
<1>4. CASE FillStart
  BY <1>0, <1>4, FillStartTypes
<1>5. CASE FillDatum \/ FillComplete
  BY <1>0, <1>5, FillTypes
<1>6. CASE SetNoMoreData
  BY <1>0, <1>6, SetNoMoreDataTypes
<1>7. CASE ViReset
  <2>1. /\ validChunks' = <<>> /\ validSubs' = <<>> /\ ring' = <<>>
        /\ applied' = wanted /\ resetAsked' = FALSE /\ endSweep' = FALSE
        /\ resetDone' = TRUE /\ asleep' = {} /\ vlatPc' = "begin"
        /\ UNCHANGED <<readAt, writeAt, datum, writeQueue, endAll, stored, failed>>
    BY <1>7 DEF ViReset, ResetBufferData, TransferModifiers, NotifyAll, Goto
  <2>2. /\ validChunks' \in Seq(Nat) /\ ring' \in Seq(Datum)
        /\ validSubs' \in Seq(SubChunks \cup {NoMoreData})
        /\ \A i \in DOMAIN validChunks' :
            validChunks'[i] \in 0..(NrChunks - 1) \cup {NoMoreData[1]}
    BY <2>1
  <2>3. TypeOK'
    BY <1>0, <2>1, <2>2 DEF TypesInv, TypeOK, mainVars
  <2> QED
    BY <1>0, <2>1, <2>2, <2>3 DEF TypesInv, mainVars, Sweeping
<1> QED
  BY <1>1, <1>2, <1>3, <1>4, <1>5, <1>6, <1>7 DEF Vlat

LEMMA TypesStep == TypesInv /\ [Next]_vars => TypesInv'
<1>1. ASSUME TypesInv, UNCHANGED vars PROVE TypesInv'
  <2>1. UNCHANGED <<mainVars, wanted, vlatVars, dataVars, writeQueue, flagVars,
                    asleep, stored, failed>>
    BY <1>1 DEF vars
  <2>2. TypeOK'
    BY <1>1, <2>1 DEF TypesInv, TypeOK, mainVars, vlatVars, dataVars, flagVars
  <2> QED
    BY <1>1, <2>1, <2>2 DEF TypesInv, mainVars, vlatVars, dataVars
<1> QED
  BY <1>1, MainTypes, VlatTypes DEF Next

\* The positions of the two threads stay in the measurement set or at the ends
\* of its chunks, whatever calls the application makes; what is in the ring and
\* in the write queue is of a subchunk.
THEOREM TypesCorrect == Spec => []TypeOK
<1>1. TypesInv => TypeOK
  BY DEF TypesInv
<1> QED
  BY <1>1, TypesInit, TypesStep, PTL DEF Spec

-----------------------------------------------------------------------------
(* An application that goes through chunks and subchunks in order.          *)

\* The subchunks before this one are in the ring, or were.
FilledTo == IF vlatPc = "begin" THEN <<0, 0>>
            ELSE IF vlatPc = "write" THEN Succ(readAt) ELSE readAt

\* The subchunks before this one are in validSubs, or were.
ListedTo == IF vlatPc = "begin" THEN <<0, 0>>
            ELSE IF vlatPc \in {"fill", "complete", "write"} THEN Succ(readAt)
            ELSE readAt

\* The subchunks before this one the main thread has read.
ToRead == IF mainPc = "app" /\ begun /\ more THEN Succ(at)
          ELSE IF at \in ChunkEnds THEN NextChunk(at) ELSE at

\* What each thread says with the flags of the interface.
FlagsInv ==
    /\ endAll <=> mainPc \in {"join", "gone"}
    /\ resetAsked <=> mainPc = "reset" /\ ~resetDone
    /\ endSweep <=> resetAsked \/ endAll
    /\ vlatPc = "drainReset" => endSweep
    /\ vlatPc \in {"final", "ended"} => endAll

Idle == {"waitReset", "drainIdle", "sleepIdle"}

\* Where the VLAT is when its sweep has come to the end.
SweepInv ==
    /\ vlatPc = "noMore" => readAt = End
    /\ vlatPc \in Idle /\ ~endSweep => readAt = End
    /\ readAt \in SubChunks \cup {End}
    /\ writeAt \in SubChunks

\* A subchunk the main thread has yet to ask for is found in the list.
ListInv ==
    /\ \A i, j \in DOMAIN validSubs : i < j => Before(validSubs[i], validSubs[j])
    /\ \A i \in DOMAIN validSubs :
        \/ validSubs[i] \in SubChunks /\ Before(validSubs[i], ListedTo)
        \/ validSubs[i] = NoMoreData /\ vlatPc \in Idle
    /\ \A q \in SubChunks : ~Before(q, at) /\ Before(q, ListedTo) =>
            \E i \in DOMAIN validSubs : validSubs[i] = q

ChunkListInv ==
    /\ \A i, j \in DOMAIN validChunks : i < j => validChunks[i] < validChunks[j]
    /\ \A i \in DOMAIN validChunks :
        \/ validChunks[i] \in 0..(NrChunks - 1) /\ Before(<<validChunks[i], 0>>, ListedTo)
        \/ validChunks[i] = NoMoreData[1] /\ vlatPc \in Idle
    /\ \A c \in 0..(NrChunks - 1) : at[1] <= c /\ Before(<<c, 0>>, ListedTo) =>
            \E i \in DOMAIN validChunks : validChunks[i] = c

\* The ring holds what is filled and not read.
SpanInv ==
    /\ ~Before(FilledTo, ToRead)
    /\ \A i, j \in DOMAIN ring : i < j => Before(ring[i].of, ring[j].of)
    /\ \A i \in DOMAIN ring :
        /\ ring[i].of \in SubChunks
        /\ ~Before(ring[i].of, ToRead) /\ Before(ring[i].of, FilledTo)
    /\ \A q \in SubChunks : ~Before(q, ToRead) /\ Before(q, FilledTo) =>
            \E i \in DOMAIN ring : ring[i].of = q
    /\ buffer # NoBuffer => buffer.of \in SubChunks /\ Before(buffer.of, ToRead)

\* What is read ahead is what has been written, as the selection in force asks.
AheadInv ==
    /\ \A i \in DOMAIN ring :
        ring[i].holds = written[ring[i].of] /\ ring[i].selection = applied
    /\ vlatPc = "complete" =>
        /\ datum.of = readAt
        /\ datum.holds = written[readAt] /\ datum.selection = applied

\* The writes to be done are of what was read, in the order of reading.
QueueInv ==
    /\ \A i \in DOMAIN writeQueue :
        /\ writeQueue[i].of \in SubChunks
        /\ ~Before(readAt, writeQueue[i].of) /\ ~Before(writeQueue[i].of, writeAt)
    /\ \A i, j \in DOMAIN writeQueue :
        i < j => ~Before(writeQueue[j].of, writeQueue[i].of)
    /\ vlatPc \in {"begin", "ended"} => writeQueue = <<>>
    /\ ~endSweep => \A i \in DOMAIN writeQueue : Before(writeQueue[i].of, ToRead)
    /\ ~endSweep /\ vlatPc # "begin" =>
            writeAt = <<0, 0>> \/ Before(writeAt, ToRead)

\* The measurement set with these writes is what the application wrote.
PendingInv ==
    \A p \in SubChunks :
        /\ (\A i \in DOMAIN writeQueue : writeQueue[i].of # p) => stored[p] = written[p]
        /\ \A i \in DOMAIN writeQueue :
            /\ writeQueue[i].of = p
            /\ \A j \in DOMAIN writeQueue : i < j => writeQueue[j].of # p
            => writeQueue[i].value = written[p]

IterationInv ==
    /\ FlagsInv /\ SweepInv
    /\ ~endSweep => ListInv /\ ChunkListInv /\ SpanInv /\ AheadInv
    /\ QueueInv /\ PendingInv
    /\ failed = "no"
    /\ MoreIsRight

\* The flags say that the sweep goes on while the application may call.
LEMMA SweepGoesOn ==
    ASSUME TypesInv, FlagsInv
    PROVE  /\ mainPc \in {"app", "valid", "read", "chunk"} => ~endSweep /\ ~endAll /\ ~resetAsked
           /\ ~endSweep => mainPc \in {"app", "valid", "read", "chunk", "reset"}
           /\ mainPc = "reset" /\ resetDone => ~endSweep /\ ~resetAsked
           /\ vlatPc = "drainReset" /\ ~endAll => mainPc = "reset" /\ ~resetDone
  BY DEF TypesInv, TypeOK, FlagsInv

LEMMA PlacesKnown ==
    ASSUME TypesInv, SweepInv
    PROVE  /\ at \in Place /\ readAt \in Place /\ writeAt \in Place
           /\ FilledTo \in SubChunks \cup {End} /\ FilledTo \in Place
           /\ ListedTo \in SubChunks \cup {End} /\ ListedTo \in Place
           /\ ToRead \in SubChunks \cup ChunkStarts /\ ToRead \in Place
<1>1. at \in Place /\ readAt \in Place /\ writeAt \in Place
  BY PositionsAre DEF TypesInv, TypeOK
<1>2. vlatPc \in {"fill", "complete", "write"} => Succ(readAt) \in SubChunks \cup {End}
  <2>1. vlatPc \in {"fill", "complete", "write"} => readAt \in SubChunks
    BY DEF TypesInv, Sweeping
  <2> QED
    BY <2>1, SuccIsNext
<1>3. FilledTo \in SubChunks \cup {End} /\ ListedTo \in SubChunks \cup {End}
  BY <1>2, FirstSubChunk DEF FilledTo, ListedTo, SweepInv
<1>4. ToRead \in SubChunks \cup ChunkStarts
  <2>1. CASE mainPc = "app" /\ begun /\ more
    <3>1. at \in SubChunks
      BY <2>1 DEF TypesInv
    <3>2. Succ(at) \in SubChunks \cup {End} /\ End \in ChunkStarts
      BY <3>1, SuccIsNext, PlacesAre
    <3> QED
      BY <2>1, <3>2 DEF ToRead
  <2>2. CASE ~(mainPc = "app" /\ begun /\ more) /\ at \in ChunkEnds
    BY <2>2, PlacesAre DEF ToRead
  <2>3. CASE ~(mainPc = "app" /\ begun /\ more) /\ at \notin ChunkEnds
    <3>1. at \in SubChunks \cup ChunkStarts
      BY <2>3 DEF TypesInv
    <3> QED
      BY <2>3, <3>1 DEF ToRead
  <2> QED
    BY <2>1, <2>2, <2>3
<1> QED
  BY <1>1, <1>3, <1>4, PlacesAre

\* How the flags go from the one thread to the other.
LEMMA FlagsStep ==
    ASSUME TypesInv, FlagsInv, Next
    PROVE  FlagsInv'
<1> USE DEF FlagsInv
<1>0. endAll \in BOOLEAN /\ endSweep \in BOOLEAN /\ resetAsked \in BOOLEAN
      /\ resetDone \in BOOLEAN
  BY DEF TypesInv, TypeOK
<1>1. CASE Main
  <2>1. UNCHANGED vlatPc
    BY <1>1 DEF Main, Select, OriginChunks, AwaitReset, Origin, Advance,
       NextChunkCall, Call, IsValidSubChunk, IsValidChunk, ReadStart, Write,
       Terminate, Join, vlatVars
  <2>2. CASE OriginChunks
    BY <1>0, <2>1, <2>2 DEF OriginChunks, RequestReset, InApp
  <2>3. CASE Terminate
    BY <1>0, <2>1, <2>3 DEF Terminate, InApp
  <2>4. CASE AwaitReset
    BY <1>0, <2>1, <2>4 DEF AwaitReset, flagVars
  <2>5. CASE Join
    BY <1>0, <2>1, <2>5 DEF Join, flagVars
  <2>6. CASE \/ Select \/ Origin \/ Advance \/ NextChunkCall \/ IsValidSubChunk
             \/ IsValidChunk \/ ReadStart \/ Write
    <3>1. /\ mainPc \in {"app", "valid", "read", "chunk"}
          /\ mainPc' \in {"app", "valid", "read", "chunk"}
          /\ UNCHANGED flagVars
      BY <2>6 DEF Select, Origin, Advance, NextChunkCall, Call, InApp,
         IsValidSubChunk, IsValidChunk, ReadStart, Write, mainVars
    <3> QED
      BY <1>0, <2>1, <3>1 DEF flagVars
  <2> QED
    BY <1>1, <2>2, <2>3, <2>4, <2>5, <2>6 DEF Main
<1>2. CASE Vlat
  <2>0. UNCHANGED mainPc
    BY <1>2 DEF Vlat, mainVars
  <2>1. CASE ViReset
    <3>1. mainPc = "reset" /\ ~endAll
      BY <2>1, SweepGoesOn DEF ViReset
    <3>2. /\ resetAsked' = FALSE /\ endSweep' = FALSE /\ resetDone' = TRUE
          /\ vlatPc' = "begin" /\ UNCHANGED endAll
      BY <2>1 DEF ViReset, Goto
    <3> QED
      BY <1>0, <2>0, <3>1, <3>2
  <2>2. CASE WaitForViReset \/ Quit
    BY <1>0, <2>0, <2>2 DEF WaitForViReset, Quit, Goto, flagVars
  <2>3. CASE HandleWrite
    BY <1>0, <2>0, <2>3 DEF HandleWrite, DoWrite, flagVars
  <2>4. CASE \/ BeginSweep \/ WaitUntilFillCanStart \/ NothingToWrite \/ Sleep
             \/ SweepTerminated \/ FillStart \/ FillDatum \/ FillComplete
             \/ NextFill \/ SetNoMoreData
    <3>1. UNCHANGED flagVars /\ vlatPc' \notin {"drainReset", "final", "ended"}
      BY <2>4 DEF BeginSweep, WaitUntilFillCanStart, NothingToWrite, Sleep,
         SweepTerminated, FillStart, FillDatum, FillComplete, NextFill,
         SetNoMoreData, Goto
    <3> QED
      BY <1>0, <2>0, <3>1 DEF flagVars
  <2> QED
    BY <1>2, <2>1, <2>2, <2>3, <2>4 DEF Vlat
<1> QED
  BY <1>1, <1>2 DEF Next

-----------------------------------------------------------------------------
(* What the main thread finds in the lists and in the ring.                 *)

LEMMA ToldOfEnd ==
    ASSUME TypesInv, SweepInv, ~endSweep, vlatPc \in Idle
    PROVE  ListedTo = End
  BY DEF SweepInv, ListedTo, Idle

\* The first subchunk left in the list is the one asked for if there is such a
\* subchunk.
LEMMA SubChunkFound ==
    ASSUME TypesInv, FlagsInv, SweepInv, ListInv, mainPc = "valid",
           NEW left \in SubsFrom(at), left # <<>>
    PROVE  Head(left) = at <=> at \in SubChunks
<1>1. validSubs \in Seq(SubChunks \cup {NoMoreData})
  BY DEF TypesInv, TypeOK
<1>2. PICK n \in 0..Len(validSubs) :
        /\ left \in Seq(SubChunks \cup {NoMoreData})
        /\ Len(left) = Len(validSubs) - n
        /\ \A i \in 1..Len(left) :
            n + i \in 1..Len(validSubs) /\ left[i] = validSubs[n + i]
        /\ left = <<>> <=> n = Len(validSubs)
        /\ \A i \in 1..n : Before(validSubs[i], at)
        /\ n < Len(validSubs) => ~Before(validSubs[n + 1], at)
  BY <1>1, SubsFromIs
<1>3. /\ n < Len(validSubs) /\ n + 1 \in DOMAIN validSubs
      /\ Head(left) = validSubs[n + 1] /\ ~Before(validSubs[n + 1], at)
      /\ DOMAIN validSubs = 1..Len(validSubs) /\ Len(validSubs) \in Nat
  BY <1>1, <1>2
<1>4. /\ at \in SubChunks \cup ChunkEnds /\ ~endSweep
      /\ at \in Place /\ ListedTo \in Place
  BY SweepGoesOn, PlacesKnown DEF TypesInv
<1>5. ASSUME Head(left) = at PROVE at \in SubChunks
  <2>1. Head(left) \in SubChunks \cup {NoMoreData}
    BY <1>1, <1>3
  <2> QED
    BY <1>4, <1>5, <2>1, Moves
<1>6. ASSUME at \in SubChunks PROVE Head(left) = at
  <2>1. Before(at, ListedTo)
    <3>1. CASE validSubs[n + 1] \in SubChunks /\ Before(validSubs[n + 1], ListedTo)
      <4>1. validSubs[n + 1] \in Place
        BY <3>1, SubChunksPlaces
      <4> QED
        BY <1>3, <1>4, <3>1, <4>1, BeforeOrders
    <3>2. CASE vlatPc \in Idle
      BY <1>4, <1>6, <3>2, ToldOfEnd, PlacesAre
    <3> QED
      BY <1>3, <3>1, <3>2 DEF ListInv
  <2>2. ~Before(at, at)
    BY <1>4, BeforeOrders
  <2>3. PICK i \in DOMAIN validSubs : validSubs[i] = at
    BY <1>6, <2>1, <2>2 DEF ListInv
  <2>4. ~(i \in 1..n)
    BY <1>2, <2>2, <2>3
  <2>5. ~(n + 1 < i)
    BY <1>3, <2>3 DEF ListInv
  <2>6. i = n + 1
    BY <1>3, <2>4, <2>5
  <2> QED
    BY <1>3, <2>3, <2>6
<1> QED
  BY <1>5, <1>6

LEMMA ChunkFound ==
    ASSUME TypesInv, FlagsInv, SweepInv, ChunkListInv, mainPc = "chunk",
           NEW left \in ChunksFrom(at), left # <<>>
    PROVE  Head(left) = at[1] <=> at \in SubChunks
<1>1. validChunks \in Seq(Nat)
  BY DEF TypesInv, TypeOK
<1>2. PICK n \in 0..Len(validChunks) :
        /\ left \in Seq(Nat) /\ Len(left) = Len(validChunks) - n
        /\ \A i \in 1..Len(left) :
            n + i \in 1..Len(validChunks) /\ left[i] = validChunks[n + i]
        /\ left = <<>> <=> n = Len(validChunks)
        /\ \A i \in 1..n : validChunks[i] < at[1]
        /\ n < Len(validChunks) => validChunks[n + 1] >= at[1]
  BY <1>1, ChunksFromIs
<1>3. /\ n < Len(validChunks) /\ n + 1 \in DOMAIN validChunks
      /\ Head(left) = validChunks[n + 1] /\ validChunks[n + 1] >= at[1]
      /\ DOMAIN validChunks = 1..Len(validChunks) /\ Len(validChunks) \in Nat
      /\ validChunks[n + 1] \in Nat
  BY <1>1, <1>2, SMTT(30)
<1>4. /\ at \in ChunkStarts /\ ~endSweep /\ at = <<at[1], 0>>
      /\ at[1] \in Nat /\ at \in Place /\ ListedTo \in Place
  <2>1. at \in ChunkStarts /\ ~endSweep /\ at \in Place /\ ListedTo \in Place
    BY SweepGoesOn, PlacesKnown DEF TypesInv
  <2> QED
    BY <2>1, Moves DEF Place
<1>5. ASSUME Head(left) = at[1] PROVE at \in SubChunks
  <2>1. Head(left) \in 0..(NrChunks - 1) \cup {NoMoreData[1]}
    BY <1>3 DEF TypesInv
  <2> QED
    BY <1>4, <1>5, <2>1, Moves
<1>6. ASSUME at \in SubChunks PROVE Head(left) = at[1]
  <2>1. Before(at, ListedTo)
    <3>1. CASE /\ validChunks[n + 1] \in 0..(NrChunks - 1)
               /\ Before(<<validChunks[n + 1], 0>>, ListedTo)
      <4>1. <<validChunks[n + 1], 0>> \in Place
        BY <1>3 DEF Place
      <4>2. ~Before(<<validChunks[n + 1], 0>>, at)
        BY <1>3, <1>4 DEF Before
      <4> QED
        BY <1>4, <3>1, <4>1, <4>2, BeforeOrders
    <3>2. CASE vlatPc \in Idle
      BY <1>4, <1>6, <3>2, ToldOfEnd, PlacesAre
    <3> QED
      BY <1>3, <3>1, <3>2 DEF ChunkListInv
  <2>2. at[1] \in 0..(NrChunks - 1)
    BY <1>4, <1>6, Moves
  <2>3. PICK i \in DOMAIN validChunks : validChunks[i] = at[1]
    BY <1>4, <2>1, <2>2 DEF ChunkListInv
  <2>4. ~(i \in 1..n)
    BY <1>2, <1>4, <2>3
  <2>5. ~(n + 1 < i)
    BY <1>3, <1>4, <2>3 DEF ChunkListInv
  <2>6. i = n + 1
    BY <1>3, <2>4, <2>5
  <2> QED
    BY <1>3, <2>3, <2>6
<1> QED
  BY <1>5, <1>6

\* The first buffer of the ring is that of the subchunk being read.
LEMMA BufferFound ==
    ASSUME TypesInv, SweepInv, SpanInv, mainPc = "read", ring # <<>>
    PROVE  /\ at \in SubChunks /\ ToRead = at /\ 1 \in DOMAIN ring
           /\ Head(ring) = ring[1] /\ ring[1].of = at
           /\ Before(at, FilledTo)
<1>1. at \in SubChunks /\ at \notin ChunkEnds /\ mainPc # "app"
  BY PlacesAre DEF TypesInv
<1>2. ToRead = at
  BY <1>1 DEF ToRead
<1>3. ring \in Seq(Datum)
  BY DEF TypesInv, TypeOK
<1>4. DOMAIN ring = 1..Len(ring) /\ Len(ring) \in Nat /\ 1 \in DOMAIN ring
      /\ Head(ring) = ring[1]
  BY <1>3
<1>5. /\ ring[1].of \in SubChunks
      /\ ~Before(ring[1].of, at) /\ Before(ring[1].of, FilledTo)
  BY <1>2, <1>4 DEF SpanInv
<1>6. Before(at, FilledTo) /\ ~Before(at, at)
  BY <1>1, <1>5, SubChunksPlaces, PlacesKnown, BeforeOrders
<1>7. PICK i \in DOMAIN ring : ring[i].of = at
  BY <1>1, <1>2, <1>6 DEF SpanInv
<1>8. i = 1
  BY <1>4, <1>5, <1>7 DEF SpanInv
<1> QED
  BY <1>1, <1>2, <1>4, <1>6, <1>7, <1>8

-----------------------------------------------------------------------------
(* What a step of the main thread keeps.                                    *)

Asks == IsValidSubChunk \/ IsValidChunk
Calls == Origin \/ Advance \/ NextChunkCall

LEMMA MainLeaves ==
    ASSUME Main
    PROVE  /\ UNCHANGED <<vlatVars, stored, endSweep>> \/ endSweep'
           /\ UNCHANGED <<vlatPc, readAt, writeAt, datum, applied, stored>>
           /\ FilledTo' = FilledTo /\ ListedTo' = ListedTo
           /\ ~endSweep' => ~endSweep
           /\ ~IsValidSubChunk => UNCHANGED validSubs
           /\ ~IsValidChunk => UNCHANGED validChunks
           /\ ~ReadStart => UNCHANGED ring
           /\ ~Write => UNCHANGED <<written, writeQueue>>
           /\ ~ReadStart => buffer' \in {buffer, NoBuffer}
           /\ ~IsValidSubChunk /\ ~ReadStart => UNCHANGED failed
<1>1. /\ UNCHANGED vlatVars /\ UNCHANGED stored
      /\ UNCHANGED endSweep \/ endSweep' = TRUE
      /\ ~IsValidSubChunk => UNCHANGED validSubs
      /\ ~IsValidChunk => UNCHANGED validChunks
      /\ ~ReadStart => UNCHANGED ring
      /\ ~Write => UNCHANGED <<written, writeQueue>>
      /\ ~ReadStart => buffer' \in {buffer, NoBuffer}
      /\ ~IsValidSubChunk /\ ~ReadStart => UNCHANGED failed
  <2>1. CASE Select
    BY <2>1 DEF Select, mainVars, dataVars, flagVars
  <2>2. CASE OriginChunks
    BY <2>2 DEF OriginChunks, dataVars, RequestReset
  <2>3. CASE AwaitReset
    BY <2>3 DEF AwaitReset, dataVars, flagVars
  <2>4. CASE Calls
    BY <2>4 DEF Calls, Origin, Advance, NextChunkCall, Call, dataVars, flagVars
  <2>5. CASE Asks
    BY <2>5 DEF Asks, IsValidSubChunk, IsValidChunk, flagVars
  <2>6. CASE ReadStart
    BY <2>6 DEF ReadStart, flagVars
  <2>7. CASE Write
    BY <2>7 DEF Write, dataVars, flagVars
  <2>8. CASE Terminate \/ Join
    BY <2>8 DEF Terminate, Join, dataVars, flagVars
  <2> QED
    BY <2>1, <2>2, <2>3, <2>4, <2>5, <2>6, <2>7, <2>8 DEF Main, Calls, Asks
<1>2. UNCHANGED <<vlatPc, readAt, writeAt, datum, applied>>
  BY <1>1 DEF vlatVars
<1> QED
  BY <1>1, <1>2 DEF FilledTo, ListedTo

\* Where the main thread is in a call, and what is then behind it.
LEMMA MainGoesOn ==
    ASSUME TypesInv, MoreIsRight, Main, ~endSweep', ~MayRove
    PROVE  /\ at' \in Place /\ ~Before(at', at)
           /\ ~ReadStart => ToRead' = ToRead
<1>1. at \in Place /\ ~Before(at, at)
  <2>1. at \in Place
    BY PositionsAre DEF TypesInv, TypeOK
  <2> QED
    BY <2>1, BeforeOrders
<1>2. CASE Origin
  <2>1. /\ mainPc = "app" /\ ~begun /\ more /\ at' = <<at[1], 0>>
        /\ mainPc' = "valid"
    BY <1>2 DEF Origin, Call, InApp
  <2>2. at' = at
    BY <2>1, Moves DEF TypesInv
  <2> QED
    BY <1>1, <2>1, <2>2 DEF ToRead
<1>3. CASE Advance
  <2>1. /\ mainPc = "app" /\ begun /\ more /\ at' = NextSub(at) /\ mainPc' = "valid"
    BY <1>3 DEF Advance, Call, InApp
  <2>2. at \in SubChunks
    BY <2>1 DEF TypesInv
  <2>3. at' \in SubChunks \cup ChunkEnds /\ Before(at, at') /\ ToRead = Succ(at)
    BY <2>1, <2>2, SuccIsNext DEF ToRead
  <2>4. at' \in Place /\ ~Before(at', at)
    BY <1>1, <2>3, PlacesAre, BeforeOrders
  <2>5. ToRead' = IF at' \in ChunkEnds THEN NextChunk(at') ELSE at'
    BY <2>1 DEF ToRead
  <2>6. ToRead' = Succ(at)
    BY <2>1, <2>2, <2>5, SuccIsNext, PlacesAre
  <2> QED
    BY <2>3, <2>4, <2>6
<1>4. CASE NextChunkCall
  <2>1. /\ mainPc = "app" /\ begun /\ ~more /\ at' = NextChunk(at)
        /\ mainPc' = "chunk"
    BY <1>4 DEF NextChunkCall, Call, InApp
  <2>2. at \in ChunkEnds
    BY <2>1 DEF TypesInv, MoreIsRight
  <2>3. at' \in ChunkStarts /\ at' \notin ChunkEnds /\ Before(at, at')
    BY <2>1, <2>2, PlacesAre, ChunkEndIsNext
  <2>4. at' \in Place /\ ~Before(at', at)
    BY <1>1, <2>3, PlacesAre, BeforeOrders
  <2> QED
    BY <2>1, <2>2, <2>3, <2>4 DEF ToRead
<1>5. CASE Asks
  <2>1. /\ UNCHANGED <<at, begun>> /\ mainPc \in {"valid", "chunk"}
        /\ mainPc = "valid" /\ mainPc' = "app" => ~more'
    <3>1. CASE IsValidSubChunk
      BY <3>1 DEF IsValidSubChunk
    <3>2. CASE IsValidChunk
      BY <3>2 DEF IsValidChunk
    <3> QED
      BY <1>5, <3>1, <3>2 DEF Asks
  <2>2. ~(mainPc' = "app" /\ begun' /\ more')
    BY <2>1 DEF TypesInv
  <2> QED
    BY <1>1, <2>1, <2>2 DEF ToRead
<1>6. CASE ReadStart
  BY <1>1, <1>6 DEF ReadStart
<1>7. CASE Select \/ Write
  <2>1. UNCHANGED <<mainPc, at, begun, more>>
    BY <1>7 DEF Select, Write, mainVars
  <2> QED
    BY <1>1, <2>1 DEF ToRead
<1>8. CASE AwaitReset
  <2>1. UNCHANGED <<at, begun, more>> /\ ~begun
    BY <1>8 DEF AwaitReset, TypesInv
  <2> QED
    BY <1>1, <2>1 DEF ToRead
<1>9. CASE OriginChunks \/ Terminate
  BY <1>9 DEF OriginChunks, Terminate, RequestReset
<1>10. CASE Join
  <2>1. UNCHANGED <<at, begun, more>> /\ mainPc = "join" /\ mainPc' = "gone"
    BY <1>10 DEF Join
  <2> QED
    BY <1>1, <2>1 DEF ToRead
<1> QED
  BY <1>2, <1>3, <1>4, <1>5, <1>6, <1>7, <1>8, <1>9, <1>10 DEF Main, Asks

\* The lists lose nothing that the main thread has yet to ask for.
LEMMA MainLists ==
    ASSUME TypesInv, SweepInv, MoreIsRight, ListInv, Main, ~endSweep', ~MayRove
    PROVE  ListInv'
<1>1. /\ at \in Place /\ at' \in Place /\ ~Before(at', at)
      /\ UNCHANGED vlatPc /\ ListedTo' = ListedTo
  BY PlacesKnown, MainGoesOn, MainLeaves
<1>2. \A q \in SubChunks : ~Before(q, at') => ~Before(q, at)
  BY <1>1, SubChunksPlaces, BeforeOrders
<1>3. CASE ~IsValidSubChunk
  BY <1>1, <1>2, <1>3, MainLeaves DEF ListInv
<1>4. CASE IsValidSubChunk
  <2>1. /\ validSubs \in Seq(SubChunks \cup {NoMoreData})
        /\ validSubs' \in SubsFrom(at) /\ at' = at
    BY <1>4 DEF TypesInv, TypeOK, IsValidSubChunk
  <2>2. PICK n \in 0..Len(validSubs) :
          /\ validSubs' \in Seq(SubChunks \cup {NoMoreData})
          /\ Len(validSubs') = Len(validSubs) - n
          /\ \A i \in 1..Len(validSubs') :
                n + i \in 1..Len(validSubs) /\ validSubs'[i] = validSubs[n + i]
          /\ \A i \in 1..n : Before(validSubs[i], at)
    BY <2>1, SubsFromIs
  <2>3. /\ DOMAIN validSubs = 1..Len(validSubs) /\ Len(validSubs) \in Nat
        /\ DOMAIN validSubs' = 1..Len(validSubs')
    BY <2>1, <2>2
  <2>4. ASSUME NEW i \in DOMAIN validSubs', NEW j \in DOMAIN validSubs', i < j
        PROVE  Before(validSubs'[i], validSubs'[j])
    <3>1. n + i \in DOMAIN validSubs /\ n + j \in DOMAIN validSubs /\ n + i < n + j
      BY <2>2, <2>3, <2>4
    <3> QED
      BY <2>2, <2>3, <3>1 DEF ListInv
  <2>5. ASSUME NEW i \in DOMAIN validSubs'
        PROVE  \/ validSubs'[i] \in SubChunks /\ Before(validSubs'[i], ListedTo')
               \/ validSubs'[i] = NoMoreData /\ vlatPc' \in Idle
    <3>1. n + i \in DOMAIN validSubs /\ validSubs'[i] = validSubs[n + i]
      BY <2>2, <2>3
    <3> QED
      BY <1>1, <3>1 DEF ListInv
  <2>6. ASSUME NEW q \in SubChunks, ~Before(q, at'), Before(q, ListedTo')
        PROVE  \E i \in DOMAIN validSubs' : validSubs'[i] = q
    <3>1. PICK i \in DOMAIN validSubs : validSubs[i] = q
      BY <1>1, <1>2, <2>6 DEF ListInv
    <3>2. ~(i \in 1..n)
      BY <2>1, <2>2, <2>6, <3>1
    <3>3. i - n \in DOMAIN validSubs' /\ n + (i - n) = i
      BY <2>2, <2>3, <3>2
    <3>4. validSubs'[i - n] = q
      BY <2>2, <2>3, <3>1, <3>3
    <3> QED
      BY <3>3, <3>4
  <2> QED
    BY <2>4, <2>5, <2>6 DEF ListInv
<1> QED
  BY <1>3, <1>4

LEMMA MainChunkLists ==
    ASSUME TypesInv, SweepInv, MoreIsRight, ChunkListInv, Main, ~endSweep', ~MayRove
    PROVE  ChunkListInv'
<1>1. /\ at \in Place /\ at' \in Place /\ ~Before(at', at)
      /\ UNCHANGED vlatPc /\ ListedTo' = ListedTo
  BY PlacesKnown, MainGoesOn, MainLeaves
<1>2. \A c \in 0..(NrChunks - 1) : at'[1] <= c => at[1] <= c
  BY <1>1, LayoutCounts DEF Place, Before
<1>3. CASE ~IsValidChunk
  BY <1>1, <1>2, <1>3, MainLeaves DEF ChunkListInv
<1>4. CASE IsValidChunk
  <2>1. validChunks \in Seq(Nat) /\ validChunks' \in ChunksFrom(at) /\ at' = at
        /\ at[1] \in Nat
    BY <1>1, <1>4 DEF TypesInv, TypeOK, IsValidChunk, Place
  <2>2. PICK n \in 0..Len(validChunks) :
          /\ validChunks' \in Seq(Nat) /\ Len(validChunks') = Len(validChunks) - n
          /\ \A i \in 1..Len(validChunks') :
                n + i \in 1..Len(validChunks) /\ validChunks'[i] = validChunks[n + i]
          /\ \A i \in 1..n : validChunks[i] < at[1]
    BY <2>1, ChunksFromIs
  <2>3. /\ DOMAIN validChunks = 1..Len(validChunks) /\ Len(validChunks) \in Nat
        /\ DOMAIN validChunks' = 1..Len(validChunks')
    BY <2>1, <2>2
  <2>4. ASSUME NEW i \in DOMAIN validChunks', NEW j \in DOMAIN validChunks', i < j
        PROVE  validChunks'[i] < validChunks'[j]
    <3>1. /\ n + i \in DOMAIN validChunks /\ n + j \in DOMAIN validChunks
          /\ n + i < n + j
      BY <2>2, <2>3, <2>4, SMTT(30)
    <3> QED
      BY <2>2, <2>3, <3>1, SMTT(30) DEF ChunkListInv
  <2>5. ASSUME NEW i \in DOMAIN validChunks'
        PROVE  \/ /\ validChunks'[i] \in 0..(NrChunks - 1)
                  /\ Before(<<validChunks'[i], 0>>, ListedTo')
               \/ validChunks'[i] = NoMoreData[1] /\ vlatPc' \in Idle
    <3>1. n + i \in DOMAIN validChunks /\ validChunks'[i] = validChunks[n + i]
      BY <2>2, <2>3
    <3> QED
      BY <1>1, <3>1 DEF ChunkListInv
  <2>6. ASSUME NEW c \in 0..(NrChunks - 1), at'[1] <= c, Before(<<c, 0>>, ListedTo')
        PROVE  \E i \in DOMAIN validChunks' : validChunks'[i] = c
    <3>1. PICK i \in DOMAIN validChunks : validChunks[i] = c
      BY <1>1, <1>2, <2>6 DEF ChunkListInv
    <3>2. ~(i \in 1..n)
      BY <2>1, <2>2, <2>6, <3>1, SMTT(30)
    <3>3. i - n \in DOMAIN validChunks' /\ n + (i - n) = i
      BY <2>2, <2>3, <3>2
    <3>4. validChunks'[i - n] = c
      BY <2>2, <2>3, <3>1, <3>3
    <3> QED
      BY <3>3, <3>4
  <2> QED
    BY <2>4, <2>5, <2>6 DEF ChunkListInv
<1> QED
  BY <1>3, <1>4

LEMMA TailIs ==
    ASSUME NEW S, NEW q \in Seq(S), q # <<>>
    PROVE  /\ Tail(q) \in Seq(S)
           /\ DOMAIN q = 1..Len(q) /\ Len(q) \in Nat /\ 1 \in DOMAIN q
           /\ Head(q) = q[1]
           /\ \A i \in DOMAIN Tail(q) :
                i \in Nat /\ i + 1 \in DOMAIN q /\ Tail(q)[i] = q[i + 1]
           /\ \A i \in DOMAIN q :
                \/ i = 1
                \/ i - 1 \in DOMAIN Tail(q) /\ Tail(q)[i - 1] = q[i] /\ i > 1
<1>1. /\ Tail(q) \in Seq(S) /\ Len(Tail(q)) = Len(q) - 1
      /\ DOMAIN q = 1..Len(q) /\ Len(q) \in Nat /\ Len(q) > 0
      /\ Head(q) = q[1]
  OBVIOUS
<1>2. DOMAIN Tail(q) = 1..(Len(q) - 1)
  BY <1>1
<1>3. \A i \in 1..(Len(q) - 1) : Tail(q)[i] = q[i + 1]
  BY <1>1, HeadTailProperties
<1>4. ASSUME NEW i \in DOMAIN q, i # 1
      PROVE  i - 1 \in DOMAIN Tail(q) /\ Tail(q)[i - 1] = q[i] /\ i > 1
  <2>1. i - 1 \in 1..(Len(q) - 1) /\ (i - 1) + 1 = i /\ i > 1
    BY <1>1, <1>4
  <2> QED
    BY <1>2, <1>3, <2>1
<1> QED
  BY <1>1, <1>2, <1>3, <1>4

\* The main thread takes the buffer it needs.
LEMMA BufferTaken ==
    ASSUME TypesInv, SweepInv, SpanInv, ReadStart, ring # <<>>
    PROVE  /\ at \in SubChunks /\ at' = at /\ ToRead = at /\ ToRead' = Succ(at)
           /\ mainPc' = "app" /\ more' /\ begun'
           /\ Before(at, FilledTo)
           /\ UNCHANGED failed /\ ring' = Tail(ring) /\ buffer' = Head(ring)
           /\ Head(ring) = ring[1] /\ 1 \in DOMAIN ring /\ ring[1].of = at
<1>1. /\ mainPc = "read" /\ ring' = Tail(ring)
      /\ IF Head(ring).of = at
         THEN buffer' = Head(ring) /\ mainPc' = "app" /\ UNCHANGED failed
         ELSE buffer' = NoBuffer /\ failed' = "reader" /\ UNCHANGED mainPc
      /\ UNCHANGED <<at, more, begun>>
  BY DEF ReadStart
<1>2. /\ at \in SubChunks /\ ToRead = at /\ Head(ring).of = at /\ 1 \in DOMAIN ring
      /\ Head(ring) = ring[1] /\ ring[1].of = at /\ Before(at, FilledTo)
  BY <1>1, BufferFound
<1>3. mainPc' = "app" /\ more' /\ begun'
  BY <1>1, <1>2 DEF TypesInv
<1> QED
  BY <1>1, <1>2, <1>3 DEF ToRead

LEMMA MainSpan ==
    ASSUME TypesInv, SweepInv, MoreIsRight, SpanInv, Main, ~endSweep', ~MayRove
    PROVE  SpanInv'
<1>0. FilledTo' = FilledTo
  BY MainLeaves
<1>1. CASE ~ReadStart
  BY <1>0, <1>1, MainLeaves, MainGoesOn DEF SpanInv
<1>2. CASE ReadStart /\ ring = <<>>
  <2>1. UNCHANGED <<mainPc, at, begun, more, ring>> /\ buffer' = NoBuffer
    BY <1>2 DEF ReadStart
  <2>2. ToRead' = ToRead
    BY <2>1 DEF ToRead
  <2> QED
    BY <1>0, <2>1, <2>2 DEF SpanInv
<1>3. CASE ReadStart /\ ring # <<>>
  <2>1. /\ at \in SubChunks /\ ToRead = at /\ ToRead' = Succ(at)
        /\ Before(at, FilledTo) /\ ring' = Tail(ring) /\ buffer' = Head(ring)
        /\ Head(ring) = ring[1] /\ 1 \in DOMAIN ring /\ ring[1].of = at
    BY <1>3, BufferTaken
  <2>2. /\ DOMAIN ring = 1..Len(ring)
        /\ \A i \in DOMAIN ring' :
                i \in Nat /\ i + 1 \in DOMAIN ring /\ ring'[i] = ring[i + 1]
        /\ \A i \in DOMAIN ring :
                \/ i = 1
                \/ i - 1 \in DOMAIN ring' /\ ring'[i - 1] = ring[i] /\ i > 1
    <3>1. ring \in Seq(Datum)
      BY DEF TypesInv, TypeOK
    <3> QED
      BY <1>3, <2>1, <3>1, TailIs
  <2>3. /\ Succ(at) \in SubChunks \cup {End} /\ Succ(at) \in Place
        /\ FilledTo \in SubChunks \cup {End} /\ FilledTo \in Place
        /\ at \in Place /\ End \in Place
        /\ \A q \in SubChunks : Before(q, Succ(at)) <=> ~Before(at, q)
        /\ \A q \in SubChunks : Before(q, End)
    BY <2>1, SuccIsNext, PlacesKnown, PlacesAre
  <2>4. ~Before(FilledTo, Succ(at))
    <3>1. CASE FilledTo \in SubChunks
      BY <2>1, <2>3, <3>1
    <3>2. CASE FilledTo = End
      BY <2>3, <3>2, BeforeOrders
    <3> QED
      BY <2>3, <3>1, <3>2
  <2>5. ASSUME NEW i \in DOMAIN ring', NEW j \in DOMAIN ring', i < j
        PROVE  Before(ring'[i].of, ring'[j].of)
    <3>1. i + 1 \in DOMAIN ring /\ j + 1 \in DOMAIN ring /\ i + 1 < j + 1
      BY <2>2, <2>5
    <3> QED
      BY <2>2, <3>1 DEF SpanInv
  <2>6. ASSUME NEW i \in DOMAIN ring'
        PROVE  /\ ring'[i].of \in SubChunks
               /\ ~Before(ring'[i].of, Succ(at)) /\ Before(ring'[i].of, FilledTo)
    <3>1. i + 1 \in DOMAIN ring /\ ring'[i] = ring[i + 1] /\ 1 < i + 1
      <4>1. i \in Nat /\ i # 0
        BY <2>1, <2>2
      <4> QED
        BY <2>2, <4>1
    <3>2. ring'[i].of \in SubChunks /\ Before(ring'[i].of, FilledTo)
      BY <3>1 DEF SpanInv
    <3>3. Before(at, ring'[i].of)
      BY <2>1, <3>1 DEF SpanInv
    <3> QED
      BY <2>3, <3>2, <3>3
  <2>7. ASSUME NEW q \in SubChunks, ~Before(q, Succ(at)), Before(q, FilledTo)
        PROVE  \E i \in DOMAIN ring' : ring'[i].of = q
    <3>1. Before(at, q) /\ q \in Place
      BY <2>3, <2>7, SubChunksPlaces
    <3>2. ~Before(q, at) /\ q # at
      BY <2>3, <3>1, BeforeOrders
    <3>3. PICK i \in DOMAIN ring : ring[i].of = q
      BY <2>1, <2>7, <3>2 DEF SpanInv
    <3>4. i # 1
      BY <2>1, <3>2, <3>3
    <3> QED
      BY <2>2, <3>3, <3>4
  <2>8. buffer'.of \in SubChunks /\ Before(buffer'.of, Succ(at))
    BY <2>1, SuccIsNext
  <2> QED
    BY <1>0, <2>1, <2>4, <2>5, <2>6, <2>7, <2>8 DEF SpanInv
<1> QED
  BY <1>1, <1>2, <1>3

\* Where the main thread may write it has read, and nothing that is read ahead
\* is of this subchunk or before it.
LEMMA WriterReads ==
    ASSUME TypesInv, FlagsInv, SweepInv, MoreIsRight, Write, ~endSweep => SpanInv
    PROVE  /\ at \in SubChunks /\ ToRead = Succ(at) /\ ~endSweep
           /\ mainPc = "app" /\ begun /\ more
           /\ Before(at, FilledTo)
           /\ \A i \in DOMAIN ring : ring[i].of # at
<1>1. /\ mainPc = "app" /\ buffer # NoBuffer /\ buffer.of = at
  BY DEF Write, InApp
<1>2. ~endSweep
  BY <1>1, SweepGoesOn
<1>3. at \in SubChunks /\ Before(at, ToRead)
  BY <1>1, <1>2 DEF SpanInv
<1>4. at \notin ChunkEnds /\ at \in Place /\ ~Before(at, at)
  BY <1>3, PlacesAre, BeforeOrders
<1>5. begun /\ more /\ ToRead = Succ(at)
  BY <1>1, <1>3, <1>4 DEF ToRead
<1>6. Before(at, FilledTo)
  BY <1>2, <1>3, <1>4, PlacesKnown, BeforeOrders DEF SpanInv
<1>7. ASSUME NEW i \in DOMAIN ring PROVE ring[i].of # at
  BY <1>2, <1>3 DEF SpanInv
<1> QED
  BY <1>1, <1>2, <1>3, <1>5, <1>6, <1>7

LEMMA MainAhead ==
    ASSUME TypesInv, FlagsInv, SweepInv, MoreIsRight, SpanInv, AheadInv, Main, ~endSweep',
           ~MayRove
    PROVE  AheadInv'
<1>0. UNCHANGED <<vlatPc, readAt, datum, applied>>
  BY MainLeaves
<1>1. CASE ~ReadStart /\ ~Write
  BY <1>0, <1>1, MainLeaves DEF AheadInv
<1>2. CASE Write
  <2>1. /\ at \in SubChunks /\ Before(at, FilledTo)
        /\ \A i \in DOMAIN ring : ring[i].of # at
    BY <1>2, WriterReads
  <2>2. written' = [written EXCEPT ![at] = writes'] /\ UNCHANGED ring
    BY <1>2 DEF Write, dataVars
  <2>3. written \in [SubChunks -> 0..MaxWrites]
    BY DEF TypesInv, TypeOK
  <2>4. vlatPc = "complete" => readAt # at
    <3>1. vlatPc = "complete" => FilledTo = readAt
      BY DEF FilledTo
    <3>2. ~Before(at, at)
      BY <2>1, SubChunksPlaces, BeforeOrders
    <3> QED
      BY <2>1, <3>1, <3>2
  <2>5. \A p \in SubChunks : p # at => written'[p] = written[p]
    BY <2>2, <2>3
  <2>6. vlatPc = "complete" => readAt \in SubChunks
    BY DEF TypesInv, Sweeping
  <2> QED
    BY <1>0, <2>1, <2>2, <2>4, <2>5, <2>6 DEF AheadInv, SpanInv
<1>3. CASE ReadStart /\ ring = <<>>
  BY <1>0, <1>3 DEF ReadStart, AheadInv
<1>4. CASE ReadStart /\ ring # <<>>
  <2>1. ring' = Tail(ring) /\ UNCHANGED written /\ ring \in Seq(Datum)
    BY <1>4 DEF ReadStart, TypesInv, TypeOK
  <2>2. \A i \in DOMAIN ring' : i + 1 \in DOMAIN ring /\ ring'[i] = ring[i + 1]
    BY <1>4, <2>1, TailIs
  <2> QED
    BY <1>0, <2>1, <2>2 DEF AheadInv
<1> QED
  BY <1>1, <1>2, <1>3, <1>4

LEMMA MainReads ==
    ASSUME TypesInv, SweepInv, MoreIsRight, SpanInv, Main, ~endSweep', ~MayRove
    PROVE  \A p \in SubChunks : Before(p, ToRead) => Before(p, ToRead')
<1>1. CASE ~ReadStart
  BY <1>1, MainGoesOn
<1>2. CASE ReadStart /\ ring = <<>>
  BY <1>2 DEF ReadStart, ToRead
<1>3. CASE ReadStart /\ ring # <<>>
  <2>1. /\ at \in SubChunks /\ ToRead = at /\ ToRead' = Succ(at)
        /\ at \in Place
    BY <1>3, BufferTaken, SubChunksPlaces
  <2> QED
    BY <2>1, SuccIsNext, SubChunksPlaces, BeforeOrders
<1> QED
  BY <1>1, <1>2, <1>3

\* What is written to has been read by the VLAT and not been passed by its
\* write iterator.
LEMMA WriteQueued ==
    ASSUME TypesInv, FlagsInv, SweepInv, MoreIsRight, QueueInv, Write,
           ~endSweep => SpanInv
    PROVE  QueueInv'
<1>1. /\ at \in SubChunks /\ ToRead = Succ(at) /\ ~endSweep
      /\ mainPc = "app" /\ Before(at, FilledTo) /\ at \in Place
      /\ \A q \in SubChunks : Before(q, Succ(at)) <=> ~Before(at, q)
  BY WriterReads, SuccIsNext, SubChunksPlaces
<1>2. /\ writeQueue' = Append(writeQueue, [of |-> at, value |-> writes'])
      /\ UNCHANGED <<vlatPc, readAt, writeAt, endSweep, mainPc, at, begun, more>>
  BY DEF Write, vlatVars, flagVars
<1>3. ToRead' = ToRead
  BY <1>2 DEF ToRead
<1>4. vlatPc # "begin" /\ vlatPc # "ended"
  <2>1. vlatPc # "ended"
    BY <1>1, SweepGoesOn DEF FlagsInv
  <2>2. <<0, 0>> \in SubChunks /\ at[1] \in Nat /\ at[2] \in Nat
    BY <1>1, FirstSubChunk DEF Place
  <2>3. ~Before(at, <<0, 0>>)
    BY <2>2 DEF Before
  <2> QED
    BY <1>1, <2>1, <2>3 DEF FilledTo
<1>5. ~Before(readAt, at)
  <2>1. CASE vlatPc = "write"
    <3>1. readAt \in SubChunks /\ FilledTo = Succ(readAt)
      BY <2>1 DEF TypesInv, FilledTo
    <3> QED
      BY <1>1, <3>1, SuccIsNext
  <2>2. CASE vlatPc # "write"
    <3>1. FilledTo = readAt /\ readAt \in Place
      BY <1>4, <2>2, PlacesKnown DEF FilledTo
    <3> QED
      BY <1>1, <3>1, BeforeOrders
  <2> QED
    BY <2>1, <2>2
<1>6. ~Before(at, writeAt)
  <2>1. writeAt \in SubChunks /\ (writeAt = <<0, 0>> \/ Before(writeAt, ToRead))
    BY <1>1, <1>4 DEF QueueInv, SweepInv
  <2>2. ~Before(at, <<0, 0>>)
    BY <1>1 DEF Before, Place
  <2> QED
    BY <1>1, <2>1, <2>2
<1> DEFINE w == [of |-> at, value |-> writes']
<1>7. /\ w.of = at
      /\ \A i \in DOMAIN writeQueue' :
            \/ i \in DOMAIN writeQueue /\ writeQueue'[i] = writeQueue[i]
            \/ i = Len(writeQueue) + 1 /\ writeQueue'[i] = w
      /\ DOMAIN writeQueue = 1..Len(writeQueue) /\ Len(writeQueue) \in Nat
  <2>1. writeQueue \in Seq([of : SubChunks, value : 1..MaxWrites])
    BY DEF TypesInv, TypeOK
  <2>2. w \in [of : SubChunks, value : 1..MaxWrites]
    <3>1. writes' \in 1..MaxWrites
      BY LookAheadAssumption DEF TypesInv, TypeOK, Write
    <3> QED
      BY <1>1, <3>1
  <2> HIDE DEF w
  <2>3. writeQueue' = Append(writeQueue, w)
    BY <1>2 DEF w
  <2>4. w.of = at
    BY DEF w
  <2> QED
    BY <2>1, <2>2, <2>3, <2>4, AppendedIs
<1> HIDE DEF w
<1>8. \A i \in DOMAIN writeQueue :
        writeQueue[i].of \in SubChunks /\ ~Before(at, writeQueue[i].of)
  BY <1>1 DEF QueueInv
<1>9. ASSUME NEW i \in DOMAIN writeQueue'
      PROVE  /\ writeQueue'[i].of \in SubChunks
             /\ ~Before(readAt, writeQueue'[i].of) /\ ~Before(writeQueue'[i].of, writeAt)
             /\ Before(writeQueue'[i].of, ToRead)
  BY <1>1, <1>5, <1>6, <1>7, SuccIsNext DEF QueueInv
<1>10. ASSUME NEW i \in DOMAIN writeQueue', NEW j \in DOMAIN writeQueue', i < j
       PROVE  ~Before(writeQueue'[j].of, writeQueue'[i].of)
  <2>1. i \in DOMAIN writeQueue /\ writeQueue'[i] = writeQueue[i]
    BY <1>7, <1>10
  <2>2. CASE j \in DOMAIN writeQueue /\ writeQueue'[j] = writeQueue[j]
    BY <1>10, <2>1, <2>2 DEF QueueInv
  <2>3. CASE writeQueue'[j] = w
    BY <1>7, <1>8, <2>1, <2>3
  <2> QED
    BY <1>7, <2>2, <2>3
<1>11. ~endSweep /\ vlatPc # "begin" =>
            writeAt = <<0, 0>> \/ Before(writeAt, ToRead)
  BY DEF QueueInv
<1> QED
  BY <1>2, <1>3, <1>4, <1>9, <1>10, <1>11 DEF QueueInv

LEMMA MainQueue ==
    ASSUME TypesInv, FlagsInv, SweepInv, MoreIsRight, QueueInv, Main, ~MayRove,
           ~endSweep => SpanInv
    PROVE  QueueInv'
<1>1. CASE Write
  BY <1>1, WriteQueued
<1>2. CASE ~Write
  <2>1. /\ UNCHANGED <<vlatPc, readAt, writeAt, writeQueue>>
        /\ ~endSweep' => ~endSweep
    BY <1>2, MainLeaves
  <2>2. ~endSweep' => \A p \in SubChunks : Before(p, ToRead) => Before(p, ToRead')
    BY <2>1, MainReads
  <2> QED
    BY <2>1, <2>2 DEF QueueInv, SweepInv
<1> QED
  BY <1>1, <1>2

LEMMA MainPending ==
    ASSUME TypesInv, PendingInv, Main
    PROVE  PendingInv'
<1>1. CASE ~Write
  BY <1>1, MainLeaves DEF PendingInv
<1>2. CASE Write
  <2> DEFINE w == [of |-> at, value |-> writes']
  <2>1. /\ writeQueue' = Append(writeQueue, w)
        /\ written' = [written EXCEPT ![at] = writes'] /\ UNCHANGED stored
    BY <1>2 DEF Write
  <2>2. at \in SubChunks /\ written \in [SubChunks -> 0..MaxWrites]
    BY <1>2 DEF TypesInv, TypeOK, Datum, Write
  <2>3. /\ w.of = at /\ w.value = writes'
        /\ \A i \in DOMAIN writeQueue' :
            \/ i \in DOMAIN writeQueue /\ writeQueue'[i] = writeQueue[i]
            \/ i = Len(writeQueue) + 1 /\ i \notin DOMAIN writeQueue /\ writeQueue'[i] = w
        /\ \A i \in DOMAIN writeQueue :
            i \in DOMAIN writeQueue' /\ i < Len(writeQueue) + 1
            /\ writeQueue'[i] = writeQueue[i]
        /\ Len(writeQueue) + 1 \in DOMAIN writeQueue'
        /\ writeQueue'[Len(writeQueue) + 1] = w
    <3>1. writeQueue \in Seq([of : SubChunks, value : 1..MaxWrites])
      BY DEF TypesInv, TypeOK
    <3>2. w \in [of : SubChunks, value : 1..MaxWrites]
      <4>1. writes' \in 1..MaxWrites
        BY <1>2, LookAheadAssumption DEF TypesInv, TypeOK, Write
      <4> QED
        BY <2>2, <4>1
    <3>3. w.of = at /\ w.value = writes'
      OBVIOUS
    <3> HIDE DEF w
    <3>4. Len(writeQueue) + 1 \in 1..(Len(writeQueue) + 1)
      BY <3>1
    <3> QED
      BY <2>1, <3>1, <3>2, <3>3, <3>4, AppendedIs
  <2> HIDE DEF w
  <2>4. written'[at] = writes' /\ \A p \in SubChunks : p # at => written'[p] = written[p]
    BY <2>1, <2>2
  <2>5. ASSUME NEW p \in SubChunks, \A i \in DOMAIN writeQueue' : writeQueue'[i].of # p
        PROVE  stored'[p] = written'[p]
    <3>1. p # at /\ \A i \in DOMAIN writeQueue : writeQueue[i].of # p
      BY <2>3, <2>5
    <3> QED
      BY <2>1, <2>4, <3>1 DEF PendingInv
  <2>6. ASSUME NEW p \in SubChunks, NEW i \in DOMAIN writeQueue', writeQueue'[i].of = p,
               \A j \in DOMAIN writeQueue' : i < j => writeQueue'[j].of # p
        PROVE  writeQueue'[i].value = written'[p]
    <3>1. CASE i \in DOMAIN writeQueue /\ writeQueue'[i] = writeQueue[i]
      <4>1. p # at
        BY <2>3, <2>6, <3>1
      <4>2. \A j \in DOMAIN writeQueue : i < j => writeQueue[j].of # p
        BY <2>3, <2>6
      <4> QED
        BY <2>4, <2>6, <3>1, <4>1, <4>2 DEF PendingInv
    <3>2. CASE writeQueue'[i] = w
      BY <2>3, <2>4, <2>6, <3>2
    <3> QED
      BY <2>3, <3>1, <3>2
  <2> QED
    BY <2>5, <2>6 DEF PendingInv
<1> QED
  BY <1>1, <1>2

\* isValidSubChunk and isValidChunk answer right, and nothing throws.
LEMMA MainAnswers ==
    ASSUME TypesInv, FlagsInv, SweepInv, MoreIsRight, failed = "no", Main, ~MayRove,
           ~endSweep => ListInv /\ ChunkListInv /\ SpanInv
    PROVE  MoreIsRight' /\ failed' = "no"
<1>1. CASE IsValidSubChunk
  <2>1. mainPc = "valid" /\ begun /\ UNCHANGED <<at, begun>> /\ ~endSweep
        /\ at \in SubChunks \cup ChunkEnds
    BY <1>1, SweepGoesOn DEF IsValidSubChunk, TypesInv
  <2>2. PICK left \in SubsFrom(at) :
            IF left = <<>>
            THEN UNCHANGED <<mainPc, more, failed>>
            ELSE /\ more' = (Head(left) = at)
                 /\ mainPc' = IF more' THEN "read" ELSE "app"
                 /\ failed' = IF ~more' /\ at[2] = 0 THEN "reader" ELSE "no"
    BY <1>1 DEF IsValidSubChunk
  <2>3. CASE left = <<>>
    BY <2>1, <2>2, <2>3 DEF MoreIsRight
  <2>4. CASE left # <<>>
    <3>1. Head(left) = at <=> at \in SubChunks
      BY <2>1, <2>4, SubChunkFound
    <3>2. at \in ChunkEnds => at[2] # 0
      BY LayoutCounts DEF ChunkEnds
    <3> QED
      BY <2>1, <2>2, <2>4, <3>1, <3>2 DEF MoreIsRight
  <2> QED
    BY <2>3, <2>4
<1>2. CASE IsValidChunk
  <2>1. /\ mainPc = "chunk" /\ ~begun /\ UNCHANGED <<at, begun, failed>> /\ ~endSweep
        /\ at = <<at[1], 0>>
    BY <1>2, SweepGoesOn, Moves DEF IsValidChunk, TypesInv
  <2>2. PICK left \in ChunksFrom(at) :
            IF left = <<>>
            THEN UNCHANGED <<mainPc, more>>
            ELSE more' = (Head(left) = at[1])
    BY <1>2 DEF IsValidChunk
  <2>3. CASE left = <<>>
    BY <2>1, <2>2, <2>3 DEF MoreIsRight
  <2>4. CASE left # <<>>
    <3>1. Head(left) = at[1] <=> at \in SubChunks
      BY <2>1, <2>4, ChunkFound
    <3> QED
      BY <2>1, <2>2, <2>4, <3>1 DEF MoreIsRight
  <2> QED
    BY <2>3, <2>4
<1>3. CASE ReadStart /\ ring = <<>>
  BY <1>3 DEF ReadStart, MoreIsRight
<1>4. CASE ReadStart /\ ring # <<>>
  <2>1. mainPc = "read" /\ ~endSweep
    BY <1>4, SweepGoesOn DEF ReadStart
  <2> QED
    BY <1>4, <2>1, BufferTaken DEF MoreIsRight
<1>5. CASE ~IsValidSubChunk /\ ~IsValidChunk /\ ~ReadStart
  <2>1. UNCHANGED failed
    BY <1>5, MainLeaves
  <2>2. MoreIsRight'
    <3>1. CASE Select \/ Write
      BY <3>1 DEF Select, Write, mainVars, MoreIsRight
    <3>2. CASE OriginChunks \/ Calls \/ Terminate \/ Join
      BY <3>2 DEF OriginChunks, Calls, Origin, Advance, NextChunkCall, Call,
         Terminate, Join, MoreIsRight
    <3>3. CASE AwaitReset
      <4>1. /\ ~begun /\ more /\ at = <<0, 0>> /\ UNCHANGED <<at, more, begun>>
        BY <3>3 DEF AwaitReset, TypesInv
      <4>2. <<at[1], 0>> \in SubChunks
        BY <4>1, FirstSubChunk
      <4> QED
        BY <4>1, <4>2 DEF MoreIsRight
    <3> QED
      BY <1>5, <3>1, <3>2, <3>3 DEF Main, Calls
  <2> QED
    BY <2>1, <2>2
<1> QED
  BY <1>1, <1>2, <1>3, <1>4, <1>5

-----------------------------------------------------------------------------
(* What a step of the VLAT keeps.                                           *)

LEMMA VlatLeaves ==
    ASSUME Vlat
    PROVE  /\ UNCHANGED <<mainPc, at, buffer, more, begun, written, writes, wanted>>
           /\ ToRead' = ToRead
           /\ ~ViReset => UNCHANGED <<endSweep, endAll, resetAsked, resetDone, applied>>
           /\ ~HandleWrite => UNCHANGED <<writeQueue, stored, failed>>
           /\ ~HandleWrite /\ ~BeginSweep => UNCHANGED writeAt
           /\ ~BeginSweep /\ ~NextFill => UNCHANGED readAt
           /\ ~ViReset /\ ~FillComplete => UNCHANGED ring
           /\ ~ViReset /\ ~FillStart /\ ~SetNoMoreData =>
                UNCHANGED <<validChunks, validSubs>>
<1>1. UNCHANGED <<mainPc, at, buffer, more, begun, written, writes, wanted>>
  BY DEF Vlat, mainVars
<1>2. ToRead' = ToRead
  BY <1>1 DEF ToRead
<1>3. CASE BeginSweep \/ NextFill
  BY <1>1, <1>2, <1>3 DEF BeginSweep, NextFill, dataVars, flagVars
<1>4. CASE \/ WaitUntilFillCanStart \/ NothingToWrite \/ Sleep
           \/ SweepTerminated \/ WaitForViReset \/ Quit
  BY <1>1, <1>2, <1>4 DEF WaitUntilFillCanStart, NothingToWrite, Sleep,
     SweepTerminated, WaitForViReset, Quit, dataVars, flagVars
<1>5. CASE HandleWrite
  BY <1>1, <1>2, <1>5 DEF HandleWrite, DoWrite, dataVars, flagVars
<1>6. CASE FillStart \/ SetNoMoreData
  BY <1>1, <1>2, <1>6 DEF FillStart, SetNoMoreData, flagVars
<1>7. CASE FillDatum \/ FillComplete
  BY <1>1, <1>2, <1>7 DEF FillDatum, FillComplete, dataVars, flagVars
<1>8. CASE ViReset
  BY <1>1, <1>2, <1>8 DEF ViReset
<1> QED
  BY <1>3, <1>4, <1>5, <1>6, <1>7, <1>8 DEF Vlat

\* How far the sweep is before and after a step of it.
LEMMA VlatGoesOn ==
    ASSUME TypesInv, FlagsInv, SweepInv, Vlat, ~endSweep', ~ViReset
    PROVE  /\ ~endSweep
           /\ IF FillComplete
              THEN FilledTo = readAt /\ FilledTo' = Succ(readAt)
              ELSE FilledTo' = FilledTo
           /\ IF FillStart
              THEN ListedTo = readAt /\ ListedTo' = Succ(readAt)
              ELSE ListedTo' = ListedTo
           /\ IF SetNoMoreData
              THEN vlatPc \notin Idle /\ vlatPc' \in Idle /\ ListedTo = End
              ELSE vlatPc' \in Idle <=> vlatPc \in Idle
<1>0. ~endSweep /\ ~resetAsked /\ ~endAll
  BY VlatLeaves DEF FlagsInv, TypesInv, TypeOK
<1> USE DEF FilledTo, ListedTo, Idle, Goto
<1>1. CASE BeginSweep
  <2>1. ~FillComplete /\ ~FillStart /\ ~SetNoMoreData
    BY <1>1 DEF BeginSweep, FillComplete, FillStart, SetNoMoreData, SweepStep
  <2> QED
    BY <1>0, <1>1, <2>1 DEF BeginSweep
<1>2. CASE WaitUntilFillCanStart \/ NothingToWrite \/ Sleep \/ WaitForViReset
  <2>1. ~FillComplete /\ ~FillStart /\ ~SetNoMoreData
    BY <1>2 DEF WaitUntilFillCanStart, NothingToWrite, Sleep, WaitForViReset,
       FillComplete, FillStart, SetNoMoreData, SweepStep
  <2>2. UNCHANGED readAt
    BY <1>2 DEF WaitUntilFillCanStart, NothingToWrite, Sleep, WaitForViReset
  <2>3. CASE WaitUntilFillCanStart
    BY <1>0, <2>1, <2>2, <2>3 DEF WaitUntilFillCanStart
  <2>4. CASE NothingToWrite
    BY <1>0, <2>1, <2>2, <2>4 DEF NothingToWrite
  <2>5. CASE Sleep
    BY <1>0, <2>1, <2>2, <2>5 DEF Sleep
  <2>6. CASE WaitForViReset
    BY <1>0, <2>1, <2>2, <2>6 DEF WaitForViReset
  <2> QED
    BY <1>2, <2>3, <2>4, <2>5, <2>6
<1>3. CASE SweepTerminated \/ Quit
  BY <1>0, <1>3 DEF SweepTerminated, Quit
<1>4. CASE HandleWrite
  <2>1. UNCHANGED <<vlatPc, readAt>> /\ vlatPc \in Draining
    BY <1>4 DEF HandleWrite, DoWrite
  <2>2. ~FillComplete /\ ~FillStart /\ ~SetNoMoreData
    BY <2>1 DEF Draining, FillComplete, FillStart, SetNoMoreData, SweepStep
  <2> QED
    BY <1>0, <2>1, <2>2
<1>5. CASE FillStart
  <2>1. ~FillComplete /\ ~SetNoMoreData
    BY <1>5 DEF FillComplete, FillStart, SetNoMoreData, SweepStep
  <2> QED
    BY <1>0, <1>5, <2>1 DEF FillStart, SweepStep
<1>6. CASE FillDatum
  <2>1. ~FillComplete /\ ~FillStart /\ ~SetNoMoreData
    BY <1>6 DEF FillDatum, FillComplete, FillStart, SetNoMoreData, SweepStep
  <2> QED
    BY <1>0, <1>6, <2>1 DEF FillDatum, SweepStep
<1>7. CASE FillComplete
  <2>1. ~FillStart /\ ~SetNoMoreData
    BY <1>7 DEF FillComplete, FillStart, SetNoMoreData, SweepStep
  <2> QED
    BY <1>0, <1>7, <2>1 DEF FillComplete, SweepStep
<1>8. CASE NextFill
  <2>1. ~FillComplete /\ ~FillStart /\ ~SetNoMoreData
    BY <1>8 DEF NextFill, FillComplete, FillStart, SetNoMoreData, SweepStep
  <2>2. vlatPc = "write" /\ vlatPc' \in {"waitFill", "noMore"} /\ readAt' = Succ(readAt)
    BY <1>8 DEF NextFill, SweepStep, Succ
  <2> QED
    BY <1>0, <2>1, <2>2
<1>9. CASE SetNoMoreData
  <2>1. ~FillComplete /\ ~FillStart
    BY <1>9 DEF FillComplete, FillStart, SetNoMoreData, SweepStep
  <2>2. vlatPc = "noMore" /\ vlatPc' = "waitReset" /\ UNCHANGED readAt
    BY <1>9 DEF SetNoMoreData
  <2> QED
    BY <1>0, <1>9, <2>1, <2>2 DEF SweepInv
<1> QED
  BY <1>1, <1>2, <1>3, <1>4, <1>5, <1>6, <1>7, <1>8, <1>9 DEF Vlat

LEMMA SweepStepKeeps ==
    ASSUME TypesInv, FlagsInv, SweepInv, QueueInv, Next
    PROVE  SweepInv'
<1>1. CASE Main
  BY <1>1, MainLeaves DEF SweepInv
<1>2. CASE Vlat
  <2>1. CASE BeginSweep
    <3>1. vlatPc' = "waitFill" /\ readAt' = <<0, 0>> /\ writeAt' = <<0, 0>>
      BY <2>1 DEF BeginSweep, Goto
    <3> QED
      BY <3>1, FirstSubChunk DEF SweepInv, Idle
  <2>2. CASE NextFill
    <3>1. /\ vlatPc = "write" /\ readAt' = Succ(readAt) /\ UNCHANGED writeAt
          /\ vlatPc' = IF readAt' \in SubChunks THEN "waitFill" ELSE "noMore"
      BY <2>2 DEF NextFill, SweepStep, Goto, Succ
    <3>2. readAt' \in SubChunks \cup {End}
      <4>1. readAt \in SubChunks
        BY <3>1 DEF TypesInv
      <4> QED
        BY <3>1, <4>1, SuccIsNext
    <3> QED
      BY <3>1, <3>2 DEF SweepInv, Idle
  <2>3. CASE HandleWrite
    <3>1. /\ UNCHANGED <<vlatPc, readAt, endSweep>> /\ writeQueue # <<>>
          /\ writeAt' \in {writeAt, Head(writeQueue).of}
      BY <2>3 DEF HandleWrite, DoWrite, flagVars
    <3>2. Head(writeQueue) \in [of : SubChunks, value : 1..MaxWrites]
      BY <3>1, HeadTail DEF TypesInv, TypeOK
    <3> QED
      BY <3>1, <3>2 DEF SweepInv
  <2>4. CASE SetNoMoreData
    BY <2>4 DEF SetNoMoreData, SweepInv, Goto
  <2>5. CASE WaitForViReset \/ Quit \/ SweepTerminated
    BY <2>5 DEF WaitForViReset, Quit, SweepTerminated, SweepInv, Goto, Idle, flagVars
  <2>6. CASE WaitUntilFillCanStart \/ NothingToWrite \/ Sleep
    <3>1. /\ vlatPc' \in Idle => vlatPc \in Idle
          /\ vlatPc' # "noMore"
          /\ UNCHANGED <<readAt, writeAt, endSweep>>
      BY <2>6 DEF WaitUntilFillCanStart, NothingToWrite, Sleep, Goto, Idle, flagVars
    <3> QED
      BY <3>1 DEF SweepInv
  <2>7. CASE FillStart \/ FillDatum \/ FillComplete \/ ViReset
    <3>1. vlatPc' \in {"fill", "complete", "write", "begin"} /\ UNCHANGED <<readAt, writeAt>>
      BY <2>7 DEF FillStart, FillDatum, FillComplete, ViReset, Goto
    <3> QED
      BY <3>1 DEF SweepInv, Idle
  <2> QED
    BY <1>2, <2>1, <2>2, <2>3, <2>4, <2>5, <2>6, <2>7 DEF Vlat
<1> QED
  BY <1>1, <1>2 DEF Next

\* A sweep starts with nothing read ahead, the main thread at the first chunk.
LEMMA ViResetStarts ==
    ASSUME TypesInv, FlagsInv, SweepInv, ViReset, Vlat
    PROVE  ListInv' /\ ChunkListInv' /\ SpanInv' /\ AheadInv'
<1>1. /\ validChunks' = <<>> /\ validSubs' = <<>> /\ ring' = <<>> /\ vlatPc' = "begin"
      /\ ~endAll /\ vlatPc = "drainReset"
  BY DEF ViReset, ResetBufferData, Goto
<1>2. at' = <<0, 0>> /\ buffer' = NoBuffer /\ mainPc' = "reset"
  BY <1>1, SweepGoesOn, VlatLeaves DEF TypesInv
<1>3. FilledTo' = <<0, 0>> /\ ListedTo' = <<0, 0>>
  BY <1>1 DEF FilledTo, ListedTo
<1>4. ToRead' = <<0, 0>>
  BY <1>2, FirstSubChunk, PlacesAre DEF ToRead
<1>5. ~Before(<<0, 0>>, <<0, 0>>)
  BY PlacesAre, BeforeOrders
<1>6. \A q \in SubChunks : ~Before(q, <<0, 0>>)
  BY SubChunksPlaces DEF Place, Before
<1>7. \A c \in 0..(NrChunks - 1) : ~Before(<<c, 0>>, <<0, 0>>)
  BY DEF Before
<1>8. DOMAIN ring' = {} /\ DOMAIN validSubs' = {} /\ DOMAIN validChunks' = {}
  BY <1>1
<1>9. ListInv' /\ ChunkListInv'
  BY <1>3, <1>6, <1>7, <1>8 DEF ListInv, ChunkListInv
<1>10. SpanInv'
  BY <1>2, <1>3, <1>4, <1>5, <1>6, <1>8 DEF SpanInv
<1>11. AheadInv'
  BY <1>1, <1>8 DEF AheadInv
<1> QED
  BY <1>9, <1>10, <1>11

LEMMA FillStartLists ==
    ASSUME TypesInv, FlagsInv, SweepInv, ListInv, ChunkListInv, FillStart, Vlat
    PROVE  ListInv' /\ ChunkListInv'
<1>1. /\ vlatPc = "start" /\ vlatPc' = "fill" /\ ~endSweep /\ ~endSweep' /\ ~ViReset
      /\ validChunks' = IF validChunks = <<>> \/ Last(validChunks) # readAt[1]
                        THEN Append(validChunks, readAt[1]) ELSE validChunks
      /\ validSubs' = Append(validSubs, readAt)
      /\ UNCHANGED at
  BY VlatLeaves DEF FillStart, SweepStep, Goto, flagVars, ViReset
<1>2. /\ readAt \in SubChunks /\ readAt \in Place
      /\ ListedTo = readAt /\ ListedTo' = Succ(readAt)
      /\ vlatPc \notin Idle
  BY <1>1, VlatGoesOn, SubChunksPlaces DEF TypesInv, Sweeping, Idle
<1>3. /\ \A q \in SubChunks : Before(q, Succ(readAt)) <=> ~Before(readAt, q)
      /\ Before(readAt, Succ(readAt)) /\ Succ(readAt) \in Place
      /\ ~Before(readAt, readAt)
  BY <1>2, SuccIsNext, PlacesAre, BeforeOrders
<1>4. /\ \A q \in SubChunks : Before(q, readAt) => Before(q, Succ(readAt))
      /\ \A q \in SubChunks : Before(q, Succ(readAt)) => Before(q, readAt) \/ q = readAt
  BY <1>2, <1>3, SubChunksPlaces, BeforeOrders
<1>5. ListInv'
  <2>1. /\ \A i \in DOMAIN validSubs' :
                \/ i \in DOMAIN validSubs /\ validSubs'[i] = validSubs[i]
                \/ i = Len(validSubs) + 1 /\ validSubs'[i] = readAt
        /\ \A i \in DOMAIN validSubs :
                i \in DOMAIN validSubs' /\ validSubs'[i] = validSubs[i]
        /\ validSubs'[Len(validSubs) + 1] = readAt
        /\ Len(validSubs) + 1 \in DOMAIN validSubs'
        /\ DOMAIN validSubs = 1..Len(validSubs) /\ Len(validSubs) \in Nat
    <3>1. validSubs \in Seq(SubChunks \cup {NoMoreData}) /\ readAt \in SubChunks \cup {NoMoreData}
      BY <1>2 DEF TypesInv, TypeOK
    <3>2. Len(validSubs) + 1 \in 1..(Len(validSubs) + 1)
      BY <3>1
    <3> QED
      BY <1>1, <3>1, <3>2, AppendedIs
  <2>2. \A i \in DOMAIN validSubs :
            validSubs[i] \in SubChunks /\ Before(validSubs[i], readAt)
    BY <1>2 DEF ListInv
  <2>3. ASSUME NEW i \in DOMAIN validSubs', NEW j \in DOMAIN validSubs', i < j
        PROVE  Before(validSubs'[i], validSubs'[j])
    <3>1. i \in DOMAIN validSubs /\ validSubs'[i] = validSubs[i]
      BY <2>1, <2>3
    <3>2. CASE j \in DOMAIN validSubs /\ validSubs'[j] = validSubs[j]
      BY <2>3, <3>1, <3>2 DEF ListInv
    <3>3. CASE validSubs'[j] = readAt
      BY <2>2, <3>1, <3>3
    <3> QED
      BY <2>1, <3>2, <3>3
  <2>4. ASSUME NEW i \in DOMAIN validSubs'
        PROVE  validSubs'[i] \in SubChunks /\ Before(validSubs'[i], ListedTo')
    BY <1>2, <1>3, <1>4, <2>1, <2>2
  <2>5. ASSUME NEW q \in SubChunks, ~Before(q, at'), Before(q, ListedTo')
        PROVE  \E i \in DOMAIN validSubs' : validSubs'[i] = q
    <3>1. CASE q = readAt
      BY <2>1, <3>1
    <3>2. CASE Before(q, readAt)
      <4>1. PICK i \in DOMAIN validSubs : validSubs[i] = q
        BY <1>1, <1>2, <2>5, <3>2 DEF ListInv
      <4> QED
        BY <2>1, <4>1
    <3> QED
      BY <1>2, <1>4, <2>5, <3>1, <3>2
  <2> QED
    BY <2>3, <2>4, <2>5 DEF ListInv
<1>6. ChunkListInv'
  <2> DEFINE c0 == readAt[1]
  <2>1. /\ c0 \in 0..(NrChunks - 1) /\ c0 \in Nat
        /\ <<c0, 0>> \in SubChunks /\ ~Before(readAt, <<c0, 0>>)
    <3>1. PICK c \in 0..(NrChunks - 1) : \E s \in 0..(Layout[c + 1] - 1) : readAt = <<c, s>>
      BY <1>2, SubChunkIs
    <3>2. c0 = c
      BY <3>1
    <3>3. <<c0, 0>> \in SubChunks
      BY <1>2, PlacesAre
    <3> QED
      BY <1>2, <3>2, <3>3, LayoutCounts DEF Place, Before
  <2>2. ASSUME NEW c \in 0..(NrChunks - 1)
        PROVE  /\ Before(<<c, 0>>, readAt) => c <= c0 /\ Before(<<c, 0>>, Succ(readAt))
               /\ Before(<<c, 0>>, Succ(readAt)) => Before(<<c, 0>>, readAt) \/ c = c0
    <3>1. <<c, 0>> \in SubChunks
      BY LayoutCounts, ChunkOrEnd
    <3>2. Before(<<c, 0>>, readAt) => c <= c0
      BY <1>2, LayoutCounts DEF Place, Before
    <3>3. <<c, 0>> = readAt => c = c0
      OBVIOUS
    <3> QED
      BY <1>4, <3>1, <3>2, <3>3
  <2> HIDE DEF c0
  <2>3. /\ validChunks \in Seq(Nat)
        /\ DOMAIN validChunks = 1..Len(validChunks) /\ Len(validChunks) \in Nat
        /\ validChunks # <<>> =>
             /\ Last(validChunks) = validChunks[Len(validChunks)]
             /\ Len(validChunks) \in DOMAIN validChunks
    BY DEF TypesInv, TypeOK, Last
  <2>4. \A i \in DOMAIN validChunks :
            /\ validChunks[i] \in 0..(NrChunks - 1)
            /\ Before(<<validChunks[i], 0>>, readAt) /\ validChunks[i] <= c0
    BY <1>2, <2>2 DEF ChunkListInv
  <2>5. CASE validChunks' = validChunks /\ validChunks # <<>> /\ Last(validChunks) = c0
    <3>1. ASSUME NEW c \in 0..(NrChunks - 1), at'[1] <= c, Before(<<c, 0>>, ListedTo')
          PROVE  \E i \in DOMAIN validChunks' : validChunks'[i] = c
      <4>1. CASE c = c0
        BY <2>3, <2>5, <4>1
      <4>2. CASE Before(<<c, 0>>, readAt)
        BY <1>1, <1>2, <2>5, <3>1, <4>2 DEF ChunkListInv
      <4> QED
        BY <1>2, <2>2, <3>1, <4>1, <4>2
    <3> QED
      BY <1>2, <2>2, <2>4, <2>5, <3>1 DEF ChunkListInv
  <2>6. CASE /\ validChunks' = Append(validChunks, c0)
             /\ validChunks = <<>> \/ Last(validChunks) # c0
    <3>1. /\ \A i \in DOMAIN validChunks' :
                \/ i \in DOMAIN validChunks /\ validChunks'[i] = validChunks[i]
                \/ i = Len(validChunks) + 1 /\ validChunks'[i] = c0
          /\ \A i \in DOMAIN validChunks :
                i \in DOMAIN validChunks' /\ validChunks'[i] = validChunks[i]
          /\ validChunks'[Len(validChunks) + 1] = c0
          /\ Len(validChunks) + 1 \in DOMAIN validChunks'
      <4>1. Len(validChunks) + 1 \in 1..(Len(validChunks) + 1)
        BY <2>3
      <4> QED
        BY <2>1, <2>3, <2>6, <4>1, AppendedIs
    <3>0. \A i \in DOMAIN validChunks : validChunks[i] \in Nat
      BY <2>3
    <3>2. \A i \in DOMAIN validChunks : validChunks[i] < c0
      <4>1. ASSUME NEW i \in DOMAIN validChunks PROVE validChunks[i] < c0
        <5>1. validChunks # <<>> /\ Len(validChunks) \in DOMAIN validChunks
          BY <2>3
        <5>2. validChunks[Len(validChunks)] < c0
          <6>1. validChunks[Len(validChunks)] # c0
            BY <2>3, <2>6, <5>1
          <6>2. validChunks[Len(validChunks)] <= c0 /\ validChunks[Len(validChunks)] \in Nat
            BY <2>4, <3>0, <5>1
          <6> QED
            BY <2>1, <6>1, <6>2
        <5>3. CASE i = Len(validChunks)
          BY <5>2, <5>3
        <5>4. CASE i < Len(validChunks)
          <6>1. validChunks[i] < validChunks[Len(validChunks)]
            BY <5>1, <5>4 DEF ChunkListInv
          <6> QED
            BY <2>1, <3>0, <5>1, <5>2, <6>1
        <5> QED
          BY <2>3, <5>3, <5>4
      <4> QED
        BY <4>1
    <3>3. ASSUME NEW i \in DOMAIN validChunks', NEW j \in DOMAIN validChunks', i < j
          PROVE  validChunks'[i] < validChunks'[j]
      <4>1. i \in DOMAIN validChunks /\ validChunks'[i] = validChunks[i]
        BY <2>3, <3>1, <3>3
      <4>2. CASE j \in DOMAIN validChunks /\ validChunks'[j] = validChunks[j]
        BY <3>3, <4>1, <4>2 DEF ChunkListInv
      <4>3. CASE validChunks'[j] = c0
        BY <3>2, <4>1, <4>3
      <4> QED
        BY <3>1, <4>2, <4>3
    <3>4. Before(<<c0, 0>>, ListedTo')
      BY <1>2, <1>3, <2>1
    <3>5. ASSUME NEW i \in DOMAIN validChunks'
          PROVE  /\ validChunks'[i] \in 0..(NrChunks - 1)
                 /\ Before(<<validChunks'[i], 0>>, ListedTo')
      BY <1>2, <2>1, <2>2, <2>4, <3>1, <3>4
    <3>6. ASSUME NEW c \in 0..(NrChunks - 1), at'[1] <= c, Before(<<c, 0>>, ListedTo')
          PROVE  \E i \in DOMAIN validChunks' : validChunks'[i] = c
      <4>1. CASE c = c0
        BY <3>1, <4>1
      <4>2. CASE Before(<<c, 0>>, readAt)
        <5>1. PICK i \in DOMAIN validChunks : validChunks[i] = c
          BY <1>1, <1>2, <3>6, <4>2 DEF ChunkListInv
        <5> QED
          BY <3>1, <5>1
      <4> QED
        BY <1>2, <2>2, <3>6, <4>1, <4>2
    <3> QED
      BY <3>3, <3>5, <3>6 DEF ChunkListInv
  <2> QED
    BY <1>1, <2>5, <2>6 DEF c0
<1> QED
  BY <1>5, <1>6

LEMMA NoMoreDataLists ==
    ASSUME TypesInv, FlagsInv, SweepInv, ListInv, ChunkListInv, SetNoMoreData, Vlat,
           ~endSweep'
    PROVE  ListInv' /\ ChunkListInv'
<1>1. /\ validChunks' = Append(validChunks, NoMoreData[1])
      /\ validSubs' = Append(validSubs, NoMoreData) /\ ~ViReset
      /\ UNCHANGED at
  BY VlatLeaves DEF SetNoMoreData, ViReset
<1>2. ListedTo' = ListedTo /\ vlatPc \notin Idle /\ vlatPc' \in Idle
  <2>1. ~FillStart
    BY DEF FillStart, SetNoMoreData, SweepStep
  <2> QED
    BY <1>1, <2>1, VlatGoesOn
<1>3. ListInv'
  <2>1. /\ \A i \in DOMAIN validSubs' :
                \/ i \in DOMAIN validSubs /\ validSubs'[i] = validSubs[i]
                \/ i = Len(validSubs) + 1 /\ validSubs'[i] = NoMoreData
        /\ \A i \in DOMAIN validSubs :
                i \in DOMAIN validSubs' /\ validSubs'[i] = validSubs[i]
        /\ DOMAIN validSubs = 1..Len(validSubs) /\ Len(validSubs) \in Nat
    <3>1. /\ validSubs \in Seq(SubChunks \cup {NoMoreData})
          /\ NoMoreData \in SubChunks \cup {NoMoreData}
      BY DEF TypesInv, TypeOK
    <3> QED
      BY <1>1, <3>1, AppendedIs
  <2>2. \A i \in DOMAIN validSubs :
            validSubs[i] \in SubChunks /\ Before(validSubs[i], NoMoreData)
    BY <1>2, PlacesAre DEF ListInv
  <2>3. ASSUME NEW i \in DOMAIN validSubs', NEW j \in DOMAIN validSubs', i < j
        PROVE  Before(validSubs'[i], validSubs'[j])
    <3>1. i \in DOMAIN validSubs /\ validSubs'[i] = validSubs[i]
      BY <2>1, <2>3
    <3>2. CASE j \in DOMAIN validSubs /\ validSubs'[j] = validSubs[j]
      BY <2>3, <3>1, <3>2 DEF ListInv
    <3>3. CASE validSubs'[j] = NoMoreData
      BY <2>2, <3>1, <3>3
    <3> QED
      BY <2>1, <3>2, <3>3
  <2>4. ASSUME NEW q \in SubChunks, ~Before(q, at'), Before(q, ListedTo')
        PROVE  \E i \in DOMAIN validSubs' : validSubs'[i] = q
    <3>1. PICK i \in DOMAIN validSubs : validSubs[i] = q
      BY <1>1, <1>2, <2>4 DEF ListInv
    <3> QED
      BY <2>1, <3>1
  <2> QED
    BY <1>2, <2>1, <2>3, <2>4 DEF ListInv
<1>4. ChunkListInv'
  <2>0. NoMoreData[1] \in Nat /\ \A c \in 0..(NrChunks - 1) : c < NoMoreData[1]
    BY LayoutCounts DEF NoMoreData
  <2>1. /\ \A i \in DOMAIN validChunks' :
                \/ i \in DOMAIN validChunks /\ validChunks'[i] = validChunks[i]
                \/ i = Len(validChunks) + 1 /\ validChunks'[i] = NoMoreData[1]
        /\ \A i \in DOMAIN validChunks :
                i \in DOMAIN validChunks' /\ validChunks'[i] = validChunks[i]
        /\ DOMAIN validChunks = 1..Len(validChunks) /\ Len(validChunks) \in Nat
    <3>1. validChunks \in Seq(Nat)
      BY DEF TypesInv, TypeOK
    <3> QED
      BY <1>1, <2>0, <3>1, AppendedIs
  <2>2. \A i \in DOMAIN validChunks : validChunks[i] < NoMoreData[1]
    BY <1>2, <2>0 DEF ChunkListInv
  <2>3. ASSUME NEW i \in DOMAIN validChunks', NEW j \in DOMAIN validChunks', i < j
        PROVE  validChunks'[i] < validChunks'[j]
    <3>1. i \in DOMAIN validChunks /\ validChunks'[i] = validChunks[i]
      BY <2>1, <2>3
    <3>2. CASE j \in DOMAIN validChunks /\ validChunks'[j] = validChunks[j]
      BY <2>3, <3>1, <3>2 DEF ChunkListInv
    <3>3. CASE validChunks'[j] = NoMoreData[1]
      BY <2>2, <3>1, <3>3
    <3> QED
      BY <2>1, <3>2, <3>3
  <2>4. ASSUME NEW c \in 0..(NrChunks - 1), at'[1] <= c, Before(<<c, 0>>, ListedTo')
        PROVE  \E i \in DOMAIN validChunks' : validChunks'[i] = c
    <3>1. PICK i \in DOMAIN validChunks : validChunks[i] = c
      BY <1>1, <1>2, <2>4 DEF ChunkListInv
    <3> QED
      BY <2>1, <3>1
  <2> QED
    BY <1>2, <2>1, <2>3, <2>4 DEF ChunkListInv
<1> QED
  BY <1>3, <1>4

LEMMA VlatLists ==
    ASSUME TypesInv, FlagsInv, SweepInv, Vlat, ~endSweep', ~ViReset,
           ListInv, ChunkListInv
    PROVE  ListInv' /\ ChunkListInv'
<1>1. CASE FillStart
  BY <1>1, FillStartLists
<1>2. CASE SetNoMoreData
  BY <1>2, NoMoreDataLists
<1>3. CASE ~FillStart /\ ~SetNoMoreData
  BY <1>3, VlatLeaves, VlatGoesOn DEF ListInv, ChunkListInv
<1> QED
  BY <1>1, <1>2, <1>3

LEMMA FillCompleteSpan ==
    ASSUME TypesInv, FlagsInv, SweepInv, SpanInv, AheadInv, FillComplete, Vlat
    PROVE  SpanInv' /\ AheadInv'
<1>1. /\ vlatPc = "complete" /\ vlatPc' = "write" /\ ~endSweep' /\ ~ViReset
      /\ ring' = Append(ring, datum)
      /\ UNCHANGED <<buffer, written, applied>> /\ ToRead' = ToRead
      /\ FilledTo = readAt /\ FilledTo' = Succ(readAt)
  <2>1. vlatPc = "complete" /\ vlatPc' = "write" /\ ~ViReset /\ ~endSweep'
    BY DEF FillComplete, SweepStep, Goto, ViReset, flagVars
  <2> QED
    BY <2>1, VlatLeaves, VlatGoesOn DEF FillComplete
<1>2. /\ datum \in Datum /\ datum.of = readAt /\ readAt \in SubChunks
      /\ datum.holds = written[readAt] /\ datum.selection = applied
      /\ readAt \in Place
  BY <1>1, SubChunksPlaces DEF TypesInv, AheadInv, Sweeping
<1>3. /\ \A q \in SubChunks : Before(q, Succ(readAt)) <=> ~Before(readAt, q)
      /\ Before(readAt, Succ(readAt)) /\ ToRead \in Place
      /\ Succ(readAt) \in Place
  BY <1>2, SuccIsNext, PlacesKnown, PlacesAre
<1>4. /\ \A q \in SubChunks : Before(q, readAt) => Before(q, Succ(readAt))
      /\ \A q \in SubChunks : Before(q, Succ(readAt)) => Before(q, readAt) \/ q = readAt
      /\ ~Before(Succ(readAt), ToRead) /\ ~Before(readAt, ToRead)
  <2>1. ~Before(readAt, ToRead)
    BY <1>1 DEF SpanInv
  <2>2. ~Before(Succ(readAt), ToRead)
    BY <1>2, <1>3, <2>1, BeforeOrders
  <2> QED
    BY <1>2, <1>3, <2>1, <2>2, SubChunksPlaces, BeforeOrders
<1>5. /\ \A i \in DOMAIN ring' :
                \/ i \in DOMAIN ring /\ ring'[i] = ring[i]
                \/ i = Len(ring) + 1 /\ ring'[i] = datum
      /\ \A i \in DOMAIN ring : i \in DOMAIN ring' /\ ring'[i] = ring[i]
      /\ Len(ring) + 1 \in DOMAIN ring' /\ ring'[Len(ring) + 1] = datum
      /\ DOMAIN ring = 1..Len(ring) /\ Len(ring) \in Nat
  <2>1. ring \in Seq(Datum)
    BY DEF TypesInv, TypeOK
  <2>2. Len(ring) + 1 \in 1..(Len(ring) + 1)
    BY <2>1
  <2> QED
    BY <1>1, <1>2, <2>1, <2>2, AppendedIs
<1>6. ASSUME NEW i \in DOMAIN ring', NEW j \in DOMAIN ring', i < j
      PROVE  Before(ring'[i].of, ring'[j].of)
  <2>1. i \in DOMAIN ring /\ ring'[i] = ring[i]
    BY <1>5, <1>6
  <2>2. CASE j \in DOMAIN ring /\ ring'[j] = ring[j]
    BY <1>6, <2>1, <2>2 DEF SpanInv
  <2>3. CASE ring'[j] = datum
    BY <1>1, <1>2, <2>1, <2>3 DEF SpanInv
  <2> QED
    BY <1>5, <2>2, <2>3
<1>7. ASSUME NEW i \in DOMAIN ring'
      PROVE  /\ ring'[i].of \in SubChunks
             /\ ~Before(ring'[i].of, ToRead) /\ Before(ring'[i].of, Succ(readAt))
             /\ ring'[i].holds = written[ring'[i].of] /\ ring'[i].selection = applied
  <2>1. CASE i \in DOMAIN ring /\ ring'[i] = ring[i]
    BY <1>1, <1>4, <2>1 DEF SpanInv, AheadInv
  <2>2. CASE ring'[i] = datum
    BY <1>2, <1>3, <1>4, <2>2
  <2> QED
    BY <1>5, <2>1, <2>2
<1>8. ASSUME NEW q \in SubChunks, ~Before(q, ToRead), Before(q, Succ(readAt))
      PROVE  \E i \in DOMAIN ring' : ring'[i].of = q
  <2>1. CASE q = readAt
    BY <1>2, <1>5, <2>1
  <2>2. CASE Before(q, readAt)
    <3>1. PICK i \in DOMAIN ring : ring[i].of = q
      BY <1>1, <1>8, <2>2 DEF SpanInv
    <3> QED
      BY <1>5, <3>1
  <2> QED
    BY <1>4, <1>8, <2>1, <2>2
<1>9. buffer # NoBuffer => buffer.of \in SubChunks /\ Before(buffer.of, ToRead)
  BY DEF SpanInv
<1> QED
  BY <1>1, <1>4, <1>6, <1>7, <1>8, <1>9 DEF SpanInv, AheadInv

\* A subchunk is filled with what was last written to it: no write to it can be
\* pending, as it was not read yet.
LEMMA FillDatumAhead ==
    ASSUME TypesInv, SweepInv, SpanInv, AheadInv, QueueInv, PendingInv, FillDatum, Vlat
    PROVE  AheadInv'
<1>1. /\ vlatPc = "fill" /\ ~endSweep
      /\ datum' = [of |-> readAt, holds |-> stored[readAt], selection |-> applied]
      /\ UNCHANGED <<ring, written, applied, readAt>>
  BY VlatLeaves DEF FillDatum, SweepStep, dataVars
<1>2. readAt \in SubChunks /\ FilledTo = readAt /\ readAt \in Place
  BY <1>1, SubChunksPlaces DEF TypesInv, Sweeping, FilledTo
<1>3. ASSUME NEW i \in DOMAIN writeQueue PROVE writeQueue[i].of # readAt
  <2>1. Before(writeQueue[i].of, ToRead) /\ writeQueue[i].of \in SubChunks
    BY <1>1 DEF QueueInv
  <2>2. ~Before(readAt, ToRead)
    BY <1>2 DEF SpanInv
  <2> QED
    BY <2>1, <2>2
<1>4. stored[readAt] = written[readAt]
  BY <1>2, <1>3 DEF PendingInv
<1>5. datum'.of = readAt /\ datum'.holds = written[readAt] /\ datum'.selection = applied
  BY <1>1, <1>4
<1> QED
  BY <1>1, <1>5 DEF AheadInv

LEMMA VlatSpan ==
    ASSUME TypesInv, FlagsInv, SweepInv, QueueInv, PendingInv, Vlat, ~endSweep', ~ViReset,
           SpanInv, AheadInv
    PROVE  SpanInv' /\ AheadInv'
<1>1. CASE FillComplete
  BY <1>1, FillCompleteSpan
<1>2. CASE ~FillComplete
  <2>1. /\ FilledTo' = FilledTo /\ ToRead' = ToRead /\ ~endSweep
        /\ UNCHANGED <<ring, buffer, written, applied>>
    BY <1>2, VlatLeaves, VlatGoesOn
  <2>2. SpanInv'
    BY <2>1 DEF SpanInv
  <2>3. CASE FillDatum
    BY <2>2, <2>3, FillDatumAhead
  <2>4. CASE ~FillDatum
    <3>1. vlatPc' # "complete" \/ UNCHANGED <<vlatPc, datum, readAt>>
      BY <1>2, <2>4 DEF Vlat, BeginSweep, WaitUntilFillCanStart, HandleWrite, DoWrite,
         NothingToWrite, Sleep, SweepTerminated, FillStart, NextFill,
         SetNoMoreData, WaitForViReset, ViReset, Quit, Goto
    <3> QED
      BY <2>1, <2>2, <3>1 DEF AheadInv
  <2> QED
    BY <2>3, <2>4
<1> QED
  BY <1>1, <1>2

\* The write iterator neither goes back nor overtakes the read iterator.
LEMMA WriteDone ==
    ASSUME TypesInv, FlagsInv, SweepInv, QueueInv, PendingInv, failed = "no",
           HandleWrite, Vlat
    PROVE  QueueInv' /\ PendingInv' /\ failed' = "no"
<1> DEFINE w == Head(writeQueue)
<1>1. /\ vlatPc \in Draining /\ writeQueue # <<>> /\ writeQueue' = Tail(writeQueue)
      /\ IF Before(readAt, w.of) \/ Before(w.of, writeAt)
         THEN failed' = "writer" /\ UNCHANGED <<writeAt, stored>>
         ELSE /\ writeAt' = w.of
              /\ stored' = [stored EXCEPT ![w.of] = w.value]
              /\ UNCHANGED failed
      /\ UNCHANGED <<vlatPc, readAt, endSweep, written>> /\ ToRead' = ToRead
  BY VlatLeaves DEF HandleWrite, DoWrite, flagVars
<1>2. /\ w = writeQueue[1] /\ 1 \in DOMAIN writeQueue
      /\ DOMAIN writeQueue = 1..Len(writeQueue) /\ Len(writeQueue) \in Nat
      /\ \A i \in DOMAIN writeQueue' :
            i \in Nat /\ i + 1 \in DOMAIN writeQueue /\ writeQueue'[i] = writeQueue[i + 1]
      /\ \A i \in DOMAIN writeQueue :
            \/ i = 1
            \/ i - 1 \in DOMAIN writeQueue' /\ writeQueue'[i - 1] = writeQueue[i] /\ i > 1
  <2>1. writeQueue \in Seq([of : SubChunks, value : 1..MaxWrites])
    BY DEF TypesInv, TypeOK
  <2> QED
    BY <1>1, <2>1, TailIs
<1> HIDE DEF w
<1>3. /\ w.of \in SubChunks /\ ~Before(readAt, w.of) /\ ~Before(w.of, writeAt)
      /\ ~endSweep => Before(w.of, ToRead)
  BY <1>2 DEF QueueInv
<1>4. /\ writeAt' = w.of /\ failed' = "no"
      /\ stored' = [stored EXCEPT ![w.of] = w.value]
  BY <1>1, <1>3
<1>5. QueueInv'
  <2>1. vlatPc' \notin {"begin", "ended"}
    BY <1>1 DEF Draining
  <2>2. ASSUME NEW i \in DOMAIN writeQueue'
        PROVE  /\ writeQueue'[i].of \in SubChunks
               /\ ~Before(readAt, writeQueue'[i].of)
               /\ ~Before(writeQueue'[i].of, w.of)
               /\ ~endSweep => Before(writeQueue'[i].of, ToRead)
    <3>1. i + 1 \in DOMAIN writeQueue /\ writeQueue'[i] = writeQueue[i + 1] /\ 1 < i + 1
      <4>1. i \in Nat /\ i # 0
        BY <1>1, <1>2 DEF TypesInv, TypeOK
      <4> QED
        BY <1>2, <4>1
    <3> QED
      BY <1>2, <3>1 DEF QueueInv
  <2>3. ASSUME NEW i \in DOMAIN writeQueue', NEW j \in DOMAIN writeQueue', i < j
        PROVE  ~Before(writeQueue'[j].of, writeQueue'[i].of)
    <3>1. i + 1 \in DOMAIN writeQueue /\ j + 1 \in DOMAIN writeQueue /\ i + 1 < j + 1
      BY <1>2, <2>3
    <3> QED
      BY <1>2, <3>1 DEF QueueInv
  <2> QED
    BY <1>1, <1>3, <1>4, <2>1, <2>2, <2>3 DEF QueueInv
<1>6. PendingInv'
  <2>0. stored \in [SubChunks -> 0..MaxWrites]
    BY DEF TypesInv, TypeOK
  <2>1. /\ stored'[w.of] = w.value
        /\ \A p \in SubChunks : p # w.of => stored'[p] = stored[p]
    BY <1>3, <1>4, <2>0
  <2>2. ASSUME NEW p \in SubChunks, \A i \in DOMAIN writeQueue' : writeQueue'[i].of # p
        PROVE  stored'[p] = written'[p]
    <3>1. \A i \in DOMAIN writeQueue : 1 < i => writeQueue[i].of # p
      BY <1>2, <2>2
    <3>2. CASE p = w.of
      <4>1. writeQueue[1].value = written[p]
        BY <1>2, <3>1, <3>2 DEF PendingInv
      <4> QED
        BY <1>1, <1>2, <2>1, <3>2, <4>1
    <3>3. CASE p # w.of
      <4>1. \A i \in DOMAIN writeQueue : writeQueue[i].of # p
        BY <1>2, <3>1, <3>3
      <4> QED
        BY <1>1, <2>1, <3>3, <4>1 DEF PendingInv
    <3> QED
      BY <3>2, <3>3
  <2>3. ASSUME NEW p \in SubChunks, NEW i \in DOMAIN writeQueue', writeQueue'[i].of = p,
               \A j \in DOMAIN writeQueue' : i < j => writeQueue'[j].of # p
        PROVE  writeQueue'[i].value = written'[p]
    <3>1. i + 1 \in DOMAIN writeQueue /\ writeQueue'[i] = writeQueue[i + 1]
      BY <1>2
    <3>2. ASSUME NEW j \in DOMAIN writeQueue, i + 1 < j PROVE writeQueue[j].of # p
      <4>1. j - 1 \in DOMAIN writeQueue' /\ writeQueue'[j - 1] = writeQueue[j] /\ i < j - 1
        BY <1>2, <3>2
      <4> QED
        BY <2>3, <4>1
    <3> QED
      BY <1>1, <2>3, <3>1, <3>2 DEF PendingInv
  <2> QED
    BY <2>2, <2>3 DEF PendingInv
<1> QED
  BY <1>4, <1>5, <1>6

LEMMA VlatQueue ==
    ASSUME TypesInv, FlagsInv, SweepInv, QueueInv, PendingInv, failed = "no", Vlat
    PROVE  QueueInv' /\ PendingInv' /\ failed' = "no"
<1>1. CASE HandleWrite
  BY <1>1, WriteDone
<1>2. CASE ~HandleWrite
  <2>1. /\ UNCHANGED <<writeQueue, stored, failed, written>> /\ ToRead' = ToRead
    BY <1>2, VlatLeaves
  <2>2. PendingInv' /\ failed' = "no"
    BY <2>1 DEF PendingInv
  <2>3. CASE NextFill \/ Quit
    <3>1. /\ writeQueue = <<>> /\ UNCHANGED <<writeAt, endSweep>>
          /\ vlatPc # "begin"
      BY <2>3 DEF NextFill, Quit, Drained, SweepStep, flagVars
    <3> QED
      BY <2>1, <2>2, <3>1 DEF QueueInv
  <2>4. CASE BeginSweep
    <3>1. writeQueue = <<>> /\ writeAt' = <<0, 0>>
      BY <2>4 DEF BeginSweep, QueueInv
    <3> QED
      BY <2>1, <2>2, <3>1 DEF QueueInv
  <2>5. CASE ViReset
    <3>1. writeQueue = <<>> /\ vlatPc' = "begin"
      BY <2>5 DEF ViReset, Drained, Goto
    <3> QED
      BY <2>1, <2>2, <3>1 DEF QueueInv
  <2>6. CASE /\ ~NextFill /\ ~Quit /\ ~BeginSweep /\ ~ViReset
    <3>1. vlatPc \notin {"begin", "ended"} /\ vlatPc' \notin {"begin", "ended"}
      BY <1>2, <2>6 DEF Vlat, WaitUntilFillCanStart, NothingToWrite, Sleep,
         SweepTerminated, FillStart, FillDatum, FillComplete, SetNoMoreData,
         WaitForViReset, SweepStep, Goto
    <3>2. UNCHANGED <<readAt, writeAt, endSweep>>
      BY <1>2, <2>6, VlatLeaves
    <3> QED
      BY <2>1, <2>2, <3>1, <3>2 DEF QueueInv
  <2> QED
    BY <2>3, <2>4, <2>5, <2>6
<1> QED
  BY <1>1, <1>2

-----------------------------------------------------------------------------
(* The theorems.                                                            *)

LEMMA IterationInit == Init => IterationInv
<1> SUFFICES ASSUME Init PROVE IterationInv
  OBVIOUS
<1>1. /\ <<0, 0>> \in SubChunks /\ <<0, 0>> \notin ChunkEnds
      /\ ~Before(<<0, 0>>, <<0, 0>>)
      /\ \A q \in SubChunks : ~Before(q, <<0, 0>>)
      /\ \A c \in 0..(NrChunks - 1) : ~Before(<<c, 0>>, <<0, 0>>)
  BY FirstSubChunk, PlacesAre, SubChunksPlaces DEF Before, Place
<1>2. FilledTo = <<0, 0>> /\ ListedTo = <<0, 0>> /\ ToRead = <<0, 0>>
  BY <1>1 DEF Init, FilledTo, ListedTo, ToRead
<1>3. /\ ring = <<>> /\ validSubs = <<>> /\ validChunks = <<>> /\ writeQueue = <<>>
      /\ vlatPc = "begin" /\ mainPc = "app" /\ buffer = NoBuffer
      /\ at = <<0, 0>> /\ readAt = <<0, 0>> /\ writeAt = <<0, 0>>
  BY DEF Init
<1>4. FlagsInv /\ SweepInv /\ failed = "no"
  BY <1>1 DEF Init, FlagsInv, SweepInv, Idle
<1>5. ListInv /\ ChunkListInv
  BY <1>1, <1>2, <1>3 DEF ListInv, ChunkListInv
<1>6. SpanInv /\ AheadInv
  BY <1>1, <1>2, <1>3 DEF SpanInv, AheadInv
<1>7. QueueInv
  BY <1>3 DEF QueueInv
<1>8. PendingInv
  BY <1>3 DEF Init, PendingInv
<1>9. MoreIsRight
  BY <1>1 DEF Init, MoreIsRight
<1> QED
  BY <1>4, <1>5, <1>6, <1>7, <1>8, <1>9 DEF IterationInv

LEMMA IterationStep ==
    ASSUME TypesInv, IterationInv, Next, ~MayRove
    PROVE  IterationInv'
<1> USE DEF IterationInv
<1>1. FlagsInv' /\ SweepInv'
  BY FlagsStep, SweepStepKeeps
<1>2. CASE Main
  <2>1. ~endSweep' => ListInv' /\ ChunkListInv' /\ SpanInv' /\ AheadInv'
    <3>1. ~endSweep' => ~endSweep
      BY <1>2, MainLeaves
    <3> QED
      BY <1>2, <3>1, MainLists, MainChunkLists, MainSpan, MainAhead
  <2>2. QueueInv' /\ PendingInv'
    BY <1>2, MainQueue, MainPending
  <2>3. MoreIsRight' /\ failed' = "no"
    BY <1>2, MainAnswers
  <2> QED
    BY <1>1, <2>1, <2>2, <2>3
<1>3. CASE Vlat
  <2>1. ~endSweep' => ListInv' /\ ChunkListInv' /\ SpanInv' /\ AheadInv'
    <3>1. CASE ViReset
      BY <1>3, <3>1, ViResetStarts
    <3>2. CASE ~ViReset
      <4>1. ~endSweep' => ~endSweep
        BY <1>3, <3>2, VlatLeaves
      <4> QED
        BY <1>3, <3>2, <4>1, VlatLists, VlatSpan
    <3> QED
      BY <3>1, <3>2
  <2>2. QueueInv' /\ PendingInv' /\ failed' = "no"
    BY <1>3, VlatQueue
  <2>3. MoreIsRight'
    BY <1>3, VlatLeaves DEF MoreIsRight
  <2> QED
    BY <1>1, <2>1, <2>2, <2>3
<1> QED
  BY <1>2, <1>3 DEF Next

LEMMA IterationStutter ==
    ASSUME IterationInv, UNCHANGED vars
    PROVE  IterationInv'
<1>1. UNCHANGED <<mainPc, at, buffer, more, begun, written, vlatPc, readAt, writeAt,
                  datum, applied, ring, validChunks, validSubs, writeQueue,
                  resetAsked, resetDone, endSweep, endAll, stored, failed>>
  BY DEF vars, mainVars, vlatVars, dataVars, flagVars
<1>2. FilledTo' = FilledTo /\ ListedTo' = ListedTo /\ ToRead' = ToRead
  BY <1>1 DEF FilledTo, ListedTo, ToRead
<1>3. FlagsInv' /\ SweepInv' /\ MoreIsRight' /\ failed' = "no"
  BY <1>1 DEF IterationInv, FlagsInv, SweepInv, MoreIsRight
<1>4. ~endSweep' => ListInv' /\ ChunkListInv'
  BY <1>1, <1>2 DEF IterationInv, ListInv, ChunkListInv
<1>5. ~endSweep' => SpanInv' /\ AheadInv'
  BY <1>1, <1>2 DEF IterationInv, SpanInv, AheadInv
<1>6. QueueInv' /\ PendingInv'
  BY <1>1, <1>2 DEF IterationInv, QueueInv, PendingInv
<1> QED
  BY <1>3, <1>4, <1>5, <1>6 DEF IterationInv

AllInv == TypesInv /\ IterationInv

LEMMA AllInvHolds ==
    ASSUME ~MayRove
    PROVE  Spec => []AllInv
<1>1. Init => AllInv
  BY TypesInit, IterationInit DEF AllInv
<1>2. AllInv /\ [Next]_vars => AllInv'
  BY TypesStep, IterationStep, IterationStutter DEF AllInv
<1> QED
  BY <1>1, <1>2, PTL DEF Spec

\* An application that takes chunks and subchunks in order never makes origin
\* or readStart throw, and no write of its makes the write iterator fail.
THEOREM NothingThrows ==
    ASSUME ~MayRove
    PROVE  Spec => []NothingFails
<1>1. AllInv => NothingFails
  BY DEF AllInv, IterationInv, NothingFails
<1> QED
  BY <1>1, AllInvHolds, PTL

\* more and moreChunks tell it the truth at any moment of the look-ahead.
THEOREM AnswersAreRight ==
    ASSUME ~MayRove
    PROVE  Spec => []MoreIsRight
<1>1. AllInv => MoreIsRight
  BY DEF AllInv, IterationInv
<1> QED
  BY <1>1, AllInvHolds, PTL

\* Its writes are in the measurement set before the next sweep reads it.
THEOREM WritesArrive ==
    ASSUME ~MayRove
    PROVE  Spec => []WritesDone
<1>1. AllInv => WritesDone
  <2> SUFFICES ASSUME AllInv, vlatPc \in {"begin", "ended"}
               PROVE  writeQueue = <<>> /\ stored = written
    BY DEF WritesDone
  <2>1. writeQueue = <<>> /\ PendingInv
    BY DEF AllInv, IterationInv, QueueInv
  <2>2. \A p \in SubChunks : stored[p] = written[p]
    BY <2>1 DEF PendingInv
  <2>3. stored \in [SubChunks -> 0..MaxWrites] /\ written \in [SubChunks -> 0..MaxWrites]
    BY DEF AllInv, TypesInv, TypeOK
  <2> QED
    BY <2>1, <2>2, <2>3
<1> QED
  BY <1>1, AllInvHolds, PTL

-----------------------------------------------------------------------------
(* The iterator shows what a plain one would.                               *)

\* The buffer its user sees, and the selection the next one is read with.
Shown == IF buffer # NoBuffer /\ buffer.of = at THEN buffer ELSE NoBuffer
InForce == IF resetAsked THEN wanted ELSE applied

Hidden == mainPc \in {"valid", "chunk", "read"} => Shown = NoBuffer

LEMMA NothingShown == AllInv => Hidden
<1> SUFFICES ASSUME AllInv, mainPc \in {"valid", "chunk", "read"},
                    buffer # NoBuffer, buffer.of = at
             PROVE  FALSE
  BY DEF Hidden, Shown
<1>1. ~endSweep /\ at \in SubChunks /\ Before(at, ToRead)
  BY SweepGoesOn DEF AllInv, IterationInv, SpanInv
<1>2. ToRead = at /\ ~Before(at, at)
  BY <1>1, PlacesAre, SubChunksPlaces, BeforeOrders DEF ToRead
<1> QED
  BY <1>1, <1>2

LEMMA SameSubChunks == Iterator!SubChunks = SubChunks
  BY DEF Iterator!SubChunks, SubChunks, NrChunks

LEMMA IteratorInits == Init => Iterator!IteratorInit
  BY SameSubChunks DEF Init, Iterator!IteratorInit

LEMMA IteratorStutters ==
    ASSUME UNCHANGED <<written, at, wanted>>, Shown' = Shown, InForce' = InForce
    PROVE  UNCHANGED Iterator!iteratorVars
  BY DEF Iterator!iteratorVars, Shown, InForce

LEMMA MainIterates ==
    ASSUME AllInv, Main, AllInv', ~MayRove
    PROVE  Iterator!IteratorNext \/ UNCHANGED Iterator!iteratorVars
<1>0. Hidden /\ Hidden'
  BY NothingShown, PTL
<1>1. CASE Select
  <2>1. /\ wanted' = wanted + 1 /\ ~resetAsked
        /\ UNCHANGED <<written, at, buffer, resetAsked, applied>>
    BY <1>1, SweepGoesOn DEF Select, InApp, AllInv, IterationInv, mainVars, vlatVars,
       flagVars
  <2>2. Iterator!Select
    BY <2>1 DEF Iterator!Select
  <2> QED
    BY <2>2 DEF Iterator!IteratorNext
<1>2. CASE OriginChunks
  <2>1. /\ at' = <<0, 0>> /\ buffer' = NoBuffer /\ resetAsked' = TRUE
        /\ UNCHANGED <<written, wanted>>
    BY <1>2 DEF OriginChunks, RequestReset
  <2>2. Iterator!Restart
    BY <2>1 DEF Iterator!Restart
  <2> QED
    BY <2>2 DEF Iterator!IteratorNext
<1>3. CASE Calls
  <2>1. /\ mainPc' \in {"valid", "chunk"}
        /\ at' \in {<<at[1], 0>>, <<at[1], at[2] + 1>>, <<at[1] + 1, 0>>}
        /\ UNCHANGED <<written, wanted, resetAsked, applied>>
    BY <1>3 DEF Calls, Origin, Advance, NextChunkCall, Call, NextSub, NextChunk,
       vlatVars, flagVars
  <2>2. Shown' = NoBuffer
    BY <1>0, <2>1 DEF Hidden
  <2>3. Iterator!Move
    BY <2>1, <2>2 DEF Iterator!Move, Shown
  <2> QED
    BY <2>3 DEF Iterator!IteratorNext
<1>4. CASE AwaitReset \/ Join \/ IsValidSubChunk
  <2>1. UNCHANGED <<written, at, wanted, buffer, resetAsked, applied>>
    BY <1>4 DEF AwaitReset, Join, IsValidSubChunk, vlatVars, flagVars
  <2> QED
    BY <2>1, IteratorStutters DEF Shown, InForce
<1>5. CASE IsValidChunk
  <2>1. /\ UNCHANGED <<written, at, wanted, resetAsked, applied>>
        /\ buffer' \in {buffer, NoBuffer} /\ mainPc = "chunk"
    BY <1>5 DEF IsValidChunk, vlatVars, flagVars
  <2>2. Shown' = Shown
    BY <1>0, <2>1 DEF Hidden, Shown
  <2> QED
    BY <2>1, <2>2, IteratorStutters DEF InForce
<1>6. CASE ReadStart
  <2>1. /\ UNCHANGED <<written, at, wanted, resetAsked, applied>>
        /\ mainPc = "read" /\ (ring = <<>> => buffer' = NoBuffer)
        /\ Shown = NoBuffer
    BY <1>0, <1>6 DEF ReadStart, vlatVars, flagVars, Hidden
  <2>2. CASE ring = <<>>
    <3>1. Shown' = Shown
      BY <2>1, <2>2 DEF Shown
    <3> QED
      BY <2>1, <3>1, IteratorStutters DEF InForce
  <2>3. CASE ring # <<>>
    <3>1. ~endSweep /\ ~resetAsked
      BY <2>1, SweepGoesOn DEF AllInv, IterationInv
    <3>2. /\ at \in SubChunks /\ buffer' = ring[1] /\ 1 \in DOMAIN ring
          /\ ring[1].of = at
      BY <1>6, <2>3, <3>1, BufferTaken DEF AllInv, IterationInv
    <3>3. ring[1].holds = written[at] /\ ring[1].selection = applied
      BY <3>1, <3>2 DEF AllInv, IterationInv, AheadInv
    <3>4. ring[1] \in Datum
      BY <3>2, SMTT(30) DEF AllInv, TypesInv, TypeOK
    <3>5. ring[1] = [of |-> at, holds |-> written[at], selection |-> applied]
      BY <3>2, <3>3, <3>4 DEF Datum
    <3>6. Shown' = [of |-> at, holds |-> written[at], selection |-> applied]
      BY <2>1, <3>2, <3>5 DEF Shown
    <3>7. Iterator!Fill
      BY <2>1, <3>1, <3>2, <3>6, SameSubChunks DEF Iterator!Fill, Shown
    <3> QED
      BY <3>7 DEF Iterator!IteratorNext
  <2> QED
    BY <2>2, <2>3
<1>7. CASE Write
  <2>1. /\ buffer # NoBuffer /\ buffer.of = at
        /\ written' = [written EXCEPT ![at] = writes'] /\ writes' = writes + 1
        /\ UNCHANGED <<at, buffer, wanted, resetAsked, applied>>
    BY <1>7 DEF Write, vlatVars, flagVars
  <2>2. at \in SubChunks /\ written \in [SubChunks -> 0..MaxWrites] /\ writes' \in Nat
    BY <2>1 DEF AllInv, TypesInv, TypeOK, Datum
  <2>3. written'[at] = writes'
    BY <2>1, <2>2
  <2>4. Iterator!Write
    BY <2>1, <2>2, <2>3 DEF Iterator!Write
  <2> QED
    BY <2>4 DEF Iterator!IteratorNext
<1>8. CASE Terminate
  <2>1. buffer' = NoBuffer /\ UNCHANGED <<written, at, wanted, resetAsked, applied>>
    BY <1>8 DEF Terminate, vlatVars
  <2>2. Iterator!Release
    BY <2>1 DEF Iterator!Release
  <2> QED
    BY <2>2 DEF Iterator!IteratorNext
<1> QED
  BY <1>1, <1>2, <1>3, <1>4, <1>5, <1>6, <1>7, <1>8 DEF Main, Calls

LEMMA VlatIterates ==
    ASSUME AllInv, Vlat
    PROVE  UNCHANGED Iterator!iteratorVars
<1>1. UNCHANGED <<written, at, wanted, buffer>>
  BY VlatLeaves
<1>2. CASE ViReset
  <2>1. resetAsked
    BY <1>2, SweepGoesOn DEF ViReset, AllInv, IterationInv, FlagsInv
  <2>2. ~resetAsked' /\ applied' = wanted
    BY <1>2 DEF ViReset, TransferModifiers
  <2> QED
    BY <1>1, <2>1, <2>2, IteratorStutters DEF Shown, InForce
<1>3. CASE ~ViReset
  BY <1>1, <1>3, VlatLeaves, IteratorStutters DEF Shown, InForce
<1> QED
  BY <1>2, <1>3

\* The asynchronous iterator implements the plain one: the look-ahead and the
\* delayed writes cannot be seen by an application that goes in order.
THEOREM LookAheadIsIterator ==
    ASSUME ~MayRove
    PROVE  Spec => IsIterator
<1>1. Init => Iterator!IteratorInit
  BY IteratorInits
<1>2. ASSUME AllInv, [Next]_vars, AllInv'
      PROVE  [Iterator!IteratorNext]_Iterator!iteratorVars
  <2>1. CASE Next
    BY <1>2, <2>1, MainIterates, VlatIterates DEF Next
  <2>2. CASE UNCHANGED vars
    <3>1. UNCHANGED <<written, at, wanted, buffer, resetAsked, applied>>
      BY <2>2 DEF vars, mainVars, vlatVars, flagVars
    <3> QED
      BY <3>1, IteratorStutters DEF Shown, InForce
  <2> QED
    BY <1>2, <2>1, <2>2
<1>3. Init /\ []AllInv /\ [][Next]_vars => Iterator!IteratorSpec
  BY <1>1, <1>2, PTL DEF Iterator!IteratorSpec
<1> QED
  BY <1>3, AllInvHolds, PTL DEF Spec, IsIterator

=============================================================================
