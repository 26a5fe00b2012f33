--------------------------- MODULE MultiFileProofs ---------------------------
(***************************************************************************)
(* MultiFile for any processes, names and values, any block size and without *)
(* the bounds of the runs.                                                   *)
(***************************************************************************)
EXTENDS MultiFile, FiniteSetTheorems, SequenceTheorems, WellFoundedInduction, TLAPS

-----------------------------------------------------------------------------
(* Induction over the natural numbers for a set, and over the turns of a loop. *)

LEMMA Least ==
    ASSUME NEW T \in SUBSET Nat, T # {}
    PROVE  \E x \in T : \A y \in T : x <= y
  <1> DEFINE Less == OpToRel(<, Nat)
  <1>1. Less = {ss \in Nat \X Nat : ss[1] < ss[2]}
    BY Zenon DEF OpToRel
  <1>2. IsWellFoundedOn(Less, Nat)
    BY NatLessThanWellFounded, Zenon
  <1> HIDE DEF Less
  <1>3. PICK x \in T : \A y \in T : ~(<<y, x>> \in Less)
    BY <1>2, WFMin
  <1>4. ASSUME NEW y \in T
        PROVE  x <= y
    <2>1. ~(y < x)
      BY <1>1, <1>3, <1>4
    <2> QED BY <2>1
  <1> QED BY <1>4

LEMMA Greatest ==
    ASSUME NEW n \in Nat, NEW T \in SUBSET (0..n), T # {}
    PROVE  \E x \in T : \A y \in T : y <= x
  <1> DEFINE Above == {m \in 0..n : n - m \in T}
  <1>1. Above # {} /\ Above \in SUBSET Nat
    <2>1. PICK y \in T : TRUE
      OBVIOUS
    <2>2. n - y \in 0..n /\ n - (n - y) = y
      OBVIOUS
    <2>3. n - y \in Above
      BY <2>2
    <2>4. Above \subseteq Nat
      OBVIOUS
    <2> QED BY <2>3, <2>4
  <1>2. PICK m \in Above : \A k \in Above : m <= k
    <2> HIDE DEF Above
    <2> QED BY <1>1, Least
  <1>3. ASSUME NEW y \in T
        PROVE  y <= n - m
    <2>1. n - y \in 0..n /\ n - (n - y) = y
      OBVIOUS
    <2>2. n - y \in Above
      BY <2>1
    <2>3. m \in Nat /\ m <= n - y /\ y \in Nat
      BY <1>2, <2>2
    <2> QED BY <2>3
  <1> QED BY <1>2, <1>3

LEMMA Induction ==
    ASSUME NEW T, 0 \in T, \A k \in Nat : k \in T => k + 1 \in T
    PROVE  Nat \subseteq T
  <1> SUFFICES ASSUME Nat \ T # {}
               PROVE  FALSE
    OBVIOUS
  <1>1. PICK x \in Nat \ T : \A y \in Nat \ T : x <= y
    BY Least
  <1>2. x # 0 /\ x - 1 \in Nat
    BY <1>1
  <1>3. x - 1 \in T
    BY <1>1, <1>2
  <1> QED BY <1>1, <1>2, <1>3

\* Induction over the turns of a loop.
LEMMA TurnInduction ==
    ASSUME NEW n \in Nat, NEW T, 0 \in T,
           \A k \in 1..n : k - 1 \in T => k \in T
    PROVE  \A k \in 0..n : k \in T
  <1> DEFINE U == {k \in Nat : k <= n => k \in T}
  <1>1. 0 \in U
    OBVIOUS
  <1>2. ASSUME NEW k \in Nat, k \in U
        PROVE  k + 1 \in U
    <2> SUFFICES ASSUME k + 1 <= n
                 PROVE  k + 1 \in T
      OBVIOUS
    <2>1. k + 1 \in 1..n /\ k \in T /\ (k + 1) - 1 = k
      BY <1>2
    <2> QED BY <2>1
  <1> HIDE DEF U
  <1>3. Nat \subseteq U
    BY <1>1, <1>2, Induction
  <1> QED BY <1>3 DEF U

-----------------------------------------------------------------------------
(* Blocks and units.                                                        *)

LEMMA BlockSizeIs == BlockSize \in Nat \ {0}
  BY MultiFileAssumption

LEMMA NrBlocksIs ==
    ASSUME NEW x \in Nat
    PROVE  /\ NrBlocks(x) \in Nat
           /\ NrBlocks(x) <= x
           /\ NrBlocks(0) = 0
  <1>1. NrBlocks(x) \in Nat
    BY BlockSizeIs DEF NrBlocks
  <1>2. NrBlocks(0) = 0
    BY BlockSizeIs DEF NrBlocks
  <1>3. x + BlockSize - 1 = BlockSize * NrBlocks(x) + ((x + BlockSize - 1) % BlockSize)
        /\ (x + BlockSize - 1) % BlockSize \in 0..(BlockSize - 1)
    BY BlockSizeIs DEF NrBlocks
  <1>4. ASSUME NrBlocks(x) > x PROVE FALSE
    <2>1. BlockSize * NrBlocks(x) >= BlockSize * (x + 1)
      BY <1>1, <1>4, BlockSizeIs
    <2>2. BlockSize * (x + 1) = BlockSize * x + BlockSize
      BY BlockSizeIs
    <2>3. BlockSize * x >= x
      BY BlockSizeIs
    <2> QED BY <1>1, <1>3, <2>1, <2>2, <2>3, BlockSizeIs
  <1> QED BY <1>1, <1>2, <1>4

LEMMA NrBlocksMonotone ==
    ASSUME NEW x \in Nat, NEW y \in Nat, x <= y
    PROVE  NrBlocks(x) <= NrBlocks(y)
  BY BlockSizeIs DEF NrBlocks

\* Which block a unit is in.
LEMMA UnitBlock ==
    ASSUME NEW u \in Nat
    PROVE  /\ u \div BlockSize \in Nat
           /\ u % BlockSize \in Offsets
           /\ u = (u \div BlockSize) * BlockSize + (u % BlockSize)
           /\ \A b \in Nat : \A c \in Offsets :
                u = b * BlockSize + c => b = u \div BlockSize /\ c = u % BlockSize
  BY BlockSizeIs DEF Offsets

LEMMA UnitInBlocks ==
    ASSUME NEW x \in Nat, NEW u \in Nat, u < x
    PROVE  u \div BlockSize < NrBlocks(x)
  <1>1. u + BlockSize <= x + BlockSize - 1
    BY BlockSizeIs
  <1>2. (u + BlockSize) \div BlockSize <= (x + BlockSize - 1) \div BlockSize
    BY <1>1, BlockSizeIs
  <1>3. (u + BlockSize) \div BlockSize = (u \div BlockSize) + 1
    BY BlockSizeIs
  <1> QED BY <1>2, <1>3, UnitBlock, NrBlocksIs DEF NrBlocks

\* The blocks of a range end where a file of that length would end.
LEMMA TurnsIs ==
    ASSUME NEW offset \in Nat, NEW size \in Nat \ {0}
    PROVE  /\ FirstBlock(offset) \in Nat
           /\ NrTurns(offset, size) \in Nat \ {0}
           /\ FirstBlock(offset) + NrTurns(offset, size) = NrBlocks(offset + size)
  <1>1. offset \div BlockSize \in Nat /\ offset % BlockSize \in Nat
        /\ offset = (offset \div BlockSize) * BlockSize + (offset % BlockSize)
    BY UnitBlock, BlockSizeIs DEF Offsets
  <1>2. (offset % BlockSize) + size \in Nat \ {0}
    BY <1>1
  <1>3. NrTurns(offset, size) \in Nat
    BY <1>2, NrBlocksIs DEF NrTurns
  <1>4. NrTurns(offset, size) # 0
    <2> DEFINE y == (offset % BlockSize) + size
    <2>1. y + BlockSize - 1 >= BlockSize
      BY <1>2, BlockSizeIs
    <2>2. (y + BlockSize - 1) \div BlockSize >= 1
      BY <1>2, <2>1, BlockSizeIs
    <2> QED BY <2>2 DEF NrTurns, NrBlocks
  <1>5. FirstBlock(offset) + NrTurns(offset, size) = NrBlocks(offset + size)
    <2> DEFINE q == offset \div BlockSize
               y == (offset % BlockSize) + size + BlockSize - 1
    <2>1. q \in Nat /\ y \in Nat
      BY <1>1, BlockSizeIs
    <2>2. offset + size + BlockSize - 1 = q * BlockSize + y
      BY <1>1, BlockSizeIs
    <2> HIDE DEF q, y
    <2>3. (q * BlockSize + y) \div BlockSize = q + (y \div BlockSize)
      BY <2>1, BlockSizeIs
    <2> QED BY <2>2, <2>3 DEF FirstBlock, NrTurns, NrBlocks, q, y
  <1> QED BY <1>1, <1>3, <1>4, <1>5 DEF FirstBlock

-----------------------------------------------------------------------------
(* Copies of the header.                                                    *)

\* BlocksPlaced, said of each block.
Placed(m) ==
    /\ \A i, j \in DOMAIN m.info :
        \A k \in DOMAIN m.info[i].blockNrs : \A l \in DOMAIN m.info[j].blockNrs :
            m.info[i].blockNrs[k] = m.info[j].blockNrs[l] => i = j /\ k = l
    /\ \A i \in DOMAIN m.info : Len(m.info[i].blockNrs) = NrBlocks(m.info[i].fsize)
    /\ \A i \in DOMAIN m.info : \A k \in DOMAIN m.info[i].blockNrs :
        /\ m.info[i].blockNrs[k] \in 1..(m.nrBlock - 1)
        /\ m.info[i].blockNrs[k] \notin m.freeBlocks
    /\ m.freeBlocks \subseteq 1..(m.nrBlock - 1)
    /\ \A b \in 1..(m.nrBlock - 1) :
        \/ b \in m.freeBlocks
        \/ \E i \in DOMAIN m.info : \E k \in DOMAIN m.info[i].blockNrs :
                m.info[i].blockNrs[k] = b

LEMMA PlacedIs ==
    ASSUME NEW m, Placed(m)
    PROVE  BlocksPlaced(m)
  <1>1. ASSUME NEW i \in DOMAIN m.info
        PROVE  ToSet(m.info[i].blockNrs) \cap m.freeBlocks = {}
    BY <1>1 DEF Placed, ToSet
  <1>2. UNION {ToSet(m.info[i].blockNrs) : i \in DOMAIN m.info} =
            {b \in 1..(m.nrBlock - 1) : \E i \in DOMAIN m.info :
                \E k \in DOMAIN m.info[i].blockNrs : m.info[i].blockNrs[k] = b}
    BY DEF Placed, ToSet
  <1>3. m.freeBlocks \cup UNION {ToSet(m.info[i].blockNrs) : i \in DOMAIN m.info}
            = 1..(m.nrBlock - 1)
    BY <1>2 DEF Placed
  <1> QED BY <1>1, <1>3 DEF BlocksPlaced, Placed

\* Two copies that have the same blocks for the same files.
LEMMA PlacedSame ==
    ASSUME NEW m, NEW n, Placed(m),
           DOMAIN n.info = DOMAIN m.info,
           \A i \in DOMAIN m.info : /\ n.info[i].blockNrs = m.info[i].blockNrs
                                    /\ n.info[i].fsize = m.info[i].fsize,
           n.nrBlock = m.nrBlock, n.freeBlocks = m.freeBlocks
    PROVE  Placed(n)
  <1>1. \A i, j \in DOMAIN n.info :
          \A k \in DOMAIN n.info[i].blockNrs : \A l \in DOMAIN n.info[j].blockNrs :
              n.info[i].blockNrs[k] = n.info[j].blockNrs[l] => i = j /\ k = l
    BY DEF Placed
  <1>2. ASSUME NEW i \in DOMAIN n.info
        PROVE  /\ Len(n.info[i].blockNrs) = NrBlocks(n.info[i].fsize)
               /\ \A k \in DOMAIN n.info[i].blockNrs :
                      /\ n.info[i].blockNrs[k] \in 1..(n.nrBlock - 1)
                      /\ n.info[i].blockNrs[k] \notin n.freeBlocks
    <2>1. /\ i \in DOMAIN m.info /\ n.info[i].blockNrs = m.info[i].blockNrs
          /\ n.info[i].fsize = m.info[i].fsize
      BY <1>2
    <2> QED BY <2>1 DEF Placed
  <1>3. n.freeBlocks \subseteq 1..(n.nrBlock - 1)
    BY DEF Placed
  <1>4. ASSUME NEW b \in 1..(n.nrBlock - 1), b \notin n.freeBlocks
        PROVE  \E i \in DOMAIN n.info : \E k \in DOMAIN n.info[i].blockNrs :
                    n.info[i].blockNrs[k] = b
    <2>1. PICK i \in DOMAIN m.info : \E k \in DOMAIN m.info[i].blockNrs :
                    m.info[i].blockNrs[k] = b
      BY <1>4 DEF Placed
    <2>2. i \in DOMAIN n.info /\ n.info[i].blockNrs = m.info[i].blockNrs
      BY <2>1
    <2> QED BY <2>1, <2>2
  <1> QED BY <1>1, <1>2, <1>3, <1>4 DEF Placed

LEMMA EmptyIs ==
    /\ Placed(EmptyHeader)
    /\ FromHeader(EmptyHeader) \in MemValue
  <1>1. Placed(EmptyHeader)
    BY DEF Placed, EmptyHeader
  <1>2. FromHeader(EmptyHeader) = [info |-> <<>>, nrBlock |-> 1, freeBlocks |-> {},
                                   changed |-> FALSE]
    BY DEF FromHeader, EmptyHeader
  <1> QED BY <1>1, <1>2, MultiFileAssumption DEF MemValue

HeaderEntry ==
    [name : Names \cup {None}, blockNrs : Seq(1..MaxBlocks), fsize : 0..MaxSize]

HeaderValue ==
    [info : Seq(HeaderEntry), nrBlock : 1..(MaxBlocks + 1), freeBlocks : SUBSET (1..MaxBlocks)]

LEMMA NewInfoIs ==
    ASSUME NEW name \in Names \cup {None}
    PROVE  /\ NewInfo(name) \in InfoValue
           /\ NewInfo(name).name = name /\ NewInfo(name).blockNrs = <<>>
           /\ NewInfo(name).fsize = 0 /\ NewInfo(name).curBlock = -1
           /\ ~NewInfo(name).dirty
  BY MultiFileAssumption DEF NewInfo, Info, InfoValue, ZeroBlock, Block

LEMMA FromHeaderIs ==
    ASSUME NEW h \in HeaderValue
    PROVE  /\ FromHeader(h) \in MemValue
           /\ DOMAIN FromHeader(h).info = DOMAIN h.info
           /\ \A i \in DOMAIN h.info :
                /\ FromHeader(h).info[i] \in InfoValue
                /\ Kept(FromHeader(h).info[i]) = h.info[i]
                /\ FromHeader(h).info[i].name = h.info[i].name
                /\ FromHeader(h).info[i].blockNrs = h.info[i].blockNrs
                /\ FromHeader(h).info[i].fsize = h.info[i].fsize
                /\ FromHeader(h).info[i].curBlock = -1
                /\ ~FromHeader(h).info[i].dirty
           /\ FromHeader(h).nrBlock = h.nrBlock
           /\ FromHeader(h).freeBlocks = h.freeBlocks
           /\ ~FromHeader(h).changed
  <1> DEFINE made(i) == Info(h.info[i].name, h.info[i].blockNrs, h.info[i].fsize)
  <1>1. FromHeader(h) = [info |-> [i \in DOMAIN h.info |-> made(i)], nrBlock |-> h.nrBlock,
                         freeBlocks |-> h.freeBlocks, changed |-> FALSE]
    BY DEF FromHeader
  <1>2. ASSUME NEW i \in DOMAIN h.info
        PROVE  /\ made(i) \in InfoValue /\ Kept(made(i)) = h.info[i]
               /\ made(i).name = h.info[i].name /\ made(i).blockNrs = h.info[i].blockNrs
               /\ made(i).fsize = h.info[i].fsize
               /\ made(i).curBlock = -1 /\ ~made(i).dirty
    <2>0. h.info \in Seq(HeaderEntry)
      BY DEF HeaderValue
    <2>1. h.info[i] \in HeaderEntry
      BY <2>0, ElementOfSeq
    <2>2. made(i) = [name |-> h.info[i].name, blockNrs |-> h.info[i].blockNrs,
                     fsize |-> h.info[i].fsize, curBlock |-> -1, dirty |-> FALSE,
                     data |-> ZeroBlock]
      BY DEF Info
    <2>3. ZeroBlock \in Block
      BY DEF ZeroBlock, Block
    <2> HIDE DEF made
    <2>4. made(i) \in InfoValue
      BY <2>1, <2>2, <2>3, MultiFileAssumption DEF InfoValue, HeaderEntry
    <2>5. Kept(made(i)) = h.info[i]
      BY <2>1, <2>2 DEF Kept, HeaderEntry
    <2> QED BY <2>2, <2>4, <2>5
  <1> HIDE DEF made
  <1>3. h.info \in Seq(HeaderEntry)
    BY DEF HeaderValue
  <1>4. [i \in DOMAIN h.info |-> made(i)] \in Seq(InfoValue)
    BY <1>2, <1>3
  <1> QED BY <1>1, <1>2, <1>4 DEF HeaderValue, MemValue

LEMMA HeaderOfIs ==
    ASSUME NEW m \in MemValue
    PROVE  /\ HeaderOf(m) \in HeaderValue
           /\ DOMAIN HeaderOf(m).info = DOMAIN m.info
           /\ \A i \in DOMAIN m.info :
                /\ HeaderOf(m).info[i] = Kept(m.info[i])
                /\ HeaderOf(m).info[i].name = m.info[i].name
                /\ HeaderOf(m).info[i].blockNrs = m.info[i].blockNrs
                /\ HeaderOf(m).info[i].fsize = m.info[i].fsize
           /\ HeaderOf(m).nrBlock = m.nrBlock
           /\ HeaderOf(m).freeBlocks = m.freeBlocks
  <1>0. m.info \in Seq(InfoValue)
    BY DEF MemValue
  <1>1. ASSUME NEW i \in DOMAIN m.info
        PROVE  Kept(m.info[i]) \in HeaderEntry
    <2>1. m.info[i] \in InfoValue
      BY <1>0, ElementOfSeq
    <2> QED BY <2>1 DEF InfoValue, Kept, HeaderEntry
  <1>2. [i \in DOMAIN m.info |-> Kept(m.info[i])] \in Seq(HeaderEntry)
    BY <1>0, <1>1, IsASeq
  <1> QED BY <1>2 DEF HeaderOf, HeaderValue, MemValue, Kept

LEMMA MemFields ==
    ASSUME NEW m \in MemValue
    PROVE  /\ m.info \in Seq(InfoValue) /\ Len(m.info) \in Nat
           /\ DOMAIN m.info = 1..Len(m.info)
           /\ \A i \in DOMAIN m.info : m.info[i] \in InfoValue
           /\ m.nrBlock \in 1..(MaxBlocks + 1) /\ m.freeBlocks \subseteq 1..MaxBlocks
           /\ m.changed \in BOOLEAN
  <1>1. m.info \in Seq(InfoValue)
    BY DEF MemValue
  <1> QED BY <1>1 DEF MemValue

LEMMA InfoFields ==
    ASSUME NEW info \in InfoValue
    PROVE  /\ info.name \in Names \cup {None}
           /\ info.blockNrs \in Seq(1..MaxBlocks) /\ Len(info.blockNrs) \in Nat
           /\ DOMAIN info.blockNrs = 1..Len(info.blockNrs)
           /\ \A k \in DOMAIN info.blockNrs : info.blockNrs[k] \in 1..MaxBlocks
           /\ info.fsize \in 0..MaxSize /\ info.curBlock \in -1..(MaxSize - 1)
           /\ info.dirty \in BOOLEAN /\ info.data \in Block
  <1>1. info.blockNrs \in Seq(1..MaxBlocks)
    BY DEF InfoValue
  <1>2. /\ Len(info.blockNrs) \in Nat /\ DOMAIN info.blockNrs = 1..Len(info.blockNrs)
        /\ \A k \in DOMAIN info.blockNrs : info.blockNrs[k] \in 1..MaxBlocks
    BY <1>1, ElementOfSeq, LenProperties
  <1>3. /\ info.name \in Names \cup {None}
        /\ info.fsize \in 0..MaxSize /\ info.curBlock \in -1..(MaxSize - 1)
        /\ info.dirty \in BOOLEAN /\ info.data \in Block
    BY DEF InfoValue
  <1> QED BY <1>1, <1>2, <1>3

-----------------------------------------------------------------------------
(* Files are removed and added.                                              *)

LEMMA DeletedIs ==
    ASSUME NEW m \in MemValue, NEW id \in DOMAIN m.info
    PROVE  /\ Deleted(m, id) \in MemValue
           /\ DOMAIN Deleted(m, id).info = DOMAIN m.info
           /\ \A i \in DOMAIN m.info :
                Deleted(m, id).info[i] = IF i = id THEN NoInfo ELSE m.info[i]
           /\ Deleted(m, id).nrBlock = m.nrBlock
           /\ Deleted(m, id).freeBlocks = m.freeBlocks \cup ToSet(m.info[id].blockNrs)
           /\ Deleted(m, id).changed
  <1>1. m.info[id] \in InfoValue /\ NoInfo \in InfoValue
    BY MemFields, NewInfoIs DEF NoInfo
  <1>2. ToSet(m.info[id].blockNrs) \subseteq 1..MaxBlocks
    BY <1>1, InfoFields DEF ToSet
  <1>3. Deleted(m, id) = [info |-> [m.info EXCEPT ![id] = NoInfo], nrBlock |-> m.nrBlock,
                          freeBlocks |-> m.freeBlocks \cup ToSet(m.info[id].blockNrs),
                          changed |-> TRUE]
    BY DEF Deleted, Changed
  <1>4. [m.info EXCEPT ![id] = NoInfo] \in Seq(InfoValue)
    BY <1>1, MemFields, ExceptSeq
  <1> QED BY <1>2, <1>3, <1>4, MemFields DEF MemValue

LEMMA DeletedPlaced ==
    ASSUME NEW m \in MemValue, NEW id \in DOMAIN m.info, Placed(m)
    PROVE  Placed(Deleted(m, id))
  <1> DEFINE n == Deleted(m, id)
  <1>1. /\ DOMAIN n.info = DOMAIN m.info /\ n.nrBlock = m.nrBlock
        /\ n.info[id].blockNrs = <<>> /\ n.info[id].fsize = 0
        /\ \A i \in DOMAIN m.info : i # id => n.info[i] = m.info[i]
        /\ \A b : b \in n.freeBlocks <=>
                b \in m.freeBlocks \/ \E k \in DOMAIN m.info[id].blockNrs :
                                            b = m.info[id].blockNrs[k]
    BY DeletedIs, NewInfoIs DEF NoInfo, ToSet
  <1> HIDE DEF n
  <1>2. \A i \in DOMAIN m.info : \A k \in DOMAIN n.info[i].blockNrs :
            i # id /\ k \in DOMAIN m.info[i].blockNrs
            /\ n.info[i].blockNrs[k] = m.info[i].blockNrs[k]
    BY <1>1
  <1>3. NrBlocks(0) = 0 /\ Len(<<>>) = 0
    BY NrBlocksIs
  <1>4. \A i \in DOMAIN n.info : Len(n.info[i].blockNrs) = NrBlocks(n.info[i].fsize)
    BY <1>1, <1>3 DEF Placed
  <1>5. \A i, j \in DOMAIN n.info :
        \A k \in DOMAIN n.info[i].blockNrs : \A l \in DOMAIN n.info[j].blockNrs :
            n.info[i].blockNrs[k] = n.info[j].blockNrs[l] => i = j /\ k = l
    BY <1>1, <1>2 DEF Placed
  <1>6. \A i \in DOMAIN n.info : \A k \in DOMAIN n.info[i].blockNrs :
        /\ n.info[i].blockNrs[k] \in 1..(n.nrBlock - 1)
        /\ n.info[i].blockNrs[k] \notin n.freeBlocks
    BY <1>1, <1>2 DEF Placed
  <1>7. n.freeBlocks \subseteq 1..(n.nrBlock - 1)
    BY <1>1 DEF Placed
  <1>8. ASSUME NEW b \in 1..(n.nrBlock - 1)
        PROVE  \/ b \in n.freeBlocks
               \/ \E i \in DOMAIN n.info : \E k \in DOMAIN n.info[i].blockNrs :
                        n.info[i].blockNrs[k] = b
    BY <1>1, <1>8 DEF Placed
  <1>9. Placed(n)
    BY <1>4, <1>5, <1>6, <1>7, <1>8 DEF Placed
  <1> QED BY <1>9 DEF n

\* addFile: where the new file is, and that the others stay.
LEMMA AddedIs ==
    ASSUME NEW m \in MemValue, NEW name \in Names
    PROVE  \E id \in 1..(Len(m.info) + 1) :
                /\ id \in DOMAIN m.info => m.info[id].name = None
                /\ Added(m, name) \in MemValue
                /\ DOMAIN Added(m, name).info = DOMAIN m.info \cup {id}
                /\ \A i \in DOMAIN m.info \cup {id} :
                        Added(m, name).info[i] = IF i = id THEN NewInfo(name) ELSE m.info[i]
                /\ Added(m, name).nrBlock = m.nrBlock
                /\ Added(m, name).freeBlocks = m.freeBlocks
                /\ Added(m, name).changed
  <1> DEFINE open == DOMAIN m.info \ Ids(m)
             id == IF open = {} THEN Len(m.info) + 1
                   ELSE CHOOSE i \in open : \A j \in open : j <= i
             info == [i \in 1..Greater(Len(m.info), id) |->
                        IF i = id THEN NewInfo(name) ELSE m.info[i]]
  <1>0. Len(m.info) \in Nat /\ DOMAIN m.info = 1..Len(m.info)
    BY MemFields
  <1>2. open # {} => id \in open
    <2> SUFFICES ASSUME open # {}
                 PROVE  \E i \in open : \A j \in open : j <= i
      OBVIOUS
    <2>1. open \in SUBSET (0..Len(m.info))
      BY <1>0
    <2> HIDE DEF open
    <2> QED BY <1>0, <2>1, Greatest
  <1>3. id \in 1..(Len(m.info) + 1) /\ (id \in DOMAIN m.info => id \in open)
    <2> HIDE DEF open
    <2>1. open \subseteq DOMAIN m.info
      BY DEF open
    <2> QED BY <1>0, <1>2, <2>1
  <1>4. Added(m, name) = [info |-> info, nrBlock |-> m.nrBlock,
                          freeBlocks |-> m.freeBlocks, changed |-> TRUE]
    BY DEF Added, Changed
  <1>5. id \in DOMAIN m.info => m.info[id].name = None
    BY <1>3 DEF Ids
  <1> HIDE DEF open, id
  <1>6. 1..Greater(Len(m.info), id) = DOMAIN m.info \cup {id}
        /\ Greater(Len(m.info), id) \in Nat
    BY <1>0, <1>3 DEF Greater
  <1>7. ASSUME NEW i \in 1..Greater(Len(m.info), id)
        PROVE  (IF i = id THEN NewInfo(name) ELSE m.info[i]) \in InfoValue
    BY <1>6, MemFields, NewInfoIs
  <1>8. info \in Seq(InfoValue)
    BY <1>6, <1>7
  <1>9. Added(m, name) \in MemValue
    <2> HIDE DEF info
    <2> QED BY <1>4, <1>8, MemFields DEF MemValue
  <1>10. /\ Added(m, name).info = info /\ Added(m, name).nrBlock = m.nrBlock
         /\ Added(m, name).freeBlocks = m.freeBlocks /\ Added(m, name).changed
    <2> HIDE DEF info
    <2> QED BY <1>4
  <1>11. /\ DOMAIN info = DOMAIN m.info \cup {id}
         /\ \A i \in DOMAIN m.info \cup {id} :
                info[i] = IF i = id THEN NewInfo(name) ELSE m.info[i]
    BY <1>6
  <1> HIDE DEF info
  <1> QED BY <1>3, <1>5, <1>9, <1>10, <1>11

LEMMA AddedPlaced ==
    ASSUME NEW m \in MemValue, NEW name \in Names, Placed(m),
           \A i \in DOMAIN m.info : m.info[i].name = None => m.info[i].blockNrs = <<>>
    PROVE  Placed(Added(m, name))
  <1> DEFINE n == Added(m, name)
  <1>1. PICK id \in 1..(Len(m.info) + 1) :
                /\ id \in DOMAIN m.info => m.info[id].name = None
                /\ DOMAIN n.info = DOMAIN m.info \cup {id}
                /\ \A i \in DOMAIN m.info \cup {id} :
                        n.info[i] = IF i = id THEN NewInfo(name) ELSE m.info[i]
                /\ n.nrBlock = m.nrBlock
                /\ n.freeBlocks = m.freeBlocks
    BY AddedIs
  <1> HIDE DEF n
  <1>2. NrBlocks(0) = 0 /\ Len(<<>>) = 0
    BY NrBlocksIs
  <1>3. /\ n.info[id].blockNrs = <<>> /\ n.info[id].fsize = 0
        /\ \A i \in DOMAIN n.info : i # id => i \in DOMAIN m.info /\ n.info[i] = m.info[i]
        /\ \A i \in DOMAIN m.info : i # id => i \in DOMAIN n.info
        /\ id \in DOMAIN m.info => m.info[id].blockNrs = <<>>
    BY <1>1, NewInfoIs
  <1>4. \A i \in DOMAIN n.info : Len(n.info[i].blockNrs) = NrBlocks(n.info[i].fsize)
    BY <1>1, <1>2, <1>3 DEF Placed
  <1>5. \A i \in DOMAIN n.info : \A k \in DOMAIN n.info[i].blockNrs :
            i \in DOMAIN m.info /\ i # id
    BY <1>3
  <1>6. \A i, j \in DOMAIN n.info :
        \A k \in DOMAIN n.info[i].blockNrs : \A l \in DOMAIN n.info[j].blockNrs :
            n.info[i].blockNrs[k] = n.info[j].blockNrs[l] => i = j /\ k = l
    BY <1>3, <1>5 DEF Placed
  <1>7. \A i \in DOMAIN n.info : \A k \in DOMAIN n.info[i].blockNrs :
        /\ n.info[i].blockNrs[k] \in 1..(n.nrBlock - 1)
        /\ n.info[i].blockNrs[k] \notin n.freeBlocks
    BY <1>1, <1>3, <1>5 DEF Placed
  <1>8. ASSUME NEW b \in 1..(n.nrBlock - 1)
        PROVE  \/ b \in n.freeBlocks
               \/ \E i \in DOMAIN n.info : \E k \in DOMAIN n.info[i].blockNrs :
                        n.info[i].blockNrs[k] = b
    BY <1>1, <1>3, <1>8 DEF Placed
  <1>9. Placed(n)
    BY <1>1, <1>4, <1>6, <1>7, <1>8 DEF Placed
  <1> QED BY <1>9 DEF n

-----------------------------------------------------------------------------
(* Blocks are allocated.                                                    *)

LEMMA FreeIsFinite ==
    ASSUME NEW m \in MemValue
    PROVE  IsFiniteSet(m.freeBlocks) /\ Cardinality(m.freeBlocks) \in Nat
  <1>1. IsFiniteSet(1..MaxBlocks)
    BY MultiFileAssumption, FS_Interval
  <1>2. m.freeBlocks \in SUBSET (1..MaxBlocks)
    BY MemFields
  <1>3. IsFiniteSet(m.freeBlocks)
    BY <1>1, <1>2, FS_Subset
  <1> QED BY <1>3, FS_CardinalityType

\* An allocation ascends, and appends blocks only when it has taken all that
\* are free.
LEMMA AllocationIs ==
    ASSUME NEW m \in MemValue, Placed(m), NEW more \in Nat,
           NEW new \in [1..more -> m.freeBlocks \cup (m.nrBlock..MaxBlocks)],
           IsAllocation(m, new)
    PROVE  /\ \A i, j \in 1..more : i < j => new[i] < new[j]
           /\ \A i \in 1..more : new[i] \in 1..MaxBlocks
           /\ \A i \in 1..more : new[i] \in m.freeBlocks \/ new[i] >= m.nrBlock
           /\ NrAppended(m, new) \in Nat
           /\ m.nrBlock + NrAppended(m, new) \in m.nrBlock..(MaxBlocks + 1)
           /\ \A i \in 1..more : new[i] < m.nrBlock + NrAppended(m, new)
           /\ \A b \in m.nrBlock..(m.nrBlock + NrAppended(m, new) - 1) :
                    \E i \in 1..more : new[i] = b
  <1> DEFINE n == Cardinality(m.freeBlocks)
             appended == NrAppended(m, new)
  <1>1. n \in Nat /\ IsFiniteSet(m.freeBlocks)
    BY FreeIsFinite
  <1>2. m.nrBlock \in 1..(MaxBlocks + 1) /\ m.freeBlocks \subseteq 1..(m.nrBlock - 1)
        /\ MaxBlocks \in Nat
    BY MemFields, MultiFileAssumption DEF Placed
  <1>3. appended = Greater(0, more - n) /\ appended \in Nat
    BY <1>1 DEF NrAppended, Greater
  <1> HIDE DEF n, appended
  <1>4. \A i \in 1..more : i <= n => new[i] \in m.freeBlocks
    BY DEF IsAllocation, n
  <1>5. \A i \in 1..more : i <= n => \A j \in 1..(i - 1) : new[j] < new[i]
    BY DEF IsAllocation, n
  <1>6. \A i \in 1..more : ~(i <= n) => new[i] = m.nrBlock + i - 1 - n
    BY DEF IsAllocation, n
  <1>7. ASSUME NEW i \in 1..more, NEW j \in 1..more, i < j
        PROVE  new[i] < new[j]
    <2>1. CASE j <= n
      BY <1>5, <1>7, <2>1
    <2>2. CASE i > n
      BY <1>1, <1>2, <1>6, <1>7, <2>2
    <2>3. CASE i <= n /\ ~(j <= n)
      BY <1>1, <1>2, <1>4, <1>6, <1>7, <2>3
    <2> QED BY <1>1, <2>1, <2>2, <2>3
  <1>8. ASSUME NEW i \in 1..more
        PROVE  /\ new[i] \in 1..MaxBlocks
               /\ new[i] \in m.freeBlocks \/ new[i] >= m.nrBlock
               /\ new[i] < m.nrBlock + appended
    <2>1. new[i] \in m.freeBlocks \/ new[i] \in m.nrBlock..MaxBlocks
      OBVIOUS
    <2>2. CASE i <= n
      BY <1>2, <1>3, <1>4, <2>2
    <2>3. CASE ~(i <= n)
      BY <1>1, <1>2, <1>3, <1>6, <2>1, <2>3 DEF Greater
    <2> QED BY <1>1, <2>2, <2>3
  <1>9. m.nrBlock + appended \in m.nrBlock..(MaxBlocks + 1)
    <2>1. CASE more <= n
      BY <1>1, <1>2, <1>3, <2>1 DEF Greater
    <2>2. CASE ~(more <= n)
      <3>1. more \in 1..more /\ new[more] = m.nrBlock + more - 1 - n
        BY <1>1, <1>6, <2>2
      <3>2. new[more] <= MaxBlocks
        BY <1>8, <3>1
      <3> QED BY <1>1, <1>2, <1>3, <2>2, <3>1, <3>2 DEF Greater
    <2> QED BY <2>1, <2>2
  <1>10. ASSUME NEW b \in m.nrBlock..(m.nrBlock + appended - 1)
         PROVE  \E i \in 1..more : new[i] = b
    <2>1. appended = more - n /\ more > n
      BY <1>1, <1>2, <1>3, <1>10 DEF Greater
    <2>2. b - m.nrBlock + 1 + n \in 1..more /\ ~(b - m.nrBlock + 1 + n <= n)
      BY <1>1, <1>2, <1>10, <2>1
    <2>3. new[b - m.nrBlock + 1 + n] = b
      BY <1>1, <1>2, <1>6, <2>2
    <2> QED BY <2>2, <2>3
  <1> QED BY <1>3, <1>7, <1>8, <1>9, <1>10 DEF appended

LEMMA ConcatIs ==
    ASSUME NEW S, NEW q \in Seq(S), NEW more \in Nat, NEW new \in [1..more -> S]
    PROVE  /\ q \o new \in Seq(S)
           /\ Len(q \o new) = Len(q) + more
           /\ DOMAIN (q \o new) = 1..(Len(q) + more)
           /\ \A k \in 1..Len(q) : (q \o new)[k] = q[k]
           /\ \A k \in 1..more : (q \o new)[Len(q) + k] = new[k]
           /\ \A k \in 1..(Len(q) + more) : k > Len(q) =>
                    k - Len(q) \in 1..more /\ (q \o new)[k] = new[k - Len(q)]
  <1>1. new \in Seq(S) /\ Len(new) = more
    OBVIOUS
  <1>2. /\ q \o new \in Seq(S) /\ Len(q \o new) = Len(q) + more
        /\ \A k \in 1..(Len(q) + more) :
                (q \o new)[k] = IF k <= Len(q) THEN q[k] ELSE new[k - Len(q)]
    BY <1>1, ConcatProperties
  <1>3. Len(q) \in Nat
    BY LenProperties
  <1>4. \A k \in 1..more : Len(q) + k \in 1..(Len(q) + more) /\ ~(Len(q) + k <= Len(q))
                          /\ (Len(q) + k) - Len(q) = k
    BY <1>3
  <1>5. \A k \in 1..Len(q) : k \in 1..(Len(q) + more) /\ k <= Len(q)
    BY <1>3
  <1>6. \A k \in 1..(Len(q) + more) : k > Len(q) => k - Len(q) \in 1..more /\ ~(k <= Len(q))
    BY <1>3
  <1>7. DOMAIN (q \o new) = 1..(Len(q) + more)
    BY <1>2, LenProperties
  <1> QED BY <1>2, <1>4, <1>5, <1>6, <1>7

\* A file that has got the allocated blocks, in a copy w of the header.
IsExtended(m, w, id, new) ==
    /\ DOMAIN w.info = DOMAIN m.info
    /\ \A i \in DOMAIN m.info \ {id} : /\ w.info[i].blockNrs = m.info[i].blockNrs
                                        /\ w.info[i].fsize = m.info[i].fsize
    /\ w.info[id].blockNrs = m.info[id].blockNrs \o new
    /\ w.nrBlock = m.nrBlock + NrAppended(m, new)
    /\ w.freeBlocks = m.freeBlocks \ ToSet(new)

LEMMA ExtendedPlaced ==
    ASSUME NEW m \in MemValue, Placed(m), NEW id \in DOMAIN m.info, NEW more \in Nat,
           NEW new \in [1..more -> m.freeBlocks \cup (m.nrBlock..MaxBlocks)],
           IsAllocation(m, new), NEW w, IsExtended(m, w, id, new),
           Len(w.info[id].blockNrs) = NrBlocks(w.info[id].fsize)
    PROVE  Placed(w)
  <1> DEFINE old == m.info[id].blockNrs
             n == Len(old)
             all == w.info[id].blockNrs
  <1>1. old \in Seq(1..MaxBlocks) /\ n \in Nat /\ DOMAIN old = 1..n
    BY MemFields, InfoFields
  <1>2. /\ \A i, j \in 1..more : i < j => new[i] < new[j]
        /\ \A i \in 1..more : new[i] \in 1..MaxBlocks
        /\ \A i \in 1..more : new[i] \in m.freeBlocks \/ new[i] >= m.nrBlock
        /\ NrAppended(m, new) \in Nat
        /\ m.nrBlock + NrAppended(m, new) \in m.nrBlock..(MaxBlocks + 1)
        /\ \A i \in 1..more : new[i] < m.nrBlock + NrAppended(m, new)
        /\ \A b \in m.nrBlock..(m.nrBlock + NrAppended(m, new) - 1) :
                    \E i \in 1..more : new[i] = b
    BY AllocationIs
  <1>3. new \in [1..more -> 1..MaxBlocks]
    BY <1>2
  <1>4. /\ DOMAIN all = 1..(n + more)
        /\ \A k \in 1..n : all[k] = old[k]
        /\ \A k \in 1..more : all[n + k] = new[k]
        /\ \A k \in 1..(n + more) : k > n => k - n \in 1..more /\ all[k] = new[k - n]
    <2>1. all = old \o new
      BY DEF IsExtended
    <2>2. /\ DOMAIN (old \o new) = 1..(Len(old) + more)
          /\ \A k \in 1..Len(old) : (old \o new)[k] = old[k]
          /\ \A k \in 1..more : (old \o new)[Len(old) + k] = new[k]
          /\ \A k \in 1..(Len(old) + more) : k > Len(old) =>
                    k - Len(old) \in 1..more /\ (old \o new)[k] = new[k - Len(old)]
      <3> DEFINE B == 1..MaxBlocks
      <3>1. old \in Seq(B) /\ new \in [1..more -> B]
        BY <1>1, <1>3
      <3> HIDE DEF old, B
      <3> QED BY <3>1, ConcatIs
    <2> HIDE DEF old, all
    <2> QED BY <2>1, <2>2
  <1>5. m.nrBlock \in 1..(MaxBlocks + 1)
    BY MemFields
  <1> HIDE DEF old, n, all
  <1>6. \A b : b \in w.freeBlocks <=> b \in m.freeBlocks /\ \A k \in 1..more : new[k] # b
    BY DEF IsExtended, ToSet
  <1>7. \A i \in DOMAIN m.info : i # id => w.info[i].blockNrs = m.info[i].blockNrs
    BY DEF IsExtended
  <1>8. \A i \in DOMAIN m.info : \A k \in DOMAIN m.info[i].blockNrs :
            /\ m.info[i].blockNrs[k] \in 1..(m.nrBlock - 1)
            /\ m.info[i].blockNrs[k] \notin m.freeBlocks
            /\ \A l \in 1..more : m.info[i].blockNrs[k] # new[l]
    <2> SUFFICES ASSUME NEW i \in DOMAIN m.info, NEW k \in DOMAIN m.info[i].blockNrs
                 PROVE  /\ m.info[i].blockNrs[k] \in 1..(m.nrBlock - 1)
                        /\ m.info[i].blockNrs[k] \notin m.freeBlocks
                        /\ \A l \in 1..more : m.info[i].blockNrs[k] # new[l]
      OBVIOUS
    <2> DEFINE b == m.info[i].blockNrs[k]
    <2>1. b \in 1..(m.nrBlock - 1) /\ b \notin m.freeBlocks
      BY DEF Placed
    <2> HIDE DEF b
    <2>2. b < m.nrBlock /\ b \in Nat /\ m.nrBlock \in Nat
      BY <1>5, <2>1
    <2>3. ASSUME NEW l \in 1..more
          PROVE  b # new[l]
      <3>1. new[l] \in m.freeBlocks \/ new[l] >= m.nrBlock
        BY <1>2
      <3> QED BY <2>1, <2>2, <3>1
    <2> QED BY <2>1, <2>3 DEF b
  \* Each block of w is one of m, or new.
  <1>9. ASSUME NEW i \in DOMAIN m.info, NEW k \in DOMAIN w.info[i].blockNrs
        PROVE  \/ /\ k \in DOMAIN m.info[i].blockNrs
                  /\ w.info[i].blockNrs[k] = m.info[i].blockNrs[k]
               \/ /\ i = id /\ k - n \in 1..more
                  /\ w.info[i].blockNrs[k] = new[k - n] /\ k \in 1..(n + more)
    <2>1. CASE i # id
      BY <1>7, <2>1
    <2>2. CASE i = id
      <3>1. k \in 1..(n + more) /\ w.info[i].blockNrs[k] = all[k]
        BY <1>4, <2>2 DEF all
      <3>2. CASE k <= n
        <4>1. k \in 1..n
          BY <3>1, <3>2
        <4>2. k \in DOMAIN old /\ all[k] = old[k]
          BY <1>1, <1>4, <4>1
        <4> QED BY <2>2, <3>1, <4>2 DEF old
      <3>3. CASE ~(k <= n)
        <4>1. k > n
          BY <1>1, <3>1, <3>3
        <4>2. k - n \in 1..more /\ all[k] = new[k - n]
          BY <1>4, <3>1, <4>1
        <4> QED BY <2>2, <3>1, <4>2
      <3> QED BY <3>2, <3>3
    <2> QED BY <2>1, <2>2
  <1>10. ASSUME NEW i \in DOMAIN m.info, NEW j \in DOMAIN m.info,
                NEW k \in DOMAIN w.info[i].blockNrs, NEW l \in DOMAIN w.info[j].blockNrs,
                w.info[i].blockNrs[k] = w.info[j].blockNrs[l]
         PROVE  i = j /\ k = l
    <2>1. CASE /\ k \in DOMAIN m.info[i].blockNrs /\ l \in DOMAIN m.info[j].blockNrs
               /\ w.info[i].blockNrs[k] = m.info[i].blockNrs[k]
               /\ w.info[j].blockNrs[l] = m.info[j].blockNrs[l]
      <3>1. m.info[i].blockNrs[k] = m.info[j].blockNrs[l]
        BY <1>10, <2>1
      <3> QED BY <2>1, <3>1 DEF Placed
    <2>2. CASE /\ i = id /\ k - n \in 1..more /\ w.info[i].blockNrs[k] = new[k - n]
               /\ j = id /\ l - n \in 1..more /\ w.info[j].blockNrs[l] = new[l - n]
               /\ k \in 1..(n + more) /\ l \in 1..(n + more)
      <3>1. new[k - n] = new[l - n] /\ new[k - n] \in Nat
        BY <1>2, <1>10, <2>2
      <3>2. \A i1, i2 \in 1..more : i1 < i2 => new[i1] < new[i2]
        BY <1>2
      <3>3. ~(k - n < l - n) /\ ~(l - n < k - n)
        BY <2>2, <3>1, <3>2
      <3> QED BY <1>1, <2>2, <3>3
    <2> QED BY <1>8, <1>9, <1>10, <2>1, <2>2
  <1>11. \A i \in DOMAIN w.info : Len(w.info[i].blockNrs) = NrBlocks(w.info[i].fsize)
    BY DEF Placed, IsExtended
  <1>12. ASSUME NEW i \in DOMAIN m.info, NEW k \in DOMAIN w.info[i].blockNrs
         PROVE  /\ w.info[i].blockNrs[k] \in 1..(w.nrBlock - 1)
                /\ w.info[i].blockNrs[k] \notin w.freeBlocks
    <2>1. w.nrBlock = m.nrBlock + NrAppended(m, new)
      BY DEF IsExtended
    <2> DEFINE b == w.info[i].blockNrs[k]
    <2>2. CASE /\ k \in DOMAIN m.info[i].blockNrs
               /\ w.info[i].blockNrs[k] = m.info[i].blockNrs[k]
      <3>1. b \in 1..(m.nrBlock - 1) /\ b \notin m.freeBlocks
        BY <1>8, <2>2
      <3> HIDE DEF b
      <3>2. b \in 1..(w.nrBlock - 1)
        BY <1>2, <1>5, <2>1, <3>1
      <3>3. b \notin w.freeBlocks
        BY <1>6, <3>1
      <3> QED BY <3>2, <3>3 DEF b
    <2>3. CASE k - n \in 1..more /\ w.info[i].blockNrs[k] = new[k - n]
      <3>1. b \in 1..MaxBlocks /\ b < m.nrBlock + NrAppended(m, new)
        BY <1>2, <2>3
      <3>2. b \notin w.freeBlocks
        BY <1>6, <2>3
      <3> HIDE DEF b
      <3>3. b \in 1..(w.nrBlock - 1)
        BY <1>2, <1>5, <2>1, <3>1
      <3> QED BY <3>2, <3>3 DEF b
    <2> QED BY <1>9, <2>2, <2>3
  <1>13. w.freeBlocks \subseteq 1..(w.nrBlock - 1)
    BY <1>2, <1>5, <1>6 DEF Placed, IsExtended
  <1>14. ASSUME NEW b \in 1..(w.nrBlock - 1)
         PROVE  \/ b \in w.freeBlocks
                \/ \E i \in DOMAIN w.info : \E k \in DOMAIN w.info[i].blockNrs :
                        w.info[i].blockNrs[k] = b
    <2>1. CASE \E l \in 1..more : new[l] = b
      <3>1. PICK l \in 1..more : new[l] = b
        BY <2>1
      <3>2. n + l \in DOMAIN all /\ all[n + l] = b
        BY <1>1, <1>4, <3>1 DEF n, old
      <3> QED BY <3>2 DEF IsExtended, all
    <2>2. CASE b \in m.freeBlocks
      BY <1>6, <2>1, <2>2
    <2>3. CASE b \in 1..(m.nrBlock - 1) /\ b \notin m.freeBlocks
      <3>1. PICK i \in DOMAIN m.info : \E k \in DOMAIN m.info[i].blockNrs :
                    m.info[i].blockNrs[k] = b
        BY <2>3 DEF Placed
      <3>2. PICK k \in DOMAIN m.info[i].blockNrs : m.info[i].blockNrs[k] = b
        BY <3>1
      <3>3. CASE i # id
        BY <1>7, <3>2, <3>3 DEF IsExtended
      <3>4. CASE i = id
        <4>1. k \in DOMAIN old /\ old[k] = b
          BY <3>2, <3>4 DEF old
        <4>2. k \in 1..n
          BY <1>1, <4>1
        <4>3. k \in DOMAIN all /\ all[k] = b
          BY <1>1, <1>4, <4>1, <4>2
        <4> QED BY <3>4, <4>3 DEF IsExtended, all
      <3> QED BY <3>3, <3>4
    <2>4. b \in m.nrBlock..(m.nrBlock + NrAppended(m, new) - 1) \/ b \in 1..(m.nrBlock - 1)
      <3>1. w.nrBlock = m.nrBlock + NrAppended(m, new)
        BY DEF IsExtended
      <3> QED BY <1>2, <1>5, <1>14, <3>1
    <2> QED BY <1>2, <2>1, <2>2, <2>3, <2>4
  <1> QED BY <1>10, <1>11, <1>12, <1>13, <1>14 DEF Placed, IsExtended

-----------------------------------------------------------------------------
(* The buffer of a virtual file and its blocks in the file.                  *)

DiskValue == {d \in Seq(Block) : Len(d) <= MaxBlocks}

LEMMA DiskFields ==
    ASSUME NEW d \in DiskValue
    PROVE  /\ d \in Seq(Block) /\ Len(d) \in 0..MaxBlocks /\ DOMAIN d = 1..Len(d)
           /\ \A i \in 1..Len(d) : d[i] \in Block
  <1>1. d \in Seq(Block) /\ Len(d) <= MaxBlocks
    BY DEF DiskValue
  <1> QED BY <1>1, MultiFileAssumption, LenProperties, ElementOfSeq

LEMMA DiskPutIs ==
    ASSUME NEW d \in DiskValue, NEW b \in 1..MaxBlocks, NEW block \in Block
    PROVE  /\ DiskPut(d, b, block) \in DiskValue
           /\ Len(DiskPut(d, b, block)) = Greater(Len(d), b)
           /\ Len(d) <= Len(DiskPut(d, b, block)) /\ b <= Len(DiskPut(d, b, block))
           /\ DiskPut(d, b, block)[b] = block
           /\ \A i \in 1..Len(d) : i # b => DiskPut(d, b, block)[i] = d[i]
  <1>1. Greater(Len(d), b) \in 1..MaxBlocks
        /\ Len(d) <= Greater(Len(d), b) /\ b <= Greater(Len(d), b)
    BY DiskFields DEF Greater
  <1>2. ASSUME NEW i \in 1..Greater(Len(d), b)
        PROVE  (IF i = b THEN block ELSE IF i <= Len(d) THEN d[i] ELSE ZeroBlock) \in Block
    <2>1. ZeroBlock \in Block
      BY DEF ZeroBlock, Block
    <2> QED BY <2>1, DiskFields
  <1>3. DiskPut(d, b, block) \in [1..Greater(Len(d), b) -> Block]
    BY <1>2 DEF DiskPut
  <1>4. DiskPut(d, b, block) \in Seq(Block) /\ Len(DiskPut(d, b, block)) = Greater(Len(d), b)
    BY <1>1, <1>3
  <1>5. \A i \in 1..Len(d) : i \in 1..Greater(Len(d), b)
    BY <1>1, DiskFields
  <1>6. b \in 1..Greater(Len(d), b)
    BY <1>1
  <1>7. DiskPut(d, b, block)[b] = block
    BY <1>6 DEF DiskPut
  <1>8. \A i \in 1..Len(d) : i # b => DiskPut(d, b, block)[i] = d[i]
    BY <1>5, DiskFields DEF DiskPut
  <1> QED BY <1>1, <1>4, <1>7, <1>8 DEF DiskValue

\* Every block of a virtual file is in the file, or before the one in the
\* buffer that is still to be written.
ReachedTo(info, d, nr) ==
    \A k \in 1..nr :
        \/ info.blockNrs[k] <= Len(d)
        \/ info.dirty /\ info.blockNrs[k] <= info.blockNrs[info.curBlock + 1]

BufferPlaced(info) ==
    /\ info.curBlock < Len(info.blockNrs)
    /\ info.dirty => info.curBlock >= 0

\* Block b of a virtual file, from 0, and whether it is anywhere.
BlockAt(info, d, b) ==
    IF b = info.curBlock THEN info.data ELSE d[info.blockNrs[b + 1]]
Present(info, d, b) == b = info.curBlock \/ info.blockNrs[b + 1] <= Len(d)

BufferTrue(info, d) ==
    ~info.dirty /\ info.curBlock >= 0 =>
        info.data = d[info.blockNrs[info.curBlock + 1]]

LEMMA BufferedBlock ==
    ASSUME NEW info \in InfoValue, BufferPlaced(info), info.curBlock >= 0
    PROVE  /\ info.curBlock + 1 \in DOMAIN info.blockNrs
           /\ info.blockNrs[info.curBlock + 1] \in 1..MaxBlocks
  BY InfoFields, MultiFileAssumption DEF BufferPlaced

\* When the buffer is written, all blocks are in the file, and no block of
\* another virtual file has changed.
LEMMA FlushedIs ==
    ASSUME NEW info \in InfoValue, NEW d \in DiskValue, BufferPlaced(info)
    PROVE  /\ Flushed(info, d) \in DiskValue
           /\ Len(d) <= Len(Flushed(info, d))
           /\ \A x \in 1..Len(d) :
                (info.dirty => x # info.blockNrs[info.curBlock + 1]) =>
                    Flushed(info, d)[x] = d[x]
           /\ info.dirty => /\ Flushed(info, d)[info.blockNrs[info.curBlock + 1]] = info.data
                            /\ info.blockNrs[info.curBlock + 1] <= Len(Flushed(info, d))
           /\ \A nr \in 0..Len(info.blockNrs) : ReachedTo(info, d, nr) =>
                \A k \in 1..nr : info.blockNrs[k] <= Len(Flushed(info, d))
  <1> DEFINE phys == info.blockNrs[info.curBlock + 1]
  <1>1. CASE ~info.dirty
    <2>1. Flushed(info, d) = d
      BY <1>1 DEF Flushed
    <2> QED BY <1>1, <2>1, DiskFields DEF ReachedTo
  <1>2. CASE info.dirty
    <2>1. phys \in 1..MaxBlocks
      BY <1>2, BufferedBlock DEF BufferPlaced
    <2>2. Flushed(info, d) = DiskPut(d, phys, info.data) /\ info.data \in Block
      BY <1>2, InfoFields DEF Flushed
    <2> HIDE DEF phys
    <2> DEFINE w == DiskPut(d, phys, info.data)
    <2>3. /\ w \in DiskValue /\ Len(d) <= Len(w) /\ phys <= Len(w) /\ w[phys] = info.data
          /\ \A i \in 1..Len(d) : i # phys => w[i] = d[i]
      BY <2>1, <2>2, DiskPutIs
    <2>4. Len(w) \in Nat /\ Len(d) \in Nat
      BY <2>3, DiskFields
    <2> HIDE DEF w
    <2>5. ASSUME NEW nr \in 0..Len(info.blockNrs), ReachedTo(info, d, nr), NEW k \in 1..nr
          PROVE  info.blockNrs[k] <= Len(w)
      <3>1. k \in DOMAIN info.blockNrs
        BY <2>5, InfoFields
      <3>2. info.blockNrs[k] \in Nat
        BY <3>1, InfoFields
      <3>3. info.blockNrs[k] <= Len(d) \/ info.blockNrs[k] <= phys
        BY <2>5 DEF ReachedTo, phys
      <3> QED BY <2>1, <2>3, <2>4, <3>2, <3>3
    <2>6. Flushed(info, d) = w
      BY <2>2 DEF w
    <2>7. /\ \A x \in 1..Len(d) :
                (info.dirty => x # info.blockNrs[info.curBlock + 1]) => w[x] = d[x]
          /\ w[info.blockNrs[info.curBlock + 1]] = info.data
          /\ info.blockNrs[info.curBlock + 1] <= Len(w)
      BY <1>2, <2>3 DEF phys
    <2> QED BY <2>3, <2>5, <2>6, <2>7
  <1> QED BY <1>1, <1>2

\* With another block in its buffer.
IsLoaded(new, info, b, block) ==
    /\ new \in InfoValue
    /\ new.name = info.name /\ new.blockNrs = info.blockNrs /\ new.fsize = info.fsize
    /\ new.curBlock = b /\ new.data = block

LEMMA LoadedIs ==
    ASSUME NEW info \in InfoValue, NEW b \in 0..(MaxSize - 1), NEW block \in Block
    PROVE  /\ IsLoaded(Loaded(info, b, block, TRUE), info, b, block)
           /\ Loaded(info, b, block, TRUE).dirty
           /\ IsLoaded(Loaded(info, b, block, FALSE), info, b, block)
           /\ ~Loaded(info, b, block, FALSE).dirty
  <1>1. /\ info.name \in Names \cup {None} /\ info.blockNrs \in Seq(1..MaxBlocks)
        /\ info.fsize \in 0..MaxSize /\ b \in -1..(MaxSize - 1)
    BY InfoFields, MultiFileAssumption
  <1>2. Loaded(info, b, block, TRUE) \in InfoValue
    BY <1>1 DEF Loaded, InfoValue
  <1>3. Loaded(info, b, block, FALSE) \in InfoValue
    BY <1>1 DEF Loaded, InfoValue
  <1> QED BY <1>2, <1>3 DEF Loaded, IsLoaded

-----------------------------------------------------------------------------
(* One turn of a loop over the blocks of a virtual file.                     *)

\* No block twice.
OneByOne(nrs) == \A k, l \in DOMAIN nrs : nrs[k] = nrs[l] => k = l

\* What holds of the buffer and the file between two turns: it is still the
\* same virtual file, and its first nr blocks can be read.
TurnOk(info, d, of, nr) ==
    /\ info \in InfoValue /\ d \in DiskValue
    /\ info.name = of.name /\ info.blockNrs = of.blockNrs /\ info.fsize = of.fsize
    /\ BufferPlaced(info) /\ (info.dirty \/ info.curBlock < nr)
    /\ ReachedTo(info, d, nr)

\* A turn at block b changes neither other virtual files nor other blocks.
KeepsOthers(info, d, info2, d2, b) ==
    /\ Len(d) <= Len(d2)
    /\ \A x \in 1..Len(d) :
            (\A k \in DOMAIN info.blockNrs : info.blockNrs[k] # x) => d2[x] = d[x]
    /\ \A a \in 0..(Len(info.blockNrs) - 1) : Present(info, d, a) => Present(info2, d2, a)
    /\ BufferTrue(info, d) =>
            /\ BufferTrue(info2, d2)
            /\ \A a \in 0..(Len(info.blockNrs) - 1) :
                    a # b /\ Present(info, d, a) =>
                        BlockAt(info2, d2, a) = BlockAt(info, d, a)

LEMMA BlockNumbers ==
    ASSUME NEW info \in InfoValue, NEW a \in 0..(Len(info.blockNrs) - 1)
    PROVE  a + 1 \in DOMAIN info.blockNrs /\ info.blockNrs[a + 1] \in 1..MaxBlocks
  <1>1. Len(info.blockNrs) \in Nat /\ DOMAIN info.blockNrs = 1..Len(info.blockNrs)
    BY InfoFields
  <1>2. a + 1 \in DOMAIN info.blockNrs
    BY <1>1
  <1> QED BY <1>2, InfoFields

\* Another block comes into the buffer.
LEMMA LoadedTurn ==
    ASSUME NEW info, NEW d, NEW of, NEW nr \in 0..Len(of.blockNrs), TurnOk(info, d, of, nr),
           OneByOne(of.blockNrs), NEW b \in 0..(Len(of.blockNrs) - 1), b < MaxSize,
           b # info.curBlock, NEW new, NEW block \in Block, IsLoaded(new, info, b, block),
           new.dirty \/ (b < nr /\ block = Flushed(info, d)[of.blockNrs[b + 1]])
    PROVE  /\ TurnOk(new, Flushed(info, d), of, nr)
           /\ KeepsOthers(info, d, new, Flushed(info, d), b)
           /\ b < nr => of.blockNrs[b + 1] <= Len(Flushed(info, d))
           /\ Present(info, d, b) =>
                Flushed(info, d)[of.blockNrs[b + 1]] = BlockAt(info, d, b)
  <1> DEFINE w == Flushed(info, d)
             nrs == of.blockNrs
             cur == info.curBlock
  <1>1. /\ info \in InfoValue /\ d \in DiskValue /\ info.blockNrs = nrs
        /\ info.name = of.name /\ info.fsize = of.fsize
        /\ BufferPlaced(info) /\ ReachedTo(info, d, nr) /\ (info.dirty \/ cur < nr)
    BY DEF TurnOk
  <1>2. /\ new \in InfoValue /\ new.name = of.name /\ new.blockNrs = nrs
        /\ new.fsize = of.fsize /\ new.curBlock = b /\ new.data = block
    BY <1>1 DEF IsLoaded
  <1>3. /\ w \in DiskValue /\ Len(d) <= Len(w)
        /\ \A x \in 1..Len(d) : (info.dirty => x # nrs[cur + 1]) => w[x] = d[x]
        /\ info.dirty => w[nrs[cur + 1]] = info.data /\ nrs[cur + 1] <= Len(w)
        /\ \A k \in 1..nr : nrs[k] <= Len(w)
    BY <1>1, FlushedIs
  <1>4. /\ Len(d) \in Nat /\ Len(w) \in Nat /\ Len(nrs) \in Nat /\ cur \in -1..(MaxSize - 1)
        /\ DOMAIN nrs = 1..Len(nrs)
        /\ \A a \in 0..(Len(nrs) - 1) : a + 1 \in DOMAIN nrs /\ nrs[a + 1] \in 1..MaxBlocks
        /\ cur < Len(nrs) /\ (info.dirty => cur >= 0)
    BY <1>1, <1>3, BlockNumbers, InfoFields, DiskFields DEF BufferPlaced
  <1> HIDE DEF w, nrs, cur
  <1>5. ASSUME NEW a \in 0..(Len(nrs) - 1), info.dirty, a # cur
        PROVE  nrs[a + 1] # nrs[cur + 1]
    <2>1. a + 1 \in DOMAIN nrs
      BY <1>4
    <2>2. cur \in 0..(Len(nrs) - 1) /\ a + 1 # cur + 1
      BY <1>4, <1>5
    <2>3. cur + 1 \in DOMAIN nrs
      BY <1>4, <2>2
    <2> QED BY <2>1, <2>2, <2>3 DEF OneByOne, nrs
  <1>6. \A k \in 1..nr : nrs[k] <= Len(w)
    BY <1>3
  <1>7. BufferPlaced(new)
    BY <1>1, <1>2, <1>4 DEF BufferPlaced, nrs
  <1>8. ReachedTo(new, w, nr)
    BY <1>2, <1>6 DEF ReachedTo
  <1>9. TurnOk(new, w, of, nr)
    BY <1>2, <1>3, <1>7, <1>8 DEF TurnOk, nrs
  <1>10. b < nr => nrs[b + 1] <= Len(w)
    BY <1>4, <1>6 DEF nrs
  <1>11. BufferTrue(new, w)
    BY <1>2, <1>10 DEF BufferTrue, w, nrs
  \* What was in the buffer is in the file now.
  <1>12. ASSUME NEW a \in 0..(Len(nrs) - 1), Present(info, d, a), a # cur
         PROVE  nrs[a + 1] <= Len(w) /\ w[nrs[a + 1]] = BlockAt(info, d, a)
    <2>1. nrs[a + 1] <= Len(d)
      BY <1>1, <1>12 DEF Present, cur
    <2>2. nrs[a + 1] \in 1..Len(d) /\ (info.dirty => nrs[a + 1] # nrs[cur + 1])
      BY <1>4, <1>5, <1>12, <2>1
    <2>3. w[nrs[a + 1]] = d[nrs[a + 1]]
      BY <1>3, <2>2
    <2>4. nrs[a + 1] <= Len(w)
      BY <1>3, <1>4, <2>2
    <2> QED BY <1>1, <1>12, <2>3, <2>4 DEF BlockAt, cur
  <1>13. ASSUME NEW a \in 0..(Len(nrs) - 1), a = cur
         PROVE  /\ nrs[a + 1] <= Len(w)
                /\ BufferTrue(info, d) => w[nrs[a + 1]] = BlockAt(info, d, a)
    <2>1. CASE info.dirty
      BY <1>3, <1>13, <2>1 DEF BlockAt, cur
    <2>2. CASE ~info.dirty
      <3>1. cur + 1 \in 1..nr
        BY <1>1, <1>4, <1>13, <2>2 DEF nrs
      <3>2. nrs[cur + 1] <= Len(d)
        BY <1>1, <2>2, <3>1 DEF ReachedTo
      <3>3. nrs[cur + 1] \in 1..Len(d)
        BY <1>4, <1>13, <3>2
      <3>4. w[nrs[cur + 1]] = d[nrs[cur + 1]]
        BY <1>3, <2>2, <3>3
      <3>5. nrs[cur + 1] <= Len(w)
        BY <1>6, <3>1
      <3>6. BufferTrue(info, d) => info.data = d[nrs[cur + 1]]
        BY <1>1, <1>13, <2>2 DEF BufferTrue, cur
      <3> QED BY <1>13, <3>4, <3>5, <3>6 DEF BlockAt, cur
    <2> QED BY <1>1, <2>1, <2>2, InfoFields
  <1>14. KeepsOthers(info, d, new, w, b)
    <2>1. ASSUME NEW x \in 1..Len(d), \A k \in DOMAIN info.blockNrs : info.blockNrs[k] # x
          PROVE  w[x] = d[x]
      <3>1. ASSUME info.dirty
            PROVE  x # nrs[cur + 1]
        <4>1. cur \in 0..(Len(nrs) - 1)
          BY <1>4, <3>1
        <4>2. cur + 1 \in DOMAIN info.blockNrs
          BY <1>1, <1>4, <4>1
        <4> QED BY <1>1, <2>1, <4>2
      <3> QED BY <1>3, <3>1
    <2>2. ASSUME NEW a \in 0..(Len(nrs) - 1), Present(info, d, a)
          PROVE  Present(new, w, a)
      BY <1>2, <1>12, <1>13, <2>2 DEF Present
    <2>3. ASSUME NEW a \in 0..(Len(nrs) - 1), Present(info, d, a), a # b, BufferTrue(info, d)
          PROVE  BlockAt(new, w, a) = BlockAt(info, d, a)
      BY <1>2, <1>12, <1>13, <2>3 DEF BlockAt
    <2> QED BY <1>1, <1>3, <1>11, <2>1, <2>2, <2>3 DEF KeepsOthers
  <1>15. b \in 0..(Len(nrs) - 1) /\ b # cur
    BY DEF nrs, cur
  <1> QED BY <1>9, <1>10, <1>12, <1>14, <1>15 DEF w, nrs

\* The block in the buffer is overwritten there.
LEMMA BufferedTurn ==
    ASSUME NEW info, NEW d, NEW of, NEW nr \in 0..Len(of.blockNrs), TurnOk(info, d, of, nr),
           NEW b, b = info.curBlock, b >= 0, NEW new, NEW block,
           IsLoaded(new, info, b, block), new.dirty
    PROVE  TurnOk(new, d, of, nr) /\ KeepsOthers(info, d, new, d, b)
  <1>1. /\ info \in InfoValue /\ d \in DiskValue /\ info.blockNrs = of.blockNrs
        /\ info.name = of.name /\ info.fsize = of.fsize
        /\ BufferPlaced(info) /\ ReachedTo(info, d, nr)
    BY DEF TurnOk
  <1>2. /\ new \in InfoValue /\ new.name = of.name /\ new.blockNrs = of.blockNrs
        /\ new.fsize = of.fsize /\ new.curBlock = b /\ new.data = block
    BY <1>1 DEF IsLoaded
  <1>3. BufferPlaced(new)
    BY <1>1, <1>2 DEF BufferPlaced
  <1>4. ReachedTo(new, d, nr)
    BY <1>1, <1>2 DEF ReachedTo
  <1>5. TurnOk(new, d, of, nr)
    BY <1>1, <1>2, <1>3, <1>4 DEF TurnOk
  <1>6. KeepsOthers(info, d, new, d, b)
    BY <1>1, <1>2, DiskFields DEF KeepsOthers, BufferTrue, BlockAt, Present
  <1> QED BY <1>5, <1>6

\* A block is written straight to the file.
LEMMA DirectTurn ==
    ASSUME NEW info, NEW d, NEW of, NEW nr \in 0..Len(of.blockNrs), TurnOk(info, d, of, nr),
           OneByOne(of.blockNrs), NEW b \in 0..(Len(of.blockNrs) - 1), b # info.curBlock,
           NEW block \in Block
    PROVE  /\ TurnOk(info, DiskPut(d, of.blockNrs[b + 1], block), of, nr)
           /\ KeepsOthers(info, d, info, DiskPut(d, of.blockNrs[b + 1], block), b)
           /\ BlockAt(info, DiskPut(d, of.blockNrs[b + 1], block), b) = block
           /\ of.blockNrs[b + 1] <= Len(DiskPut(d, of.blockNrs[b + 1], block))
  <1> DEFINE nrs == of.blockNrs
             cur == info.curBlock
             w == DiskPut(d, nrs[b + 1], block)
  <1>1. /\ info \in InfoValue /\ d \in DiskValue /\ info.blockNrs = nrs
        /\ info.name = of.name /\ info.fsize = of.fsize
        /\ BufferPlaced(info) /\ ReachedTo(info, d, nr) /\ (info.dirty \/ cur < nr)
    BY DEF TurnOk
  <1>2. /\ Len(d) \in Nat /\ Len(nrs) \in Nat /\ cur \in -1..(MaxSize - 1)
        /\ DOMAIN nrs = 1..Len(nrs)
        /\ \A a \in 0..(Len(nrs) - 1) : a + 1 \in DOMAIN nrs /\ nrs[a + 1] \in 1..MaxBlocks
        /\ cur < Len(nrs)
    BY <1>1, BlockNumbers, InfoFields, DiskFields DEF BufferPlaced
  <1>3. nrs[b + 1] \in 1..MaxBlocks
    BY <1>2
  <1>4. /\ w \in DiskValue /\ Len(d) <= Len(w) /\ nrs[b + 1] <= Len(w) /\ w[nrs[b + 1]] = block
        /\ \A x \in 1..Len(d) : x # nrs[b + 1] => w[x] = d[x]
    BY <1>1, <1>3, DiskPutIs
  <1>5. Len(w) \in Nat
    BY <1>4, DiskFields
  <1> HIDE DEF w
  <1>6. ASSUME NEW a \in 0..(Len(nrs) - 1), a # b
        PROVE  nrs[a + 1] # nrs[b + 1]
    <2>1. a + 1 \in DOMAIN nrs /\ b + 1 \in DOMAIN nrs
      BY <1>2
    <2>2. a + 1 # b + 1
      BY <1>2, <1>6
    <2> QED BY <2>1, <2>2 DEF OneByOne
  <1>7. ReachedTo(info, w, nr)
    <2>1. ASSUME NEW k \in 1..nr, nrs[k] <= Len(d)
          PROVE  nrs[k] <= Len(w)
      <3>1. k \in DOMAIN nrs
        BY <1>2
      <3>2. nrs[k] \in Nat
        BY <1>1, <3>1, InfoFields
      <3> QED BY <1>2, <1>4, <1>5, <2>1, <3>2
    <2> QED BY <1>1, <2>1 DEF ReachedTo
  <1>8. TurnOk(info, w, of, nr)
    BY <1>1, <1>4, <1>7 DEF TurnOk
  <1>9. ASSUME NEW x \in 1..Len(d), \A k \in DOMAIN info.blockNrs : info.blockNrs[k] # x
        PROVE  w[x] = d[x]
    BY <1>1, <1>2, <1>4, <1>9
  <1>10. ASSUME NEW a \in 0..(Len(nrs) - 1), Present(info, d, a)
         PROVE  Present(info, w, a)
    <2>1. nrs[a + 1] \in Nat
      BY <1>2
    <2> QED BY <1>1, <1>2, <1>4, <1>5, <1>10, <2>1 DEF Present
  <1>11. ASSUME NEW a \in 0..(Len(nrs) - 1), nrs[a + 1] <= Len(d), a # b
         PROVE  w[nrs[a + 1]] = d[nrs[a + 1]]
    <2>1. nrs[a + 1] # nrs[b + 1]
      BY <1>6, <1>11
    <2>2. nrs[a + 1] \in 1..Len(d)
      BY <1>2, <1>11
    <2> QED BY <1>4, <2>1, <2>2
  <1>12. ASSUME NEW a \in 0..(Len(nrs) - 1), Present(info, d, a), a # b
         PROVE  BlockAt(info, w, a) = BlockAt(info, d, a)
    BY <1>1, <1>11, <1>12 DEF BlockAt, Present
  <1>13. ASSUME BufferTrue(info, d)
         PROVE  BufferTrue(info, w)
    <2> SUFFICES ASSUME ~info.dirty, cur >= 0
                 PROVE  w[nrs[cur + 1]] = d[nrs[cur + 1]]
      BY <1>1, <1>13 DEF BufferTrue
    <2>1. cur + 1 \in 1..nr
      BY <1>1, <1>2
    <2>2. nrs[cur + 1] <= Len(d)
      BY <1>1, <2>1 DEF ReachedTo
    <2>3. cur \in 0..(Len(nrs) - 1)
      BY <1>2
    <2> QED BY <1>11, <2>2, <2>3
  <1>14. KeepsOthers(info, d, info, w, b)
    BY <1>1, <1>4, <1>9, <1>10, <1>12, <1>13 DEF KeepsOthers
  <1>15. BlockAt(info, w, b) = block
    BY <1>1, <1>4 DEF BlockAt
  <1> QED BY <1>4, <1>8, <1>14, <1>15 DEF w

\* What one turn of write at block b makes of s: the block is somewhere to be
\* read, and has the value where the range covers it, and what it had elsewhere.
PutsBlock(s, t, of, nrold, offset, size, value, b) ==
    /\ TurnOk(t.info, t.disk, of, nrold)
    /\ KeepsOthers(s.info, s.disk, t.info, t.disk, b)
    /\ \/ of.blockNrs[b + 1] <= Len(t.disk)
       \/ t.info.dirty /\ t.info.curBlock = b
    /\ \A c \in Offsets :
        /\ Covers(offset, size, b, c) => BlockAt(t.info, t.disk, b)[c] = value
        /\ ~Covers(offset, size, b, c) /\ b < nrold /\ Present(s.info, s.disk, b) =>
                BlockAt(t.info, t.disk, b)[c] = BlockAt(s.info, s.disk, b)[c]

LEMMA PutTurn ==
    ASSUME NEW s, NEW of, NEW nrold \in 0..Len(of.blockNrs),
           TurnOk(s.info, s.disk, of, nrold), OneByOne(of.blockNrs),
           NEW offset, NEW size, NEW value \in Values,
           NEW b \in 0..(Len(of.blockNrs) - 1), b < MaxSize
    PROVE  PutsBlock(s, PutBlock(s, nrold, offset, size, value, b), of, nrold,
                     offset, size, value, b)
  <1> DEFINE t == PutBlock(s, nrold, offset, size, value, b)
             phys == of.blockNrs[b + 1]
             put(block) == [c \in Offsets |-> IF Covers(offset, size, b, c) THEN value
                                              ELSE block[c]]
             written == Flushed(s.info, s.disk)
             old == IF b >= nrold THEN ZeroBlock ELSE written[phys]
  <1>1. /\ s.info \in InfoValue /\ s.disk \in DiskValue /\ s.info.blockNrs = of.blockNrs
        /\ s.info.data \in Block /\ s.info.curBlock \in -1..(MaxSize - 1)
        /\ Len(of.blockNrs) \in Nat /\ b \in 0..(MaxSize - 1) /\ b >= 0
    <2>1. s.info \in InfoValue /\ s.disk \in DiskValue /\ s.info.blockNrs = of.blockNrs
      BY DEF TurnOk
    <2>2. /\ s.info.data \in Block /\ s.info.curBlock \in -1..(MaxSize - 1)
          /\ Len(of.blockNrs) \in Nat
      BY <2>1, InfoFields
    <2> QED BY <2>1, <2>2, MultiFileAssumption
  <1>2. ZeroBlock \in Block
    BY DEF ZeroBlock, Block
  <1>3. ASSUME NEW block \in Block
        PROVE  put(block) \in Block
    BY DEF Block
  <1>4. CASE b = s.info.curBlock
    <2> DEFINE full == put(s.info.data)
    <2>1. t.info = Loaded(s.info, b, full, TRUE) /\ t.disk = s.disk
      BY <1>4 DEF PutBlock
    <2>2. full \in Block
      BY <1>1, <1>3
    <2>3. \A c \in Offsets : full[c] = IF Covers(offset, size, b, c) THEN value
                                       ELSE s.info.data[c]
      OBVIOUS
    <2> HIDE DEF full, put, t
    <2>4. IsLoaded(t.info, s.info, b, full) /\ t.info.dirty
      <3>1. IsLoaded(Loaded(s.info, b, full, TRUE), s.info, b, full)
            /\ Loaded(s.info, b, full, TRUE).dirty
        BY <1>1, <2>2, LoadedIs
      <3> QED BY <2>1, <3>1
    <2>5. TurnOk(t.info, t.disk, of, nrold) /\ KeepsOthers(s.info, s.disk, t.info, t.disk, b)
      BY <1>1, <1>4, <2>1, <2>4, BufferedTurn
    <2>6. t.info.curBlock = b /\ BlockAt(t.info, t.disk, b) = full
          /\ BlockAt(s.info, s.disk, b) = s.info.data
      BY <1>4, <2>4 DEF BlockAt, IsLoaded
    <2> QED BY <2>3, <2>4, <2>5, <2>6 DEF PutsBlock, t
  <1>5. CASE b # s.info.curBlock /\ IsWhole(offset, size, b) /\ ~UseODirect
    <2>1. t = [info |-> s.info, disk |-> DiskPut(s.disk, phys, put(ZeroBlock))]
      BY <1>1, <1>5 DEF PutBlock
    <2>2. put(ZeroBlock) \in Block
      BY <1>2, <1>3
    <2>3. /\ TurnOk(s.info, DiskPut(s.disk, phys, put(ZeroBlock)), of, nrold)
          /\ KeepsOthers(s.info, s.disk, s.info, DiskPut(s.disk, phys, put(ZeroBlock)), b)
          /\ BlockAt(s.info, DiskPut(s.disk, phys, put(ZeroBlock)), b) = put(ZeroBlock)
          /\ phys <= Len(DiskPut(s.disk, phys, put(ZeroBlock)))
      <3> HIDE DEF put
      <3> QED BY <1>5, <2>2, DirectTurn
    <2>4. \A c \in Offsets : Covers(offset, size, b, c)
      BY <1>5 DEF IsWhole
    <2>5. \A c \in Offsets : put(ZeroBlock)[c] = value
      BY <2>4
    <2> HIDE DEF put
    <2> QED BY <2>1, <2>3, <2>4, <2>5 DEF PutsBlock
  <1>6. CASE b # s.info.curBlock /\ ~(IsWhole(offset, size, b) /\ ~UseODirect)
    <2> DEFINE full == put(old)
    <2>1. t.info = Loaded(s.info, b, full, TRUE) /\ t.disk = written
      BY <1>1, <1>6 DEF PutBlock
    <2>2. b < nrold => phys <= Len(written)
      <3>1. \A k \in 1..nrold : of.blockNrs[k] <= Len(written)
        BY <1>1, FlushedIs DEF TurnOk
      <3>2. b < nrold => b + 1 \in 1..nrold
        BY <1>1
      <3> QED BY <3>1, <3>2
    <2>3. written \in DiskValue /\ phys \in 1..MaxBlocks
      <3>1. written \in DiskValue
        BY <1>1, FlushedIs DEF TurnOk
      <3> QED BY <1>1, <3>1, BlockNumbers
    <2>4. b < nrold => old = written[phys]
      OBVIOUS
    <2>5. b >= nrold => old = ZeroBlock
      OBVIOUS
    <2>6. \A c \in Offsets : full[c] = IF Covers(offset, size, b, c) THEN value ELSE old[c]
      OBVIOUS
    <2> HIDE DEF written, phys, old
    <2>7. old \in Block
      <3>1. b < nrold => phys \in 1..Len(written)
        BY <2>2, <2>3, DiskFields
      <3> QED BY <1>2, <2>3, <2>4, <2>5, <3>1, DiskFields
    <2>8. full \in Block
      BY <1>3, <2>7
    <2> HIDE DEF put, full, t
    <2>9. IsLoaded(t.info, s.info, b, full) /\ t.info.dirty
      <3>1. IsLoaded(Loaded(s.info, b, full, TRUE), s.info, b, full)
            /\ Loaded(s.info, b, full, TRUE).dirty
        BY <1>1, <2>8, LoadedIs
      <3> QED BY <2>1, <3>1
    <2>10. /\ TurnOk(t.info, t.disk, of, nrold)
           /\ KeepsOthers(s.info, s.disk, t.info, t.disk, b)
           /\ Present(s.info, s.disk, b) => written[phys] = BlockAt(s.info, s.disk, b)
      <3>1. t.disk = Flushed(s.info, s.disk) /\ b # s.info.curBlock
        BY <1>6, <2>1 DEF written
      <3>2. /\ TurnOk(t.info, Flushed(s.info, s.disk), of, nrold)
            /\ KeepsOthers(s.info, s.disk, t.info, Flushed(s.info, s.disk), b)
            /\ Present(s.info, s.disk, b) =>
                Flushed(s.info, s.disk)[of.blockNrs[b + 1]] = BlockAt(s.info, s.disk, b)
        BY <2>8, <2>9, <3>1, LoadedTurn
      <3> QED BY <3>1, <3>2 DEF written, phys
    <2>11. t.info.curBlock = b /\ BlockAt(t.info, t.disk, b) = full
      BY <2>9 DEF BlockAt, IsLoaded
    <2>12. ASSUME NEW c \in Offsets
           PROVE  /\ Covers(offset, size, b, c) => full[c] = value
                  /\ ~Covers(offset, size, b, c) /\ b < nrold /\ Present(s.info, s.disk, b) =>
                        full[c] = BlockAt(s.info, s.disk, b)[c]
      <3>1. Covers(offset, size, b, c) => full[c] = value
        BY <2>6
      <3>2. ~Covers(offset, size, b, c) => full[c] = old[c]
        BY <2>6
      <3>3. b < nrold /\ Present(s.info, s.disk, b) => old = BlockAt(s.info, s.disk, b)
        BY <2>4, <2>10
      <3> QED BY <3>1, <3>2, <3>3
    <2> QED BY <2>9, <2>10, <2>11, <2>12 DEF PutsBlock, t
  <1> QED BY <1>4, <1>5, <1>6

\* The units of a block from c on.
UnitsOf(block, c, nr) == [i \in 1..nr |-> block[c + i - 1]]
Joined(q, r) == q \o r

\* What one turn of read at block b makes of s.
GetsBlock(s, t, of, offset, size, b) ==
    LET from == Greater(offset, b * BlockSize)
        todo == Lesser(offset + size, (b + 1) * BlockSize) - from
    IN  /\ TurnOk(t.info, t.disk, of, Len(of.blockNrs))
        /\ KeepsOthers(s.info, s.disk, t.info, t.disk, b)
        /\ t.info.dirty => s.info.dirty
        /\ Present(s.info, s.disk, b) =>
            /\ BlockAt(t.info, t.disk, b) = BlockAt(s.info, s.disk, b)
            /\ t.done = Joined(s.done, UnitsOf(BlockAt(s.info, s.disk, b),
                                              from - b * BlockSize, todo))

LEMMA GetTurn ==
    ASSUME NEW s, NEW of, TurnOk(s.info, s.disk, of, Len(of.blockNrs)),
           OneByOne(of.blockNrs), NEW offset, NEW size,
           NEW b \in 0..(Len(of.blockNrs) - 1), b < MaxSize
    PROVE  GetsBlock(s, GetBlock(s, offset, size, b), of, offset, size, b)
  <1> DEFINE t == GetBlock(s, offset, size, b)
             phys == of.blockNrs[b + 1]
             from == Greater(offset, b * BlockSize)
             todo == Lesser(offset + size, (b + 1) * BlockSize) - from
             got(block) == UnitsOf(block, from - b * BlockSize, todo)
             written == Flushed(s.info, s.disk)
             nr == Len(of.blockNrs)
  <1>1. /\ s.info \in InfoValue /\ s.disk \in DiskValue /\ s.info.blockNrs = of.blockNrs
        /\ s.info.data \in Block /\ s.info.curBlock \in -1..(MaxSize - 1)
        /\ nr \in Nat /\ nr \in 0..nr /\ b < nr /\ b \in 0..(MaxSize - 1)
    <2>1. s.info \in InfoValue /\ s.disk \in DiskValue /\ s.info.blockNrs = of.blockNrs
      BY DEF TurnOk
    <2>2. /\ s.info.data \in Block /\ s.info.curBlock \in -1..(MaxSize - 1)
          /\ Len(of.blockNrs) \in Nat
      BY <2>1, InfoFields
    <2> QED BY <2>1, <2>2, MultiFileAssumption
  <1>2. KeepsOthers(s.info, s.disk, s.info, s.disk, b)
    BY <1>1, DiskFields DEF KeepsOthers
  <1>3. CASE b = s.info.curBlock
    <2> DEFINE done == Joined(s.done, got(s.info.data))
    <2>1. t = [info |-> s.info, disk |-> s.disk, done |-> done]
      BY <1>3 DEF GetBlock, UnitsOf, Joined
    <2>2. BlockAt(s.info, s.disk, b) = s.info.data
      BY <1>3 DEF BlockAt
    <2> HIDE DEF t, done
    <2>3. t.info = s.info /\ t.disk = s.disk /\ t.done = done
      BY <2>1
    <2> QED BY <1>2, <2>2, <2>3 DEF GetsBlock, t, done
  <1>4. CASE b # s.info.curBlock /\ IsWhole(offset, size, b) /\ ~UseODirect
    <2> DEFINE done == Joined(s.done, got(s.disk[phys]))
    <2>1. t = [info |-> s.info, disk |-> s.disk, done |-> done]
      BY <1>1, <1>4 DEF GetBlock, UnitsOf, Joined
    <2>2. BlockAt(s.info, s.disk, b) = s.disk[phys]
      BY <1>1, <1>4 DEF BlockAt
    <2> HIDE DEF t, done
    <2>3. t.info = s.info /\ t.disk = s.disk /\ t.done = done
      BY <2>1
    <2> QED BY <1>2, <2>2, <2>3 DEF GetsBlock, t, done
  <1>5. CASE b # s.info.curBlock /\ ~(IsWhole(offset, size, b) /\ ~UseODirect)
    <2> DEFINE block == written[phys]
               done == Joined(s.done, got(block))
               new == Loaded(s.info, b, block, FALSE)
    <2>1. t = [info |-> new, disk |-> written, done |-> done]
      BY <1>1, <1>5 DEF GetBlock, UnitsOf, Joined
    <2> HIDE DEF t, done, new
    <2>2. t.info = new /\ t.disk = written /\ t.done = done
      BY <2>1
    <2>3. written \in DiskValue /\ phys <= Len(written) /\ phys \in 1..MaxBlocks
      <3>1. written \in DiskValue /\ \A k \in 1..nr : of.blockNrs[k] <= Len(written)
        BY <1>1, FlushedIs DEF TurnOk
      <3>2. b + 1 \in 1..nr
        BY <1>1
      <3> QED BY <1>1, <3>1, <3>2, BlockNumbers
    <2> HIDE DEF written, phys
    <2>4. block \in Block
      BY <2>3, DiskFields
    <2> HIDE DEF block
    <2>5. IsLoaded(new, s.info, b, block) /\ ~new.dirty
      BY <1>1, <2>4, LoadedIs DEF new
    <2>6. /\ TurnOk(new, written, of, nr)
          /\ KeepsOthers(s.info, s.disk, new, written, b)
          /\ Present(s.info, s.disk, b) => block = BlockAt(s.info, s.disk, b)
      BY <1>1, <1>5, <2>4, <2>5, LoadedTurn DEF block, written, phys
    <2>7. BlockAt(new, written, b) = block
      BY <2>5 DEF BlockAt, IsLoaded
    <2> QED BY <2>2, <2>5, <2>6, <2>7 DEF GetsBlock, t, done
  <1> QED BY <1>3, <1>4, <1>5

-----------------------------------------------------------------------------
(* The loop of write.                                                       *)

\* after is what the turns make of start.
PutRuns(after, n, start, nrold, offset, size, value) ==
    /\ after[0] = start
    /\ \A k \in 1..n : after[k] = PutBlock(after[k - 1], nrold, offset, size, value,
                                           FirstBlock(offset) + k - 1)

PutStart(m, id) == [info |-> m.info[id], disk |-> disk]

LEMMA PutIs ==
    ASSUME NEW m, NEW id, NEW offset, NEW size, NEW value, NrTurns(offset, size) \in Nat
    PROVE  \E after :
            /\ PutRuns(after, NrTurns(offset, size), PutStart(m, id),
                       NrBlocks(mem[holder].info[id].fsize), offset, size, value)
            /\ Put(m, id, offset, size, value) = after[NrTurns(offset, size)]
  <1> DEFINE n == NrTurns(offset, size)
             start == PutStart(m, id)
             nrold == NrBlocks(mem[holder].info[id].fsize)
             step(s, k) == PutBlock(s, nrold, offset, size, value, FirstBlock(offset) + k - 1)
             turns(f, j) == [k \in 0..j |-> IF k = 0 THEN start ELSE step(f[k - 1], k)]
             T == {j \in Nat : \E f : f = turns(f, j)}
  <1>1. n \in Nat
    OBVIOUS
  <1>2. Put(m, id, offset, size, value) = (CHOOSE f : f = turns(f, n))[n]
    BY DEF Put, PutStart
  <1> HIDE DEF n, start, step
  <1>3. 0 \in T
    <2>1. turns([k \in 0..0 |-> start], 0) = [k \in 0..0 |-> start]
      OBVIOUS
    <2> QED BY <2>1
  <1>4. ASSUME NEW j \in Nat, j \in T
        PROVE  j + 1 \in T
    <2>1. PICK f : f = turns(f, j)
      BY <1>4
    <2> DEFINE g == turns(f, j + 1)
    <2>2. ASSUME NEW k \in 0..j
          PROVE  g[k] = f[k]
      BY <2>1, <2>2
    <2>3. ASSUME NEW k \in 0..(j + 1), k # 0
          PROVE  g[k - 1] = f[k - 1]
      <3>1. k - 1 \in 0..j
        BY <2>3
      <3> HIDE DEF g
      <3> QED BY <2>2, <3>1
    <2>4. g = turns(g, j + 1)
      <3> DEFINE h == turns(g, j + 1)
      <3>1. \A k \in 0..(j + 1) : g[k] = h[k]
        <4>1. ASSUME NEW k \in 0..(j + 1), k = 0
              PROVE  g[k] = h[k]
          BY <4>1
        <4>2. ASSUME NEW k \in 0..(j + 1), k # 0
              PROVE  g[k] = h[k]
          <5>1. g[k] = step(f[k - 1], k) /\ h[k] = step(g[k - 1], k)
            BY <4>2
          <5> QED BY <2>3, <4>2, <5>1
        <4> QED BY <4>1, <4>2
      <3>2. g = [k \in 0..(j + 1) |-> g[k]] /\ h = [k \in 0..(j + 1) |-> h[k]]
        OBVIOUS
      <3> HIDE DEF g, h
      <3>3. g = h
        BY <3>1, <3>2
      <3> QED BY <3>3 DEF h
    <2> HIDE DEF g
    <2> QED BY <2>4
  <1>5. n \in T
    <2> HIDE DEF T
    <2> QED BY <1>1, <1>3, <1>4, Induction
  <1>6. \E f : f = turns(f, n)
    BY <1>5
  <1> DEFINE after == CHOOSE f : f = turns(f, n)
  <1>7. after = turns(after, n)
    BY <1>6
  <1> HIDE DEF after
  <1>8. after[0] = start
    BY <1>1, <1>7
  <1>9. \A k \in 1..n : after[k] = step(after[k - 1], k)
    BY <1>1, <1>7
  <1> QED BY <1>2, <1>8, <1>9 DEF PutRuns, n, start, step, after

\* After k turns: what the blocks have that it is done with, and what the other
\* blocks have.
PutContents(s, start, nrold, offset, size, value, done) ==
    /\ \A a \in (0..(Len(start.info.blockNrs) - 1)) \ done :
            Present(start.info, start.disk, a) =>
                BlockAt(s.info, s.disk, a) = BlockAt(start.info, start.disk, a)
    /\ \A a \in done :
        /\ Present(s.info, s.disk, a)
        /\ \A c \in Offsets :
            /\ Covers(offset, size, a, c) => BlockAt(s.info, s.disk, a)[c] = value
            /\ ~Covers(offset, size, a, c) /\ a < nrold
               /\ Present(start.info, start.disk, a) =>
                    BlockAt(s.info, s.disk, a)[c] = BlockAt(start.info, start.disk, a)[c]

PutDone(s, start, nrold, offset, size, value, k) ==
    LET nrs == start.info.blockNrs
        first == FirstBlock(offset)
    IN  /\ TurnOk(s.info, s.disk, start.info, nrold)
        /\ Len(start.disk) <= Len(s.disk)
        /\ \A x \in 1..Len(start.disk) :
                (\A j \in DOMAIN nrs : nrs[j] # x) => s.disk[x] = start.disk[x]
        /\ k # 0 => \/ nrs[first + k] <= Len(s.disk)
                    \/ s.info.dirty /\ s.info.curBlock = first + k - 1
        /\ \A a \in 0..(Len(nrs) - 1) :
                Present(start.info, start.disk, a) => Present(s.info, s.disk, a)
        /\ BufferTrue(start.info, start.disk) =>
            /\ BufferTrue(s.info, s.disk)
            /\ PutContents(s, start, nrold, offset, size, value, first..(first + k - 1))

LEMMA PutLoop ==
    ASSUME NEW start, NEW nrold \in 0..Len(start.info.blockNrs),
           TurnOk(start.info, start.disk, start.info, nrold), OneByOne(start.info.blockNrs),
           NEW offset, NEW size, NEW value \in Values,
           FirstBlock(offset) \in Nat, NEW n \in Nat,
           FirstBlock(offset) + n <= Len(start.info.blockNrs),
           FirstBlock(offset) + n <= MaxSize,
           NEW after, PutRuns(after, n, start, nrold, offset, size, value)
    PROVE  PutDone(after[n], start, nrold, offset, size, value, n)
  <1> DEFINE T == {k \in 0..n : PutDone(after[k], start, nrold, offset, size, value, k)}
             nrs == start.info.blockNrs
             first == FirstBlock(offset)
  <1>1. /\ start.info \in InfoValue /\ start.disk \in DiskValue
        /\ Len(nrs) \in Nat /\ DOMAIN nrs = 1..Len(nrs) /\ Len(start.disk) \in Nat
    BY InfoFields, DiskFields DEF TurnOk
  <1>2. 0 \in T
    <2>1. after[0] = start
      BY DEF PutRuns
    <2>2. PutContents(start, start, nrold, offset, size, value, {})
      BY DEF PutContents
    <2>3. first..(first + 0 - 1) = {}
      OBVIOUS
    <2>4. PutDone(start, start, nrold, offset, size, value, 0)
      BY <1>1, <2>2, <2>3 DEF PutDone
    <2> QED BY <2>1, <2>4
  <1>3. ASSUME NEW k \in 1..n, k - 1 \in T
        PROVE  k \in T
    <2> DEFINE s == after[k - 1]
               t == after[k]
               b == first + k - 1
    <2>1. PutDone(s, start, nrold, offset, size, value, k - 1)
      BY <1>3
    <2>2. t = PutBlock(s, nrold, offset, size, value, b)
      BY DEF PutRuns
    <2> HIDE DEF s, t, T, first
    <2>3. b \in 0..(Len(nrs) - 1) /\ b < MaxSize /\ b + 1 = first + k
      <3>1. first + n <= Len(nrs) /\ first + n <= MaxSize /\ first \in Nat /\ k \in 1..n
        BY DEF first
      <3> QED BY <1>1, <3>1, MultiFileAssumption
    <2> HIDE DEF b
    <2> USE DEF first
    <2>4. TurnOk(s.info, s.disk, start.info, nrold) /\ s.info.blockNrs = nrs
      BY <2>1 DEF PutDone, TurnOk
    <2>5. PutsBlock(s, t, start.info, nrold, offset, size, value, b)
      BY <2>2, <2>3, <2>4, PutTurn
    <2>6. KeepsOthers(s.info, s.disk, t.info, t.disk, b) /\ TurnOk(t.info, t.disk, start.info, nrold)
      BY <2>5 DEF PutsBlock
    <2>7. Len(s.disk) \in Nat /\ Len(t.disk) \in Nat
      BY <2>4, <2>6, DiskFields DEF TurnOk
    <2>8. Len(start.disk) <= Len(t.disk)
      BY <1>1, <2>1, <2>6, <2>7 DEF PutDone, KeepsOthers
    <2>9. ASSUME NEW x \in 1..Len(start.disk), \A j \in DOMAIN nrs : nrs[j] # x
          PROVE  t.disk[x] = start.disk[x]
      <3>1. s.disk[x] = start.disk[x] /\ x \in 1..Len(s.disk)
        BY <1>1, <2>1, <2>7, <2>9 DEF PutDone
      <3>2. t.disk[x] = s.disk[x]
        BY <2>4, <2>6, <2>9, <3>1 DEF KeepsOthers
      <3> QED BY <3>1, <3>2
    <2>10. nrs[first + k] <= Len(t.disk) \/ (t.info.dirty /\ t.info.curBlock = b)
      BY <2>3, <2>5 DEF PutsBlock
    <2>11. ASSUME NEW a \in 0..(Len(nrs) - 1), Present(start.info, start.disk, a)
           PROVE  Present(s.info, s.disk, a) /\ Present(t.info, t.disk, a)
      <3>1. Present(s.info, s.disk, a)
        BY <2>1, <2>11 DEF PutDone
      <3> QED BY <2>4, <2>6, <3>1 DEF KeepsOthers
    <2>12. ASSUME BufferTrue(start.info, start.disk)
           PROVE  BufferTrue(s.info, s.disk) /\ BufferTrue(t.info, t.disk)
      <3>1. BufferTrue(s.info, s.disk)
        BY <2>1, <2>12 DEF PutDone
      <3> QED BY <2>6, <3>1 DEF KeepsOthers
    <2>13. first..(first + (k - 1) - 1) = first..(b - 1) /\ first..(first + k - 1) = first..b
      BY DEF b
    <2>14. ASSUME BufferTrue(start.info, start.disk), NEW a \in (0..(Len(nrs) - 1)) \ (first..b),
                  Present(start.info, start.disk, a)
           PROVE  BlockAt(t.info, t.disk, a) = BlockAt(start.info, start.disk, a)
      <3>1. a \notin first..(b - 1) /\ a # b
        <4> HIDE DEF first
        <4>1. first \in Nat
          BY DEF first
        <4>2. b \in Nat /\ a \in Nat /\ ~(first <= a /\ a <= b) /\ first <= b
          BY <1>1, <2>3, <2>14, <4>1 DEF b
        <4> QED BY <4>1, <4>2
      <3>2. BlockAt(s.info, s.disk, a) = BlockAt(start.info, start.disk, a)
        BY <2>1, <2>13, <2>14, <3>1 DEF PutDone, PutContents
      <3>3. BlockAt(t.info, t.disk, a) = BlockAt(s.info, s.disk, a)
        BY <2>4, <2>6, <2>11, <2>12, <2>14, <3>1 DEF KeepsOthers
      <3> QED BY <3>2, <3>3
    <2>15. ASSUME BufferTrue(start.info, start.disk), NEW a \in first..b
           PROVE  /\ Present(t.info, t.disk, a)
                  /\ \A c \in Offsets :
                    /\ Covers(offset, size, a, c) => BlockAt(t.info, t.disk, a)[c] = value
                    /\ ~Covers(offset, size, a, c) /\ a < nrold
                       /\ Present(start.info, start.disk, a) =>
                            BlockAt(t.info, t.disk, a)[c]
                                = BlockAt(start.info, start.disk, a)[c]
      <3>1. a \in 0..(Len(nrs) - 1)
        BY <1>1, <2>3
      <3>2. CASE a = b
        <4>1. Present(t.info, t.disk, a)
          BY <2>3, <2>6, <2>10, <3>2 DEF Present, TurnOk
        <4>2. Present(start.info, start.disk, a) =>
                BlockAt(s.info, s.disk, a) = BlockAt(start.info, start.disk, a)
          <5>1. a \in (0..(Len(nrs) - 1)) \ (first..(b - 1))
            BY <2>3, <3>1, <3>2
          <5> QED BY <2>1, <2>13, <2>15, <5>1 DEF PutDone, PutContents
        <4> QED BY <2>5, <2>11, <3>1, <3>2, <4>1, <4>2 DEF PutsBlock
      <3>3. CASE a # b
        <4>1. a \in first..(b - 1)
          BY <2>3, <3>3
        <4>2. Present(s.info, s.disk, a)
          BY <2>1, <2>13, <2>15, <4>1 DEF PutDone, PutContents
        <4>3. Present(t.info, t.disk, a) /\ BlockAt(t.info, t.disk, a) = BlockAt(s.info, s.disk, a)
          BY <2>4, <2>6, <2>12, <2>15, <3>1, <3>3, <4>2 DEF KeepsOthers
        <4>4. \A c \in Offsets :
                /\ Covers(offset, size, a, c) => BlockAt(s.info, s.disk, a)[c] = value
                /\ ~Covers(offset, size, a, c) /\ a < nrold
                   /\ Present(start.info, start.disk, a) =>
                        BlockAt(s.info, s.disk, a)[c] = BlockAt(start.info, start.disk, a)[c]
          BY <2>1, <2>13, <2>15, <4>1 DEF PutDone, PutContents
        <4> QED BY <4>3, <4>4
      <3> QED BY <3>2, <3>3
    <2>16. BufferTrue(start.info, start.disk) =>
                PutContents(t, start, nrold, offset, size, value, first..b)
      BY <2>14, <2>15 DEF PutContents
    <2>17. PutDone(t, start, nrold, offset, size, value, k)
      <3>1. \/ nrs[first + k] <= Len(t.disk)
            \/ t.info.dirty /\ t.info.curBlock = first + k - 1
        BY <2>10 DEF b
      <3> QED BY <2>6, <2>8, <2>9, <2>11, <2>12, <2>13, <2>16, <3>1 DEF PutDone
    <2> QED BY <2>17 DEF t, T
  <1>4. n \in T
    <2> HIDE DEF T
    <2>1. \A k \in 1..n : k - 1 \in T => k \in T
      BY <1>3
    <2>2. \A k \in 0..n : k \in T
      BY <1>2, <2>1, TurnInduction
    <2> QED BY <2>2
  <1> QED BY <1>4

-----------------------------------------------------------------------------
(* The loop of read.                                                        *)

GetRuns(after, n, start, offset, size) ==
    /\ after[0] = start
    /\ \A k \in 1..n : after[k] = GetBlock(after[k - 1], offset, size,
                                           FirstBlock(offset) + k - 1)

\* What a read gets of what there is.
Todo(info, offset, size) == Lesser(size, info.fsize - offset)

LEMMA GotIs ==
    ASSUME NEW p, NEW id, NEW offset, NEW size,
           NrTurns(offset, Todo(mem[p].info[id], offset, size)) \in Nat
    PROVE  \E after :
            /\ GetRuns(after, NrTurns(offset, Todo(mem[p].info[id], offset, size)),
                       [info |-> mem[p].info[id], disk |-> disk, done |-> <<>>], offset,
                       Todo(mem[p].info[id], offset, size))
            /\ Got(p, id, offset, size)
                    = after[NrTurns(offset, Todo(mem[p].info[id], offset, size))]
  <1> DEFINE todo == Todo(mem[p].info[id], offset, size)
             n == NrTurns(offset, todo)
             start == [info |-> mem[p].info[id], disk |-> disk, done |-> <<>>]
             step(s, k) == GetBlock(s, offset, todo, FirstBlock(offset) + k - 1)
             turns(f, j) == [k \in 0..j |-> IF k = 0 THEN start ELSE step(f[k - 1], k)]
             T == {j \in Nat : \E f : f = turns(f, j)}
  <1>1. n \in Nat
    OBVIOUS
  <1>2. Got(p, id, offset, size) = (CHOOSE f : f = turns(f, n))[n]
    BY DEF Got, Todo
  <1> HIDE DEF n, start, step, todo
  <1>3. 0 \in T
    <2>1. turns([k \in 0..0 |-> start], 0) = [k \in 0..0 |-> start]
      OBVIOUS
    <2> QED BY <2>1
  <1>4. ASSUME NEW j \in Nat, j \in T
        PROVE  j + 1 \in T
    <2>1. PICK f : f = turns(f, j)
      BY <1>4
    <2> DEFINE g == turns(f, j + 1)
    <2>2. ASSUME NEW k \in 0..j
          PROVE  g[k] = f[k]
      BY <2>1, <2>2
    <2>3. ASSUME NEW k \in 0..(j + 1), k # 0
          PROVE  g[k - 1] = f[k - 1]
      <3>1. k - 1 \in 0..j
        BY <2>3
      <3> HIDE DEF g
      <3> QED BY <2>2, <3>1
    <2>4. g = turns(g, j + 1)
      <3> DEFINE h == turns(g, j + 1)
      <3>1. \A k \in 0..(j + 1) : g[k] = h[k]
        <4>1. ASSUME NEW k \in 0..(j + 1), k = 0
              PROVE  g[k] = h[k]
          BY <4>1
        <4>2. ASSUME NEW k \in 0..(j + 1), k # 0
              PROVE  g[k] = h[k]
          <5>1. g[k] = step(f[k - 1], k) /\ h[k] = step(g[k - 1], k)
            BY <4>2
          <5> QED BY <2>3, <4>2, <5>1
        <4> QED BY <4>1, <4>2
      <3>2. g = [k \in 0..(j + 1) |-> g[k]] /\ h = [k \in 0..(j + 1) |-> h[k]]
        OBVIOUS
      <3> HIDE DEF g, h
      <3>3. g = h
        BY <3>1, <3>2
      <3> QED BY <3>3 DEF h
    <2> HIDE DEF g
    <2> QED BY <2>4
  <1>5. n \in T
    <2> HIDE DEF T
    <2> QED BY <1>1, <1>3, <1>4, Induction
  <1>6. \E f : f = turns(f, n)
    BY <1>5
  <1> DEFINE after == CHOOSE f : f = turns(f, n)
  <1>7. after = turns(after, n)
    BY <1>6
  <1> HIDE DEF after
  <1>8. after[0] = start
    BY <1>1, <1>7
  <1>9. \A k \in 1..n : after[k] = step(after[k - 1], k)
    BY <1>1, <1>7
  <1>10. Got(p, id, offset, size) = after[n]
    BY <1>2 DEF after
  <1>11. GetRuns(after, n, start, offset, todo)
    BY <1>8, <1>9 DEF GetRuns, step
  <1> QED BY <1>10, <1>11 DEF n, start, todo

\* Where the units are that k turns have given, and what they have.
Reading(offset, size, k) ==
    IF k = 0 THEN offset ELSE Lesser(offset + size, (FirstBlock(offset) + k) * BlockSize)
UnitAt(info, d, u) == BlockAt(info, d, u \div BlockSize)[u % BlockSize]

\* The range of one turn: where it begins, and the units of the block.
LEMMA ReadingIs ==
    ASSUME NEW offset \in Nat, NEW size \in Nat \ {0}, NEW k \in 1..NrTurns(offset, size),
           NEW b, b = FirstBlock(offset) + k - 1
    PROVE  /\ Reading(offset, size, k - 1) \in Nat /\ Reading(offset, size, k) \in Nat
           /\ b * BlockSize \in Nat /\ (b + 1) * BlockSize = b * BlockSize + BlockSize
           /\ offset <= Reading(offset, size, k - 1)
           /\ Reading(offset, size, k - 1) <= Reading(offset, size, k)
           /\ Reading(offset, size, k - 1) = Greater(offset, b * BlockSize)
           /\ Reading(offset, size, k) = Lesser(offset + size, (b + 1) * BlockSize)
  <1> DEFINE first == FirstBlock(offset)
             n == NrTurns(offset, size)
             x == b * BlockSize
  <1>1. first \in Nat /\ n \in Nat \ {0} /\ first + n = NrBlocks(offset + size)
    BY TurnsIs
  <1>2. first * BlockSize \in Nat /\ first * BlockSize <= offset
        /\ offset < first * BlockSize + BlockSize
    BY UnitBlock, BlockSizeIs DEF FirstBlock, Offsets
  <1>3. b \in Nat /\ b + 1 = first + k /\ b >= first /\ b <= NrBlocks(offset + size) - 1
    BY <1>1
  <1>4. x \in Nat /\ (b + 1) * BlockSize = x + BlockSize
    BY <1>3, BlockSizeIs
  <1>5. x < offset + size
    <2>1. NrBlocks(offset + size) * BlockSize <= offset + size + BlockSize - 1
      BY BlockSizeIs, UnitBlock DEF NrBlocks, Offsets
    <2>2. NrBlocks(offset + size) \in Nat
      BY NrBlocksIs
    <2>3. (b + 1) * BlockSize <= NrBlocks(offset + size) * BlockSize
      BY <1>3, <2>2, BlockSizeIs
    <2>4. NrBlocks(offset + size) * BlockSize \in Nat
      BY <2>2, BlockSizeIs
    <2> QED BY <1>4, <2>1, <2>3, <2>4, BlockSizeIs
  <1>6. Reading(offset, size, k) = Lesser(offset + size, (b + 1) * BlockSize)
    BY <1>3 DEF Reading
  <1>7. CASE k = 1
    <2>1. b = first /\ Reading(offset, size, k - 1) = offset
      BY <1>1, <1>7 DEF Reading
    <2> HIDE DEF first, n
    <2>2. x <= offset /\ offset < x + BlockSize
      BY <1>2, <2>1
    <2> HIDE DEF x
    <2> QED BY <1>4, <1>5, <1>6, <2>1, <2>2, BlockSizeIs DEF Greater, Lesser, x
  <1>8. CASE k # 1
    <2>1. Reading(offset, size, k - 1) = Lesser(offset + size, x)
      <3>1. k - 1 # 0 /\ first + (k - 1) = b
        BY <1>1, <1>8
      <3> QED BY <3>1 DEF Reading
    <2>2. (first + 1) * BlockSize <= x
      BY <1>1, <1>3, <1>8, BlockSizeIs
    <2>3. (first + 1) * BlockSize = first * BlockSize + BlockSize
      BY <1>1, BlockSizeIs
    <2>4. offset < x
      <3> HIDE DEF first, x
      <3> QED BY <1>2, <1>4, <2>2, <2>3, BlockSizeIs
    <2> HIDE DEF first, n, x
    <2> QED BY <1>4, <1>5, <1>6, <2>1, <2>4, BlockSizeIs DEF Greater, Lesser, x
  <1> QED BY <1>7, <1>8

\* The first unit of a block, from 0.
BlockBase(b) == b * BlockSize

\* The units from offset up to x.
Given(info, d, offset, x) == [i \in 1..(x - offset) |-> UnitAt(info, d, offset + i - 1)]

\* The units from x up to y, which are in block b.
GivenBlock(info, d, b, x, y) == UnitsOf(BlockAt(info, d, b), x - BlockBase(b), y - x)

LEMMA GivenMore ==
    ASSUME NEW info, NEW d, NEW offset \in Nat, NEW x \in Nat, NEW y \in Nat, NEW b \in Nat,
           offset <= x, x <= y, BlockBase(b) <= x, y <= BlockBase(b) + BlockSize
    PROVE  Joined(Given(info, d, offset, x), GivenBlock(info, d, b, x, y))
                = Given(info, d, offset, y)
  <1> DEFINE S == {UnitAt(info, d, u) : u \in Nat}
             base == BlockBase(b)
             q == Given(info, d, offset, x)
             r == UnitsOf(BlockAt(info, d, b), x - base, y - x)
             all == Given(info, d, offset, y)
  <1>1. base \in Nat /\ base = b * BlockSize
    BY BlockSizeIs DEF BlockBase
  <1>2. ASSUME NEW i \in 1..(y - x)
        PROVE  /\ x + i - 1 \in Nat
               /\ r[i] = UnitAt(info, d, x + i - 1)
    <2> DEFINE u == x + i - 1
               c == u - base
    <2> HIDE DEF base
    <2>1. u \in Nat /\ c \in Offsets /\ u = b * BlockSize + c /\ c = x - base + i - 1
      BY <1>1, BlockSizeIs DEF Offsets, base
    <2> HIDE DEF u, c
    <2>2. b = u \div BlockSize /\ c = u % BlockSize
      BY <2>1, UnitBlock
    <2>3. r[i] = BlockAt(info, d, b)[c]
      BY <2>1 DEF UnitsOf
    <2> QED BY <2>1, <2>2, <2>3 DEF UnitAt, u
  <1>3. \A u \in Nat : UnitAt(info, d, u) \in S
    OBVIOUS
  <1>4. x - offset \in Nat /\ y - x \in Nat /\ y - offset \in Nat
    OBVIOUS
  <1>5. \A i \in 1..(y - offset) : offset + i - 1 \in Nat
    OBVIOUS
  <1> HIDE DEF S, base
  <1>6. q \in [1..(x - offset) -> S] /\ all \in [1..(y - offset) -> S]
    <2>1. \A i \in 1..(x - offset) : offset + i - 1 \in Nat
      OBVIOUS
    <2> QED BY <1>3, <1>5, <2>1 DEF Given
  <1>7. r \in [1..(y - x) -> S]
    <2>1. r = [i \in 1..(y - x) |-> r[i]]
      BY DEF UnitsOf
    <2> HIDE DEF r
    <2> QED BY <1>2, <1>3, <2>1
  <1>8. \A i \in 1..(x - offset) : q[i] = UnitAt(info, d, offset + i - 1)
    BY DEF Given
  <1>9. \A i \in 1..(y - offset) : all[i] = UnitAt(info, d, offset + i - 1)
    BY DEF Given
  <1> HIDE DEF q, r, all
  <1>10. q \in Seq(S) /\ Len(q) = x - offset
    BY <1>4, <1>6
  <1>11. /\ q \o r \in Seq(S) /\ Len(q \o r) = y - offset
         /\ \A i \in 1..(x - offset) : (q \o r)[i] = q[i]
         /\ \A i \in 1..(y - offset) : i > x - offset =>
                i - (x - offset) \in 1..(y - x) /\ (q \o r)[i] = r[i - (x - offset)]
    <2> DEFINE l == x - offset
               extra == y - x
    <2>1. l + extra = y - offset
      OBVIOUS
    <2>2. l = Len(q) /\ extra \in Nat /\ r \in [1..extra -> S]
      BY <1>4, <1>7, <1>10
    <2> HIDE DEF extra
    <2>3. /\ q \o r \in Seq(S) /\ Len(q \o r) = Len(q) + extra
          /\ \A i \in 1..Len(q) : (q \o r)[i] = q[i]
          /\ \A i \in 1..(Len(q) + extra) : i > Len(q) =>
                i - Len(q) \in 1..extra /\ (q \o r)[i] = r[i - Len(q)]
      <3>1. q \in Seq(S) /\ extra \in Nat /\ r \in [1..extra -> S]
        BY <1>10, <2>2
      <3> HIDE DEF l
      <3> QED BY <3>1, ConcatIs
    <2> QED BY <2>1, <2>2, <2>3 DEF extra
  <1>12. all \in Seq(S) /\ Len(all) = y - offset
    BY <1>4, <1>6
  <1>13. ASSUME NEW i \in 1..(y - offset)
         PROVE  (q \o r)[i] = all[i]
    <2>1. CASE i <= x - offset
      <3>1. i \in 1..(x - offset)
        BY <1>4, <2>1
      <3> QED BY <1>8, <1>9, <1>11, <3>1
    <2>2. CASE i > x - offset
      <3>1. i - (x - offset) \in 1..(y - x) /\ (q \o r)[i] = r[i - (x - offset)]
        BY <1>11, <2>2
      <3> DEFINE j == i - (x - offset)
      <3>2. j \in 1..(y - x) /\ x + j - 1 = offset + i - 1
        BY <3>1
      <3> HIDE DEF j
      <3>3. r[j] = UnitAt(info, d, offset + i - 1)
        BY <1>2, <3>2
      <3> QED BY <1>9, <3>1, <3>3 DEF j
    <2>3. i <= x - offset \/ i > x - offset
      BY <1>4
    <2> QED BY <2>1, <2>2, <2>3
  <1>14. q \o r = all
    BY <1>11, <1>12, <1>13, SeqEqual
  <1> QED BY <1>14 DEF q, r, all, base, Joined, GivenBlock

\* After k turns of read.
GetDone(s, start, offset, size, k) ==
    LET nrs == start.info.blockNrs
    IN  /\ TurnOk(s.info, s.disk, start.info, Len(nrs))
        /\ Len(start.disk) <= Len(s.disk)
        /\ s.info.dirty => start.info.dirty
        /\ \A x \in 1..Len(start.disk) :
                (\A j \in DOMAIN nrs : nrs[j] # x) => s.disk[x] = start.disk[x]
        /\ \A a \in 0..(Len(nrs) - 1) :
                Present(start.info, start.disk, a) => Present(s.info, s.disk, a)
        /\ BufferTrue(start.info, start.disk) =>
            /\ BufferTrue(s.info, s.disk)
            /\ \A a \in 0..(Len(nrs) - 1) : Present(start.info, start.disk, a) =>
                    BlockAt(s.info, s.disk, a) = BlockAt(start.info, start.disk, a)
            /\ (\A a \in FirstBlock(offset)..(FirstBlock(offset) + k - 1) :
                        Present(start.info, start.disk, a)) =>
                    s.done = Given(start.info, start.disk, offset, Reading(offset, size, k))

LEMMA GetLoop ==
    ASSUME NEW start, start.done = <<>>,
           TurnOk(start.info, start.disk, start.info, Len(start.info.blockNrs)),
           OneByOne(start.info.blockNrs), NEW offset \in Nat, NEW size \in Nat \ {0},
           FirstBlock(offset) + NrTurns(offset, size) <= Len(start.info.blockNrs),
           FirstBlock(offset) + NrTurns(offset, size) <= MaxSize,
           NEW after, GetRuns(after, NrTurns(offset, size), start, offset, size)
    PROVE  GetDone(after[NrTurns(offset, size)], start, offset, size, NrTurns(offset, size))
  <1> DEFINE n == NrTurns(offset, size)
             T == {k \in 0..n : GetDone(after[k], start, offset, size, k)}
             nrs == start.info.blockNrs
             first == FirstBlock(offset)
  <1>1. /\ start.info \in InfoValue /\ start.disk \in DiskValue
        /\ Len(nrs) \in Nat /\ DOMAIN nrs = 1..Len(nrs) /\ Len(start.disk) \in Nat
        /\ n \in Nat /\ first \in Nat
    <2>1. n \in Nat /\ first \in Nat
      BY TurnsIs
    <2> QED BY <2>1, InfoFields, DiskFields DEF TurnOk
  <1>2. 0 \in T
    <2>1. after[0] = start
      BY DEF GetRuns
    <2>2. Given(start.info, start.disk, offset, Reading(offset, size, 0)) = <<>>
      <3>1. Reading(offset, size, 0) - offset = 0
        BY DEF Reading
      <3> QED BY <3>1 DEF Given
    <2>3. GetDone(start, start, offset, size, 0)
      BY <1>1, <2>2 DEF GetDone
    <2> QED BY <1>1, <2>1, <2>3
  <1>3. ASSUME NEW k \in 1..n, k - 1 \in T
        PROVE  k \in T
    <2> DEFINE s == after[k - 1]
               t == after[k]
               b == first + k - 1
    <2>1. GetDone(s, start, offset, size, k - 1)
      BY <1>3
    <2>2. t = GetBlock(s, offset, size, b)
      BY DEF GetRuns
    <2> HIDE DEF s, t, T, first, n
    <2>3. b \in 0..(Len(nrs) - 1) /\ b < MaxSize /\ b + 1 = first + k /\ b \in Nat
          /\ k \in 1..NrTurns(offset, size)
      <3>1. first + n <= Len(nrs) /\ first + n <= MaxSize /\ k \in 1..NrTurns(offset, size)
        BY DEF first, n
      <3> QED BY <1>1, <3>1, MultiFileAssumption
    <2>4. first = FirstBlock(offset) /\ b = first + k - 1 /\ first + (k - 1) - 1 = b - 1
      BY <1>1 DEF first
    <2> HIDE DEF b
    <2> USE DEF first
    <2>5. TurnOk(s.info, s.disk, start.info, Len(nrs)) /\ s.info.blockNrs = nrs
      BY <2>1 DEF GetDone, TurnOk
    <2>6. GetsBlock(s, t, start.info, offset, size, b)
      BY <2>2, <2>3, <2>5, GetTurn
    <2>7. KeepsOthers(s.info, s.disk, t.info, t.disk, b)
          /\ TurnOk(t.info, t.disk, start.info, Len(nrs))
      BY <2>6 DEF GetsBlock
    <2>8. Len(s.disk) \in Nat /\ Len(t.disk) \in Nat
      BY <2>5, <2>7, DiskFields DEF TurnOk
    <2>9. Len(start.disk) <= Len(t.disk)
      BY <1>1, <2>1, <2>7, <2>8 DEF GetDone, KeepsOthers
    <2>10. ASSUME NEW x \in 1..Len(start.disk), \A j \in DOMAIN nrs : nrs[j] # x
           PROVE  t.disk[x] = start.disk[x]
      <3>1. s.disk[x] = start.disk[x] /\ x \in 1..Len(s.disk)
        BY <1>1, <2>1, <2>8, <2>10 DEF GetDone
      <3>2. t.disk[x] = s.disk[x]
        BY <2>5, <2>7, <2>10, <3>1 DEF KeepsOthers
      <3> QED BY <3>1, <3>2
    <2>11. ASSUME NEW a \in 0..(Len(nrs) - 1), Present(start.info, start.disk, a)
           PROVE  Present(s.info, s.disk, a) /\ Present(t.info, t.disk, a)
      <3>1. Present(s.info, s.disk, a)
        BY <2>1, <2>11 DEF GetDone
      <3> QED BY <2>5, <2>7, <3>1 DEF KeepsOthers
    <2>12. ASSUME BufferTrue(start.info, start.disk)
           PROVE  BufferTrue(s.info, s.disk) /\ BufferTrue(t.info, t.disk)
      <3>1. BufferTrue(s.info, s.disk)
        BY <2>1, <2>12 DEF GetDone
      <3> QED BY <2>7, <3>1 DEF KeepsOthers
    <2>13. ASSUME BufferTrue(start.info, start.disk), NEW a \in 0..(Len(nrs) - 1),
                  Present(start.info, start.disk, a)
           PROVE  /\ BlockAt(s.info, s.disk, a) = BlockAt(start.info, start.disk, a)
                  /\ BlockAt(t.info, t.disk, a) = BlockAt(start.info, start.disk, a)
      <3>1. BlockAt(s.info, s.disk, a) = BlockAt(start.info, start.disk, a)
        BY <2>1, <2>13 DEF GetDone
      <3>2. CASE a = b
        BY <2>6, <2>11, <2>13, <3>1, <3>2 DEF GetsBlock
      <3>3. CASE a # b
        BY <2>5, <2>7, <2>11, <2>12, <2>13, <3>1, <3>3 DEF KeepsOthers
      <3> QED BY <3>1, <3>2, <3>3
    <2>14. ASSUME BufferTrue(start.info, start.disk),
                  \A a \in first..b : Present(start.info, start.disk, a)
           PROVE  t.done = Given(start.info, start.disk, offset, Reading(offset, size, k))
      <3> DEFINE x == Reading(offset, size, k - 1)
                 y == Reading(offset, size, k)
                 more == UnitsOf(BlockAt(start.info, start.disk, b), x - b * BlockSize, y - x)
      <3>1. /\ x \in Nat /\ y \in Nat /\ offset <= x /\ x <= y /\ b * BlockSize \in Nat
            /\ (b + 1) * BlockSize = b * BlockSize + BlockSize
            /\ x = Greater(offset, b * BlockSize)
            /\ y = Lesser(offset + size, (b + 1) * BlockSize)
        BY <2>3, <2>4, ReadingIs
      <3>2. \A a \in first..(b - 1) : a \in first..b
        <4> HIDE DEF first, x, y, more
        <4> QED BY <1>1, <2>3
      <3>3. s.done = Given(start.info, start.disk, offset, x)
        BY <2>1, <2>4, <2>14, <3>2 DEF GetDone
      <3>4. b \in first..b
        <4> HIDE DEF first, x, y, more
        <4>1. first \in Nat /\ b \in Nat /\ b = first + k - 1 /\ k \in Nat /\ k >= 1
          BY <1>1, <2>3, <2>4
        <4> QED BY <4>1
      <3>5. Present(s.info, s.disk, b)
            /\ BlockAt(s.info, s.disk, b) = BlockAt(start.info, start.disk, b)
        BY <2>3, <2>11, <2>13, <2>14, <3>4
      <3> HIDE DEF x, y
      <3>6. t.done = Joined(s.done, more)
        BY <2>6, <3>1, <3>5 DEF GetsBlock
      <3>7. b * BlockSize <= x /\ y <= b * BlockSize + BlockSize
        <4> DEFINE base == b * BlockSize
                   next == (b + 1) * BlockSize
        <4>1. base \in Nat /\ next = base + BlockSize /\ x = Greater(offset, base)
              /\ y = Lesser(offset + size, next)
          BY <3>1
        <4> HIDE DEF base, next
        <4>2. base <= x /\ y <= base + BlockSize
          BY <4>1, BlockSizeIs DEF Greater, Lesser
        <4> QED BY <4>2 DEF base
      <3>8. Joined(Given(start.info, start.disk, offset, x), more)
                = Given(start.info, start.disk, offset, y)
        <4>1. /\ offset \in Nat /\ x \in Nat /\ y \in Nat /\ b \in Nat /\ offset <= x /\ x <= y
              /\ BlockBase(b) <= x /\ y <= BlockBase(b) + BlockSize
          BY <2>3, <3>1, <3>7 DEF BlockBase
        <4>2. more = GivenBlock(start.info, start.disk, b, x, y)
          BY DEF BlockBase, GivenBlock
        <4> HIDE DEF more
        <4>3. Joined(Given(start.info, start.disk, offset, x),
                     GivenBlock(start.info, start.disk, b, x, y))
                = Given(start.info, start.disk, offset, y)
          BY ONLY <4>1, GivenMore
        <4> QED BY <4>2, <4>3
      <3> QED BY <3>3, <3>6, <3>8 DEF y
    <2>15. GetDone(t, start, offset, size, k)
      <3>1. first + k - 1 = b
        BY <2>4
      <3>2. t.info.dirty => start.info.dirty
        BY <2>1, <2>6 DEF GetDone, GetsBlock
      <3> QED BY <2>7, <2>9, <2>10, <2>11, <2>12, <2>13, <2>14, <3>1, <3>2 DEF GetDone
    <2> QED BY <1>1, <2>15 DEF t, T, n
  <1>4. n \in T
    <2> HIDE DEF T
    <2>1. \A k \in 1..n : k - 1 \in T => k \in T
      BY <1>3
    <2>2. \A k \in 0..n : k \in T
      BY <1>1, <1>2, <2>1, TurnInduction
    <2> QED BY <1>1, <2>2
  <1> QED BY <1>4

-----------------------------------------------------------------------------
(* The inductive invariant: the copies of the header have every block in one  *)
(* place, and every block of a virtual file can be read.                      *)

InfoOk(info, d) ==
    /\ BufferPlaced(info)
    /\ ReachedTo(info, d, Len(info.blockNrs))
    /\ info.name = None => info.blockNrs = <<>>

MemOk(m, d) == Placed(m) /\ \A i \in DOMAIN m.info : InfoOk(m.info[i], d)

HeaderOk(h, d) ==
    /\ Placed(h)
    /\ \A i \in DOMAIN h.info :
        /\ \A k \in DOMAIN h.info[i].blockNrs : h.info[i].blockNrs[k] <= Len(d)
        /\ h.info[i].name = None => h.info[i].blockNrs = <<>>

TypeInv ==
    /\ mem \in [Proc -> MemValue]
    /\ opened \subseteq Proc
    /\ holder \in opened \cup {None}
    /\ stage \in {"ready", "flush", "release"}
    /\ header \in HeaderValue
    /\ disk \in DiskValue
    /\ gaps \in [Names -> SUBSET (1..MaxSize)]
    /\ touched \subseteq Names
    /\ changes \in 0..MaxChange

IInv ==
    /\ TypeInv
    /\ stage # "ready" => holder # None
    /\ HeaderOk(header, disk)
    /\ \A p \in Proc : MemOk(mem[p], disk)

LEMMA InvariantIs ==
    ASSUME IInv
    PROVE  TypeOK /\ BlocksUnshared
  <1>1. TypeOK
    <2>1. header.info \in Seq(HeaderEntry) /\ header.nrBlock \in 1..(MaxBlocks + 1)
          /\ header.freeBlocks \subseteq 1..MaxBlocks
      BY DEF IInv, TypeInv, HeaderValue
    <2>2. disk \in Seq(Block) /\ Len(disk) <= MaxBlocks
      BY DEF IInv, TypeInv, DiskValue
    <2> QED BY <2>1, <2>2 DEF IInv, TypeInv, TypeOK, HeaderEntry
  <1>2. holder # None => holder \in Proc
    BY DEF IInv, TypeInv
  <1> QED BY <1>1, <1>2, PlacedIs DEF IInv, HeaderOk, MemOk, BlocksUnshared

LEMMA InfoOkIsTurnOk ==
    ASSUME NEW info \in InfoValue, NEW d \in DiskValue, InfoOk(info, d)
    PROVE  TurnOk(info, d, info, Len(info.blockNrs))
  BY InfoFields DEF InfoOk, TurnOk, BufferPlaced

LEMMA InfoOkMore ==
    ASSUME NEW info \in InfoValue, NEW d \in DiskValue, NEW d2 \in DiskValue,
           Len(d) <= Len(d2), InfoOk(info, d)
    PROVE  InfoOk(info, d2)
  <1>1. \A k \in 1..Len(info.blockNrs) : info.blockNrs[k] \in Nat
    BY InfoFields
  <1>2. Len(d) \in Nat /\ Len(d2) \in Nat
    BY DiskFields
  <1>3. ReachedTo(info, d2, Len(info.blockNrs))
    BY <1>1, <1>2 DEF InfoOk, ReachedTo
  <1> QED BY <1>3 DEF InfoOk

LEMMA MemOkMore ==
    ASSUME NEW m \in MemValue, NEW d \in DiskValue, NEW d2 \in DiskValue,
           Len(d) <= Len(d2), MemOk(m, d)
    PROVE  MemOk(m, d2)
  BY MemFields, InfoOkMore DEF MemOk

LEMMA HeaderOkMore ==
    ASSUME NEW h \in HeaderValue, NEW d \in DiskValue, NEW d2 \in DiskValue,
           Len(d) <= Len(d2), HeaderOk(h, d)
    PROVE  HeaderOk(h, d2)
  <1>1. Len(d) \in Nat /\ Len(d2) \in Nat
    BY DiskFields
  <1>2. ASSUME NEW i \in DOMAIN h.info, NEW k \in DOMAIN h.info[i].blockNrs
        PROVE  h.info[i].blockNrs[k] \in Nat
    <2>1. FromHeader(h).info[i] \in InfoValue /\ FromHeader(h).info[i].blockNrs = h.info[i].blockNrs
      BY FromHeaderIs
    <2> QED BY <2>1, InfoFields
  <1> QED BY <1>1, <1>2 DEF HeaderOk

\* One file of a copy of the header is another now.
LEMMA MemExcept ==
    ASSUME NEW m \in MemValue, NEW id \in DOMAIN m.info, NEW x \in InfoValue,
           NEW n, n = [m EXCEPT !.info[id] = x]
    PROVE  /\ n \in MemValue /\ DOMAIN n.info = DOMAIN m.info /\ n.info[id] = x
           /\ \A i \in DOMAIN m.info \ {id} : n.info[i] = m.info[i]
           /\ n.nrBlock = m.nrBlock /\ n.freeBlocks = m.freeBlocks /\ n.changed = m.changed
  <1> DEFINE info == [m.info EXCEPT ![id] = x]
  <1>1. info \in Seq(InfoValue)
    BY MemFields, ExceptSeq
  <1>2. /\ DOMAIN info = DOMAIN m.info /\ info[id] = x
        /\ \A i \in DOMAIN m.info \ {id} : info[i] = m.info[i]
    OBVIOUS
  <1>3. n = [m EXCEPT !.info = info]
    OBVIOUS
  <1> HIDE DEF info
  <1>4. n \in MemValue
    BY <1>1, <1>3 DEF MemValue
  <1>5. /\ n.info = info /\ n.nrBlock = m.nrBlock /\ n.freeBlocks = m.freeBlocks
        /\ n.changed = m.changed
    BY <1>3 DEF MemValue
  <1> QED BY <1>2, <1>4, <1>5

LEMMA MemOkOne ==
    ASSUME NEW m \in MemValue, NEW d \in DiskValue, MemOk(m, d), NEW id \in DOMAIN m.info,
           NEW x, NEW d2, TurnOk(x, d2, m.info[id], Len(m.info[id].blockNrs)),
           Len(d) <= Len(d2), NEW n, DOMAIN n.info = DOMAIN m.info, n.info[id] = x,
           \A i \in DOMAIN m.info \ {id} : n.info[i] = m.info[i],
           n.nrBlock = m.nrBlock, n.freeBlocks = m.freeBlocks
    PROVE  MemOk(n, d2)
  <1>1. /\ x \in InfoValue /\ d2 \in DiskValue /\ x.blockNrs = m.info[id].blockNrs
        /\ x.name = m.info[id].name /\ x.fsize = m.info[id].fsize
        /\ BufferPlaced(x) /\ ReachedTo(x, d2, Len(x.blockNrs))
    BY DEF TurnOk
  <1>2. \A i \in DOMAIN m.info : /\ n.info[i].blockNrs = m.info[i].blockNrs
                                 /\ n.info[i].fsize = m.info[i].fsize
    BY <1>1
  <1>3. Placed(m)
    BY DEF MemOk
  <1>4. Placed(n)
    BY <1>2, <1>3, PlacedSame
  <1>5. MemOk(m, d2)
    BY <1>1, MemOkMore
  <1>6. InfoOk(x, d2)
    BY <1>1, <1>5 DEF MemOk, InfoOk
  <1>7. \A i \in DOMAIN n.info : InfoOk(n.info[i], d2)
    BY <1>5, <1>6 DEF MemOk
  <1> QED BY <1>4, <1>7 DEF MemOk

LEMMA FromHeaderOk ==
    ASSUME NEW h \in HeaderValue, NEW d \in DiskValue, HeaderOk(h, d)
    PROVE  FromHeader(h) \in MemValue /\ MemOk(FromHeader(h), d)
  <1> DEFINE m == FromHeader(h)
  <1>1. /\ m \in MemValue /\ DOMAIN m.info = DOMAIN h.info
        /\ \A i \in DOMAIN h.info :
            /\ m.info[i] \in InfoValue /\ m.info[i].name = h.info[i].name
            /\ m.info[i].blockNrs = h.info[i].blockNrs /\ m.info[i].fsize = h.info[i].fsize
            /\ m.info[i].curBlock = -1 /\ ~m.info[i].dirty
        /\ m.nrBlock = h.nrBlock /\ m.freeBlocks = h.freeBlocks
    BY FromHeaderIs
  <1> HIDE DEF m
  <1>2. Placed(m)
    BY <1>1, PlacedSame DEF HeaderOk
  <1>3. ASSUME NEW i \in DOMAIN m.info
        PROVE  InfoOk(m.info[i], d)
    <2>1. Len(m.info[i].blockNrs) \in Nat
          /\ DOMAIN m.info[i].blockNrs = 1..Len(m.info[i].blockNrs)
      BY <1>1, InfoFields
    <2>2. BufferPlaced(m.info[i])
      BY <1>1, <2>1 DEF BufferPlaced
    <2>3. ReachedTo(m.info[i], d, Len(m.info[i].blockNrs))
      BY <1>1, <2>1 DEF ReachedTo, HeaderOk
    <2> QED BY <1>1, <2>2, <2>3 DEF InfoOk, HeaderOk
  <1> QED BY <1>1, <1>2, <1>3 DEF MemOk, m

LEMMA EmptyOk ==
    ASSUME NEW d \in DiskValue
    PROVE  /\ EmptyHeader \in HeaderValue /\ HeaderOk(EmptyHeader, d)
           /\ FromHeader(EmptyHeader) \in MemValue /\ MemOk(FromHeader(EmptyHeader), d)
  <1>1. EmptyHeader \in HeaderValue
    BY MultiFileAssumption DEF EmptyHeader, HeaderValue
  <1>2. HeaderOk(EmptyHeader, d)
    BY EmptyIs DEF HeaderOk, EmptyHeader
  <1> QED BY <1>1, <1>2, FromHeaderOk

\* What is to be shown of a step in which one process changes its copy.
LEMMA OneCopy ==
    ASSUME IInv, NEW p \in Proc, NEW m, m \in MemValue, mem' = [mem EXCEPT ![p] = m],
           disk' \in DiskValue, Len(disk) <= Len(disk'), MemOk(m, disk'),
           header' = header \/ HeaderOk(header', disk')
    PROVE  /\ mem' \in [Proc -> MemValue] /\ HeaderOk(header', disk')
           /\ \A q \in Proc : MemOk(mem'[q], disk')
  <1>1. /\ mem \in [Proc -> MemValue] /\ header \in HeaderValue /\ disk \in DiskValue
        /\ HeaderOk(header, disk) /\ \A q \in Proc : MemOk(mem[q], disk)
    BY DEF IInv, TypeInv
  <1>2. HeaderOk(header', disk')
    BY <1>1, HeaderOkMore
  <1>3. ASSUME NEW q \in Proc
        PROVE  MemOk(mem'[q], disk')
    <2>1. CASE q = p
      BY <1>1, <2>1
    <2>2. CASE q # p
      <3>1. mem'[q] = mem[q]
        BY <1>1, <2>2
      <3>2. mem[q] \in MemValue /\ MemOk(mem[q], disk)
        BY <1>1
      <3>3. MemOk(mem[q], disk')
        BY <1>1, <3>2, MemOkMore
      <3> QED BY <3>1, <3>3
    <2> QED BY <2>1, <2>2
  <1> QED BY <1>1, <1>2, <1>3

-----------------------------------------------------------------------------
(* A write.                                                                 *)

\* The file gets its blocks.
LEMMA ChangedIs ==
    ASSUME NEW info \in Seq(InfoValue), NEW nrBlock \in 1..(MaxBlocks + 1),
           NEW freeBlocks \in SUBSET (1..MaxBlocks)
    PROVE  /\ Changed(info, nrBlock, freeBlocks) \in MemValue
           /\ Changed(info, nrBlock, freeBlocks).info = info
           /\ Changed(info, nrBlock, freeBlocks).nrBlock = nrBlock
           /\ Changed(info, nrBlock, freeBlocks).freeBlocks = freeBlocks
           /\ Changed(info, nrBlock, freeBlocks).changed
  BY DEF Changed, MemValue

IsGrown(m, grown, id, new) ==
    /\ DOMAIN grown.info = DOMAIN m.info
    /\ \A i \in DOMAIN m.info \ {id} : grown.info[i] = m.info[i]
    /\ grown.info[id].blockNrs = Joined(m.info[id].blockNrs, new)
    /\ grown.info[id].name = m.info[id].name
    /\ grown.info[id].fsize = m.info[id].fsize
    /\ grown.info[id].curBlock = m.info[id].curBlock
    /\ grown.info[id].dirty = m.info[id].dirty
    /\ grown.info[id].data = m.info[id].data
    /\ grown.nrBlock = m.nrBlock + NrAppended(m, new)
    /\ grown.freeBlocks = m.freeBlocks \ ToSet(new)

LEMMA GrownIs ==
    ASSUME NEW m \in MemValue, Placed(m), NEW id \in DOMAIN m.info, NEW last \in Nat,
           NEW more, more = Greater(0, last - Len(m.info[id].blockNrs)),
           NEW new \in [1..more -> m.freeBlocks \cup (m.nrBlock..MaxBlocks)],
           IsAllocation(m, new),
           NEW grown, grown = IF last >= NrBlocks(m.info[id].fsize) THEN Extended(m, id, new)
                              ELSE m
    PROVE  /\ more \in Nat /\ grown \in MemValue /\ IsGrown(m, grown, id, new)
           /\ grown.changed \/ (grown = m /\ last < NrBlocks(m.info[id].fsize))
  <1> DEFINE info == m.info[id]
             n == Len(info.blockNrs)
             S == 1..MaxBlocks
  <1>1. info \in InfoValue /\ info.blockNrs \in Seq(S) /\ n \in Nat /\ n = NrBlocks(info.fsize)
    BY MemFields, InfoFields DEF Placed
  <1>2. more \in Nat /\ (~(last >= n) => more = 0)
    BY <1>1 DEF Greater
  <1>3. \A i \in 1..more : new[i] \in S
    BY <1>2, AllocationIs
  <1>4. new \in [1..more -> S]
    BY <1>3
  <1> HIDE DEF S
  <1>5. info.blockNrs \o new \in Seq(S)
    BY <1>1, <1>2, <1>4, ConcatIs
  <1>6. CASE last >= n
    <2> DEFINE longer == info.blockNrs \o new
               x == [info EXCEPT !.blockNrs = longer]
               all == [m.info EXCEPT ![id] = x]
               added == m.nrBlock + NrAppended(m, new)
    <2>1. WithBlocks(m, id, new) = all
      BY DEF WithBlocks
    <2>2. grown = Changed(all, added, m.freeBlocks \ ToSet(new))
      BY <1>1, <1>6, <2>1 DEF Extended
    <2>3. added \in 1..(MaxBlocks + 1)
      <3>1. m.nrBlock + NrAppended(m, new) \in m.nrBlock..(MaxBlocks + 1)
        BY <1>2, AllocationIs
      <3> QED BY <3>1, MemFields, MultiFileAssumption
    <2>4. m.freeBlocks \ ToSet(new) \subseteq 1..MaxBlocks
      BY MemFields
    <2> HIDE DEF longer, added, info
    <2>5. /\ x \in InfoValue /\ x.blockNrs = longer /\ x.name = info.name
          /\ x.fsize = info.fsize /\ x.curBlock = info.curBlock /\ x.dirty = info.dirty
          /\ x.data = info.data
      BY <1>1, <1>5 DEF InfoValue, S, longer
    <2> HIDE DEF x
    <2>6. all \in Seq(InfoValue)
      BY <2>5, MemFields, ExceptSeq
    <2>7. /\ DOMAIN all = DOMAIN m.info /\ all[id] = x
          /\ \A i \in DOMAIN m.info \ {id} : all[i] = m.info[i]
      OBVIOUS
    <2> HIDE DEF all
    <2>8. /\ Changed(all, added, m.freeBlocks \ ToSet(new)) \in MemValue
          /\ Changed(all, added, m.freeBlocks \ ToSet(new)).info = all
          /\ Changed(all, added, m.freeBlocks \ ToSet(new)).nrBlock = added
          /\ Changed(all, added, m.freeBlocks \ ToSet(new)).freeBlocks
                = m.freeBlocks \ ToSet(new)
          /\ Changed(all, added, m.freeBlocks \ ToSet(new)).changed
      BY <2>3, <2>4, <2>6, ChangedIs
    <2>9. /\ grown \in MemValue /\ grown.info = all /\ grown.nrBlock = added /\ grown.changed
          /\ grown.freeBlocks = m.freeBlocks \ ToSet(new)
      BY <2>2, <2>8
    <2>10. /\ grown.info[id].blockNrs = m.info[id].blockNrs \o new
           /\ grown.info[id].name = m.info[id].name
           /\ grown.info[id].fsize = m.info[id].fsize
           /\ grown.info[id].curBlock = m.info[id].curBlock
           /\ grown.info[id].dirty = m.info[id].dirty
           /\ grown.info[id].data = m.info[id].data
           /\ grown.nrBlock = m.nrBlock + NrAppended(m, new)
           /\ DOMAIN grown.info = DOMAIN m.info
           /\ \A i \in DOMAIN m.info \ {id} : grown.info[i] = m.info[i]
      BY <2>5, <2>7, <2>9 DEF longer, added, info
    <2> QED BY <1>2, <2>9, <2>10 DEF IsGrown, Joined
  <1>7. CASE ~(last >= n)
    <2>1. more = 0 /\ grown = m
      BY <1>1, <1>2, <1>7
    <2>2. new = <<>>
      BY <2>1
    <2>3. info.blockNrs \o new = info.blockNrs
      BY <1>1, <2>2
    <2>4. NrAppended(m, new) = 0
      BY <2>2, FreeIsFinite DEF NrAppended, Greater
    <2>5. ToSet(new) = {} /\ m.nrBlock + 0 = m.nrBlock
      BY <2>2, MemFields DEF ToSet
    <2>6. last < NrBlocks(info.fsize)
      BY <1>1, <1>7
    <2> QED BY <1>2, <2>1, <2>3, <2>4, <2>5, <2>6 DEF IsGrown, Joined
  <1> QED BY <1>6, <1>7

\* What a write makes of the units of the file.
IsWritten(info, d, info2, d2, offset, size, value) ==
    /\ \A b \in 0..(Len(info.blockNrs) - 1) : Present(info, d, b) => Present(info2, d2, b)
    /\ BufferTrue(info, d) =>
        /\ BufferTrue(info2, d2)
        /\ \A u \in offset..(offset + size - 1) :
                Present(info2, d2, u \div BlockSize) /\ UnitAt(info2, d2, u) = value
        /\ \A u \in (0..(info.fsize - 1)) \ (offset..(offset + size - 1)) :
                Present(info, d, u \div BlockSize) =>
                    UnitAt(info2, d2, u) = UnitAt(info, d, u)

LEMMA WrittenUnits ==
    ASSUME NEW info \in InfoValue, Len(info.blockNrs) = NrBlocks(info.fsize),
           NEW start, NEW nrold, nrold = Len(info.blockNrs), nrold <= Len(start.info.blockNrs),
           Len(start.info.blockNrs) \in Nat,
           \A k \in 1..nrold : start.info.blockNrs[k] = info.blockNrs[k],
           start.info.curBlock = info.curBlock, start.info.dirty = info.dirty,
           start.info.data = info.data, info.curBlock < nrold,
           NEW offset \in Nat, NEW size \in Nat \ {0},
           FirstBlock(offset) + NrTurns(offset, size) <= Len(start.info.blockNrs),
           NEW value, NEW s,
           PutDone(s, start, nrold, offset, size, value, NrTurns(offset, size))
    PROVE  IsWritten(info, start.disk, s.info, s.disk, offset, size, value)
  <1> DEFINE d == start.disk
             first == FirstBlock(offset)
             last == first + NrTurns(offset, size)
             done == first..(last - 1)
             nrs == start.info.blockNrs
  <1>1. nrold \in Nat /\ first \in Nat /\ last \in Nat /\ last = NrBlocks(offset + size)
        /\ first + NrTurns(offset, size) - 1 = last - 1 /\ last <= Len(nrs)
    <2>1. first \in Nat /\ NrTurns(offset, size) \in Nat /\ last = NrBlocks(offset + size)
      BY TurnsIs
    <2>2. nrold \in Nat
      BY InfoFields
    <2> QED BY <2>1, <2>2
  <1>2. /\ \A b \in 0..(nrold - 1) : b \in 0..(Len(nrs) - 1) /\ b + 1 \in 1..nrold
        /\ info.curBlock \in Int
        /\ \A b \in Nat : b < nrold => b \in 0..(nrold - 1) /\ b \in 0..(Len(nrs) - 1)
    <2>1. info.curBlock \in Int
      BY InfoFields, MultiFileAssumption
    <2> DEFINE l == Len(nrs)
    <2>2. l \in Nat /\ nrold \in Nat /\ nrold <= l
      BY <1>1
    <2> HIDE DEF l
    <2>3. /\ \A b \in 0..(nrold - 1) : b \in 0..(l - 1) /\ b + 1 \in 1..nrold
          /\ \A b \in Nat : b < nrold => b \in 0..(nrold - 1) /\ b \in 0..(l - 1)
      BY ONLY <2>2
    <2> QED BY <2>1, <2>3 DEF l
  <1>3. info.curBlock >= 0 => info.curBlock + 1 \in 1..nrold
    <2> DEFINE cur == info.curBlock
    <2>1. cur \in Int /\ cur < nrold /\ nrold \in Nat
      BY <1>1, <1>2
    <2> HIDE DEF cur
    <2>2. cur >= 0 => cur + 1 \in 1..nrold
      BY ONLY <2>1
    <2> QED BY <2>2 DEF cur
  <1>4. \A b \in 0..(nrold - 1) :
            /\ Present(start.info, d, b) <=> Present(info, d, b)
            /\ BlockAt(start.info, d, b) = BlockAt(info, d, b)
    BY <1>2 DEF Present, BlockAt
  <1>5. BufferTrue(info, d) => BufferTrue(start.info, d)
    BY <1>3 DEF BufferTrue
  <1>6. ASSUME NEW b \in 0..(nrold - 1), Present(info, d, b)
        PROVE  Present(s.info, s.disk, b)
    BY <1>2, <1>4, <1>6 DEF PutDone
  <1>7. ASSUME BufferTrue(info, d)
        PROVE  BufferTrue(s.info, s.disk)
               /\ PutContents(s, start, nrold, offset, size, value, done)
    BY <1>1, <1>5, <1>7 DEF PutDone
  <1> HIDE DEF last
  <1>8. ASSUME BufferTrue(info, d), NEW u \in offset..(offset + size - 1)
        PROVE  Present(s.info, s.disk, u \div BlockSize) /\ UnitAt(s.info, s.disk, u) = value
    <2> DEFINE b == u \div BlockSize
               c == u % BlockSize
    <2>1. u \in Nat /\ u < offset + size
      OBVIOUS
    <2>2. b \in Nat /\ c \in Offsets /\ u = b * BlockSize + c
      BY <2>1, UnitBlock
    <2>3. b < last
      BY <1>1, <2>1, UnitInBlocks
    <2>4. first <= b
      <3>1. offset \in Nat /\ u \in Nat /\ offset <= u /\ BlockSize \in Nat \ {0}
        BY <2>1, BlockSizeIs
      <3>2. (offset \div BlockSize) <= (u \div BlockSize)
        BY ONLY <3>1
      <3> QED BY <3>2 DEF FirstBlock
    <2>5. b \in done
      BY <1>1, <2>2, <2>3, <2>4
    <2>6. Covers(offset, size, b, c)
      BY <2>2 DEF Covers
    <2> HIDE DEF b, c, done
    <2>7. Present(s.info, s.disk, b) /\ BlockAt(s.info, s.disk, b)[c] = value
      BY <1>7, <1>8, <2>2, <2>5, <2>6 DEF PutContents
    <2> QED BY <2>7 DEF UnitAt, b, c
  <1>9. ASSUME BufferTrue(info, d), NEW u \in 0..(info.fsize - 1),
               u \notin offset..(offset + size - 1), Present(info, d, u \div BlockSize)
        PROVE  UnitAt(s.info, s.disk, u) = UnitAt(info, d, u)
    <2> DEFINE b == u \div BlockSize
               c == u % BlockSize
    <2>1. u \in Nat /\ info.fsize \in Nat /\ u < info.fsize
      BY InfoFields, MultiFileAssumption
    <2>2. b \in Nat /\ c \in Offsets /\ u = b * BlockSize + c
      BY <2>1, UnitBlock
    <2>3. b < nrold
      BY <2>1, UnitInBlocks
    <2>4. ~Covers(offset, size, b, c)
      BY <1>9, <2>2 DEF Covers
    <2>5. Present(info, d, b)
      BY <1>9
    <2> HIDE DEF b, c, done
    <2>6. b \in 0..(nrold - 1) /\ b \in 0..(Len(nrs) - 1)
      BY <1>2, <2>2, <2>3
    <2>7. Present(start.info, d, b) /\ BlockAt(start.info, d, b) = BlockAt(info, d, b)
      BY <1>4, <2>5, <2>6
    <2>8. PutContents(s, start, nrold, offset, size, value, done)
      BY <1>7, <1>9
    <2>9. BlockAt(s.info, s.disk, b)[c] = BlockAt(start.info, d, b)[c]
      <3>1. CASE b \in done
        BY <2>2, <2>3, <2>4, <2>7, <2>8, <3>1 DEF PutContents
      <3>2. CASE b \notin done
        BY <2>6, <2>7, <2>8, <3>2 DEF PutContents
      <3> QED BY <3>1, <3>2
    <2> QED BY <2>7, <2>9 DEF UnitAt, b, c
  <1> QED BY <1>6, <1>7, <1>8, <1>9 DEF IsWritten

\* nrs has the old blocks and then more, of which each is after the one before.
HasGrown(old, more, nrs) ==
    /\ nrs \in Seq(1..MaxBlocks) /\ Len(nrs) = Len(old) + more
    /\ DOMAIN nrs = 1..(Len(old) + more)
    /\ \A k \in 1..Len(old) : nrs[k] = old[k]
    /\ \A k, l \in 1..(Len(old) + more) : k > Len(old) /\ k <= l => nrs[k] <= nrs[l]
    /\ OneByOne(nrs)

\* The old blocks and the new ones are one sequence, in which no block is twice.
LEMMA GrownBlocks ==
    ASSUME NEW m \in MemValue, Placed(m), NEW id \in DOMAIN m.info, NEW more \in Nat,
           NEW new \in [1..more -> m.freeBlocks \cup (m.nrBlock..MaxBlocks)],
           IsAllocation(m, new),
           NEW nrs, nrs = Joined(m.info[id].blockNrs, new)
    PROVE  HasGrown(m.info[id].blockNrs, more, nrs)
  <1> DEFINE old == m.info[id].blockNrs
             n == Len(old)
             S == 1..MaxBlocks
  <1>1. /\ old \in Seq(S) /\ n \in Nat /\ DOMAIN old = 1..n
        /\ \A k \in 1..n : old[k] \in Nat /\ old[k] < m.nrBlock /\ old[k] \notin m.freeBlocks
        /\ \A k, l \in 1..n : old[k] = old[l] => k = l
    <2>1. old \in Seq(S) /\ n \in Nat /\ DOMAIN old = 1..n /\ \A k \in 1..n : old[k] \in S
      BY MemFields, InfoFields
    <2>2. /\ \A k \in DOMAIN old : old[k] \in 1..(m.nrBlock - 1) /\ old[k] \notin m.freeBlocks
          /\ \A k, l \in DOMAIN old : old[k] = old[l] => k = l
      BY DEF Placed
    <2>3. m.nrBlock \in Nat
      BY MemFields, MultiFileAssumption
    <2> HIDE DEF old, n, S
    <2>4. \A k \in 1..n : old[k] \in 1..(m.nrBlock - 1) /\ old[k] \notin m.freeBlocks
      BY <2>1, <2>2
    <2>5. \A k, l \in 1..n : old[k] = old[l] => k = l
      BY <2>1, <2>2
    <2>6. \A k \in 1..n : old[k] \in Nat /\ old[k] < m.nrBlock
      BY <2>3, <2>4
    <2> QED BY <2>1, <2>4, <2>5, <2>6
  <1>2. /\ \A i, j \in 1..more : i < j => new[i] < new[j]
        /\ \A i \in 1..more : new[i] \in S /\ new[i] \in Nat
        /\ \A i \in 1..more : new[i] \in m.freeBlocks \/ new[i] >= m.nrBlock
    <2>1. \A i \in 1..more : new[i] \in S
      BY AllocationIs
    <2>2. /\ \A i, j \in 1..more : i < j => new[i] < new[j]
          /\ \A i \in 1..more : new[i] \in m.freeBlocks \/ new[i] >= m.nrBlock
      BY AllocationIs
    <2> QED BY <2>1, <2>2
  <1>3. new \in [1..more -> S]
    BY <1>2
  <1> HIDE DEF S, old
  <1>4. /\ old \o new \in Seq(S) /\ Len(old \o new) = n + more
        /\ DOMAIN (old \o new) = 1..(n + more)
        /\ \A k \in 1..n : (old \o new)[k] = old[k]
        /\ \A k \in 1..(n + more) : k > n =>
                k - n \in 1..more /\ (old \o new)[k] = new[k - n]
    <2>1. old \in Seq(S) /\ more \in Nat /\ new \in [1..more -> S]
      BY <1>1, <1>3
    <2>2. /\ old \o new \in Seq(S) /\ Len(old \o new) = Len(old) + more
          /\ DOMAIN (old \o new) = 1..(Len(old) + more)
          /\ \A k \in 1..Len(old) : (old \o new)[k] = old[k]
          /\ \A k \in 1..(Len(old) + more) : k > Len(old) =>
                k - Len(old) \in 1..more /\ (old \o new)[k] = new[k - Len(old)]
      BY ONLY <2>1, ConcatIs
    <2> QED BY <2>2
  <1>5. nrs = old \o new
    BY DEF Joined, old
  <1>6. /\ nrs \in Seq(S) /\ Len(nrs) = n + more /\ DOMAIN nrs = 1..(n + more)
        /\ \A k \in 1..n : nrs[k] = old[k]
        /\ \A k \in 1..(n + more) : k > n => k - n \in 1..more /\ nrs[k] = new[k - n]
    BY <1>4, <1>5
  <1> HIDE DEF n
  <1>7. ASSUME NEW k \in 1..(n + more), NEW l \in 1..(n + more), k > n, k < l
        PROVE  nrs[k] < nrs[l]
    <2>1. l > n /\ k - n < l - n
      BY <1>1, <1>7
    <2>2. k - n \in 1..more /\ nrs[k] = new[k - n]
      BY <1>6, <1>7
    <2>3. l - n \in 1..more /\ nrs[l] = new[l - n]
      BY <1>6, <2>1
    <2> QED BY <1>2, <2>1, <2>2, <2>3
  <1>8. \A k \in 1..(n + more) : nrs[k] \in Nat
    <2>1. ASSUME NEW k \in 1..(n + more)
          PROVE  nrs[k] \in Nat
      <3>1. k > n \/ k \in 1..n
        BY <1>1
      <3> QED BY <1>1, <1>2, <1>6, <3>1
    <2> QED BY <2>1
  <1>9. ASSUME NEW k \in 1..(n + more), NEW l \in 1..(n + more), k > n, k <= l
        PROVE  nrs[k] <= nrs[l]
    <2>1. k < l \/ k = l
      BY <1>1, <1>9
    <2> QED BY <1>7, <1>8, <1>9, <2>1
  <1>10. ASSUME NEW k \in 1..(n + more), NEW l \in 1..(n + more), k < l
         PROVE  nrs[k] # nrs[l]
    <2>1. CASE k > n
      BY <1>7, <1>8, <1>10, <2>1
    <2>2. CASE ~(k > n) /\ l > n
      <3>1. k \in 1..n /\ l - n \in 1..more
        BY <1>1, <1>6, <2>2
      <3>2. nrs[k] \notin m.freeBlocks /\ nrs[k] < m.nrBlock /\ nrs[k] \in Nat
        BY <1>1, <1>6, <3>1
      <3>3. nrs[l] \in m.freeBlocks \/ nrs[l] >= m.nrBlock
        BY <1>2, <1>6, <2>2, <3>1
      <3>4. m.nrBlock \in Nat
        BY MemFields, MultiFileAssumption
      <3> QED BY <3>2, <3>3, <3>4
    <2>3. CASE ~(k > n) /\ ~(l > n)
      <3>1. k \in 1..n /\ l \in 1..n /\ k # l
        BY <1>1, <1>10, <2>3
      <3> QED BY <1>1, <1>6, <3>1
    <2> QED BY <2>1, <2>2, <2>3
  <1>11. OneByOne(nrs)
    <2>1. ASSUME NEW k \in 1..(n + more), NEW l \in 1..(n + more), nrs[k] = nrs[l]
          PROVE  k = l
      <3>1. k < l \/ l < k \/ k = l
        BY <1>1
      <3> QED BY <1>10, <2>1, <3>1
    <2> QED BY <1>6, <2>1 DEF OneByOne
  <1> QED BY <1>6, <1>9, <1>11 DEF n, old, S, HasGrown

\* A file that is written up to x has the blocks for its size.
IsEnough(info, more, x) ==
    /\ Greater(info.fsize, x) \in 0..MaxSize
    /\ NrBlocks(Greater(info.fsize, x)) = Len(info.blockNrs) + more
    /\ NrBlocks(x) <= Len(info.blockNrs) + more
    /\ more # 0 => NrBlocks(x) = Len(info.blockNrs) + more

LEMMA EnoughIs ==
    ASSUME NEW info \in InfoValue, Len(info.blockNrs) = NrBlocks(info.fsize),
           NEW x \in 0..MaxSize
    PROVE  /\ Greater(0, NrBlocks(x) - Len(info.blockNrs)) \in Nat
           /\ IsEnough(info, Greater(0, NrBlocks(x) - Len(info.blockNrs)), x)
  <1> DEFINE fsize == Greater(info.fsize, x)
             more == Greater(0, NrBlocks(x) - Len(info.blockNrs))
  <1>1. info.fsize \in 0..MaxSize /\ MaxSize \in Nat
    BY InfoFields, MultiFileAssumption
  <1>2. fsize \in 0..MaxSize /\ fsize = IF info.fsize < x THEN x ELSE info.fsize
    BY <1>1 DEF Greater
  <1>3. NrBlocks(x) \in Nat /\ NrBlocks(info.fsize) \in Nat
    <2>1. x \in Nat /\ info.fsize \in Nat
      BY <1>1
    <2> QED BY <2>1, NrBlocksIs
  <1>4. info.fsize < x => NrBlocks(info.fsize) <= NrBlocks(x)
    BY <1>1, NrBlocksMonotone
  <1>5. ~(info.fsize < x) => NrBlocks(x) <= NrBlocks(info.fsize)
    BY <1>1, NrBlocksMonotone
  <1>6. more = IF NrBlocks(x) - Len(info.blockNrs) > 0 THEN NrBlocks(x) - Len(info.blockNrs)
               ELSE 0
    BY <1>3 DEF Greater
  <1> HIDE DEF more, fsize
  <1>7. more \in Nat
    BY <1>3, <1>6
  <1>8. NrBlocks(fsize) = Len(info.blockNrs) + more
    <2>1. CASE info.fsize < x
      BY <1>2, <1>3, <1>4, <1>6, <2>1
    <2>2. CASE ~(info.fsize < x)
      BY <1>2, <1>3, <1>5, <1>6, <2>2
    <2> QED BY <2>1, <2>2
  <1>9. /\ NrBlocks(x) <= Len(info.blockNrs) + more
        /\ more # 0 => NrBlocks(x) = Len(info.blockNrs) + more
    BY <1>3, <1>6
  <1> QED BY <1>2, <1>7, <1>8, <1>9 DEF IsEnough, more, fsize

\* What a write makes of the copy of the header and of the file.
WroteMem(m, d, id, w, d2, offset, size, value) ==
    /\ MemOk(w, d2) /\ Len(d) <= Len(d2)
    /\ IsWritten(m.info[id], d, w.info[id], d2, offset, size, value)
    /\ \A b \in 1..Len(d) :
        (\A k \in DOMAIN w.info[id].blockNrs : w.info[id].blockNrs[k] # b) => d2[b] = d[b]

LEMMA WrittenIs ==
    ASSUME NEW m \in MemValue, NEW d \in DiskValue, MemOk(m, d),
           NEW id \in DOMAIN m.info, m.info[id].name # None,
           NEW offset \in Nat, NEW size \in Nat \ {0}, NEW value,
           NEW more \in Nat, IsEnough(m.info[id], more, offset + size),
           NEW new \in [1..more -> m.freeBlocks \cup (m.nrBlock..MaxBlocks)],
           IsAllocation(m, new), NEW grown \in MemValue, IsGrown(m, grown, id, new),
           NEW start, start.info = grown.info[id], start.disk = d,
           NEW s, PutDone(s, start, Len(m.info[id].blockNrs), offset, size, value,
                          NrTurns(offset, size)),
           NEW w \in MemValue, DOMAIN w.info = DOMAIN m.info,
           \A i \in DOMAIN m.info \ {id} : w.info[i] = m.info[i],
           w.nrBlock = grown.nrBlock, w.freeBlocks = grown.freeBlocks,
           w.info[id].name = s.info.name, w.info[id].blockNrs = s.info.blockNrs,
           w.info[id].fsize = Greater(m.info[id].fsize, offset + size),
           w.info[id].curBlock = s.info.curBlock, w.info[id].dirty = s.info.dirty,
           w.info[id].data = s.info.data
    PROVE  WroteMem(m, d, id, w, s.disk, offset, size, value)
  <1> DEFINE info == m.info[id]
             nrold == Len(info.blockNrs)
             n == NrTurns(offset, size)
             first == FirstBlock(offset)
             last == first + n
             nrs == grown.info[id].blockNrs
             x == w.info[id]
  <1>1. /\ Placed(m) /\ info \in InfoValue /\ InfoOk(info, d) /\ nrold \in Nat
        /\ nrold = NrBlocks(info.fsize) /\ info.fsize \in 0..MaxSize
        /\ DOMAIN info.blockNrs = 1..nrold /\ info.curBlock < nrold
        /\ x \in InfoValue /\ grown.info[id] \in InfoValue
    <2>1. grown.info[id] \in InfoValue
      BY MemFields DEF IsGrown
    <2> QED BY <2>1, MemFields, InfoFields DEF MemOk, Placed, InfoOk, BufferPlaced
  <1>2. first \in Nat /\ n \in Nat \ {0} /\ last = NrBlocks(offset + size)
        /\ last \in Nat \ {0} /\ first + n - 1 = last - 1
    <2>1. first \in Nat /\ n \in Nat \ {0} /\ last = NrBlocks(offset + size)
      BY TurnsIs
    <2> HIDE DEF first, n
    <2> QED BY <2>1
  <1>3. /\ nrs \in Seq(1..MaxBlocks) /\ Len(nrs) = nrold + more
        /\ DOMAIN nrs = 1..(nrold + more)
        /\ \A k \in 1..nrold : nrs[k] = info.blockNrs[k]
        /\ \A k, l \in 1..(nrold + more) : k > nrold /\ k <= l => nrs[k] <= nrs[l]
        /\ OneByOne(nrs)
    <2>1. nrs = Joined(info.blockNrs, new) /\ m \in MemValue /\ Placed(m) /\ id \in DOMAIN m.info
      BY <1>1 DEF IsGrown
    <2>2. more \in Nat /\ new \in [1..more -> m.freeBlocks \cup (m.nrBlock..MaxBlocks)]
          /\ IsAllocation(m, new)
      OBVIOUS
    <2> HIDE DEF nrs
    <2>3. HasGrown(m.info[id].blockNrs, more, nrs)
      BY ONLY <2>1, <2>2, GrownBlocks
    <2> QED BY <2>3 DEF HasGrown
  <1>4. \A k \in 1..(nrold + more) : nrs[k] \in Nat
    <2>1. \A k \in DOMAIN nrs : nrs[k] \in 1..MaxBlocks
      BY <1>1, InfoFields
    <2> HIDE DEF nrs, nrold
    <2> QED BY <1>3, <2>1
  <1>5. /\ NrBlocks(x.fsize) = nrold + more /\ last <= nrold + more
        /\ more # 0 => last = nrold + more
    BY <1>2 DEF IsEnough
  <1>6. /\ start.info.blockNrs = nrs /\ start.info.curBlock = info.curBlock
        /\ start.info.dirty = info.dirty /\ start.info.data = info.data
        /\ start.info.name = info.name
    BY DEF IsGrown
  <1>7. /\ TurnOk(s.info, s.disk, start.info, nrold) /\ Len(d) <= Len(s.disk)
        /\ \A b \in 1..Len(d) : (\A k \in DOMAIN nrs : nrs[k] # b) => s.disk[b] = d[b]
        /\ n # 0 => \/ nrs[first + n] <= Len(s.disk)
                    \/ s.info.dirty /\ s.info.curBlock = first + n - 1
    BY <1>6 DEF PutDone
  <1>8. x.blockNrs = nrs /\ x.name = info.name
    BY <1>6, <1>7 DEF TurnOk
  <1>9. s.disk \in DiskValue /\ Len(s.disk) \in Nat
    BY <1>7, DiskFields DEF TurnOk
  \* Each block has one place.
  <1>10. Placed(w)
    <2>1. IsExtended(m, w, id, new)
      BY <1>8 DEF IsExtended, IsGrown, Joined
    <2>2. Len(w.info[id].blockNrs) = NrBlocks(w.info[id].fsize)
      BY <1>3, <1>5, <1>8
    <2> QED BY <1>1, <2>1, <2>2, ExtendedPlaced
  \* And each block can be read.
  <1>11. BufferPlaced(x)
    <2>1. BufferPlaced(s.info) /\ s.info.blockNrs = nrs
      BY <1>6, <1>7 DEF TurnOk
    <2> QED BY <1>8, <2>1 DEF BufferPlaced
  <1> HIDE DEF info, nrold, n, first, nrs, x
  <1>12. ASSUME NEW k \in 1..(nrold + more)
         PROVE  nrs[k] <= Len(s.disk) \/ (x.dirty /\ nrs[k] <= nrs[x.curBlock + 1])
    <2>1. CASE k \in 1..nrold
      <3>1. \/ s.info.blockNrs[k] <= Len(s.disk)
            \/ s.info.dirty /\ s.info.blockNrs[k] <= s.info.blockNrs[s.info.curBlock + 1]
        BY <1>7, <2>1 DEF TurnOk, ReachedTo
      <3>2. s.info.blockNrs = nrs /\ s.info.dirty = x.dirty /\ s.info.curBlock = x.curBlock
        BY <1>6, <1>7 DEF TurnOk, x
      <3> QED BY <3>1, <3>2
    <2>2. CASE k \notin 1..nrold
      <3>1. k > nrold /\ more # 0
        BY <1>1, <2>2
      <3>2. last = nrold + more /\ last \in 1..(nrold + more) /\ k <= last
        BY <1>1, <1>2, <1>5, <3>1
      <3>3. nrs[k] <= nrs[last]
        BY <1>3, <3>1, <3>2
      <3>4. \/ nrs[last] <= Len(s.disk)
            \/ x.dirty /\ x.curBlock + 1 = last
        <4>1. \/ nrs[first + n] <= Len(s.disk)
              \/ s.info.dirty /\ s.info.curBlock = last - 1
          BY <1>2, <1>7
        <4>2. s.info.dirty = x.dirty /\ s.info.curBlock = x.curBlock
          BY DEF x
        <4>3. (last - 1) + 1 = last
          BY <1>2
        <4> QED BY <4>1, <4>2, <4>3
      <3>5. nrs[k] \in Nat /\ nrs[last] \in Nat
        BY <1>4, <3>2
      <3> HIDE DEF last
      <3> QED BY <1>9, <3>3, <3>4, <3>5
    <2> QED BY <2>1, <2>2
  <1>13. InfoOk(x, s.disk)
    <2>1. ReachedTo(x, s.disk, Len(x.blockNrs))
      BY <1>3, <1>8, <1>12 DEF ReachedTo
    <2>2. x.name # None
      BY <1>8 DEF info
    <2> QED BY <1>11, <2>1, <2>2 DEF InfoOk
  <1>14. MemOk(w, s.disk)
    <2>1. MemOk(m, s.disk)
      BY <1>7, <1>9, MemOkMore
    <2>2. \A i \in DOMAIN w.info : InfoOk(w.info[i], s.disk)
      BY <1>13, <2>1 DEF MemOk, x
    <2> QED BY <1>10, <2>2 DEF MemOk
  <1>15. IsWritten(info, d, x, s.disk, offset, size, value)
    <2>1. /\ nrold <= Len(start.info.blockNrs) /\ Len(start.info.blockNrs) \in Nat
          /\ \A k \in 1..nrold : start.info.blockNrs[k] = info.blockNrs[k]
          /\ FirstBlock(offset) + NrTurns(offset, size) <= Len(start.info.blockNrs)
      <3>1. nrold \in Nat /\ nrold <= nrold + more /\ nrold + more \in Nat
        BY <1>1
      <3>2. FirstBlock(offset) + NrTurns(offset, size) <= nrold + more
        BY <1>5 DEF first, n
      <3> QED BY <1>3, <1>6, <3>1, <3>2
    <2>2. IsWritten(info, start.disk, s.info, s.disk, offset, size, value)
      BY <1>1, <1>6, <2>1, WrittenUnits DEF nrold, info
    <2>3. /\ x.blockNrs = s.info.blockNrs /\ x.curBlock = s.info.curBlock
          /\ x.dirty = s.info.dirty /\ x.data = s.info.data /\ start.disk = d
      BY DEF x
    <2> QED BY <2>2, <2>3 DEF IsWritten, Present, BufferTrue, UnitAt, BlockAt
  <1> QED BY <1>7, <1>8, <1>14, <1>15 DEF WroteMem, info, x, nrs

-----------------------------------------------------------------------------
(* The invariant is inductive.                                               *)

LEMMA NewInfoOk ==
    ASSUME NEW name \in Names \cup {None}, NEW d
    PROVE  InfoOk(NewInfo(name), d)
  <1> DEFINE info == NewInfo(name)
  <1>1. /\ info.blockNrs = <<>> /\ Len(info.blockNrs) = 0 /\ info.curBlock = -1
        /\ ~info.dirty
    BY NewInfoIs
  <1> HIDE DEF info
  <1>2. BufferPlaced(info) /\ ReachedTo(info, d, Len(info.blockNrs))
    BY <1>1 DEF BufferPlaced, ReachedTo
  <1>3. InfoOk(info, d)
    BY <1>1, <1>2 DEF InfoOk
  <1> QED BY <1>3 DEF info

LEMMA DeletedOk ==
    ASSUME NEW m \in MemValue, NEW d \in DiskValue, MemOk(m, d), NEW id \in DOMAIN m.info
    PROVE  Deleted(m, id) \in MemValue /\ MemOk(Deleted(m, id), d)
  <1> DEFINE n == Deleted(m, id)
  <1>1. /\ n \in MemValue /\ DOMAIN n.info = DOMAIN m.info
        /\ \A i \in DOMAIN m.info : n.info[i] = IF i = id THEN NoInfo ELSE m.info[i]
    BY DeletedIs
  <1>2. Placed(n)
    BY DeletedPlaced DEF MemOk
  <1>3. InfoOk(NoInfo, d)
    BY NewInfoOk DEF NoInfo
  <1> HIDE DEF n
  <1>4. \A i \in DOMAIN n.info : InfoOk(n.info[i], d)
    BY <1>1, <1>3 DEF MemOk
  <1>5. n \in MemValue /\ MemOk(n, d)
    BY <1>1, <1>2, <1>4 DEF MemOk
  <1> QED BY <1>5 DEF n

LEMMA AddedOk ==
    ASSUME NEW m \in MemValue, NEW d \in DiskValue, MemOk(m, d), NEW name \in Names
    PROVE  Added(m, name) \in MemValue /\ MemOk(Added(m, name), d)
  <1> DEFINE n == Added(m, name)
  <1>1. \A i \in DOMAIN m.info : m.info[i].name = None => m.info[i].blockNrs = <<>>
    BY DEF MemOk, InfoOk
  <1>2. Placed(n)
    BY <1>1, AddedPlaced DEF MemOk
  <1>3. PICK id \in 1..(Len(m.info) + 1) :
            /\ n \in MemValue /\ DOMAIN n.info = DOMAIN m.info \cup {id}
            /\ \A i \in DOMAIN m.info \cup {id} :
                    n.info[i] = IF i = id THEN NewInfo(name) ELSE m.info[i]
    BY AddedIs
  <1>4. InfoOk(NewInfo(name), d)
    BY NewInfoOk
  <1> HIDE DEF n
  <1>5. \A i \in DOMAIN n.info : InfoOk(n.info[i], d)
    BY <1>3, <1>4 DEF MemOk
  <1>6. n \in MemValue /\ MemOk(n, d)
    BY <1>2, <1>3, <1>5 DEF MemOk
  <1> QED BY <1>6 DEF n

LEMMA InitIs ==
    ASSUME Init
    PROVE  IInv
  <1>1. <<>> \in DiskValue
    BY MultiFileAssumption DEF DiskValue
  <1>2. EmptyHeader \in HeaderValue /\ HeaderOk(EmptyHeader, <<>>)
        /\ FromHeader(EmptyHeader) \in MemValue /\ MemOk(FromHeader(EmptyHeader), <<>>)
    BY <1>1, EmptyOk
  <1>3. TypeInv
    BY <1>1, <1>2, MultiFileAssumption DEF Init, TypeInv
  <1>4. HeaderOk(header, disk) /\ \A p \in Proc : MemOk(mem[p], disk)
    BY <1>2 DEF Init
  <1> QED BY <1>3, <1>4 DEF IInv, Init

\* The step of a process that changes its copy, or the file, and neither the lock
\* nor the header in the file.
LEMMA HolderSteps ==
    ASSUME IInv, NEW p \in Proc, NEW m \in MemValue, mem' = [mem EXCEPT ![p] = m],
           disk' \in DiskValue, Len(disk) <= Len(disk'), MemOk(m, disk'),
           UNCHANGED <<opened, holder, stage, header>>,
           gaps' \in [Names -> SUBSET (1..MaxSize)], touched' \subseteq Names,
           changes' \in 0..MaxChange
    PROVE  IInv'
  <1>1. /\ mem' \in [Proc -> MemValue] /\ HeaderOk(header', disk')
        /\ \A q \in Proc : MemOk(mem'[q], disk')
    BY OneCopy
  <1>2. TypeInv'
    BY <1>1 DEF IInv, TypeInv
  <1>3. (stage # "ready" => holder # None)'
    BY DEF IInv
  <1> QED BY <1>1, <1>2, <1>3 DEF IInv

LEMMA AcquireSteps ==
    ASSUME IInv, NEW p \in Proc, Acquire(p)
    PROVE  IInv'
  <1>1. FromHeader(header) \in MemValue /\ MemOk(FromHeader(header), disk)
    BY FromHeaderOk DEF IInv, TypeInv
  <1>2. /\ mem' \in [Proc -> MemValue] /\ HeaderOk(header', disk')
        /\ \A q \in Proc : MemOk(mem'[q], disk')
    <2>1. header' = header /\ disk' = disk /\ disk' \in DiskValue /\ Len(disk) <= Len(disk')
      BY DiskFields DEF Acquire, fileVars, IInv, TypeInv
    <2>2. CASE Resyncs
      <3>1. mem' = [mem EXCEPT ![p] = FromHeader(header)]
        BY <2>2 DEF Acquire
      <3> QED BY <1>1, <2>1, <3>1, OneCopy
    <2>3. CASE ~Resyncs
      <3>1. mem' = mem
        BY <2>3 DEF Acquire
      <3> QED BY <2>1, <3>1 DEF IInv, TypeInv
    <2> QED BY <2>2, <2>3
  <1>3. TypeInv'
    BY <1>2 DEF IInv, TypeInv, Acquire, fileVars, historyVars
  <1>4. (stage # "ready" => holder # None)'
    BY DEF IInv, Acquire
  <1> QED BY <1>2, <1>3, <1>4 DEF IInv

LEMMA FlushSteps ==
    ASSUME IInv, NEW p \in Proc, Flush(p)
    PROVE  IInv'
  <1>1. /\ mem' = mem /\ opened' = opened /\ holder' = holder /\ header' = header
        /\ disk' = disk /\ gaps' = gaps /\ touched' = touched /\ changes' = changes
        /\ stage' \in {"flush", "release"} /\ holder # None
    BY MultiFileAssumption DEF Flush, Holds, fileVars, historyVars
  <1>2. TypeInv'
    BY <1>1 DEF IInv, TypeInv
  <1> QED BY <1>1, <1>2 DEF IInv

LEMMA OpenSteps ==
    ASSUME IInv, NEW p \in Proc, Open(p)
    PROVE  IInv'
  <1>1. FromHeader(header) \in MemValue /\ MemOk(FromHeader(header), disk)
    BY FromHeaderOk DEF IInv, TypeInv
  <1>2. header' = header /\ disk' = disk /\ disk' \in DiskValue /\ Len(disk) <= Len(disk')
    BY DiskFields DEF Open, fileVars, IInv, TypeInv
  <1>3. /\ mem' \in [Proc -> MemValue] /\ HeaderOk(header', disk')
        /\ \A q \in Proc : MemOk(mem'[q], disk')
    BY <1>1, <1>2, OneCopy DEF Open
  <1>4. TypeInv'
    BY <1>2, <1>3 DEF IInv, TypeInv, Open, fileVars, historyVars
  <1>5. (stage # "ready" => holder # None)'
    BY DEF IInv, Open
  <1> QED BY <1>3, <1>4, <1>5 DEF IInv

LEMMA CrashSteps ==
    ASSUME IInv, Crash
    PROVE  IInv'
  <1>1. holder \in Proc /\ disk \in DiskValue
    BY DEF Crash, IInv, TypeInv
  <1>2. FromHeader(EmptyHeader) \in MemValue /\ MemOk(FromHeader(EmptyHeader), disk)
    BY <1>1, EmptyOk
  <1>3. header' = header /\ disk' = disk /\ disk' \in DiskValue /\ Len(disk) <= Len(disk')
    BY <1>1, DiskFields DEF Crash, fileVars
  <1>4. /\ mem' \in [Proc -> MemValue] /\ HeaderOk(header', disk')
        /\ \A q \in Proc : MemOk(mem'[q], disk')
    BY <1>1, <1>2, <1>3, OneCopy DEF Crash
  <1>5. gaps' \in [Names -> SUBSET (1..MaxSize)] /\ touched' = {}
    BY DEF Crash, IInv, TypeInv
  <1>6. TypeInv'
    BY <1>3, <1>4, <1>5 DEF IInv, TypeInv, Crash, fileVars
  <1>7. (stage # "ready" => holder # None)'
    BY DEF Crash
  <1> QED BY <1>4, <1>6, <1>7 DEF IInv

LEMMA FlushDirtySteps ==
    ASSUME IInv, FlushDirty
    PROVE  IInv'
  <1> DEFINE m == mem[holder]
  <1>1. holder \in Proc /\ m \in MemValue /\ disk \in DiskValue /\ MemOk(m, disk)
    BY DEF FlushDirty, IInv, TypeInv
  <1>2. PICK i \in Dirty(m) :
            /\ disk' = Flushed(m.info[i], disk)
            /\ mem' = [mem EXCEPT ![holder].info[i].dirty = FALSE]
    BY DEF FlushDirty
  <1> DEFINE info == m.info[i]
             x == [info EXCEPT !.dirty = FALSE]
             w == [m EXCEPT !.info[i] = x]
  <1>3. i \in DOMAIN m.info /\ info \in InfoValue /\ InfoOk(info, disk) /\ info.dirty
    BY <1>1, <1>2, MemFields DEF Dirty, MemOk
  <1>4. mem' = [mem EXCEPT ![holder] = w]
    BY <1>1, <1>2
  <1> HIDE DEF m, info
  <1>5. /\ x \in InfoValue /\ x.blockNrs = info.blockNrs /\ x.name = info.name
        /\ x.fsize = info.fsize /\ x.curBlock = info.curBlock /\ ~x.dirty
    BY <1>3 DEF InfoValue
  <1>6. w = [m EXCEPT !.info[i] = x]
    OBVIOUS
  <1> HIDE DEF x, w
  <1>7. /\ w \in MemValue /\ DOMAIN w.info = DOMAIN m.info /\ w.info[i] = x
        /\ \A j \in DOMAIN m.info \ {i} : w.info[j] = m.info[j]
        /\ w.nrBlock = m.nrBlock /\ w.freeBlocks = m.freeBlocks
    BY <1>1, <1>3, <1>5, <1>6, MemExcept
  <1>8. /\ disk' \in DiskValue /\ Len(disk) <= Len(disk')
        /\ \A k \in 1..Len(info.blockNrs) : info.blockNrs[k] <= Len(disk')
    <2>1. Len(info.blockNrs) \in Nat /\ BufferPlaced(info)
          /\ ReachedTo(info, disk, Len(info.blockNrs))
      BY <1>3, InfoFields DEF InfoOk
    <2>2. disk' = Flushed(info, disk)
      BY <1>2 DEF info
    <2> QED BY <1>1, <1>3, <2>1, <2>2, FlushedIs
  <1>9. TurnOk(x, disk', m.info[i], Len(m.info[i].blockNrs))
    <2>1. BufferPlaced(x) /\ x.curBlock < Len(info.blockNrs)
      BY <1>3, <1>5 DEF InfoOk, BufferPlaced
    <2>2. ReachedTo(x, disk', Len(info.blockNrs))
      BY <1>5, <1>8 DEF ReachedTo
    <2> QED BY <1>5, <1>8, <2>1, <2>2 DEF TurnOk, info
  <1>10. MemOk(w, disk')
    BY <1>1, <1>3, <1>7, <1>8, <1>9, MemOkOne
  <1>11. /\ UNCHANGED <<opened, holder, stage, header>>
         /\ gaps' = gaps /\ touched' = touched /\ changes' = changes
    BY DEF FlushDirty, historyVars
  <1>12. /\ gaps' \in [Names -> SUBSET (1..MaxSize)] /\ touched' \subseteq Names
         /\ changes' \in 0..MaxChange
    BY <1>11 DEF IInv, TypeInv
  <1> QED BY <1>1, <1>4, <1>7, <1>8, <1>10, <1>11, <1>12, HolderSteps

\* The header of a copy whose buffers are all in the file.
LEMMA HeaderWritten ==
    ASSUME NEW m \in MemValue, NEW d \in DiskValue, MemOk(m, d), Dirty(m) = {}
    PROVE  HeaderOf(m) \in HeaderValue /\ HeaderOk(HeaderOf(m), d)
  <1> DEFINE h == HeaderOf(m)
  <1>1. /\ h \in HeaderValue /\ DOMAIN h.info = DOMAIN m.info
        /\ \A i \in DOMAIN m.info :
            /\ h.info[i].name = m.info[i].name
            /\ h.info[i].blockNrs = m.info[i].blockNrs
            /\ h.info[i].fsize = m.info[i].fsize
        /\ h.nrBlock = m.nrBlock /\ h.freeBlocks = m.freeBlocks
    BY HeaderOfIs
  <1> HIDE DEF h
  <1>2. Placed(h)
    BY <1>1, PlacedSame DEF MemOk
  <1>3. ASSUME NEW i \in DOMAIN m.info, NEW k \in DOMAIN m.info[i].blockNrs
        PROVE  m.info[i].blockNrs[k] <= Len(d)
    <2>1. ~m.info[i].dirty /\ k \in 1..Len(m.info[i].blockNrs)
      BY MemFields, InfoFields DEF Dirty
    <2> QED BY <2>1 DEF MemOk, InfoOk, ReachedTo
  <1>4. HeaderOk(h, d)
    BY <1>1, <1>2, <1>3 DEF HeaderOk, MemOk, InfoOk
  <1> QED BY <1>1, <1>4 DEF h

LEMMA FlushHeaderSteps ==
    ASSUME IInv, FlushHeader
    PROVE  IInv'
  <1> DEFINE m == mem[holder]
             w == [m EXCEPT !.changed = FALSE]
  <1>1. holder \in Proc /\ m \in MemValue /\ disk \in DiskValue /\ MemOk(m, disk)
        /\ disk' = disk /\ Dirty(m) = {} /\ header \in HeaderValue /\ HeaderOk(header, disk)
    BY DEF FlushHeader, IInv, TypeInv
  <1>2. header' = header \/ header' = HeaderOf(m)
    BY DEF FlushHeader
  <1>3. mem' = [mem EXCEPT ![holder] = w]
    BY DEF FlushHeader
  <1> HIDE DEF m
  <1>4. HeaderOf(m) \in HeaderValue /\ HeaderOk(HeaderOf(m), disk)
    BY <1>1, HeaderWritten
  <1>5. header' \in HeaderValue /\ HeaderOk(header', disk')
    BY <1>1, <1>2, <1>4
  <1>6. /\ w \in MemValue /\ w.info = m.info /\ w.nrBlock = m.nrBlock
        /\ w.freeBlocks = m.freeBlocks
    BY <1>1 DEF MemValue
  <1> HIDE DEF w
  <1>7. MemOk(w, disk')
    BY <1>1, <1>6, PlacedSame DEF MemOk
  <1>8. disk' \in DiskValue /\ Len(disk) <= Len(disk')
    BY <1>1, DiskFields
  <1>9. /\ mem' \in [Proc -> MemValue] /\ HeaderOk(header', disk')
        /\ \A q \in Proc : MemOk(mem'[q], disk')
    BY <1>1, <1>3, <1>5, <1>6, <1>7, <1>8, OneCopy
  <1>10. TypeInv'
    BY <1>5, <1>8, <1>9 DEF IInv, TypeInv, FlushHeader
  <1>11. (stage # "ready" => holder # None)'
    BY DEF FlushHeader
  <1> QED BY <1>9, <1>10, <1>11 DEF IInv

\* The variables that a call which changes a virtual file keeps or counts.
LEMMA ChangeCounted ==
    ASSUME IInv, NEW p, NEW name \in Names, Changes(p, name)
    PROVE  touched' \subseteq Names /\ changes' \in 0..MaxChange
           /\ holder = p /\ stage = "ready"
  BY MultiFileAssumption DEF Changes, Holds, IInv, TypeInv

\* The name of a file that there is.
LEMMA NameIs ==
    ASSUME NEW m \in MemValue, NEW id \in Ids(m)
    PROVE  id \in DOMAIN m.info /\ m.info[id].name \in Names /\ m.info[id].name # None
  BY MemFields, InfoFields DEF Ids

LEMMA NewSteps ==
    ASSUME IInv, NEW p \in Proc, NEW name \in Names, New(p, name)
    PROVE  IInv'
  <1> DEFINE m == mem[p]
  <1>1. m \in MemValue /\ disk \in DiskValue /\ MemOk(m, disk) /\ disk' = disk
        /\ Len(disk) <= Len(disk')
    BY DiskFields DEF IInv, TypeInv, New, fileVars
  <1>2. \E w \in MemValue : mem' = [mem EXCEPT ![p] = w] /\ MemOk(w, disk)
    <2>1. CASE InUse(m, name)
      <3>1. PICK id \in Ids(m) : mem' = [mem EXCEPT ![p] = Added(Deleted(m, id), name)]
        BY <2>1 DEF New
      <3>2. Deleted(m, id) \in MemValue /\ MemOk(Deleted(m, id), disk)
        BY <1>1, DeletedOk, NameIs
      <3>3. /\ Added(Deleted(m, id), name) \in MemValue
            /\ MemOk(Added(Deleted(m, id), name), disk)
        BY <1>1, <3>2, AddedOk
      <3> QED BY <3>1, <3>3
    <2>2. CASE ~InUse(m, name)
      <3>1. mem' = [mem EXCEPT ![p] = Added(m, name)]
        BY <2>2 DEF New
      <3>2. Added(m, name) \in MemValue /\ MemOk(Added(m, name), disk)
        BY <1>1, AddedOk
      <3> QED BY <3>1, <3>2
    <2> QED BY <2>1, <2>2
  <1>3. touched' \subseteq Names /\ changes' \in 0..MaxChange
    BY ChangeCounted DEF New
  <1>4. gaps' \in [Names -> SUBSET (1..MaxSize)]
    BY DEF New, IInv, TypeInv
  <1>5. UNCHANGED <<opened, holder, stage, header>>
    BY DEF New, fileVars
  <1> QED BY <1>1, <1>2, <1>3, <1>4, <1>5, HolderSteps

LEMMA RemoveFileSteps ==
    ASSUME IInv, NEW p \in Proc, NEW id \in DOMAIN mem[p].info, RemoveFile(p, id)
    PROVE  IInv'
  <1> DEFINE m == mem[p]
             w == Deleted(m, id)
             name == m.info[id].name
  <1>1. m \in MemValue /\ disk \in DiskValue /\ MemOk(m, disk) /\ disk' = disk
        /\ Len(disk) <= Len(disk') /\ id \in DOMAIN m.info /\ name \in Names
    BY DiskFields, NameIs DEF IInv, TypeInv, RemoveFile, fileVars
  <1>2. w \in MemValue /\ MemOk(w, disk)
    BY <1>1, DeletedOk
  <1>3. mem' = [mem EXCEPT ![p] = w]
    BY DEF RemoveFile
  <1>4. touched' \subseteq Names /\ changes' \in 0..MaxChange
    BY <1>1, ChangeCounted DEF RemoveFile
  <1>5. gaps' \in [Names -> SUBSET (1..MaxSize)]
    BY <1>1 DEF RemoveFile, IInv, TypeInv
  <1>6. UNCHANGED <<opened, holder, stage, header>>
    BY DEF RemoveFile, fileVars
  <1> QED BY <1>1, <1>2, <1>3, <1>4, <1>5, <1>6, HolderSteps

\* The loop of read runs over blocks that the file has.
LEMMA ReadIs ==
    ASSUME IInv, NEW p \in Proc, NEW id \in DOMAIN mem[p].info, NEW offset \in Nat,
           NEW size \in Nat \ {0}, offset < mem[p].info[id].fsize
    PROVE  LET todo == Todo(mem[p].info[id], offset, size)
           IN  /\ todo \in Nat \ {0} /\ offset + todo <= mem[p].info[id].fsize
               /\ \E start : /\ start.info = mem[p].info[id] /\ start.disk = disk
                             /\ GetDone(Got(p, id, offset, size), start, offset, todo,
                                        NrTurns(offset, todo))
  <1> DEFINE info == mem[p].info[id]
             todo == Todo(info, offset, size)
             n == NrTurns(offset, todo)
             start == [info |-> info, disk |-> disk, done |-> <<>>]
  <1>1. /\ info \in InfoValue /\ disk \in DiskValue /\ InfoOk(info, disk)
        /\ Len(info.blockNrs) = NrBlocks(info.fsize) /\ OneByOne(info.blockNrs)
        /\ info.fsize \in 0..MaxSize /\ Len(info.blockNrs) \in Nat
    <2>1. mem[p] \in MemValue /\ MemOk(mem[p], disk) /\ disk \in DiskValue
      BY DEF IInv, TypeInv
    <2>2. info \in InfoValue /\ InfoOk(info, disk) /\ Placed(mem[p])
      BY <2>1, MemFields DEF MemOk
    <2> QED BY <2>1, <2>2, InfoFields DEF Placed, OneByOne
  <1>2. todo \in Nat \ {0} /\ offset + todo <= info.fsize
    <2>1. info.fsize \in Nat /\ offset < info.fsize
      BY <1>1, MultiFileAssumption
    <2> HIDE DEF info
    <2> QED BY <2>1 DEF Todo, Lesser
  <1> HIDE DEF todo
  <1>3. n \in Nat /\ FirstBlock(offset) \in Nat
        /\ FirstBlock(offset) + n = NrBlocks(offset + todo)
    BY <1>2, TurnsIs
  <1>4. FirstBlock(offset) + n <= Len(info.blockNrs) /\ FirstBlock(offset) + n <= MaxSize
    <2>1. offset + todo \in Nat /\ info.fsize \in Nat /\ MaxSize \in Nat
          /\ info.fsize <= MaxSize
      BY <1>1, <1>2, MultiFileAssumption
    <2>2. NrBlocks(offset + todo) <= NrBlocks(info.fsize)
          /\ NrBlocks(info.fsize) <= info.fsize
          /\ NrBlocks(info.fsize) \in Nat /\ NrBlocks(offset + todo) \in Nat
      BY <1>2, <2>1, NrBlocksMonotone, NrBlocksIs
    <2> HIDE DEF info, n
    <2> QED BY <1>1, <1>3, <2>1, <2>2
  <1>5. PICK after : /\ GetRuns(after, n, start, offset, todo)
                     /\ Got(p, id, offset, size) = after[n]
    BY <1>3, GotIs DEF todo
  <1>6. start.info = info /\ start.disk = disk /\ start.done = <<>>
    OBVIOUS
  <1>7. TurnOk(info, disk, info, Len(info.blockNrs))
    BY <1>1, InfoOkIsTurnOk
  <1> HIDE DEF start, info
  <1>8. GetDone(after[n], start, offset, todo, n)
    BY <1>1, <1>2, <1>4, <1>5, <1>6, <1>7, GetLoop
  <1> QED BY <1>2, <1>5, <1>6, <1>8 DEF info, todo

LEMMA ReadSteps ==
    ASSUME IInv, NEW p \in Proc, NEW id \in DOMAIN mem[p].info, NEW offset \in 0..(MaxSize - 1),
           NEW size \in 1..(MaxSize - offset), Read(p, id, offset, size)
    PROVE  IInv'
  <1> DEFINE m == mem[p]
             got == Got(p, id, offset, size)
             x == got.info
             w == [m EXCEPT !.info[id] = x]
             todo == Todo(m.info[id], offset, size)
  <1>1. m \in MemValue /\ disk \in DiskValue /\ MemOk(m, disk) /\ id \in DOMAIN m.info
        /\ mem \in [Proc -> MemValue]
    BY DEF IInv, TypeInv
  <1>2. offset \in Nat /\ size \in Nat \ {0} /\ offset < m.info[id].fsize
    BY MultiFileAssumption DEF Read, Readable
  <1>3. PICK start : /\ start.info = m.info[id] /\ start.disk = disk
                     /\ GetDone(got, start, offset, todo, NrTurns(offset, todo))
    BY <1>2, ReadIs
  <1>4. disk' = got.disk /\ mem' = [mem EXCEPT ![p].info[id] = x]
    BY DEF Read
  <1>5. mem' = [mem EXCEPT ![p] = w]
    BY <1>1, <1>4
  <1> HIDE DEF m, got
  <1>6. /\ TurnOk(x, disk', m.info[id], Len(m.info[id].blockNrs)) /\ Len(disk) <= Len(disk')
        /\ disk' \in DiskValue /\ x \in InfoValue
    BY <1>3, <1>4 DEF GetDone, TurnOk
  <1>7. w = [m EXCEPT !.info[id] = x]
    OBVIOUS
  <1> HIDE DEF x, w
  <1>8. /\ w \in MemValue /\ DOMAIN w.info = DOMAIN m.info /\ w.info[id] = x
        /\ \A j \in DOMAIN m.info \ {id} : w.info[j] = m.info[j]
        /\ w.nrBlock = m.nrBlock /\ w.freeBlocks = m.freeBlocks
    BY <1>1, <1>6, <1>7, MemExcept
  <1>9. MemOk(w, disk')
    BY <1>1, <1>6, <1>8, MemOkOne
  <1>10. /\ UNCHANGED <<opened, holder, stage, header>>
         /\ gaps' = gaps /\ touched' = touched /\ changes' = changes
    BY DEF Read, historyVars
  <1>11. /\ gaps' \in [Names -> SUBSET (1..MaxSize)] /\ touched' \subseteq Names
         /\ changes' \in 0..MaxChange
    BY <1>10 DEF IInv, TypeInv
  <1> QED BY <1>5, <1>6, <1>8, <1>9, <1>10, <1>11, HolderSteps

\* The loop of write runs over blocks that the file has by then.
LEMMA StartOk ==
    ASSUME NEW m \in MemValue, NEW d \in DiskValue, MemOk(m, d), NEW id \in DOMAIN m.info,
           NEW offset \in Nat, NEW size \in Nat \ {0}, offset + size <= MaxSize,
           NEW more \in Nat, IsEnough(m.info[id], more, offset + size),
           NEW new \in [1..more -> m.freeBlocks \cup (m.nrBlock..MaxBlocks)],
           IsAllocation(m, new), NEW grown \in MemValue, IsGrown(m, grown, id, new)
    PROVE  /\ TurnOk(grown.info[id], d, grown.info[id], Len(m.info[id].blockNrs))
           /\ OneByOne(grown.info[id].blockNrs)
           /\ Len(m.info[id].blockNrs) \in 0..Len(grown.info[id].blockNrs)
           /\ FirstBlock(offset) \in Nat /\ NrTurns(offset, size) \in Nat
           /\ FirstBlock(offset) + NrTurns(offset, size) <= Len(grown.info[id].blockNrs)
           /\ FirstBlock(offset) + NrTurns(offset, size) <= MaxSize
  <1> DEFINE info == m.info[id]
             big == grown.info[id]
             nrs == big.blockNrs
             nrold == Len(info.blockNrs)
             last == FirstBlock(offset) + NrTurns(offset, size)
  <1>1. /\ Placed(m) /\ info \in InfoValue /\ InfoOk(info, d) /\ nrold \in Nat
        /\ DOMAIN info.blockNrs = 1..nrold /\ big \in InfoValue
    <2>1. big \in InfoValue
      BY MemFields DEF IsGrown
    <2> QED BY <2>1, MemFields, InfoFields DEF MemOk
  <1>2. /\ nrs = Joined(info.blockNrs, new) /\ big.curBlock = info.curBlock
        /\ big.name = info.name /\ big.fsize = info.fsize /\ big.dirty = info.dirty
    BY DEF IsGrown
  <1>3. /\ Len(nrs) = nrold + more /\ DOMAIN nrs = 1..(nrold + more)
        /\ \A k \in 1..nrold : nrs[k] = info.blockNrs[k]
        /\ OneByOne(nrs)
    <2>1. HasGrown(info.blockNrs, more, nrs)
      BY <1>1, <1>2, GrownBlocks
    <2> QED BY <2>1 DEF HasGrown
  <1>4. /\ FirstBlock(offset) \in Nat /\ NrTurns(offset, size) \in Nat
        /\ last = NrBlocks(offset + size) /\ last <= MaxSize
    <2>1. FirstBlock(offset) \in Nat /\ NrTurns(offset, size) \in Nat
          /\ last = NrBlocks(offset + size)
      BY TurnsIs
    <2>2. NrBlocks(offset + size) <= offset + size /\ NrBlocks(offset + size) \in Nat
          /\ MaxSize \in Nat
      BY NrBlocksIs, MultiFileAssumption
    <2> HIDE DEF last
    <2> QED BY <2>1, <2>2
  <1>5. last <= Len(nrs)
    BY <1>3, <1>4 DEF IsEnough
  <1>6. nrold \in 0..Len(nrs)
    BY <1>1, <1>3
  <1>7. /\ BufferPlaced(info) /\ ReachedTo(info, d, nrold)
        /\ info.curBlock < nrold /\ info.curBlock \in Int
    BY <1>1, InfoFields, MultiFileAssumption DEF InfoOk, BufferPlaced
  <1>8. BufferPlaced(big)
    BY <1>1, <1>2, <1>3, <1>7 DEF BufferPlaced
  <1>9. info.dirty => info.curBlock + 1 \in 1..nrold
    BY <1>1, <1>7 DEF BufferPlaced
  <1> HIDE DEF info, big, nrs, nrold
  <1>10. ReachedTo(big, d, nrold)
    BY <1>2, <1>3, <1>7, <1>9 DEF ReachedTo, nrs
  <1>11. TurnOk(big, d, big, nrold)
    BY <1>1, <1>2, <1>7, <1>8, <1>10 DEF TurnOk
  <1> QED BY <1>3, <1>4, <1>5, <1>6, <1>11 DEF info, big, nrs, nrold, last

\* The step of write: a copy w of the header and a file that are as WroteMem says.
LEMMA WriteIs ==
    ASSUME IInv, NEW p \in Proc, NEW id \in DOMAIN mem[p].info,
           NEW offset \in 0..(MaxSize - 1), NEW size \in 1..(MaxSize - offset),
           NEW value \in Values, Write(p, id, offset, size, value)
    PROVE  \E w \in MemValue :
            /\ mem' = [mem EXCEPT ![p] = w] /\ disk' \in DiskValue
            /\ WroteMem(mem[p], disk, id, w, disk', offset, size, value)
            /\ DOMAIN w.info = DOMAIN mem[p].info
            /\ \A i \in DOMAIN mem[p].info \ {id} : w.info[i] = mem[p].info[i]
            /\ w.info[id].name = mem[p].info[id].name
            /\ w.info[id].fsize = Greater(mem[p].info[id].fsize, offset + size)
            /\ w.changed \/ (w.changed = mem[p].changed
                             /\ w.info[id].blockNrs = mem[p].info[id].blockNrs
                             /\ w.info[id].fsize = mem[p].info[id].fsize
                             /\ w.nrBlock = mem[p].nrBlock
                             /\ w.freeBlocks = mem[p].freeBlocks)
  <1> DEFINE m == mem[p]
             info == m.info[id]
             last == FirstBlock(offset) + NrTurns(offset, size)
             more == Greater(0, last - Len(info.blockNrs))
             n == NrTurns(offset, size)
             nrold == NrBlocks(info.fsize)
             fsize == Greater(info.fsize, offset + size)
  <1>1. /\ m \in MemValue /\ disk \in DiskValue /\ MemOk(m, disk) /\ id \in DOMAIN m.info
        /\ info \in InfoValue /\ Placed(m) /\ nrold = Len(info.blockNrs) /\ InfoOk(info, disk)
        /\ info.name # None
    <2>1. m \in MemValue /\ disk \in DiskValue /\ MemOk(m, disk)
      BY DEF IInv, TypeInv
    <2> QED BY <2>1, MemFields DEF MemOk, Placed, Write, Ids
  <1>2. offset \in Nat /\ size \in Nat \ {0} /\ offset + size \in 0..MaxSize
    BY MultiFileAssumption
  <1>3. last = NrBlocks(offset + size) /\ n \in Nat \ {0} /\ FirstBlock(offset) \in Nat
        /\ last \in Nat
    <2>1. last = NrBlocks(offset + size) /\ n \in Nat \ {0} /\ FirstBlock(offset) \in Nat
      BY <1>2, TurnsIs
    <2> QED BY <1>2, <2>1, NrBlocksIs
  <1>4. more \in Nat /\ IsEnough(info, more, offset + size)
    <2>1. info \in InfoValue /\ Len(info.blockNrs) = NrBlocks(info.fsize)
          /\ offset + size \in 0..MaxSize
      BY <1>1, <1>2
    <2>2. last = NrBlocks(offset + size)
      BY <1>3
    <2> HIDE DEF last
    <2>3. more = Greater(0, NrBlocks(offset + size) - Len(info.blockNrs))
      BY <2>2
    <2> HIDE DEF info, more
    <2> QED BY <2>1, <2>3, EnoughIs
  <1> DEFINE grownBy(new) == IF last >= NrBlocks(info.fsize) THEN Extended(m, id, new) ELSE m
             s(new) == Put(grownBy(new), id, offset, size, value)
  <1>5. PICK new \in [1..more -> m.freeBlocks \cup (m.nrBlock..MaxBlocks)] :
            /\ IsAllocation(m, new)
            /\ mem' = [mem EXCEPT ![p] = [grownBy(new) EXCEPT !.info[id] =
                        [s(new).info EXCEPT !.fsize = Greater(@, offset + size)]]]
            /\ disk' = s(new).disk
    BY DEF Write
  <1>6. holder = p
    BY DEF Write, Changes, Holds
  <1> DEFINE grown == grownBy(new)
             after0 == s(new)
             start == PutStart(grown, id)
             x == [after0.info EXCEPT !.fsize = Greater(@, offset + size)]
             w == [grown EXCEPT !.info[id] = x]
  <1>7. /\ grown \in MemValue /\ IsGrown(m, grown, id, new)
        /\ grown.changed \/ (grown = m /\ last < NrBlocks(info.fsize))
    <2>1. /\ grown = IF last >= NrBlocks(m.info[id].fsize) THEN Extended(m, id, new) ELSE m
          /\ more = Greater(0, last - Len(m.info[id].blockNrs))
          /\ m \in MemValue /\ Placed(m) /\ id \in DOMAIN m.info /\ last \in Nat
          /\ new \in [1..more -> m.freeBlocks \cup (m.nrBlock..MaxBlocks)]
          /\ IsAllocation(m, new)
      BY <1>1, <1>3, <1>5
    <2> HIDE DEF m, last, more, grown
    <2> QED BY <2>1, GrownIs
  <1> HIDE DEF grown
  <1>8. PICK after : /\ PutRuns(after, n, start, nrold, offset, size, value)
                     /\ after0 = after[n]
    <2>1. after0 = Put(grown, id, offset, size, value)
      BY DEF grown
    <2>2. NrBlocks(mem[holder].info[id].fsize) = nrold
      BY <1>6
    <2>3. NrTurns(offset, size) \in Nat
      BY <1>3
    <2> HIDE DEF after0, n, nrold
    <2>4. \E after :
            /\ PutRuns(after, NrTurns(offset, size), PutStart(grown, id),
                       NrBlocks(mem[holder].info[id].fsize), offset, size, value)
            /\ Put(grown, id, offset, size, value) = after[NrTurns(offset, size)]
      BY <2>3, PutIs
    <2> QED BY <2>1, <2>2, <2>4 DEF n
  <1>9. start.info = grown.info[id] /\ start.disk = disk
    BY DEF PutStart
  <1>10. mem' = [mem EXCEPT ![p] = w] /\ disk' = after0.disk
    BY <1>5 DEF grown
  <1> HIDE DEF start, after0, s, grownBy
  <1>11. PutDone(after0, start, nrold, offset, size, value, n)
    <2> DEFINE of == grown.info[id]
    <2>1. /\ TurnOk(of, disk, of, nrold) /\ OneByOne(of.blockNrs)
          /\ nrold \in 0..Len(of.blockNrs)
          /\ FirstBlock(offset) \in Nat /\ n \in Nat
          /\ FirstBlock(offset) + n <= Len(of.blockNrs)
          /\ FirstBlock(offset) + n <= MaxSize
      <3>1. offset + size <= MaxSize
        BY <1>2, MultiFileAssumption
      <3>2. nrold = Len(m.info[id].blockNrs)
        BY <1>1
      <3> HIDE DEF m, more, nrold
      <3>3. /\ TurnOk(grown.info[id], disk, grown.info[id], Len(m.info[id].blockNrs))
            /\ OneByOne(grown.info[id].blockNrs)
            /\ Len(m.info[id].blockNrs) \in 0..Len(grown.info[id].blockNrs)
            /\ FirstBlock(offset) \in Nat /\ NrTurns(offset, size) \in Nat
            /\ FirstBlock(offset) + NrTurns(offset, size) <= Len(grown.info[id].blockNrs)
            /\ FirstBlock(offset) + NrTurns(offset, size) <= MaxSize
        BY <1>1, <1>2, <1>4, <1>5, <1>7, <3>1, StartOk
      <3> QED BY <3>2, <3>3
    <2>2. start.info = of /\ start.disk = disk
      BY <1>9
    <2> HIDE DEF of, n, nrold
    <2>3. PutDone(after[n], start, nrold, offset, size, value, n)
      BY <1>8, <2>1, <2>2, PutLoop
    <2> QED BY <1>8, <2>3
  <1> HIDE DEF n, nrold, info, m
  <1>12. /\ after0.info \in InfoValue /\ after0.info.fsize = info.fsize
         /\ after0.info.name = info.name /\ after0.info.blockNrs = grown.info[id].blockNrs
         /\ after0.disk \in DiskValue
    BY <1>1, <1>7, <1>9, <1>11 DEF PutDone, TurnOk, IsGrown, info
  <1>13. /\ x \in InfoValue /\ x.name = after0.info.name /\ x.blockNrs = after0.info.blockNrs
         /\ x.fsize = fsize /\ x.curBlock = after0.info.curBlock
         /\ x.dirty = after0.info.dirty /\ x.data = after0.info.data
    <2>1. fsize \in 0..MaxSize
      BY <1>4 DEF IsEnough
    <2>2. x = [after0.info EXCEPT !.fsize = fsize]
      BY <1>12
    <2> HIDE DEF x, fsize
    <2> QED BY <1>12, <2>1, <2>2 DEF InfoValue
  <1>14. w = [grown EXCEPT !.info[id] = x]
    OBVIOUS
  <1> HIDE DEF x, w
  <1>15. id \in DOMAIN grown.info /\ DOMAIN grown.info = DOMAIN m.info
    BY <1>1, <1>7 DEF IsGrown
  <1>16. /\ w \in MemValue /\ DOMAIN w.info = DOMAIN grown.info /\ w.info[id] = x
         /\ \A i \in DOMAIN grown.info \ {id} : w.info[i] = grown.info[i]
         /\ w.nrBlock = grown.nrBlock /\ w.freeBlocks = grown.freeBlocks
         /\ w.changed = grown.changed
    BY <1>7, <1>13, <1>14, <1>15, MemExcept
  <1>17. /\ DOMAIN w.info = DOMAIN m.info
         /\ \A i \in DOMAIN m.info \ {id} : w.info[i] = m.info[i]
         /\ w.info[id].name = info.name /\ w.info[id].fsize = fsize
    BY <1>7, <1>12, <1>13, <1>15, <1>16 DEF IsGrown
  <1>18. WroteMem(m, disk, id, w, after0.disk, offset, size, value)
    <2>1. info = m.info[id] /\ nrold = Len(m.info[id].blockNrs) /\ n = NrTurns(offset, size)
          /\ fsize = Greater(m.info[id].fsize, offset + size)
      BY <1>1 DEF info, n
    <2> HIDE DEF more, fsize
    <2>2. PutDone(after0, start, Len(m.info[id].blockNrs), offset, size, value,
                  NrTurns(offset, size))
      BY <1>11, <2>1
    <2>3. IsEnough(m.info[id], more, offset + size) /\ m.info[id].name # None
      BY <1>1, <1>4, <2>1
    <2> QED BY <1>1, <1>2, <1>4, <1>5, <1>7, <1>9, <1>13, <1>16, <1>17, <2>1, <2>2, <2>3,
               WrittenIs
  <1>19. w.changed \/ (/\ w.changed = m.changed
                       /\ w.info[id].blockNrs = info.blockNrs
                       /\ w.info[id].fsize = info.fsize
                       /\ w.nrBlock = m.nrBlock /\ w.freeBlocks = m.freeBlocks)
    <2>1. SUFFICES ASSUME grown = m, last < NrBlocks(info.fsize)
                   PROVE  fsize = info.fsize
      BY <1>7, <1>12, <1>13, <1>16, <1>17 DEF info
    <2>2. ~(info.fsize < offset + size)
      <3>1. info.fsize \in Nat /\ offset + size \in Nat
        BY <1>1, <1>2, InfoFields, MultiFileAssumption
      <3>2. NrBlocks(info.fsize) \in Nat
        BY <3>1, NrBlocksIs
      <3> HIDE DEF last
      <3> QED BY <1>3, <2>1, <3>1, <3>2, NrBlocksMonotone
    <2> QED BY <2>2 DEF Greater
  <1> QED BY <1>10, <1>12, <1>16, <1>17, <1>18, <1>19 DEF m, info

LEMMA WriteSteps ==
    ASSUME IInv, NEW p \in Proc, NEW id \in DOMAIN mem[p].info,
           NEW offset \in 0..(MaxSize - 1), NEW size \in 1..(MaxSize - offset),
           NEW value \in Values, Write(p, id, offset, size, value)
    PROVE  IInv'
  <1> DEFINE info == mem[p].info[id]
  <1>1. PICK w \in MemValue :
            /\ mem' = [mem EXCEPT ![p] = w] /\ disk' \in DiskValue
            /\ WroteMem(mem[p], disk, id, w, disk', offset, size, value)
    BY WriteIs
  <1>2. MemOk(w, disk') /\ Len(disk) <= Len(disk')
    BY <1>1 DEF WroteMem
  <1>3. info \in InfoValue /\ info.name \in Names /\ info.fsize \in Nat
    <2>1. mem[p] \in MemValue /\ id \in Ids(mem[p])
      BY DEF IInv, TypeInv, Write
    <2>2. info \in InfoValue /\ info.name \in Names
      BY <2>1, NameIs, MemFields
    <2> QED BY <2>2, InfoFields, MultiFileAssumption
  <1>4. touched' \subseteq Names /\ changes' \in 0..MaxChange
    BY <1>3, ChangeCounted DEF Write
  <1>5. gaps' \in [Names -> SUBSET (1..MaxSize)]
    <2>1. Skipped(info.fsize, offset) \subseteq 1..MaxSize
      BY <1>3, MultiFileAssumption DEF Skipped
    <2>2. gaps' = [gaps EXCEPT ![info.name] =
                (@ \cup Skipped(info.fsize, offset)) \ ((offset + 1)..(offset + size))]
      BY DEF Write
    <2> HIDE DEF info
    <2> QED BY <1>3, <2>1, <2>2 DEF IInv, TypeInv
  <1>6. UNCHANGED <<opened, holder, stage, header>>
    BY DEF Write
  <1> QED BY <1>1, <1>2, <1>4, <1>5, <1>6, HolderSteps

LEMMA InvariantKept ==
    ASSUME IInv, [Next]_vars
    PROVE  IInv'
  <1>1. CASE FlushDirty
    BY <1>1, FlushDirtySteps
  <1>2. CASE FlushHeader
    BY <1>2, FlushHeaderSteps
  <1>3. CASE Crash
    BY <1>3, CrashSteps
  <1>4. ASSUME NEW p \in Proc, Acquire(p) \/ Flush(p) \/ Open(p)
        PROVE  IInv'
    BY <1>4, AcquireSteps, FlushSteps, OpenSteps
  <1>5. ASSUME NEW p \in Proc, NEW name \in Names, New(p, name)
        PROVE  IInv'
    BY <1>5, NewSteps
  <1>6. ASSUME NEW p \in Proc, NEW id \in DOMAIN mem[p].info, RemoveFile(p, id)
        PROVE  IInv'
    BY <1>6, RemoveFileSteps
  <1>7. ASSUME NEW p \in Proc, NEW id \in DOMAIN mem[p].info, NEW offset \in 0..(MaxSize - 1),
               NEW size \in 1..(MaxSize - offset), Read(p, id, offset, size)
        PROVE  IInv'
    BY <1>7, ReadSteps
  <1>8. ASSUME NEW p \in Proc, NEW id \in DOMAIN mem[p].info, NEW offset \in 0..(MaxSize - 1),
               NEW size \in 1..(MaxSize - offset), NEW value \in Values,
               Write(p, id, offset, size, value)
        PROVE  IInv'
    BY <1>8, WriteSteps
  <1>9. CASE UNCHANGED vars
    <2>1. UNCHANGED <<mem, opened, holder, stage, header, disk, gaps, touched, changes>>
      BY <1>9 DEF vars, fileVars, historyVars
    <2> QED BY <2>1 DEF IInv, TypeInv
  <1> QED BY <1>1, <1>2, <1>3, <1>4, <1>5, <1>6, <1>7, <1>8, <1>9 DEF Next

LEMMA InvariantHolds == Spec => []IInv
  <1>1. Init => IInv
    BY InitIs
  <1>2. IInv /\ [Next]_vars => IInv'
    BY InvariantKept
  <1> QED BY <1>1, <1>2, PTL DEF Spec

\* The copies of the header, the header and the blocks of the file stay in their
\* bounds: extend never takes a block that is not free or that the file cannot have.
THEOREM TypesCorrect == Spec => []TypeOK
  <1>1. IInv => TypeOK
    BY InvariantIs
  <1> QED BY <1>1, InvariantHolds, PTL

\* In the header of the file and in the copy of the process that has the lock, a
\* block is in one virtual file, at one place, or on the free list, none is lost,
\* and a virtual file has the blocks its size asks for: whatever deleteFile,
\* addFile and extend did before, whoever died and at whatever step of a flush.
THEOREM BlocksAreUnshared == Spec => []BlocksUnshared
  <1>1. IInv => BlocksUnshared
    BY InvariantIs
  <1> QED BY <1>1, InvariantHolds, PTL

-----------------------------------------------------------------------------
(***************************************************************************)
(* What is in the virtual files of a MultiFile, for any processes, names and *)
(* values, any block size and any bounds: every read gives what was written, *)
(* and the MultiFile implements VirtualFiles.  The inductive invariant is    *)
(* ContentInv on top of IInv, under Fresh: one process, or a resync by who   *)
(* gets the lock.                                                            *)
(***************************************************************************)

-----------------------------------------------------------------------------
(* What a virtual file has.                                                  *)

\* The units of a virtual file, in the file d, of which some were skipped.
Units(info, d, skipped) ==
    [u \in 1..info.fsize |-> IF u \in skipped THEN Gap ELSE UnitAt(info, d, u - 1)]

\* Content, in the file d.
ContentOf(m, d, g, name) ==
    IF ~InUse(m, name) THEN Absent
    ELSE Units(m.info[CHOOSE i \in Ids(m) : m.info[i].name = name], d, g[name])

LEMMA ContentIs ==
    ASSUME NEW m, NEW name
    PROVE  Content(m, name) = ContentOf(m, disk, gaps, name)
  <1> DEFINE id == CHOOSE i \in Ids(m) : m.info[i].name = name
             info == m.info[id]
  <1>1. ASSUME NEW u \in 1..info.fsize
        PROVE  UnitAt(info, disk, u - 1) =
                    IF (u - 1) \div BlockSize = info.curBlock
                    THEN info.data[(u - 1) % BlockSize]
                    ELSE disk[info.blockNrs[((u - 1) \div BlockSize) + 1]]
                            [(u - 1) % BlockSize]
    BY DEF UnitAt, BlockAt
  <1> DEFINE at(u) == IF (u - 1) \div BlockSize = info.curBlock
                      THEN info.data[(u - 1) % BlockSize]
                      ELSE disk[info.blockNrs[((u - 1) \div BlockSize) + 1]]
                              [(u - 1) % BlockSize]
  <1>2. Content(m, name) =
            IF ~InUse(m, name) THEN Absent
            ELSE [u \in 1..info.fsize |-> IF u \in gaps[name] THEN Gap ELSE at(u)]
    BY Zenon DEF Content
  <1> HIDE DEF id
  <1>3. [u \in 1..info.fsize |-> IF u \in gaps[name] THEN Gap ELSE at(u)]
            = Units(info, disk, gaps[name])
    BY <1>1 DEF Units
  <1> QED BY <1>2, <1>3, Zenon DEF ContentOf, id

\* No two virtual files have the same name.
UniqueNames(m) ==
    \A i, j \in DOMAIN m.info :
        m.info[i].name # None /\ m.info[i].name = m.info[j].name => i = j

\* The entry of the file of that name.
IsEntry(m, id, name) ==
    /\ UniqueNames(m)
    /\ id \in DOMAIN m.info /\ m.info[id].name = name /\ name # None

LEMMA ContentOfFile ==
    ASSUME NEW m, NEW id, NEW name, IsEntry(m, id, name), NEW d, NEW g
    PROVE  ContentOf(m, d, g, name) = Units(m.info[id], d, g[name])
  <1>1. id \in Ids(m) /\ InUse(m, name)
    BY DEF IsEntry, Ids, InUse
  <1>2. (CHOOSE i \in Ids(m) : m.info[i].name = name) = id
    BY <1>1 DEF IsEntry, UniqueNames, Ids
  <1> QED BY <1>1, <1>2 DEF ContentOf

LEMMA ContentOfNone ==
    ASSUME NEW m, NEW d, NEW g, NEW name, \A i \in DOMAIN m.info : m.info[i].name # name
    PROVE  ContentOf(m, d, g, name) = Absent
  BY DEF ContentOf, InUse, Ids

\* The file of that name is the same entry of two copies, with the same units.
SameFile(m, d, g, m2, d2, g2, name) ==
    /\ \A i \in DOMAIN m.info : m.info[i].name = name =>
        /\ i \in DOMAIN m2.info /\ m2.info[i].name = name
        /\ Units(m2.info[i], d2, g2[name]) = Units(m.info[i], d, g[name])
    /\ \A i \in DOMAIN m2.info : m2.info[i].name = name =>
        i \in DOMAIN m.info /\ m.info[i].name = name

LEMMA ContentKept ==
    ASSUME NEW m, NEW d, NEW g, NEW m2, NEW d2, NEW g2, NEW name, name # None,
           UniqueNames(m), UniqueNames(m2), SameFile(m, d, g, m2, d2, g2, name)
    PROVE  ContentOf(m2, d2, g2, name) = ContentOf(m, d, g, name)
  <1>1. CASE \E i \in DOMAIN m.info : m.info[i].name = name
    <2>1. PICK i \in DOMAIN m.info : m.info[i].name = name
      BY <1>1
    <2>2. ContentOf(m, d, g, name) = Units(m.info[i], d, g[name])
      BY <2>1, ContentOfFile DEF IsEntry
    <2>3. /\ i \in DOMAIN m2.info /\ m2.info[i].name = name
          /\ Units(m2.info[i], d2, g2[name]) = Units(m.info[i], d, g[name])
      BY <2>1 DEF SameFile
    <2>4. IsEntry(m2, i, name)
      BY <2>3 DEF IsEntry
    <2>5. ContentOf(m2, d2, g2, name) = Units(m2.info[i], d2, g2[name])
      BY <2>4, ContentOfFile
    <2> QED BY <2>2, <2>3, <2>5
  <1>2. CASE \A i \in DOMAIN m.info : m.info[i].name # name
    <2>1. \A i \in DOMAIN m2.info : m2.info[i].name # name
      BY <1>2 DEF SameFile
    <2> QED BY <1>2, <2>1, ContentOfNone
  <1> QED BY <1>1, <1>2

LEMMA SameUnits ==
    ASSUME NEW info, NEW d, NEW info2, NEW d2, NEW skipped, info2.fsize = info.fsize,
           \A u \in 1..info.fsize : u \notin skipped =>
                BlockAt(info2, d2, (u - 1) \div BlockSize)
                    = BlockAt(info, d, (u - 1) \div BlockSize)
    PROVE  Units(info2, d2, skipped) = Units(info, d, skipped)
  <1>1. ASSUME NEW u \in 1..info.fsize
        PROVE  (IF u \in skipped THEN Gap ELSE UnitAt(info2, d2, u - 1))
                    = IF u \in skipped THEN Gap ELSE UnitAt(info, d, u - 1)
    BY <1>1 DEF UnitAt
  <1> QED BY <1>1, Zenon DEF Units

\* The block of a unit, from 1.
LEMMA UnitIn ==
    ASSUME NEW info \in InfoValue, Len(info.blockNrs) = NrBlocks(info.fsize),
           NEW u \in 1..info.fsize
    PROVE  /\ (u - 1) \div BlockSize \in 0..(Len(info.blockNrs) - 1)
           /\ ((u - 1) \div BlockSize) + 1 \in DOMAIN info.blockNrs
  <1>1. info.fsize \in Nat /\ Len(info.blockNrs) \in Nat
        /\ DOMAIN info.blockNrs = 1..Len(info.blockNrs)
    BY InfoFields, MultiFileAssumption
  <1>2. u - 1 \in Nat /\ u - 1 < info.fsize
    BY <1>1
  <1>3. (u - 1) \div BlockSize \in Nat /\ (u - 1) \div BlockSize < NrBlocks(info.fsize)
    BY <1>1, <1>2, UnitBlock, UnitInBlocks
  <1> QED BY <1>1, <1>3

-----------------------------------------------------------------------------
(* The inductive invariant.                                                  *)

\* The entry of a file is the same in a copy and in the header.
SameEntry(m, h, i) ==
    /\ i \in DOMAIN m.info /\ i \in DOMAIN h.info
    /\ h.info[i].name = m.info[i].name /\ h.info[i].blockNrs = m.info[i].blockNrs
    /\ h.info[i].fsize = m.info[i].fsize

\* A copy differs from the header in the files touched only.
Untouched(m, h, t) ==
    /\ \A i \in DOMAIN m.info : m.info[i].name \notin t \cup {None} => SameEntry(m, h, i)
    /\ \A i \in DOMAIN h.info : h.info[i].name \notin t \cup {None} => SameEntry(m, h, i)

\* A clean buffer has what the file has, a dirty one is that of a file touched,
\* and what was not skipped is in the buffer or in the file.
InfoTrue(info, d, g, t) ==
    /\ BufferTrue(info, d)
    /\ info.dirty => info.name \in t
    /\ info.name # None =>
        \A u \in 1..info.fsize : u \notin g[info.name] =>
            Present(info, d, (u - 1) \div BlockSize)

CopyTrue(m, h, d, g, t) ==
    /\ UniqueNames(m)
    /\ Untouched(m, h, t)
    /\ \A i \in DOMAIN m.info : InfoTrue(m.info[i], d, g, t)
    /\ ~m.changed => HeaderOf(m) = h

\* Whose copy must be true: the process that has the lock, or who may get it
\* without a resync.
Speaks(p) == p \in opened /\ (holder = p \/ (holder = None /\ ~Resyncs))

ContentInv ==
    /\ UniqueNames(header)
    /\ holder = None => touched = {}
    /\ \A p \in Proc : Speaks(p) => CopyTrue(mem[p], header, disk, gaps, touched)

\* Who gets the lock has the header of the file: it resyncs, or nobody else has
\* the file open.
Fresh == Resyncs \/ \A p, q \in Proc : p = q

\* A file whose blocks a step leaves alone.
LEMMA OthersKept ==
    ASSUME NEW info \in InfoValue, NEW d \in DiskValue, NEW d2 \in DiskValue,
           Len(d) <= Len(d2), InfoOk(info, d), Len(info.blockNrs) = NrBlocks(info.fsize),
           \A k \in DOMAIN info.blockNrs : info.blockNrs[k] <= Len(d) =>
                d2[info.blockNrs[k]] = d[info.blockNrs[k]],
           NEW g, NEW g2, NEW t, NEW t2, t \subseteq t2, InfoTrue(info, d, g, t),
           info.name # None => g2[info.name] = g[info.name]
    PROVE  /\ InfoTrue(info, d2, g2, t2)
           /\ info.name # None =>
                Units(info, d2, g2[info.name]) = Units(info, d, g[info.name])
  <1> DEFINE nrs == info.blockNrs
             cur == info.curBlock
             n == Len(nrs)
  <1>1. /\ n \in Nat /\ DOMAIN nrs = 1..n /\ cur \in Int /\ cur < n /\ Len(d) \in Nat
        /\ Len(d2) \in Nat /\ \A k \in 1..n : nrs[k] \in 1..MaxBlocks
        /\ \A k \in 1..n : nrs[k] <= Len(d) => d2[nrs[k]] = d[nrs[k]]
    BY InfoFields, DiskFields, MultiFileAssumption DEF InfoOk, BufferPlaced
  <1>2. BufferTrue(info, d2)
    <2>1. SUFFICES ASSUME ~info.dirty, cur >= 0
                   PROVE  info.data = d2[nrs[cur + 1]]
      BY DEF BufferTrue
    <2>2. cur + 1 \in 1..n
      BY <1>1, <2>1
    <2>3. nrs[cur + 1] <= Len(d)
      BY <2>1, <2>2 DEF InfoOk, ReachedTo
    <2>4. info.data = d[nrs[cur + 1]]
      BY <2>1 DEF InfoTrue, BufferTrue
    <2> QED BY <1>1, <2>2, <2>3, <2>4
  <1>3. ASSUME NEW b \in 0..(n - 1), Present(info, d, b)
        PROVE  Present(info, d2, b) /\ BlockAt(info, d2, b) = BlockAt(info, d, b)
    <2>1. b + 1 \in 1..n
      BY <1>1
    <2>2. CASE b = cur
      BY <2>2 DEF Present, BlockAt
    <2>3. CASE b # cur
      <3>1. nrs[b + 1] <= Len(d) /\ nrs[b + 1] \in 1..MaxBlocks
        BY <1>1, <1>3, <2>1, <2>3 DEF Present
      <3>2. d2[nrs[b + 1]] = d[nrs[b + 1]]
        BY <1>1, <2>1, <3>1
      <3>3. nrs[b + 1] <= Len(d2)
        <4> DEFINE nr == nrs[b + 1]
        <4>1. nr \in Nat /\ nr <= Len(d) /\ Len(d) \in Nat /\ Len(d2) \in Nat
          BY <1>1, <3>1, MultiFileAssumption
        <4> HIDE DEF nr
        <4>2. nr <= Len(d2)
          BY <4>1
        <4> QED BY <4>2 DEF nr
      <3> QED BY <2>3, <3>2, <3>3 DEF Present, BlockAt
    <2> QED BY <2>2, <2>3
  <1>4. ASSUME info.name # None
        PROVE  /\ \A u \in 1..info.fsize : u \notin g2[info.name] =>
                    Present(info, d2, (u - 1) \div BlockSize)
               /\ Units(info, d2, g2[info.name]) = Units(info, d, g[info.name])
    <2>1. ASSUME NEW u \in 1..info.fsize, u \notin g[info.name]
          PROVE  /\ Present(info, d2, (u - 1) \div BlockSize)
                 /\ BlockAt(info, d2, (u - 1) \div BlockSize)
                        = BlockAt(info, d, (u - 1) \div BlockSize)
      <3>1. (u - 1) \div BlockSize \in 0..(n - 1)
        BY UnitIn
      <3>2. Present(info, d, (u - 1) \div BlockSize)
        BY <1>4, <2>1 DEF InfoTrue
      <3> QED BY <1>3, <3>1, <3>2
    <2>2. Units(info, d2, g[info.name]) = Units(info, d, g[info.name])
      BY <2>1, SameUnits
    <2> QED BY <1>4, <2>1, <2>2
  <1> QED BY <1>2, <1>4 DEF InfoTrue

\* The other entries of a copy of which one changes, and the file.
OneOther(m, d, id, w, d2) ==
    /\ DOMAIN w.info = DOMAIN m.info
    /\ \A i \in DOMAIN m.info \ {id} : w.info[i] = m.info[i]
    /\ w.info[id].name = m.info[id].name
    /\ Placed(w) /\ Len(d) <= Len(d2)
    /\ \A b \in 1..Len(d) :
        (\A k \in DOMAIN w.info[id].blockNrs : w.info[id].blockNrs[k] # b) => d2[b] = d[b]

\* The history of a step that changes at most the file of that name.
OneHistory(name, g, t, g2, t2) ==
    t \subseteq t2 /\ \A n \in Names : n # name => g2[n] = g[n]

\* The entry that changes is that of a file touched, or it keeps what the header has.
OneKept(m, id, w, t) ==
    \/ m.info[id].name \in t \cup {None}
    \/ w.info[id].blockNrs = m.info[id].blockNrs /\ w.info[id].fsize = m.info[id].fsize

LEMMA OneChanged ==
    ASSUME NEW m \in MemValue, NEW d \in DiskValue, MemOk(m, d), NEW h, NEW g, NEW t,
           CopyTrue(m, h, d, g, t), NEW id \in DOMAIN m.info,
           NEW w, NEW d2 \in DiskValue, OneOther(m, d, id, w, d2),
           NEW g2, NEW t2, OneHistory(m.info[id].name, g, t, g2, t2),
           InfoTrue(w.info[id], d2, g2, t2), OneKept(m, id, w, t2),
           ~w.changed => HeaderOf(w) = h
    PROVE  /\ CopyTrue(w, h, d2, g2, t2)
           /\ \A n \in Names : n # m.info[id].name =>
                    ContentOf(w, d2, g2, n) = ContentOf(m, d, g, n)
           /\ m.info[id].name # None =>
                ContentOf(w, d2, g2, m.info[id].name)
                    = Units(w.info[id], d2, g2[m.info[id].name])
  <1> DEFINE name == m.info[id].name
  <1>1. /\ DOMAIN w.info = DOMAIN m.info /\ Len(d) <= Len(d2) /\ Placed(w) /\ Placed(m)
        /\ \A i \in DOMAIN m.info : w.info[i].name = m.info[i].name
        /\ \A i \in DOMAIN m.info : i # id => w.info[i] = m.info[i]
        /\ t \subseteq t2
    BY DEF OneOther, MemOk, OneHistory
  <1>2. UniqueNames(m) /\ UniqueNames(w)
    BY <1>1 DEF CopyTrue, UniqueNames
  <1>3. ASSUME NEW i \in DOMAIN m.info, i # id
        PROVE  /\ InfoTrue(w.info[i], d2, g2, t2)
               /\ m.info[i].name # None => m.info[i].name # name
                    /\ Units(w.info[i], d2, g2[m.info[i].name])
                            = Units(m.info[i], d, g[m.info[i].name])
    <2> DEFINE info == m.info[i]
    <2>1. /\ info \in InfoValue /\ InfoOk(info, d) /\ InfoTrue(info, d, g, t)
          /\ Len(info.blockNrs) = NrBlocks(info.fsize) /\ w.info[i] = info
      BY <1>1, <1>3, MemFields DEF MemOk, CopyTrue, Placed
    <2>2. info.name # None => info.name # name
      BY <1>2, <1>3 DEF UniqueNames
    <2>3. info.name # None => g2[info.name] = g[info.name]
      BY <2>1, <2>2, InfoFields DEF OneHistory
    <2>4. ASSUME NEW k \in DOMAIN info.blockNrs, info.blockNrs[k] <= Len(d)
          PROVE  d2[info.blockNrs[k]] = d[info.blockNrs[k]]
      <3>1. info.blockNrs[k] \in 1..MaxBlocks /\ Len(d) \in Nat
        BY <2>1, InfoFields, DiskFields
      <3>2. info.blockNrs[k] \in 1..Len(d)
        BY <2>4, <3>1, MultiFileAssumption
      <3>3. \A l \in DOMAIN w.info[id].blockNrs : w.info[id].blockNrs[l] # info.blockNrs[k]
        BY <1>1, <1>3, <2>1 DEF Placed
      <3> QED BY <3>2, <3>3 DEF OneOther
    <2> HIDE DEF info, name
    <2>5. /\ InfoTrue(info, d2, g2, t2)
          /\ info.name # None =>
                Units(info, d2, g2[info.name]) = Units(info, d, g[info.name])
      BY <1>1, <2>1, <2>3, <2>4, OthersKept
    <2>6. /\ InfoTrue(w.info[i], d2, g2, t2)
          /\ info.name # None => info.name # name
                    /\ Units(w.info[i], d2, g2[info.name])
                            = Units(info, d, g[info.name])
      BY <2>1, <2>2, <2>5
    <2> QED BY <2>6 DEF info
  <1>4. \A i \in DOMAIN w.info : InfoTrue(w.info[i], d2, g2, t2)
    BY <1>1, <1>3
  <1>5. Untouched(m, h, t)
    BY DEF CopyTrue
  <1>6. Untouched(w, h, t2)
    <2>1. ASSUME NEW i \in DOMAIN m.info, m.info[i].name \notin t2 \cup {None}
          PROVE  SameEntry(w, h, i)
      <3>1. SameEntry(m, h, i)
        BY <1>1, <1>5, <2>1 DEF Untouched
      <3>2. w.info[i].blockNrs = m.info[i].blockNrs /\ w.info[i].fsize = m.info[i].fsize
        BY <1>1, <2>1 DEF OneKept
      <3> QED BY <1>1, <3>1, <3>2 DEF SameEntry
    <2>2. ASSUME NEW i \in DOMAIN h.info, h.info[i].name \notin t2 \cup {None}
          PROVE  SameEntry(w, h, i)
      <3>1. SameEntry(m, h, i)
        BY <1>1, <1>5, <2>2 DEF Untouched
      <3> QED BY <2>1, <2>2, <3>1 DEF SameEntry
    <2> QED BY <1>1, <2>1, <2>2 DEF Untouched
  <1>7. CopyTrue(w, h, d2, g2, t2)
    BY <1>2, <1>4, <1>6 DEF CopyTrue
  <1>8. ASSUME NEW n \in Names, n # name
        PROVE  ContentOf(w, d2, g2, n) = ContentOf(m, d, g, n)
    <2>1. SameFile(m, d, g, w, d2, g2, n)
      BY <1>1, <1>3, <1>8, MultiFileAssumption DEF SameFile
    <2>2. n # None
      BY MultiFileAssumption
    <2> QED BY <1>2, <2>1, <2>2, ContentKept
  <1>9. ASSUME name # None
        PROVE  ContentOf(w, d2, g2, name) = Units(w.info[id], d2, g2[name])
    <2>1. IsEntry(w, id, name)
      BY <1>1, <1>2, <1>9 DEF IsEntry
    <2> HIDE DEF name
    <2> QED BY <2>1, ContentOfFile
  <1> QED BY <1>7, <1>8, <1>9

-----------------------------------------------------------------------------
(* The header of the file.                                                   *)

LEMMA FromHeaderTrue ==
    ASSUME NEW h \in HeaderValue, NEW d \in DiskValue, HeaderOk(h, d), UniqueNames(h),
           NEW g, NEW t
    PROVE  CopyTrue(FromHeader(h), h, d, g, t)
  <1> DEFINE m == FromHeader(h)
  <1>1. /\ m \in MemValue /\ DOMAIN m.info = DOMAIN h.info
        /\ \A i \in DOMAIN h.info :
            /\ m.info[i] \in InfoValue /\ Kept(m.info[i]) = h.info[i]
            /\ m.info[i].name = h.info[i].name
            /\ m.info[i].blockNrs = h.info[i].blockNrs /\ m.info[i].fsize = h.info[i].fsize
            /\ m.info[i].curBlock = -1 /\ ~m.info[i].dirty
        /\ m.nrBlock = h.nrBlock /\ m.freeBlocks = h.freeBlocks /\ ~m.changed
    BY FromHeaderIs
  <1> HIDE DEF m
  <1>2. UniqueNames(m)
    BY <1>1 DEF UniqueNames
  <1>3. Untouched(m, h, t)
    BY <1>1 DEF Untouched, SameEntry
  <1>4. ASSUME NEW i \in DOMAIN m.info
        PROVE  InfoTrue(m.info[i], d, g, t)
    <2> DEFINE info == m.info[i]
    <2>1. info \in InfoValue /\ info.curBlock = -1 /\ ~info.dirty
          /\ info.blockNrs = h.info[i].blockNrs /\ info.fsize = h.info[i].fsize
          /\ i \in DOMAIN h.info
      BY <1>1, <1>4
    <2>2. BufferTrue(info, d)
      BY <2>1 DEF BufferTrue
    <2>3. Len(info.blockNrs) = NrBlocks(info.fsize)
      BY <2>1 DEF HeaderOk, Placed
    <2>4. \A k \in DOMAIN info.blockNrs : info.blockNrs[k] <= Len(d)
      BY <2>1 DEF HeaderOk
    <2> HIDE DEF info
    <2>5. \A u \in 1..info.fsize : Present(info, d, (u - 1) \div BlockSize)
      BY <2>1, <2>3, <2>4, UnitIn DEF Present
    <2>6. InfoTrue(info, d, g, t)
      BY <2>1, <2>2, <2>5 DEF InfoTrue
    <2> QED BY <2>6 DEF info
  <1>5. HeaderOf(m) = h
    <2>1. h.info \in Seq(HeaderEntry) /\ DOMAIN h.info = 1..Len(h.info)
          /\ h = [info |-> h.info, nrBlock |-> h.nrBlock, freeBlocks |-> h.freeBlocks]
      BY DEF HeaderValue
    <2>2. [i \in DOMAIN m.info |-> Kept(m.info[i])] = [i \in DOMAIN h.info |-> h.info[i]]
      BY <1>1
    <2>3. [i \in DOMAIN h.info |-> h.info[i]] = h.info
      BY <2>1
    <2> QED BY <1>1, <2>1, <2>2, <2>3 DEF HeaderOf
  <1>6. CopyTrue(m, h, d, g, t)
    BY <1>2, <1>3, <1>4, <1>5 DEF CopyTrue
  <1> QED BY <1>6 DEF m

\* What was not touched is in the file as the process that has the lock sees it.
LEMMA SameAsHeader ==
    ASSUME NEW m \in MemValue, NEW d \in DiskValue, MemOk(m, d), NEW h \in HeaderValue,
           UniqueNames(h), NEW g, NEW t, CopyTrue(m, h, d, g, t),
           NEW name, name \notin t \cup {None}, NEW g2, g2[name] = g[name]
    PROVE  ContentOf(FromHeader(h), d, g2, name) = ContentOf(m, d, g, name)
  <1> DEFINE n == FromHeader(h)
  <1>1. /\ DOMAIN n.info = DOMAIN h.info
        /\ \A i \in DOMAIN h.info :
            /\ n.info[i].name = h.info[i].name
            /\ n.info[i].blockNrs = h.info[i].blockNrs /\ n.info[i].fsize = h.info[i].fsize
            /\ n.info[i].curBlock = -1
    BY FromHeaderIs
  <1> HIDE DEF n
  <1>2. UniqueNames(n) /\ UniqueNames(m) /\ Untouched(m, h, t)
    BY <1>1 DEF UniqueNames, CopyTrue
  <1>3. ASSUME NEW i \in DOMAIN m.info, m.info[i].name = name
        PROVE  /\ i \in DOMAIN n.info /\ n.info[i].name = name
               /\ Units(n.info[i], d, g2[name]) = Units(m.info[i], d, g[name])
    <2> DEFINE info == m.info[i]
               old == n.info[i]
    <2>1. SameEntry(m, h, i)
      BY <1>2, <1>3 DEF Untouched
    <2>2. /\ i \in DOMAIN n.info /\ old.name = name /\ old.blockNrs = info.blockNrs
          /\ old.fsize = info.fsize /\ old.curBlock = -1
      BY <1>1, <1>3, <2>1 DEF SameEntry
    <2>3. /\ info \in InfoValue /\ InfoTrue(info, d, g, t)
          /\ Len(info.blockNrs) = NrBlocks(info.fsize)
      BY MemFields DEF CopyTrue, MemOk, Placed
    <2>4. ~info.dirty
      BY <1>3, <2>3 DEF InfoTrue
    <2> HIDE DEF info, old
    <2>5. ASSUME NEW b \in 0..(Len(info.blockNrs) - 1)
          PROVE  BlockAt(old, d, b) = BlockAt(info, d, b)
      <3>1. b \in Nat /\ b # -1
        BY <2>3, InfoFields
      <3>2. b = info.curBlock => info.data = d[info.blockNrs[b + 1]]
        BY <2>3, <2>4, <3>1 DEF InfoTrue, BufferTrue
      <3> QED BY <2>2, <3>1, <3>2 DEF BlockAt
    <2>6. Units(old, d, g[name]) = Units(info, d, g[name])
      BY <2>2, <2>3, <2>5, UnitIn, SameUnits
    <2> QED BY <2>2, <2>6 DEF info, old
  <1>4. ASSUME NEW i \in DOMAIN n.info, n.info[i].name = name
        PROVE  i \in DOMAIN m.info /\ m.info[i].name = name
    <2>1. SameEntry(m, h, i)
      BY <1>1, <1>2, <1>4 DEF Untouched
    <2> QED BY <1>1, <1>4, <2>1 DEF SameEntry
  <1>5. SameFile(m, d, g, n, d, g2, name)
    BY <1>3, <1>4 DEF SameFile
  <1>6. ContentOf(n, d, g2, name) = ContentOf(m, d, g, name)
    BY <1>2, <1>5, ContentKept
  <1> QED BY <1>6 DEF n

-----------------------------------------------------------------------------
(* Files are removed and added.                                              *)

\* The file with that name is gone, or made, at an entry that is empty now.
OneReplaced(m, id, w, name) ==
    /\ DOMAIN w.info = DOMAIN m.info \cup {id}
    /\ \A i \in DOMAIN m.info \ {id} : w.info[i] = m.info[i] /\ m.info[i].name # name
    /\ id \in DOMAIN m.info => m.info[id].name \in {name, None}
    /\ w.info[id].name \in {name, None}
    /\ ~w.info[id].dirty /\ w.info[id].curBlock = -1 /\ w.info[id].fsize = 0
    /\ w.changed

LEMMA ReplacedTrue ==
    ASSUME NEW m \in MemValue, NEW h, NEW d, NEW g, NEW t, CopyTrue(m, h, d, g, t),
           NEW id, NEW w, NEW name \in Names, OneReplaced(m, id, w, name),
           NEW g2, NEW t2, OneHistory(name, g, t, g2, t2), name \in t2
    PROVE  /\ CopyTrue(w, h, d, g2, t2)
           /\ \A n \in Names : n # name =>
                    ContentOf(w, d, g2, n) = ContentOf(m, d, g, n)
           /\ w.info[id].name = None => ContentOf(w, d, g2, name) = Absent
           /\ w.info[id].name = name => ContentOf(w, d, g2, name) = <<>>
  <1>0. name # None
    BY MultiFileAssumption
  <1>1. /\ DOMAIN w.info = DOMAIN m.info \cup {id}
        /\ \A i \in DOMAIN m.info : i # id => w.info[i] = m.info[i] /\ m.info[i].name # name
        /\ id \in DOMAIN m.info => m.info[id].name \in {name, None}
        /\ w.info[id].name \in {name, None}
        /\ t \subseteq t2
    BY DEF OneReplaced, OneHistory
  <1>2. UniqueNames(m) /\ UniqueNames(w)
    BY <1>1 DEF CopyTrue, UniqueNames
  <1>3. ASSUME NEW i \in DOMAIN m.info, i # id
        PROVE  /\ InfoTrue(w.info[i], d, g2, t2)
               /\ m.info[i].name # None => g2[m.info[i].name] = g[m.info[i].name]
    <2>1. m.info[i] \in InfoValue /\ InfoTrue(m.info[i], d, g, t)
      BY MemFields DEF CopyTrue
    <2>2. m.info[i].name # None => g2[m.info[i].name] = g[m.info[i].name]
      BY <1>1, <1>3, <2>1, InfoFields DEF OneHistory
    <2> QED BY <1>1, <1>3, <2>1, <2>2 DEF InfoTrue
  <1>4. InfoTrue(w.info[id], d, g2, t2)
    BY DEF OneReplaced, InfoTrue, BufferTrue
  <1>5. \A i \in DOMAIN w.info : InfoTrue(w.info[i], d, g2, t2)
    BY <1>1, <1>3, <1>4
  <1>6. Untouched(m, h, t)
    BY DEF CopyTrue
  <1>7. Untouched(w, h, t2)
    <2>1. ASSUME NEW i \in DOMAIN w.info, w.info[i].name \notin t2 \cup {None}
          PROVE  SameEntry(w, h, i)
      <3>1. i \in DOMAIN m.info /\ w.info[i] = m.info[i] /\ m.info[i].name \notin t \cup {None}
        BY <1>1, <2>1
      <3> QED BY <1>1, <1>6, <3>1 DEF Untouched, SameEntry
    <2>2. ASSUME NEW i \in DOMAIN h.info, h.info[i].name \notin t2 \cup {None}
          PROVE  SameEntry(w, h, i)
      <3>1. SameEntry(m, h, i)
        BY <1>1, <1>6, <2>2 DEF Untouched
      <3>2. i \in DOMAIN m.info /\ m.info[i].name \notin t2 \cup {None}
        BY <2>2, <3>1 DEF SameEntry
      <3>3. i # id
        BY <1>1, <3>2
      <3> QED BY <1>1, <3>1, <3>2, <3>3 DEF SameEntry
    <2> QED BY <2>1, <2>2 DEF Untouched
  <1>8. CopyTrue(w, h, d, g2, t2)
    BY <1>2, <1>5, <1>7 DEF CopyTrue, OneReplaced
  <1>9. ASSUME NEW n \in Names, n # name
        PROVE  ContentOf(w, d, g2, n) = ContentOf(m, d, g, n)
    <2>1. n # None
      BY MultiFileAssumption
    <2>2. ASSUME NEW i \in DOMAIN m.info, m.info[i].name = n
          PROVE  /\ i \in DOMAIN w.info /\ w.info[i].name = n
                 /\ Units(w.info[i], d, g2[n]) = Units(m.info[i], d, g[n])
      BY <1>1, <1>3, <1>9, <2>1, <2>2 DEF OneHistory
    <2>3. ASSUME NEW i \in DOMAIN w.info, w.info[i].name = n
          PROVE  i \in DOMAIN m.info /\ m.info[i].name = n
      BY <1>1, <1>9, <2>1, <2>3
    <2>4. SameFile(m, d, g, w, d, g2, n)
      BY <2>2, <2>3 DEF SameFile
    <2> QED BY <1>2, <2>1, <2>4, ContentKept
  <1>10. w.info[id].name = None => ContentOf(w, d, g2, name) = Absent
    BY <1>0, <1>1, ContentOfNone
  <1>11. ASSUME w.info[id].name = name
         PROVE  ContentOf(w, d, g2, name) = <<>>
    <2>1. IsEntry(w, id, name)
      BY <1>0, <1>1, <1>2, <1>11 DEF IsEntry
    <2>2. ContentOf(w, d, g2, name) = Units(w.info[id], d, g2[name])
      BY <2>1, ContentOfFile
    <2>3. w.info[id].fsize = 0
      BY DEF OneReplaced
    <2> QED BY <2>2, <2>3 DEF Units
  <1> QED BY <1>8, <1>9, <1>10, <1>11

LEMMA DeletedReplaced ==
    ASSUME NEW m \in MemValue, UniqueNames(m), NEW id \in Ids(m)
    PROVE  /\ OneReplaced(m, id, Deleted(m, id), m.info[id].name)
           /\ Deleted(m, id).info[id].name = None
  <1>1. id \in DOMAIN m.info /\ m.info[id].name # None
    BY NameIs
  <1>2. /\ DOMAIN Deleted(m, id).info = DOMAIN m.info
        /\ \A i \in DOMAIN m.info :
                Deleted(m, id).info[i] = IF i = id THEN NoInfo ELSE m.info[i]
        /\ Deleted(m, id).changed
    BY <1>1, DeletedIs
  <1>3. NoInfo.name = None /\ ~NoInfo.dirty /\ NoInfo.curBlock = -1 /\ NoInfo.fsize = 0
    BY NewInfoIs DEF NoInfo
  <1>4. \A i \in DOMAIN m.info \ {id} : m.info[i].name # m.info[id].name
    BY <1>1 DEF UniqueNames
  <1> QED BY <1>1, <1>2, <1>3, <1>4 DEF OneReplaced

LEMMA AddedReplaced ==
    ASSUME NEW m \in MemValue, NEW name \in Names,
           \A i \in DOMAIN m.info : m.info[i].name # name
    PROVE  \E id : /\ OneReplaced(m, id, Added(m, name), name)
                   /\ Added(m, name).info[id].name = name
  <1>1. PICK id \in 1..(Len(m.info) + 1) :
                /\ id \in DOMAIN m.info => m.info[id].name = None
                /\ DOMAIN Added(m, name).info = DOMAIN m.info \cup {id}
                /\ \A i \in DOMAIN m.info \cup {id} :
                        Added(m, name).info[i] = IF i = id THEN NewInfo(name) ELSE m.info[i]
                /\ Added(m, name).changed
    BY AddedIs
  <1>2. /\ NewInfo(name).name = name /\ ~NewInfo(name).dirty
        /\ NewInfo(name).curBlock = -1 /\ NewInfo(name).fsize = 0
    BY NewInfoIs
  <1> QED BY <1>1, <1>2 DEF OneReplaced

-----------------------------------------------------------------------------
(* The steps that leave every virtual file as it is.                         *)

LEMMA HeaderSame ==
    ASSUME NEW m, NEW w, DOMAIN w.info = DOMAIN m.info,
           \A i \in DOMAIN m.info : /\ w.info[i].name = m.info[i].name
                                    /\ w.info[i].blockNrs = m.info[i].blockNrs
                                    /\ w.info[i].fsize = m.info[i].fsize,
           w.nrBlock = m.nrBlock, w.freeBlocks = m.freeBlocks
    PROVE  HeaderOf(w) = HeaderOf(m)
  <1>1. [i \in DOMAIN w.info |-> Kept(w.info[i])] = [i \in DOMAIN m.info |-> Kept(m.info[i])]
    BY DEF Kept
  <1> QED BY <1>1 DEF HeaderOf

\* A step that changes the copy m to w and the file, and leaves the files as they are.
KeepsView(m, w, h, d, d2, g, t) ==
    /\ CopyTrue(w, h, d2, g, t)
    /\ \A n \in Names : ContentOf(w, d2, g, n) = ContentOf(m, d, g, n)

\* x is the entry info with another buffer, which has the same in its blocks.
OtherBuffer(info, d, x, d2) ==
    /\ x.name = info.name /\ x.blockNrs = info.blockNrs /\ x.fsize = info.fsize
    /\ x.dirty => info.dirty
    /\ BufferTrue(x, d2)
    /\ \A b \in 0..(Len(info.blockNrs) - 1) : Present(info, d, b) =>
            Present(x, d2, b) /\ BlockAt(x, d2, b) = BlockAt(info, d, b)

\* w is the copy m but for its entries.
OnlyInfo(m, w) ==
    w.nrBlock = m.nrBlock /\ w.freeBlocks = m.freeBlocks /\ w.changed = m.changed

LEMMA BufferUnits ==
    ASSUME NEW info \in InfoValue, Len(info.blockNrs) = NrBlocks(info.fsize),
           NEW d, NEW g, NEW t, InfoTrue(info, d, g, t),
           NEW x, NEW d2, OtherBuffer(info, d, x, d2)
    PROVE  /\ InfoTrue(x, d2, g, t)
           /\ info.name # None =>
                Units(x, d2, g[info.name]) = Units(info, d, g[info.name])
  <1>1. ASSUME info.name # None, NEW u \in 1..info.fsize, u \notin g[info.name]
        PROVE  /\ Present(x, d2, (u - 1) \div BlockSize)
               /\ BlockAt(x, d2, (u - 1) \div BlockSize)
                        = BlockAt(info, d, (u - 1) \div BlockSize)
    <2>1. Present(info, d, (u - 1) \div BlockSize)
      BY <1>1 DEF InfoTrue
    <2>2. (u - 1) \div BlockSize \in 0..(Len(info.blockNrs) - 1)
      BY UnitIn
    <2> QED BY <2>1, <2>2 DEF OtherBuffer
  <1>2. x.name = info.name /\ x.fsize = info.fsize
    BY DEF OtherBuffer
  <1>3. InfoTrue(x, d2, g, t)
    BY <1>1, <1>2 DEF InfoTrue, OtherBuffer
  <1>4. info.name # None => Units(x, d2, g[info.name]) = Units(info, d, g[info.name])
    BY <1>1, <1>2, SameUnits
  <1> QED BY <1>3, <1>4

LEMMA OneBuffer ==
    ASSUME NEW m \in MemValue, NEW d \in DiskValue, MemOk(m, d), NEW h, NEW g, NEW t,
           CopyTrue(m, h, d, g, t), NEW id \in DOMAIN m.info,
           NEW w, NEW d2 \in DiskValue, OneOther(m, d, id, w, d2), OnlyInfo(m, w),
           OtherBuffer(m.info[id], d, w.info[id], d2)
    PROVE  KeepsView(m, w, h, d, d2, g, t)
  <1>1. /\ m.info[id] \in InfoValue
        /\ Len(m.info[id].blockNrs) = NrBlocks(m.info[id].fsize)
        /\ InfoTrue(m.info[id], d, g, t)
    BY MemFields DEF MemOk, Placed, CopyTrue
  <1>2. /\ InfoTrue(w.info[id], d2, g, t)
        /\ m.info[id].name # None =>
                Units(w.info[id], d2, g[m.info[id].name])
                    = Units(m.info[id], d, g[m.info[id].name])
    BY <1>1, BufferUnits
  <1>3. HeaderOf(w) = HeaderOf(m)
    <2>1. \A i \in DOMAIN m.info : /\ w.info[i].name = m.info[i].name
                                   /\ w.info[i].blockNrs = m.info[i].blockNrs
                                   /\ w.info[i].fsize = m.info[i].fsize
      BY DEF OneOther, OtherBuffer
    <2> QED BY <2>1, HeaderSame DEF OneOther, OnlyInfo
  <1>4. OneKept(m, id, w, t)
    BY DEF OneKept, OtherBuffer
  <1>5. ~w.changed => HeaderOf(w) = h
    BY <1>3 DEF CopyTrue, OnlyInfo
  <1>6. OneHistory(m.info[id].name, g, t, g, t)
    BY DEF OneHistory
  <1>7. /\ CopyTrue(w, h, d2, g, t)
        /\ \A n \in Names : n # m.info[id].name =>
                ContentOf(w, d2, g, n) = ContentOf(m, d, g, n)
        /\ m.info[id].name # None =>
                ContentOf(w, d2, g, m.info[id].name)
                    = Units(w.info[id], d2, g[m.info[id].name])
    BY <1>2, <1>4, <1>5, <1>6, OneChanged
  <1>8. m.info[id].name # None =>
            ContentOf(m, d, g, m.info[id].name) = Units(m.info[id], d, g[m.info[id].name])
    <2>1. m.info[id].name # None => IsEntry(m, id, m.info[id].name)
      BY DEF CopyTrue, IsEntry
    <2> QED BY <2>1, ContentOfFile
  <1>9. ASSUME NEW n \in Names
        PROVE  ContentOf(w, d2, g, n) = ContentOf(m, d, g, n)
    <2>1. n # None
      BY MultiFileAssumption
    <2> QED BY <1>2, <1>7, <1>8, <2>1
  <1> QED BY <1>7, <1>9 DEF KeepsView

LEMMA ReadView ==
    ASSUME IInv, NEW p \in Proc, NEW id \in DOMAIN mem[p].info, NEW offset \in 0..(MaxSize - 1),
           NEW size \in 1..(MaxSize - offset), Read(p, id, offset, size),
           CopyTrue(mem[p], header, disk, gaps, touched)
    PROVE  \E w : /\ mem' = [mem EXCEPT ![p] = w]
                  /\ KeepsView(mem[p], w, header, disk, disk', gaps, touched)
  <1> DEFINE m == mem[p]
             got == Got(p, id, offset, size)
             x == got.info
             w == [m EXCEPT !.info[id] = x]
             todo == Todo(m.info[id], offset, size)
             nrs == m.info[id].blockNrs
  <1>1. m \in MemValue /\ disk \in DiskValue /\ MemOk(m, disk) /\ id \in DOMAIN m.info
        /\ mem \in [Proc -> MemValue]
    BY DEF IInv, TypeInv
  <1>2. offset \in Nat /\ size \in Nat \ {0} /\ offset < m.info[id].fsize
    BY MultiFileAssumption DEF Read, Readable
  <1>3. PICK start : /\ start.info = m.info[id] /\ start.disk = disk
                     /\ GetDone(got, start, offset, todo, NrTurns(offset, todo))
    BY <1>2, ReadIs
  <1>4. disk' = got.disk /\ mem' = [mem EXCEPT ![p].info[id] = x]
    BY DEF Read
  <1>5. mem' = [mem EXCEPT ![p] = w]
    BY <1>1, <1>4
  <1>6. CopyTrue(m, header, disk, gaps, touched) /\ BufferTrue(m.info[id], disk)
    BY DEF CopyTrue, InfoTrue
  <1> HIDE DEF m, got
  <1>7. /\ TurnOk(x, disk', m.info[id], Len(nrs)) /\ Len(disk) <= Len(disk')
        /\ disk' \in DiskValue /\ x \in InfoValue /\ x.blockNrs = nrs
        /\ x.name = m.info[id].name /\ x.fsize = m.info[id].fsize
        /\ x.dirty => m.info[id].dirty
        /\ \A b \in 1..Len(disk) : (\A j \in DOMAIN nrs : nrs[j] # b) => disk'[b] = disk[b]
        /\ BufferTrue(x, disk')
        /\ \A b \in 0..(Len(nrs) - 1) : Present(m.info[id], disk, b) =>
                /\ Present(x, disk', b)
                /\ BlockAt(x, disk', b) = BlockAt(m.info[id], disk, b)
    BY <1>3, <1>4, <1>6 DEF GetDone, TurnOk
  <1>8. w = [m EXCEPT !.info[id] = x]
    OBVIOUS
  <1> HIDE DEF x, w
  <1>9. /\ w \in MemValue /\ DOMAIN w.info = DOMAIN m.info /\ w.info[id] = x
        /\ \A j \in DOMAIN m.info \ {id} : w.info[j] = m.info[j]
        /\ w.nrBlock = m.nrBlock /\ w.freeBlocks = m.freeBlocks /\ w.changed = m.changed
    BY <1>1, <1>7, <1>8, MemExcept
  <1>10. Placed(w)
    BY <1>1, <1>7, <1>9, MemOkOne DEF MemOk
  <1>11. OneOther(m, disk, id, w, disk')
    BY <1>7, <1>9, <1>10 DEF OneOther
  <1>12. OtherBuffer(m.info[id], disk, w.info[id], disk') /\ OnlyInfo(m, w)
    BY <1>7, <1>9 DEF OtherBuffer, OnlyInfo
  <1>13. KeepsView(m, w, header, disk, disk', gaps, touched)
    BY <1>1, <1>6, <1>7, <1>11, <1>12, OneBuffer
  <1> QED BY <1>5, <1>13 DEF m

LEMMA FlushDirtyView ==
    ASSUME IInv, FlushDirty, CopyTrue(mem[holder], header, disk, gaps, touched)
    PROVE  \E w : /\ mem' = [mem EXCEPT ![holder] = w]
                  /\ KeepsView(mem[holder], w, header, disk, disk', gaps, touched)
  <1> DEFINE m == mem[holder]
  <1>1. holder \in Proc /\ m \in MemValue /\ disk \in DiskValue /\ MemOk(m, disk)
        /\ mem \in [Proc -> MemValue] /\ CopyTrue(m, header, disk, gaps, touched)
    BY DEF FlushDirty, IInv, TypeInv
  <1>2. PICK i \in Dirty(m) :
            /\ disk' = Flushed(m.info[i], disk)
            /\ mem' = [mem EXCEPT ![holder].info[i].dirty = FALSE]
    BY DEF FlushDirty
  <1> DEFINE info == m.info[i]
             x == [info EXCEPT !.dirty = FALSE]
             w == [m EXCEPT !.info[i] = x]
             nrs == info.blockNrs
             cur == info.curBlock
             n == Len(nrs)
  <1>3. i \in DOMAIN m.info /\ info \in InfoValue /\ InfoOk(info, disk) /\ info.dirty
    BY <1>1, <1>2, MemFields DEF Dirty, MemOk
  <1>4. mem' = [mem EXCEPT ![holder] = w]
    BY <1>1, <1>2
  <1>5. \A k, l \in DOMAIN nrs : nrs[k] = nrs[l] => k = l
    BY <1>1, <1>3 DEF MemOk, Placed
  <1> HIDE DEF m, info
  <1>6. /\ x \in InfoValue /\ x.blockNrs = nrs /\ x.name = info.name
        /\ x.fsize = info.fsize /\ x.curBlock = cur /\ ~x.dirty /\ x.data = info.data
    BY <1>3 DEF InfoValue
  <1>7. w = [m EXCEPT !.info[i] = x]
    OBVIOUS
  <1> HIDE DEF x, w
  <1>8. /\ w \in MemValue /\ DOMAIN w.info = DOMAIN m.info /\ w.info[i] = x
        /\ \A j \in DOMAIN m.info \ {i} : w.info[j] = m.info[j]
        /\ w.nrBlock = m.nrBlock /\ w.freeBlocks = m.freeBlocks /\ w.changed = m.changed
    BY <1>1, <1>3, <1>6, <1>7, MemExcept
  <1>9. /\ n \in Nat /\ DOMAIN nrs = 1..n /\ cur >= 0 /\ cur \in Int /\ cur + 1 \in 1..n
        /\ Len(disk) \in Nat /\ \A k \in 1..n : nrs[k] \in Nat \ {0}
    <2>1. n \in Nat /\ DOMAIN nrs = 1..n /\ cur \in Int /\ cur >= 0 /\ cur < n
          /\ \A k \in 1..n : nrs[k] \in 1..MaxBlocks
      BY <1>3, InfoFields, MultiFileAssumption DEF InfoOk, BufferPlaced
    <2>2. Len(disk) \in Nat
      BY <1>1, DiskFields
    <2> HIDE DEF nrs, cur, n
    <2>3. cur + 1 \in 1..n
      BY <2>1
    <2>4. \A k \in 1..n : nrs[k] \in Nat \ {0}
      BY <2>1, MultiFileAssumption
    <2> QED BY <2>1, <2>2, <2>3, <2>4
  <1>10. /\ disk' \in DiskValue /\ Len(disk) <= Len(disk') /\ Len(disk') \in Nat
         /\ \A b \in 1..Len(disk) : b # nrs[cur + 1] => disk'[b] = disk[b]
         /\ disk'[nrs[cur + 1]] = info.data
    <2>1. disk' = Flushed(info, disk) /\ BufferPlaced(info)
      BY <1>2, <1>3 DEF info, InfoOk
    <2>2. /\ disk' \in DiskValue /\ Len(disk) <= Len(disk')
          /\ \A b \in 1..Len(disk) : b # nrs[cur + 1] => disk'[b] = disk[b]
          /\ disk'[nrs[cur + 1]] = info.data
      BY <1>1, <1>3, <2>1, FlushedIs
    <2>3. Len(disk') \in Nat
      BY <2>2, DiskFields
    <2> QED BY <2>2, <2>3
  <1>11. BufferTrue(x, disk')
    BY <1>6, <1>10 DEF BufferTrue
  <1>12. ASSUME NEW b \in 0..(n - 1), Present(info, disk, b)
         PROVE  Present(x, disk', b) /\ BlockAt(x, disk', b) = BlockAt(info, disk, b)
    <2>1. CASE b = cur
      BY <1>6, <2>1 DEF Present, BlockAt
    <2>2. CASE b # cur
      <3>1. b + 1 \in 1..n /\ b + 1 # cur + 1
        BY <1>9, <2>2
      <3>2. nrs[b + 1] # nrs[cur + 1] /\ nrs[b + 1] <= Len(disk)
        BY <1>5, <1>9, <1>12, <2>2, <3>1 DEF Present
      <3> DEFINE nr == nrs[b + 1]
      <3>3. nr \in Nat \ {0} /\ nr <= Len(disk)
        BY <1>9, <3>1, <3>2
      <3> HIDE DEF nr
      <3>4. nr \in 1..Len(disk) /\ nr <= Len(disk')
        BY <1>9, <1>10, <3>3
      <3>5. disk'[nrs[b + 1]] = disk[nrs[b + 1]] /\ nrs[b + 1] <= Len(disk')
        BY <1>10, <3>2, <3>4 DEF nr
      <3> QED BY <1>6, <2>2, <3>5 DEF Present, BlockAt
    <2> QED BY <2>1, <2>2
  <1>13. Placed(w)
    <2>1. \A j \in DOMAIN m.info : /\ w.info[j].blockNrs = m.info[j].blockNrs
                                   /\ w.info[j].fsize = m.info[j].fsize
      BY <1>6, <1>8 DEF info
    <2>2. Placed(m)
      BY <1>1 DEF MemOk
    <2> QED BY <1>8, <2>1, <2>2, PlacedSame
  <1>14. OneOther(m, disk, i, w, disk')
    BY <1>6, <1>8, <1>9, <1>10, <1>13 DEF OneOther, info
  <1>15. OtherBuffer(m.info[i], disk, w.info[i], disk') /\ OnlyInfo(m, w)
    BY <1>6, <1>8, <1>11, <1>12 DEF OtherBuffer, OnlyInfo, info
  <1>16. KeepsView(m, w, header, disk, disk', gaps, touched)
    BY <1>1, <1>3, <1>10, <1>14, <1>15, OneBuffer
  <1> QED BY <1>4, <1>16 DEF m

-----------------------------------------------------------------------------
(* A write.                                                                 *)

UnitValue == Values \cup {Zero, Gap}

LEMMA UnitsAre ==
    ASSUME NEW info \in InfoValue, NEW d \in DiskValue,
           Len(info.blockNrs) = NrBlocks(info.fsize),
           NEW g, NEW t, InfoTrue(info, d, g, t), info.name # None
    PROVE  /\ Units(info, d, g[info.name]) \in Seq(UnitValue)
           /\ Len(Units(info, d, g[info.name])) = info.fsize
           /\ Units(info, d, g[info.name]) # Absent
  <1> DEFINE s == g[info.name]
             e(u) == IF u \in s THEN Gap ELSE UnitAt(info, d, u - 1)
  <1>1. info.fsize \in Nat /\ info.data \in Block
    BY InfoFields, MultiFileAssumption
  <1>2. ASSUME NEW u \in 1..info.fsize, u \notin s
        PROVE  UnitAt(info, d, u - 1) \in Values \cup {Zero}
    <2> DEFINE b == (u - 1) \div BlockSize
    <2>1. (u - 1) % BlockSize \in Offsets
      BY <1>1, UnitBlock
    <2>2. Present(info, d, b) /\ b \in 0..(Len(info.blockNrs) - 1)
      BY <1>2, UnitIn DEF InfoTrue
    <2>3. info.blockNrs[b + 1] \in 1..MaxBlocks
      BY <2>2, BlockNumbers
    <2> HIDE DEF b
    <2>4. BlockAt(info, d, b) \in Block
      <3>1. CASE b = info.curBlock
        BY <1>1, <3>1 DEF BlockAt
      <3>2. CASE b # info.curBlock
        <4> DEFINE nr == info.blockNrs[b + 1]
        <4>1. nr \in 1..MaxBlocks /\ nr <= Len(d)
          BY <2>2, <2>3, <3>2 DEF Present
        <4> HIDE DEF nr
        <4>2. d[nr] \in Block
          BY <4>1, DiskFields, MultiFileAssumption
        <4> QED BY <3>2, <4>2 DEF BlockAt, nr
      <3> QED BY <3>1, <3>2
    <2> QED BY <2>1, <2>4 DEF UnitAt, Block, b
  <1>3. \A u \in 1..info.fsize : e(u) \in UnitValue
    BY <1>2 DEF UnitValue
  <1>4. Units(info, d, s) = [u \in 1..info.fsize |-> e(u)]
    BY Zenon DEF Units
  <1> HIDE DEF e
  <1>5. [u \in 1..info.fsize |-> e(u)] \in Seq(UnitValue)
        /\ Len([u \in 1..info.fsize |-> e(u)]) = info.fsize
    BY <1>1, <1>3, IsASeq
  <1>6. Units(info, d, s) \in Seq(UnitValue) /\ Len(Units(info, d, s)) = info.fsize
    BY <1>4, <1>5
  <1> QED BY <1>6, AbsentAssumption DEF UnitValue, s

\* The units that a write has made of those there were.
LEMMA WrittenOver ==
    ASSUME NEW info, info.fsize \in Nat, NEW d, NEW x, NEW d2, NEW offset \in Nat,
           NEW size \in Nat \ {0}, NEW value, NEW s,
           x.fsize = Greater(info.fsize, offset + size),
           Len(Units(info, d, s)) = info.fsize,
           \A u \in 1..info.fsize : u \notin s => Present(info, d, (u - 1) \div BlockSize),
           BufferTrue(info, d), IsWritten(info, d, x, d2, offset, size, value)
    PROVE  Units(x, d2, (s \cup Skipped(info.fsize, offset)) \ ((offset + 1)..(offset + size)))
                = Virtual!Overwritten(Units(info, d, s), offset, size, value)
  <1> DEFINE content == Units(info, d, s)
             s2 == (s \cup Skipped(info.fsize, offset)) \ ((offset + 1)..(offset + size))
             is == Virtual!Overwritten(content, offset, size, value)
             n == Greater(info.fsize, offset + size)
  <1>1. ASSUME NEW u \in 1..n
        PROVE  (IF u \in s2 THEN Gap ELSE UnitAt(x, d2, u - 1))
                    = IF u \in (offset + 1)..(offset + size) THEN value
                      ELSE IF u <= info.fsize THEN content[u] ELSE Gap
    <2>1. u \in Nat \ {0} /\ u - 1 \in Nat /\ n \in Nat
          /\ (n = info.fsize \/ n = offset + size)
      BY DEF Greater
    <2>2. CASE u \in (offset + 1)..(offset + size)
      <3>1. u - 1 \in offset..(offset + size - 1)
        BY <2>1, <2>2
      <3>2. UnitAt(x, d2, u - 1) = value
        BY <3>1 DEF IsWritten
      <3> QED BY <2>2, <3>2
    <2>3. CASE u \notin (offset + 1)..(offset + size) /\ u <= info.fsize
      <3>1. u - 1 \in (0..(info.fsize - 1)) \ (offset..(offset + size - 1))
            /\ u \in 1..info.fsize
        BY <2>1, <2>3
      <3>2. u \in s2 <=> u \in s
        BY <2>1, <2>3 DEF Skipped
      <3>3. u \notin s => UnitAt(x, d2, u - 1) = UnitAt(info, d, u - 1)
        BY <3>1 DEF IsWritten
      <3>4. content[u] = IF u \in s THEN Gap ELSE UnitAt(info, d, u - 1)
        BY <3>1 DEF Units
      <3> HIDE DEF content, s2
      <3> QED BY <2>3, <3>2, <3>3, <3>4
    <2>4. CASE u \notin (offset + 1)..(offset + size) /\ ~(u <= info.fsize)
      <3>1. u \in Skipped(info.fsize, offset)
        BY <2>1, <2>4 DEF Skipped
      <3> QED BY <2>4, <3>1
    <2> QED BY <2>2, <2>3, <2>4
  <1>2. Units(x, d2, s2) = [u \in 1..n |-> IF u \in s2 THEN Gap ELSE UnitAt(x, d2, u - 1)]
    BY DEF Units
  <1>3. is = [u \in 1..n |-> IF u \in (offset + 1)..(offset + size) THEN value
                             ELSE IF u <= info.fsize THEN content[u] ELSE Gap]
    <2> HIDE DEF content
    <2> QED BY DEF Virtual!Overwritten, Virtual!Greatest, Greater, content
  <1> HIDE DEF content, s2, is, n
  <1>4. Units(x, d2, s2) = is
    BY <1>1, <1>2, <1>3
  <1> QED BY <1>4 DEF content, s2, is

\* A step that changes the file of that name only.
ChangesView(m, w, name, h, d, d2, g, g2, t2) ==
    /\ CopyTrue(w, h, d2, g2, t2)
    /\ \A n \in Names : n # name => ContentOf(w, d2, g2, n) = ContentOf(m, d, g, n)

LEMMA WriteView ==
    ASSUME IInv, NEW p \in Proc, NEW id \in DOMAIN mem[p].info, NEW offset \in 0..(MaxSize - 1),
           NEW size \in 1..(MaxSize - offset), NEW value \in Values,
           Write(p, id, offset, size, value),
           CopyTrue(mem[p], header, disk, gaps, touched)
    PROVE  \E w, name :
            /\ mem' = [mem EXCEPT ![p] = w] /\ name \in Names
            /\ touched' = touched \cup {name}
            /\ ChangesView(mem[p], w, name, header, disk, disk', gaps, gaps', touched')
            /\ ContentOf(mem[p], disk, gaps, name) # Absent
            /\ ContentOf(w, disk', gaps', name) # Absent
            /\ ContentOf(w, disk', gaps', name) =
                    Virtual!Overwritten(ContentOf(mem[p], disk, gaps, name),
                                        offset, size, value)
  <1> DEFINE m == mem[p]
             info == m.info[id]
             name == info.name
             g2 == (gaps[name] \cup Skipped(info.fsize, offset))
                        \ ((offset + 1)..(offset + size))
  <1>1. /\ m \in MemValue /\ disk \in DiskValue /\ MemOk(m, disk) /\ id \in DOMAIN m.info
        /\ mem \in [Proc -> MemValue] /\ gaps \in [Names -> SUBSET (1..MaxSize)]
        /\ id \in Ids(m)
    BY DEF IInv, TypeInv, Write
  <1>2. /\ info \in InfoValue /\ InfoOk(info, disk) /\ name \in Names /\ name # None
        /\ Len(info.blockNrs) = NrBlocks(info.fsize) /\ info.fsize \in Nat
    <2>1. info \in InfoValue /\ InfoOk(info, disk) /\ Placed(m)
      BY <1>1, MemFields DEF MemOk
    <2> QED BY <1>1, <2>1, NameIs, InfoFields, MultiFileAssumption DEF Placed
  <1>3. InfoTrue(info, disk, gaps, touched) /\ UniqueNames(m)
        /\ CopyTrue(m, header, disk, gaps, touched)
    BY DEF CopyTrue
  <1>4. PICK w \in MemValue :
            /\ mem' = [mem EXCEPT ![p] = w] /\ disk' \in DiskValue
            /\ WroteMem(m, disk, id, w, disk', offset, size, value)
            /\ DOMAIN w.info = DOMAIN m.info
            /\ \A i \in DOMAIN m.info \ {id} : w.info[i] = m.info[i]
            /\ w.info[id].name = name
            /\ w.info[id].fsize = Greater(info.fsize, offset + size)
            /\ w.changed \/ (w.changed = m.changed
                             /\ w.info[id].blockNrs = info.blockNrs
                             /\ w.info[id].fsize = info.fsize
                             /\ w.nrBlock = m.nrBlock
                             /\ w.freeBlocks = m.freeBlocks)
    BY WriteIs
  <1>5. touched' = touched \cup {name} /\ gaps' = [gaps EXCEPT ![name] = g2]
    BY DEF Write, Changes
  <1> DEFINE x == w.info[id]
  <1>6. offset \in Nat /\ size \in Nat \ {0} /\ offset + size \in Nat
    BY MultiFileAssumption
  <1> HIDE DEF m, info, g2
  <1>7. gaps'[name] = g2 /\ OneHistory(name, gaps, touched, gaps', touched')
        /\ name \in touched'
    BY <1>1, <1>2, <1>5 DEF OneHistory
  <1>8. IsWritten(info, disk, x, disk', offset, size, value)
    BY <1>4 DEF WroteMem, info
  <1>9. x \in InfoValue /\ x.name = name /\ x.fsize = Greater(info.fsize, offset + size)
    BY <1>1, <1>4, MemFields DEF info
  <1>10. BufferTrue(info, disk)
         /\ \A u \in 1..info.fsize : u \notin gaps[name] =>
                Present(info, disk, (u - 1) \div BlockSize)
    BY <1>2, <1>3 DEF InfoTrue
  <1>11. Units(info, disk, gaps[name]) # Absent
         /\ Len(Units(info, disk, gaps[name])) = info.fsize
    BY <1>1, <1>2, <1>3, UnitsAre
  <1>12. Units(x, disk', g2)
            = Virtual!Overwritten(Units(info, disk, gaps[name]), offset, size, value)
    BY <1>2, <1>6, <1>8, <1>9, <1>10, <1>11, WrittenOver DEF g2
  <1>13. InfoTrue(x, disk', gaps', touched')
    <2>1. BufferTrue(x, disk')
      BY <1>8, <1>10 DEF IsWritten
    <2>2. ASSUME NEW u \in 1..x.fsize, u \notin g2
          PROVE  Present(x, disk', (u - 1) \div BlockSize)
      <3>1. u \in Nat \ {0} /\ u - 1 \in Nat
            /\ (x.fsize = info.fsize \/ x.fsize = offset + size)
        BY <1>2, <1>6, <1>9 DEF Greater
      <3>2. CASE u \in (offset + 1)..(offset + size)
        <4>1. u - 1 \in offset..(offset + size - 1)
          BY <1>6, <3>1, <3>2
        <4> QED BY <1>8, <1>10, <4>1 DEF IsWritten
      <3>3. CASE u \notin (offset + 1)..(offset + size)
        <4>1. u \in 1..info.fsize /\ u \notin gaps[name]
          BY <1>2, <1>6, <2>2, <3>1, <3>3 DEF g2, Skipped
        <4>2. Present(info, disk, (u - 1) \div BlockSize)
          BY <1>10, <4>1
        <4>3. (u - 1) \div BlockSize \in 0..(Len(info.blockNrs) - 1)
          BY <1>2, <4>1, UnitIn
        <4> QED BY <1>8, <4>2, <4>3 DEF IsWritten
      <3> QED BY <3>2, <3>3
    <2>3. x.dirty => x.name \in touched'
      BY <1>7, <1>9
    <2> HIDE DEF x
    <2> QED BY <1>7, <1>9, <2>1, <2>2, <2>3 DEF InfoTrue
  <1>14. OneOther(m, disk, id, w, disk')
    BY <1>4 DEF OneOther, WroteMem, MemOk, info
  <1>15. OneKept(m, id, w, touched')
    BY <1>7 DEF OneKept, info
  <1>16. ~w.changed => HeaderOf(w) = header
    <2>1. SUFFICES ASSUME ~w.changed
                   PROVE  HeaderOf(w) = header
      OBVIOUS
    <2>2. \A i \in DOMAIN m.info : /\ w.info[i].name = m.info[i].name
                                   /\ w.info[i].blockNrs = m.info[i].blockNrs
                                   /\ w.info[i].fsize = m.info[i].fsize
      BY <1>4, <2>1 DEF info
    <2>3. w.nrBlock = m.nrBlock /\ w.freeBlocks = m.freeBlocks /\ ~m.changed
      BY <1>4, <2>1
    <2>4. HeaderOf(w) = HeaderOf(m)
      BY <1>4, <2>2, <2>3, HeaderSame
    <2> QED BY <1>3, <2>3, <2>4 DEF CopyTrue
  <1>17. name = m.info[id].name
    BY DEF info
  <1> HIDE DEF name, x
  <1>18. /\ CopyTrue(w, header, disk', gaps', touched')
         /\ \A n \in Names : n # m.info[id].name =>
                ContentOf(w, disk', gaps', n) = ContentOf(m, disk, gaps, n)
    <2>1. /\ InfoTrue(w.info[id], disk', gaps', touched')
          /\ OneHistory(m.info[id].name, gaps, touched, gaps', touched')
      BY <1>7, <1>13, <1>17 DEF x
    <2>2. m \in MemValue /\ disk \in DiskValue /\ MemOk(m, disk) /\ id \in DOMAIN m.info
      BY <1>1
    <2>3. CopyTrue(m, header, disk, gaps, touched) /\ disk' \in DiskValue
      BY <1>3, <1>4
    <2> QED BY <1>14, <1>15, <1>16, <2>1, <2>2, <2>3, OneChanged
  <1>19. ChangesView(m, w, name, header, disk, disk', gaps, gaps', touched')
    BY <1>17, <1>18 DEF ChangesView
  <1>20. ContentOf(m, disk, gaps, name) = Units(info, disk, gaps[name])
    <2>1. IsEntry(m, id, name)
      BY <1>1, <1>2, <1>3, <1>17 DEF IsEntry
    <2>2. ContentOf(m, disk, gaps, name) = Units(m.info[id], disk, gaps[name])
      BY <2>1, ContentOfFile
    <2> QED BY <2>2 DEF info
  <1>21. ContentOf(w, disk', gaps', name) = Units(x, disk', gaps'[name])
    <2>1. IsEntry(w, id, name)
      BY <1>1, <1>2, <1>4, <1>18 DEF CopyTrue, IsEntry
    <2>2. ContentOf(w, disk', gaps', name) = Units(w.info[id], disk', gaps'[name])
      BY <2>1, ContentOfFile
    <2> QED BY <2>2 DEF x
  <1>22. Units(x, disk', gaps'[name]) # Absent
    <2>1. Len(x.blockNrs) = NrBlocks(x.fsize)
      BY <1>1, <1>4, <1>14 DEF OneOther, Placed, x
    <2>2. x \in InfoValue /\ disk' \in DiskValue /\ x.name = name /\ name # None
      BY <1>2, <1>4, <1>9
    <2> QED BY <1>13, <2>1, <2>2, UnitsAre
  <1>23. /\ ContentOf(m, disk, gaps, name) # Absent
         /\ ContentOf(w, disk', gaps', name) # Absent
         /\ ContentOf(w, disk', gaps', name) =
                Virtual!Overwritten(ContentOf(m, disk, gaps, name), offset, size, value)
    BY <1>7, <1>11, <1>12, <1>20, <1>21, <1>22
  <1>24. /\ mem' = [mem EXCEPT ![p] = w] /\ name \in Names
         /\ touched' = touched \cup {name}
    BY <1>2, <1>4, <1>5
  <1> QED BY <1>19, <1>23, <1>24 DEF m

LEMMA NewView ==
    ASSUME IInv, NEW p \in Proc, NEW name \in Names, New(p, name),
           CopyTrue(mem[p], header, disk, gaps, touched)
    PROVE  \E w : /\ mem' = [mem EXCEPT ![p] = w]
                  /\ touched' = touched \cup {name}
                  /\ ChangesView(mem[p], w, name, header, disk, disk', gaps, gaps', touched')
                  /\ ContentOf(w, disk', gaps', name) = <<>>
  <1> DEFINE m == mem[p]
  <1>1. /\ m \in MemValue /\ disk' = disk /\ CopyTrue(m, header, disk, gaps, touched)
        /\ gaps' = [gaps EXCEPT ![name] = {}] /\ gaps \in [Names -> SUBSET (1..MaxSize)]
        /\ touched' = touched \cup {name} /\ UniqueNames(m)
    BY DEF IInv, TypeInv, New, Changes, fileVars, CopyTrue
  <1>2. /\ OneHistory(name, gaps, touched, gaps', touched')
        /\ OneHistory(name, gaps', touched', gaps', touched') /\ name \in touched'
    BY <1>1 DEF OneHistory
  <1>3. CASE InUse(m, name)
    <2>1. PICK id \in Ids(m) : /\ m.info[id].name = name
                               /\ mem' = [mem EXCEPT ![p] = Added(Deleted(m, id), name)]
      BY <1>3 DEF New
    <2> DEFINE n == Deleted(m, id)
               w == Added(n, name)
    <2>2. id \in DOMAIN m.info
      BY <1>1, NameIs
    <2>3. n \in MemValue
      BY <1>1, <2>2, DeletedIs
    <2>4. OneReplaced(m, id, n, name) /\ n.info[id].name = None
      BY <1>1, <2>1, DeletedReplaced
    <2>5. \A i \in DOMAIN n.info : n.info[i].name # name
      BY <2>4, MultiFileAssumption DEF OneReplaced
    <2>6. mem' = [mem EXCEPT ![p] = w]
      BY <2>1
    <2> HIDE DEF m, n
    <2>7. /\ CopyTrue(n, header, disk, gaps', touched')
          /\ \A k \in Names : k # name =>
                ContentOf(n, disk, gaps', k) = ContentOf(m, disk, gaps, k)
      <3>1. m \in MemValue /\ CopyTrue(m, header, disk, gaps, touched)
        BY <1>1
      <3> QED BY <1>2, <2>4, <3>1, ReplacedTrue
    <2>8. PICK new : OneReplaced(n, new, w, name) /\ w.info[new].name = name
      BY <2>3, <2>5, AddedReplaced
    <2> HIDE DEF w
    <2>9. /\ CopyTrue(w, header, disk, gaps', touched')
          /\ \A k \in Names : k # name =>
                ContentOf(w, disk, gaps', k) = ContentOf(n, disk, gaps', k)
          /\ ContentOf(w, disk, gaps', name) = <<>>
      BY <1>2, <2>3, <2>7, <2>8, ReplacedTrue
    <2>10. ChangesView(m, w, name, header, disk, disk', gaps, gaps', touched')
      BY <1>1, <2>7, <2>9 DEF ChangesView
    <2> QED BY <1>1, <2>6, <2>9, <2>10 DEF m
  <1>4. CASE ~InUse(m, name)
    <2> DEFINE w == Added(m, name)
    <2>1. mem' = [mem EXCEPT ![p] = w]
      BY <1>4 DEF New
    <2>2. \A i \in DOMAIN m.info : m.info[i].name # name
      BY <1>4, MultiFileAssumption DEF InUse, Ids
    <2> HIDE DEF m
    <2>3. PICK new : OneReplaced(m, new, w, name) /\ w.info[new].name = name
      BY <1>1, <2>2, AddedReplaced
    <2> HIDE DEF w
    <2>4. /\ CopyTrue(w, header, disk, gaps', touched')
          /\ \A k \in Names : k # name =>
                ContentOf(w, disk, gaps', k) = ContentOf(m, disk, gaps, k)
          /\ ContentOf(w, disk, gaps', name) = <<>>
      <3>1. m \in MemValue /\ CopyTrue(m, header, disk, gaps, touched)
        BY <1>1
      <3> QED BY <1>2, <2>3, <3>1, ReplacedTrue
    <2>5. ChangesView(m, w, name, header, disk, disk', gaps, gaps', touched')
      BY <1>1, <2>4 DEF ChangesView
    <2> QED BY <1>1, <2>1, <2>4, <2>5 DEF m
  <1> QED BY <1>3, <1>4

LEMMA RemoveFileView ==
    ASSUME IInv, NEW p \in Proc, NEW id \in DOMAIN mem[p].info, RemoveFile(p, id),
           CopyTrue(mem[p], header, disk, gaps, touched)
    PROVE  \E w, name :
            /\ mem' = [mem EXCEPT ![p] = w] /\ name \in Names
            /\ touched' = touched \cup {name}
            /\ ChangesView(mem[p], w, name, header, disk, disk', gaps, gaps', touched')
            /\ ContentOf(w, disk', gaps', name) = Absent
  <1> DEFINE m == mem[p]
             w == Deleted(m, id)
             name == m.info[id].name
  <1>1. /\ m \in MemValue /\ disk' = disk /\ CopyTrue(m, header, disk, gaps, touched)
        /\ id \in Ids(m) /\ UniqueNames(m)
        /\ gaps' = [gaps EXCEPT ![name] = {}] /\ gaps \in [Names -> SUBSET (1..MaxSize)]
        /\ touched' = touched \cup {name} /\ mem' = [mem EXCEPT ![p] = w]
    BY DEF IInv, TypeInv, RemoveFile, Changes, fileVars, CopyTrue
  <1>2. name \in Names
    BY <1>1, NameIs
  <1>3. OneReplaced(m, id, w, name) /\ w.info[id].name = None
    BY <1>1, DeletedReplaced
  <1> HIDE DEF m, w, name
  <1>4. OneHistory(name, gaps, touched, gaps', touched') /\ name \in touched'
    BY <1>1 DEF OneHistory
  <1>5. /\ CopyTrue(w, header, disk, gaps', touched')
        /\ \A n \in Names : n # name =>
                ContentOf(w, disk, gaps', n) = ContentOf(m, disk, gaps, n)
        /\ ContentOf(w, disk, gaps', name) = Absent
    <2>1. m \in MemValue /\ CopyTrue(m, header, disk, gaps, touched)
      BY <1>1
    <2> QED BY <1>2, <1>3, <1>4, <2>1, ReplacedTrue
  <1>6. ChangesView(m, w, name, header, disk, disk', gaps, gaps', touched')
    BY <1>1, <1>5 DEF ChangesView
  <1> QED BY <1>1, <1>2, <1>5, <1>6 DEF m

-----------------------------------------------------------------------------
(* The steps.                                                                *)

\* Who has the lock has a true copy.
LEMMA HolderTrue ==
    ASSUME IInv, ContentInv, holder # None
    PROVE  /\ holder \in Proc /\ mem[holder] \in MemValue /\ MemOk(mem[holder], disk)
           /\ CopyTrue(mem[holder], header, disk, gaps, touched)
           /\ Current = mem[holder]
  BY DEF IInv, TypeInv, ContentInv, Speaks, Current

\* The header of the file is a true copy.
LEMMA HeaderTrue ==
    ASSUME IInv, ContentInv
    PROVE  /\ header \in HeaderValue /\ disk \in DiskValue /\ HeaderOk(header, disk)
           /\ UniqueNames(header)
           /\ CopyTrue(FromHeader(header), header, disk, gaps, touched)
  <1>1. /\ header \in HeaderValue /\ disk \in DiskValue /\ HeaderOk(header, disk)
        /\ UniqueNames(header)
    BY DEF IInv, TypeInv, ContentInv
  <1> QED BY <1>1, FromHeaderTrue

\* A step of the process that has the lock.
HoldersStep(p, w) ==
    /\ holder = p /\ mem' = [mem EXCEPT ![p] = w]
    /\ opened' = opened /\ holder' = holder /\ header' = header

LEMMA HolderContent ==
    ASSUME IInv, ContentInv, NEW p \in Proc, NEW w, HoldersStep(p, w),
           CopyTrue(w, header, disk', gaps', touched')
    PROVE  ContentInv' /\ Current = mem[p] /\ Current' = w
  <1>1. /\ mem \in [Proc -> MemValue] /\ p # None /\ holder = p /\ holder' = p
        /\ mem' = [mem EXCEPT ![p] = w] /\ header' = header /\ UniqueNames(header)
    BY MultiFileAssumption DEF IInv, TypeInv, HoldersStep, ContentInv
  <1>2. mem'[p] = w
    BY <1>1
  <1>3. ASSUME NEW q \in Proc, Speaks(q)'
        PROVE  CopyTrue(mem'[q], header', disk', gaps', touched')
    <2>1. q = p
      BY <1>1, <1>3 DEF Speaks
    <2> QED BY <1>1, <1>2, <2>1
  <1>4. ContentInv'
    BY <1>1, <1>3 DEF ContentInv
  <1>5. Current = mem[p] /\ Current' = w
    BY <1>1, <1>2 DEF Current
  <1> QED BY <1>4, <1>5

\* A step that leaves the files as they are.
SameFiles ==
    /\ ContentInv' /\ touched' = touched
    /\ \A n \in Names : ContentOf(Current', disk', gaps', n) = ContentOf(Current, disk, gaps, n)

\* A step that changes one file.
OneFile(name) ==
    /\ ContentInv' /\ touched' = touched \cup {name} /\ name \in Names
    /\ \A n \in Names : n # name =>
            ContentOf(Current', disk', gaps', n) = ContentOf(Current, disk, gaps, n)

LEMMA KeptContent ==
    ASSUME IInv, ContentInv, NEW p \in Proc, NEW w, HoldersStep(p, w),
           gaps' = gaps, touched' = touched,
           KeepsView(mem[p], w, header, disk, disk', gaps, touched)
    PROVE  SameFiles
  <1>1. CopyTrue(w, header, disk', gaps', touched')
    BY DEF KeepsView
  <1>2. ContentInv' /\ Current = mem[p] /\ Current' = w
    BY <1>1, HolderContent
  <1> QED BY <1>2 DEF SameFiles, KeepsView

LEMMA ChangedContent ==
    ASSUME IInv, ContentInv, NEW p \in Proc, NEW w, HoldersStep(p, w), NEW name \in Names,
           touched' = touched \cup {name},
           ChangesView(mem[p], w, name, header, disk, disk', gaps, gaps', touched')
    PROVE  OneFile(name) /\ Current = mem[p] /\ Current' = w
  <1>1. CopyTrue(w, header, disk', gaps', touched')
    BY DEF ChangesView
  <1>2. ContentInv' /\ Current = mem[p] /\ Current' = w
    BY <1>1, HolderContent
  <1> QED BY <1>2 DEF OneFile, ChangesView

LEMMA ReadContent ==
    ASSUME IInv, ContentInv, NEW p \in Proc, NEW id \in DOMAIN mem[p].info,
           NEW offset \in 0..(MaxSize - 1), NEW size \in 1..(MaxSize - offset),
           Read(p, id, offset, size)
    PROVE  SameFiles
  <1>1. /\ holder = p /\ p # None /\ gaps' = gaps /\ touched' = touched
        /\ opened' = opened /\ holder' = holder /\ header' = header
    BY MultiFileAssumption DEF Read, Readable, Holds, historyVars
  <1>2. CopyTrue(mem[p], header, disk, gaps, touched)
    BY <1>1, HolderTrue
  <1>3. PICK w : /\ mem' = [mem EXCEPT ![p] = w]
                 /\ KeepsView(mem[p], w, header, disk, disk', gaps, touched)
    BY <1>2, ReadView
  <1>4. HoldersStep(p, w)
    BY <1>1, <1>3 DEF HoldersStep
  <1> QED BY <1>1, <1>3, <1>4, KeptContent

LEMMA FlushDirtyContent ==
    ASSUME IInv, ContentInv, FlushDirty
    PROVE  SameFiles
  <1>1. /\ holder # None /\ gaps' = gaps /\ touched' = touched
        /\ opened' = opened /\ holder' = holder /\ header' = header
    BY DEF FlushDirty, historyVars, IInv
  <1>2. holder \in Proc /\ CopyTrue(mem[holder], header, disk, gaps, touched)
    BY <1>1, HolderTrue
  <1>3. PICK w : /\ mem' = [mem EXCEPT ![holder] = w]
                 /\ KeepsView(mem[holder], w, header, disk, disk', gaps, touched)
    BY <1>2, FlushDirtyView
  <1>4. HoldersStep(holder, w)
    BY <1>1, <1>3 DEF HoldersStep
  <1> QED BY <1>1, <1>2, <1>3, <1>4, KeptContent

\* A step that leaves all but the stage of a flush as it is.
LEMMA StageContent ==
    ASSUME ContentInv,
           UNCHANGED <<mem, opened, holder, header, disk, gaps, touched>>
    PROVE  SameFiles
  <1>1. ContentInv'
    BY DEF ContentInv, Speaks
  <1>2. Current' = Current
    BY DEF Current
  <1> QED BY <1>1, <1>2 DEF SameFiles

\* Who gets the lock sees what is in the file.
LEMMA AcquireContent ==
    ASSUME IInv, ContentInv, NEW p \in Proc, Acquire(p)
    PROVE  SameFiles
  <1>1. /\ holder = None /\ holder' = p /\ p # None /\ p \in opened /\ touched = {}
        /\ opened' = opened /\ header' = header /\ disk' = disk
        /\ gaps' = gaps /\ touched' = touched /\ mem \in [Proc -> MemValue]
    BY MultiFileAssumption DEF Acquire, fileVars, historyVars, ContentInv, IInv, TypeInv
  <1>2. Current = FromHeader(header) /\ Current' = mem'[p]
    BY <1>1 DEF Current
  <1>3. /\ header \in HeaderValue /\ disk \in DiskValue /\ UniqueNames(header)
        /\ CopyTrue(FromHeader(header), header, disk, gaps, touched)
    BY HeaderTrue
  <1>4. /\ CopyTrue(mem'[p], header, disk, gaps, touched)
        /\ \A n \in Names :
                ContentOf(mem'[p], disk, gaps, n) = ContentOf(FromHeader(header), disk, gaps, n)
    <2>1. CASE Resyncs
      <3>1. mem'[p] = FromHeader(header)
        BY <1>1, <2>1 DEF Acquire
      <3> QED BY <1>3, <3>1
    <2>2. CASE ~Resyncs
      <3>1. mem'[p] = mem[p] /\ mem[p] \in MemValue /\ MemOk(mem[p], disk)
        BY <1>1, <2>2 DEF Acquire, IInv
      <3>2. CopyTrue(mem[p], header, disk, gaps, touched)
        BY <1>1, <2>2 DEF ContentInv, Speaks
      <3>3. ASSUME NEW n \in Names
            PROVE  ContentOf(FromHeader(header), disk, gaps, n) = ContentOf(mem[p], disk, gaps, n)
        <4>1. n \notin touched \cup {None}
          BY <1>1, MultiFileAssumption
        <4> QED BY <1>3, <3>1, <3>2, <4>1, SameAsHeader
      <3> QED BY <3>1, <3>2, <3>3
    <2> QED BY <2>1, <2>2
  <1>5. ContentInv'
    <2>1. ASSUME NEW q \in Proc, Speaks(q)'
          PROVE  CopyTrue(mem'[q], header', disk', gaps', touched')
      <3>1. q = p
        BY <1>1, <2>1 DEF Speaks
      <3> QED BY <1>1, <1>4, <3>1
    <2>2. UniqueNames(header') /\ holder' # None
      BY <1>1, <1>3
    <2> QED BY <2>1, <2>2 DEF ContentInv
  <1> QED BY <1>1, <1>2, <1>4, <1>5 DEF SameFiles

LEMMA OpenContent ==
    ASSUME Fresh, IInv, ContentInv, NEW p \in Proc, Open(p)
    PROVE  SameFiles
  <1>1. /\ holder = None /\ holder' = None /\ touched = {}
        /\ header' = header /\ disk' = disk /\ gaps' = gaps /\ touched' = touched
        /\ mem'[p] = FromHeader(header)
    BY DEF Open, fileVars, historyVars, ContentInv, IInv, TypeInv
  <1>2. Current = FromHeader(header) /\ Current' = FromHeader(header)
    BY <1>1 DEF Current
  <1>3. UniqueNames(header) /\ CopyTrue(FromHeader(header), header, disk, gaps, touched)
    BY HeaderTrue
  <1>4. ASSUME NEW q \in Proc, Speaks(q)'
        PROVE  CopyTrue(mem'[q], header', disk', gaps', touched')
    <2>1. q = p
      BY <1>1, <1>4, MultiFileAssumption DEF Speaks, Fresh
    <2> QED BY <1>1, <1>3, <2>1
  <1>5. UniqueNames(header') /\ touched' = {}
    BY <1>1, <1>3
  <1>6. ContentInv'
    BY <1>4, <1>5 DEF ContentInv
  <1> QED BY <1>1, <1>2, <1>6 DEF SameFiles

\* The header of a copy whose buffers are all in the file.
LEMMA WrittenTrue ==
    ASSUME NEW m \in MemValue, NEW d \in DiskValue, MemOk(m, d), NEW h, NEW g, NEW t,
           CopyTrue(m, h, d, g, t), Dirty(m) = {},
           NEW w, w.info = m.info, w.nrBlock = m.nrBlock, w.freeBlocks = m.freeBlocks
    PROVE  /\ UniqueNames(HeaderOf(m)) /\ CopyTrue(w, HeaderOf(m), d, g, {})
           /\ \A n \in Names : ContentOf(w, d, g, n) = ContentOf(m, d, g, n)
  <1>1. /\ DOMAIN HeaderOf(m).info = DOMAIN m.info
        /\ \A i \in DOMAIN m.info : /\ HeaderOf(m).info[i].name = m.info[i].name
                                    /\ HeaderOf(m).info[i].blockNrs = m.info[i].blockNrs
                                    /\ HeaderOf(m).info[i].fsize = m.info[i].fsize
    BY HeaderOfIs
  <1>2. UniqueNames(m) /\ \A i \in DOMAIN m.info : InfoTrue(m.info[i], d, g, t) /\ ~m.info[i].dirty
    BY DEF CopyTrue, Dirty
  <1>3. UniqueNames(HeaderOf(m)) /\ UniqueNames(w)
    BY <1>1, <1>2 DEF UniqueNames
  <1>4. HeaderOf(w) = HeaderOf(m)
    BY DEF HeaderOf
  <1>5. Untouched(w, HeaderOf(m), {})
    BY <1>1 DEF Untouched, SameEntry
  <1>6. \A i \in DOMAIN w.info : InfoTrue(w.info[i], d, g, {})
    BY <1>2 DEF InfoTrue
  <1>7. \A n \in Names : ContentOf(w, d, g, n) = ContentOf(m, d, g, n)
    BY DEF ContentOf, InUse, Ids
  <1> QED BY <1>3, <1>4, <1>5, <1>6, <1>7 DEF CopyTrue

LEMMA FlushHeaderContent ==
    ASSUME Fresh, IInv, ContentInv, FlushHeader
    PROVE  /\ ContentInv' /\ touched' = {}
           /\ \A n \in Names : ContentOf(Current', disk', gaps', n)
                                    = ContentOf(Current, disk, gaps, n)
  <1> DEFINE m == mem[holder]
             w == [m EXCEPT !.changed = FALSE]
  <1>1. /\ holder # None /\ Dirty(m) = {} /\ opened' = opened /\ disk' = disk /\ gaps' = gaps
        /\ touched' = {} /\ mem' = [mem EXCEPT ![holder] = w]
        /\ holder' \in {None, holder} /\ mem \in [Proc -> MemValue] /\ disk \in DiskValue
        /\ header' = IF m.changed THEN HeaderOf(m) ELSE header
    BY DEF FlushHeader, IInv, TypeInv
  <1>2. /\ holder \in Proc /\ m \in MemValue /\ MemOk(m, disk)
        /\ CopyTrue(m, header, disk, gaps, touched) /\ Current = m
    BY <1>1, HolderTrue
  <1>3. header' = HeaderOf(m)
    BY <1>1, <1>2 DEF CopyTrue
  <1>4. mem'[holder] = w
    BY <1>1, <1>2
  <1> HIDE DEF m
  <1>5. /\ w \in MemValue /\ w.info = m.info /\ w.nrBlock = m.nrBlock
        /\ w.freeBlocks = m.freeBlocks
    BY <1>2 DEF MemValue
  <1> HIDE DEF w
  <1>6. /\ UniqueNames(header') /\ CopyTrue(w, header', disk, gaps, {})
        /\ \A n \in Names : ContentOf(w, disk, gaps, n) = ContentOf(m, disk, gaps, n)
    BY <1>1, <1>2, <1>3, <1>5, WrittenTrue
  <1>7. MemOk(w, disk) /\ header' \in HeaderValue
    BY <1>1, <1>2, <1>3, <1>5, PlacedSame, HeaderOfIs DEF MemOk
  <1>8. ASSUME NEW n \in Names
        PROVE  ContentOf(FromHeader(header'), disk, gaps, n) = ContentOf(w, disk, gaps, n)
    <2>1. n \notin {} \cup {None}
      BY MultiFileAssumption
    <2> QED BY <1>1, <1>5, <1>6, <1>7, <2>1, SameAsHeader
  <1>9. Current' = FromHeader(header') \/ Current' = w
    BY <1>1, <1>4 DEF Current
  <1>10. ASSUME NEW q \in Proc, Speaks(q)'
         PROVE  CopyTrue(mem'[q], header', disk', gaps', touched')
    <2>1. q = holder \/ ~Resyncs
      <3>1. holder' \in {None, holder}
        BY <1>1
      <3> QED BY <1>10, <3>1, MultiFileAssumption DEF Speaks
    <2>2. q = holder
      BY <1>2, <2>1 DEF Fresh
    <2> QED BY <1>1, <1>4, <1>6, <2>2
  <1>11. ContentInv'
    BY <1>1, <1>6, <1>10 DEF ContentInv
  <1> QED BY <1>1, <1>2, <1>6, <1>8, <1>9, <1>11

\* What was not touched survives a crash.
LEMMA CrashContent ==
    ASSUME Fresh, IInv, ContentInv, Crash
    PROVE  /\ ContentInv' /\ touched' = {}
           /\ \A n \in Names \ touched : ContentOf(Current', disk', gaps', n)
                                            = ContentOf(Current, disk, gaps, n)
  <1> DEFINE m == mem[holder]
  <1>1. /\ holder # None /\ holder' = None /\ opened' = opened \ {holder}
        /\ header' = header /\ disk' = disk /\ touched' = {}
        /\ gaps' = [n \in Names |-> IF n \in touched THEN {} ELSE gaps[n]]
    BY DEF Crash, fileVars
  <1>2. /\ holder \in Proc /\ m \in MemValue /\ MemOk(m, disk)
        /\ CopyTrue(m, header, disk, gaps, touched) /\ Current = m
    BY <1>1, HolderTrue
  <1>3. header \in HeaderValue /\ disk \in DiskValue /\ UniqueNames(header)
    BY HeaderTrue
  <1>4. Current' = FromHeader(header)
    BY <1>1 DEF Current
  <1>5. ASSUME NEW n \in Names \ touched
        PROVE  ContentOf(FromHeader(header), disk, gaps', n) = ContentOf(m, disk, gaps, n)
    <2>1. n \notin touched \cup {None} /\ gaps'[n] = gaps[n]
      BY <1>1, MultiFileAssumption
    <2> HIDE DEF m
    <2> QED BY <1>2, <1>3, <2>1, SameAsHeader
  <1>6. ASSUME NEW q \in Proc, Speaks(q)'
        PROVE  FALSE
    <2>1. q # holder /\ ~Resyncs
      BY <1>1, <1>6, MultiFileAssumption DEF Speaks
    <2> QED BY <1>2, <2>1 DEF Fresh
  <1>7. ContentInv'
    BY <1>1, <1>3, <1>6 DEF ContentInv
  <1> QED BY <1>1, <1>2, <1>4, <1>5, <1>7

LEMMA WriteContent ==
    ASSUME IInv, ContentInv, NEW p \in Proc, NEW id \in DOMAIN mem[p].info,
           NEW offset \in 0..(MaxSize - 1), NEW size \in 1..(MaxSize - offset),
           NEW value \in Values, Write(p, id, offset, size, value)
    PROVE  \E name : /\ OneFile(name)
                     /\ ContentOf(Current, disk, gaps, name) # Absent
                     /\ ContentOf(Current', disk', gaps', name) # Absent
                     /\ ContentOf(Current', disk', gaps', name) =
                            Virtual!Overwritten(ContentOf(Current, disk, gaps, name),
                                                offset, size, value)
  <1>1. /\ holder = p /\ p # None
        /\ opened' = opened /\ holder' = holder /\ header' = header
    BY MultiFileAssumption DEF Write, Changes, Holds
  <1>2. CopyTrue(mem[p], header, disk, gaps, touched)
    BY <1>1, HolderTrue
  <1>3. PICK w, name :
            /\ mem' = [mem EXCEPT ![p] = w] /\ name \in Names
            /\ touched' = touched \cup {name}
            /\ ChangesView(mem[p], w, name, header, disk, disk', gaps, gaps', touched')
            /\ ContentOf(mem[p], disk, gaps, name) # Absent
            /\ ContentOf(w, disk', gaps', name) # Absent
            /\ ContentOf(w, disk', gaps', name) =
                    Virtual!Overwritten(ContentOf(mem[p], disk, gaps, name),
                                        offset, size, value)
    BY <1>2, WriteView
  <1>4. HoldersStep(p, w)
    BY <1>1, <1>3 DEF HoldersStep
  <1>5. OneFile(name) /\ Current = mem[p] /\ Current' = w
    BY <1>3, <1>4, ChangedContent
  <1> QED BY <1>3, <1>5

LEMMA NewContent ==
    ASSUME IInv, ContentInv, NEW p \in Proc, NEW name \in Names, New(p, name)
    PROVE  OneFile(name) /\ ContentOf(Current', disk', gaps', name) = <<>>
  <1>1. /\ holder = p /\ p # None
        /\ opened' = opened /\ holder' = holder /\ header' = header
    BY MultiFileAssumption DEF New, Changes, Holds, fileVars
  <1>2. CopyTrue(mem[p], header, disk, gaps, touched)
    BY <1>1, HolderTrue
  <1>3. PICK w : /\ mem' = [mem EXCEPT ![p] = w]
                 /\ touched' = touched \cup {name}
                 /\ ChangesView(mem[p], w, name, header, disk, disk', gaps, gaps', touched')
                 /\ ContentOf(w, disk', gaps', name) = <<>>
    BY <1>2, NewView
  <1>4. HoldersStep(p, w)
    BY <1>1, <1>3 DEF HoldersStep
  <1>5. OneFile(name) /\ Current = mem[p] /\ Current' = w
    BY <1>3, <1>4, ChangedContent
  <1> QED BY <1>3, <1>5

LEMMA RemoveFileContent ==
    ASSUME IInv, ContentInv, NEW p \in Proc, NEW id \in DOMAIN mem[p].info, RemoveFile(p, id)
    PROVE  \E name : OneFile(name) /\ ContentOf(Current', disk', gaps', name) = Absent
  <1>1. /\ holder = p /\ p # None
        /\ opened' = opened /\ holder' = holder /\ header' = header
    BY MultiFileAssumption DEF RemoveFile, Changes, Holds, fileVars
  <1>2. CopyTrue(mem[p], header, disk, gaps, touched)
    BY <1>1, HolderTrue
  <1>3. PICK w, name :
            /\ mem' = [mem EXCEPT ![p] = w] /\ name \in Names
            /\ touched' = touched \cup {name}
            /\ ChangesView(mem[p], w, name, header, disk, disk', gaps, gaps', touched')
            /\ ContentOf(w, disk', gaps', name) = Absent
    BY <1>2, RemoveFileView
  <1>4. HoldersStep(p, w)
    BY <1>1, <1>3 DEF HoldersStep
  <1>5. OneFile(name) /\ Current = mem[p] /\ Current' = w
    BY <1>3, <1>4, ChangedContent
  <1> QED BY <1>3, <1>5

LEMMA InitContent ==
    ASSUME Init
    PROVE  /\ ContentInv /\ touched = {}
           /\ \A n \in Names : ContentOf(Current, disk, gaps, n) = Absent
  <1>1. <<>> \in DiskValue
    BY MultiFileAssumption DEF DiskValue
  <1>2. EmptyHeader \in HeaderValue /\ HeaderOk(EmptyHeader, <<>>)
    BY <1>1, EmptyOk
  <1>3. UniqueNames(EmptyHeader)
    BY DEF UniqueNames, EmptyHeader
  <1>4. CopyTrue(FromHeader(EmptyHeader), EmptyHeader, disk, gaps, touched)
    BY <1>1, <1>2, <1>3, FromHeaderTrue DEF Init
  <1>5. ContentInv
    BY <1>3, <1>4 DEF Init, ContentInv
  <1>6. Current = FromHeader(EmptyHeader)
    BY DEF Init, Current
  <1>7. DOMAIN FromHeader(EmptyHeader).info = {}
    BY <1>2, FromHeaderIs DEF EmptyHeader
  <1>8. \A n \in Names : ContentOf(Current, disk, gaps, n) = Absent
    BY <1>6, <1>7, ContentOfNone
  <1> QED BY <1>5, <1>8 DEF Init

-----------------------------------------------------------------------------
(* The virtual files.                                                       *)

Files == [n \in Names |-> Content(Current, n)]

FilesView == \A n \in Names : Files[n] = ContentOf(Current, disk, gaps, n)

LEMMA ViewIs == FilesView
  BY ContentIs DEF FilesView, Files

LEMMA ViewHolds == []FilesView
  BY ViewIs, PTL

LEMMA StepContent ==
    ASSUME Fresh, IInv, ContentInv, [Next]_vars, FilesView, FilesView'
    PROVE  ContentInv' /\ [Virtual!VirtualNext]_(Virtual!fileVars)
  <1>1. /\ Files = [n \in Names |-> Content(Current, n)]
        /\ Files' = [n \in Names |-> Content(Current, n)]'
        /\ DOMAIN Files = Names /\ DOMAIN Files' = Names
        /\ \A n \in Names : Files[n] = ContentOf(Current, disk, gaps, n)
        /\ \A n \in Names : Files'[n] = ContentOf(Current', disk', gaps', n)
    BY DEF Files, FilesView
  <1>2. ASSUME SameFiles
        PROVE  ContentInv' /\ [Virtual!VirtualNext]_(Virtual!fileVars)
    <2>1. \A n \in Names : Files'[n] = Files[n]
      BY <1>1, <1>2 DEF SameFiles
    <2>2. Files' = Files
      BY <2>1 DEF Files
    <2> QED BY <1>1, <1>2, <2>2 DEF SameFiles, Virtual!fileVars
  <1>3. ASSUME NEW name, OneFile(name)
        PROVE  /\ ContentInv' /\ name \in Names /\ touched' = touched \cup {name}
               /\ Files' = [Files EXCEPT ![name] = Files'[name]]
    <2>1. \A n \in Names : n # name => Files'[n] = Files[n]
      BY <1>1, <1>3 DEF OneFile
    <2> HIDE DEF Files
    <2>2. Files' = [n \in Names |-> Files'[n]] /\ Files = [n \in Names |-> Files[n]]
      BY DEF Files
    <2>3. name \in Names /\ ContentInv' /\ touched' = touched \cup {name}
      BY <1>3 DEF OneFile
    <2> QED BY <2>1, <2>2, <2>3
  <1>4. ASSUME FlushDirty
        PROVE  SameFiles
    BY <1>4, FlushDirtyContent
  <1>5. ASSUME FlushHeader
        PROVE  ContentInv' /\ Virtual!VirtualNext
    <2>1. \A n \in Names : Files'[n] = Files[n]
      BY <1>1, <1>5, FlushHeaderContent
    <2>2. Files' = Files
      BY <2>1 DEF Files
    <2>3. ContentInv' /\ touched' = {}
      BY <1>5, FlushHeaderContent
    <2>4. Virtual!VirtualFlush
      BY <1>1, <2>2, <2>3 DEF Virtual!VirtualFlush
    <2> QED BY <2>3, <2>4 DEF Virtual!VirtualNext
  <1>6. ASSUME Crash
        PROVE  ContentInv' /\ Virtual!VirtualNext
    <2>1. \A n \in Names \ touched : Files'[n] = Files[n]
      BY <1>1, <1>6, CrashContent
    <2>2. ContentInv' /\ touched' = {}
      BY <1>6, CrashContent
    <2>3. Virtual!VirtualCrash
      BY <1>1, <2>1, <2>2 DEF Virtual!VirtualCrash
    <2> QED BY <2>2, <2>3 DEF Virtual!VirtualNext
  <1>7. ASSUME NEW p \in Proc, Acquire(p) \/ Flush(p) \/ Open(p)
        PROVE  SameFiles
    <2>1. ASSUME Flush(p)
          PROVE  UNCHANGED <<mem, opened, holder, header, disk, gaps, touched>>
      BY <2>1 DEF Flush, fileVars, historyVars
    <2> QED BY <1>7, <2>1, AcquireContent, OpenContent, StageContent
  <1>8. ASSUME NEW p \in Proc, NEW name \in Names, New(p, name)
        PROVE  ContentInv' /\ Virtual!VirtualNext
    <2>1. OneFile(name) /\ Files'[name] = <<>>
      BY <1>1, <1>8, NewContent
    <2>2. ContentInv' /\ Virtual!VirtualChange(name)
      BY <1>1, <1>3, <2>1 DEF Virtual!VirtualChange
    <2> QED BY <2>2 DEF Virtual!VirtualNext
  <1>9. ASSUME NEW p \in Proc, NEW id \in DOMAIN mem[p].info, RemoveFile(p, id)
        PROVE  ContentInv' /\ Virtual!VirtualNext
    <2>1. PICK name : OneFile(name) /\ Files'[name] = Absent
      <3>1. PICK name : OneFile(name) /\ ContentOf(Current', disk', gaps', name) = Absent
        BY <1>9, RemoveFileContent
      <3> QED BY <1>1, <3>1 DEF OneFile
    <2>2. ContentInv' /\ name \in Names /\ Virtual!VirtualChange(name)
      BY <1>1, <1>3, <2>1 DEF Virtual!VirtualChange
    <2> QED BY <2>2 DEF Virtual!VirtualNext
  <1>10. ASSUME NEW p \in Proc, NEW id \in DOMAIN mem[p].info,
                NEW offset \in 0..(MaxSize - 1), NEW size \in 1..(MaxSize - offset),
                NEW value \in Values, Write(p, id, offset, size, value)
        PROVE  ContentInv' /\ Virtual!VirtualNext
    <2>1. PICK name : /\ OneFile(name) /\ Files[name] # Absent /\ Files'[name] # Absent
                      /\ Files'[name] = Virtual!Overwritten(Files[name], offset, size, value)
      <3>1. PICK name :
                /\ OneFile(name)
                /\ ContentOf(Current, disk, gaps, name) # Absent
                /\ ContentOf(Current', disk', gaps', name) # Absent
                /\ ContentOf(Current', disk', gaps', name) =
                       Virtual!Overwritten(ContentOf(Current, disk, gaps, name),
                                           offset, size, value)
        BY <1>10, WriteContent
      <3> QED BY <1>1, <3>1 DEF OneFile
    <2>2. offset \in 0..MaxSize /\ size \in 0..MaxSize
      BY MultiFileAssumption
    <2>3. \E o, s \in 0..MaxSize : \E v \in Values :
                Files'[name] = Virtual!Overwritten(Files[name], o, s, v)
      BY <2>1, <2>2
    <2>4. /\ Files = [n \in Names |-> Content(Current, n)]
          /\ Files' = [n \in Names |-> Content(Current, n)]'
      BY <1>1
    <2>5. /\ ContentInv' /\ name \in Names /\ touched' = touched \cup {name}
          /\ Files' = [Files EXCEPT ![name] = Files'[name]]
      BY <1>3, <2>1
    <2> HIDE DEF Files
    <2>6. Virtual!VirtualChange(name)
      BY <2>1, <2>3, <2>4, <2>5 DEF Virtual!VirtualChange
    <2> QED BY <2>5, <2>6 DEF Virtual!VirtualNext
  <1>11. ASSUME NEW p \in Proc, NEW id \in DOMAIN mem[p].info,
                NEW offset \in 0..(MaxSize - 1), NEW size \in 1..(MaxSize - offset),
                Read(p, id, offset, size)
        PROVE  SameFiles
    BY <1>11, ReadContent
  <1>12. ASSUME UNCHANGED vars
         PROVE  SameFiles
    BY <1>12, StageContent DEF vars, fileVars, historyVars
  <1> QED BY <1>2, <1>4, <1>5, <1>6, <1>7, <1>8, <1>9, <1>10, <1>11, <1>12 DEF Next

LEMMA ContentHolds == Fresh => (Spec => []ContentInv)
  <1> SUFFICES ASSUME Fresh
               PROVE  Spec => []ContentInv
    OBVIOUS
  <1>1. Init => ContentInv
    BY InitContent
  <1>2. IInv /\ ContentInv /\ [Next]_vars /\ FilesView /\ FilesView' => ContentInv'
    BY StepContent
  <1> QED BY <1>1, <1>2, InvariantHolds, ViewHolds, PTL DEF Spec

\* Each virtual file is a file of its own: a write changes the units it writes and
\* no others, though its blocks are those of files removed before and though its
\* buffer holds what its block does not; a flush, another process that takes the
\* lock and a file that is opened again change nothing; and who dies loses no file
\* it has not touched since the last flush.  Provided that who gets the lock has
\* the header of the file, which the code does not see to when several processes
\* have it open: it resyncs, or it is the only one.
THEOREM VirtualFilesImplemented == Fresh => (Spec => IsVirtualFiles)
  <1> SUFFICES ASSUME Fresh
               PROVE  Spec => IsVirtualFiles
    OBVIOUS
  <1>1. Init => Virtual!VirtualInit
    <2>1. SUFFICES ASSUME Init
                   PROVE  Virtual!VirtualInit
      OBVIOUS
    <2>2. \A n \in Names : Files[n] = Absent
      BY <2>1, ViewIs, InitContent DEF FilesView
    <2>3. Files = [n \in Names |-> Absent] /\ touched = {}
      BY <2>1, <2>2 DEF Files, Init
    <2> QED BY <2>3 DEF Virtual!VirtualInit, Files
  <1>2. IInv /\ ContentInv /\ [Next]_vars /\ FilesView /\ FilesView'
            => [Virtual!VirtualNext]_(Virtual!fileVars)
    BY StepContent
  <1>3. Spec => []ContentInv
    BY ContentHolds
  <1> QED BY <1>1, <1>2, <1>3, InvariantHolds, ViewHolds, PTL
          DEF Spec, IsVirtualFiles, Virtual!VirtualSpec

-----------------------------------------------------------------------------
(* What a read gives.                                                       *)

\* Every block of a range has a unit of it.
LEMMA BlockOfRange ==
    ASSUME NEW offset \in Nat, NEW size \in Nat \ {0},
           NEW a \in FirstBlock(offset)..(FirstBlock(offset) + NrTurns(offset, size) - 1)
    PROVE  \E u \in offset..(offset + size - 1) : u \div BlockSize = a
  <1> DEFINE first == FirstBlock(offset)
             last == NrBlocks(offset + size)
             x == a * BlockSize
  <1>1. first \in Nat /\ last \in Nat /\ a \in Nat /\ first <= a /\ a + 1 <= last
        /\ first = offset \div BlockSize
    <2>1. /\ first \in Nat /\ NrTurns(offset, size) \in Nat \ {0}
          /\ first + NrTurns(offset, size) = last
      BY TurnsIs
    <2>2. a \in first..(first + NrTurns(offset, size) - 1)
      OBVIOUS
    <2>3. first = offset \div BlockSize
      BY DEF FirstBlock
    <2> HIDE DEF first, last
    <2> QED BY <2>1, <2>2, <2>3
  <1>2. CASE a = first
    <2>1. offset \in offset..(offset + size - 1) /\ offset \div BlockSize = a
      BY <1>1, <1>2
    <2> QED BY <2>1
  <1>3. CASE a # first
    <2>1. x \in Nat /\ (a + 1) * BlockSize = x + BlockSize
      BY <1>1, BlockSizeIs
    <2>2. offset < first * BlockSize + BlockSize /\ first * BlockSize \in Nat
      BY <1>1, UnitBlock, BlockSizeIs DEF Offsets
    <2>3. first * BlockSize + BlockSize <= x
      <3>1. (first + 1) * BlockSize <= x /\ (first + 1) * BlockSize = first * BlockSize + BlockSize
        BY <1>1, <1>3, BlockSizeIs
      <3> QED BY <3>1
    <2>4. last * BlockSize \in Nat /\ last * BlockSize <= offset + size + BlockSize - 1
      BY <1>1, BlockSizeIs, UnitBlock DEF NrBlocks, Offsets
    <2>5. x + BlockSize <= last * BlockSize
      <3>1. (a + 1) * BlockSize <= last * BlockSize
        BY <1>1, BlockSizeIs
      <3> QED BY <2>1, <3>1
    <2>6. x \div BlockSize = a
      BY <1>1, BlockSizeIs
    <2> HIDE DEF x, last, first
    <2>7. x \in offset..(offset + size - 1)
      <3> DEFINE y == first * BlockSize
                 z == last * BlockSize
      <3>1. y \in Nat /\ z \in Nat /\ offset < y + BlockSize /\ y + BlockSize <= x
            /\ z <= offset + size + BlockSize - 1 /\ x + BlockSize <= z
        BY <2>2, <2>3, <2>4, <2>5
      <3> HIDE DEF y, z
      <3> QED BY <2>1, <3>1, BlockSizeIs
    <2> QED BY <2>6, <2>7
  <1> QED BY <1>2, <1>3

\* The turns of read give the whole range.
LEMMA AllRead ==
    ASSUME NEW offset \in Nat, NEW size \in Nat \ {0}
    PROVE  Reading(offset, size, NrTurns(offset, size)) = offset + size
  <1> DEFINE last == NrBlocks(offset + size)
             z == last * BlockSize
  <1>1. /\ NrTurns(offset, size) \in Nat \ {0} /\ last \in Nat
        /\ FirstBlock(offset) + NrTurns(offset, size) = last
    <2>1. /\ FirstBlock(offset) \in Nat /\ NrTurns(offset, size) \in Nat \ {0}
          /\ FirstBlock(offset) + NrTurns(offset, size) = last
      BY TurnsIs
    <2> HIDE DEF last
    <2> QED BY <2>1
  <1>2. z \in Nat /\ offset + size <= z
    BY <1>1, BlockSizeIs, UnitBlock DEF NrBlocks, Offsets
  <1>3. Reading(offset, size, NrTurns(offset, size)) = Lesser(offset + size, z)
    BY <1>1 DEF Reading
  <1> HIDE DEF z
  <1> QED BY <1>2, <1>3 DEF Lesser

LEMMA GivenUnits ==
    ASSUME NEW info \in InfoValue, NEW d, NEW skipped, NEW offset \in Nat, NEW todo \in Nat \ {0},
           offset + todo <= info.fsize, Units(info, d, skipped) \in Seq(UnitValue),
           Len(Units(info, d, skipped)) = info.fsize,
           skipped \cap ((offset + 1)..(offset + todo)) = {}
    PROVE  Given(info, d, offset, offset + todo)
                = SubSeq(Units(info, d, skipped), offset + 1, offset + todo)
  <1> DEFINE c == Units(info, d, skipped)
             part == SubSeq(c, offset + 1, offset + todo)
             given == Given(info, d, offset, offset + todo)
  <1>1. info.fsize \in Nat
    BY InfoFields, MultiFileAssumption
  <1>2. ASSUME NEW u \in (offset + 1)..(offset + todo)
        PROVE  u \in 1..info.fsize /\ c[u] = UnitAt(info, d, u - 1) /\ c[u] \in UnitValue
    <2>1. u \in 1..info.fsize /\ u \notin skipped
      BY <1>1, <1>2
    <2>2. c[u] = UnitAt(info, d, u - 1)
      BY <2>1 DEF Units
    <2> HIDE DEF c
    <2>3. c \in Seq(UnitValue) /\ Len(c) = info.fsize
      BY DEF c
    <2>4. c[u] \in UnitValue
      BY <1>1, <2>1, <2>3, ElementOfSeq
    <2> QED BY <2>1, <2>2, <2>4
  <1> HIDE DEF c
  <1>3. /\ part \in Seq(UnitValue) /\ Len(part) = todo
        /\ \A i \in 1..todo : part[i] = c[offset + i]
    <2> DEFINE from == offset + 1
               to == offset + todo
    <2>1. from \in Int /\ to \in Int /\ from <= to /\ to - from + 1 = todo
          /\ \A u \in from..to : c[u] \in UnitValue
          /\ \A i \in 1..todo : from + i - 1 = offset + i
      BY <1>2
    <2> HIDE DEF from, to
    <2>2. /\ SubSeq(c, from, to) \in Seq(UnitValue)
          /\ Len(SubSeq(c, from, to)) = to - from + 1
          /\ \A i \in 1..(to - from + 1) : SubSeq(c, from, to)[i] = c[from + i - 1]
      BY <2>1, SubSeqProperties
    <2>3. part = SubSeq(c, from, to)
      BY DEF from, to
    <2> HIDE DEF part
    <2>4. part \in Seq(UnitValue) /\ Len(part) = todo
      BY <2>1, <2>2, <2>3
    <2>5. ASSUME NEW i \in 1..todo
          PROVE  part[i] = c[offset + i]
      <3>1. i \in 1..(to - from + 1)
        BY <2>1
      <3>2. SubSeq(c, from, to)[i] = c[from + i - 1]
        BY <2>2, <3>1
      <3> QED BY <2>1, <2>3, <3>2
    <2> QED BY <2>4, <2>5
  <1>4. given = [i \in 1..todo |-> UnitAt(info, d, offset + i - 1)]
    <2>1. (offset + todo) - offset = todo
      OBVIOUS
    <2> QED BY <2>1 DEF Given
  <1>5. ASSUME NEW i \in 1..todo
        PROVE  UnitAt(info, d, offset + i - 1) = c[offset + i] /\ c[offset + i] \in UnitValue
    <2>1. offset + i \in (offset + 1)..(offset + todo) /\ (offset + i) - 1 = offset + i - 1
      OBVIOUS
    <2> QED BY <1>2, <2>1
  <1> HIDE DEF given, part
  <1>6. given \in Seq(UnitValue) /\ Len(given) = todo
    <2> DEFINE e(i) == UnitAt(info, d, offset + i - 1)
    <2>1. given = [i \in 1..todo |-> e(i)] /\ \A i \in 1..todo : e(i) \in UnitValue
      BY <1>4, <1>5
    <2> HIDE DEF e
    <2> QED BY <2>1, IsASeq
  <1>7. \A i \in 1..todo : given[i] = part[i]
    BY <1>3, <1>4, <1>5
  <1>8. given = part
    BY <1>3, <1>6, <1>7, SeqEqual
  <1> QED BY <1>8 DEF given, part, c

LEMMA ReadGives ==
    ASSUME IInv, ContentInv, NEW p \in Proc, NEW id \in DOMAIN mem[p].info,
           NEW offset \in 0..(MaxSize - 1), NEW size \in 1..(MaxSize - offset),
           Readable(p, id, offset, size)
    PROVE  Got(p, id, offset, size).done =
                SubSeq(Content(mem[p], mem[p].info[id].name), offset + 1,
                       Lesser(offset + size, mem[p].info[id].fsize))
  <1> DEFINE m == mem[p]
             info == m.info[id]
             name == info.name
             todo == Todo(info, offset, size)
             got == Got(p, id, offset, size)
             first == FirstBlock(offset)
             last == FirstBlock(offset) + NrTurns(offset, todo) - 1
  <1>1. /\ holder = p /\ id \in Ids(m) /\ offset < info.fsize
        /\ gaps[name] \cap ((offset + 1)..(offset + size)) = {}
    BY DEF Readable, Holds
  <1>2. offset \in Nat /\ size \in Nat \ {0}
    BY MultiFileAssumption
  <1>3. m \in MemValue /\ disk \in DiskValue /\ MemOk(m, disk)
        /\ CopyTrue(m, header, disk, gaps, touched)
    <2>1. holder # None
      BY <1>1, MultiFileAssumption
    <2> QED BY <1>1, <2>1, HolderTrue, HeaderTrue
  <1>4. /\ info \in InfoValue /\ InfoTrue(info, disk, gaps, touched) /\ BufferTrue(info, disk)
        /\ Len(info.blockNrs) = NrBlocks(info.fsize) /\ name # None
        /\ id \in DOMAIN m.info /\ UniqueNames(m)
    BY <1>1, <1>3, MemFields DEF CopyTrue, MemOk, Placed, InfoTrue, Ids
  <1>5. /\ todo \in Nat \ {0} /\ offset + todo <= info.fsize
        /\ \E start : /\ start.info = info /\ start.disk = disk
                      /\ GetDone(got, start, offset, todo, NrTurns(offset, todo))
    BY <1>1, <1>2, ReadIs
  <1>6. info.fsize \in Nat
    BY <1>4, InfoFields, MultiFileAssumption
  <1>7. todo <= size /\ offset + todo = Lesser(offset + size, info.fsize)
    <2> HIDE DEF info
    <2> QED BY <1>1, <1>2, <1>6 DEF Todo, Lesser
  <1>8. gaps[name] \cap ((offset + 1)..(offset + todo)) = {}
    <2> HIDE DEF name, todo
    <2>1. (offset + 1)..(offset + todo) \subseteq (offset + 1)..(offset + size)
      BY <1>2, <1>5, <1>7
    <2> QED BY <1>1, <2>1
  <1> HIDE DEF todo, got
  <1>9. ASSUME NEW a \in first..last
        PROVE  Present(info, disk, a)
    <2>1. PICK v \in offset..(offset + todo - 1) : v \div BlockSize = a
      BY <1>2, <1>5, BlockOfRange
    <2> HIDE DEF info, name
    <2>2. v + 1 \in 1..info.fsize /\ v + 1 \notin gaps[name] /\ (v + 1) - 1 = v
      BY <1>2, <1>5, <1>6, <1>8
    <2>3. \A u \in 1..info.fsize : u \notin gaps[name] =>
                Present(info, disk, (u - 1) \div BlockSize)
      BY <1>4 DEF InfoTrue, name
    <2> QED BY <2>1, <2>2, <2>3
  <1>10. got.done = Given(info, disk, offset, offset + todo)
    <2>1. PICK start : /\ start.info = info /\ start.disk = disk
                       /\ GetDone(got, start, offset, todo, NrTurns(offset, todo))
      BY <1>5
    <2>2. got.done = Given(start.info, start.disk, offset,
                           Reading(offset, todo, NrTurns(offset, todo)))
      BY <1>4, <1>9, <2>1 DEF GetDone
    <2> QED BY <1>2, <1>5, <2>1, <2>2, AllRead
  <1>11. IsEntry(m, id, name)
    BY <1>4 DEF IsEntry
  <1> HIDE DEF m
  <1>12. name = m.info[id].name
    OBVIOUS
  <1> HIDE DEF name
  <1>13. Content(m, name) = Units(m.info[id], disk, gaps[name])
    BY <1>11, ContentOfFile, ContentIs
  <1> HIDE DEF info
  <1>14. /\ Units(info, disk, gaps[name]) \in Seq(UnitValue)
         /\ Len(Units(info, disk, gaps[name])) = info.fsize
    BY <1>3, <1>4, <1>12, UnitsAre DEF info
  <1>15. Given(info, disk, offset, offset + todo)
            = SubSeq(Units(info, disk, gaps[name]), offset + 1, offset + todo)
    BY <1>2, <1>4, <1>5, <1>8, <1>14, GivenUnits
  <1>16. got.done = SubSeq(Content(m, name), offset + 1, Lesser(offset + size, info.fsize))
    BY <1>7, <1>10, <1>13, <1>15 DEF info
  <1> QED BY <1>12, <1>16 DEF got, info, m

\* Any read of units that were written gives what the file has: whether it takes a
\* block from the buffer, from the file past the buffer, or into the buffer after
\* what was there is written back.
THEOREM ReadsGiveTheContent == Fresh => (Spec => []ReadsContent)
  <1> SUFFICES ASSUME Fresh
               PROVE  Spec => []ReadsContent
    OBVIOUS
  <1>1. IInv /\ ContentInv => ReadsContent
    BY ReadGives DEF ReadsContent
  <1>2. Spec => []ContentInv
    BY ContentHolds
  <1> QED BY <1>1, <1>2, InvariantHolds, PTL

=============================================================================
