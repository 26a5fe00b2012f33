---------------------- MODULE StringBucketRowsProofs ----------------------
(***************************************************************************)
(* The steps of StringBuckets, from the operations that StringBucketsProofs  *)
(* has on a layout of the values: the cells move with their rows, the loops  *)
(* go over the cells of a bucket, and the two theorems follow.               *)
(***************************************************************************)
EXTENDS StringBucketsProofs

-----------------------------------------------------------------------------
(* The cells of a row that is removed.                                       *)

\* The cells of column c at p..e of a bucket move up, and the last one is cleared.
MovedCells(cells, p, e, c) ==
    [q \in 1..RowsPerBucket |->
        IF q \in p..e
        THEN [cells[q] EXCEPT ![c] = IF q = e THEN EmptyCell ELSE cells[q + 1][c]]
        ELSE cells[q]]
Moved(s, b, p, e, c) == [s EXCEPT !.file[b].cells = MovedCells(s.file[b].cells, p, e, c)]
IsSpan(D, b, p, e) ==
    b \in D /\ p \in 1..RowsPerBucket /\ e \in 1..RowsPerBucket /\ p <= e
\* What has been put moves likewise.
InSpan(y, b, p, e, c) == y[1] = b /\ y[2] \in p..e /\ y[3] = c
ValMoved(val, val2, b, p, e, c) ==
    /\ DOMAIN val2 = DOMAIN val
    /\ \A y \in DOMAIN val :
        /\ ~InSpan(y, b, p, e, c) => val2[y] = val[y]
        /\ InSpan(y, b, p, e, c) /\ y[2] = e => val2[y] = Nothing
        /\ InSpan(y, b, p, e, c) /\ y[2] # e => val2[y] = val[<<b, y[2] + 1, c>>]

LEMMA MovedCellsIs ==
    ASSUME NEW cells \in CellsValue, NEW p \in 1..RowsPerBucket, NEW e \in 1..RowsPerBucket,
           NEW c \in Columns
    PROVE  /\ MovedCells(cells, p, e, c) \in CellsValue
           /\ \A q \in 1..RowsPerBucket, d \in Columns :
                /\ ~(q \in p..e /\ d = c) => MovedCells(cells, p, e, c)[q][d] = cells[q][d]
                /\ q \in p..e /\ q # e => MovedCells(cells, p, e, c)[q][c] = cells[q + 1][c]
           /\ p <= e => MovedCells(cells, p, e, c)[e][c] = EmptyCell
  <1> DEFINE new == MovedCells(cells, p, e, c)
  <1>0. RowsPerBucket \in Nat
    BY StringBucketsAssumption
  <1>1. \A q \in 1..RowsPerBucket : cells[q] \in [Columns -> CellValue]
    BY DEF CellsValue
  <1>2. \A q \in 1..RowsPerBucket : new[q] =
            IF q \in p..e
            THEN [cells[q] EXCEPT ![c] = IF q = e THEN EmptyCell ELSE cells[q + 1][c]]
            ELSE cells[q]
    BY DEF MovedCells
  <1>3. DOMAIN new = 1..RowsPerBucket /\ new = [q \in 1..RowsPerBucket |-> new[q]]
    BY DEF MovedCells
  <1> HIDE DEF new
  <1>4. ASSUME NEW q \in 1..RowsPerBucket
        PROVE  /\ new[q] \in [Columns -> CellValue]
               /\ \A d \in Columns :
                    /\ ~(q \in p..e /\ d = c) => new[q][d] = cells[q][d]
                    /\ q \in p..e /\ q # e => new[q][c] = cells[q + 1][c]
                    /\ q \in p..e /\ q = e => new[q][c] = EmptyCell
    <2>1. CASE q \in p..e /\ q = e
      <3>1. new[q] = [cells[q] EXCEPT ![c] = EmptyCell]
        BY <1>2, <2>1
      <3> QED BY <1>1, <2>1, <3>1, EmptyCellIs
    <2>2. CASE q \in p..e /\ q # e
      <3>1. q + 1 \in 1..RowsPerBucket
        BY <1>0, <2>2
      <3>2. cells[q + 1][c] \in CellValue
        BY <1>1, <3>1
      <3>3. new[q] = [cells[q] EXCEPT ![c] = cells[q + 1][c]]
        BY <1>2, <2>2
      <3> QED BY <1>1, <2>2, <3>2, <3>3
    <2>3. CASE ~(q \in p..e)
      BY <1>1, <1>2, <2>3
    <2> QED BY <2>1, <2>2, <2>3
  <1>5. new \in CellsValue
    BY <1>3, <1>4 DEF CellsValue
  <1>6. p <= e => new[e][c] = EmptyCell
    BY <1>4
  <1> QED BY <1>4, <1>5, <1>6 DEF new

\* The place that a cell comes from; that of the row that is removed goes to the end.
From(y, b, p, e, c) ==
    IF InSpan(y, b, p, e, c)
    THEN IF y[2] = e THEN <<b, p, c>> ELSE <<b, y[2] + 1, c>>
    ELSE y
FromIsOnto(D, b, p, e, c) ==
    /\ \A y \in Keys(D) : From(y, b, p, e, c) \in Keys(D)
    /\ \A y, z \in Keys(D) : From(y, b, p, e, c) = From(z, b, p, e, c) => y = z
    /\ \A x \in Keys(D) : \E y \in Keys(D) : From(y, b, p, e, c) = x
    /\ \A y \in Keys(D) : From(y, b, p, e, c) = <<b, p, c>> =>
            InSpan(y, b, p, e, c) /\ y[2] = e

LEMMA FromIs ==
    ASSUME NEW D, NEW b, NEW p, NEW e, IsSpan(D, b, p, e), NEW c \in Columns
    PROVE  FromIsOnto(D, b, p, e, c)
  <1> DEFINE g(y) == From(y, b, p, e, c)
             in(y) == InSpan(y, b, p, e, c)
  <1>0. /\ b \in D /\ p \in 1..RowsPerBucket /\ e \in 1..RowsPerBucket /\ p <= e
        /\ RowsPerBucket \in Nat /\ p \in Nat /\ e \in Nat
    BY StringBucketsAssumption DEF IsSpan
  <1>1. ASSUME NEW y \in Keys(D)
        PROVE  /\ y = <<y[1], y[2], y[3]>> /\ y[2] \in 1..RowsPerBucket
               /\ g(y) \in Keys(D) /\ g(y) = <<g(y)[1], g(y)[2], g(y)[3]>>
               /\ ~in(y) => g(y) = y
               /\ in(y) /\ y[2] = e => g(y) = <<b, p, c>> /\ y = <<b, e, c>>
               /\ in(y) /\ y[2] # e => g(y) = <<b, y[2] + 1, c>> /\ y = <<b, y[2], c>>
                                         /\ y[2] \in p..(e - 1)
    <2>1. /\ y[1] \in D /\ y[2] \in 1..RowsPerBucket /\ y[3] \in Columns
          /\ y = <<y[1], y[2], y[3]>>
      BY KeysAre
    <2>2. CASE ~in(y)
      BY <2>1, <2>2 DEF From
    <2>3. CASE in(y) /\ y[2] = e
      <3>1. g(y) = <<b, p, c>> /\ y = <<b, e, c>>
        BY <2>1, <2>3 DEF From, InSpan
      <3>2. <<b, p, c>> \in Keys(D)
        BY <1>0, KeyIs
      <3> QED BY <2>1, <2>3, <3>1, <3>2
    <2>4. CASE in(y) /\ y[2] # e
      <3>1. g(y) = <<b, y[2] + 1, c>> /\ y = <<b, y[2], c>>
        BY <2>1, <2>4 DEF From, InSpan
      <3>2. y[2] + 1 \in 1..RowsPerBucket /\ y[2] \in p..(e - 1)
        BY <1>0, <2>1, <2>4 DEF InSpan
      <3>3. <<b, y[2] + 1, c>> \in Keys(D)
        BY <1>0, <3>2, KeyIs
      <3> QED BY <2>1, <2>4, <3>1, <3>2, <3>3
    <2> QED BY <2>2, <2>3, <2>4
  <1>2. ASSUME NEW y \in Keys(D), in(y)
        PROVE  y[1] = b /\ y[3] = c /\ y[2] \in p..e
    BY <1>2 DEF InSpan
  <1>3. ASSUME NEW q \in p..e, <<b, q, c>> \in Keys(D)
        PROVE  in(<<b, q, c>>)
    BY <1>3 DEF InSpan
  <1>4. ASSUME NEW y \in Keys(D), in(y)
        PROVE  in(g(y))
    <2>1. CASE y[2] = e
      <3>1. g(y) = <<b, p, c>> /\ p \in p..e /\ g(y) \in Keys(D)
        BY <1>0, <1>1, <1>4, <2>1
      <3> QED BY <1>3, <3>1
    <2>2. CASE y[2] # e
      <3>1. g(y) = <<b, y[2] + 1, c>> /\ y[2] + 1 \in p..e /\ g(y) \in Keys(D)
        BY <1>0, <1>1, <1>4, <2>2
      <3> QED BY <1>3, <3>1
    <2> QED BY <2>1, <2>2
  <1> HIDE DEF g, in
  <1>5. ASSUME NEW y \in Keys(D), NEW z \in Keys(D), g(y) = g(z)
        PROVE  y = z
    <2>1. CASE ~in(y) /\ ~in(z)
      BY <1>1, <1>5, <2>1
    <2>2. CASE in(y) /\ in(z)
      <3>1. CASE y[2] = e /\ z[2] = e
        BY <1>1, <2>2, <3>1
      <3>2. CASE y[2] = e /\ z[2] # e
        <4>1. <<b, p, c>> = <<b, z[2] + 1, c>> /\ z[2] \in p..(e - 1)
          BY <1>1, <1>5, <2>2, <3>2
        <4> QED BY <1>0, <4>1
      <3>3. CASE y[2] # e /\ z[2] = e
        <4>1. <<b, p, c>> = <<b, y[2] + 1, c>> /\ y[2] \in p..(e - 1)
          BY <1>1, <1>5, <2>2, <3>3
        <4> QED BY <1>0, <4>1
      <3>4. CASE y[2] # e /\ z[2] # e
        <4>1. /\ <<b, y[2] + 1, c>> = <<b, z[2] + 1, c>>
              /\ y[2] \in p..(e - 1) /\ z[2] \in p..(e - 1)
              /\ y = <<b, y[2], c>> /\ z = <<b, z[2], c>>
          BY <1>1, <1>5, <2>2, <3>4
        <4>2. y[2] + 1 = z[2] + 1
          BY <4>1
        <4>3. y[2] = z[2]
          BY <1>0, <4>1, <4>2
        <4> QED BY <4>1, <4>3
      <3> QED BY <3>1, <3>2, <3>3, <3>4
    <2>3. CASE in(y) /\ ~in(z)
      BY <1>1, <1>4, <1>5, <2>3
    <2>4. CASE ~in(y) /\ in(z)
      BY <1>1, <1>4, <1>5, <2>4
    <2> QED BY <2>1, <2>2, <2>3, <2>4
  <1>6. ASSUME NEW x \in Keys(D)
        PROVE  \E y \in Keys(D) : g(y) = x
    <2>1. CASE ~in(x)
      BY <1>1, <2>1
    <2>2. CASE in(x)
      <3>1. x[1] = b /\ x[3] = c /\ x[2] \in p..e /\ x = <<b, x[2], c>>
        BY <1>1, <1>2, <2>2
      <3>2. CASE x[2] = p
        <4> DEFINE y == <<b, e, c>>
        <4>1. y \in Keys(D) /\ y[2] = e
          BY <1>0, KeyIs
        <4>2. e \in p..e
          BY <1>0
        <4>3. in(y)
          BY <1>3, <4>1, <4>2
        <4> HIDE DEF y
        <4>4. g(y) = <<b, p, c>>
          BY <1>1, <4>1, <4>3
        <4> QED BY <3>1, <3>2, <4>1, <4>4
      <3>3. CASE x[2] # p
        <4> DEFINE q == x[2] - 1
                   y == <<b, q, c>>
        <4>1. q \in p..e /\ q # e /\ q \in 1..RowsPerBucket /\ q + 1 = x[2]
          BY <1>0, <3>1, <3>3
        <4> HIDE DEF q
        <4>2. y \in Keys(D) /\ y[2] = q
          BY <1>0, <4>1, KeyIs
        <4>3. in(y)
          BY <1>3, <4>1, <4>2
        <4> HIDE DEF y
        <4>4. g(y) = <<b, q + 1, c>>
          BY <1>1, <4>1, <4>2, <4>3
        <4> QED BY <3>1, <4>1, <4>2, <4>4
      <3> QED BY <3>2, <3>3
    <2> QED BY <2>1, <2>2
  <1>7. ASSUME NEW y \in Keys(D), g(y) = <<b, p, c>>
        PROVE  in(y) /\ y[2] = e
    <2>1. <<b, p, c>> \in Keys(D) /\ p \in p..e
      BY <1>0, KeyIs
    <2>2. in(<<b, p, c>>)
      BY <1>3, <2>1
    <2>3. in(y)
      BY <1>1, <1>7, <2>2
    <2>4. ASSUME y[2] # e
          PROVE  FALSE
      <3>1. <<b, p, c>> = <<b, y[2] + 1, c>> /\ y[2] \in p..(e - 1)
        BY <1>1, <1>7, <2>3, <2>4
      <3> QED BY <1>0, <3>1
    <2> QED BY <2>3, <2>4
  <1> QED BY <1>1, <1>5, <1>6, <1>7 DEF FromIsOnto, g, in

LEMMA MovedSound ==
    ASSUME NEW s, NEW D, NEW val, NEW at, Sound(s, D, val, at),
           NEW b, NEW p, NEW e, IsSpan(D, b, p, e), NEW c \in Columns,
           NEW t, NEW at1, Removed(s, t, D, at, at1, UnitsOf(val), <<b, p, c>>),
           NEW val2, ValMoved(val, val2, b, p, e, c)
    PROVE  \E at2 : Sound(Moved(t, b, p, e, c), D, val2, at2)
  <1> DEFINE x == <<b, p, c>>
             un == UnitsOf(val)
             un2 == UnitsOf(val2)
             g == [y \in Keys(D) |-> From(y, b, p, e, c)]
             at2 == [y \in Keys(D) |-> at1[g[y]]]
             cells == t.file[b].cells
             r == Moved(t, b, p, e, c)
             end(y) == InSpan(y, b, p, e, c) /\ y[2] = e
  <1>0. /\ b \in D /\ p \in 1..RowsPerBucket /\ e \in 1..RowsPerBucket /\ p <= e
        /\ RowsPerBucket \in Nat /\ p \in Nat /\ e \in Nat
    BY StringBucketsAssumption DEF IsSpan
  <1>1. /\ DOMAIN val = Keys(D) /\ DOMAIN at = Keys(D) /\ DOMAIN val2 = Keys(D)
        /\ \A y \in Keys(D) : Fits(Cell(s, y), val[y], y[3], at[y])
    BY DEF Sound, ValMoved
  <1>2. /\ DOMAIN at1 = Keys(D) /\ DOMAIN at1[x] = {} /\ State(t, D, at1, un) /\ Kept(s, t, D)
        /\ \A y \in Keys(D) : y # x => at1[y] = at[y]
    BY <1>1 DEF Removed, Changed
  <1>3. FromIsOnto(D, b, p, e, c)
    BY FromIs
  <1>4. /\ \A y \in Keys(D) : g[y] \in Keys(D)
        /\ \A y, z \in Keys(D) : g[y] = g[z] => y = z
        /\ \A z \in Keys(D) : \E y \in Keys(D) : g[y] = z
        /\ \A y \in Keys(D) : g[y] = x => end(y)
    BY <1>3 DEF FromIsOnto
  <1>5. ASSUME NEW y \in Keys(D)
        PROVE  /\ end(y) => g[y] = x /\ y = <<b, e, c>> /\ val2[y] = Nothing
               /\ ~end(y) => val2[y] = val[g[y]]
               /\ InSpan(y, b, p, e, c) /\ ~end(y) =>
                    /\ g[y] = <<b, y[2] + 1, c>> /\ y = <<b, y[2], c>>
                    /\ y[2] \in p..e /\ y[2] # e
               /\ ~InSpan(y, b, p, e, c) => g[y] = y
    <2>1. g[y] = From(y, b, p, e, c)
      OBVIOUS
    <2>2. y = <<y[1], y[2], y[3]>>
      BY KeysAre
    <2>3. y \in DOMAIN val
      BY <1>1
    <2> HIDE DEF g
    <2> QED BY <2>1, <2>2, <2>3 DEF From, InSpan, ValMoved
  <1>6. \A y \in Keys(D) : at2[y] = at1[g[y]]
    OBVIOUS
  <1>7. DOMAIN at2 = Keys(D)
    OBVIOUS
  <1> HIDE DEF g, at2, x, end
  <1>8. ASSUME NEW y \in Keys(D)
        PROVE  end(y) => DOMAIN at2[y] = {}
    BY <1>2, <1>5, <1>6
  <1>9. Renamed(at1, un, at2, un2, g)
    <2>1. ASSUME NEW y \in DOMAIN at2, NEW k \in DOMAIN at2[y]
          PROVE  /\ g[y] \in DOMAIN at1 /\ k \in DOMAIN at1[g[y]]
                 /\ at2[y][k] = at1[g[y]][k] /\ un2[y][k] = un[g[y]][k]
      <3>1. ~end(y) /\ y \in Keys(D)
        BY <1>7, <1>8
      <3>2. val2[y] = val[g[y]] /\ g[y] \in Keys(D)
        BY <1>4, <1>5, <3>1
      <3>3. un2[y] = un[g[y]]
        BY <1>1, <3>1, <3>2 DEF UnitsOf
      <3> QED BY <1>2, <1>6, <3>1, <3>2, <3>3
    <2>2. \A y, z \in DOMAIN at2 : \A k \in DOMAIN at2[y] \cap DOMAIN at2[z] :
            g[y] = g[z] => y = z
      BY <1>4, <1>7
    <2>3. ASSUME NEW z \in DOMAIN at1, NEW k \in DOMAIN at1[z]
          PROVE  \E y \in DOMAIN at2 : g[y] = z /\ k \in DOMAIN at2[y]
      <3>1. PICK y \in Keys(D) : g[y] = z
        BY <1>2, <1>4
      <3> QED BY <1>6, <1>7, <3>1
    <2> QED BY <2>1, <2>2, <2>3 DEF Renamed
  <1>10. State(t, D, at2, un2)
    BY <1>2, <1>9, RenamedState
  <1>11. t \in StoreValue /\ D \subseteq DOMAIN t.file
    BY <1>10, StateIs DEF Handler
  <1>12. t.file[b] \in BucketValue
    BY <1>0, <1>11, FileIs
  <1>13. cells \in CellsValue
    BY <1>12 DEF BucketValue
  <1> DEFINE new == MovedCells(cells, p, e, c)
  <1>14. r = [t EXCEPT !.file[b].cells = new]
    BY DEF Moved
  <1>15. \A y \in Keys(D) : y[1] = b => Cell(t, y) = cells[y[2]][y[3]]
    BY DEF Cell
  <1> HIDE DEF cells, r
  <1>16. /\ new \in CellsValue
         /\ \A q \in 1..RowsPerBucket, d \in Columns :
                /\ ~(q \in p..e /\ d = c) => new[q][d] = cells[q][d]
                /\ q \in p..e /\ q # e => new[q][c] = cells[q + 1][c]
         /\ new[e][c] = EmptyCell
    BY <1>0, <1>13, MovedCellsIs
  <1> HIDE DEF new
  <1>17. /\ State(r, D, at2, un2)
         /\ \A y \in Keys(D) : y[1] = b => Cell(r, y) = new[y[2]][y[3]]
         /\ \A y \in Keys(D) : y[1] # b => Cell(r, y) = Cell(t, y)
    BY <1>0, <1>10, <1>14, <1>16, CellsState
  <1>18. ASSUME NEW y \in Keys(D)
         PROVE  Fits(Cell(r, y), val2[y], y[3], at2[y])
    <2>1. /\ y[1] \in D /\ y[2] \in 1..RowsPerBucket /\ y[3] \in Columns
          /\ y = <<y[1], y[2], y[3]>>
      BY KeysAre
    <2>2. CASE end(y)
      <3>1. y = <<b, e, c>> /\ val2[y] = Nothing /\ DOMAIN at2[y] = {}
        BY <1>5, <1>8, <2>2
      <3>2. y[1] = b /\ y[2] = e /\ y[3] = c
        BY <3>1
      <3>3. Cell(r, y) = EmptyCell
        BY <1>16, <1>17, <3>2
      <3>4. ~IsLong(EmptyCell) /\ EmptyCell.text = Nothing
        BY BucketLengthIs DEF IsLong, EmptyCell
      <3> QED BY <3>1, <3>3, <3>4, EmptyCellIs DEF Fits
    <2>3. CASE ~end(y)
      <3> DEFINE z == g[y]
      <3>1. z \in Keys(D) /\ z # x /\ val2[y] = val[z] /\ at2[y] = at1[z]
        BY <1>4, <1>5, <1>6, <2>3
      <3>2. Fits(Cell(s, z), val[z], z[3], at[z]) /\ at1[z] = at[z]
        BY <1>1, <1>2, <3>1
      <3>3. Cell(s, z) = Cell(t, z)
        BY <1>2, <3>1, KeptCells
      <3>4. Cell(r, y) = Cell(t, z) /\ z[3] = y[3]
        <4>1. CASE InSpan(y, b, p, e, c)
          <5>1. z = <<b, y[2] + 1, c>> /\ y[2] \in p..e /\ y[2] # e /\ y[3] = c /\ y[1] = b
            BY <1>5, <2>3, <4>1 DEF InSpan
          <5>2. z[1] = b /\ z[2] = y[2] + 1 /\ z[3] = c
            BY <5>1
          <5>3. Cell(r, y) = new[y[2]][c]
            BY <1>17, <5>1
          <5>4. new[y[2]][c] = cells[y[2] + 1][c]
            BY <1>0, <1>16, <2>1, <5>1
          <5>5. Cell(t, z) = cells[y[2] + 1][c]
            BY <1>15, <3>1, <5>2
          <5> QED BY <5>1, <5>2, <5>3, <5>4, <5>5
        <4>2. CASE ~InSpan(y, b, p, e, c)
          <5>1. z = y
            BY <1>5, <4>2
          <5>2. CASE y[1] = b
            <6>1. ~(y[2] \in p..e /\ y[3] = c)
              BY <4>2, <5>2 DEF InSpan
            <6> QED BY <1>15, <1>16, <1>17, <2>1, <5>1, <5>2, <6>1
          <5>3. CASE y[1] # b
            BY <1>17, <5>1, <5>3
          <5> QED BY <5>2, <5>3
        <4> QED BY <4>1, <4>2
      <3> HIDE DEF z
      <3> QED BY <3>1, <3>2, <3>3, <3>4
    <2> QED BY <2>2, <2>3
  <1>19. Sound(r, D, val2, at2)
    BY <1>1, <1>7, <1>17, <1>18 DEF Sound, un2
  <1> QED BY <1>19 DEF r

\* deleteRow of a column, for the cell at p, where e is the last one of a row.
GoneFrom(s, b, p, e, c) ==
    LET cell == Cell(s, <<b, p, c>>)
    IN  IF c \in Scalars /\ IsLong(cell) THEN Moved(RemoveCell(s, cell), b, p, e, c)
        ELSE IF p < e THEN Moved(s, b, p, e, c)
        ELSE s

LEMMA GoneSound ==
    ASSUME NEW s, NEW D, NEW val, NEW at, Sound(s, D, val, at),
           NEW b, NEW p, NEW e, IsSpan(D, b, p, e), NEW c \in Columns,
           NEW val2, ValMoved(val, val2, b, p, e, c),
           c \in Arrays => val[<<b, p, c>>] = Nothing
    PROVE  \E at2 : Sound(GoneFrom(s, b, p, e, c), D, val2, at2)
  <1> DEFINE x == <<b, p, c>>
             cell == Cell(s, x)
             un == UnitsOf(val)
  <1>0. /\ b \in D /\ p \in 1..RowsPerBucket /\ e \in 1..RowsPerBucket /\ p <= e
        /\ RowsPerBucket \in Nat /\ p \in Nat /\ e \in Nat
    BY StringBucketsAssumption DEF IsSpan
  <1>1. x \in Keys(D) /\ x[1] = b /\ x[2] = p /\ x[3] = c
    BY <1>0, KeyIs
  <1>2. GoneFrom(s, b, p, e, c) =
            IF c \in Scalars /\ IsLong(cell) THEN Moved(RemoveCell(s, cell), b, p, e, c)
            ELSE IF p < e THEN Moved(s, b, p, e, c) ELSE s
    BY DEF GoneFrom
  <1>3. c \in Arrays => val[x] = Nothing
    OBVIOUS
  <1> HIDE DEF x
  <1>4. /\ (IsLong(cell) => CellAt(cell, at, x) /\ val[x] \in Values)
        /\ (~IsLong(cell) => DOMAIN at[x] = {})
        /\ val[x] = Nothing => ~IsLong(cell)
    BY <1>1, FitsIs
  <1>5. \E at1 : Removed(s, Without(s, x), D, at, at1, un, x)
    BY <1>1, WithoutIs
  <1>6. CASE (c \in Scalars /\ IsLong(cell)) \/ p < e
    <2>1. PICK at1 : Removed(s, Without(s, x), D, at, at1, un, x)
      BY <1>5
    <2>2. GoneFrom(s, b, p, e, c) = Moved(Without(s, x), b, p, e, c)
      <3>1. CASE IsLong(cell)
        <4>1. c \in Scalars
          BY <1>3, <1>4, <3>1 DEF Columns
        <4> QED BY <1>2, <3>1, <4>1 DEF Without
      <3>2. CASE ~IsLong(cell)
        BY <1>2, <1>6, <3>2 DEF Without
      <3> QED BY <3>1, <3>2
    <2> DEFINE t == Without(s, x)
    <2>3. Removed(s, t, D, at, at1, UnitsOf(val), <<b, p, c>>)
      BY <2>1 DEF x
    <2> HIDE DEF t
    <2>4. \E at2 : Sound(Moved(t, b, p, e, c), D, val2, at2)
      BY <2>3, MovedSound
    <2> QED BY <2>2, <2>4 DEF t
  <1>7. CASE ~((c \in Scalars /\ IsLong(cell)) \/ p < e)
    <2>1. p = e /\ GoneFrom(s, b, p, e, c) = s
      BY <1>0, <1>2, <1>7
    <2>2. ~IsLong(cell)
      BY <1>3, <1>4, <1>7 DEF Columns
    <2>3. /\ State(s, D, at, un) /\ DOMAIN val = Keys(D) /\ DOMAIN at = Keys(D)
          /\ DOMAIN val2 = Keys(D)
          /\ \A y \in Keys(D) : Fits(Cell(s, y), val[y], y[3], at[y])
      BY DEF Sound, ValMoved
    <2>4. ASSUME NEW y \in Keys(D)
          PROVE  IF y = x THEN val2[y] = Nothing ELSE val2[y] = val[y]
      <3>1. y = <<y[1], y[2], y[3]>>
        BY KeysAre
      <3>2. CASE y = x
        <4>1. InSpan(y, b, p, e, c) /\ y[2] = e
          BY <1>0, <1>1, <2>1, <3>2 DEF InSpan
        <4> QED BY <2>3, <3>2, <4>1 DEF ValMoved
      <3>3. CASE y # x
        <4>1. ~InSpan(y, b, p, e, c)
          <5>1. ASSUME InSpan(y, b, p, e, c)
                PROVE  FALSE
            <6>1. y[1] = b /\ y[2] = p /\ y[3] = c
              BY <1>0, <2>1, <5>1 DEF InSpan
            <6> QED BY <3>1, <3>3, <6>1 DEF x
          <5> QED BY <5>1
        <4> QED BY <2>3, <3>3, <4>1 DEF ValMoved
      <3> QED BY <3>2, <3>3
    <2>5. Else(val, val2, x, Nothing)
      BY <1>1, <2>3, <2>4 DEF Else
    <2> DEFINE un2 == UnitsOf(val2)
               u == Units(Nothing)
    <2>6. PutsInto(at, un, un2, x, u)
      BY <1>1, <2>3, <2>5, PutsIntoIs
    <2> HIDE DEF un, un2, u
    <2>7. x \in DOMAIN at /\ DOMAIN at[x] = {}
      BY <1>1, <1>4, <2>2, <2>3
    <2>8. State(s, D, at, un2)
      BY <2>3, <2>6, <2>7, ForgetState
    <2>9. ASSUME NEW y \in Keys(D)
          PROVE  Fits(Cell(s, y), val2[y], y[3], at[y])
      <3>1. Fits(Cell(s, y), val[y], y[3], at[y])
        BY <2>3
      <3>2. CASE y = x
        <4>1. ~IsLong(Cell(s, y)) /\ val2[y] = Nothing
          BY <2>2, <2>4, <3>2
        <4> QED BY <3>1, <4>1 DEF Fits
      <3>3. CASE y # x
        BY <2>4, <3>1, <3>3
      <3> QED BY <3>2, <3>3
    <2>10. Sound(s, D, val2, at)
      BY <2>3, <2>8, <2>9 DEF Sound, un2
    <2> QED BY <2>1, <2>10
  <1> QED BY <1>6, <1>7

\* All columns, each once.
Listed(cs) ==
    /\ Len(cs) \in Nat
    /\ \A k \in 1..Len(cs) : cs[k] \in Columns
    /\ \A j, k \in 1..Len(cs) : cs[j] = cs[k] => j = k
    /\ \A c \in Columns : \E k \in 1..Len(cs) : cs[k] = c

\* What has been put, after the columns have been gone through up to k.
MovedUpTo(val, b, p, e, cs, k) ==
    [y \in DOMAIN val |->
        IF InSpan(y, b, p, e, y[3]) /\ \E j \in 1..k : cs[j] = y[3]
        THEN IF y[2] = e THEN Nothing ELSE val[<<b, y[2] + 1, y[3]>>]
        ELSE val[y]]
RowMoved(val, b, p, e) ==
    [y \in DOMAIN val |->
        IF InSpan(y, b, p, e, y[3])
        THEN IF y[2] = e THEN Nothing ELSE val[<<b, y[2] + 1, y[3]>>]
        ELSE val[y]]

LEMMA MovedOnce ==
    ASSUME NEW D, NEW val, DOMAIN val = Keys(D), NEW b, NEW p, NEW e, IsSpan(D, b, p, e),
           NEW cs, Listed(cs), NEW k \in 1..Len(cs)
    PROVE  /\ ValMoved(MovedUpTo(val, b, p, e, cs, k - 1), MovedUpTo(val, b, p, e, cs, k),
                       b, p, e, cs[k])
           /\ MovedUpTo(val, b, p, e, cs, k - 1)[<<b, p, cs[k]>>] = val[<<b, p, cs[k]>>]
  <1> DEFINE c == cs[k]
             v == MovedUpTo(val, b, p, e, cs, k - 1)
             w == MovedUpTo(val, b, p, e, cs, k)
             in(y) == InSpan(y, b, p, e, c)
  <1>0. /\ b \in D /\ p \in 1..RowsPerBucket /\ e \in 1..RowsPerBucket /\ p <= e
        /\ RowsPerBucket \in Nat /\ p \in Nat /\ e \in Nat
    BY StringBucketsAssumption DEF IsSpan
  <1>1. /\ Len(cs) \in Nat /\ c \in Columns /\ k \in Nat /\ k \in 1..k
        /\ \A j \in 1..Len(cs) : cs[j] = c => j = k
        /\ 1..(k - 1) \subseteq 1..k /\ 1..k \subseteq 1..Len(cs)
        /\ \A j \in 1..k : j \in 1..(k - 1) \/ j = k
    BY DEF Listed
  <1>2. DOMAIN v = Keys(D) /\ DOMAIN w = Keys(D)
    BY DEF MovedUpTo
  <1>3. ASSUME NEW y \in Keys(D)
        PROVE  /\ v[y] = IF InSpan(y, b, p, e, y[3]) /\ \E j \in 1..(k - 1) : cs[j] = y[3]
                         THEN IF y[2] = e THEN Nothing ELSE val[<<b, y[2] + 1, y[3]>>]
                         ELSE val[y]
               /\ w[y] = IF InSpan(y, b, p, e, y[3]) /\ \E j \in 1..k : cs[j] = y[3]
                         THEN IF y[2] = e THEN Nothing ELSE val[<<b, y[2] + 1, y[3]>>]
                         ELSE val[y]
    BY DEF MovedUpTo
  <1> HIDE DEF v, w
  <1>4. ~\E j \in 1..(k - 1) : cs[j] = c
    <2>1. ASSUME NEW j \in 1..(k - 1), cs[j] = c
          PROVE  FALSE
      <3>1. j = k
        BY <1>1, <2>1
      <3> QED BY <1>1, <3>1
    <2> QED BY <2>1
  <1>5. ASSUME NEW y \in Keys(D), y[3] = c
        PROVE  v[y] = val[y]
    BY <1>3, <1>4, <1>5
  <1>6. ASSUME NEW y \in Keys(D), ~in(y)
        PROVE  w[y] = v[y]
    <2>1. CASE y[3] = c
      BY <1>3, <1>4, <1>6, <2>1
    <2>2. CASE y[3] # c
      <3>1. (\E j \in 1..k : cs[j] = y[3]) <=> (\E j \in 1..(k - 1) : cs[j] = y[3])
        BY <1>1, <2>2
      <3> QED BY <1>3, <3>1
    <2> QED BY <2>1, <2>2
  <1>7. ASSUME NEW y \in Keys(D), in(y)
        PROVE  /\ y[3] = c /\ y[2] \in p..e /\ InSpan(y, b, p, e, y[3])
               /\ \E j \in 1..k : cs[j] = y[3]
    BY <1>1, <1>7 DEF InSpan
  <1>8. ASSUME NEW y \in Keys(D), in(y), y[2] = e
        PROVE  w[y] = Nothing
    BY <1>3, <1>7, <1>8
  <1>9. ASSUME NEW y \in Keys(D), in(y), y[2] # e
        PROVE  w[y] = v[<<b, y[2] + 1, c>>]
    <2> DEFINE q == y[2] + 1
    <2>1. q \in 1..RowsPerBucket
      BY <1>0, <1>7, <1>9
    <2>2. w[y] = val[<<b, q, c>>]
      BY <1>3, <1>7, <1>9
    <2> HIDE DEF q
    <2>3. <<b, q, c>> \in Keys(D) /\ <<b, q, c>>[3] = c
      BY <1>0, <1>1, <2>1, KeyIs
    <2>4. v[<<b, q, c>>] = val[<<b, q, c>>]
      BY <1>5, <2>3
    <2> QED BY <2>2, <2>4 DEF q
  <1>10. <<b, p, c>> \in Keys(D) /\ <<b, p, c>>[3] = c
    BY <1>0, <1>1, KeyIs
  <1>11. v[<<b, p, c>>] = val[<<b, p, c>>]
    BY <1>5, <1>10
  <1>12. ValMoved(v, w, b, p, e, c)
    BY <1>2, <1>6, <1>8, <1>9 DEF ValMoved
  <1> QED BY <1>11, <1>12 DEF v, w

\* deleteRow of all columns.
GoneTurns(after, cs, s, b, p, e) ==
    /\ after[0] = s
    /\ \A k \in 1..Len(cs) : after[k] = GoneFrom(after[k - 1], b, p, e, cs[k])

LEMMA RowGone ==
    ASSUME NEW s, NEW D, NEW val, NEW at, Sound(s, D, val, at),
           NEW b, NEW p, NEW e, IsSpan(D, b, p, e),
           \A c \in Arrays : val[<<b, p, c>>] = Nothing,
           NEW cs, Listed(cs), NEW after, GoneTurns(after, cs, s, b, p, e)
    PROVE  \E at2 : Sound(after[Len(cs)], D, RowMoved(val, b, p, e), at2)
  <1> DEFINE n == Len(cs)
             v(k) == MovedUpTo(val, b, p, e, cs, k)
             ok(k) == \E at2 : Sound(after[k], D, v(k), at2)
             T == {k \in 0..n : ok(k)}
  <1>0. n \in Nat /\ DOMAIN val = Keys(D)
    BY DEF Listed, Sound
  <1>1. 0 \in T
    <2>1. v(0) = [y \in DOMAIN val |-> val[y]]
      BY DEF MovedUpTo
    <2> DEFINE w == v(0)
    <2>2. DOMAIN w = DOMAIN val /\ \A y \in DOMAIN val : w[y] = val[y]
      BY <2>1
    <2>3. after[0] = s
      BY DEF GoneTurns
    <2> HIDE DEF w
    <2>4. UnitsOf(w) = UnitsOf(val)
      BY <2>2 DEF UnitsOf
    <2>5. Sound(after[0], D, w, at)
      BY <2>2, <2>3, <2>4 DEF Sound
    <2> QED BY <1>0, <2>5 DEF w
  <1>2. ASSUME NEW k \in 1..n, k - 1 \in T
        PROVE  k \in T
    <2> DEFINE r == after[k - 1]
               w == v(k - 1)
               w2 == v(k)
               c == cs[k]
    <2>1. PICK at1 : Sound(r, D, w, at1)
      BY <1>2
    <2>2. c \in Columns
      BY DEF Listed
    <2>3. ValMoved(w, w2, b, p, e, c) /\ w[<<b, p, c>>] = val[<<b, p, c>>]
      <3>1. /\ ValMoved(MovedUpTo(val, b, p, e, cs, k - 1), MovedUpTo(val, b, p, e, cs, k),
                         b, p, e, cs[k])
            /\ MovedUpTo(val, b, p, e, cs, k - 1)[<<b, p, cs[k]>>] = val[<<b, p, cs[k]>>]
        <4> HIDE DEF v
        <4> QED BY <1>0, MovedOnce
      <3> QED BY <3>1
    <2>4. after[k] = GoneFrom(r, b, p, e, c)
      BY DEF GoneTurns
    <2>5. c \in Arrays => w[<<b, p, c>>] = Nothing
      BY <2>3
    <2> HIDE DEF r, w, w2, c
    <2>6. \E at2 : Sound(GoneFrom(r, b, p, e, c), D, w2, at2)
      BY <2>1, <2>2, <2>3, <2>5, GoneSound
    <2>7. \E at2 : Sound(after[k], D, w2, at2)
      BY <2>4, <2>6
    <2>8. k \in 0..n
      BY <1>0
    <2> QED BY <2>7, <2>8 DEF w2
  <1>3. \A k \in 0..n : k \in T
    <2> HIDE DEF T
    <2> QED BY <1>0, <1>1, <1>2, TurnInduction
  <1>4. ok(n)
    BY <1>0, <1>3
  <1>5. v(n) = RowMoved(val, b, p, e)
    <2>1. ASSUME NEW y \in DOMAIN val
          PROVE  \E j \in 1..n : cs[j] = y[3]
      BY <1>0, KeysAre DEF Listed
    <2> QED BY <2>1 DEF MovedUpTo, RowMoved
  <1> QED BY <1>4, <1>5

LEMMA ColumnsListed == Listed(SetToSeq(Columns))
  <1> DEFINE n == Cardinality(Columns)
             cs == SetToSeq(Columns)
  <1>1. n \in Nat /\ IsFiniteSet(Columns) /\ ExistsBijection(1..n, Columns)
    BY StringBucketsAssumption, FS_CardinalityType
  <1>2. \E f \in [1..n -> Columns] : IsInjective(f)
    BY <1>1 DEF ExistsBijection, Bijection, Injection, IsInjective
  <1>3. cs \in [1..n -> Columns] /\ IsInjective(cs)
    BY <1>2 DEF SetToSeq
  <1> HIDE DEF cs
  <1>4. Len(cs) = n /\ DOMAIN cs = 1..n
    <2>1. cs \in Seq(Columns)
      BY <1>1, <1>3
    <2> QED BY <1>1, <1>3, <2>1
  <1>5. cs \in Injection(1..n, Columns)
    BY <1>3 DEF Injection, IsInjective
  <1>6. Cardinality(1..n) = n
    BY <1>1, FS_Interval
  <1>7. cs \in Surjection(1..n, Columns)
    BY <1>1, <1>5, <1>6, FS_Injection
  <1>8. \A c \in Columns : \E k \in 1..n : cs[k] = c
    BY <1>7 DEF Surjection
  <1>9. \A j, k \in 1..n : cs[j] = cs[k] => j = k
    BY <1>3, <1>4 DEF IsInjective
  <1>10. \A k \in 1..n : cs[k] \in Columns
    BY <1>3
  <1> QED BY <1>1, <1>4, <1>8, <1>9, <1>10 DEF Listed, cs

-----------------------------------------------------------------------------
(* Data buckets that come and go.                                            *)

LEMMA ViewsState ==
    ASSUME NEW s, NEW D, NEW at, NEW un, State(s, D, at, un),
           NEW t, NEW D2, Handler(t, D2), Written(t), Views(t, D2) = Views(s, D)
    PROVE  State(t, D2, at, un)
  BY DEF State, Good

\* Other keys, of what is not in string buckets.
Rekeyed(at, un, at2, un2) ==
    /\ \A y \in DOMAIN at2 : \/ DOMAIN at2[y] = {}
                             \/ y \in DOMAIN at /\ at2[y] = at[y] /\ un2[y] = un[y]
    /\ \A x \in DOMAIN at : \/ DOMAIN at[x] = {}
                            \/ x \in DOMAIN at2 /\ at2[x] = at[x]

LEMMA RekeyedState ==
    ASSUME NEW s, NEW D, NEW at, NEW un, State(s, D, at, un),
           NEW at2, NEW un2, Rekeyed(at, un, at2, un2)
    PROVE  State(s, D, at2, un2)
  <1> DEFINE g == [y \in DOMAIN at2 \cup DOMAIN at |-> y]
  <1>1. \A y : y \in DOMAIN at2 \cup DOMAIN at => g[y] = y
    OBVIOUS
  <1> HIDE DEF g
  <1>2. ASSUME NEW y \in DOMAIN at2, NEW k \in DOMAIN at2[y]
        PROVE  /\ g[y] \in DOMAIN at /\ k \in DOMAIN at[g[y]]
               /\ at2[y][k] = at[g[y]][k] /\ un2[y][k] = un[g[y]][k]
    <2>1. g[y] = y
      BY <1>1
    <2>2. y \in DOMAIN at /\ at2[y] = at[y] /\ un2[y] = un[y]
      BY DEF Rekeyed
    <2> QED BY <2>1, <2>2
  <1>3. ASSUME NEW x \in DOMAIN at, NEW k \in DOMAIN at[x]
        PROVE  \E y \in DOMAIN at2 : g[y] = x /\ k \in DOMAIN at2[y]
    <2>1. x \in DOMAIN at2 /\ at2[x] = at[x]
      BY DEF Rekeyed
    <2>2. g[x] = x
      BY <1>1
    <2> QED BY <2>1, <2>2
  <1>4. \A y, z \in DOMAIN at2 : \A k \in DOMAIN at2[y] \cap DOMAIN at2[z] :
            g[y] = g[z] => y = z
    BY <1>1
  <1>5. Renamed(at, un, at2, un2, g)
    BY <1>2, <1>3, <1>4 DEF Renamed
  <1> QED BY <1>5, RenamedState

\* What has been put, with a new data bucket, and without one.
ValWith(val, D, b) ==
    [y \in Keys(D \cup {b}) |-> IF y[1] = b THEN Nothing ELSE val[y]]
ValWithout(val, D, b) == [y \in Keys(D \ {b}) |-> val[y]]

LEMMA KeysWith ==
    ASSUME NEW D, NEW b, NEW y \in Keys(D \cup {b}), y[1] # b
    PROVE  y \in Keys(D)
  <1>1. /\ y[1] \in D \cup {b} /\ y[2] \in 1..RowsPerBucket /\ y[3] \in Columns
        /\ y = <<y[1], y[2], y[3]>>
    BY KeysAre
  <1>2. y[1] \in D
    BY <1>1
  <1> QED BY <1>1, <1>2, KeyIs

LEMMA KeysLess ==
    ASSUME NEW D, NEW E, NEW y \in Keys(D), y[1] \in E
    PROVE  y \in Keys(E)
  <1>1. /\ y[2] \in 1..RowsPerBucket /\ y[3] \in Columns /\ y = <<y[1], y[2], y[3]>>
    BY KeysAre
  <1> QED BY <1>1, KeyIs

LEMMA ZeroFits ==
    ASSUME NEW a, DOMAIN a = {}, NEW c
    PROVE  Fits(EmptyCell, Nothing, c, a)
  <1>1. ~IsLong(EmptyCell) /\ EmptyCell.text = Nothing
    BY BucketLengthIs DEF IsLong, EmptyCell
  <1> QED BY <1>1, EmptyCellIs DEF Fits

LEMMA AddSound ==
    ASSUME NEW s, NEW D, NEW val, NEW at, Sound(s, D, val, at), NEW b, b = LeastFree(s)
    PROVE  \E at2 : Sound(WithBucket(s, b), D \cup {b}, ValWith(val, D, b), at2)
  <1> DEFINE t == WithBucket(s, b)
             D2 == D \cup {b}
             un == UnitsOf(val)
             val2 == ValWith(val, D, b)
             un2 == UnitsOf(val2)
             at2 == [y \in Keys(D2) |-> IF y[1] = b THEN <<>> ELSE at[y]]
  <1>1. /\ State(s, D, at, un) /\ DOMAIN val = Keys(D) /\ DOMAIN at = Keys(D)
        /\ \A y \in Keys(D) : Fits(Cell(s, y), val[y], y[3], at[y])
    BY DEF Sound
  <1>2. Handler(s, D) /\ Written(s)
    BY <1>1, StateIs
  <1>3. /\ s \in StoreValue /\ IsFiniteSet(DOMAIN s.file) /\ D \subseteq DOMAIN s.file
        /\ s.current \in (DOMAIN s.file \ D) \cup {-1}
        /\ s.last \in (DOMAIN s.file \ D) \cup {-1} /\ (s.changed => s.current # -1)
    BY <1>2 DEF Handler
  <1>4. b \in Nat /\ b \notin DOMAIN s.file
    BY <1>3, LeastFreeIs
  <1>5. /\ t \in StoreValue /\ IsFiniteSet(DOMAIN t.file)
        /\ DOMAIN t.file = DOMAIN s.file \cup {b} /\ t.file[b] = ZeroBucket
        /\ \A c \in DOMAIN s.file : t.file[c] = s.file[c]
        /\ t = [s EXCEPT !.file = t.file]
    BY <1>3, <1>4, WithBucketIs
  <1> HIDE DEF t
  <1>6. /\ t.current = s.current /\ t.last = s.last /\ t.changed = s.changed
        /\ Part(t) = Part(s)
    <2>1. ASSUME NEW f, t = [s EXCEPT !.file = f]
          PROVE  /\ t.current = s.current /\ t.last = s.last /\ t.changed = s.changed
                 /\ t.used = s.used /\ t.nDeleted = s.nDeleted /\ t.next = s.next
                 /\ t.data = s.data
      BY <1>3, <2>1 DEF StoreValue
    <2> QED BY <1>5, <2>1 DEF Part
  <1>7. DOMAIN t.file \ D2 = DOMAIN s.file \ D /\ D2 \subseteq DOMAIN t.file
    BY <1>3, <1>4, <1>5
  <1>8. Handler(t, D2)
    BY <1>3, <1>5, <1>6, <1>7 DEF Handler
  <1>9. Written(t)
    <2>1. s.current # -1 => s.current \in DOMAIN s.file
      BY <1>3
    <2> QED BY <1>2, <1>5, <1>6, <2>1 DEF Written
  <1>10. Views(t, D2) = Views(s, D)
    <2>1. ASSUME NEW c \in DOMAIN s.file \ D
          PROVE  View(t, c) = View(s, c)
      BY <1>5, <1>6 DEF View
    <2> QED BY <1>7, <2>1 DEF Views
  <1>11. State(t, D2, at, un)
    BY <1>1, <1>8, <1>9, <1>10, ViewsState
  <1>12. ASSUME NEW y \in Keys(D2)
         PROVE  IF y[1] = b THEN val2[y] = Nothing /\ DOMAIN at2[y] = {}
                ELSE /\ y \in Keys(D) /\ at2[y] = at[y] /\ val2[y] = val[y]
                     /\ un2[y] = un[y]
    <2>1. CASE y[1] = b
      BY <2>1 DEF ValWith
    <2>2. CASE y[1] # b
      <3>1. y \in Keys(D)
        BY <2>2, KeysWith
      <3>2. at2[y] = at[y] /\ val2[y] = val[y] /\ y \in DOMAIN val2
        BY <2>2 DEF ValWith
      <3> QED BY <1>1, <2>2, <3>1, <3>2 DEF UnitsOf
    <2> QED BY <2>1, <2>2
  <1>13. /\ DOMAIN at2 = Keys(D2)
         /\ \A y \in Keys(D) : y \in Keys(D2) /\ y[1] # b
    <2>1. DOMAIN at2 = Keys(D2)
      OBVIOUS
    <2>2. ASSUME NEW y \in Keys(D)
          PROVE  y \in Keys(D2) /\ y[1] # b
      <3>1. y[1] \in D
        BY KeysAre
      <3>2. y[1] \in D2
        BY <3>1
      <3> HIDE DEF D2
      <3> QED BY <1>3, <1>4, <3>1, <3>2, KeysLess
    <2> HIDE DEF at2, D2
    <2> QED BY <2>1, <2>2
  <1>14. DOMAIN val2 = Keys(D2)
    BY DEF ValWith
  <1> HIDE DEF at2, val2, un, un2, D2
  <1>15. Rekeyed(at, un, at2, un2)
    BY <1>1, <1>12, <1>13 DEF Rekeyed
  <1>16. State(t, D2, at2, un2)
    BY <1>11, <1>15, RekeyedState
  <1>17. ASSUME NEW y \in Keys(D2)
         PROVE  Fits(Cell(t, y), val2[y], y[3], at2[y])
    <2>1. /\ y[1] \in D2 /\ y[2] \in 1..RowsPerBucket /\ y[3] \in Columns
      BY KeysAre
    <2>2. CASE y[1] = b
      <3>1. Cell(t, y) = EmptyCell
        <4>1. ZeroBucket.cells = [p \in 1..RowsPerBucket |-> [c \in Columns |-> EmptyCell]]
          BY DEF ZeroBucket
        <4>2. Cell(t, y) = ZeroBucket.cells[y[2]][y[3]]
          BY <1>5, <2>2 DEF Cell
        <4> QED BY <2>1, <4>1, <4>2
      <3> QED BY <1>12, <2>2, <3>1, ZeroFits
    <2>3. CASE y[1] # b
      <3>1. y \in Keys(D) /\ y[1] \in D
        BY <1>12, <2>3, KeysAre
      <3>2. Cell(t, y) = Cell(s, y)
        BY <1>3, <1>5, <3>1 DEF Cell
      <3> QED BY <1>1, <1>12, <2>3, <3>1, <3>2
    <2> QED BY <2>2, <2>3
  <1>18. Sound(t, D2, val2, at2)
    BY <1>13, <1>14, <1>16, <1>17 DEF Sound, un2
  <1> QED BY <1>18 DEF t, D2, val2

LEMMA DropSound ==
    ASSUME NEW s, NEW D, NEW val, NEW at, Sound(s, D, val, at), NEW b \in D,
           \A y \in Keys(D) : y[1] = b => val[y] = Nothing
    PROVE  \E at2 : Sound(WithoutBucket(s, b), D \ {b}, ValWithout(val, D, b), at2)
  <1> DEFINE t == WithoutBucket(s, b)
             D2 == D \ {b}
             un == UnitsOf(val)
             val2 == ValWithout(val, D, b)
             un2 == UnitsOf(val2)
             at2 == [y \in Keys(D2) |-> at[y]]
             f == [c \in DOMAIN s.file \ {b} |-> s.file[c]]
  <1>1. /\ State(s, D, at, un) /\ DOMAIN val = Keys(D) /\ DOMAIN at = Keys(D)
        /\ \A y \in Keys(D) : Fits(Cell(s, y), val[y], y[3], at[y])
    BY DEF Sound
  <1>2. Handler(s, D) /\ Written(s)
    BY <1>1, StateIs
  <1>3. /\ s \in StoreValue /\ IsFiniteSet(DOMAIN s.file) /\ D \subseteq DOMAIN s.file
        /\ s.current \in (DOMAIN s.file \ D) \cup {-1}
        /\ s.last \in (DOMAIN s.file \ D) \cup {-1} /\ (s.changed => s.current # -1)
    BY <1>2 DEF Handler
  <1>4. DOMAIN s.file \subseteq Nat /\ s.file \in [DOMAIN s.file -> BucketValue]
    BY <1>3, FileIs
  <1>5. t = [s EXCEPT !.file = f]
    BY <1>3 DEF WithoutBucket, StoreValue
  <1>6. /\ f \in Files /\ DOMAIN f = DOMAIN s.file \ {b}
        /\ \A c \in DOMAIN s.file \ {b} : f[c] = s.file[c]
    <2>1. f \in [DOMAIN s.file \ {b} -> BucketValue] /\ DOMAIN s.file \ {b} \in SUBSET Nat
      BY <1>4
    <2> QED BY <2>1, FilesAre
  <1> HIDE DEF f, t
  <1>7. /\ t \in StoreValue /\ t.file = f
        /\ t.current = s.current /\ t.last = s.last /\ t.changed = s.changed
    BY <1>3, <1>5, <1>6 DEF StoreValue
  <1>8. Part(t) = Part(s)
    <2>1. /\ t.used = s.used /\ t.nDeleted = s.nDeleted /\ t.next = s.next
          /\ t.data = s.data
      BY <1>3, <1>5 DEF StoreValue
    <2> QED BY <2>1 DEF Part
  <1>9. DOMAIN t.file \ D2 = DOMAIN s.file \ D /\ D2 \subseteq DOMAIN t.file
    BY <1>3, <1>6, <1>7
  <1>10. IsFiniteSet(DOMAIN t.file)
    BY <1>3, <1>6, <1>7, FS_Subset
  <1>11. Handler(t, D2)
    BY <1>3, <1>7, <1>9, <1>10 DEF Handler
  <1>12. Written(t)
    <2>1. s.current # -1 => s.current \in DOMAIN s.file \ {b}
      BY <1>3
    <2> QED BY <1>2, <1>6, <1>7, <1>8, <2>1 DEF Written
  <1>13. Views(t, D2) = Views(s, D)
    <2>1. ASSUME NEW c \in DOMAIN s.file \ D
          PROVE  View(t, c) = View(s, c)
      BY <1>6, <1>7, <1>8 DEF View
    <2> QED BY <1>9, <2>1 DEF Views
  <1>14. State(t, D2, at, un)
    BY <1>1, <1>11, <1>12, <1>13, ViewsState
  <1>15. DOMAIN val2 = Keys(D2) /\ DOMAIN at2 = Keys(D2)
    BY DEF ValWithout
  <1>16. ASSUME NEW y \in Keys(D2)
         PROVE  /\ y \in Keys(D) /\ y[1] \in D /\ y[1] # b
                /\ at2[y] = at[y] /\ val2[y] = val[y] /\ un2[y] = un[y]
    <2>1. y[1] \in D2
      BY KeysAre
    <2>2. y[1] \in D /\ y[1] # b
      BY <2>1
    <2>3. at2[y] = at[y] /\ val2[y] = val[y]
      BY DEF ValWithout
    <2> HIDE DEF D2, at2
    <2>4. y \in Keys(D)
      BY <2>2, KeysLess
    <2> HIDE DEF val2
    <2>5. un2[y] = un[y]
      BY <1>1, <1>15, <2>3, <2>4 DEF UnitsOf
    <2> QED BY <2>2, <2>3, <2>4, <2>5
  <1>17. ASSUME NEW y \in Keys(D)
         PROVE  DOMAIN at[y] = {} \/ (y \in Keys(D2) /\ at2[y] = at[y])
    <2>1. CASE y[1] = b
      <3>1. val[y] = Nothing
        BY <2>1
      <3> QED BY <3>1, FitsIs
    <2>2. CASE y[1] # b
      <3>1. y[1] \in D2
        BY <2>2, KeysAre
      <3>2. y \in Keys(D2) => at2[y] = at[y]
        OBVIOUS
      <3> HIDE DEF D2, at2
      <3>3. y \in Keys(D2)
        BY <3>1, KeysLess
      <3> QED BY <3>2, <3>3
    <2> QED BY <2>1, <2>2
  <1> HIDE DEF at2, val2, un, un2, D2
  <1>18. Rekeyed(at, un, at2, un2)
    BY <1>1, <1>15, <1>16, <1>17 DEF Rekeyed
  <1>19. State(t, D2, at2, un2)
    BY <1>14, <1>18, RekeyedState
  <1>20. ASSUME NEW y \in Keys(D2)
         PROVE  Fits(Cell(t, y), val2[y], y[3], at2[y])
    <2>1. Cell(t, y) = Cell(s, y)
      BY <1>3, <1>6, <1>7, <1>16 DEF Cell
    <2> QED BY <1>1, <1>16, <2>1
  <1>21. Sound(t, D2, val2, at2)
    BY <1>15, <1>19, <1>20 DEF Sound, un2
  <1> QED BY <1>21 DEF t, D2, val2

\* A new file has nothing.
LEMMA NewSound ==
    ASSUME NEW val, DOMAIN val = {}
    PROVE  Sound(NewStore, {}, val, val)
  <1> DEFINE s == NewStore
             f == [b \in {} |-> ZeroBucket]
             V == Views(s, {})
             un == UnitsOf(val)
  <1>1. s = [file |-> f, current |-> -1, used |-> 0, nDeleted |-> 0, next |-> -1,
             data |-> NoData, changed |-> FALSE, last |-> -1]
    BY DEF NewStore
  <1>2. f \in Files /\ DOMAIN f = {}
    <2>1. f \in [{} -> BucketValue] /\ {} \in SUBSET Nat /\ DOMAIN f = {}
      OBVIOUS
    <2> HIDE DEF f
    <2> QED BY <2>1, FilesAre
  <1> HIDE DEF f, s
  <1>3. s \in StoreValue
    BY <1>1, <1>2, NoDataIs DEF StoreValue
  <1>4. s.file = f /\ s.current = -1 /\ s.last = -1 /\ ~s.changed
    BY <1>1
  <1>5. Handler(s, {}) /\ Written(s)
    BY <1>2, <1>3, <1>4, FS_EmptySet DEF Handler, Written
  <1>6. DOMAIN V = {}
    BY <1>2, <1>4 DEF Views
  <1> HIDE DEF V
  <1>7. Laid(V, val)
    BY <1>6 DEF Laid, PlacesUsed, Linked, Apart, UsedFits
  <1>8. Counted(V, val) /\ Full(V, val, {}) /\ HoldsIn(V, val, un, DOMAIN val)
    BY <1>6 DEF Counted, Full, HoldsIn
  <1>9. State(s, {}, val, un)
    BY <1>5, <1>7, <1>8 DEF State, Good, V
  <1>10. Keys({}) = {}
    BY DEF Keys
  <1> HIDE DEF un
  <1> QED BY <1>9, <1>10 DEF Sound, s, un

-----------------------------------------------------------------------------
(* A column that is renewed.                                                 *)

\* What a column has in string buckets is removed, key after key.
RenewTurns(after, s, n, key) ==
    /\ after[0] = s
    /\ \A k \in 1..n : after[k] = IF IsLong(Cell(s, key[k]))
                                  THEN RemoveCell(after[k - 1], Cell(s, key[k]))
                                  ELSE after[k - 1]
IsKeys(key, n, D) ==
    /\ n \in Nat /\ \A k \in 1..n : key[k] \in Keys(D)
    /\ \A j, k \in 1..n : key[j] = key[k] => j = k
RenewAt(r, a, s, D, at, un, key, n) ==
    /\ State(r, D, a, un) /\ Kept(s, r, D) /\ DOMAIN a = Keys(D)
    /\ \A j \in 1..n : DOMAIN a[key[j]] = {}
    /\ \A y \in Keys(D) : (\A j \in 1..n : y # key[j]) => a[y] = at[y]

LEMMA RenewOnce ==
    ASSUME NEW s, NEW D, NEW val, NEW at, Sound(s, D, val, at),
           NEW n, NEW key, IsKeys(key, n, D), NEW k \in 1..n,
           NEW r, NEW a, RenewAt(r, a, s, D, at, UnitsOf(val), key, k - 1),
           NEW t, t = IF IsLong(Cell(s, key[k])) THEN RemoveCell(r, Cell(s, key[k])) ELSE r
    PROVE  \E a2 : RenewAt(t, a2, s, D, at, UnitsOf(val), key, k)
  <1> DEFINE un == UnitsOf(val)
             x == key[k]
             cell == Cell(s, x)
  <1>1. /\ n \in Nat /\ k \in Nat /\ x \in Keys(D)
        /\ \A j \in 1..n : key[j] = x => j = k
        /\ 1..(k - 1) \subseteq 1..n /\ \A j \in 1..k : j \in 1..(k - 1) \/ j = k
        /\ k \notin 1..(k - 1)
        /\ 1..(k - 1) \subseteq 1..k /\ k \in 1..k
    BY DEF IsKeys
  <1>2. /\ State(r, D, a, un) /\ Kept(s, r, D) /\ DOMAIN a = Keys(D)
        /\ \A j \in 1..(k - 1) : DOMAIN a[key[j]] = {}
        /\ \A y \in Keys(D) : (\A j \in 1..(k - 1) : y # key[j]) => a[y] = at[y]
    BY DEF RenewAt
  <1>3. \A j \in 1..(k - 1) : x # key[j]
    BY <1>1
  <1>4. a[x] = at[x]
    BY <1>1, <1>2, <1>3
  <1>5. /\ (IsLong(cell) => CellAt(cell, at, x)) /\ (~IsLong(cell) => DOMAIN at[x] = {})
    <2> HIDE DEF x
    <2> QED BY <1>1, FitsIs
  <1>6. t = IF IsLong(cell) THEN RemoveCell(r, cell) ELSE r
    OBVIOUS
  <1>7. \A y \in Keys(D) : (\A j \in 1..k : y # key[j]) =>
            y # x /\ \A j \in 1..(k - 1) : y # key[j]
    BY <1>1
  <1>8. \A j \in 1..k : j = k \/ (j \in 1..(k - 1) /\ key[j] # x)
    BY <1>1
  <1>9. \A j \in 1..k : key[j] \in Keys(D)
    BY <1>1 DEF IsKeys
  <1>10. key[k] = x
    OBVIOUS
  <1> HIDE DEF x, cell, un
  <1>11. CASE IsLong(cell)
    <2>1. CellAt(cell, a, x)
      BY <1>4, <1>5, <1>11 DEF CellAt
    <2>2. HasCell(r, cell, D, a, un, x)
      BY <1>1, <1>2, <2>1, CellAtIs
    <2>3. PICK a2 : Removed(r, RemoveCell(r, cell), D, a, a2, un, x)
      BY <2>2, RemoveCellIs
    <2>4. /\ DOMAIN a2 = Keys(D) /\ DOMAIN a2[x] = {} /\ State(t, D, a2, un) /\ Kept(r, t, D)
          /\ \A y \in Keys(D) : y # x => a2[y] = a[y]
      BY <1>2, <1>6, <1>11, <2>3 DEF Removed, Changed
    <2>5. Kept(s, t, D)
      BY <1>2, <2>4, KeptTwice
    <2>6. \A j \in 1..k : DOMAIN a2[key[j]] = {}
      BY <1>2, <1>8, <1>9, <1>10, <2>4
    <2>7. \A y \in Keys(D) : (\A j \in 1..k : y # key[j]) => a2[y] = at[y]
      BY <1>2, <1>7, <2>4
    <2>8. RenewAt(t, a2, s, D, at, un, key, k)
      BY <2>4, <2>5, <2>6, <2>7 DEF RenewAt
    <2> QED BY <2>8 DEF un
  <1>12. CASE ~IsLong(cell)
    <2>1. t = r /\ DOMAIN a[x] = {}
      BY <1>4, <1>5, <1>6, <1>12
    <2>2. \A j \in 1..k : DOMAIN a[key[j]] = {}
      BY <1>2, <1>8, <1>10, <2>1
    <2>3. \A y \in Keys(D) : (\A j \in 1..k : y # key[j]) => a[y] = at[y]
      BY <1>2, <1>7
    <2>4. RenewAt(t, a, s, D, at, un, key, k)
      BY <1>2, <2>1, <2>2, <2>3 DEF RenewAt
    <2> QED BY <2>4 DEF un
  <1> QED BY <1>11, <1>12

LEMMA RenewAll ==
    ASSUME NEW s, NEW D, NEW val, NEW at, Sound(s, D, val, at),
           NEW n, NEW key, IsKeys(key, n, D), NEW after, RenewTurns(after, s, n, key)
    PROVE  \E a : RenewAt(after[n], a, s, D, at, UnitsOf(val), key, n)
  <1> DEFINE un == UnitsOf(val)
             T == {k \in 0..n : \E a : RenewAt(after[k], a, s, D, at, un, key, k)}
  <1>0. n \in Nat
    BY DEF IsKeys
  <1>1. 0 \in T
    <2>1. State(s, D, at, un) /\ DOMAIN at = Keys(D)
      BY DEF Sound
    <2>2. after[0] = s
      BY DEF RenewTurns
    <2> HIDE DEF un
    <2>3. RenewAt(s, at, s, D, at, un, key, 0)
      BY <2>1 DEF RenewAt, Kept
    <2> QED BY <1>0, <2>2, <2>3
  <1>2. ASSUME NEW k \in 1..n, k - 1 \in T
        PROVE  k \in T
    <2> DEFINE r == after[k - 1]
               t == after[k]
    <2>1. PICK a : RenewAt(r, a, s, D, at, un, key, k - 1)
      BY <1>2
    <2>2. t = IF IsLong(Cell(s, key[k])) THEN RemoveCell(r, Cell(s, key[k])) ELSE r
      BY DEF RenewTurns
    <2> HIDE DEF r, t
    <2>3. \E a2 : RenewAt(t, a2, s, D, at, UnitsOf(val), key, k)
      BY <2>1, <2>2, RenewOnce
    <2>4. k \in 0..n
      BY <1>0
    <2> QED BY <2>3, <2>4 DEF t
  <1>3. \A k \in 0..n : k \in T
    <2> HIDE DEF T
    <2> QED BY <1>0, <1>1, <1>2, TurnInduction
  <1> QED BY <1>0, <1>3

\* The cells of a column at the keys of K are cleared, and no others have anything.
ValRenewed(val, c) == [y \in DOMAIN val |-> IF y[3] = c THEN Nothing ELSE val[y]]
IsCleared(s, t, D, K, c) ==
    /\ \E f : NewFile(s, t, D, f)
    /\ \A y \in Keys(D) : Cell(t, y) = IF y \in K /\ y[3] = c THEN EmptyCell ELSE Cell(s, y)
NothingElse(val, D, K, c) == \A y \in Keys(D) : y[3] = c /\ y \notin K => val[y] = Nothing

LEMMA RenewSound ==
    ASSUME NEW s, NEW D, NEW val, NEW at, Sound(s, D, val, at),
           NEW n, NEW key, IsKeys(key, n, D), NEW after, RenewTurns(after, s, n, key),
           NEW K, K = {key[k] : k \in 1..n}, NEW c, \A y \in K : y[3] = c,
           NothingElse(val, D, K, c), NEW t, IsCleared(after[n], t, D, K, c)
    PROVE  \E a : Sound(t, D, ValRenewed(val, c), a)
  <1> DEFINE r == after[n]
             un == UnitsOf(val)
             val2 == ValRenewed(val, c)
             un2 == UnitsOf(val2)
  <1>1. PICK a : RenewAt(r, a, s, D, at, un, key, n)
    BY RenewAll
  <1>2. /\ State(r, D, a, un) /\ Kept(s, r, D) /\ DOMAIN a = Keys(D)
        /\ \A y \in K : DOMAIN a[y] = {}
        /\ \A y \in Keys(D) : y \notin K => a[y] = at[y]
    BY <1>1 DEF RenewAt
  <1>3. PICK f : NewFile(r, t, D, f)
    BY DEF IsCleared
  <1>4. \A y \in Keys(D) : Cell(t, y) = IF y \in K /\ y[3] = c THEN EmptyCell ELSE Cell(r, y)
    BY DEF IsCleared
  <1> HIDE DEF r
  <1>5. State(t, D, a, un)
    <2>1. HasFile(t, D, a, un, f)
      BY <1>2, <1>3, NewFileState
    <2> QED BY <2>1 DEF HasFile
  <1>6. /\ DOMAIN val = Keys(D) /\ DOMAIN val2 = Keys(D) /\ DOMAIN at = Keys(D)
        /\ \A y \in Keys(D) : val2[y] = IF y[3] = c THEN Nothing ELSE val[y]
        /\ \A y \in Keys(D) : Fits(Cell(s, y), val[y], y[3], at[y])
    BY DEF Sound, ValRenewed
  <1>7. ASSUME NEW y \in Keys(D), y[3] = c
        PROVE  DOMAIN a[y] = {}
    <2>1. CASE y \in K
      BY <1>2, <2>1
    <2>2. CASE y \notin K
      <3>1. val[y] = Nothing
        BY <1>7, <2>2 DEF NothingElse
      <3> QED BY <1>2, <2>2, <3>1, FitsIs
    <2> QED BY <2>1, <2>2
  <1> HIDE DEF val2
  <1>8. ASSUME NEW y \in Keys(D), y[3] # c
        PROVE  un2[y] = un[y]
    BY <1>6, <1>8 DEF UnitsOf
  <1> HIDE DEF un, un2
  <1>9. Rekeyed(a, un, a, un2)
    BY <1>2, <1>7, <1>8 DEF Rekeyed
  <1>10. State(t, D, a, un2)
    BY <1>5, <1>9, RekeyedState
  <1>11. ASSUME NEW y \in Keys(D)
         PROVE  Fits(Cell(t, y), val2[y], y[3], a[y])
    <2>1. Cell(r, y) = Cell(s, y)
      BY <1>2, KeptCells
    <2>2. CASE y \in K
      <3>1. Cell(t, y) = EmptyCell /\ val2[y] = Nothing /\ DOMAIN a[y] = {}
        BY <1>2, <1>4, <1>6, <2>2
      <3> QED BY <3>1, ZeroFits
    <2>3. CASE y \notin K
      <3>1. Fits(Cell(t, y), val[y], y[3], a[y])
        BY <1>2, <1>4, <1>6, <2>1, <2>3
      <3>2. y[3] = c => val[y] = Nothing
        BY <2>3 DEF NothingElse
      <3> QED BY <1>6, <3>1, <3>2
    <2> QED BY <2>2, <2>3
  <1>12. Sound(t, D, val2, a)
    BY <1>2, <1>6, <1>10, <1>11 DEF Sound, un2
  <1> QED BY <1>12 DEF val2

-----------------------------------------------------------------------------
(* What is read, and the resync.                                             *)

Found(s, cell) == GetData(WithCurrent(s, cell.bucket), cell.offset, cell.length)

LEMMA FoundIs ==
    ASSUME NEW s, NEW D, NEW val, NEW at, Sound(s, D, val, at), NEW x \in Keys(D),
           IsLong(Cell(s, x))
    PROVE  /\ Sound(Found(s, Cell(s, x)).store, D, val, at)
           /\ Found(s, Cell(s, x)).units = Units(val[x])
  <1> DEFINE cell == Cell(s, x)
             un == UnitsOf(val)
             w == WithCurrent(s, cell.bucket)
             r == GetData(w, cell.offset, cell.length)
  <1>1. /\ CellAt(cell, at, x) /\ val[x] \in Values /\ cell.length = Size[val[x]]
        /\ x \in DOMAIN at
    BY FitsIs
  <1>2. State(s, D, at, un) /\ DOMAIN val = Keys(D)
    BY DEF Sound
  <1>3. un[x] = Units(val[x])
    BY <1>2 DEF UnitsOf
  <1>4. un[x] \in Seq(UnitValue) /\ Len(un[x]) = cell.length
    BY <1>1, <1>3, UnitsAre
  <1>5. Found(s, cell) = r
    BY DEF Found
  <1> HIDE DEF cell, un
  <1>6. HasCell(s, cell, D, at, un, x)
    BY <1>1, <1>2, CellAtIs
  <1>7. cell.bucket \in DOMAIN s.file \ D
    BY <1>1, <1>2, CellAtIs
  <1>8. State(w, D, at, un) /\ Kept(s, w, D) /\ w.current = cell.bucket
    BY <1>6 DEF HasCell
  <1>9. w.current # -1
    <2>1. s \in StoreValue
      BY <1>2, StateIs DEF Handler
    <2> QED BY <1>7, <1>8, <2>1, FileIs
  <1> HIDE DEF w
  <1>10. /\ cell.length \in Nat \ {0} /\ DOMAIN at[x] = 1..cell.length
         /\ at[x][1] = <<w.current, cell.offset>>
    BY <1>1, <1>8 DEF CellAt
  <1>11. State(r.store, D, at, un) /\ Kept(w, r.store, D) /\ r.units = un[x]
    BY <1>1, <1>4, <1>8, <1>9, <1>10, GetDataIs
  <1> HIDE DEF r
  <1>12. Kept(s, r.store, D)
    <2> DEFINE q == r.store
    <2>1. Kept(w, q, D)
      BY <1>11
    <2> HIDE DEF q
    <2>2. Kept(s, q, D)
      BY <1>8, <2>1, KeptTwice
    <2> QED BY <2>2 DEF q
  <1>13. Sound(r.store, D, val, at)
    <2> DEFINE q == r.store
    <2>1. State(q, D, at, UnitsOf(val)) /\ Kept(s, q, D)
      BY <1>11, <1>12 DEF un
    <2> HIDE DEF q
    <2>2. Sound(q, D, val, at)
      BY <2>1, KeptSound
    <2> QED BY <2>2 DEF q
  <1> QED BY <1>3, <1>5, <1>11, <1>13 DEF cell

LEMMA ResyncSound ==
    ASSUME NEW s, NEW D, NEW val, NEW at, Sound(s, D, val, at)
    PROVE  Sound(NoCurrent(FlushBucket(s)), D, val, at)
  <1> DEFINE w == FlushBucket(s)
             t == NoCurrent(w)
             un == UnitsOf(val)
  <1>1. State(s, D, at, un)
    BY DEF Sound
  <1>2. Handler(s, D) /\ Written(s)
    BY <1>1, StateIs
  <1>3. /\ Handler(w, D) /\ Same(s, w, D) /\ ~w.changed
        /\ \A b \in DOMAIN s.file \ D : Part(w.file[b]) = View(s, b)
    BY <1>2, FlushIs
  <1>4. w \in StoreValue
    BY <1>3 DEF Handler
  <1> HIDE DEF w
  <1>5. t = [file |-> w.file, current |-> -1, used |-> 0, nDeleted |-> 0, next |-> -1,
             data |-> NoData, changed |-> FALSE, last |-> w.last]
    <2>1. t = [w EXCEPT !.current = -1, !.used = 0, !.nDeleted = 0, !.next = -1,
                        !.data = NoData, !.changed = FALSE]
      BY DEF NoCurrent
    <2> HIDE DEF t
    <2> QED BY <1>4, <2>1 DEF StoreValue
  <1> HIDE DEF t
  <1>6. t \in StoreValue
    BY <1>4, <1>5, NoDataIs DEF StoreValue
  <1>7. t.file = w.file /\ t.current = -1 /\ t.last = w.last /\ ~t.changed
    BY <1>5
  <1>8. Handler(t, D) /\ Written(t)
    BY <1>3, <1>6, <1>7 DEF Handler, Written
  <1>9. Same(s, t, D)
    <2>1. /\ DOMAIN w.file = DOMAIN s.file /\ w.last = s.last
          /\ \A b \in D : w.file[b] = s.file[b]
      BY <1>3 DEF Same
    <2>2. s \in StoreValue /\ -1 \notin DOMAIN s.file
      BY <1>2, FileIs DEF Handler
    <2>3. ASSUME NEW b \in DOMAIN s.file \ D
          PROVE  View(t, b) = View(s, b)
      <3>1. b # -1
        BY <2>2
      <3> QED BY <1>3, <1>7, <3>1 DEF View
    <2>4. Views(t, D) = Views(s, D)
      BY <1>7, <2>1, <2>3 DEF Views
    <2> QED BY <1>7, <2>1, <2>4 DEF Same
  <1>10. State(t, D, at, un) /\ Kept(s, t, D)
    BY <1>1, <1>8, <1>9, SameState
  <1>11. Sound(t, D, val, at)
    BY <1>10, KeptSound
  <1> QED BY <1>11 DEF t, w

-----------------------------------------------------------------------------
(* The index.                                                                *)

IndexEntry == [last : Nat, bucket : Nat]
FirstIn(ix, i) == IF i = 1 THEN 0 ELSE ix[i - 1].last + 1
CountIn(ix, i) == ix[i].last - FirstIn(ix, i) + 1
RowsIn(ix) == IF ix = <<>> THEN 0 ELSE ix[Len(ix)].last + 1
BucketsOf(ix) == {ix[i].bucket : i \in DOMAIN ix}

\* The entries follow one another, and each has a bucket of its own.
IndexOk(ix) ==
    /\ ix \in Seq(IndexEntry)
    /\ \A i \in 1..Len(ix) : FirstIn(ix, i) <= ix[i].last
                             /\ ix[i].last < FirstIn(ix, i) + RowsPerBucket
    /\ \A i, j \in 1..Len(ix) : ix[i].bucket = ix[j].bucket => i = j

LEMMA EntryIs ==
    ASSUME NEW ix, IndexOk(ix), NEW i \in 1..Len(ix)
    PROVE  /\ i \in Nat \ {0} /\ Len(ix) \in Nat /\ ix # <<>>
           /\ ix[i].last \in Nat /\ ix[i].bucket \in Nat /\ FirstIn(ix, i) \in Nat
           /\ ix[i].bucket \in BucketsOf(ix)
           /\ CountIn(ix, i) \in 1..RowsPerBucket
           /\ FirstIn(ix, i) + CountIn(ix, i) = ix[i].last + 1
  <1>0. RowsPerBucket \in Nat
    BY StringBucketsAssumption
  <1>1. /\ ix \in Seq(IndexEntry) /\ FirstIn(ix, i) <= ix[i].last
        /\ ix[i].last < FirstIn(ix, i) + RowsPerBucket
    BY DEF IndexOk
  <1>2. Len(ix) \in Nat /\ i \in Nat \ {0} /\ DOMAIN ix = 1..Len(ix) /\ ix # <<>>
    BY <1>1
  <1>3. \A j \in 1..Len(ix) : ix[j].last \in Nat /\ ix[j].bucket \in Nat
    <2>1. \A j \in 1..Len(ix) : ix[j] \in IndexEntry
      BY <1>1
    <2> QED BY <2>1 DEF IndexEntry
  <1>4. FirstIn(ix, i) \in Nat
    <2>1. CASE i = 1
      BY <2>1 DEF FirstIn
    <2>2. CASE i # 1
      <3>1. i - 1 \in 1..Len(ix)
        BY <1>2, <2>2
      <3>2. ix[i - 1].last \in Nat
        BY <1>3, <3>1
      <3> QED BY <2>2, <3>2 DEF FirstIn
    <2> QED BY <2>1, <2>2
  <1>5. ix[i].bucket \in BucketsOf(ix)
    BY <1>2 DEF BucketsOf
  <1>6. ASSUME NEW l \in Nat, NEW f \in Nat, f <= l, l < f + RowsPerBucket
        PROVE  l - f + 1 \in 1..RowsPerBucket /\ f + (l - f + 1) = l + 1
    BY <1>0, <1>6
  <1> QED BY <1>1, <1>2, <1>3, <1>4, <1>5, <1>6 DEF CountIn

LEMMA FirstsIncrease ==
    ASSUME NEW ix, IndexOk(ix), NEW i \in 1..Len(ix), NEW j \in 1..Len(ix), i < j
    PROVE  ix[i].last < FirstIn(ix, j)
  <1> DEFINE n == Len(ix)
             T == {d \in Nat : i + 1 + d <= n => ix[i].last < FirstIn(ix, i + 1 + d)}
  <1>1. n \in Nat /\ i \in Nat /\ j \in Nat /\ i > 0 /\ ix[i].last \in Nat
    BY EntryIs
  <1>2. 0 \in T
    <2>1. FirstIn(ix, i + 1 + 0) = ix[i].last + 1
      BY <1>1 DEF FirstIn
    <2> QED BY <1>1, <2>1
  <1>3. \A d \in Nat : d \in T => d + 1 \in T
    <2> SUFFICES ASSUME NEW d \in Nat, d \in T, i + 1 + (d + 1) <= n
                 PROVE  ix[i].last < FirstIn(ix, i + 1 + (d + 1))
      OBVIOUS
    <2> DEFINE k == i + 1 + d
    <2>1. k \in 1..n /\ i + 1 + (d + 1) = k + 1 /\ k + 1 # 1 /\ (k + 1) - 1 = k /\ k \in Int
      BY <1>1
    <2>2. ix[i].last < FirstIn(ix, k)
      BY <1>1
    <2> HIDE DEF k
    <2>3. FirstIn(ix, k) <= ix[k].last /\ ix[k].last \in Nat /\ FirstIn(ix, k) \in Nat
      BY <2>1, EntryIs DEF IndexOk
    <2>4. FirstIn(ix, k + 1) = ix[k].last + 1
      BY <2>1 DEF FirstIn
    <2>5. ix[i].last < FirstIn(ix, k + 1)
      BY <1>1, <2>2, <2>3, <2>4
    <2> QED BY <2>1, <2>5
  <1>4. Nat \subseteq T
    <2> HIDE DEF T
    <2> QED BY <1>2, <1>3, Induction
  <1>5. j - i - 1 \in Nat /\ i + 1 + (j - i - 1) = j
    BY <1>1
  <1>6. j - i - 1 \in T
    BY <1>4, <1>5
  <1>7. j <= n
    OBVIOUS
  <1> QED BY <1>5, <1>6, <1>7

LEMMA RowsInIs ==
    ASSUME NEW ix, IndexOk(ix)
    PROVE  /\ RowsIn(ix) \in Nat
           /\ \A i \in 1..Len(ix) : ix[i].last < RowsIn(ix)
           /\ Len(ix) \in Nat /\ DOMAIN ix = 1..Len(ix)
           /\ ix = <<>> => Len(ix) = 0
  <1>1. ix \in Seq(IndexEntry)
    BY DEF IndexOk
  <1>2. Len(ix) \in Nat /\ DOMAIN ix = 1..Len(ix) /\ (ix = <<>> <=> Len(ix) = 0)
    BY <1>1
  <1>3. CASE ix = <<>>
    BY <1>2, <1>3 DEF RowsIn
  <1>4. CASE ix # <<>>
    <2> DEFINE n == Len(ix)
    <2>1. n \in 1..Len(ix) /\ RowsIn(ix) = ix[n].last + 1
      BY <1>2, <1>4 DEF RowsIn
    <2>4. \A i \in 1..Len(ix) : i # n => i < n
      <3>1. \A m \in Nat : \A i \in 1..m : i # m => i < m
        OBVIOUS
      <3>2. Len(ix) \in Nat
        BY <1>2
      <3> QED BY <3>1, <3>2
    <2> HIDE DEF n
    <2>2. ix[n].last \in Nat
      BY <2>1, EntryIs
    <2>3. ASSUME NEW i \in 1..Len(ix)
          PROVE  ix[i].last < RowsIn(ix)
      <3>1. CASE i = n
        BY <2>1, <2>2, <3>1
      <3>2. CASE i # n
        <4>1. i < n
          BY <2>4, <3>2
        <4>2. ix[i].last < FirstIn(ix, n)
          BY <2>1, <4>1, FirstsIncrease
        <4>3. FirstIn(ix, n) <= ix[n].last /\ FirstIn(ix, n) \in Nat /\ ix[i].last \in Nat
          BY <2>1, EntryIs DEF IndexOk
        <4> QED BY <2>1, <2>2, <4>2, <4>3
      <3> QED BY <3>1, <3>2
    <2> QED BY <1>2, <2>1, <2>2, <2>3, <1>4
  <1> QED BY <1>3, <1>4

\* The row is one of entry i.
IsIn(ix, i, row) ==
    /\ i \in 1..Len(ix) /\ row \in Nat /\ FirstIn(ix, i) <= row /\ row <= ix[i].last

LEMMA InOne ==
    ASSUME NEW ix, IndexOk(ix), NEW i, NEW j, NEW row, IsIn(ix, i, row), IsIn(ix, j, row)
    PROVE  i = j
  <1>1. /\ i \in 1..Len(ix) /\ j \in 1..Len(ix) /\ row \in Nat
        /\ FirstIn(ix, i) <= row /\ row <= ix[i].last
        /\ FirstIn(ix, j) <= row /\ row <= ix[j].last
    BY DEF IsIn
  <1>2. /\ ix[i].last \in Nat /\ ix[j].last \in Nat /\ i \in Nat /\ j \in Nat
        /\ FirstIn(ix, i) \in Nat /\ FirstIn(ix, j) \in Nat
    BY <1>1, EntryIs
  <1>3. CASE i < j
    <2>1. ix[i].last < FirstIn(ix, j)
      BY <1>1, <1>3, FirstsIncrease
    <2> QED BY <1>1, <1>2, <2>1
  <1>4. CASE j < i
    <2>1. ix[j].last < FirstIn(ix, i)
      BY <1>1, <1>4, FirstsIncrease
    <2> QED BY <1>1, <1>2, <2>1
  <1> QED BY <1>2, <1>3, <1>4

EntryIn(ix, row) == Min({i \in DOMAIN ix : row <= ix[i].last})

LEMMA EntryInIs ==
    ASSUME NEW ix, IndexOk(ix), NEW row \in 0..(RowsIn(ix) - 1)
    PROVE  IsIn(ix, EntryIn(ix, row), row)
  <1> DEFINE T == {i \in DOMAIN ix : row <= ix[i].last}
             e == EntryIn(ix, row)
  <1>1. RowsIn(ix) \in Nat /\ Len(ix) \in Nat /\ DOMAIN ix = 1..Len(ix)
    BY RowsInIs
  <1>2. ix # <<>> /\ Len(ix) \in 1..Len(ix) /\ row \in Nat /\ row <= ix[Len(ix)].last
    <2>1. ix # <<>>
      BY <1>1 DEF RowsIn
    <2>2. RowsIn(ix) = ix[Len(ix)].last + 1
      BY <2>1 DEF RowsIn
    <2>3. Len(ix) # 0
      <3>1. ix \in Seq(IndexEntry)
        BY DEF IndexOk
      <3> QED BY <2>1, <3>1
    <2>4. Len(ix) \in 1..Len(ix)
      BY <1>1, <2>3
    <2>5. ix[Len(ix)].last \in Nat
      BY <2>4, EntryIs
    <2> QED BY <1>1, <2>1, <2>2, <2>4, <2>5
  <1>3. T \in SUBSET Nat /\ T # {}
    BY <1>1, <1>2
  <1>4. \E x \in T : \A y \in T : x <= y
    <2> HIDE DEF T
    <2> QED BY <1>3, Least
  <1>5. e \in T /\ \A y \in T : e <= y
    BY <1>4 DEF EntryIn, Min
  <1> HIDE DEF e
  <1>6. e \in 1..Len(ix) /\ row <= ix[e].last
    BY <1>1, <1>5
  <1>7. FirstIn(ix, e) <= row
    <2>1. CASE e = 1
      BY <1>2, <2>1 DEF FirstIn
    <2>2. CASE e # 1
      <3> DEFINE k == e - 1
      <3>1. k \in 1..Len(ix) /\ ~(e <= k)
        BY <1>1, <1>6, <2>2
      <3>2. FirstIn(ix, e) = ix[k].last + 1
        BY <2>2 DEF FirstIn
      <3> HIDE DEF k
      <3>3. ix[k].last \in Nat
        BY <3>1, EntryIs
      <3>4. ~(row <= ix[k].last)
        BY <1>1, <1>5, <3>1
      <3> QED BY <1>2, <3>2, <3>3, <3>4
    <2> QED BY <2>1, <2>2
  <1> QED BY <1>2, <1>6, <1>7 DEF IsIn, e

-----------------------------------------------------------------------------
(* The rows and the keys of their cells.                                     *)

RowValue == [Columns -> Values \cup {Nothing}]
HeldOk(ix, h) == h \in Seq(RowValue) /\ Len(h) = RowsIn(ix)

\* val is h at the keys of the rows, and nothing elsewhere.
Agreed(ix, h, val) ==
    \A i \in 1..Len(ix) : \A p \in 1..RowsPerBucket : \A c \in Columns :
        val[<<ix[i].bucket, p, c>>] =
            IF p <= CountIn(ix, i) THEN h[FirstIn(ix, i) + p][c] ELSE Nothing
PlaceIn(ix, row) == row - FirstIn(ix, EntryIn(ix, row)) + 1
BucketIn(ix, row) == ix[EntryIn(ix, row)].bucket
RowKey(ix, row, c) == <<BucketIn(ix, row), PlaceIn(ix, row), c>>

LEMMA RowPlaceIs ==
    ASSUME NEW ix, IndexOk(ix), NEW row \in 0..(RowsIn(ix) - 1)
    PROVE  /\ EntryIn(ix, row) \in 1..Len(ix) /\ row \in Nat
           /\ PlaceIn(ix, row) \in 1..CountIn(ix, EntryIn(ix, row))
           /\ PlaceIn(ix, row) \in 1..RowsPerBucket
           /\ FirstIn(ix, EntryIn(ix, row)) + PlaceIn(ix, row) = row + 1
           /\ BucketIn(ix, row) \in BucketsOf(ix)
  <1> DEFINE i == EntryIn(ix, row)
             p == PlaceIn(ix, row)
             b == BucketIn(ix, row)
  <1>1. /\ i \in 1..Len(ix) /\ row \in Nat /\ FirstIn(ix, i) <= row /\ row <= ix[i].last
    BY EntryInIs DEF IsIn
  <1>2. p = row - FirstIn(ix, i) + 1 /\ b = ix[i].bucket
    BY DEF PlaceIn, BucketIn
  <1> HIDE DEF i, p, b
  <1>3. /\ FirstIn(ix, i) \in Nat /\ CountIn(ix, i) \in 1..RowsPerBucket /\ b \in BucketsOf(ix)
        /\ FirstIn(ix, i) + CountIn(ix, i) = ix[i].last + 1 /\ ix[i].last \in Nat
    BY <1>1, <1>2, EntryIs
  <1>4. ASSUME NEW f \in Nat, NEW l \in Nat, NEW n \in 1..RowsPerBucket, f <= row, row <= l,
               f + n = l + 1
        PROVE  row - f + 1 \in 1..n /\ row - f + 1 \in 1..RowsPerBucket
               /\ f + (row - f + 1) = row + 1
    <2>1. RowsPerBucket \in Nat
      BY StringBucketsAssumption
    <2> QED BY <1>1, <1>4, <2>1
  <1>5. /\ p \in 1..CountIn(ix, i) /\ p \in 1..RowsPerBucket /\ FirstIn(ix, i) + p = row + 1
    BY <1>1, <1>2, <1>3, <1>4
  <1> QED BY <1>1, <1>3, <1>5 DEF i, p, b

LEMMA RowKeyIs ==
    ASSUME NEW ix, IndexOk(ix), NEW row \in 0..(RowsIn(ix) - 1), NEW c \in Columns
    PROVE  /\ RowKey(ix, row, c) \in Keys(BucketsOf(ix))
           /\ RowKey(ix, row, c)[1] = BucketIn(ix, row)
           /\ RowKey(ix, row, c)[2] = PlaceIn(ix, row)
           /\ RowKey(ix, row, c)[3] = c
  BY RowPlaceIs, KeyIs DEF RowKey

\* A place that holds a row.
LEMMA PlaceRow ==
    ASSUME NEW ix, IndexOk(ix), NEW i \in 1..Len(ix), NEW p \in 1..CountIn(ix, i)
    PROVE  /\ FirstIn(ix, i) + p - 1 \in 0..(RowsIn(ix) - 1)
           /\ EntryIn(ix, FirstIn(ix, i) + p - 1) = i
           /\ PlaceIn(ix, FirstIn(ix, i) + p - 1) = p
           /\ BucketIn(ix, FirstIn(ix, i) + p - 1) = ix[i].bucket
  <1> DEFINE row == FirstIn(ix, i) + p - 1
             j == EntryIn(ix, row)
  <1>1. /\ FirstIn(ix, i) \in Nat /\ CountIn(ix, i) \in 1..RowsPerBucket
        /\ FirstIn(ix, i) + CountIn(ix, i) = ix[i].last + 1 /\ ix[i].last \in Nat
    BY EntryIs
  <1>2. ix[i].last < RowsIn(ix) /\ RowsIn(ix) \in Nat
    BY RowsInIs
  <1>3. ASSUME NEW f \in Nat, NEW l \in Nat, NEW n \in 1..RowsPerBucket, NEW r \in Nat,
               p \in 1..n, f + n = l + 1, l < r
        PROVE  /\ f + p - 1 \in Nat /\ f + p - 1 \in 0..(r - 1) /\ f <= f + p - 1
               /\ f + p - 1 <= l /\ (f + p - 1) - f + 1 = p
    <2>1. RowsPerBucket \in Nat
      BY StringBucketsAssumption
    <2> QED BY <1>3, <2>1
  <1>4. /\ row \in 0..(RowsIn(ix) - 1) /\ row \in Nat /\ FirstIn(ix, i) <= row
        /\ row <= ix[i].last /\ row - FirstIn(ix, i) + 1 = p
    BY <1>1, <1>2, <1>3
  <1> HIDE DEF row
  <1>5. IsIn(ix, i, row)
    BY <1>4 DEF IsIn
  <1>6. IsIn(ix, j, row)
    BY <1>4, EntryInIs
  <1>7. i = j
    BY <1>5, <1>6, InOne
  <1> QED BY <1>4, <1>7 DEF PlaceIn, BucketIn, row

LEMMA RowKeysApart ==
    ASSUME NEW ix, IndexOk(ix), NEW r \in 0..(RowsIn(ix) - 1), NEW q \in 0..(RowsIn(ix) - 1),
           BucketIn(ix, r) = BucketIn(ix, q), PlaceIn(ix, r) = PlaceIn(ix, q)
    PROVE  r = q
  <1> DEFINE i == EntryIn(ix, r)
             j == EntryIn(ix, q)
  <1>1. IsIn(ix, i, r) /\ IsIn(ix, j, q)
    BY EntryInIs
  <1>2. /\ i \in 1..Len(ix) /\ j \in 1..Len(ix) /\ r \in Nat /\ q \in Nat
    BY <1>1 DEF IsIn
  <1>3. ix[i].bucket = ix[j].bucket
    BY DEF BucketIn
  <1>4. r - FirstIn(ix, i) + 1 = q - FirstIn(ix, j) + 1
    BY DEF PlaceIn
  <1> HIDE DEF i, j
  <1>5. i = j
    BY <1>2, <1>3 DEF IndexOk
  <1>6. FirstIn(ix, i) \in Nat
    BY <1>2, EntryIs
  <1>7. ASSUME NEW f \in Nat, r - f + 1 = q - f + 1
        PROVE  r = q
    BY <1>2, <1>7
  <1> QED BY <1>4, <1>5, <1>6, <1>7

LEMMA HeldAt ==
    ASSUME NEW ix, IndexOk(ix), NEW h, NEW val, Agreed(ix, h, val),
           NEW row \in 0..(RowsIn(ix) - 1), NEW c \in Columns
    PROVE  val[RowKey(ix, row, c)] = h[row + 1][c]
  <1> DEFINE i == EntryIn(ix, row)
             p == PlaceIn(ix, row)
  <1>1. /\ i \in 1..Len(ix) /\ p \in 1..CountIn(ix, i) /\ p \in 1..RowsPerBucket
        /\ FirstIn(ix, i) + p = row + 1
    BY RowPlaceIs, RowKeyIs
  <1>2. RowKey(ix, row, c) = <<ix[i].bucket, p, c>>
    BY DEF RowKey, BucketIn
  <1> HIDE DEF i, p
  <1>3. val[<<ix[i].bucket, p, c>>] =
            IF p <= CountIn(ix, i) THEN h[FirstIn(ix, i) + p][c] ELSE Nothing
    BY <1>1 DEF Agreed
  <1>4. p <= CountIn(ix, i)
    BY <1>1
  <1> QED BY <1>1, <1>2, <1>3, <1>4

\* A key is that of a row, or nothing has been put there.
LEMMA KeyOrNothing ==
    ASSUME NEW ix, IndexOk(ix), NEW h, NEW val, Agreed(ix, h, val),
           NEW x \in Keys(BucketsOf(ix))
    PROVE  \/ val[x] = Nothing
           \/ \E row \in 0..(RowsIn(ix) - 1) :
                /\ x = RowKey(ix, row, x[3]) /\ x[1] = BucketIn(ix, row)
                /\ x[2] = PlaceIn(ix, row)
  <1>1. /\ x[1] \in BucketsOf(ix) /\ x[2] \in 1..RowsPerBucket /\ x[3] \in Columns
        /\ x = <<x[1], x[2], x[3]>>
    BY KeysAre
  <1>2. PICK i \in DOMAIN ix : x[1] = ix[i].bucket
    BY <1>1 DEF BucketsOf
  <1>3. i \in 1..Len(ix)
    BY RowsInIs
  <1> DEFINE p == x[2]
             c == x[3]
             n == CountIn(ix, i)
  <1>4. val[<<ix[i].bucket, p, c>>] = IF p <= n THEN h[FirstIn(ix, i) + p][c] ELSE Nothing
    BY <1>1, <1>3 DEF Agreed
  <1>5. x = <<ix[i].bucket, p, c>>
    BY <1>1, <1>2
  <1>6. n \in 1..RowsPerBucket /\ RowsPerBucket \in Nat
    BY <1>3, EntryIs, StringBucketsAssumption
  <1>7. CASE p <= n
    <2>1. p \in 1..n
      BY <1>1, <1>6, <1>7
    <2> DEFINE row == FirstIn(ix, i) + p - 1
    <2> HIDE DEF p
    <2>2. /\ row \in 0..(RowsIn(ix) - 1) /\ PlaceIn(ix, row) = p
          /\ BucketIn(ix, row) = ix[i].bucket
      BY <1>3, <2>1, PlaceRow
    <2> HIDE DEF row
    <2>3. x = RowKey(ix, row, c)
      BY <1>5, <2>2 DEF RowKey
    <2> QED BY <1>2, <2>2, <2>3 DEF p
  <1>8. CASE ~(p <= n)
    BY <1>4, <1>5, <1>8
  <1> QED BY <1>7, <1>8

\* Something is put into the cell of a row.
LEMMA PutAgreed ==
    ASSUME NEW ix, IndexOk(ix), NEW h, HeldOk(ix, h), NEW val, Agreed(ix, h, val),
           DOMAIN val = Keys(BucketsOf(ix)),
           NEW row \in 0..(RowsIn(ix) - 1), NEW c \in Columns,
           NEW v \in Values, NEW h2, h2 = [h EXCEPT ![row + 1][c] = v],
           NEW val2, Else(val, val2, RowKey(ix, row, c), v)
    PROVE  Agreed(ix, h2, val2) /\ HeldOk(ix, h2)
  <1> DEFINE x == RowKey(ix, row, c)
  <1>1. /\ x \in Keys(BucketsOf(ix)) /\ row \in Nat /\ x = <<BucketIn(ix, row), PlaceIn(ix, row), c>>
    BY RowPlaceIs, RowKeyIs DEF RowKey
  <1>2. RowsIn(ix) \in Nat /\ row + 1 \in 1..RowsIn(ix)
    BY RowsInIs
  <1>3. h \in Seq(RowValue) /\ Len(h) = RowsIn(ix) /\ DOMAIN h = 1..RowsIn(ix)
    BY DEF HeldOk
  <1>4. h[row + 1] \in RowValue
    BY <1>2, <1>3
  <1>5. /\ h2 = [h EXCEPT ![row + 1] = [h[row + 1] EXCEPT ![c] = v]]
    BY <1>2, <1>3
  <1>6. [h[row + 1] EXCEPT ![c] = v] \in RowValue
    BY <1>4 DEF RowValue
  <1>7. h2 \in Seq(RowValue) /\ Len(h2) = RowsIn(ix)
    BY <1>2, <1>3, <1>5, <1>6
  <1>8. ASSUME NEW r \in 1..RowsIn(ix), NEW d \in Columns
        PROVE  h2[r][d] = IF r = row + 1 /\ d = c THEN v ELSE h[r][d]
    <2>1. CASE r = row + 1
      BY <1>2, <1>3, <1>4, <1>5, <2>1 DEF RowValue
    <2>2. CASE r # row + 1
      BY <1>2, <1>3, <1>5, <2>2
    <2> QED BY <2>1, <2>2
  <1> HIDE DEF x
  <1>9. Agreed(ix, h2, val2)
    <2> SUFFICES ASSUME NEW i \in 1..Len(ix), NEW p \in 1..RowsPerBucket, NEW d \in Columns
                 PROVE  val2[<<ix[i].bucket, p, d>>] =
                        IF p <= CountIn(ix, i) THEN h2[FirstIn(ix, i) + p][d] ELSE Nothing
      BY DEF Agreed
    <2> DEFINE y == <<ix[i].bucket, p, d>>
               n == CountIn(ix, i)
               f == FirstIn(ix, i)
    <2>1. val[y] = IF p <= n THEN h[f + p][d] ELSE Nothing
      BY DEF Agreed
    <2>2. ix[i].bucket \in BucketsOf(ix) /\ n \in 1..RowsPerBucket /\ f \in Nat
          /\ RowsPerBucket \in Nat
      BY EntryIs, StringBucketsAssumption
    <2>3. y \in DOMAIN val
      BY <2>2, KeyIs
    <2>4. CASE y = x
      <3>1. ix[i].bucket = BucketIn(ix, row) /\ p = PlaceIn(ix, row) /\ d = c
        BY <1>1, <2>4
      <3> DEFINE e == EntryIn(ix, row)
      <3>2. /\ e \in 1..Len(ix) /\ p \in 1..CountIn(ix, e) /\ FirstIn(ix, e) + p = row + 1
        BY <3>1, RowPlaceIs, RowKeyIs
      <3>3. ix[i].bucket = ix[e].bucket
        BY <3>1 DEF BucketIn
      <3>4. i = e
        BY <3>2, <3>3 DEF IndexOk
      <3>5. p <= n /\ f + p = row + 1
        BY <2>2, <3>2, <3>4
      <3>6. val2[y] = v
        BY <2>4 DEF Else, x
      <3> QED BY <1>2, <1>8, <3>1, <3>5, <3>6
    <2>5. CASE y # x
      <3>1. val2[y] = val[y]
        BY <2>3, <2>5 DEF Else, x
      <3>2. CASE p <= n
        <4>1. p \in 1..n
          BY <2>2, <3>2
        <4> DEFINE r == f + p - 1
        <4>2. /\ r \in 0..(RowsIn(ix) - 1) /\ PlaceIn(ix, r) = p /\ BucketIn(ix, r) = ix[i].bucket
          BY <4>1, PlaceRow
        <4>3. f + p = r + 1 /\ f + p \in 1..RowsIn(ix)
          BY SMTT(40), <1>2, <2>2, <4>2
        <4> HIDE DEF r
        <4>4. ~(r = row /\ d = c)
          BY <1>1, <2>5, <4>2
        <4>5. r \in Nat /\ ~(f + p = row + 1 /\ d = c)
          BY <1>1, <1>2, <4>2, <4>3, <4>4
        <4> QED BY <1>8, <2>1, <3>1, <3>2, <4>3, <4>5
      <3>3. CASE ~(p <= n)
        BY <2>1, <3>1, <3>3
      <3> QED BY <3>2, <3>3
    <2> QED BY <2>4, <2>5
  <1> QED BY <1>7, <1>9 DEF HeldOk

NoRow == [c \in Columns |-> Nothing]

\* The last bucket gets another row.
Grows(ix, ix2) ==
    /\ Len(ix) > 0 /\ CountIn(ix, Len(ix)) < RowsPerBucket
    /\ ix2 = [ix EXCEPT ![Len(ix)].last = @ + 1]

LEMMA GrowsIs ==
    ASSUME NEW ix, IndexOk(ix), NEW ix2, Grows(ix, ix2)
    PROVE  /\ IndexOk(ix2) /\ BucketsOf(ix2) = BucketsOf(ix) /\ RowsIn(ix2) = RowsIn(ix) + 1
           /\ Len(ix2) = Len(ix)
           /\ \A i \in 1..Len(ix) :
                /\ ix2[i].bucket = ix[i].bucket /\ FirstIn(ix2, i) = FirstIn(ix, i)
                /\ CountIn(ix2, i) = IF i = Len(ix) THEN CountIn(ix, i) + 1 ELSE CountIn(ix, i)
  <1> DEFINE n == Len(ix)
             new == [ix[n] EXCEPT !.last = @ + 1]
  <1>1. /\ ix \in Seq(IndexEntry) /\ n \in Nat /\ n > 0 /\ n \in 1..n
        /\ DOMAIN ix = 1..n
    BY DEF IndexOk, Grows
  <1>2. /\ ix[n] \in IndexEntry /\ ix[n].last \in Nat /\ ix[n].bucket \in Nat
    <2>1. ix[n] \in IndexEntry
      BY <1>1
    <2> QED BY <2>1 DEF IndexEntry
  <1>3. new \in IndexEntry /\ new.last = ix[n].last + 1 /\ new.bucket = ix[n].bucket
    BY <1>2 DEF IndexEntry
  <1>4. ix2 = [ix EXCEPT ![n] = new]
    BY <1>1 DEF Grows
  <1> HIDE DEF new
  <1>5. /\ ix2 \in Seq(IndexEntry) /\ Len(ix2) = n /\ DOMAIN ix2 = 1..n /\ ix2[n] = new
        /\ \A i \in 1..n : i # n => ix2[i] = ix[i]
    BY SMTT(40), <1>1, <1>3, <1>4
  <1>6. \A i \in 1..n : /\ ix2[i].bucket = ix[i].bucket
                        /\ ix2[i].last = IF i = n THEN ix[i].last + 1 ELSE ix[i].last
    BY <1>3, <1>5
  <1>7. ASSUME NEW i \in 1..n
        PROVE  FirstIn(ix2, i) = FirstIn(ix, i)
    <2>1. CASE i = 1
      BY <2>1 DEF FirstIn
    <2>2. CASE i # 1
      <3>1. i - 1 \in 1..n /\ i - 1 # n
        BY <1>1, <2>2
      <3>2. ix2[i - 1].last = ix[i - 1].last
        BY <1>6, <3>1
      <3> QED BY <2>2, <3>2 DEF FirstIn
    <2> QED BY <2>1, <2>2
  <1>8. ASSUME NEW i \in 1..n
        PROVE  CountIn(ix2, i) = IF i = n THEN CountIn(ix, i) + 1 ELSE CountIn(ix, i)
    <2>1. /\ ix[i].last \in Nat /\ FirstIn(ix, i) \in Nat
      BY EntryIs
    <2>2. CountIn(ix2, i) = ix2[i].last - FirstIn(ix, i) + 1
      BY <1>7 DEF CountIn
    <2>3. CountIn(ix, i) = ix[i].last - FirstIn(ix, i) + 1
      BY DEF CountIn
    <2>4. ASSUME NEW l \in Nat, NEW f \in Nat
          PROVE  (l + 1) - f + 1 = (l - f + 1) + 1
      BY SMTT(40)
    <2> QED BY <1>6, <2>1, <2>2, <2>3, <2>4
  <1>9. RowsIn(ix2) = RowsIn(ix) + 1
    <2>1. ix # <<>> /\ ix2 # <<>>
      <3>1. ix # <<>>
        BY <1>1
      <3>2. Len(ix2) # 0
        <4>1. Len(ix2) = n
          BY <1>5
        <4>2. n # 0
          BY <1>1
        <4> QED BY SMTT(40), <4>1, <4>2
      <3>3. ix2 # <<>>
        BY SMTT(40), <3>2
      <3> QED BY <3>1, <3>3
    <2> QED BY <1>1, <1>2, <1>5, <1>6, <2>1 DEF RowsIn
  <1>10. BucketsOf(ix2) = BucketsOf(ix)
    BY <1>1, <1>5, <1>6 DEF BucketsOf
  <1>11. ASSUME NEW i \in 1..n
         PROVE  FirstIn(ix2, i) <= ix2[i].last /\ ix2[i].last < FirstIn(ix2, i) + RowsPerBucket
    <2>1. /\ ix[i].last \in Nat /\ FirstIn(ix, i) \in Nat /\ FirstIn(ix, i) <= ix[i].last
          /\ ix[i].last < FirstIn(ix, i) + RowsPerBucket /\ RowsPerBucket \in Nat
      BY EntryIs, StringBucketsAssumption DEF IndexOk
    <2>2. CASE i = n
      <3>1. ix[i].last - FirstIn(ix, i) + 1 < RowsPerBucket
        BY <2>2 DEF Grows, CountIn
      <3>2. ASSUME NEW l \in Nat, NEW f \in Nat, f <= l, l - f + 1 < RowsPerBucket
            PROVE  f <= l + 1 /\ l + 1 < f + RowsPerBucket
        BY <2>1, <3>2
      <3> QED BY <1>6, <1>7, <2>1, <2>2, <3>1, <3>2
    <2>3. CASE i # n
      BY <1>6, <1>7, <2>1, <2>3
    <2> QED BY <2>2, <2>3
  <1>12. \A i, j \in 1..n : ix2[i].bucket = ix2[j].bucket => i = j
    BY SMTT(40), <1>6 DEF IndexOk
  <1>13. IndexOk(ix2)
    BY <1>5, <1>11, <1>12 DEF IndexOk
  <1> QED BY <1>5, <1>6, <1>7, <1>8, <1>9, <1>10, <1>13

GetsRow(ix, ix2, h, h2) ==
    /\ HeldOk(ix, h) /\ RowsIn(ix) \in Nat /\ RowsIn(ix2) = RowsIn(ix) + 1
    /\ h2 = Append(h, NoRow)
HasRow(ix, ix2, h, h2) ==
    /\ HeldOk(ix2, h2)
    /\ \A r \in 1..RowsIn(ix) : h2[r] = h[r]
    /\ \A c \in Columns : h2[RowsIn(ix) + 1][c] = Nothing

LEMMA HeldAppended ==
    ASSUME NEW ix, NEW ix2, NEW h, NEW h2, GetsRow(ix, ix2, h, h2)
    PROVE  HasRow(ix, ix2, h, h2)
  <1>1. NoRow \in RowValue /\ \A c \in Columns : NoRow[c] = Nothing
    BY DEF NoRow, RowValue
  <1>2. /\ h \in Seq(RowValue) /\ Len(h) = RowsIn(ix) /\ h2 = Append(h, NoRow)
        /\ RowsIn(ix) \in Nat /\ RowsIn(ix2) = RowsIn(ix) + 1
    BY DEF HeldOk, GetsRow
  <1> HIDE DEF NoRow
  <1>3. /\ h2 \in Seq(RowValue) /\ Len(h2) = RowsIn(ix2) /\ h2[RowsIn(ix) + 1] = NoRow
        /\ \A r \in 1..RowsIn(ix) : h2[r] = h[r]
    BY <1>1, <1>2
  <1> QED BY <1>1, <1>3 DEF HeldOk, HasRow

LEMMA GrowAgreed ==
    ASSUME NEW ix, IndexOk(ix), NEW h, HeldOk(ix, h), NEW val, Agreed(ix, h, val),
           NEW ix2, Grows(ix, ix2), NEW h2, h2 = Append(h, NoRow)
    PROVE  Agreed(ix2, h2, val) /\ HeldOk(ix2, h2)
  <1> DEFINE n == Len(ix)
             N == RowsIn(ix)
  <1>1. /\ RowsIn(ix2) = N + 1 /\ Len(ix2) = n
        /\ \A i \in 1..n :
                /\ ix2[i].bucket = ix[i].bucket /\ FirstIn(ix2, i) = FirstIn(ix, i)
                /\ CountIn(ix2, i) = IF i = n THEN CountIn(ix, i) + 1 ELSE CountIn(ix, i)
    BY GrowsIs
  <1>2. N \in Nat /\ n \in Nat /\ \A i \in 1..n : ix[i].last < N
    BY RowsInIs
  <1>3. /\ HeldOk(ix2, h2) /\ \A r \in 1..N : h2[r] = h[r]
        /\ \A c \in Columns : h2[N + 1][c] = Nothing
    <2>1. GetsRow(ix, ix2, h, h2)
      BY <1>1, <1>2 DEF GetsRow
    <2>2. HasRow(ix, ix2, h, h2)
      BY <2>1, HeldAppended
    <2> QED BY <2>2 DEF HasRow
  <1>4. n > 0 /\ N = ix[n].last + 1
    <2>1. n > 0
      BY DEF Grows
    <2>2. ix # <<>>
      BY <2>1, RowsInIs
    <2> QED BY <2>1, <2>2 DEF RowsIn
  <1>5. ASSUME NEW i \in 1..n, NEW p \in 1..RowsPerBucket, NEW c \in Columns
        PROVE  val[<<ix2[i].bucket, p, c>>] =
                    IF p <= CountIn(ix2, i) THEN h2[FirstIn(ix2, i) + p][c] ELSE Nothing
    <2> DEFINE f == FirstIn(ix, i)
               m == CountIn(ix, i)
    <2>1. val[<<ix[i].bucket, p, c>>] = IF p <= m THEN h[f + p][c] ELSE Nothing
      BY DEF Agreed
    <2>2. /\ f \in Nat /\ m \in Nat /\ p \in Nat /\ p > 0 /\ f + m = ix[i].last + 1
          /\ ix[i].last \in Nat /\ ix[i].last < N
      BY <1>2, EntryIs, StringBucketsAssumption
    <2> HIDE DEF f, m
    <2>3. CASE p <= m
      <3>1. f + p \in 1..N
        BY <1>2, <2>2, <2>3
      <3>2. h2[f + p] = h[f + p]
        BY <1>3, <3>1
      <3>3. p <= CountIn(ix2, i)
        BY <1>1, <2>2, <2>3 DEF m
      <3> QED BY <1>1, <2>1, <2>3, <3>2, <3>3 DEF f
    <2>4. CASE ~(p <= m)
      <3>1. CASE p <= CountIn(ix2, i)
        <4>1. i = n /\ p = m + 1
          BY <1>1, <2>2, <2>4, <3>1 DEF m
        <4>2. f + p = N + 1
          BY <1>4, <2>2, <4>1
        <4> QED BY <1>1, <1>3, <2>1, <2>4, <3>1, <4>2 DEF f
      <3>2. CASE ~(p <= CountIn(ix2, i))
        BY <1>1, <2>1, <2>4, <3>2
      <3> QED BY <3>1, <3>2
    <2> QED BY <2>3, <2>4
  <1> QED BY <1>1, <1>3, <1>5 DEF Agreed

\* A new bucket for the new row.
Starts(ix, ix2, b) ==
    /\ b \in Nat /\ b \notin BucketsOf(ix)
    /\ ix2 = Append(ix, [last |-> RowsIn(ix), bucket |-> b])

LEMMA StartsIs ==
    ASSUME NEW ix, IndexOk(ix), NEW ix2, NEW b, Starts(ix, ix2, b)
    PROVE  /\ IndexOk(ix2) /\ BucketsOf(ix2) = BucketsOf(ix) \cup {b}
           /\ RowsIn(ix2) = RowsIn(ix) + 1
           /\ Len(ix2) = Len(ix) + 1
           /\ \A i \in 1..Len(ix) :
                /\ ix2[i].bucket = ix[i].bucket /\ FirstIn(ix2, i) = FirstIn(ix, i)
                /\ CountIn(ix2, i) = CountIn(ix, i)
           /\ ix2[Len(ix) + 1].bucket = b /\ FirstIn(ix2, Len(ix) + 1) = RowsIn(ix)
           /\ CountIn(ix2, Len(ix) + 1) = 1
  <1> DEFINE n == Len(ix)
             N == RowsIn(ix)
             new == [last |-> N, bucket |-> b]
  <1>0. RowsPerBucket \in Nat \ {0}
    BY StringBucketsAssumption
  <1>1. ix \in Seq(IndexEntry) /\ n \in Nat /\ DOMAIN ix = 1..n /\ N \in Nat
    BY RowsInIs DEF IndexOk
  <1>2. new \in IndexEntry /\ new.last = N /\ new.bucket = b /\ b \notin BucketsOf(ix)
    BY <1>1 DEF IndexEntry, Starts
  <1>3. ix2 = Append(ix, new)
    BY DEF Starts
  <1> HIDE DEF new
  <1>4. /\ ix2 \in Seq(IndexEntry) /\ Len(ix2) = n + 1 /\ DOMAIN ix2 = 1..(n + 1)
        /\ ix2[n + 1] = new /\ \A i \in 1..n : ix2[i] = ix[i]
    BY <1>1, <1>2, <1>3
  <1>5. ASSUME NEW i \in 1..n
        PROVE  FirstIn(ix2, i) = FirstIn(ix, i)
    <2>1. CASE i = 1
      BY <2>1 DEF FirstIn
    <2>2. CASE i # 1
      <3>1. i - 1 \in 1..n
        BY <1>1, <2>2
      <3> QED BY <1>4, <2>2, <3>1 DEF FirstIn
    <2> QED BY <2>1, <2>2
  <1>6. \A i \in 1..n : CountIn(ix2, i) = CountIn(ix, i)
    BY <1>4, <1>5 DEF CountIn
  <1>7. FirstIn(ix2, n + 1) = N
    <2>1. CASE n = 0
      <3>1. ix = <<>>
        BY <1>1, <2>1
      <3> QED BY <2>1, <3>1 DEF FirstIn, RowsIn
    <2>2. CASE n # 0
      <3>1. ix # <<>> /\ n \in 1..n /\ n + 1 # 1 /\ (n + 1) - 1 = n
        BY <1>1, <2>2
      <3>2. ix2[n] = ix[n]
        BY <1>4, <3>1
      <3>3. FirstIn(ix2, n + 1) = ix2[n].last + 1
        BY <3>1 DEF FirstIn
      <3>4. N = ix[n].last + 1
        BY <3>1 DEF RowsIn
      <3> QED BY <3>2, <3>3, <3>4
    <2> QED BY <2>1, <2>2
  <1>8. ix2[n + 1].bucket = b /\ ix2[n + 1].last = N
    BY <1>2, <1>4
  <1>9. CountIn(ix2, n + 1) = 1
    BY <1>1, <1>7, <1>8 DEF CountIn
  <1>10. RowsIn(ix2) = N + 1
    <2>1. ix2 # <<>>
      BY <1>1, <1>4
    <2> QED BY <1>4, <1>8, <2>1 DEF RowsIn
  <1>11. BucketsOf(ix2) = BucketsOf(ix) \cup {b}
    <2>1. \A i \in 1..(n + 1) : i \in 1..n \/ i = n + 1
      BY <1>1
    <2>2. 1..n \subseteq 1..(n + 1) /\ n + 1 \in 1..(n + 1)
      BY <1>1
    <2> QED BY <1>1, <1>4, <1>8, <2>1, <2>2 DEF BucketsOf
  <1>12. ASSUME NEW i \in 1..(n + 1)
         PROVE  FirstIn(ix2, i) <= ix2[i].last /\ ix2[i].last < FirstIn(ix2, i) + RowsPerBucket
    <2>1. CASE i = n + 1
      BY <1>0, <1>1, <1>7, <1>8, <2>1
    <2>2. CASE i # n + 1
      <3>1. i \in 1..n
        BY <1>1, <2>2
      <3> QED BY <1>4, <1>5, <3>1 DEF IndexOk
    <2> QED BY <2>1, <2>2
  <1>13. ASSUME NEW i \in 1..(n + 1), NEW j \in 1..(n + 1), ix2[i].bucket = ix2[j].bucket
         PROVE  i = j
    <2>1. \A k \in 1..n : ix2[k].bucket \in BucketsOf(ix) /\ ix2[k].bucket = ix[k].bucket
      BY <1>1, <1>4 DEF BucketsOf
    <2>2. CASE i = n + 1 /\ j = n + 1
      BY <2>2
    <2>3. CASE i # n + 1 /\ j = n + 1
      <3>1. i \in 1..n
        BY <1>1, <2>3
      <3> QED BY <1>2, <1>8, <1>13, <2>1, <2>3, <3>1
    <2>4. CASE i = n + 1 /\ j # n + 1
      <3>1. j \in 1..n
        BY <1>1, <2>4
      <3> QED BY <1>2, <1>8, <1>13, <2>1, <2>4, <3>1
    <2>5. CASE i # n + 1 /\ j # n + 1
      <3>1. i \in 1..n /\ j \in 1..n
        BY <1>1, <2>5
      <3> QED BY <1>13, <2>1, <3>1 DEF IndexOk
    <2> QED BY <2>2, <2>3, <2>4, <2>5
  <1>14. IndexOk(ix2)
    BY <1>4, <1>12, <1>13 DEF IndexOk
  <1> QED BY <1>4, <1>5, <1>6, <1>7, <1>8, <1>9, <1>10, <1>11, <1>14

LEMMA StartAgreed ==
    ASSUME NEW ix, IndexOk(ix), NEW h, HeldOk(ix, h), NEW val, Agreed(ix, h, val),
           NEW ix2, NEW b, Starts(ix, ix2, b), NEW h2, h2 = Append(h, NoRow)
    PROVE  Agreed(ix2, h2, ValWith(val, BucketsOf(ix), b)) /\ HeldOk(ix2, h2)
  <1> DEFINE n == Len(ix)
             N == RowsIn(ix)
             D == BucketsOf(ix)
             val2 == ValWith(val, D, b)
  <1>1. /\ RowsIn(ix2) = N + 1 /\ Len(ix2) = n + 1
        /\ \A i \in 1..n :
                /\ ix2[i].bucket = ix[i].bucket /\ FirstIn(ix2, i) = FirstIn(ix, i)
                /\ CountIn(ix2, i) = CountIn(ix, i)
        /\ ix2[n + 1].bucket = b /\ FirstIn(ix2, n + 1) = N /\ CountIn(ix2, n + 1) = 1
    BY StartsIs
  <1>2. N \in Nat /\ n \in Nat /\ \A i \in 1..n : ix[i].last < N
    BY RowsInIs
  <1>3. /\ HeldOk(ix2, h2) /\ \A r \in 1..N : h2[r] = h[r]
        /\ \A c \in Columns : h2[N + 1][c] = Nothing
    <2>1. GetsRow(ix, ix2, h, h2)
      BY <1>1, <1>2 DEF GetsRow
    <2>2. HasRow(ix, ix2, h, h2)
      BY <2>1, HeldAppended
    <2> QED BY <2>2 DEF HasRow
  <1>4. ASSUME NEW i \in 1..(n + 1), NEW p \in 1..RowsPerBucket, NEW c \in Columns
        PROVE  val2[<<ix2[i].bucket, p, c>>] =
                    IF p <= CountIn(ix2, i) THEN h2[FirstIn(ix2, i) + p][c] ELSE Nothing
    <2>0. p \in Nat /\ p > 0
      BY StringBucketsAssumption
    <2>1. CASE i = n + 1
      <3> DEFINE y == <<b, p, c>>
                 D2 == D \cup {b}
      <3>1. b \in D2
        OBVIOUS
      <3> HIDE DEF D2
      <3>2. y \in Keys(D2) /\ y[1] = b
        BY <3>1, KeyIs
      <3>3. val2[y] = Nothing
        BY <3>2 DEF ValWith, D2
      <3> HIDE DEF y, val2
      <3>4. val2[<<b, p, c>>] = Nothing
        BY <3>3 DEF y
      <3>5. CASE p <= 1
        <4>1. p = 1 /\ FirstIn(ix2, i) = N /\ ix2[i].bucket = b /\ CountIn(ix2, i) = 1
          BY <1>1, <2>0, <2>1, <3>5
        <4>2. h2[N + 1][c] = Nothing
          BY <1>3
        <4> HIDE DEF N
        <4> QED BY <3>4, <4>1, <4>2
      <3>6. CASE ~(p <= 1)
        BY <1>1, <2>1, <3>4, <3>6
      <3> QED BY <3>5, <3>6
    <2>2. CASE i # n + 1
      <3>1. i \in 1..n
        BY <1>2, <2>2
      <3> DEFINE f == FirstIn(ix, i)
                 m == CountIn(ix, i)
                 a == ix[i].bucket
                 y == <<a, p, c>>
                 D2 == D \cup {b}
      <3>2. val[y] = IF p <= m THEN h[f + p][c] ELSE Nothing
        BY <3>1 DEF Agreed
      <3>3. /\ f \in Nat /\ m \in Nat /\ f + m = ix[i].last + 1
            /\ ix[i].last \in Nat /\ ix[i].last < N /\ a \in D
        BY <1>2, <3>1, EntryIs, StringBucketsAssumption
      <3>4. a # b /\ a \in D2
        BY <3>3 DEF Starts
      <3> HIDE DEF f, m, a, D2
      <3>5. y \in Keys(D2) /\ y[1] = a
        BY <3>4, KeyIs
      <3>6. val2[y] = val[y]
        <4> HIDE DEF y
        <4> QED BY <3>4, <3>5 DEF ValWith, D2
      <3> HIDE DEF val2
      <3>7. CASE p <= m
        <4>1. f + p \in 1..N
          BY <1>2, <2>0, <3>3, <3>7
        <4>2. h2[f + p] = h[f + p]
          BY <1>3, <4>1
        <4> QED BY <1>1, <3>1, <3>2, <3>6, <3>7, <4>2 DEF f, m, a
      <3>8. CASE ~(p <= m)
        BY <1>1, <3>1, <3>2, <3>6, <3>8 DEF f, m, a
      <3> QED BY <3>7, <3>8
    <2> QED BY <2>1, <2>2
  <1> QED BY <1>1, <1>3, <1>4 DEF Agreed

-----------------------------------------------------------------------------
(* A row is taken out of the index.                                          *)

LEMMA RemovedAt ==
    ASSUME NEW S, NEW s \in Seq(S), NEW i \in 1..Len(s)
    PROVE  /\ RemoveAt(s, i) \in Seq(S) /\ Len(RemoveAt(s, i)) = Len(s) - 1
           /\ \A j \in 1..(Len(s) - 1) :
                RemoveAt(s, i)[j] = IF j < i THEN s[j] ELSE s[j + 1]
  <1> DEFINE a == SubSeq(s, 1, i - 1)
             b == SubSeq(s, i + 1, Len(s))
             t == RemoveAt(s, i)
  <1>1. Len(s) \in Nat /\ i \in Nat /\ i > 0 /\ i <= Len(s)
    OBVIOUS
  <1>2. /\ a \in Seq(S) /\ Len(a) = i - 1 /\ \A j \in 1..(i - 1) : a[j] = s[j]
    BY <1>1
  <1>3. /\ b \in Seq(S) /\ Len(b) = Len(s) - i /\ \A j \in 1..(Len(s) - i) : b[j] = s[i + j]
    BY <1>1
  <1>4. t = a \o b
    BY DEF RemoveAt
  <1> HIDE DEF a, b, t
  <1>5. /\ t \in Seq(S) /\ Len(t) = (i - 1) + (Len(s) - i)
        /\ \A j \in 1..(i - 1) : t[j] = a[j]
        /\ \A j \in 1..(Len(s) - i) : t[(i - 1) + j] = b[j]
    <2>1. \A u \in Seq(S), v \in Seq(S) : u \o v \in Seq(S) /\ Len(u \o v) = Len(u) + Len(v)
      OBVIOUS
    <2>2. Len(b) \in Nat
      BY <1>1, <1>3
    <2>3. /\ \A j \in 1..Len(a) : (a \o b)[j] = a[j]
          /\ \A j \in 1..Len(b) : (a \o b)[Len(a) + j] = b[j]
      <3>1. \A j \in 1..(Len(a) + Len(b)) :
                (a \o b)[j] = IF j <= Len(a) THEN a[j] ELSE b[j - Len(a)]
        BY <1>2, <1>3, ConcatProperties
      <3>2. Len(a) \in Nat
        BY <1>1, <1>2
      <3>3. ASSUME NEW j \in 1..Len(b)
            PROVE  (a \o b)[Len(a) + j] = b[j]
        <4> DEFINE m == Len(a) + j
        <4>1. m \in 1..(Len(a) + Len(b)) /\ ~(m <= Len(a)) /\ m - Len(a) = j
          BY <2>2, <3>2
        <4> HIDE DEF m
        <4>2. (a \o b)[m] = b[m - Len(a)]
          BY <3>1, <4>1
        <4> QED BY <4>1, <4>2 DEF m
      <3>4. ASSUME NEW j \in 1..Len(a)
            PROVE  (a \o b)[j] = a[j]
        <4>1. j \in 1..(Len(a) + Len(b)) /\ j <= Len(a)
          BY <2>2, <3>2
        <4> QED BY <3>1, <4>1
      <3> QED BY <3>3, <3>4
    <2> QED BY <1>2, <1>3, <1>4, <2>1, <2>3
  <1>6. ASSUME NEW j \in 1..(Len(s) - 1)
        PROVE  t[j] = IF j < i THEN s[j] ELSE s[j + 1]
    <2>1. CASE j < i
      <3>1. j \in 1..(i - 1)
        BY <1>1, <2>1
      <3> QED BY <1>2, <1>5, <2>1, <3>1
    <2>2. CASE ~(j < i)
      <3> DEFINE k == j - (i - 1)
      <3>1. k \in 1..(Len(s) - i) /\ (i - 1) + k = j /\ i + k = j + 1
        BY <1>1, <2>2
      <3> HIDE DEF k
      <3>2. t[(i - 1) + k] = b[k] /\ b[k] = s[i + k]
        BY <1>3, <1>5, <3>1
      <3> QED BY <2>2, <3>1, <3>2
    <2> QED BY <2>1, <2>2
  <1>7. Len(t) = Len(s) - 1
    BY <1>1, <1>5
  <1> QED BY <1>5, <1>6, <1>7 DEF t

\* The entries of ix2 are those g of ix, after a row has been taken out of entry i.
LessRows(ix, ix2, i, g) ==
    /\ RowsIn(ix2) = RowsIn(ix) - 1
    /\ \A j \in 1..Len(ix2) :
        /\ g[j] \in 1..Len(ix) /\ ix2[j].bucket = ix[g[j]].bucket
        /\ FirstIn(ix2, j) = IF g[j] <= i THEN FirstIn(ix, g[j]) ELSE FirstIn(ix, g[j]) - 1
        /\ CountIn(ix2, j) = IF g[j] = i THEN CountIn(ix, g[j]) - 1 ELSE CountIn(ix, g[j])
\* What is left of the rows, and of what has been put.
TakenOut(ix, ix2, i, row, h, h2, val, val2) ==
    /\ IsIn(ix, i, row) /\ h2 = RemoveAt(h, row + 1)
    /\ \A j \in 1..Len(ix2) : \A q \in 1..RowsPerBucket : \A c \in Columns :
        val2[<<ix2[j].bucket, q, c>>] =
            RowMoved(val, ix[i].bucket, row - FirstIn(ix, i) + 1, CountIn(ix, i))
                [<<ix2[j].bucket, q, c>>]

\* Rows x..l, of which one is numbered x + q - 1, in front of row, and behind it.
LEMMA BeforeRow ==
    ASSUME NEW l \in Nat, NEW x \in Nat, NEW z \in Nat, NEW w \in Nat, NEW M \in Nat,
           NEW o \in Nat, NEW q \in Nat, NEW row \in Nat, q > 0,
           x + z = l + 1, q <= z, l < w, w <= row, row <= o, o < M
    PROVE  x + q < row + 1 /\ x + q \in 1..(M - 1)
  OBVIOUS

LEMMA AfterRow ==
    ASSUME NEW l \in Nat, NEW x \in Nat, NEW z \in Nat, NEW M \in Nat, NEW o \in Nat,
           NEW q \in Nat, NEW row \in Nat, q > 0,
           x + z = l + 1, q <= z, o < x, row <= o, l < M
    PROVE  /\ ~((x - 1) + q < row + 1) /\ (x - 1) + q \in 1..(M - 1)
           /\ ((x - 1) + q) + 1 = x + q
  OBVIOUS

LEMMA LessAgreed ==
    ASSUME NEW ix, IndexOk(ix), NEW h, HeldOk(ix, h), NEW val, Agreed(ix, h, val),
           DOMAIN val = Keys(BucketsOf(ix)),
           NEW ix2, NEW i, NEW g, LessRows(ix, ix2, i, g),
           NEW row, NEW h2, NEW val2, TakenOut(ix, ix2, i, row, h, h2, val, val2)
    PROVE  Agreed(ix2, h2, val2) /\ HeldOk(ix2, h2)
  <1> DEFINE N == RowsIn(ix)
             f == FirstIn(ix, i)
             b == ix[i].bucket
             p == row - f + 1
             e == CountIn(ix, i)
             mv == RowMoved(val, b, p, e)
  <1>1. /\ IsIn(ix, i, row) /\ h2 = RemoveAt(h, row + 1)
        /\ i \in 1..Len(ix) /\ row \in Nat /\ f <= row /\ row <= ix[i].last
    BY DEF TakenOut, IsIn
  <1>2. /\ ix[i].last \in Nat /\ f \in Nat /\ e \in 1..RowsPerBucket /\ f + e = ix[i].last + 1
        /\ i \in Nat /\ b \in BucketsOf(ix) /\ RowsPerBucket \in Nat /\ e \in Nat
    BY <1>1, EntryIs, StringBucketsAssumption
  <1>3. N \in Nat /\ ix[i].last < N
    BY <1>1, RowsInIs
  <1>4. p \in 1..e /\ f + p = row + 1 /\ p \in Nat /\ row + 1 \in 1..N
    <2>1. ASSUME NEW a \in Nat, NEW l \in Nat, NEW m \in Nat, NEW r \in Nat,
                 a <= r, r <= l, a + m = l + 1, NEW M \in Nat, l < M
          PROVE  r - a + 1 \in 1..m /\ a + (r - a + 1) = r + 1 /\ r - a + 1 \in Nat
                 /\ r + 1 \in 1..M
      BY <2>1
    <2> HIDE DEF f, e, N
    <2> QED BY <1>1, <1>2, <1>3, <2>1
  <1>5. h \in Seq(RowValue) /\ Len(h) = N
    BY DEF HeldOk
  <1>6. /\ h2 \in Seq(RowValue) /\ Len(h2) = N - 1
        /\ \A r \in 1..(N - 1) : h2[r] = IF r < row + 1 THEN h[r] ELSE h[r + 1]
    BY <1>1, <1>4, <1>5, RemovedAt
  <1>7. RowsIn(ix2) = N - 1
    BY DEF LessRows
  <1> HIDE DEF p, f, e, b
  <1>8. ASSUME NEW j \in 1..Len(ix2), NEW q \in 1..RowsPerBucket, NEW c \in Columns
        PROVE  val2[<<ix2[j].bucket, q, c>>] =
                    IF q <= CountIn(ix2, j) THEN h2[FirstIn(ix2, j) + q][c] ELSE Nothing
    <2> DEFINE k == g[j]
               a == ix[k].bucket
               y == <<a, q, c>>
               fk == FirstIn(ix, k)
               m == CountIn(ix, k)
               f2 == FirstIn(ix2, j)
               m2 == CountIn(ix2, j)
    <2>1. /\ k \in 1..Len(ix) /\ ix2[j].bucket = a
          /\ f2 = (IF k <= i THEN fk ELSE fk - 1)
          /\ m2 = (IF k = i THEN m - 1 ELSE m)
      BY DEF LessRows
    <2> HIDE DEF k
    <2>2. /\ ix[k].last \in Nat /\ fk \in Nat /\ m \in 1..RowsPerBucket /\ fk + m = ix[k].last + 1
          /\ k \in Nat /\ a \in BucketsOf(ix) /\ m \in Nat /\ ix[k].last < N
      BY <1>2, <2>1, EntryIs, RowsInIs
    <2>3. q \in Nat /\ q > 0
      BY <1>2
    <2>4. val2[<<ix2[j].bucket, q, c>>] = mv[<<ix2[j].bucket, q, c>>]
      BY DEF TakenOut, mv, b, p, e, f
    <2>5. val2[<<ix2[j].bucket, q, c>>] = mv[y]
      BY <2>1, <2>4
    <2>6. val[y] = IF q <= m THEN h[fk + q][c] ELSE Nothing
      BY <2>1 DEF Agreed
    <2>7. y \in DOMAIN val /\ y[1] = a /\ y[2] = q /\ y[3] = c
      BY <2>2, KeyIs
    <2> HIDE DEF y
    <2>8. mv[y] = IF InSpan(y, b, p, e, y[3])
                  THEN IF y[2] = e THEN Nothing ELSE val[<<b, y[2] + 1, y[3]>>]
                  ELSE val[y]
      BY <2>7 DEF RowMoved
    <2>9. InSpan(y, b, p, e, y[3]) <=> k = i /\ q \in p..e
      <3>1. a = b <=> k = i
        BY <1>1, <2>1 DEF IndexOk, b
      <3> HIDE DEF a
      <3> QED BY <2>7, <3>1 DEF InSpan
    <2> HIDE DEF mv
    <2>10. CASE k # i
      <3>1. mv[y] = val[y] /\ m2 = m
        BY <2>1, <2>8, <2>9, <2>10
      <3>2. CASE ~(q <= m)
        BY <2>5, <2>6, <3>1, <3>2
      <3>3. CASE q <= m
        <4>1. CASE k < i
          <5>1. ix[k].last < f
            BY <1>1, <2>1, <4>1, FirstsIncrease DEF f
          <5> HIDE DEF fk, m, f2, m2
          <5>2. f2 = fk /\ fk + q < row + 1 /\ fk + q \in 1..(N - 1)
            <6>2. k <= i /\ f2 = fk
              BY <1>2, <2>1, <2>2, <4>1
            <6> HIDE DEF N
            <6>3. fk + q < row + 1 /\ fk + q \in 1..(N - 1)
              <7> HIDE DEF k
              <7>1. /\ fk \in Nat /\ m \in Nat /\ ix[k].last \in Nat /\ ix[i].last \in Nat
                    /\ N \in Nat /\ q \in Nat /\ row \in Nat /\ f \in Nat
                BY <1>1, <1>2, <1>3, <2>2, <2>3
              <7>2. fk + m = ix[k].last + 1 /\ ix[k].last < f /\ f <= row
                    /\ row <= ix[i].last /\ ix[i].last < N /\ q <= m /\ q > 0
                BY <1>1, <1>3, <2>2, <2>3, <3>3, <5>1
              <7> QED BY <7>1, <7>2, BeforeRow
            <6> QED BY <6>2, <6>3
          <5>3. h2[f2 + q] = h[fk + q]
            BY <1>6, <5>2
          <5> QED BY <2>5, <2>6, <3>1, <3>3, <5>3 DEF m2, f2
        <4>2. CASE i < k
          <5>1. ix[i].last < fk
            BY <1>1, <2>1, <4>2, FirstsIncrease
          <5> HIDE DEF fk, m, f2, m2
          <5>2. /\ f2 = fk - 1 /\ ~(f2 + q < row + 1) /\ f2 + q \in 1..(N - 1)
                /\ (f2 + q) + 1 = fk + q
            <6>2. ~(k <= i) /\ f2 = fk - 1
              BY <1>2, <2>1, <2>2, <4>2
            <6> HIDE DEF N
            <6>3. /\ ~((fk - 1) + q < row + 1) /\ (fk - 1) + q \in 1..(N - 1)
                  /\ ((fk - 1) + q) + 1 = fk + q
              <7> HIDE DEF k
              <7>1. /\ fk \in Nat /\ m \in Nat /\ ix[k].last \in Nat /\ ix[i].last \in Nat
                    /\ N \in Nat /\ q \in Nat /\ row \in Nat
                BY <1>1, <1>2, <1>3, <2>2, <2>3
              <7>2. fk + m = ix[k].last + 1 /\ ix[i].last < fk /\ row <= ix[i].last
                    /\ ix[k].last < N /\ q <= m /\ q > 0
                BY <1>1, <2>2, <2>3, <3>3, <5>1
              <7> QED BY <7>1, <7>2, AfterRow
            <6> QED BY <6>2, <6>3
          <5>3. h2[f2 + q] = h[(f2 + q) + 1]
            <6> DEFINE r == f2 + q
            <6>1. r \in 1..(N - 1) /\ ~(r < row + 1)
              BY <5>2
            <6> HIDE DEF r
            <6>2. h2[r] = h[r + 1]
              BY <1>6, <6>1
            <6> QED BY <6>2 DEF r
          <5> QED BY <2>5, <2>6, <3>1, <3>3, <5>2, <5>3 DEF m2, f2
        <4> QED BY <1>2, <2>2, <2>10, <4>1, <4>2
      <3> QED BY <3>2, <3>3
    <2>11. CASE k = i
      <3>1. m2 = m - 1 /\ f2 = f /\ fk = f /\ m = e /\ a = b
        BY <1>2, <2>1, <2>11 DEF f, e, b
      <3> HIDE DEF fk, m, f2, m2, a
      <3>2. CASE q < p
        <4>1. ~(q \in p..e) /\ q <= m2 /\ q <= m /\ f2 + q < row + 1 /\ f2 + q \in 1..(N - 1)
          BY <1>1, <1>2, <1>3, <1>4, <2>3, <3>1, <3>2
        <4>2. mv[y] = val[y]
          BY <2>8, <2>9, <4>1
        <4>3. h2[f2 + q] = h[f2 + q]
          BY <1>6, <4>1
        <4> QED BY <2>5, <2>6, <3>1, <4>1, <4>2, <4>3 DEF f2, m2
      <3>3. CASE q \in p..e /\ q # e
        <4> DEFINE q1 == q + 1
        <4>1. /\ q <= m2 /\ q1 \in 1..RowsPerBucket /\ q1 <= e
              /\ ~(f2 + q < row + 1) /\ f2 + q \in 1..(N - 1) /\ (f2 + q) + 1 = f + q1
          BY <1>1, <1>2, <1>3, <1>4, <2>3, <3>1, <3>3
        <4>2. mv[y] = val[<<b, q1, c>>]
          BY <2>7, <2>8, <2>9, <2>11, <3>3
        <4> HIDE DEF q1
        <4>3. val[<<b, q1, c>>] = IF q1 <= e THEN h[f + q1][c] ELSE Nothing
          BY <1>1, <4>1 DEF Agreed, f, e, b
        <4>4. h2[f2 + q] = h[(f2 + q) + 1]
          <5> DEFINE r == f2 + q
          <5>1. r \in 1..(N - 1) /\ ~(r < row + 1)
            BY <4>1
          <5> HIDE DEF r
          <5>2. h2[r] = h[r + 1]
            BY <1>6, <5>1
          <5> QED BY <5>2 DEF r
        <4> QED BY <2>5, <4>1, <4>2, <4>3, <4>4 DEF f2, m2
      <3>4. CASE q \in p..e /\ q = e
        <4>1. mv[y] = Nothing
          BY <2>7, <2>8, <2>9, <2>11, <3>4
        <4>2. ~(q <= m2)
          BY <1>2, <3>1, <3>4
        <4> QED BY <2>5, <4>1, <4>2 DEF m2
      <3>5. CASE q > e
        <4>1. ~(q \in p..e) /\ ~(q <= m) /\ ~(q <= m2)
          BY <1>2, <2>3, <3>1, <3>5
        <4>2. mv[y] = Nothing
          BY <2>6, <2>8, <2>9, <4>1
        <4> QED BY <2>5, <4>1, <4>2 DEF m2
      <3>6. q < p \/ (q \in p..e /\ q # e) \/ (q \in p..e /\ q = e) \/ q > e
        BY <1>2, <1>4, <2>3
      <3> QED BY <3>2, <3>3, <3>4, <3>5, <3>6
    <2> QED BY <2>10, <2>11
  <1> QED BY <1>6, <1>7, <1>8 DEF Agreed, HeldOk

LessEntries(ix, i) ==
    [j \in DOMAIN ix |-> IF j < i THEN ix[j] ELSE [ix[j] EXCEPT !.last = @ - 1]]

LEMMA LessEntriesAre ==
    ASSUME NEW ix, IndexOk(ix), NEW i \in 1..Len(ix)
    PROVE  /\ LessEntries(ix, i) \in Seq([last : Int, bucket : Nat])
           /\ Len(LessEntries(ix, i)) = Len(ix)
           /\ \A j \in 1..Len(ix) :
                /\ LessEntries(ix, i)[j].bucket = ix[j].bucket
                /\ LessEntries(ix, i)[j].last = IF j < i THEN ix[j].last ELSE ix[j].last - 1
           /\ \A j \in 1..Len(ix) : j < i => LessEntries(ix, i)[j] = ix[j]
  <1> DEFINE n == Len(ix)
             t == LessEntries(ix, i)
             S == [last : Int, bucket : Nat]
  <1>1. DOMAIN ix = 1..n /\ n \in Nat
    BY RowsInIs
  <1>2. ASSUME NEW j \in 1..n
        PROVE  /\ t[j] \in S /\ t[j].bucket = ix[j].bucket
               /\ t[j].last = IF j < i THEN ix[j].last ELSE ix[j].last - 1
               /\ j < i => t[j] = ix[j]
    <2>1. ix[j] \in IndexEntry
      <3>1. ix \in Seq(IndexEntry)
        BY DEF IndexOk
      <3> QED BY <3>1
    <2>2. CASE j < i
      <3>1. t[j] = ix[j]
        BY <1>1, <2>2 DEF LessEntries
      <3> QED BY <2>1, <2>2, <3>1 DEF IndexEntry
    <2>3. CASE ~(j < i)
      <3>1. t[j] = [ix[j] EXCEPT !.last = ix[j].last - 1]
        BY <1>1, <2>3 DEF LessEntries
      <3> HIDE DEF t
      <3>2. ASSUME NEW x \in IndexEntry, NEW y, y = [x EXCEPT !.last = x.last - 1]
            PROVE  y \in S /\ y.bucket = x.bucket /\ y.last = x.last - 1
        BY <3>2 DEF IndexEntry
      <3>3. t[j] \in S /\ t[j].bucket = ix[j].bucket /\ t[j].last = ix[j].last - 1
        BY <2>1, <3>1, <3>2
      <3> QED BY <2>3, <3>3
    <2> QED BY <2>2, <2>3
  <1>3. t \in [1..n -> S]
    <2>1. t = [j \in 1..n |-> t[j]]
      BY <1>1 DEF LessEntries
    <2> HIDE DEF t, S
    <2> QED BY <1>2, <2>1
  <1> HIDE DEF t, S
  <1>4. t \in Seq(S) /\ Len(t) = n
    <2>1. t \in Seq(S)
      BY <1>1, <1>3
    <2> QED BY <1>1, <1>3, <2>1
  <1> QED BY <1>2, <1>4 DEF t, S

LEMMA LastsAre ==
    ASSUME NEW ix, IndexOk(ix), NEW i \in 1..Len(ix)
    PROVE  RowsIn(ix) = ix[Len(ix)].last + 1 /\ Len(ix) \in 1..Len(ix) /\ i <= Len(ix)
  BY EntryIs DEF RowsIn

\* A row of a bucket that has others.
LEMMA LessIs ==
    ASSUME NEW ix, IndexOk(ix), NEW i \in 1..Len(ix), FirstIn(ix, i) < ix[i].last,
           NEW ix2, ix2 = LessEntries(ix, i)
    PROVE  /\ IndexOk(ix2) /\ BucketsOf(ix2) = BucketsOf(ix)
           /\ LessRows(ix, ix2, i, [j \in 1..Len(ix) |-> j])
  <1> DEFINE n == Len(ix)
             g == [j \in 1..n |-> j]
  <1>1. /\ ix2 \in Seq([last : Int, bucket : Nat]) /\ Len(ix2) = n
        /\ \A j \in 1..n : /\ ix2[j].bucket = ix[j].bucket
                           /\ ix2[j].last = IF j < i THEN ix[j].last ELSE ix[j].last - 1
    BY LessEntriesAre
  <1>2. n \in Nat /\ i \in Nat /\ DOMAIN ix = 1..n /\ DOMAIN ix2 = 1..n
    BY <1>1, RowsInIs
  <1>3. ASSUME NEW j \in 1..n
        PROVE  /\ ix[j].last \in Nat /\ FirstIn(ix, j) \in Nat /\ FirstIn(ix, j) <= ix[j].last
               /\ ix[j].last < FirstIn(ix, j) + RowsPerBucket /\ ix[j].bucket \in Nat
               /\ j \in Nat /\ RowsPerBucket \in Nat
               /\ j > i => ix[i].last < FirstIn(ix, j)
    <2>1. j > i => ix[i].last < FirstIn(ix, j)
      BY FirstsIncrease
    <2>2. FirstIn(ix, j) <= ix[j].last /\ ix[j].last < FirstIn(ix, j) + RowsPerBucket
      BY DEF IndexOk
    <2> QED BY <2>1, <2>2, EntryIs, StringBucketsAssumption
  <1>4. ASSUME NEW j \in 1..n
        PROVE  FirstIn(ix2, j) = IF j <= i THEN FirstIn(ix, j) ELSE FirstIn(ix, j) - 1
    <2>1. CASE j = 1
      BY <1>2, <2>1 DEF FirstIn
    <2>2. CASE j # 1
      <3> DEFINE k == j - 1
      <3>1. k \in 1..n /\ (k < i <=> j <= i)
        BY <1>2, <2>2
      <3>2. FirstIn(ix2, j) = ix2[k].last + 1 /\ FirstIn(ix, j) = ix[k].last + 1
        BY <2>2 DEF FirstIn
      <3> HIDE DEF k
      <3>3. ix2[k].last = (IF k < i THEN ix[k].last ELSE ix[k].last - 1) /\ ix[k].last \in Nat
        BY <1>1, <1>3, <3>1
      <3> QED BY <3>1, <3>2, <3>3
    <2> QED BY <2>1, <2>2
  <1>5. ASSUME NEW j \in 1..n
        PROVE  /\ ix2[j].last \in Nat /\ FirstIn(ix2, j) <= ix2[j].last
               /\ ix2[j].last < FirstIn(ix2, j) + RowsPerBucket
               /\ CountIn(ix2, j) = IF j = i THEN CountIn(ix, j) - 1 ELSE CountIn(ix, j)
    <2>1. ASSUME NEW l \in Nat, NEW f \in Nat, f < l, l < f + RowsPerBucket
          PROVE  /\ l - 1 \in Nat /\ f <= l - 1 /\ l - 1 < f + RowsPerBucket
                 /\ (l - 1) - f + 1 = (l - f + 1) - 1
      BY <1>3, <2>1
    <2>2. ASSUME NEW l \in Nat, NEW f \in Nat, f <= l, l < f + RowsPerBucket, f # 0
          PROVE  /\ l - 1 \in Nat /\ f - 1 <= l - 1 /\ l - 1 < (f - 1) + RowsPerBucket
                 /\ (l - 1) - (f - 1) + 1 = (l - f + 1)
      BY <1>3, <2>2
    <2>3. CASE j < i
      <3>1. j <= i /\ j # i
        BY <1>2, <1>3, <2>3
      <3>2. ix2[j].last = ix[j].last
        BY <1>1, <2>3
      <3>3. FirstIn(ix2, j) = FirstIn(ix, j)
        BY <1>4, <3>1
      <3> QED BY <1>3, <3>1, <3>2, <3>3 DEF CountIn
    <2>4. CASE j = i
      <3>1. ix2[j].last = ix[j].last - 1 /\ FirstIn(ix2, j) = FirstIn(ix, j)
        BY <1>1, <1>2, <1>3, <1>4, <2>4
      <3>2. FirstIn(ix, j) < ix[j].last
        BY <2>4
      <3> QED BY <1>3, <2>1, <2>4, <3>1, <3>2 DEF CountIn
    <2>5. CASE j > i
      <3>1. ~(j < i) /\ ~(j <= i) /\ j # i
        BY <1>2, <1>3, <2>5
      <3>2. ix2[j].last = ix[j].last - 1
        BY <1>1, <3>1
      <3>3. FirstIn(ix2, j) = FirstIn(ix, j) - 1
        BY <1>4, <3>1
      <3>4. FirstIn(ix, j) # 0
        <4>1. ix[i].last \in Nat
          BY <1>3
        <4>2. ix[i].last < FirstIn(ix, j) /\ FirstIn(ix, j) \in Nat
          BY <1>3, <2>5
        <4> QED BY <4>1, <4>2
      <3> DEFINE l == ix[j].last
                 f == FirstIn(ix, j)
      <3>5. l \in Nat /\ f \in Nat /\ f <= l /\ l < f + RowsPerBucket /\ f # 0
        BY <1>3, <3>4
      <3>6. CountIn(ix, j) = l - f + 1
        BY DEF CountIn
      <3>7. CountIn(ix2, j) = (l - 1) - (f - 1) + 1
        BY <3>2, <3>3 DEF CountIn
      <3> HIDE DEF l, f
      <3>8. /\ l - 1 \in Nat /\ f - 1 <= l - 1 /\ l - 1 < (f - 1) + RowsPerBucket
            /\ (l - 1) - (f - 1) + 1 = (l - f + 1)
        BY <2>2, <3>5
      <3>9. ix2[j].last = l - 1 /\ FirstIn(ix2, j) = f - 1
        BY <3>2, <3>3 DEF l, f
      <3> QED BY <3>1, <3>6, <3>7, <3>8, <3>9
    <2> QED BY <1>2, <2>3, <2>4, <2>5
  <1>6. RowsIn(ix2) = RowsIn(ix) - 1
    <2>1. RowsIn(ix) = ix[n].last + 1 /\ n \in 1..n /\ i <= n
      BY LastsAre
    <2>2. ix2 # <<>>
      <3>1. Len(ix2) # 0
        BY <1>1, <1>2, <2>1
      <3> QED BY <3>1
    <2>3. RowsIn(ix2) = ix2[n].last + 1
      BY <1>1, <2>2 DEF RowsIn
    <2>4. ix2[n].last = ix[n].last - 1 /\ ix[n].last \in Nat
      BY <1>1, <1>2, <1>3, <2>1
    <2> QED BY <2>1, <2>3, <2>4
  <1>7. BucketsOf(ix2) = BucketsOf(ix)
    BY <1>1, <1>2 DEF BucketsOf
  <1>8. ix2 \in Seq(IndexEntry)
    <2>1. ASSUME NEW j \in 1..n
          PROVE  ix2[j] \in IndexEntry
      <3>1. ix2[j] \in [last : Int, bucket : Nat] /\ ix2[j].last \in Nat
        <4>1. ix2[j] \in [last : Int, bucket : Nat]
          <5> DEFINE S == [last : Int, bucket : Nat]
          <5>1. ix2 \in Seq(S) /\ j \in 1..Len(ix2)
            BY <1>1
          <5> HIDE DEF S
          <5>2. ix2[j] \in S
            BY <5>1
          <5> QED BY <5>2 DEF S
        <4> QED BY <1>5, <4>1
      <3> QED BY <3>1 DEF IndexEntry
    <2>2. ix2 = [j \in 1..n |-> ix2[j]]
      BY <1>1, <1>2
    <2>3. ix2 \in [1..n -> IndexEntry]
      BY <2>1, <2>2
    <2> QED BY <1>2, <2>3
  <1>9. IndexOk(ix2)
    <2>1. \A j, k \in 1..n : ix2[j].bucket = ix2[k].bucket => j = k
      BY <1>1 DEF IndexOk
    <2> QED BY <1>1, <1>5, <1>8, <2>1 DEF IndexOk
  <1>10. LessRows(ix, ix2, i, g)
    <2>1. \A j \in 1..n : g[j] = j
      OBVIOUS
    <2> HIDE DEF g
    <2> QED BY <1>1, <1>4, <1>5, <1>6, <2>1 DEF LessRows
  <1> QED BY <1>7, <1>9, <1>10

\* The row of a bucket that has no other.
Skips(i, j) == IF j < i THEN j ELSE j + 1

IsSkipped(ix, ix2, i) ==
    /\ Len(ix2) = Len(ix) - 1 /\ Len(ix2) \in Nat
    /\ ix2 \in Seq([last : Int, bucket : Nat])
    /\ \A j \in 1..Len(ix2) :
        /\ Skips(i, j) \in 1..Len(ix) /\ Skips(i, j) # i /\ j \in 1..Len(ix)
        /\ ix2[j].bucket = ix[Skips(i, j)].bucket
        /\ j < i => ix2[j].last = ix[j].last
        /\ ~(j < i) => j + 1 \in 1..Len(ix) /\ ix2[j].last = ix[j + 1].last - 1

LEMMA SkippedIs ==
    ASSUME NEW ix, IndexOk(ix), NEW i \in 1..Len(ix)
    PROVE  IsSkipped(ix, RemoveAt(LessEntries(ix, i), i), i)
  <1> DEFINE n == Len(ix)
             t == LessEntries(ix, i)
             ix2 == RemoveAt(t, i)
             S == [last : Int, bucket : Nat]
  <1>1. n \in Nat /\ i \in 1..n
    BY RowsInIs
  <1>2. t \in Seq(S) /\ Len(t) = n
    BY LessEntriesAre
  <1>3. \A j \in 1..n : /\ t[j].bucket = ix[j].bucket
                        /\ t[j].last = IF j < i THEN ix[j].last ELSE ix[j].last - 1
    BY LessEntriesAre
  <1> HIDE DEF t, S
  <1>4. /\ ix2 \in Seq(S) /\ Len(ix2) = n - 1
        /\ \A j \in 1..(n - 1) : ix2[j] = IF j < i THEN t[j] ELSE t[j + 1]
    BY <1>1, <1>2, RemovedAt
  <1> HIDE DEF ix2
  <1>5. ASSUME NEW j \in 1..Len(ix2)
        PROVE  /\ Skips(i, j) \in 1..n /\ Skips(i, j) # i /\ j \in 1..n
               /\ ix2[j].bucket = ix[Skips(i, j)].bucket
               /\ j < i => ix2[j].last = ix[j].last
               /\ ~(j < i) => j + 1 \in 1..n /\ ix2[j].last = ix[j + 1].last - 1
    <2>1. j \in 1..(n - 1) /\ j \in 1..n /\ j + 1 \in 1..n
      BY <1>1, <1>4
    <2>2. CASE j < i
      <3>1. ix2[j] = t[j] /\ Skips(i, j) = j
        BY <1>4, <2>1, <2>2 DEF Skips
      <3>2. j # i
        BY <1>1, <2>1, <2>2
      <3> QED BY <1>3, <2>1, <2>2, <3>1, <3>2
    <2>3. CASE ~(j < i)
      <3>1. ix2[j] = t[j + 1] /\ Skips(i, j) = j + 1
        BY <1>4, <2>1, <2>3 DEF Skips
      <3>2. j + 1 # i /\ ~(j + 1 < i)
        BY <1>1, <2>1, <2>3
      <3> QED BY <1>3, <2>1, <2>3, <3>1, <3>2
    <2> QED BY <2>2, <2>3
  <1>6. Len(ix2) = n - 1 /\ Len(ix2) \in Nat
    BY <1>1, <1>4
  <1>7. ix2 \in Seq([last : Int, bucket : Nat])
    BY <1>4 DEF S
  <1>8. IsSkipped(ix, ix2, i)
    BY <1>5, <1>6, <1>7 DEF IsSkipped
  <1> QED BY <1>8 DEF ix2, t

LEMMA LessBucketIs ==
    ASSUME NEW ix, IndexOk(ix), NEW i \in 1..Len(ix), FirstIn(ix, i) = ix[i].last,
           NEW ix2, ix2 = RemoveAt(LessEntries(ix, i), i)
    PROVE  /\ IndexOk(ix2) /\ BucketsOf(ix2) = BucketsOf(ix) \ {ix[i].bucket}
           /\ LessRows(ix, ix2, i, [j \in 1..Len(ix2) |-> Skips(i, j)])
  <1> DEFINE n == Len(ix)
             m == Len(ix2)
             g == [j \in 1..m |-> Skips(i, j)]
  <1>0. IsSkipped(ix, ix2, i)
    BY SkippedIs
  <1>1. /\ m = n - 1 /\ m \in Nat /\ n \in Nat /\ i \in 1..n /\ i \in Nat
        /\ DOMAIN ix2 = 1..m /\ DOMAIN ix = 1..n
    BY <1>0, RowsInIs DEF IsSkipped
  <1>2. ASSUME NEW j \in 1..m
        PROVE  /\ Skips(i, j) \in 1..n /\ Skips(i, j) # i /\ j \in 1..n
               /\ ix2[j].bucket = ix[Skips(i, j)].bucket
               /\ j < i => ix2[j].last = ix[j].last
               /\ ~(j < i) => j + 1 \in 1..n /\ ix2[j].last = ix[j + 1].last - 1
    BY <1>0 DEF IsSkipped
  <1>3. ASSUME NEW j \in 1..n
        PROVE  /\ ix[j].last \in Nat /\ FirstIn(ix, j) \in Nat /\ FirstIn(ix, j) <= ix[j].last
               /\ ix[j].last < FirstIn(ix, j) + RowsPerBucket /\ ix[j].bucket \in Nat
               /\ j \in Nat /\ RowsPerBucket \in Nat
    <2>1. FirstIn(ix, j) <= ix[j].last /\ ix[j].last < FirstIn(ix, j) + RowsPerBucket
      BY DEF IndexOk
    <2> QED BY <2>1, EntryIs, StringBucketsAssumption
  <1>4. ASSUME NEW j \in 1..n, j + 1 \in 1..n
        PROVE  FirstIn(ix, j + 1) = ix[j].last + 1
    <2>1. j + 1 # 1 /\ (j + 1) - 1 = j
      BY <1>3
    <2> QED BY <2>1 DEF FirstIn
  <1>5. ASSUME NEW j \in 1..m, j < i
        PROVE  FirstIn(ix2, j) = FirstIn(ix, j)
    <2>1. CASE j = 1
      BY <2>1 DEF FirstIn
    <2>2. CASE j # 1
      <3> DEFINE k == j - 1
      <3>1. k \in 1..m /\ k < i
        BY <1>1, <1>5, <2>2
      <3>2. FirstIn(ix2, j) = ix2[k].last + 1 /\ FirstIn(ix, j) = ix[k].last + 1
        BY <2>2 DEF FirstIn
      <3> HIDE DEF k
      <3> QED BY <1>2, <3>1, <3>2
    <2> QED BY <2>1, <2>2
  <1>6. ASSUME NEW j \in 1..m, ~(j < i)
        PROVE  FirstIn(ix2, j) = ix[j].last
    <2>1. CASE j = 1
      <3>1. i = 1 /\ j = i
        BY <1>1, <1>6, <2>1
      <3>2. FirstIn(ix, i) = 0 /\ FirstIn(ix2, j) = 0
        BY <2>1, <3>1 DEF FirstIn
      <3> QED BY <3>1, <3>2
    <2>2. CASE j # 1
      <3> DEFINE k == j - 1
      <3>1. k \in 1..m /\ k \in Nat /\ k + 1 = j
        BY <1>1, <1>6, <2>2
      <3>2. FirstIn(ix2, j) = ix2[k].last + 1 /\ FirstIn(ix, j) = ix[k].last + 1
        BY <2>2 DEF FirstIn
      <3> HIDE DEF k
      <3>3. CASE k < i
        <4>1. j = i
          BY <1>1, <1>6, <3>1, <3>3
        <4> QED BY <1>2, <3>1, <3>2, <3>3, <4>1
      <3>4. CASE ~(k < i)
        <4>1. ix2[k].last = ix[j].last - 1 /\ j \in 1..n
          BY <1>2, <3>1, <3>4
        <4>2. ix[j].last \in Nat
          BY <1>3, <4>1
        <4> QED BY <3>2, <4>1, <4>2
      <3> QED BY <3>3, <3>4
    <2> QED BY <2>1, <2>2
  <1>7. ASSUME NEW j \in 1..m
        PROVE  /\ ix2[j].last \in Nat /\ FirstIn(ix2, j) <= ix2[j].last
               /\ ix2[j].last < FirstIn(ix2, j) + RowsPerBucket
               /\ CountIn(ix2, j) = CountIn(ix, Skips(i, j))
               /\ FirstIn(ix2, j) = IF Skips(i, j) <= i THEN FirstIn(ix, Skips(i, j))
                                    ELSE FirstIn(ix, Skips(i, j)) - 1
    <2>1. CASE j < i
      <3>1. Skips(i, j) = j /\ j <= i /\ j \in 1..n
        BY <1>1, <1>2, <2>1 DEF Skips
      <3>2. ix2[j].last = ix[j].last /\ FirstIn(ix2, j) = FirstIn(ix, j)
        BY <1>2, <1>5, <2>1
      <3> QED BY <1>3, <3>1, <3>2 DEF CountIn
    <2>2. CASE ~(j < i)
      <3> DEFINE r == j + 1
      <3>1. Skips(i, j) = r /\ ~(r <= i) /\ j \in 1..n /\ r \in 1..n
        BY <1>1, <1>2, <2>2 DEF Skips
      <3>2. ix2[j].last = ix[r].last - 1 /\ FirstIn(ix2, j) = ix[j].last
        BY <1>2, <1>6, <2>2
      <3>3. FirstIn(ix, r) = ix[j].last + 1
        BY <1>4, <3>1
      <3> HIDE DEF r
      <3>4. /\ ix[r].last \in Nat /\ FirstIn(ix, r) <= ix[r].last /\ ix[j].last \in Nat
            /\ ix[r].last < FirstIn(ix, r) + RowsPerBucket /\ RowsPerBucket \in Nat
        BY <1>3, <3>1
      <3>5. ASSUME NEW l \in Nat, NEW f \in Nat, f + 1 <= l, l < f + 1 + RowsPerBucket
            PROVE  /\ l - 1 \in Nat /\ f <= l - 1 /\ l - 1 < f + RowsPerBucket
                   /\ (l - 1) - f + 1 = l - (f + 1) + 1 /\ f = (f + 1) - 1
        <4>1. RowsPerBucket \in Nat
          BY <3>4
        <4> QED BY <3>5, <4>1
      <3> DEFINE l == ix[r].last
                 f == ix[j].last
      <3>6. l \in Nat /\ f \in Nat /\ f + 1 <= l /\ l < f + 1 + RowsPerBucket
        BY <3>3, <3>4
      <3>7. CountIn(ix, r) = l - (f + 1) + 1
        BY <3>3 DEF CountIn
      <3>8. CountIn(ix2, j) = (l - 1) - f + 1
        BY <3>2 DEF CountIn
      <3>9. FirstIn(ix, r) = f + 1 /\ FirstIn(ix2, j) = f /\ ix2[j].last = l - 1
        BY <3>2, <3>3
      <3> HIDE DEF l, f
      <3>10. /\ l - 1 \in Nat /\ f <= l - 1 /\ l - 1 < f + RowsPerBucket
             /\ (l - 1) - f + 1 = l - (f + 1) + 1 /\ f = (f + 1) - 1
        BY <3>5, <3>6
      <3> QED BY <3>1, <3>7, <3>8, <3>9, <3>10
    <2> QED BY <2>1, <2>2
  <1>8. RowsIn(ix2) = RowsIn(ix) - 1
    <2>1. RowsIn(ix) = ix[n].last + 1 /\ n \in 1..n /\ i <= n /\ ix[n].last \in Nat
      BY <1>3, LastsAre
    <2>2. CASE n = 1
      <3>1. i = n /\ m = 0
        BY <1>1, <2>1, <2>2
      <3>2. ix2 = <<>>
        <4>1. ix2 \in Seq([last : Int, bucket : Nat])
          BY <1>0 DEF IsSkipped
        <4> QED BY <3>1, <4>1
      <3>3. ix[n].last = 0
        BY <2>2, <3>1 DEF FirstIn
      <3>4. RowsIn(ix2) = 0
        BY <3>2 DEF RowsIn
      <3> QED BY <2>1, <3>3, <3>4
    <2>3. CASE n # 1
      <3>1. m \in 1..m /\ m + 1 = n
        BY <1>1, <2>1, <2>3
      <3>2. ix2 # <<>>
        <4>1. Len(ix2) # 0
          BY <3>1
        <4> QED BY <4>1
      <3>3. RowsIn(ix2) = ix2[m].last + 1
        BY <3>2 DEF RowsIn
      <3>4. CASE m < i
        <4>1. i = n /\ m \in 1..n
          BY <1>1, <2>1, <3>1, <3>4
        <4>2. ix2[m].last = ix[m].last
          BY <1>2, <3>1, <3>4
        <4>3. FirstIn(ix, m + 1) = ix[m].last + 1
          BY <1>4, <2>1, <3>1, <4>1
        <4>4. ix[m].last + 1 = ix[n].last
          BY <3>1, <4>1, <4>3
        <4> QED BY <2>1, <3>3, <4>2, <4>4
      <3>5. CASE ~(m < i)
        <4>1. ix2[m].last = ix[n].last - 1
          BY <1>2, <3>1, <3>5
        <4> QED BY <2>1, <3>3, <4>1
      <3> QED BY <3>4, <3>5
    <2> QED BY <2>2, <2>3
  <1>9. ASSUME NEW j \in 1..n, j # i
        PROVE  \E k \in 1..m : Skips(i, k) = j
    <2>1. CASE j < i
      BY <1>1, <2>1 DEF Skips
    <2>2. CASE ~(j < i)
      <3>1. j - 1 \in 1..m /\ ~(j - 1 < i) /\ (j - 1) + 1 = j
        BY <1>1, <1>9, <2>2
      <3> QED BY <3>1 DEF Skips
    <2> QED BY <2>1, <2>2
  <1>10. ASSUME NEW j \in 1..m, NEW k \in 1..m, Skips(i, j) = Skips(i, k)
         PROVE  j = k
    BY <1>1, <1>10 DEF Skips
  <1>11. \A j, k \in 1..n : ix[j].bucket = ix[k].bucket => j = k
    BY DEF IndexOk
  <1>12. BucketsOf(ix2) = BucketsOf(ix) \ {ix[i].bucket}
    <2>1. ASSUME NEW b \in BucketsOf(ix2)
          PROVE  b \in BucketsOf(ix) \ {ix[i].bucket}
      <3>1. PICK j \in 1..m : b = ix2[j].bucket
        BY <1>1 DEF BucketsOf
      <3>2. Skips(i, j) \in 1..n /\ Skips(i, j) # i /\ b = ix[Skips(i, j)].bucket
        BY <1>2, <3>1
      <3>3. b # ix[i].bucket
        BY <1>1, <1>11, <3>2
      <3>4. b \in BucketsOf(ix)
        BY <1>1, <3>2 DEF BucketsOf
      <3> QED BY <3>3, <3>4
    <2>2. ASSUME NEW b \in BucketsOf(ix), b # ix[i].bucket
          PROVE  b \in BucketsOf(ix2)
      <3>1. PICK j \in 1..n : b = ix[j].bucket
        BY <1>1 DEF BucketsOf
      <3>2. PICK k \in 1..m : Skips(i, k) = j
        BY <1>9, <2>2, <3>1
      <3>3. ix2[k].bucket = b
        BY <1>2, <3>1, <3>2
      <3> QED BY <1>1, <3>3 DEF BucketsOf
    <2> QED BY <2>1, <2>2
  <1>13. IndexOk(ix2)
    <2>1. ASSUME NEW j \in 1..m, NEW k \in 1..m, ix2[j].bucket = ix2[k].bucket
          PROVE  j = k
      <3>1. /\ Skips(i, j) \in 1..n /\ ix2[j].bucket = ix[Skips(i, j)].bucket
            /\ Skips(i, k) \in 1..n /\ ix2[k].bucket = ix[Skips(i, k)].bucket
        BY <1>2
      <3>2. Skips(i, j) = Skips(i, k)
        BY <1>11, <2>1, <3>1
      <3> QED BY <1>10, <3>2
    <2>2. ix2 \in Seq(IndexEntry)
      <3>1. ASSUME NEW j \in 1..m
            PROVE  ix2[j] \in IndexEntry
        <4> DEFINE S == [last : Int, bucket : Nat]
        <4>1. ix2 \in Seq(S) /\ j \in 1..Len(ix2)
          BY <1>0 DEF IsSkipped
        <4> HIDE DEF S
        <4>2. ix2[j] \in S
          BY <4>1
        <4>3. ix2[j].last \in Nat
          BY <1>7
        <4> QED BY <4>2, <4>3 DEF S, IndexEntry
      <3>2. ix2 = [j \in 1..m |-> ix2[j]]
        <4>1. ix2 \in Seq([last : Int, bucket : Nat])
          BY <1>0 DEF IsSkipped
        <4> QED BY <1>1, <4>1
      <3>3. ix2 \in [1..m -> IndexEntry]
        BY <3>1, <3>2
      <3> QED BY <1>1, <3>3
    <2> QED BY <1>7, <2>1, <2>2 DEF IndexOk
  <1>14. LessRows(ix, ix2, i, g)
    <2>1. \A j \in 1..m : g[j] = Skips(i, j)
      OBVIOUS
    <2> HIDE DEF g
    <2> QED BY <1>2, <1>7, <1>8, <2>1 DEF LessRows
  <1> QED BY <1>12, <1>13, <1>14

\* A column without anything in it.
Emptied(h, n, c) == [r \in 1..n |-> [h[r] EXCEPT ![c] = Nothing]]

LEMMA RenewAgreed ==
    ASSUME NEW ix, IndexOk(ix), NEW h, HeldOk(ix, h), NEW val, Agreed(ix, h, val),
           DOMAIN val = Keys(BucketsOf(ix)), NEW c \in Columns
    PROVE  /\ Agreed(ix, Emptied(h, RowsIn(ix), c), ValRenewed(val, c))
           /\ HeldOk(ix, Emptied(h, RowsIn(ix), c))
  <1> DEFINE n == RowsIn(ix)
             h2 == Emptied(h, n, c)
             val2 == ValRenewed(val, c)
  <1>1. n \in Nat /\ h \in Seq(RowValue) /\ Len(h) = n
    BY RowsInIs DEF HeldOk
  <1>2. ASSUME NEW r \in 1..n
        PROVE  h2[r] \in RowValue /\ \A d \in Columns : h2[r][d] = IF d = c THEN Nothing ELSE h[r][d]
    <2>1. h[r] \in RowValue
      BY <1>1
    <2>2. h2[r] = [h[r] EXCEPT ![c] = Nothing]
      BY DEF Emptied
    <2> QED BY <2>1, <2>2 DEF RowValue
  <1>3. HeldOk(ix, h2)
    <2>1. h2 = [r \in 1..n |-> h2[r]]
      BY DEF Emptied
    <2> HIDE DEF h2
    <2>2. h2 \in [1..n -> RowValue]
      BY <1>2, <2>1
    <2>3. h2 \in Seq(RowValue) /\ Len(h2) = n
      BY <1>1, <2>2
    <2> QED BY <2>3 DEF HeldOk
  <1>4. Agreed(ix, h2, val2)
    <2>1. ASSUME NEW i \in 1..Len(ix), NEW p \in 1..RowsPerBucket, NEW d \in Columns
          PROVE  val2[<<ix[i].bucket, p, d>>] =
                     IF p <= CountIn(ix, i) THEN h2[FirstIn(ix, i) + p][d] ELSE Nothing
      <3> DEFINE y == <<ix[i].bucket, p, d>>
                 r == FirstIn(ix, i) + p
      <3>1. y \in DOMAIN val
        BY EntryIs DEF Keys
      <3>2. val2[y] = IF d = c THEN Nothing ELSE val[y]
        BY <3>1 DEF ValRenewed
      <3>3. val[y] = IF p <= CountIn(ix, i) THEN h[r][d] ELSE Nothing
        BY DEF Agreed
      <3>4. p <= CountIn(ix, i) => r \in 1..n
        <4>1. /\ FirstIn(ix, i) \in Nat /\ CountIn(ix, i) \in Nat /\ ix[i].last \in Nat
              /\ FirstIn(ix, i) + CountIn(ix, i) = ix[i].last + 1
          BY EntryIs
        <4>2. ix[i].last < n
          BY RowsInIs
        <4> QED BY <1>1, <4>1, <4>2
      <3> HIDE DEF y, r, h2, val2
      <3>5. p <= CountIn(ix, i) => h2[r][d] = IF d = c THEN Nothing ELSE h[r][d]
        BY <1>2, <3>4
      <3>6. val2[y] = IF p <= CountIn(ix, i) THEN h2[r][d] ELSE Nothing
        BY <3>2, <3>3, <3>5
      <3> QED BY <3>6 DEF y, r
    <2> HIDE DEF h2, val2
    <2> QED BY <2>1 DEF Agreed
  <1> QED BY <1>3, <1>4

-----------------------------------------------------------------------------
(* The invariant.                                                            *)

\* There is a layout of what has been put in which everything is where the cells
\* and the headers tell.
IsLaidOut(s, ix, h) ==
    /\ IndexOk(ix) /\ HeldOk(ix, h)
    /\ \E val, at : Sound(s, BucketsOf(ix), val, at) /\ Agreed(ix, h, val)

IInv == IsLaidOut(store, index, held)

\* The operators of the model in terms of the index.
LEMMA NamesAre ==
    ASSUME NEW row, NEW c, NEW s
    PROVE  /\ NrRow = RowsIn(index) /\ DataBuckets = BucketsOf(index)
           /\ EntryOf(row) = EntryIn(index, row) /\ FirstRow(row) = FirstIn(index, row)
           /\ PlaceOf(row) = PlaceIn(index, row)
           /\ CellOf(s, row, c) = Cell(s, RowKey(index, row, c))
           /\ index[EntryOf(row)].bucket = BucketIn(index, row)
  <1>1. NrRow = RowsIn(index)
    BY DEF NrRow, RowsIn, Last
  <1>2. EntryOf(row) = EntryIn(index, row) /\ FirstRow(row) = FirstIn(index, row)
    BY DEF EntryOf, EntryIn, FirstRow, FirstIn
  <1>3. PlaceOf(row) = PlaceIn(index, row)
    <2>1. FirstRow(EntryOf(row)) = FirstIn(index, EntryIn(index, row))
      BY DEF EntryOf, EntryIn, FirstRow, FirstIn
    <2> QED BY <2>1 DEF PlaceOf, PlaceIn
  <1>4. index[EntryOf(row)].bucket = BucketIn(index, row)
    BY <1>2 DEF BucketIn
  <1>5. CellOf(s, row, c) = Cell(s, RowKey(index, row, c))
    BY <1>3, <1>4 DEF CellOf, Cell, RowKey
  <1>6. DataBuckets = BucketsOf(index)
    BY DEF DataBuckets, BucketsOf
  <1> QED BY <1>1, <1>2, <1>3, <1>4, <1>5, <1>6

LEMMA WithCellIs ==
    ASSUME NEW row, NEW c, NEW s, NEW cell
    PROVE  WithCell(s, row, c, cell) = SetCell(s, RowKey(index, row, c), cell)
  <1>1. ASSUME NEW b, NEW p, NEW x, x = <<b, p, c>>
        PROVE  SetCell(s, x, cell) = [s EXCEPT !.file[b].cells[p][c] = cell]
    BY SMTT(40), <1>1 DEF SetCell
  <1>2. WithCell(s, row, c, cell) =
            [s EXCEPT !.file[BucketIn(index, row)].cells[PlaceIn(index, row)][c] = cell]
    BY NamesAre DEF WithCell
  <1> QED BY <1>1, <1>2 DEF RowKey

\* The keys of the rows.
LEMMA RowsAre ==
    ASSUME IsLaidOut(store, index, held), NEW row \in Rows, NEW c \in Columns
    PROVE  /\ row \in 0..(RowsIn(index) - 1)
           /\ RowKey(index, row, c) \in Keys(BucketsOf(index))
           /\ RowKey(index, row, c)[3] = c
  <1>1. IndexOk(index)
    BY DEF IsLaidOut
  <1>2. row \in 0..(RowsIn(index) - 1)
    BY NamesAre DEF Rows
  <1> QED BY <1>1, <1>2, RowKeyIs

LEMMA LaidOutInit ==
    ASSUME Init
    PROVE  IInv
  <1> DEFINE ix == <<>>
             h == <<>>
             val == [x \in {} |-> Nothing]
  <1>1. IndexOk(ix) /\ BucketsOf(ix) = {} /\ HeldOk(ix, h) /\ Agreed(ix, h, val)
    BY DEF IndexOk, BucketsOf, HeldOk, RowsIn, Agreed
  <1>2. Sound(NewStore, {}, val, val)
    BY NewSound
  <1> HIDE DEF ix, h, val
  <1>3. IsLaidOut(NewStore, ix, h)
    BY <1>1, <1>2 DEF IsLaidOut
  <1> QED BY <1>3 DEF Init, IInv, ix, h

\* A value is put into the cell of a row.
LEMMA PutLaidOut ==
    ASSUME NEW ix, IndexOk(ix), NEW h, HeldOk(ix, h), NEW val, Agreed(ix, h, val),
           NEW s, NEW at, Sound(s, BucketsOf(ix), val, at),
           NEW row \in 0..(RowsIn(ix) - 1), NEW c \in Columns, NEW v \in Values, NEW t,
           \A val2 : Else(val, val2, RowKey(ix, row, c), v) =>
                \E at2 : Sound(t, BucketsOf(ix), val2, at2)
    PROVE  IsLaidOut(t, ix, [h EXCEPT ![row + 1][c] = v])
  <1> DEFINE x == RowKey(ix, row, c)
             val2 == [val EXCEPT ![x] = v]
             h2 == [h EXCEPT ![row + 1][c] = v]
  <1>1. DOMAIN val = Keys(BucketsOf(ix))
    BY DEF Sound
  <1>2. x \in Keys(BucketsOf(ix))
    BY RowKeyIs
  <1>3. Else(val, val2, x, v)
    BY <1>1, <1>2, ElseIs
  <1> HIDE DEF val2
  <1>4. \E at2 : Sound(t, BucketsOf(ix), val2, at2)
    BY <1>3
  <1>5. Agreed(ix, h2, val2) /\ HeldOk(ix, h2)
    BY <1>1, <1>3, PutAgreed
  <1> HIDE DEF h2
  <1>6. IsLaidOut(t, ix, h2)
    BY <1>4, <1>5 DEF IsLaidOut
  <1> QED BY <1>6 DEF h2

LEMMA PutStringLaidOut ==
    ASSUME IInv, NEW row \in Rows, NEW c \in Scalars, NEW value \in Strings,
           PutString(row, c, value)
    PROVE  IInv'
  <1> DEFINE x == RowKey(index, row, c)
             h2 == [held EXCEPT ![row + 1][c] = value]
  <1>1. IsLaidOut(store, index, held)
    BY DEF IInv
  <1>2. c \in Columns /\ value \in Values
    BY DEF Columns, Values
  <1>3. row \in 0..(RowsIn(index) - 1) /\ x \in Keys(BucketsOf(index)) /\ x[3] \in Scalars
    BY <1>1, <1>2, RowsAre
  <1>4. store' = StringPut(store, x, value) /\ held' = h2 /\ index' = index
    BY NamesAre, WithCellIs DEF PutString, StringPut, Without
  <1>5. IndexOk(index) /\ HeldOk(index, held)
    BY <1>1 DEF IsLaidOut
  <1>6. PICK val, at : Sound(store, BucketsOf(index), val, at) /\ Agreed(index, held, val)
    BY <1>1 DEF IsLaidOut
  <1>7. ASSUME NEW val2, Else(val, val2, x, value)
        PROVE  \E at2 : Sound(StringPut(store, x, value), BucketsOf(index), val2, at2)
    BY <1>3, <1>6, <1>7, StringSound
  <1>8. IsLaidOut(StringPut(store, x, value), index, h2)
    BY <1>2, <1>3, <1>5, <1>6, <1>7, PutLaidOut
  <1> QED BY <1>4, <1>8 DEF IInv

LEMMA PutArrayLaidOut ==
    ASSUME IInv, NEW row \in Rows, NEW c \in Arrays, NEW value \in ArrayValues,
           NEW p, \/ p = Put(store, CellOf(store, row, c), value)
                  \/ /\ p = PutShape(store, CellOf(store, row, c), value)
                     /\ ShapeOnce => CellOf(store, row, c) = EmptyCell,
           store' = WithCell(p.store, row, c, p.cell),
           held' = [held EXCEPT ![row + 1][c] = value], index' = index
    PROVE  IInv'
  <1> DEFINE x == RowKey(index, row, c)
             h2 == [held EXCEPT ![row + 1][c] = value]
             t == SetCell(p.store, x, p.cell)
  <1>1. IsLaidOut(store, index, held)
    BY DEF IInv
  <1>2. c \in Columns /\ value \in Values
    BY DEF Columns, Values
  <1>3. row \in 0..(RowsIn(index) - 1) /\ x \in Keys(BucketsOf(index)) /\ x[3] \in Arrays
    BY <1>1, <1>2, RowsAre
  <1>4. CellOf(store, row, c) = Cell(store, x)
    BY NamesAre
  <1>5. IndexOk(index) /\ HeldOk(index, held)
    BY <1>1 DEF IsLaidOut
  <1>6. PICK val, at : Sound(store, BucketsOf(index), val, at) /\ Agreed(index, held, val)
    BY <1>1 DEF IsLaidOut
  <1>7. ASSUME NEW val2, Else(val, val2, x, value)
        PROVE  \E at2 : Sound(t, BucketsOf(index), val2, at2)
    BY <1>3, <1>4, <1>6, <1>7, ArraySound
  <1>8. store' = t
    BY WithCellIs
  <1> HIDE DEF t
  <1>9. IsLaidOut(t, index, h2)
    BY <1>2, <1>3, <1>5, <1>6, <1>7, PutLaidOut
  <1> QED BY <1>8, <1>9 DEF IInv

LEMMA GetLaidOut ==
    ASSUME IInv, NEW row \in Rows, NEW c \in Columns, Get(row, c)
    PROVE  IInv'
  <1> DEFINE x == RowKey(index, row, c)
  <1>1. IsLaidOut(store, index, held)
    BY DEF IInv
  <1>2. x \in Keys(BucketsOf(index))
    BY <1>1, RowsAre
  <1>3. /\ store' = Found(store, Cell(store, x)).store /\ IsLong(Cell(store, x))
        /\ held' = held /\ index' = index
    BY NamesAre DEF Get, Found
  <1>4. PICK val, at : Sound(store, BucketsOf(index), val, at) /\ Agreed(index, held, val)
    BY <1>1 DEF IsLaidOut
  <1>5. Sound(store', BucketsOf(index), val, at)
    BY <1>2, <1>3, <1>4, FoundIs
  <1>6. IsLaidOut(store', index, held)
    BY <1>1, <1>4, <1>5 DEF IsLaidOut
  <1> QED BY <1>3, <1>6 DEF IInv

LEMMA ResyncLaidOut ==
    ASSUME IInv, Resync
    PROVE  IInv'
  <1>1. IsLaidOut(store, index, held)
    BY DEF IInv
  <1>2. PICK val, at : Sound(store, BucketsOf(index), val, at) /\ Agreed(index, held, val)
    BY <1>1 DEF IsLaidOut
  <1>3. store' = NoCurrent(FlushBucket(store)) /\ held' = held /\ index' = index
    BY DEF Resync
  <1>4. Sound(store', BucketsOf(index), val, at)
    BY <1>2, <1>3, ResyncSound
  <1>5. IsLaidOut(store', index, held)
    BY <1>1, <1>2, <1>4 DEF IsLaidOut
  <1> QED BY <1>3, <1>5 DEF IInv

LEMMA AddRowLaidOut ==
    ASSUME IInv, AddRow
    PROVE  IInv'
  <1> DEFINE n == Len(index)
  <1>1. IsLaidOut(store, index, held)
    BY DEF IInv
  <1>2. PICK val, at : Sound(store, BucketsOf(index), val, at) /\ Agreed(index, held, val)
    BY <1>1 DEF IsLaidOut
  <1>3. IndexOk(index) /\ HeldOk(index, held)
    BY <1>1 DEF IsLaidOut
  <1>4. held' = Append(held, NoRow)
    BY DEF AddRow, NoRow
  <1>5. n \in Nat /\ RowsIn(index) \in Nat
    BY <1>3, RowsInIs
  <1>6. CASE index # <<>> /\ NrRow - FirstRow(n) < RowsPerBucket
    <2>1. store' = store /\ index' = [index EXCEPT ![n].last = @ + 1]
      BY <1>6 DEF AddRow
    <2>2. n > 0
      <3>1. index \in Seq(IndexEntry)
        BY <1>3 DEF IndexOk
      <3>2. n # 0
        BY <1>6, <3>1
      <3> QED BY <1>5, <3>2
    <2>3. CountIn(index, n) < RowsPerBucket
      <3>1. RowsIn(index) = index[n].last + 1
        BY <1>6 DEF RowsIn
      <3>2. index[n].last \in Nat /\ FirstIn(index, n) \in Nat
        BY <1>3, <1>5, <2>2, EntryIs
      <3>3. RowsIn(index) - FirstIn(index, n) < RowsPerBucket
        BY <1>6, NamesAre
      <3>4. CountIn(index, n) = RowsIn(index) - FirstIn(index, n)
        BY <3>1, <3>2 DEF CountIn
      <3> QED BY <3>3, <3>4
    <2>4. Grows(index, index')
      BY <2>1, <2>2, <2>3 DEF Grows
    <2>5. Agreed(index', held', val) /\ HeldOk(index', held')
      BY <1>2, <1>3, <1>4, <2>4, GrowAgreed
    <2>6. IndexOk(index') /\ BucketsOf(index') = BucketsOf(index)
      BY <1>3, <2>4, GrowsIs
    <2>7. Sound(store', BucketsOf(index'), val, at)
      BY <1>2, <2>1, <2>6
    <2>8. IsLaidOut(store', index', held')
      BY <2>5, <2>6, <2>7 DEF IsLaidOut
    <2> QED BY <2>8 DEF IInv
  <1>7. CASE ~(index # <<>> /\ NrRow - FirstRow(n) < RowsPerBucket)
    <2> DEFINE b == LeastFree(store)
    <2>1. /\ store' = WithBucket(store, b)
          /\ index' = Append(index, [last |-> RowsIn(index), bucket |-> b])
      BY <1>7, NamesAre DEF AddRow
    <2>2. b \in Nat /\ b \notin BucketsOf(index)
      <3>1. State(store, BucketsOf(index), at, UnitsOf(val))
        BY <1>2 DEF Sound
      <3>2. Handler(store, BucketsOf(index))
        BY <3>1, StateIs
      <3> QED BY <3>2, LeastFreeIs DEF Handler
    <2>3. PICK at2 : Sound(WithBucket(store, b), BucketsOf(index) \cup {b},
                           ValWith(val, BucketsOf(index), b), at2)
      BY <1>2, AddSound
    <2> HIDE DEF b
    <2>4. Starts(index, index', b)
      BY <2>1, <2>2 DEF Starts
    <2> DEFINE val2 == ValWith(val, BucketsOf(index), b)
    <2>5. Agreed(index', held', val2) /\ HeldOk(index', held')
      BY <1>2, <1>3, <1>4, <2>4, StartAgreed
    <2>6. IndexOk(index') /\ BucketsOf(index') = BucketsOf(index) \cup {b}
      BY <1>3, <2>4, StartsIs
    <2> HIDE DEF val2
    <2>7. Sound(store', BucketsOf(index'), val2, at2)
      BY <2>1, <2>3, <2>6 DEF val2
    <2>8. IsLaidOut(store', index', held')
      BY <2>5, <2>6, <2>7 DEF IsLaidOut
    <2> QED BY <2>8 DEF IInv
  <1> QED BY <1>6, <1>7

-----------------------------------------------------------------------------
(* A row is removed.                                                         *)

\* The columns are gone through.
LEMMA RowRuns ==
    ASSUME NEW row,
           RemoveRow(row),
           Len(SetToSeq(Columns)) \in Nat
    PROVE  \E after :
            /\ after[0] = store
            /\ \A k \in 1..(Len(SetToSeq(Columns))) : after[k] = DeletedFrom(after[k - 1], row, SetToSeq(Columns)[k])
            /\ store' = IF NrRow = 1 THEN NewStore
                ELSE IF FirstRow(EntryOf(row)) = index[EntryOf(row)].last
                THEN WithoutBucket(after[Len(SetToSeq(Columns))], index[EntryOf(row)].bucket)
                ELSE after[Len(SetToSeq(Columns))]
  <1> DEFINE n == Len(SetToSeq(Columns))
             start == store
             step(q, k) == DeletedFrom(q, row, SetToSeq(Columns)[k])
             turns(f, j) == [k \in 0..j |-> IF k = 0 THEN start ELSE step(f[k - 1], k)]
             T == {j \in Nat : \E f : f = turns(f, j)}
             after == CHOOSE f : f = turns(f, n)
  <1>1. store' = IF NrRow = 1 THEN NewStore
                ELSE IF FirstRow(EntryOf(row)) = index[EntryOf(row)].last
                THEN WithoutBucket(after[Len(SetToSeq(Columns))], index[EntryOf(row)].bucket)
                ELSE after[Len(SetToSeq(Columns))]
    BY DEF RemoveRow
  <1>2. n \in Nat
    OBVIOUS
  <1> HIDE DEF n, start, step, after
  <1>3. 0 \in T
    <2>1. turns([k \in 0..0 |-> start], 0) = [k \in 0..0 |-> start]
      OBVIOUS
    <2> QED BY <2>1
  <1>4. ASSUME NEW j \in Nat, j \in T
        PROVE  j + 1 \in T
    <2>1. PICK f : f = turns(f, j)
      BY <1>4
    <2> DEFINE g == turns(f, j + 1)
               h == turns(g, j + 1)
    <2>2. ASSUME NEW k \in 0..(j + 1)
          PROVE  g[k] = h[k]
      <3>1. CASE k = 0
        BY <3>1
      <3>2. CASE k # 0
        <4>1. k - 1 \in 0..j
          BY <3>2
        <4> DEFINE i == k - 1
        <4>2. i \in 0..j /\ i \in 0..(j + 1) /\ k # 0
          BY <3>2, <4>1
        <4>3. g[k] = step(f[i], k) /\ h[k] = step(g[i], k)
          BY <3>2
        <4> HIDE DEF i, h
        <4>4. g[i] = f[i]
          BY <2>1, <4>2
        <4> QED BY <4>3, <4>4
      <3> QED BY <3>1, <3>2
    <2>3. g = [k \in 0..(j + 1) |-> g[k]] /\ h = [k \in 0..(j + 1) |-> h[k]]
      OBVIOUS
    <2> HIDE DEF g
    <2>4. h = turns(g, j + 1)
      OBVIOUS
    <2> HIDE DEF h
    <2>5. g = h
      BY <2>2, <2>3
    <2>6. g = turns(g, j + 1)
      BY <2>4, <2>5
    <2> QED BY <2>6
  <1>5. n \in T
    <2> HIDE DEF T
    <2> QED BY <1>2, <1>3, <1>4, Induction
  <1>6. after = turns(after, n)
    <2>1. \E f : f = turns(f, n)
      BY <1>5
    <2> QED BY <2>1 DEF after
  <1>7. after[0] = start /\ \A k \in 1..n : after[k] = step(after[k - 1], k)
    BY <1>2, <1>6
  <1> QED BY <1>1, <1>7 DEF n, start, step

\* Where the row is, and the last one of its bucket.
RowAt(ix, row, i, b, p, e) ==
    /\ i = EntryIn(ix, row) /\ b = BucketIn(ix, row) /\ p = PlaceIn(ix, row)
    /\ e = CountIn(ix, i)

LEMMA RowAtIs ==
    ASSUME NEW ix, IndexOk(ix), NEW row \in 0..(RowsIn(ix) - 1),
           NEW i, NEW b, NEW p, NEW e, RowAt(ix, row, i, b, p, e)
    PROVE  /\ IsSpan(BucketsOf(ix), b, p, e) /\ IsIn(ix, i, row)
           /\ p = row - FirstIn(ix, i) + 1 /\ b = ix[i].bucket
           /\ e = PlaceIn(ix, ix[i].last)
           /\ p < e <=> row < ix[i].last
           /\ i \in 1..Len(ix) /\ p \in Nat /\ e \in Nat
  <1>1. /\ i \in 1..Len(ix) /\ row \in Nat /\ b \in BucketsOf(ix) /\ p \in 1..e
        /\ p \in 1..RowsPerBucket /\ FirstIn(ix, i) + p = row + 1
    BY RowPlaceIs DEF RowAt
  <1>2. IsIn(ix, i, row)
    BY EntryInIs DEF RowAt
  <1>3. /\ FirstIn(ix, i) \in Nat /\ ix[i].last \in Nat /\ e \in 1..RowsPerBucket
        /\ FirstIn(ix, i) + e = ix[i].last + 1
    BY <1>1, EntryIs DEF RowAt
  <1>4. e = PlaceIn(ix, ix[i].last)
    <2>1. FirstIn(ix, i) + e - 1 = ix[i].last /\ e \in 1..CountIn(ix, i)
      BY <1>3 DEF RowAt
    <2>2. PlaceIn(ix, FirstIn(ix, i) + e - 1) = e
      BY <1>1, <2>1, PlaceRow
    <2> QED BY <2>1, <2>2
  <1>5. IsSpan(BucketsOf(ix), b, p, e)
    BY <1>1, <1>3 DEF IsSpan
  <1>6. p = row - FirstIn(ix, i) + 1 /\ (p < e <=> row < ix[i].last) /\ p \in Nat /\ e \in Nat
    BY SMTT(40), <1>1, <1>3
  <1>7. b = ix[i].bucket
    BY DEF RowAt, BucketIn
  <1> QED BY <1>1, <1>2, <1>4, <1>5, <1>6, <1>7

LEMMA DeletedIs ==
    ASSUME IndexOk(index), NEW row \in 0..(RowsIn(index) - 1),
           NEW i, NEW b, NEW p, NEW e, RowAt(index, row, i, b, p, e), NEW s, NEW c
    PROVE  DeletedFrom(s, row, c) = GoneFrom(s, b, p, e, c)
  <1>1. /\ EntryOf(row) = i /\ index[EntryOf(row)].bucket = b /\ PlaceOf(row) = p
        /\ CellOf(s, row, c) = Cell(s, <<b, p, c>>)
    BY NamesAre DEF RowAt, RowKey
  <1>2. PlaceOf(index[EntryOf(row)].last) = e
    BY <1>1, NamesAre, RowAtIs
  <1>3. PlacesFrom(row) = p..e
    BY <1>1, <1>2 DEF PlacesFrom
  <1>4. p < e <=> row < index[EntryOf(row)].last
    BY <1>1, RowAtIs
  <1>5. ASSUME NEW t
        PROVE  Shifted(t, row, c) = Moved(t, b, p, e, c)
    BY <1>1, <1>2, <1>3 DEF Shifted, Moved, MovedCells
  <1> QED BY <1>1, <1>4, <1>5 DEF DeletedFrom, GoneFrom

LEMMA NothingThere ==
    ASSUME NEW s, NEW D, NEW val, NEW at, Sound(s, D, val, at), NEW x \in Keys(D),
           x[3] \in Arrays, Cell(s, x) = EmptyCell
    PROVE  val[x] = Nothing
  <1>1. Fits(EmptyCell, val[x], x[3], at[x])
    BY DEF Sound
  <1>2. ~IsLong(EmptyCell)
    BY StringBucketsAssumption DEF IsLong, EmptyCell
  <1>3. val[x] = EmptyCell.text \/ val[x] = Nothing
    BY <1>1, <1>2 DEF Fits
  <1> QED BY <1>3 DEF EmptyCell

\* What RemoveRow does, in terms of the index.
RowRemoved(s, ix, h, i, row, t, ix2, h2, deleted) ==
    /\ h2 = RemoveAt(h, row + 1)
    /\ IF FirstIn(ix, i) = ix[i].last
       THEN /\ ix2 = RemoveAt(LessEntries(ix, i), i)
            /\ t = IF RowsIn(ix) = 1 THEN NewStore ELSE WithoutBucket(deleted, ix[i].bucket)
       ELSE /\ ix2 = LessEntries(ix, i)
            /\ t = IF RowsIn(ix) = 1 THEN NewStore ELSE deleted

LEMMA RowRemovedIs ==
    ASSUME IndexOk(index), NEW row \in 0..(RowsIn(index) - 1), RemoveRow(row),
           NEW i, NEW b, NEW p, NEW e, RowAt(index, row, i, b, p, e)
    PROVE  \E after :
            /\ GoneTurns(after, SetToSeq(Columns), store, b, p, e)
            /\ RowRemoved(store, index, held, i, row, store', index', held',
                          after[Len(SetToSeq(Columns))])
  <1>1. Listed(SetToSeq(Columns))
    BY ColumnsListed
  <1> DEFINE cs == SetToSeq(Columns)
  <1>2. Len(cs) \in Nat
    BY <1>1 DEF Listed
  <1>3. /\ EntryOf(row) = i /\ index[i].bucket = b /\ NrRow = RowsIn(index)
        /\ FirstRow(i) = FirstIn(index, i)
    BY NamesAre DEF RowAt, BucketIn
  <1>4. PICK after :
            /\ after[0] = store
            /\ \A k \in 1..Len(cs) : after[k] = DeletedFrom(after[k - 1], row, cs[k])
            /\ store' = IF NrRow = 1 THEN NewStore
                        ELSE IF FirstRow(EntryOf(row)) = index[EntryOf(row)].last
                        THEN WithoutBucket(after[Len(cs)], index[EntryOf(row)].bucket)
                        ELSE after[Len(cs)]
    BY <1>2, RowRuns
  <1>5. /\ held' = RemoveAt(held, row + 1)
        /\ index' = IF FirstRow(EntryOf(row)) = index[EntryOf(row)].last
                    THEN RemoveAt(LessEntries(index, EntryOf(row)), EntryOf(row))
                    ELSE LessEntries(index, EntryOf(row))
    BY DEF RemoveRow, LessEntries
  <1> HIDE DEF cs
  <1>6. GoneTurns(after, cs, store, b, p, e)
    <2>1. ASSUME NEW k \in 1..Len(cs)
          PROVE  after[k] = GoneFrom(after[k - 1], b, p, e, cs[k])
      BY <1>4, DeletedIs
    <2> QED BY <1>4, <2>1 DEF GoneTurns
  <1>7. RowRemoved(store, index, held, i, row, store', index', held', after[Len(cs)])
    BY <1>3, <1>4, <1>5 DEF RowRemoved
  <1> QED BY <1>6, <1>7 DEF cs

\* A bucket without rows: there was one.
LEMMA OneRow ==
    ASSUME NEW ix, IndexOk(ix), NEW h, NEW val, Agreed(ix, h, val),
           NEW row \in 0..(RowsIn(ix) - 1),
           NEW i, NEW b, NEW p, NEW e, RowAt(ix, row, i, b, p, e),
           FirstIn(ix, i) = ix[i].last, DOMAIN val = Keys(BucketsOf(ix)),
           NEW y \in Keys(BucketsOf(ix)), y[1] = b
    PROVE  RowMoved(val, b, p, e)[y] = Nothing
  <1>1. /\ i \in 1..Len(ix) /\ b = ix[i].bucket /\ IsSpan(BucketsOf(ix), b, p, e)
        /\ e = CountIn(ix, i)
    BY RowAtIs DEF RowAt
  <1>2. ix[i].last \in Nat
    BY <1>1, EntryIs
  <1>3. e = 1 /\ p = 1
    <2>1. e = 1
      BY <1>1, <1>2 DEF CountIn
    <2> QED BY <1>1, <2>1 DEF IsSpan
  <1>4. y = <<b, y[2], y[3]>> /\ y[2] \in 1..RowsPerBucket /\ y[3] \in Columns
    BY KeysAre
  <1>5. CASE y[2] = 1
    <2>1. InSpan(y, b, p, e, y[3]) /\ y[2] = e
      BY <1>3, <1>5 DEF InSpan
    <2> QED BY <2>1 DEF RowMoved
  <1>6. CASE y[2] # 1
    <2>1. ~InSpan(y, b, p, e, y[3])
      BY <1>3, <1>6 DEF InSpan
    <2>2. ~(y[2] <= CountIn(ix, i))
      BY <1>1, <1>3, <1>4, <1>6
    <2>3. val[<<ix[i].bucket, y[2], y[3]>>] = Nothing
      BY <1>1, <1>4, <2>2 DEF Agreed
    <2>4. val[y] = Nothing
      BY <1>1, <1>4, <2>3
    <2> QED BY <2>1, <2>4 DEF RowMoved
  <1> QED BY <1>5, <1>6

\* A row of several in its bucket.
LEMMA RemovedFromBucket ==
    ASSUME NEW s, NEW ix, IndexOk(ix), NEW h, HeldOk(ix, h), NEW val, Agreed(ix, h, val),
           DOMAIN val = Keys(BucketsOf(ix)), NEW row \in 0..(RowsIn(ix) - 1),
           NEW i, NEW b, NEW p, NEW e, RowAt(ix, row, i, b, p, e),
           FirstIn(ix, i) # ix[i].last, NEW deleted, NEW at2,
           Sound(deleted, BucketsOf(ix), RowMoved(val, b, p, e), at2),
           NEW t, NEW ix2, NEW h2, RowRemoved(s, ix, h, i, row, t, ix2, h2, deleted)
    PROVE  IsLaidOut(t, ix2, h2)
  <1> DEFINE val2 == RowMoved(val, b, p, e)
             g == [j \in 1..Len(ix) |-> j]
  <1>1. i \in 1..Len(ix) /\ b = ix[i].bucket /\ e = CountIn(ix, i) /\ IsIn(ix, i, row)
        /\ p = row - FirstIn(ix, i) + 1
    BY RowAtIs DEF RowAt
  <1>2. FirstIn(ix, i) < ix[i].last
    <2>1. FirstIn(ix, i) \in Nat /\ ix[i].last \in Nat
      BY <1>1, EntryIs
    <2>2. FirstIn(ix, i) <= ix[i].last
      BY <1>1 DEF IndexOk
    <2> QED BY <2>1, <2>2
  <1>3. ix2 = LessEntries(ix, i) /\ h2 = RemoveAt(h, row + 1)
    BY DEF RowRemoved
  <1>4. t = deleted
    <2>1. FirstIn(ix, i) \in Nat /\ ix[i].last \in Nat /\ RowsIn(ix) \in Nat
      BY <1>1, EntryIs, RowsInIs
    <2>2. ix[i].last < RowsIn(ix)
      BY <1>1, RowsInIs
    <2>3. RowsIn(ix) # 1
      BY <1>2, <2>1, <2>2
    <2> QED BY <2>3 DEF RowRemoved
  <1>5. IndexOk(ix2) /\ BucketsOf(ix2) = BucketsOf(ix) /\ LessRows(ix, ix2, i, g)
    BY <1>1, <1>2, <1>3, LessIs
  <1>6. TakenOut(ix, ix2, i, row, h, h2, val, val2)
    BY <1>1, <1>3 DEF TakenOut
  <1> HIDE DEF g, val2
  <1>7. Agreed(ix2, h2, val2) /\ HeldOk(ix2, h2)
    BY <1>5, <1>6, LessAgreed
  <1>8. Sound(t, BucketsOf(ix2), val2, at2)
    BY <1>4, <1>5 DEF val2
  <1> QED BY <1>5, <1>7, <1>8 DEF IsLaidOut

\* The only row of its bucket, which is given back; all are when there is no other row.
LEMMA RemovedWithBucket ==
    ASSUME NEW s, NEW ix, IndexOk(ix), NEW h, HeldOk(ix, h), NEW val, Agreed(ix, h, val),
           DOMAIN val = Keys(BucketsOf(ix)), NEW row \in 0..(RowsIn(ix) - 1),
           NEW i, NEW b, NEW p, NEW e, RowAt(ix, row, i, b, p, e),
           FirstIn(ix, i) = ix[i].last, NEW deleted, NEW at2,
           Sound(deleted, BucketsOf(ix), RowMoved(val, b, p, e), at2),
           NEW t, NEW ix2, NEW h2, RowRemoved(s, ix, h, i, row, t, ix2, h2, deleted)
    PROVE  IsLaidOut(t, ix2, h2)
  <1> DEFINE D == BucketsOf(ix)
             val1 == RowMoved(val, b, p, e)
             val2 == ValWithout(val1, D, b)
             g == [j \in 1..Len(ix2) |-> Skips(i, j)]
  <1>1. i \in 1..Len(ix) /\ b = ix[i].bucket /\ e = CountIn(ix, i) /\ IsIn(ix, i, row)
        /\ p = row - FirstIn(ix, i) + 1 /\ b \in D
    BY RowAtIs DEF RowAt, IsSpan
  <1>2. ix2 = RemoveAt(LessEntries(ix, i), i) /\ h2 = RemoveAt(h, row + 1)
    BY DEF RowRemoved
  <1>3. t = IF RowsIn(ix) = 1 THEN NewStore ELSE WithoutBucket(deleted, b)
    BY <1>1 DEF RowRemoved
  <1>4. IndexOk(ix2) /\ BucketsOf(ix2) = D \ {b} /\ LessRows(ix, ix2, i, g)
    BY <1>1, <1>2, LessBucketIs
  <1>5. TakenOut(ix, ix2, i, row, h, h2, val, val2)
    <2>1. ASSUME NEW j \in 1..Len(ix2), NEW q \in 1..RowsPerBucket, NEW c \in Columns
          PROVE  val2[<<ix2[j].bucket, q, c>>] = val1[<<ix2[j].bucket, q, c>>]
      <3>1. ix2[j].bucket \in D \ {b}
        BY <1>4, EntryIs
      <3>2. <<ix2[j].bucket, q, c>> \in Keys(D \ {b})
        BY <3>1, KeyIs
      <3> QED BY <3>2 DEF ValWithout
    <2> HIDE DEF val2
    <2>2. \A j \in 1..Len(ix2) : \A q \in 1..RowsPerBucket : \A c \in Columns :
            val2[<<ix2[j].bucket, q, c>>] =
                RowMoved(val, ix[i].bucket, row - FirstIn(ix, i) + 1, CountIn(ix, i))
                    [<<ix2[j].bucket, q, c>>]
      BY <1>1, <2>1
    <2> QED BY <1>1, <1>2, <2>2 DEF TakenOut
  <1>6. Agreed(ix2, h2, val2) /\ HeldOk(ix2, h2)
    <2> HIDE DEF g, val2
    <2> QED BY <1>4, <1>5, LessAgreed
  <1>7. CASE RowsIn(ix) = 1
    <2>1. RowsIn(ix2) = 0
      BY <1>4, <1>7 DEF LessRows
    <2>2. DOMAIN ix2 = {}
      <3>1. \A j \in 1..Len(ix2) : ix2[j].last < 0 /\ ix2[j].last \in Nat
        BY <1>4, <2>1, RowsInIs, EntryIs
      <3>2. DOMAIN ix2 = 1..Len(ix2)
        BY <1>4, RowsInIs
      <3> QED BY <3>1, <3>2
    <2>3. BucketsOf(ix2) = {}
      BY <2>2 DEF BucketsOf
    <2>4. DOMAIN val2 = {}
      BY <1>4, <2>3 DEF ValWithout, Keys
    <2> HIDE DEF val2
    <2>5. Sound(t, BucketsOf(ix2), val2, val2)
      BY <1>3, <1>7, <2>3, <2>4, NewSound
    <2> QED BY <1>4, <1>6, <2>5 DEF IsLaidOut
  <1>8. CASE RowsIn(ix) # 1
    <2>1. \A y \in Keys(D) : y[1] = b => val1[y] = Nothing
      BY OneRow
    <2> HIDE DEF val1
    <2>2. \E at3 : Sound(WithoutBucket(deleted, b), D \ {b}, ValWithout(val1, D, b), at3)
      BY <1>1, <2>1, DropSound DEF val1
    <2>3. \E at3 : Sound(t, BucketsOf(ix2), val2, at3)
      BY <1>3, <1>4, <1>8, <2>2
    <2> HIDE DEF val2
    <2> QED BY <1>4, <1>6, <2>3 DEF IsLaidOut
  <1> QED BY <1>7, <1>8

LEMMA RemoveRowLaidOut ==
    ASSUME IInv, ArrayRowsStay, NEW row \in Rows, RemoveRow(row)
    PROVE  IInv'
  <1> DEFINE D == BucketsOf(index)
             i == EntryIn(index, row)
             b == BucketIn(index, row)
             p == PlaceIn(index, row)
             e == CountIn(index, i)
             cs == SetToSeq(Columns)
  <1>1. IsLaidOut(store, index, held)
    BY DEF IInv
  <1>2. IndexOk(index) /\ HeldOk(index, held) /\ row \in 0..(RowsIn(index) - 1)
    BY <1>1, NamesAre DEF IsLaidOut, Rows
  <1>3. PICK val, at : Sound(store, D, val, at) /\ Agreed(index, held, val)
    BY <1>1 DEF IsLaidOut
  <1>4. RowAt(index, row, i, b, p, e)
    BY DEF RowAt
  <1>5. ASSUME NEW c \in Arrays
        PROVE  val[<<b, p, c>>] = Nothing
    <2>1. c \in Columns
      BY DEF Columns
    <2>2. CellOf(store, row, c) = EmptyCell
      BY DEF RemoveRow
    <2>3. RowKey(index, row, c) \in Keys(D) /\ RowKey(index, row, c)[3] \in Arrays
      BY <1>1, <2>1, RowsAre
    <2>4. Cell(store, RowKey(index, row, c)) = EmptyCell
      BY <2>2, NamesAre
    <2>5. val[RowKey(index, row, c)] = Nothing
      BY <1>3, <2>3, <2>4, NothingThere
    <2> QED BY <2>5 DEF RowKey
  <1> HIDE DEF i, b, p, e
  <1>6. PICK after : /\ GoneTurns(after, cs, store, b, p, e)
                     /\ RowRemoved(store, index, held, i, row, store', index', held',
                                   after[Len(cs)])
    BY <1>2, <1>4, RowRemovedIs
  <1>7. Listed(cs)
    BY ColumnsListed
  <1>8. IsSpan(D, b, p, e) /\ i \in 1..Len(index)
    BY <1>2, <1>4, RowAtIs
  <1> HIDE DEF cs
  <1>9. PICK at2 : Sound(after[Len(cs)], D, RowMoved(val, b, p, e), at2)
    BY <1>3, <1>5, <1>6, <1>7, <1>8, RowGone
  <1>10. DOMAIN val = Keys(D)
    BY <1>3 DEF Sound
  <1>11. IsLaidOut(store', index', held')
    BY <1>2, <1>3, <1>4, <1>6, <1>9, <1>10, RemovedFromBucket, RemovedWithBucket
  <1> QED BY <1>11 DEF IInv

-----------------------------------------------------------------------------
(* A column is renewed.                                                      *)

\* The rows are gone through.
LEMMA ColumnRuns ==
    ASSUME NEW c,
           RenewColumn(c),
           NrRow \in Nat
    PROVE  \E after :
            /\ after[0] = store
            /\ \A k \in 1..(NrRow) : after[k] = IF IsLong(CellOf(store, k - 1, c))
                      THEN RemoveCell(after[k - 1], CellOf(store, k - 1, c)) ELSE after[k - 1]
            /\ store' = Cleared(after[NrRow], c)
  <1> DEFINE n == NrRow
             start == store
             step(q, k) == IF IsLong(CellOf(store, k - 1, c))
                      THEN RemoveCell(q, CellOf(store, k - 1, c)) ELSE q
             turns(f, j) == [k \in 0..j |-> IF k = 0 THEN start ELSE step(f[k - 1], k)]
             T == {j \in Nat : \E f : f = turns(f, j)}
             after == CHOOSE f : f = turns(f, n)
  <1>1. store' = Cleared(after[NrRow], c)
    BY DEF RenewColumn
  <1>2. n \in Nat
    OBVIOUS
  <1> HIDE DEF n, start, step, after
  <1>3. 0 \in T
    <2>1. turns([k \in 0..0 |-> start], 0) = [k \in 0..0 |-> start]
      OBVIOUS
    <2> QED BY <2>1
  <1>4. ASSUME NEW j \in Nat, j \in T
        PROVE  j + 1 \in T
    <2>1. PICK f : f = turns(f, j)
      BY <1>4
    <2> DEFINE g == turns(f, j + 1)
               h == turns(g, j + 1)
    <2>2. ASSUME NEW k \in 0..(j + 1)
          PROVE  g[k] = h[k]
      <3>1. CASE k = 0
        BY <3>1
      <3>2. CASE k # 0
        <4>1. k - 1 \in 0..j
          BY <3>2
        <4> DEFINE i == k - 1
        <4>2. i \in 0..j /\ i \in 0..(j + 1) /\ k # 0
          BY <3>2, <4>1
        <4>3. g[k] = step(f[i], k) /\ h[k] = step(g[i], k)
          BY <3>2
        <4> HIDE DEF i, h
        <4>4. g[i] = f[i]
          BY <2>1, <4>2
        <4> QED BY <4>3, <4>4
      <3> QED BY <3>1, <3>2
    <2>3. g = [k \in 0..(j + 1) |-> g[k]] /\ h = [k \in 0..(j + 1) |-> h[k]]
      OBVIOUS
    <2> HIDE DEF g
    <2>4. h = turns(g, j + 1)
      OBVIOUS
    <2> HIDE DEF h
    <2>5. g = h
      BY <2>2, <2>3
    <2>6. g = turns(g, j + 1)
      BY <2>4, <2>5
    <2> QED BY <2>6
  <1>5. n \in T
    <2> HIDE DEF T
    <2> QED BY <1>2, <1>3, <1>4, Induction
  <1>6. after = turns(after, n)
    <2>1. \E f : f = turns(f, n)
      BY <1>5
    <2> QED BY <2>1 DEF after
  <1>7. after[0] = start /\ \A k \in 1..n : after[k] = step(after[k - 1], k)
    BY <1>2, <1>6
  <1> QED BY <1>1, <1>7 DEF n, start, step

\* The keys of the rows in a column.
RowKeys(ix, c) == [k \in 1..RowsIn(ix) |-> RowKey(ix, k - 1, c)]

LEMMA RowKeysAre ==
    ASSUME NEW ix, IndexOk(ix), NEW c \in Columns
    PROVE  /\ IsKeys(RowKeys(ix, c), RowsIn(ix), BucketsOf(ix))
           /\ \A k \in 1..RowsIn(ix) : RowKeys(ix, c)[k] = RowKey(ix, k - 1, c)
                                       /\ k - 1 \in 0..(RowsIn(ix) - 1)
           /\ RowsIn(ix) \in Nat
  <1> DEFINE n == RowsIn(ix)
             key == RowKeys(ix, c)
  <1>1. n \in Nat
    BY RowsInIs
  <1>2. ASSUME NEW k \in 1..n
        PROVE  key[k] = RowKey(ix, k - 1, c) /\ k - 1 \in 0..(n - 1)
    BY <1>1 DEF RowKeys
  <1> HIDE DEF key
  <1>3. ASSUME NEW k \in 1..n
        PROVE  /\ key[k] \in Keys(BucketsOf(ix)) /\ key[k][1] = BucketIn(ix, k - 1)
               /\ key[k][2] = PlaceIn(ix, k - 1)
    BY <1>2, RowKeyIs
  <1>4. ASSUME NEW j \in 1..n, NEW k \in 1..n, key[j] = key[k]
        PROVE  j = k
    <2>1. BucketIn(ix, j - 1) = BucketIn(ix, k - 1) /\ PlaceIn(ix, j - 1) = PlaceIn(ix, k - 1)
      BY <1>3, <1>4
    <2>2. j - 1 = k - 1
      BY <1>2, <2>1, RowKeysApart
    <2> QED BY <1>1, <2>2
  <1>5. IsKeys(key, n, BucketsOf(ix))
    BY <1>1, <1>3, <1>4 DEF IsKeys
  <1> QED BY <1>1, <1>2, <1>5 DEF key

LEMMA RowKeyIn ==
    ASSUME NEW ix, IndexOk(ix), NEW c \in Columns, NEW row \in 0..(RowsIn(ix) - 1)
    PROVE  RowKey(ix, row, c) \in {RowKeys(ix, c)[k] : k \in 1..RowsIn(ix)}
  <1>1. RowsIn(ix) \in Nat
    BY RowsInIs
  <1> DEFINE k == row + 1
  <1>2. k \in 1..RowsIn(ix) /\ k - 1 = row
    BY <1>1
  <1> HIDE DEF k
  <1>3. RowKeys(ix, c)[k] = RowKey(ix, row, c)
    BY <1>2, RowKeysAre
  <1> QED BY <1>2, <1>3

LEMMA ClearedIs ==
    ASSUME IndexOk(index), NEW c \in Columns, NEW s, NEW at, NEW un,
           State(s, BucketsOf(index), at, un)
    PROVE  IsCleared(s, Cleared(s, c), BucketsOf(index),
                     {RowKeys(index, c)[k] : k \in 1..RowsIn(index)}, c)
  <1> DEFINE D == BucketsOf(index)
             K == {RowKeys(index, c)[k] : k \in 1..RowsIn(index)}
             cells(b) == [p \in 1..RowsPerBucket |->
                            IF HoldsRow(b, p) THEN [s.file[b].cells[p] EXCEPT ![c] = EmptyCell]
                            ELSE s.file[b].cells[p]]
             f == [b \in DOMAIN s.file |-> [s.file[b] EXCEPT !.cells = cells(b)]]
             t == Cleared(s, c)
  <1>1. s \in StoreValue /\ D \subseteq DOMAIN s.file
    BY StateIs DEF Handler
  <1>2. t = [s EXCEPT !.file = f]
    BY DEF Cleared
  <1>3. t.file = f
    BY <1>1, <1>2 DEF StoreValue
  <1>4. ASSUME NEW b \in DOMAIN s.file
        PROVE  /\ f[b] \in BucketValue /\ Part(f[b]) = Part(s.file[b])
               /\ \A p \in 1..RowsPerBucket, d \in Columns :
                    f[b].cells[p][d] = IF HoldsRow(b, p) /\ d = c THEN EmptyCell
                                       ELSE s.file[b].cells[p][d]
    <2>1. s.file[b] \in BucketValue
      BY <1>1, FileIs
    <2>2. s.file[b].cells \in CellsValue
      BY <2>1 DEF BucketValue
    <2>3. ASSUME NEW p \in 1..RowsPerBucket
          PROVE  /\ cells(b)[p] \in [Columns -> CellValue]
                 /\ \A d \in Columns : cells(b)[p][d] =
                        IF HoldsRow(b, p) /\ d = c THEN EmptyCell ELSE s.file[b].cells[p][d]
      <3>1. s.file[b].cells[p] \in [Columns -> CellValue]
        BY <2>2 DEF CellsValue
      <3> QED BY <3>1, EmptyCellIs
    <2>4. cells(b) \in CellsValue
      BY <2>3 DEF CellsValue
    <2>5. f[b] = [s.file[b] EXCEPT !.cells = cells(b)]
      OBVIOUS
    <2> HIDE DEF cells, f
    <2>6. ASSUME NEW x \in BucketValue, NEW y, NEW z \in CellsValue, y = [x EXCEPT !.cells = z]
          PROVE  y \in BucketValue /\ Part(y) = Part(x) /\ y.cells = z
      BY <2>6 DEF BucketValue, Part
    <2>7. f[b] \in BucketValue /\ Part(f[b]) = Part(s.file[b]) /\ f[b].cells = cells(b)
      BY <2>1, <2>4, <2>5, <2>6
    <2> QED BY <2>3, <2>7
  <1>5. f \in [DOMAIN s.file -> BucketValue]
    <2>1. f = [b \in DOMAIN s.file |-> f[b]]
      OBVIOUS
    <2> HIDE DEF f
    <2> QED BY <1>4, <2>1
  <1> HIDE DEF f
  <1>6. NewFile(s, t, D, f)
    BY <1>2, <1>4, <1>5 DEF NewFile
  <1>7. ASSUME NEW y \in Keys(D)
        PROVE  Cell(t, y) = IF y \in K /\ y[3] = c THEN EmptyCell ELSE Cell(s, y)
    <2>1. /\ y[1] \in D /\ y[1] \in DOMAIN s.file /\ y[2] \in 1..RowsPerBucket
          /\ y[3] \in Columns /\ y = <<y[1], y[2], y[3]>>
      BY <1>1, KeysAre
    <2>2. Cell(t, y) = IF HoldsRow(y[1], y[2]) /\ y[3] = c THEN EmptyCell ELSE Cell(s, y)
      BY <1>3, <1>4, <2>1 DEF Cell
    <2>3. ASSUME HoldsRow(y[1], y[2]), y[3] = c
          PROVE  y \in K
      <3>1. PICK row \in Rows : index[EntryOf(row)].bucket = y[1] /\ PlaceOf(row) = y[2]
        BY <2>3 DEF HoldsRow
      <3>2. y = RowKey(index, row, c)
        BY <2>1, <2>3, <3>1, NamesAre DEF RowKey
      <3>3. row \in 0..(RowsIn(index) - 1)
        BY NamesAre DEF Rows
      <3> HIDE DEF K
      <3>4. RowKey(index, row, c) \in K
        BY <3>3, RowKeyIn DEF K
      <3> QED BY <3>2, <3>4
    <2>4. ASSUME y \in K
          PROVE  HoldsRow(y[1], y[2])
      <3>1. PICK k \in 1..RowsIn(index) : y = RowKeys(index, c)[k]
        BY <2>4
      <3>2. y = RowKey(index, k - 1, c) /\ k - 1 \in 0..(RowsIn(index) - 1)
        BY <3>1, RowKeysAre
      <3> DEFINE row == k - 1
      <3>3. row \in Rows
        BY <3>2, NamesAre DEF Rows
      <3> HIDE DEF row
      <3>4. y = RowKey(index, row, c)
        BY <3>2 DEF row
      <3>5. index[EntryOf(row)].bucket = y[1] /\ PlaceOf(row) = y[2]
        BY <3>4, NamesAre DEF RowKey
      <3> QED BY <3>3, <3>5 DEF HoldsRow
    <2> QED BY <2>2, <2>3, <2>4
  <1> HIDE DEF t, K
  <1>8. IsCleared(s, t, D, K, c)
    BY <1>6, <1>7 DEF IsCleared
  <1> QED BY <1>8 DEF t, K

LEMMA RenewColumnLaidOut ==
    ASSUME IInv, NEW c \in Columns, RenewColumn(c)
    PROVE  IInv'
  <1> DEFINE D == BucketsOf(index)
             n == RowsIn(index)
             key == RowKeys(index, c)
             K == {key[k] : k \in 1..n}
  <1>1. IsLaidOut(store, index, held)
    BY DEF IInv
  <1>2. IndexOk(index) /\ HeldOk(index, held)
    BY <1>1 DEF IsLaidOut
  <1>3. PICK val, at : Sound(store, D, val, at) /\ Agreed(index, held, val)
    BY <1>1 DEF IsLaidOut
  <1>4. NrRow = n /\ n \in Nat
    BY <1>2, NamesAre, RowsInIs
  <1>5. PICK after :
            /\ after[0] = store
            /\ \A k \in 1..n : after[k] =
                IF IsLong(CellOf(store, k - 1, c))
                THEN RemoveCell(after[k - 1], CellOf(store, k - 1, c)) ELSE after[k - 1]
            /\ store' = Cleared(after[n], c)
    BY <1>4, ColumnRuns
  <1>6. IsKeys(key, n, D)
    BY <1>2, RowKeysAre
  <1>7. RenewTurns(after, store, n, key)
    <2>1. ASSUME NEW k \in 1..n
          PROVE  CellOf(store, k - 1, c) = Cell(store, key[k])
      <3>1. key[k] = RowKey(index, k - 1, c)
        BY <1>2, RowKeysAre
      <3> QED BY <3>1, NamesAre
    <2> HIDE DEF key
    <2> QED BY <1>5, <2>1 DEF RenewTurns
  <1>8. PICK a : RenewAt(after[n], a, store, D, at, UnitsOf(val), key, n)
    BY <1>3, <1>6, <1>7, RenewAll
  <1>9. State(after[n], D, a, UnitsOf(val))
    BY <1>8 DEF RenewAt
  <1>10. IsCleared(after[n], store', D, K, c)
    BY <1>2, <1>5, <1>9, ClearedIs
  <1>11. ASSUME NEW y \in Keys(D), y[3] = c, y \notin K
         PROVE  val[y] = Nothing
    <2>1. SUFFICES ASSUME NEW row \in 0..(RowsIn(index) - 1), y = RowKey(index, row, y[3])
                   PROVE  y \in K
      BY <1>2, <1>3, <1>11, KeyOrNothing
    <2> QED BY <1>2, <1>11, <2>1, RowKeyIn
  <1>12. NothingElse(val, D, K, c)
    BY <1>11 DEF NothingElse
  <1>13. \A y \in K : y[3] = c
    <2>1. ASSUME NEW k \in 1..n
          PROVE  key[k][3] = c
      BY <1>2, RowKeysAre, RowKeyIs
    <2> QED BY <2>1
  <1>14. \E a2 : Sound(store', D, ValRenewed(val, c), a2)
    <2> HIDE DEF key
    <2>1. K = {key[k] : k \in 1..n}
      OBVIOUS
    <2> HIDE DEF K
    <2> QED BY <1>3, <1>6, <1>7, <1>10, <1>12, <1>13, <2>1, RenewSound
  <1>15. held' = Emptied(held, n, c) /\ index' = index
    BY <1>4 DEF RenewColumn, Emptied
  <1>16. DOMAIN val = Keys(D)
    BY <1>3 DEF Sound
  <1>17. Agreed(index, held', ValRenewed(val, c)) /\ HeldOk(index, held')
    BY <1>2, <1>3, <1>15, <1>16, RenewAgreed
  <1>18. IsLaidOut(store', index, held')
    BY <1>2, <1>14, <1>17 DEF IsLaidOut
  <1> QED BY <1>15, <1>18 DEF IInv

LEMMA NextLaidOut ==
    ASSUME IInv, ArrayRowsStay, [Next]_vars
    PROVE  IInv'
  <1>1. CASE AddRow
    BY <1>1, AddRowLaidOut
  <1>2. CASE Resync
    BY <1>2, ResyncLaidOut
  <1>3. CASE \E row \in Rows : RemoveRow(row)
    BY <1>3, RemoveRowLaidOut
  <1>4. CASE \E row \in Rows : \E column \in Columns : Get(row, column)
    BY <1>4, GetLaidOut
  <1>5. CASE \E row \in Rows : \E column \in Scalars : \E value \in Strings :
                PutString(row, column, value)
    BY <1>5, PutStringLaidOut
  <1>6. ASSUME NEW row \in Rows, NEW column \in Arrays, NEW value \in Filled,
               PutArray(row, column, value)
        PROVE  IInv'
    <2>1. value \in ArrayValues
      BY DEF ArrayValues
    <2> DEFINE p == Put(store, CellOf(store, row, column), value)
    <2>2. /\ store' = WithCell(p.store, row, column, p.cell)
          /\ held' = [held EXCEPT ![row + 1][column] = value] /\ index' = index
      BY <1>6 DEF PutArray
    <2>3. p = Put(store, CellOf(store, row, column), value)
      OBVIOUS
    <2> HIDE DEF p
    <2> QED BY <2>1, <2>2, <2>3, PutArrayLaidOut
  <1>7. ASSUME NEW row \in Rows, NEW column \in Arrays, NEW shape \in Shapes,
               SetShape(row, column, shape)
        PROVE  IInv'
    <2>1. shape \in ArrayValues
      BY DEF ArrayValues
    <2> DEFINE p == PutShape(store, CellOf(store, row, column), shape)
    <2>2. /\ store' = WithCell(p.store, row, column, p.cell)
          /\ held' = [held EXCEPT ![row + 1][column] = shape] /\ index' = index
          /\ ShapeOnce => CellOf(store, row, column) = EmptyCell
      BY <1>7 DEF SetShape
    <2>3. p = PutShape(store, CellOf(store, row, column), shape)
      OBVIOUS
    <2> HIDE DEF p
    <2> QED BY <2>1, <2>2, <2>3, PutArrayLaidOut
  <1>8. CASE \E column \in Columns : RenewColumn(column)
    BY <1>8, RenewColumnLaidOut
  <1>9. CASE UNCHANGED vars
    BY <1>9 DEF vars, IInv
  <1> QED BY <1>1, <1>2, <1>3, <1>4, <1>5, <1>6, <1>7, <1>8, <1>9 DEF Next

-----------------------------------------------------------------------------
(* What the invariant says of the cells.                                     *)

LEMMA UnitsApart ==
    ASSUME NEW v \in Values, NEW w \in Values, Units(v) = Units(w)
    PROVE  v = w
  <1>1. Units(v)[1] = <<v, 1>> /\ Units(w)[1] = <<w, 1>>
    BY UnitsAre
  <1> QED BY <1>1

LEMMA ContentIs ==
    ASSUME NEW val, NEW at, Sound(store, BucketsOf(index), val, at),
           NEW row, NEW c \in Columns, NEW x, x = RowKey(index, row, c),
           x \in Keys(BucketsOf(index))
    PROVE  \/ Content(row, c) = val[x]
           \/ val[x] = Nothing /\ Content(row, c) \in Strings /\ Size[Content(row, c)] <= ShortLength
  <1> DEFINE cell == Cell(store, x)
             found == Found(store, cell).units
  <1>1. CellOf(store, row, c) = cell
    BY NamesAre
  <1>2. Content(row, c) =
            IF ~IsLong(cell) THEN cell.text
            ELSE IF \E v \in Values : Units(v) = found
                 THEN CHOOSE v \in Values : Units(v) = found
                 ELSE Garbage
    BY <1>1 DEF Content, Found
  <1>3. Fits(cell, val[x], x[3], at[x])
    BY DEF Sound
  <1>4. CASE ~IsLong(cell)
    <2>1. Content(row, c) = cell.text
      BY <1>2, <1>4
    <2> HIDE DEF cell
    <2> QED BY <1>3, <1>4, <2>1 DEF Fits
  <1>5. CASE IsLong(cell)
    <2>1. found = Units(val[x])
      BY <1>5, FoundIs
    <2>2. val[x] \in Values
      BY <1>5, FitsIs
    <2> HIDE DEF cell, found
    <2> DEFINE w == CHOOSE v \in Values : Units(v) = found
    <2>3. w \in Values /\ Units(w) = found
      BY <2>1, <2>2
    <2>4. Content(row, c) = w
      BY <1>2, <1>5, <2>3
    <2> HIDE DEF w
    <2>5. w = val[x]
      BY <2>1, <2>2, <2>3, UnitsApart
    <2> QED BY <2>4, <2>5
  <1> QED BY <1>4, <1>5

LEMMA LaidOutHolds == IInv => HoldsWhatWasPut
  <1>1. SUFFICES ASSUME IInv, NEW row \in Rows, NEW c \in Columns
                 PROVE  \/ Content(row, c) = held[row + 1][c]
                        \/ /\ held[row + 1][c] = Nothing
                           /\ Content(row, c) \in Strings /\ Size[Content(row, c)] <= ShortLength
    BY DEF HoldsWhatWasPut
  <1>2. IsLaidOut(store, index, held)
    BY <1>1 DEF IInv
  <1>3. PICK val, at : Sound(store, BucketsOf(index), val, at) /\ Agreed(index, held, val)
    BY <1>2 DEF IsLaidOut
  <1>4. IndexOk(index)
    BY <1>2 DEF IsLaidOut
  <1> DEFINE x == RowKey(index, row, c)
  <1>5. x \in Keys(BucketsOf(index)) /\ row \in 0..(RowsIn(index) - 1)
    BY <1>2, RowsAre
  <1>6. val[x] = held[row + 1][c]
    BY <1>3, <1>4, <1>5, HeldAt
  <1> HIDE DEF x
  <1>7. \/ Content(row, c) = val[x]
        \/ val[x] = Nothing /\ Content(row, c) \in Strings /\ Size[Content(row, c)] <= ShortLength
    BY <1>3, <1>5, ContentIs DEF x
  <1> QED BY <1>6, <1>7

-----------------------------------------------------------------------------
(* What it says of the headers.                                              *)

\* Where a cell says that the units are is where they are.
LEMMA ExtentIs ==
    ASSUME NEW D, NEW val, NEW at, Sound(store, D, val, at), NEW x \in Keys(D),
           IsLong(Cell(store, x))
    PROVE  Extent(Cell(store, x)) = {at[x][k] : k \in DOMAIN at[x]}
  <1> DEFINE cell == Cell(store, x)
             V == Views(store, D)
             n == cell.length
             eq(f) == [k \in 1..n |-> IF k = 1 THEN <<cell.bucket, cell.offset>>
                                      ELSE Following(store, f[k - 1])]
             g == [k \in 1..n |-> at[x][k]]
             f == CHOOSE h : h = eq(h)
  <1>1. State(store, D, at, UnitsOf(val))
    BY DEF Sound
  <1>2. /\ x \in DOMAIN at /\ n \in Nat \ {0} /\ DOMAIN at[x] = 1..n
        /\ at[x][1] = <<cell.bucket, cell.offset>>
    BY FitsIs DEF CellAt
  <1>3. PlacesUsed(V, at) /\ Linked(V, at) /\ DOMAIN V = DOMAIN store.file \ D
    BY <1>1, StateIs DEF Laid
  <1>4. Extent(cell) = {f[k] : k \in 1..n}
    BY DEF Extent
  <1> HIDE DEF V, cell, n
  <1>5. ASSUME NEW k \in 1..n, k # 1
        PROVE  at[x][k] = Following(store, at[x][k - 1]) /\ k - 1 \in 1..n
    <2> DEFINE j == k - 1
    <2>1. j \in 1..n /\ j + 1 = k /\ j \in DOMAIN at[x] /\ j + 1 \in DOMAIN at[x]
      BY <1>2, <1>5
    <2> HIDE DEF j
    <2>2. at[x][k] = Follow(V, at[x][j])
      BY <1>2, <1>3, <2>1 DEF Linked
    <2>3. at[x][j][1] \in DOMAIN V
      BY <1>2, <1>3, <2>1 DEF PlacesUsed
    <2> DEFINE b == at[x][j][1]
    <2>4. WithCurrent(store, b).next = V[b].next
      <3>1. Part(WithCurrent(store, b)) = V[b]
        BY <1>1, <1>3, <2>3, WithState DEF V
      <3> HIDE DEF b
      <3> QED BY <3>1, PartIs
    <2>5. Follow(V, at[x][j]) = Following(store, at[x][j])
      BY <2>4 DEF Follow, Following
    <2> QED BY <2>1, <2>2, <2>5 DEF j
  <1>6. g = eq(g)
    <2>1. ASSUME NEW k \in 1..n
          PROVE  g[k] = eq(g)[k]
      <3>1. CASE k = 1
        BY <1>2, <3>1
      <3>2. CASE k # 1
        <4>1. at[x][k] = Following(store, at[x][k - 1]) /\ k - 1 \in 1..n
          BY <1>5, <3>2
        <4>2. g[k - 1] = at[x][k - 1]
          BY <4>1
        <4>3. eq(g)[k] = Following(store, g[k - 1])
          BY <3>2
        <4> QED BY <4>1, <4>2, <4>3
      <3> QED BY <3>1, <3>2
    <2> DEFINE h == eq(g)
    <2>2. g = [k \in 1..n |-> g[k]] /\ h = [k \in 1..n |-> h[k]]
      OBVIOUS
    <2>3. \A k \in 1..n : g[k] = h[k]
      BY <2>1
    <2> HIDE DEF g, h
    <2>4. g = h
      BY <2>2, <2>3
    <2> QED BY <2>4 DEF h
  <1>7. f = eq(f)
    <2>1. \E h : h = eq(h)
      BY <1>6
    <2> HIDE DEF eq
    <2> QED BY <2>1 DEF f
  <1> HIDE DEF f, g
  <1>8. \A k \in 1..n : f[k] = IF k = 1 THEN <<cell.bucket, cell.offset>>
                               ELSE Following(store, f[k - 1])
    BY <1>7
  <1> DEFINE T == {k \in 0..n : k = 0 \/ f[k] = at[x][k]}
  <1>9. \A k \in 0..n : k \in T
    <2>1. n \in Nat /\ 0 \in T
      BY <1>2
    <2>2. ASSUME NEW k \in 1..n, k - 1 \in T
          PROVE  k \in T
      <3>1. CASE k = 1
        BY SMTT(40), <1>2, <1>8, <3>1
      <3>2. CASE k # 1
        <4>1. k - 1 # 0
          BY <1>2, <3>2
        <4>2. f[k - 1] = at[x][k - 1]
          BY <2>2, <4>1
        <4>3. f[k] = at[x][k]
          BY <1>5, <1>8, <3>2, <4>2
        <4> QED BY <1>2, <4>3
      <3> QED BY <3>1, <3>2
    <2> HIDE DEF T
    <2> QED BY <2>1, <2>2, TurnInduction
  <1>10. \A k \in 1..n : f[k] = at[x][k]
    BY <1>2, <1>9
  <1>11. Extent(cell) = {at[x][k] : k \in DOMAIN at[x]}
    BY <1>2, <1>4, <1>10
  <1> QED BY <1>11 DEF cell

\* The key of a cell of the table.
KeyOf(rc) == RowKey(index, rc[1], rc[2])

LEMMA LongCellsAre ==
    ASSUME IInv, NEW rc \in LongCells
    PROVE  /\ rc[1] \in 0..(RowsIn(index) - 1) /\ rc[2] \in Columns /\ rc = <<rc[1], rc[2]>>
           /\ KeyOf(rc) \in Keys(BucketsOf(index)) /\ IsLong(Cell(store, KeyOf(rc)))
           /\ ExtentOf(rc) = Extent(Cell(store, KeyOf(rc)))
           /\ KeyOf(rc)[1] = BucketIn(index, rc[1]) /\ KeyOf(rc)[2] = PlaceIn(index, rc[1])
           /\ KeyOf(rc)[3] = rc[2]
  <1>1. IsLaidOut(store, index, held)
    BY DEF IInv
  <1>2. rc \in Rows \X Columns /\ IsLong(CellOf(store, rc[1], rc[2]))
    BY DEF LongCells
  <1> DEFINE r == rc[1]
             c == rc[2]
  <1>3. r \in Rows /\ c \in Columns /\ rc = <<r, c>>
    BY <1>2
  <1>4. r \in 0..(RowsIn(index) - 1) /\ RowKey(index, r, c) \in Keys(BucketsOf(index))
    BY <1>1, <1>3, RowsAre
  <1>5. /\ RowKey(index, r, c)[1] = BucketIn(index, r)
        /\ RowKey(index, r, c)[2] = PlaceIn(index, r) /\ RowKey(index, r, c)[3] = c
    BY DEF RowKey
  <1>6. CellOf(store, r, c) = Cell(store, RowKey(index, r, c))
    BY NamesAre
  <1>7. ExtentOf(rc) = Extent(Cell(store, RowKey(index, r, c)))
    BY <1>6 DEF ExtentOf
  <1> QED BY <1>2, <1>3, <1>4, <1>5, <1>6, <1>7 DEF KeyOf

\* What the cells tell is where all units are.
LEMMA LiveAre ==
    ASSUME IInv, NEW val, NEW at, Sound(store, BucketsOf(index), val, at),
           Agreed(index, held, val), NEW place
    PROVE  place \in Live <=> \E x \in DOMAIN at : \E k \in DOMAIN at[x] : at[x][k] = place
  <1> DEFINE D == BucketsOf(index)
  <1>1. IndexOk(index)
    BY DEF IInv, IsLaidOut
  <1>2. DOMAIN at = Keys(D) /\ DOMAIN val = Keys(D)
    BY DEF Sound
  <1>3. ASSUME place \in Live
        PROVE  \E x \in DOMAIN at : \E k \in DOMAIN at[x] : at[x][k] = place
    <2>1. PICK rc \in LongCells : place \in ExtentOf(rc)
      BY <1>3 DEF Live
    <2> DEFINE x == KeyOf(rc)
    <2>2. x \in Keys(D) /\ IsLong(Cell(store, x)) /\ ExtentOf(rc) = Extent(Cell(store, x))
      BY LongCellsAre
    <2> HIDE DEF x
    <2>3. Extent(Cell(store, x)) = {at[x][k] : k \in DOMAIN at[x]}
      BY <2>2, ExtentIs
    <2> QED BY <1>2, <2>1, <2>2, <2>3
  <1>4. ASSUME NEW x \in DOMAIN at, NEW k \in DOMAIN at[x], at[x][k] = place
        PROVE  place \in Live
    <2>1. x \in Keys(D) /\ DOMAIN at[x] # {}
      BY <1>2
    <2>2. IsLong(Cell(store, x)) /\ val[x] # Nothing
      BY <2>1, FitsIs
    <2>3. PICK row \in 0..(RowsIn(index) - 1) : x = RowKey(index, row, x[3])
      BY <1>1, <2>1, <2>2, KeyOrNothing
    <2> DEFINE c == x[3]
               rc == <<row, c>>
    <2>4. c \in Columns
      BY <2>1, KeysAre
    <2>5. row \in Rows
      BY NamesAre DEF Rows
    <2>6. CellOf(store, row, c) = Cell(store, x)
      BY <2>3, NamesAre
    <2>7. rc \in LongCells
      BY <2>2, <2>4, <2>5, <2>6 DEF LongCells
    <2>8. ExtentOf(rc) = Extent(Cell(store, x))
      BY <2>6 DEF ExtentOf
    <2>9. Extent(Cell(store, x)) = {at[x][j] : j \in DOMAIN at[x]}
      BY <2>1, <2>2, ExtentIs
    <2>10. place \in ExtentOf(rc)
      BY <1>4, <2>8, <2>9
    <2> QED BY <2>7, <2>10 DEF Live
  <1> QED BY <1>3, <1>4

LEMMA LaidOutCounted == IInv /\ ShapeOnce => BytesCounted
  <1> SUFFICES ASSUME IInv, ShapeOnce
               PROVE  BytesCounted
    OBVIOUS
  <1> DEFINE D == BucketsOf(index)
             V == Views(store, D)
  <1>1. IsLaidOut(store, index, held)
    BY DEF IInv
  <1>2. PICK val, at : Sound(store, D, val, at) /\ Agreed(index, held, val)
    BY <1>1 DEF IsLaidOut
  <1>3. IndexOk(index)
    BY <1>1 DEF IsLaidOut
  <1>4. State(store, D, at, UnitsOf(val)) /\ DOMAIN at = Keys(D)
    BY <1>2 DEF Sound
  <1>5. /\ PlacesUsed(V, at) /\ Apart(at) /\ UsedFits(V) /\ Counted(V, at) /\ Full(V, at, {})
        /\ DOMAIN V = DOMAIN store.file \ D
    BY <1>4, StateIs DEF Laid
  <1>6. StringBuckets = DOMAIN V
    BY <1>5, NamesAre DEF StringBuckets
  <1>7. ASSUME NEW rc \in LongCells, NEW other \in LongCells, rc # other,
               NEW place \in ExtentOf(rc), place \in ExtentOf(other)
        PROVE  FALSE
    <2> DEFINE x == KeyOf(rc)
               y == KeyOf(other)
    <2>1. /\ x \in Keys(D) /\ IsLong(Cell(store, x)) /\ ExtentOf(rc) = Extent(Cell(store, x))
          /\ y \in Keys(D) /\ IsLong(Cell(store, y)) /\ ExtentOf(other) = Extent(Cell(store, y))
      BY LongCellsAre
    <2>2. x # y
      <3>1. SUFFICES ASSUME x = y
                     PROVE  FALSE
        OBVIOUS
      <3>2. /\ rc[1] \in 0..(RowsIn(index) - 1) /\ rc = <<rc[1], rc[2]>>
            /\ other[1] \in 0..(RowsIn(index) - 1) /\ other = <<other[1], other[2]>>
            /\ x[1] = BucketIn(index, rc[1]) /\ x[2] = PlaceIn(index, rc[1]) /\ x[3] = rc[2]
            /\ y[1] = BucketIn(index, other[1]) /\ y[2] = PlaceIn(index, other[1])
            /\ y[3] = other[2]
        BY LongCellsAre
      <3>3. rc[1] = other[1]
        BY <1>3, <3>1, <3>2, RowKeysApart
      <3> QED BY <1>7, <3>1, <3>2, <3>3
    <2> HIDE DEF x, y
    <2>3. /\ Extent(Cell(store, x)) = {at[x][k] : k \in DOMAIN at[x]}
          /\ Extent(Cell(store, y)) = {at[y][k] : k \in DOMAIN at[y]}
      BY <1>2, <2>1, ExtentIs
    <2>4. PICK j \in DOMAIN at[x], k \in DOMAIN at[y] : at[x][j] = at[y][k]
      BY <1>7, <2>1, <2>3
    <2> QED BY <1>4, <1>5, <2>1, <2>2, <2>4 DEF Apart
  <1>8. ASSUME NEW place \in Live
        PROVE  place[1] \in StringBuckets
    <2>1. PICK x \in DOMAIN at : \E k \in DOMAIN at[x] : at[x][k] = place
      BY <1>2, LiveAre
    <2> QED BY <1>5, <1>6, <2>1 DEF PlacesUsed
  <1>9. ASSUME NEW b \in StringBuckets
        PROVE  LET bucket == WithCurrent(store, b)
                   live == {i \in Places : <<b, i>> \in Live}
               IN  /\ live # {}
                   /\ bucket.nDeleted + Cardinality(live) = BucketLength
                   /\ bucket.used \in 0..BucketLength
                   /\ \A i \in live : i < bucket.used
    <2> DEFINE bucket == WithCurrent(store, b)
               live == {i \in Places : <<b, i>> \in Live}
    <2>1. live = LiveIn(at, b)
      <3>1. ASSUME NEW i \in Places
            PROVE  <<b, i>> \in Live <=>
                    \E x \in DOMAIN at : \E k \in DOMAIN at[x] : at[x][k] = <<b, i>>
        BY <1>2, LiveAre
      <3> QED BY <3>1 DEF LiveIn
    <2>2. b \in DOMAIN V /\ b \in DOMAIN store.file \ D
      BY <1>5, <1>6
    <2>3. bucket.nDeleted = V[b].nDeleted /\ bucket.used = V[b].used
      <3>1. Part(bucket) = V[b]
        BY <1>4, <2>2, WithState
      <3> HIDE DEF bucket, V
      <3> QED BY <3>1, PartIs
    <2> HIDE DEF bucket, live, V
    <2>4. live # {}
      BY <1>5, <2>1, <2>2 DEF Full
    <2>5. bucket.nDeleted + Cardinality(live) = BucketLength
      BY <1>5, <2>1, <2>2, <2>3 DEF Counted, CountedIn
    <2>6. bucket.used \in 0..BucketLength
      BY <1>5, <2>2, <2>3 DEF UsedFits
    <2>7. ASSUME NEW i \in live
          PROVE  i < bucket.used
      <3>0. PICK x \in DOMAIN at : \E k \in DOMAIN at[x] : at[x][k] = <<b, i>>
        BY <2>1 DEF LiveIn
      <3>1. PICK k \in DOMAIN at[x] : at[x][k] = <<b, i>>
        BY <3>0
      <3>2. at[x][k][2] < V[at[x][k][1]].used
        BY <1>5, <3>1 DEF PlacesUsed
      <3>3. at[x][k][1] = b /\ at[x][k][2] = i
        BY <3>1
      <3> QED BY <2>3, <3>2, <3>3
    <2> QED BY <2>4, <2>5, <2>6, <2>7 DEF bucket, live
  <1>10. \A rc, other \in LongCells : rc # other => ExtentOf(rc) \cap ExtentOf(other) = {}
    BY <1>7
  <1> QED BY <1>8, <1>9, <1>10 DEF BytesCounted

-----------------------------------------------------------------------------
(* The theorems.                                                             *)

\* Every cell of a table holds what was put into it last, however the strings
\* are put, replaced and removed in the buckets that several share, when the rows
\* that are removed have no array (putString, putArrayV, deleteRow, shiftRows and
\* SSMStringHandler).
THEOREM PutIsHeld == ArrayRowsStay => (Spec => []HoldsWhatWasPut)
  <1> SUFFICES ASSUME ArrayRowsStay
               PROVE  Spec => []HoldsWhatWasPut
    OBVIOUS
  <1>1. Init => IInv
    BY LaidOutInit
  <1>2. IInv /\ [Next]_vars => IInv'
    BY NextLaidOut
  <1>3. IInv => HoldsWhatWasPut
    BY LaidOutHolds
  <1> QED BY <1>1, <1>2, <1>3, PTL DEF Spec

\* The headers count the bytes that no cell holds, no byte belongs to two cells,
\* and a bucket without a value is given back, when moreover setShape is for
\* cells without a shape (SSMStringHandler::put, replace and remove).
THEOREM BytesAreCounted == ArrayRowsStay /\ ShapeOnce => (Spec => []BytesCounted)
  <1> SUFFICES ASSUME ArrayRowsStay, ShapeOnce
               PROVE  Spec => []BytesCounted
    OBVIOUS
  <1>1. Init => IInv
    BY LaidOutInit
  <1>2. IInv /\ [Next]_vars => IInv'
    BY NextLaidOut
  <1>3. IInv => BytesCounted
    BY LaidOutCounted
  <1> QED BY <1>1, <1>2, <1>3, PTL DEF Spec

=============================================================================
