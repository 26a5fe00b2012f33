--------------------------- MODULE StringBuckets ---------------------------
(***************************************************************************)
(* tables/DataMan/SSMStringHandler.cc, with SSMColumn.cc, SSMDirColumn.cc,    *)
(* SSMIndStringColumn.cc, SSMIndex.cc and SSMBase.cc as far as columns of      *)
(* strings need them: the cell of a string holds where the string is; the      *)
(* string itself is in a string bucket, and goes on in further buckets when    *)
(* it is long.  The handler works on a copy of one string bucket.              *)
(* Buckets are those of the cache, which BucketCache models.                   *)
(***************************************************************************)
EXTENDS Integers, Sequences, FiniteSets, SequencesExt, FiniteSetsExt

CONSTANTS
    Scalars,       \* columns of strings of any length (SSMColumn)
    Arrays,        \* columns of string arrays of any shape (SSMIndStringColumn)
    Strings,       \* what may be put into a column of strings
    Shapes,        \* what setShape may put into a column of arrays
    Filled,        \* what putArrayV may put into a column of arrays
    Size,          \* how many units each of them takes
    Nothing,       \* what a cell of zeroes holds
    Garbage,       \* what a cell holds that nobody has put into it
    RowsPerBucket, \* itsRowsPerBucket
    BucketLength,  \* itsLength
    NearlyFull,    \* 50 bytes, see put
    ShortLength,   \* 8 bytes: so long a string fits in its cell
    MaxBuckets,    \* bound: the buckets in use
    MaxRows,       \* bound: the rows of the table
    ArrayRowsStay, \* whether rows that hold an array are not removed
    ShapeOnce      \* whether setShape is called for an empty cell only

Columns == Scalars \cup Arrays
ArrayValues == Shapes \cup Filled
Values == Strings \cup ArrayValues

ASSUME StringBucketsAssumption ==
    /\ Scalars \cap Arrays = {} /\ Nothing \notin Values /\ Garbage \notin Values
    /\ \A v \in Values : Size[v] \in Nat \ {0}
    /\ \A v \in ArrayValues : Size[v] > ShortLength
    /\ RowsPerBucket \in Nat \ {0} /\ MaxBuckets \in Nat /\ MaxRows \in Nat
    /\ IsFiniteSet(Columns) /\ ShortLength \in Nat /\ NearlyFull \in Nat \ {0}
    /\ BucketLength \in Nat /\ BucketLength >= NearlyFull
    /\ ArrayRowsStay \in BOOLEAN /\ ShapeOnce \in BOOLEAN

VARIABLES
    store,   \* the buckets and the string handler
    index,   \* SSMIndex: the last row of each data bucket and its number
    held     \* what has been put into the cells of each row (history)

vars == <<store, index, held>>

Places == 0..(BucketLength - 1)
Zero == <<Nothing, 0>>   \* what a unit holds that belongs to no value

Lesser(m, n) == IF m < n THEN m ELSE n

\* What a value is in a bucket: each unit tells of which value it is which.
Units(value) == [i \in 1..Size[value] |-> <<value, i>>]

\* The three Ints of a cell.  A short string is in their place (text).
EmptyCell == [bucket |-> 0, offset |-> 0, length |-> 0, text |-> Nothing]
ShortCell(value) == [EmptyCell EXCEPT !.length = Size[value], !.text = value]
IsLong(cell) == cell.length > ShortLength

\* A bucket of zeroes, which may become a data bucket (its cells are used) or
\* a string bucket (the other fields are).
ZeroBucket ==
    [cells |-> [p \in 1..RowsPerBucket |-> [c \in Columns |-> EmptyCell]],
     used |-> 0, nDeleted |-> 0, next |-> 0, data |-> [i \in Places |-> Zero]]

\* recreate: a new file and a new handler.
NoData == [i \in Places |-> Zero]
NewStore ==
    [file |-> [b \in {} |-> ZeroBucket], current |-> -1, used |-> 0,
     nDeleted |-> 0, next |-> -1, data |-> NoData, changed |-> FALSE, last |-> -1]

\* Without a current bucket the copy is not looked at.
NoCurrent(s) ==
    [s EXCEPT !.current = -1, !.used = 0, !.nDeleted = 0, !.next = -1,
              !.data = NoData, !.changed = FALSE]

Init == store = NewStore /\ index = <<>> /\ held = <<>>

-----------------------------------------------------------------------------
(* SSMStringHandler: each operator maps the store to what the call makes of   *)
(* it.                                                                        *)

FlushBucket(s) ==
    IF ~s.changed THEN s
    ELSE [s EXCEPT !.changed = FALSE,
                   !.file[s.current].used = s.used,
                   !.file[s.current].nDeleted = s.nDeleted,
                   !.file[s.current].next = s.next,
                   !.file[s.current].data = s.data]

\* A bucket that is in use; what another number holds is never looked at.
InFile(s, b) == IF b \in DOMAIN s.file THEN s.file[b] ELSE ZeroBucket

GetBucket(s, b) ==
    LET f == FlushBucket(s)
        bucket == InFile(f, b)
    IN  [f EXCEPT !.current = b, !.used = bucket.used, !.data = bucket.data,
                  !.nDeleted = bucket.nDeleted, !.next = bucket.next]

WithCurrent(s, b) == IF s.current = b THEN s ELSE GetBucket(s, b)

\* SSMBase::getNewBucket and SSMBase::removeBucket
LeastFree(s) ==
    Min((0..Cardinality(DOMAIN s.file)) \ DOMAIN s.file)
WithBucket(s, b) ==
    [s EXCEPT !.file = [c \in DOMAIN @ \cup {b} |-> IF c = b THEN ZeroBucket ELSE @[c]]]
WithoutBucket(s, b) ==
    [s EXCEPT !.file = [c \in DOMAIN @ \ {b} |-> @[c]]]

\* getNewBucket
GetNewBucket(s, doConcat) ==
    LET b == LeastFree(s)
        linked == IF doConcat THEN [s EXCEPT !.next = b, !.changed = TRUE] ELSE s
    IN  [FlushBucket(WithBucket(linked, b)) EXCEPT
            !.current = b, !.used = 0, !.nDeleted = BucketLength,
            !.next = -1, !.last = b, !.data = NoData]

\* memcpy of n units, after the first that are done, into the copy of the bucket
Copied(data, offset, n, units, done) ==
    [i \in Places |-> IF i - offset \in 0..(n - 1)
                      THEN units[done + i - offset + 1] ELSE data[i]]

\* One turn of the loop of putData.
PutTurn(at, units) ==
    LET s == at.store
        n == Lesser(Len(units) - at.done, BucketLength - s.used)
        put == [s EXCEPT !.data = Copied(@, s.used, n, units, at.done),
                         !.nDeleted = @ - n, !.used = @ + n, !.changed = TRUE]
    IN  IF at.done = Len(units) THEN at
        ELSE [store |-> IF at.done + n = Len(units) THEN put
                        ELSE GetNewBucket(put, TRUE),
              done |-> at.done + n]

PutData(s, units) ==
    LET after[k \in 0..Len(units)] ==
            IF k = 0 THEN [store |-> s, done |-> 0]
            ELSE PutTurn(after[k - 1], units)
    IN  after[Len(units)].store

\* remove: the bucket is given back when nothing of it is used any more.
GivenBack(s) ==
    [NoCurrent(WithoutBucket(s, s.current)) EXCEPT
        !.last = IF @ = s.current THEN -1 ELSE @]

\* What remove does in one bucket, before it goes on in the next.  The units are
\* cleared, where the code leaves what nobody may read.
RemoveTurn(at) ==
    LET n == Lesser(at.length, BucketLength - at.offset)
        cut == [WithCurrent(at.store, at.bucket) EXCEPT
                   !.nDeleted = @ + n, !.changed = TRUE,
                   !.data = [i \in Places |-> IF i - at.offset \in 0..(n - 1)
                                              THEN Zero ELSE @[i]],
                   !.used = IF at.offset + n = @ THEN at.offset ELSE @]
        left == IF cut.nDeleted = BucketLength THEN GivenBack(cut) ELSE cut
    IN  IF at.length = 0 THEN at
        ELSE [store |-> IF n = at.length THEN left ELSE [left EXCEPT !.next = -1],
              bucket |-> cut.next, offset |-> 0, length |-> at.length - n]

RemoveUnits(s, b, offset, length) ==
    LET after[k \in 0..(length + 1)] ==
            IF k = 0
            THEN [store |-> s, bucket |-> b, offset |-> offset, length |-> length]
            ELSE RemoveTurn(after[k - 1])
    IN  after[length + 1].store

RemoveCell(s, cell) == RemoveUnits(s, cell.bucket, cell.offset, cell.length)

\* One turn of the loop of replaceData.
ReplaceTurn(at, units) ==
    LET s == at.store
        n == Lesser(Len(units) - at.done, BucketLength - at.offset)
        put == [s EXCEPT !.data = Copied(@, at.offset, n, units, at.done),
                         !.changed = TRUE]
    IN  IF at.done = Len(units) THEN at
        ELSE IF at.done + n = Len(units)
        THEN [store |-> put, offset |-> at.offset + n, done |-> at.done + n]
        ELSE [store |-> GetBucket(put, put.next), offset |-> 0, done |-> at.done + n]

\* replace: the data, and the removal of what is left over.
Replace(s, offset, length, units) ==
    LET after[k \in 0..Len(units)] ==
            IF k = 0 THEN [store |-> s, offset |-> offset, done |-> 0]
            ELSE ReplaceTurn(after[k - 1], units)
        end == after[Len(units)]
    IN  IF length > Len(units)
        THEN RemoveUnits(end.store, end.store.current, end.offset,
                         length - Len(units))
        ELSE end.store

\* put and putShape, for a value that is not empty: the store and the cell.
LastBucket(s) ==
    IF s.last = -1 THEN GetNewBucket(s, FALSE) ELSE WithCurrent(s, s.last)

Appended(s, value) ==
    LET l == LastBucket(s)
        room == BucketLength - l.used
        a == IF Size[value] > room /\ room < NearlyFull
             THEN GetNewBucket(l, FALSE) ELSE l
    IN  [store |-> PutData(a, Units(value)),
         cell |-> [EmptyCell EXCEPT !.bucket = a.current, !.offset = a.used,
                                    !.length = Size[value]]]

Put(s, cell, value) ==
    IF cell.length = 0 THEN Appended(s, value)
    ELSE IF Size[value] > cell.length THEN Appended(RemoveCell(s, cell), value)
    ELSE [store |-> Replace(WithCurrent(s, cell.bucket), cell.offset,
                            cell.length, Units(value)),
          cell |-> [cell EXCEPT !.length = Size[value]]]

PutShape(s, cell, value) == Put(LastBucket(s), cell, value)

\* getData: the handler as it leaves it, and the units.  Where there are none
\* the code would copy what is beside the bucket, or go on for ever.
GetTurn(at, length) ==
    LET s == at.store
        n == Lesser(length - Len(at.units), s.used - at.offset)
        units == at.units \o [i \in 1..n |-> s.data[at.offset + i - 1]]
    IN  IF n <= 0 THEN at
        ELSE IF Len(units) = length THEN [at EXCEPT !.units = units]
        ELSE [store |-> GetBucket(s, s.next), offset |-> 0, units |-> units]

GetData(s, offset, length) ==
    LET after[k \in 0..length] ==
            IF k = 0 THEN [store |-> s, offset |-> offset, units |-> <<>>]
            ELSE GetTurn(after[k - 1], length)
    IN  after[length]

-----------------------------------------------------------------------------
(* SSMIndex, and the cells of the rows (from 0).                               *)

NrRow == IF index = <<>> THEN 0 ELSE Last(index).last + 1
Rows == 0..(NrRow - 1)

EntryOf(row) == Min({i \in DOMAIN index : row <= index[i].last})
FirstRow(i) == IF i = 1 THEN 0 ELSE index[i - 1].last + 1
PlaceOf(row) == row - FirstRow(EntryOf(row)) + 1

CellOf(s, row, column) ==
    s.file[index[EntryOf(row)].bucket].cells[PlaceOf(row)][column]
WithCell(s, row, column, cell) ==
    [s EXCEPT !.file[index[EntryOf(row)].bucket].cells[PlaceOf(row)][column] =
        cell]

\* What is read from a cell.
Content(row, column) ==
    LET cell == CellOf(store, row, column)
        found == GetData(WithCurrent(store, cell.bucket), cell.offset,
                         cell.length).units
    IN  IF ~IsLong(cell) THEN cell.text
        ELSE IF \E v \in Values : Units(v) = found
             THEN CHOOSE v \in Values : Units(v) = found
             ELSE Garbage

-----------------------------------------------------------------------------
(* The calls of the columns.                                                   *)

\* As it would be if a short string were written over the cell of a long one.
PutStringOver(row, column, value) ==
    LET cell == CellOf(store, row, column)
        put == Put(store, IF IsLong(cell) THEN cell ELSE EmptyCell, value)
    IN  /\ store' = IF Size[value] <= ShortLength
                    THEN WithCell(store, row, column, ShortCell(value))
                    ELSE WithCell(put.store, row, column, put.cell)
        /\ held' = [held EXCEPT ![row + 1][column] = value]
        /\ UNCHANGED index

\* SSMColumn::putString
PutString(row, column, value) ==
    LET cell == CellOf(store, row, column)
        short == Size[value] <= ShortLength
        long == Put(store, IF IsLong(cell) THEN cell ELSE EmptyCell, value)
        without == IF IsLong(cell) THEN RemoveCell(store, cell) ELSE store
    IN  /\ store' = IF short
                    THEN WithCell(without, row, column, ShortCell(value))
                    ELSE WithCell(long.store, row, column, long.cell)
        /\ held' = [held EXCEPT ![row + 1][column] = value]
        /\ UNCHANGED index

\* SSMIndStringColumn::putArrayV and setShape
PutArray(row, column, value) ==
    LET put == Put(store, CellOf(store, row, column), value)
    IN  /\ store' = WithCell(put.store, row, column, put.cell)
        /\ held' = [held EXCEPT ![row + 1][column] = value]
        /\ UNCHANGED index

SetShape(row, column, shape) ==
    LET put == PutShape(store, CellOf(store, row, column), shape)
    IN  /\ ShapeOnce => CellOf(store, row, column) = EmptyCell
        /\ store' = WithCell(put.store, row, column, put.cell)
        /\ held' = [held EXCEPT ![row + 1][column] = shape]
        /\ UNCHANGED index

\* getString and getArrayV: only the copy of the handler changes.
Get(row, column) ==
    LET cell == CellOf(store, row, column)
    IN  /\ IsLong(cell)
        /\ store' = GetData(WithCurrent(store, cell.bucket), cell.offset,
                            cell.length).store
        /\ UNCHANGED <<index, held>>

\* SSMBase::addRow64 of one row, with SSMIndex::addRow
AddRow ==
    /\ NrRow < MaxRows
    /\ held' = Append(held, [c \in Columns |-> Nothing])
    /\ IF index # <<>> /\ NrRow - FirstRow(Len(index)) < RowsPerBucket
       THEN /\ index' = [index EXCEPT ![Len(index)].last = @ + 1]
            /\ UNCHANGED store
       ELSE LET b == LeastFree(store)
            IN  /\ index' = Append(index, [last |-> NrRow, bucket |-> b])
                /\ store' = WithBucket(store, b)

\* The places of the rows in their bucket, from that of row on.
PlacesFrom(row) == PlaceOf(row)..PlaceOf(index[EntryOf(row)].last)

\* As it would be if the last cell were left as it is.
ShiftedUncleared(s, row, column) ==
    LET cells == s.file[index[EntryOf(row)].bucket].cells
        end == PlaceOf(index[EntryOf(row)].last)
    IN  [s EXCEPT !.file[index[EntryOf(row)].bucket].cells =
            [p \in 1..RowsPerBucket |->
                IF p \in PlacesFrom(row) \ {end}
                THEN [cells[p] EXCEPT ![column] = cells[p + 1][column]]
                ELSE cells[p]]]

\* shiftRows: the cells after the row move up, and the last one is cleared.
Shifted(s, row, column) ==
    LET cells == s.file[index[EntryOf(row)].bucket].cells
        end == PlaceOf(index[EntryOf(row)].last)
        moved(p) == IF p = end THEN EmptyCell ELSE cells[p + 1][column]
    IN  [s EXCEPT !.file[index[EntryOf(row)].bucket].cells =
            [p \in 1..RowsPerBucket |->
                IF p \in PlacesFrom(row) THEN [cells[p] EXCEPT ![column] = moved(p)]
                ELSE cells[p]]]

\* SSMColumn::deleteRow and SSMDirColumn::deleteRow
DeletedFrom(s, row, column) ==
    LET cell == CellOf(s, row, column)
        isLongString == column \in Scalars /\ IsLong(cell)
    IN  IF isLongString THEN Shifted(RemoveCell(s, cell), row, column)
        ELSE IF row < index[EntryOf(row)].last THEN Shifted(s, row, column)
        ELSE s

\* SSMBase::removeRow64, with SSMIndex::deleteRow
RemoveRow(row) ==
    LET i == EntryOf(row)
        isEmpty == FirstRow(i) = index[i].last
        columns == SetToSeq(Columns)
        after[k \in 0..Len(columns)] ==
            IF k = 0 THEN store ELSE DeletedFrom(after[k - 1], row, columns[k])
        deleted == after[Len(columns)]
        less == [j \in DOMAIN index |->
                    IF j < i THEN index[j]
                    ELSE [index[j] EXCEPT !.last = @ - 1]]
    IN  /\ ArrayRowsStay => \A c \in Arrays : CellOf(store, row, c) = EmptyCell
        /\ index' = IF isEmpty THEN RemoveAt(less, i) ELSE less
        /\ held' = RemoveAt(held, row + 1)
        /\ store' = IF NrRow = 1 THEN NewStore
                    ELSE IF isEmpty THEN WithoutBucket(deleted, index[i].bucket)
                    ELSE deleted

\* SSMColumn::removeColumn, and SSMBase::addColumn of a column that takes the
\* place of the one removed, whose addRow clears the cells of the rows.
HoldsRow(b, p) ==
    \E row \in Rows : index[EntryOf(row)].bucket = b /\ PlaceOf(row) = p

Cleared(s, column) ==
    LET cells(b) ==
            [p \in 1..RowsPerBucket |->
                IF HoldsRow(b, p) THEN [s.file[b].cells[p] EXCEPT ![column] = EmptyCell]
                ELSE s.file[b].cells[p]]
    IN  [s EXCEPT !.file = [b \in DOMAIN s.file |-> [s.file[b] EXCEPT !.cells = cells(b)]]]

RenewColumn(column) ==
    LET cell(row) == CellOf(store, row, column)
        after[n \in 0..NrRow] ==
            IF n = 0 THEN store
            ELSE IF IsLong(cell(n - 1)) THEN RemoveCell(after[n - 1], cell(n - 1))
            ELSE after[n - 1]
    IN  /\ store' = Cleared(after[NrRow], column)
        /\ held' = [r \in 1..NrRow |-> [held[r] EXCEPT ![column] = Nothing]]
        /\ UNCHANGED index

\* The lock is given up, after a flush, and acquired again, with a resync.
Resync ==
    /\ store.current # -1
    /\ store' = NoCurrent(FlushBucket(store))
    /\ UNCHANGED <<index, held>>

Next ==
    /\ \/ AddRow \/ Resync
       \/ \E row \in Rows : RemoveRow(row)
       \/ \E row \in Rows : \E column \in Columns : Get(row, column)
       \/ \E row \in Rows : \E column \in Scalars : \E value \in Strings :
              PutString(row, column, value)
       \/ \E row \in Rows : \E column \in Arrays : \E value \in Filled :
              PutArray(row, column, value)
       \/ \E row \in Rows : \E column \in Arrays : \E shape \in Shapes :
              SetShape(row, column, shape)
       \/ \E column \in Columns : RenewColumn(column)
    /\ Cardinality(DOMAIN store'.file) <= MaxBuckets

Spec == Init /\ [][Next]_vars

-----------------------------------------------------------------------------
(* Properties.                                                                 *)

\* Where the units of a cell are, along the chain of buckets.
Following(s, place) ==
    IF place[2] + 1 < BucketLength THEN <<place[1], place[2] + 1>>
    ELSE <<WithCurrent(s, place[1]).next, 0>>

Extent(cell) ==
    LET at[k \in 1..cell.length] ==
            IF k = 1 THEN <<cell.bucket, cell.offset>> ELSE Following(store, at[k - 1])
    IN  {at[k] : k \in 1..cell.length}

LongCells ==
    {rc \in Rows \X Columns : IsLong(CellOf(store, rc[1], rc[2]))}
ExtentOf(rc) == Extent(CellOf(store, rc[1], rc[2]))
Live == UNION {ExtentOf(rc) : rc \in LongCells}

DataBuckets == {index[i].bucket : i \in DOMAIN index}
StringBuckets == DOMAIN store.file \ DataBuckets

\* The header of each string bucket counts the bytes that are not used, as they
\* are in the cells of all rows and columns, and all that is used comes before
\* the place for new data; no byte belongs to two values or is in a bucket that
\* was given back, and a bucket without a value was given back: "When the string
\* part is deleted, the bucket is added to the free bucket list"
\* (SSMStringHandler.h:80, of put, replace and remove with the handler's copy).
BytesCounted ==
    /\ \A rc, other \in LongCells :
           rc # other => ExtentOf(rc) \cap ExtentOf(other) = {}
    /\ \A place \in Live : place[1] \in StringBuckets
    /\ \A b \in StringBuckets :
           LET bucket == WithCurrent(store, b)
               live == {i \in Places : <<b, i>> \in Live}
           IN  /\ live # {}
               /\ bucket.nDeleted + Cardinality(live) = BucketLength
               /\ bucket.used \in 0..BucketLength
               /\ \A i \in live : i < bucket.used

\* Every cell holds what was put into it last, whatever buckets its value goes
\* through and whatever is put, made shorter or removed in them besides; where
\* nothing was put is nothing, or a short string that a removed row has left in
\* its place (putString, deleteRow, shiftRows and SSMStringHandler).
HoldsWhatWasPut ==
    \A row \in Rows, column \in Columns :
        LET put == held[row + 1][column]
            read == Content(row, column)
        IN  \/ read = put
            \/ put = Nothing /\ read \in Strings /\ Size[read] <= ShortLength

=============================================================================
