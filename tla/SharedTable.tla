----------------------------- MODULE SharedTable -----------------------------
(***************************************************************************)
(* What the locking and synchronization of tables (tables/Tables.h,         *)
(* "Table locking and synchronization") promises: the processes see one     *)
(* table, whose updates come one after the other; what has not been flushed *)
(* is lost when its writer dies, and nothing else ever is.                   *)
(***************************************************************************)
EXTENDS Naturals

CONSTANTS
    DataMan,     \* the storage managers of the table
    MaxChange    \* bound: the number of updates of each part

VARIABLES
    current,     \* the content of the table, as its users see it
    stable       \* the content that survives the death of a process

tableVars == <<current, stable>>

\* Each part counts its updates.
Content == [keys : 0 .. MaxChange, cols : 1 .. 2, dm : [DataMan -> 0 .. MaxChange]]

NewContent == [keys |-> 0, cols |-> 1, dm |-> [d \in DataMan |-> 0]]

TableInit ==
    /\ current = NewContent
    /\ stable = NewContent

Update ==
    /\ \/ \E d \in DataMan : current' = [current EXCEPT !.dm[d] = @ + 1]
       \/ current' = [current EXCEPT !.keys = @ + 1]
       \/ \E d \in DataMan : current' = [current EXCEPT !.cols = @ + 1, !.dm[d] = @ + 1]
    /\ UNCHANGED stable

Flush ==
    /\ stable' = current
    /\ UNCHANGED current

WriterDies ==
    /\ current' = stable
    /\ UNCHANGED stable

TableNext == Update \/ Flush \/ WriterDies

TableSpec == TableInit /\ [][TableNext]_tableVars
=============================================================================
