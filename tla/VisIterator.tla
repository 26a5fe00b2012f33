---------------------------- MODULE VisIterator ----------------------------
(***************************************************************************)
(* What a visibility iterator promises its user: it goes through a measure- *)
(* ment set in chunks and subchunks, in order; the buffer it fills holds    *)
(* what the subchunk has in the table, with all that was written to it, as  *)
(* the last selection before the iteration was started asks.                *)
(***************************************************************************)
EXTENDS Integers, Sequences

CONSTANTS
    Layout,     \* the number of subchunks of each chunk
    NoBuffer    \* no buffer is attached

VARIABLES
    table,      \* what each subchunk holds
    at,         \* the subchunk the iterator is at, <<chunk, subchunk>>
    buffer,     \* the buffer attached to it, if any
    wanted,     \* the last selection asked for
    selection   \* the selection in force

iteratorVars == <<table, at, buffer, wanted, selection>>

\* Chunks and subchunks count from 0; a chunk has a subchunk at least.
SubChunks ==
    UNION {{<<c, s>> : s \in 0..(Layout[c + 1] - 1)} : c \in 0..(Len(Layout) - 1)}

IteratorInit ==
    /\ table = [p \in SubChunks |-> 0]
    /\ at = <<0, 0>>
    /\ buffer = NoBuffer
    /\ wanted = 0
    /\ selection = 0

Select ==
    /\ wanted' = wanted + 1
    /\ UNCHANGED <<table, at, buffer, selection>>

Restart ==
    /\ at' = <<0, 0>>
    /\ buffer' = NoBuffer
    /\ selection' = wanted
    /\ UNCHANGED <<table, wanted>>

\* origin, ++ and nextChunk.
Move ==
    /\ at' \in {<<at[1], 0>>, <<at[1], at[2] + 1>>, <<at[1] + 1, 0>>}
    /\ buffer' = NoBuffer
    /\ UNCHANGED <<table, wanted, selection>>

Fill ==
    /\ at \in SubChunks
    /\ buffer = NoBuffer
    /\ buffer' = [of |-> at, holds |-> table[at], selection |-> selection]
    /\ UNCHANGED <<table, at, wanted, selection>>

Write ==
    /\ buffer # NoBuffer
    /\ table'[at] \in Nat
    /\ table' = [table EXCEPT ![at] = table'[at]]
    /\ UNCHANGED <<at, buffer, wanted, selection>>

Release ==
    /\ buffer' = NoBuffer
    /\ UNCHANGED <<table, at, wanted, selection>>

IteratorNext == Select \/ Restart \/ Move \/ Fill \/ Write \/ Release

IteratorSpec == IteratorInit /\ [][IteratorNext]_iteratorVars

=============================================================================
