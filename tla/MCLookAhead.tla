---------------------------- MODULE MCLookAhead ----------------------------
(***************************************************************************)
(* The measurement set the runs of LookAhead go through.                    *)
(***************************************************************************)
EXTENDS LookAhead

\* A chunk of two subchunks and one of a single subchunk: both the step within
\* a chunk and the steps to the next chunk and to the end occur.
TwoChunks == <<2, 1>>

=============================================================================
