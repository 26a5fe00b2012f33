-------------------------- MODULE MCStringBuckets --------------------------
(***************************************************************************)
(* Values for StringBuckets: strings that fit in a cell, in a bucket, and in *)
(* no bucket, and an array that goes on in a second one.                     *)
(***************************************************************************)
EXTENDS StringBuckets, TLC

CONSTANTS tiny, brief, lengthy, shape, array

MCSize ==
    tiny :> 1 @@ brief :> 2 @@ lengthy :> 5 @@ shape :> 2 @@ array :> 3

=============================================================================
