---------------------------- MODULE MCMultiFile ----------------------------
(***************************************************************************)
(* Processes, names and values are interchangeable in MultiFile.            *)
(***************************************************************************)
EXTENDS MultiFile, TLC

Interchangeable ==
    Permutations(Proc) \cup Permutations(Names) \cup Permutations(Values)

=============================================================================
