---------------------------- MODULE VirtualFiles ----------------------------
(***************************************************************************)
(* What a MultiFile promises the processes that share it in turn: each of   *)
(* its virtual files is a file of its own, whatever is created, written and  *)
(* removed besides; and a process that dies loses what it did to a file      *)
(* since the last flush, but nothing of the files it did not touch.          *)
(***************************************************************************)
EXTENDS Integers, Sequences

CONSTANTS
    Names,    \* the names a virtual file may have
    Cells,    \* what a unit of a file can hold
    Gap,      \* what a unit holds that was skipped
    Absent,   \* there is no such file
    MaxSize   \* bound: the units of a file

VARIABLES
    files,    \* the content of each file there is
    touched   \* the files changed since the last flush

fileVars == <<files, touched>>

VirtualInit ==
    /\ files = [n \in Names |-> Absent]
    /\ touched = {}

Greatest(m, n) == IF m < n THEN n ELSE m

\* What a write makes of a file.
Overwritten(content, offset, size, value) ==
    [i \in 1..Greatest(Len(content), offset + size) |->
        IF i \in (offset + 1)..(offset + size) THEN value
        ELSE IF i <= Len(content) THEN content[i] ELSE Gap]

\* A file is created, removed, or written to; the others stay as they are.
VirtualChange(name) ==
    /\ touched' = touched \cup {name}
    /\ LET was == files[name]
           is == files'[name]
       IN  /\ \/ is \in {<<>>, Absent}
              \/ /\ was # Absent /\ is # Absent
                 /\ \E offset, size \in 0..MaxSize : \E value \in Cells :
                        is = Overwritten(was, offset, size, value)
           /\ files' = [files EXCEPT ![name] = is]

VirtualFlush ==
    /\ touched' = {}
    /\ UNCHANGED files

\* A process dies that has changed files since the last flush.
VirtualCrash ==
    /\ \A n \in Names \ touched : files'[n] = files[n]
    /\ touched' = {}

VirtualNext ==
    \/ \E name \in Names : VirtualChange(name)
    \/ VirtualFlush \/ VirtualCrash

VirtualSpec == VirtualInit /\ [][VirtualNext]_fileVars

=============================================================================
