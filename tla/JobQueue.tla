------------------------------ MODULE JobQueue ------------------------------
(***************************************************************************)
(* What the command client of mpi4casa promises an application, whatever    *)
(* its threads, its queues and its messages do: a job runs at most once, on *)
(* the server it was meant for, never while another one is on that server;  *)
(* what the application is told is what the job gave, or that its server    *)
(* timed out.                                                               *)
(***************************************************************************)
CONSTANTS Jobs, Servers, NoServer, Outcomes

VARIABLES
    job,        \* how far each job is
    meantFor,   \* the server a job was submitted for, or NoServer for any
    runner,     \* the server it was started on
    outcome,    \* what running it gave
    told        \* what the application was told of it

jobVars == <<job, meantFor, runner, outcome, told>>

Stages == {"absent", "submitted", "running", "finished", "collected", "refused"}

Init ==
    /\ job = [j \in Jobs |-> "absent"]
    /\ meantFor = [j \in Jobs |-> NoServer]
    /\ runner = [j \in Jobs |-> NoServer]
    /\ outcome = [j \in Jobs |-> "none"]
    /\ told = [j \in Jobs |-> "none"]

Submit(j, s) ==
    /\ job[j] = "absent"
    /\ job' = [job EXCEPT ![j] = "submitted"]
    /\ meantFor' = [meantFor EXCEPT ![j] = s]
    /\ UNCHANGED <<runner, outcome, told>>

\* A server holds the job it runs until the client has its answer.
Free(s) == \A j \in Jobs : runner[j] = s => job[j] \notin {"running", "finished"}

Start(j, s) ==
    /\ job[j] = "submitted"
    /\ meantFor[j] \in {NoServer, s}
    /\ Free(s)
    /\ job' = [job EXCEPT ![j] = "running"]
    /\ runner' = [runner EXCEPT ![j] = s]
    /\ UNCHANGED <<meantFor, outcome, told>>

\* The request could not be sent.
Refuse(j) ==
    /\ job[j] = "submitted"
    /\ job' = [job EXCEPT ![j] = "refused"]
    /\ outcome' = [outcome EXCEPT ![j] = "unsent"]
    /\ UNCHANGED <<meantFor, runner, told>>

Finish(j, result) ==
    /\ job[j] = "running"
    /\ job' = [job EXCEPT ![j] = "finished"]
    /\ outcome' = [outcome EXCEPT ![j] = result]
    /\ UNCHANGED <<meantFor, runner, told>>

Collect(j) ==
    /\ job[j] = "finished"
    /\ job' = [job EXCEPT ![j] = "collected"]
    /\ UNCHANGED <<meantFor, runner, outcome, told>>

\* The outcome, or a timeout of a job whose server did not answer in time.
Tell(some) ==
    /\ \A j \in some : job[j] # "absent"
    /\ told' \in [Jobs -> Outcomes \cup {"none", "unsent", "timeout"}]
    /\ \A j \in Jobs :
        IF j \in some
        THEN \/ job[j] \in {"collected", "refused"} /\ told'[j] = outcome[j]
             \/ job[j] # "refused" /\ told'[j] = "timeout"
        ELSE told'[j] = told[j]
    /\ UNCHANGED <<job, meantFor, runner, outcome>>

Next ==
    \/ \E j \in Jobs, s \in Servers \cup {NoServer} : Submit(j, s)
    \/ \E j \in Jobs, s \in Servers : Start(j, s)
    \/ \E j \in Jobs : Refuse(j) \/ Collect(j)
    \/ \E j \in Jobs, result \in Outcomes : Finish(j, result)
    \/ \E some \in SUBSET Jobs : Tell(some)

Spec == Init /\ [][Next]_jobVars

=============================================================================
