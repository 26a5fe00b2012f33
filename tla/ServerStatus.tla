---------------------------- MODULE ServerStatus ----------------------------
(***************************************************************************)
(* What the command client of mpi4casa sees of its monitor: which servers   *)
(* have timed out.  A server that is alive may time out and come back, or    *)
(* stay so; one that has died times out for ever.  MPIMonitor implements it. *)
(***************************************************************************)
EXTENDS Integers, FiniteSets

CONSTANTS
    Servers,      \* the ranks of the MPI servers
    NoServer,     \* None, where the code has a server
    Faulty,       \* the servers that may die, or be late with an answer
    MaxFaults     \* bound: the faults in a behaviour

ASSUME StatusAssumption ==
    /\ IsFiniteSet(Servers) /\ Servers # {} /\ NoServer \notin Servers
    /\ Faulty \subseteq Servers
    /\ MaxFaults \in Nat

VARIABLES
    alive,        \* the servers whose process still runs
    timeout,      \* server_status_list[rank]['timeout']
    faults,       \* the faults so far, for the bound
    monitorOn     \* whether the threads of the monitor run

statusVars == <<alive, timeout, faults, monitorOn>>

StatusTypeOK ==
    /\ alive \subseteq Servers
    /\ timeout \in [Servers -> BOOLEAN]
    /\ faults \in 0..MaxFaults
    /\ monitorOn \in BOOLEAN

StatusInit ==
    /\ alive = Servers
    /\ timeout = [s \in Servers |-> FALSE]
    /\ faults = 0
    /\ monitorOn = TRUE

\* As many rounds without an answer as mpi_monitor_status_service_timeout asks.
TimesOut(s) ==
    /\ monitorOn
    /\ ~timeout[s]
    /\ s \in Faulty
    /\ \/ s \notin alive /\ UNCHANGED faults
       \/ s \in alive /\ faults < MaxFaults /\ faults' = faults + 1
    /\ timeout' = [timeout EXCEPT ![s] = TRUE]
    /\ UNCHANGED <<alive, monitorOn>>

\* The answer to a ping comes after all; the last one may be of a dead server.
Recovers(s) ==
    /\ monitorOn
    /\ timeout[s]
    /\ \/ s \in alive /\ UNCHANGED faults
       \/ s \notin alive /\ faults < MaxFaults /\ faults' = faults + 1
    /\ timeout' = [timeout EXCEPT ![s] = FALSE]
    /\ UNCHANGED <<alive, monitorOn>>

Die(s) ==
    /\ s \in alive \cap Faulty
    /\ faults < MaxFaults
    /\ faults' = faults + 1
    /\ alive' = alive \ {s}
    /\ UNCHANGED <<timeout, monitorOn>>

\* MPIMonitorClient::stop_services
StopMonitor ==
    /\ monitorOn
    /\ monitorOn' = FALSE
    /\ UNCHANGED <<alive, timeout, faults>>

StatusNext ==
    \/ \E s \in Servers : TimesOut(s) \/ Recovers(s) \/ Die(s)
    \/ StopMonitor

StatusSpec == StatusInit /\ [][StatusNext]_statusVars

=============================================================================
