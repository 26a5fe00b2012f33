----------------------------- MODULE MPIMonitor -----------------------------
(***************************************************************************)
(* mpi4casa/MPIMonitorClient.py and MPIMonitorServer.py: how the client of   *)
(* a parallel session tells which of its MPI servers still answer.  One      *)
(* thread of the client pings the servers, another one receives their        *)
(* answers; both write the status of a server without a lock.  The monitor's *)
(* clock is not modelled: any ping that has no answer yet may be one that is *)
(* answered too late.                                                       *)
(***************************************************************************)
EXTENDS ServerStatus

VARIABLES
    ping,         \* the ping under way to or from each server
    pongPending,  \* server_status_list[rank]['pong_pending']
    pinged        \* the server the monitor has sent a ping it has not noted yet

pingVars == <<ping, pongPending, pinged>>
monitorVars == <<statusVars, pingVars>>

MonitorTypeOK ==
    /\ StatusTypeOK
    /\ ping \in [Servers -> {"none", "request", "response"}]
    /\ pongPending \in [Servers -> BOOLEAN]
    /\ pinged \in Servers \cup {NoServer}

MonitorInit ==
    /\ StatusInit
    /\ ping = [s \in Servers |-> "none"]
    /\ pongPending = [s \in Servers |-> FALSE]
    /\ pinged = NoServer

-----------------------------------------------------------------------------
(* The monitor status service.                                              *)

SendPing(s) ==
    /\ monitorOn
    /\ pinged = NoServer
    /\ ~pongPending[s]
    /\ ping' = [ping EXCEPT ![s] = "request"]
    /\ pinged' = s
    /\ UNCHANGED <<statusVars, pongPending>>

NotePing ==
    /\ monitorOn
    /\ pinged # NoServer
    /\ pongPending' = [pongPending EXCEPT ![pinged] = TRUE]
    /\ pinged' = NoServer
    /\ UNCHANGED <<statusVars, ping>>

CheckPong(s) ==
    /\ pinged = NoServer
    /\ pongPending[s]
    /\ TimesOut(s)
    /\ UNCHANGED pingVars

\* The monitor stops when its thread has ended its round.
StopServices ==
    /\ pinged = NoServer
    /\ StopMonitor
    /\ UNCHANGED pingVars

(* The ping status response handler service.                                *)

ReceivePong(s) ==
    /\ monitorOn
    /\ ping[s] = "response"
    /\ ping' = [ping EXCEPT ![s] = "none"]
    /\ pongPending' = [pongPending EXCEPT ![s] = FALSE]
    /\ \/ timeout[s] /\ Recovers(s)
       \/ ~timeout[s] /\ UNCHANGED statusVars
    /\ UNCHANGED pinged

(* The server's ping status request handler service.                        *)

AnswerPing(s) ==
    /\ s \in alive
    /\ ping[s] = "request"
    /\ ping' = [ping EXCEPT ![s] = "response"]
    /\ UNCHANGED <<statusVars, pongPending, pinged>>

ServerDies(s) == Die(s) /\ UNCHANGED pingVars

MonitorNext ==
    \/ NotePing
    \/ \E s \in Servers :
        SendPing(s) \/ CheckPong(s) \/ ReceivePong(s) \/ AnswerPing(s)
            \/ ServerDies(s)
    \/ StopServices

\* Both threads of the client and the thread of each server keep running.
MonitorFairness ==
    /\ WF_monitorVars(NotePing)
    /\ \A s \in Servers :
        /\ WF_monitorVars(SendPing(s))
        /\ WF_monitorVars(CheckPong(s))
        /\ WF_monitorVars(ReceivePong(s))
        /\ WF_monitorVars(AnswerPing(s))

MonitorSpec == MonitorInit /\ [][MonitorNext]_monitorVars /\ MonitorFairness

-----------------------------------------------------------------------------
(* What the test test_server_timeout_recovery (test_mpi4casa.py:890) waits    *)
(* for, "Wait until server has recovered": a server that is alive does not    *)
(* stay in timeout while it is monitored.  It does when its answer to a ping  *)
(* comes before the monitor notes the ping as pending                         *)
(* (MPIMonitorClient.py:120): it is then never pinged again.                    *)
ServerRecovers ==
    \A s \in Servers :
        timeout[s] ~> (~timeout[s] \/ s \notin alive \/ ~monitorOn)

=============================================================================
