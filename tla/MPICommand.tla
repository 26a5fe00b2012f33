----------------------------- MODULE MPICommand -----------------------------
(***************************************************************************)
(* mpi4casa/MPICommandClient.py and MPICommandServer.py: an application     *)
(* pushes command requests, a thread of the client sends each to a server   *)
(* that is free, the server executes it and answers, another thread of the  *)
(* client receives the answers.  The threads share the request and response *)
(* lists, the status of the servers and two events; only the input queue    *)
(* has a lock.  A step is what a thread does between two moments at which    *)
(* what another thread does could matter to it.                              *)
(***************************************************************************)
EXTENDS ServerStatus, SequencesExt

CONSTANTS
    MaxRequests,   \* bound: the requests an application registers
    MaySendFail,   \* whether the sending of a request may raise an exception
    Targets,       \* the target_server values the application gives
    Results        \* what executing a command can give

Requests == 1..MaxRequests
NoRequest == 0

ASSUME CommandAssumption ==
    /\ MaxRequests \in Nat \ {0}
    /\ MaySendFail \in BOOLEAN
    /\ \A servers \in Targets :
            servers # {} /\ (servers \subseteq Servers \/ servers = {NoServer})
    /\ Results \cap {"none", "unsent", "timeout"} = {}

VARIABLES
    counter,        \* command_request_counter
    target,         \* the server each request was registered for
    server,         \* command_request_list[id]['server']
    response,       \* command_response_list[id]['successful']
    input,          \* command_request_input_queue
    queue,          \* command_request_queue
    matching,       \* matching_command_request_id_list
    queuePc,        \* where the command request queue service is
    inHand,         \* the request it has taken from the queue
    queueOn,        \* command_request_queue_service_on
    queueEvent,     \* command_request_queue_service_event_controller
    responsePc,     \* where the command response handler service is
    arrived,        \* the answer it has received
    responseOn,     \* command_response_handler_service_on
    responseEvent,  \* command_response_handler_service_event_controller
    busy,           \* server_status_list[rank]['busy']
    mainPc,         \* where the application's call of the client is
    call,           \* the arguments and locals of that call
    told,           \* what get_command_response has returned for a request
    group,          \* command_group_response_list, for the group waited for
    requests,       \* the command requests on their way to each server
    executing,      \* the request each server executes
    answers,        \* the responses on their way from each server
    result          \* what executing a request has given

submitVars == <<counter, target>>
listVars == <<server, response>>
queueVars == <<input, queue, matching, queuePc, inHand, queueOn>>
handlerVars == <<responsePc, arrived, responseOn>>
eventVars == <<queueEvent, responseEvent>>
mainVars == <<mainPc, call, told>>
serverVars == <<requests, executing, answers, result>>
commandVars == <<submitVars, listVars, queueVars, handlerVars, eventVars,
                 busy, mainVars, group, serverVars>>
vars == <<statusVars, commandVars>>

Registered == 1..(counter - 1)
AllAnswered == \A id \in Registered : response[id] # "none"

NoCall == [left |-> {}, ids |-> {}, pending |-> {}, block |-> FALSE]
NoGroup == [list |-> {}, keyless |-> {}, event |-> FALSE]
NoAnswer == [id |-> NoRequest, successful |-> "none"]

CallValue == [left : SUBSET (Servers \cup {NoServer}), ids : SUBSET Requests,
              pending : SUBSET Requests, block : BOOLEAN]
AnswerValue == [id : Requests, successful : Results]

TypeOK ==
    /\ StatusTypeOK
    /\ counter \in 1..(MaxRequests + 1)
    /\ target \in [Requests -> Servers \cup {NoServer}]
    /\ server \in [Requests -> Servers \cup {NoServer}]
    /\ response \in [Requests -> Results \cup {"none", "unsent"}]
    /\ input \in Seq(Requests)
    /\ queue \in Seq(Requests)
    /\ matching \subseteq Requests
    /\ queuePc \in {"check", "wait", "match", "pop", "clear", "send",
                    "stopped"}
    /\ inHand \in Requests \cup {NoRequest}
    /\ queueOn \in BOOLEAN
    /\ queueEvent \in BOOLEAN
    /\ responsePc \in {"check", "wait", "store", "clear", "finish", "stopped"}
    /\ arrived \in AnswerValue \cup {NoAnswer}
    /\ responseOn \in BOOLEAN
    /\ responseEvent \in BOOLEAN
    /\ busy \in [Servers -> BOOLEAN]
    /\ mainPc \in {"ready", "register", "wakeQueue", "wakeHandler", "block",
                   "keys", "groupWait", "stopQueue", "stopHandler", "stopping",
                   "stopped"}
    /\ call \in CallValue
    /\ told \in [Requests -> Results \cup {"none", "unsent", "timeout"}]
    /\ group \in [list : SUBSET Requests, keyless : SUBSET Requests,
                  event : BOOLEAN]
    /\ requests \in [Servers -> Seq(Requests)]
    /\ executing \in [Servers -> Requests \cup {NoRequest}]
    /\ answers \in [Servers -> Seq(AnswerValue)]
    /\ result \in [Requests -> Results \cup {"none"}]

Init ==
    /\ StatusInit
    /\ counter = 1
    /\ target = [id \in Requests |-> NoServer]
    /\ server = [id \in Requests |-> NoServer]
    /\ response = [id \in Requests |-> "none"]
    /\ input = <<>>
    /\ queue = <<>>
    /\ matching = {}
    /\ queuePc = "check"
    /\ inHand = NoRequest
    /\ queueOn = TRUE
    /\ queueEvent = FALSE
    /\ responsePc = "check"
    /\ arrived = NoAnswer
    /\ responseOn = TRUE
    /\ responseEvent = FALSE
    /\ busy = [s \in Servers |-> FALSE]
    /\ mainPc = "ready"
    /\ call = NoCall
    /\ told = [id \in Requests |-> "none"]
    /\ group = NoGroup
    /\ requests = [s \in Servers |-> <<>>]
    /\ executing = [s \in Servers |-> NoRequest]
    /\ answers = [s \in Servers |-> <<>>]
    /\ result = [id \in Requests |-> "none"]

-----------------------------------------------------------------------------
(* The application: push_command_request, get_command_response,             *)
(* get_command_response_event and stop_services.                            *)

\* A list of servers is refused when one of them has timed out, a single
\* server is not.
ValidTarget(servers) ==
    Cardinality(servers) > 1 => \A s \in servers : ~timeout[s]

Push(servers, block) ==
    /\ mainPc = "ready"
    /\ counter + Cardinality(servers) <= MaxRequests + 1
    /\ ValidTarget(servers)
    /\ mainPc' = "register"
    /\ call' = [NoCall EXCEPT !.left = servers, !.block = block]
    /\ UNCHANGED <<statusVars, submitVars, listVars, queueVars, handlerVars,
                   eventVars, busy, told, group, serverVars>>

Register(s) ==
    /\ mainPc = "register"
    /\ s \in call.left
    /\ counter' = counter + 1
    /\ target' = [target EXCEPT ![counter] = s]
    /\ server' = [server EXCEPT ![counter] = s]
    /\ input' = Append(input, counter)
    /\ call' = [call EXCEPT !.left = @ \ {s}, !.ids = @ \cup {counter}]
    /\ mainPc' = IF call'.left = {} THEN "wakeQueue" ELSE "register"
    /\ UNCHANGED <<statusVars, response, queue, matching, queuePc, inHand,
                   queueOn, handlerVars, eventVars, busy, told, group,
                   serverVars>>

WakeQueue ==
    /\ mainPc = "wakeQueue"
    /\ queueEvent' = TRUE
    /\ mainPc' = "wakeHandler"
    /\ UNCHANGED <<statusVars, submitVars, listVars, queueVars, handlerVars,
                   responseEvent, busy, call, told, group, serverVars>>

WakeHandler ==
    /\ mainPc = "wakeHandler"
    /\ responseEvent' = TRUE
    /\ IF call.block
       THEN mainPc' = "block" /\ call' = [call EXCEPT !.pending = call.ids]
       ELSE mainPc' = "ready" /\ call' = NoCall
    /\ UNCHANGED <<statusVars, submitVars, listVars, queueVars, handlerVars,
                   queueEvent, busy, told, group, serverVars>>

\* get_command_response(..., block = True) of requests pushed before.
Uncollected == {id \in Registered : told[id] \in {"none", "timeout"}}

Collect ==
    /\ mainPc = "ready"
    /\ Uncollected # {}
    /\ mainPc' = "block"
    /\ call' = [NoCall EXCEPT !.ids = Uncollected, !.pending = Uncollected]
    /\ UNCHANGED <<statusVars, submitVars, listVars, queueVars, handlerVars,
                   eventVars, busy, told, group, serverVars>>

\* One look of blocking_loop at a request.
LookAt(id) ==
    /\ mainPc = "block"
    /\ id \in call.pending
    /\ \/ response[id] # "none"
       \/ server[id] # NoServer /\ timeout[server[id]]
    /\ call' = [call EXCEPT !.pending = @ \ {id}]
    /\ UNCHANGED <<statusVars, submitVars, listVars, queueVars, handlerVars,
                   eventVars, busy, mainPc, told, group, serverVars>>

\* blocking_gather_response_list
Gather ==
    /\ mainPc = "block"
    /\ call.pending = {}
    /\ told' = [id \in Requests |->
                    IF id \notin call.ids THEN told[id]
                    ELSE IF response[id] = "none" THEN "timeout"
                    ELSE response[id]]
    /\ mainPc' = "ready"
    /\ call' = NoCall
    /\ UNCHANGED <<statusVars, submitVars, listVars, queueVars, handlerVars,
                   eventVars, busy, group, serverVars>>

\* get_command_response_event enters the group, and then the group in each
\* request; the caller waits for the event.
MakeGroup ==
    /\ mainPc = "ready"
    /\ Uncollected # {}
    /\ group' = [list |-> Uncollected, keyless |-> Uncollected, event |-> FALSE]
    /\ mainPc' = "keys"
    /\ UNCHANGED <<statusVars, submitVars, listVars, queueVars, handlerVars,
                   eventVars, busy, call, told, serverVars>>

KeyRequest(id) ==
    /\ mainPc = "keys"
    /\ id \in group.keyless
    /\ \A other \in group.keyless : id <= other
    /\ group' = [group EXCEPT !.keyless = @ \ {id}]
    /\ mainPc' = IF group'.keyless = {} THEN "groupWait" ELSE "keys"
    /\ UNCHANGED <<statusVars, submitVars, listVars, queueVars, handlerVars,
                   eventVars, busy, call, told, serverVars>>

GroupReady ==
    /\ mainPc = "groupWait"
    /\ group.event
    /\ mainPc' = "block"
    /\ group' = NoGroup
    /\ call' = [NoCall EXCEPT !.ids = Uncollected, !.pending = Uncollected]
    /\ UNCHANGED <<statusVars, submitVars, listVars, queueVars, handlerVars,
                   eventVars, busy, told, serverVars>>

Stop ==
    /\ mainPc = "ready"
    /\ StopMonitor
    /\ mainPc' = "stopQueue"
    /\ UNCHANGED <<submitVars, listVars, queueVars, handlerVars, eventVars,
                   busy, call, told, group, serverVars>>

\* As it would be if the queue service were stopped but not woken.
StopQueueAsleep ==
    /\ mainPc = "stopQueue"
    /\ queueOn' = FALSE
    /\ mainPc' = "stopHandler"
    /\ UNCHANGED <<statusVars, submitVars, listVars, input, queue, matching,
                   queuePc, inHand, handlerVars, eventVars, busy, call, told,
                   group, serverVars>>

StopQueue ==
    /\ mainPc = "stopQueue"
    /\ queueOn' = FALSE
    /\ queueEvent' = TRUE
    /\ mainPc' = "stopHandler"
    /\ UNCHANGED <<statusVars, submitVars, listVars, input, queue, matching,
                   queuePc, inHand, handlerVars, responseEvent, busy, call,
                   told, group, serverVars>>

StopHandler ==
    /\ mainPc = "stopHandler"
    /\ queuePc = "stopped"
    /\ responseOn' = FALSE
    /\ responseEvent' = TRUE
    /\ mainPc' = "stopping"
    /\ UNCHANGED <<statusVars, submitVars, listVars, queueVars, responsePc,
                   arrived, queueEvent, busy, call, told, group, serverVars>>

Stopped ==
    /\ mainPc = "stopping"
    /\ responsePc = "stopped"
    /\ mainPc' = "stopped"
    /\ UNCHANGED <<statusVars, submitVars, listVars, queueVars, handlerVars,
                   eventVars, busy, call, told, group, serverVars>>

Application ==
    \/ \E servers \in Targets, block \in BOOLEAN : Push(servers, block)
    \/ \E s \in Servers \cup {NoServer} : Register(s)
    \/ \E id \in Requests : LookAt(id) \/ KeyRequest(id)
    \/ WakeQueue \/ WakeHandler \/ Gather
    \/ Collect \/ MakeGroup \/ GroupReady
    \/ Stop \/ StopQueue \/ StopHandler \/ Stopped

-----------------------------------------------------------------------------
(* The command request queue service.                                       *)

QueueEnd ==
    /\ queuePc = "check"
    /\ ~queueOn
    /\ queuePc' = "stopped"
    /\ UNCHANGED <<input, queue, matching, inHand, queueOn, listVars, busy,
                   eventVars, serverVars>>

\* As it would be if the input queue were not looked at before the wait.
QueueWaitUnlooked ==
    /\ queuePc = "check"
    /\ queueOn
    /\ queue = <<>>
    /\ queuePc' = "wait"
    /\ UNCHANGED <<input, queue, matching, inHand, queueOn, listVars, busy,
                   eventVars, serverVars>>

QueueWait ==
    /\ queuePc = "check"
    /\ queueOn
    /\ queue = <<>> /\ input = <<>>
    /\ queuePc' = "wait"
    /\ UNCHANGED <<input, queue, matching, inHand, queueOn, listVars, busy,
                   eventVars, serverVars>>

\* As it would be if the input queue were put before the queue.
PickUpBefore ==
    /\ \/ queuePc = "wait" /\ queueEvent
       \/ queuePc = "check" /\ queueOn /\ (queue # <<>> \/ input # <<>>)
    /\ queue' = input \o queue
    /\ input' = <<>>
    /\ queuePc' = "match"
    /\ UNCHANGED <<matching, inHand, queueOn, listVars, busy, eventVars,
                   serverVars>>

\* After the wait, or because there is something in a queue.
PickUp ==
    /\ \/ queuePc = "wait" /\ queueEvent
       \/ queuePc = "check" /\ queueOn /\ (queue # <<>> \/ input # <<>>)
    /\ queue' = queue \o input
    /\ input' = <<>>
    /\ queuePc' = "match"
    /\ UNCHANGED <<matching, inHand, queueOn, listVars, busy, eventVars,
                   serverVars>>

\* As it would be if a busy server counted as available.
AvailableOrBusy == {s \in Servers : ~timeout[s]}

\* get_server_rank_available
Available == {s \in Servers : ~busy[s] /\ ~timeout[s]}

\* As it would be without removing a server from available_servers_left.
SuitsTwice(i) == server[queue[i]] \in Available \cup {NoServer}

\* match_available_servers_with_command_requests: in the order of the queue,
\* a request for any server, or the first one for a server that is available,
\* until there are as many as servers.
Suits(i) ==
    \/ server[queue[i]] = NoServer
    \/ /\ server[queue[i]] \in Available
       /\ \A j \in 1..(i - 1) : server[queue[j]] # server[queue[i]]

Matched ==
    {queue[i] : i \in {k \in DOMAIN queue :
        Suits(k) /\ Cardinality({j \in 1..(k - 1) : Suits(j)})
                        < Cardinality(Available)}}

\* The servers left over go to the requests for any server; which of them to
\* which is the order of a dictionary.
Match ==
    /\ queuePc = "match"
    /\ matching' = Matched
    /\ LET open == {id \in Matched : server[id] = NoServer}
           left == Available \ {server[id] : id \in Matched}
       IN  \E given \in [open -> left] :
            /\ \A a, b \in open : given[a] = given[b] => a = b
            /\ server' = [id \in Requests |->
                            IF id \in open THEN given[id] ELSE server[id]]
    /\ queuePc' = IF Matched = {} THEN "check" ELSE "pop"
    /\ UNCHANGED <<input, queue, inHand, queueOn, response, busy,
                   eventVars, serverVars>>

\* The matching requests are sent in the order of the queue.
Pop ==
    /\ queuePc = "pop"
    /\ \E i \in DOMAIN queue :
        /\ queue[i] \in matching
        /\ \A j \in 1..(i - 1) : queue[j] \notin matching
        /\ inHand' = queue[i]
        /\ matching' = matching \ {queue[i]}
        /\ queue' = RemoveAt(queue, i)
    /\ queuePc' = IF queue' = <<>> THEN "clear" ELSE "send"
    /\ UNCHANGED <<input, queueOn, listVars, busy, eventVars, serverVars>>

QueueClear ==
    /\ queuePc = "clear"
    /\ queueEvent' = FALSE
    /\ queuePc' = "send"
    /\ UNCHANGED <<input, queue, matching, inHand, queueOn, listVars, busy,
                   responseEvent, serverVars>>

NextInHand == IF matching = {} THEN "check" ELSE "pop"

Send ==
    /\ queuePc = "send"
    /\ busy' = [busy EXCEPT ![server[inHand]] = TRUE]
    /\ requests' = [requests EXCEPT ![server[inHand]] = Append(@, inHand)]
    /\ inHand' = NoRequest
    /\ queuePc' = NextInHand
    /\ UNCHANGED <<input, queue, matching, queueOn, listVars, eventVars,
                   executing, answers, result>>

\* The exception of a send: a simulated response, the server stays busy.
SendFails ==
    /\ queuePc = "send"
    /\ MaySendFail /\ faults < MaxFaults
    /\ faults' = faults + 1
    /\ busy' = [busy EXCEPT ![server[inHand]] = TRUE]
    /\ response' = [response EXCEPT ![inHand] = "unsent"]
    /\ inHand' = NoRequest
    /\ queuePc' = NextInHand
    /\ UNCHANGED <<alive, timeout, monitorOn, input, queue, matching, queueOn,
                   server, eventVars, serverVars>>

QueueService ==
    /\ \/ SendFails
       \/ /\ \/ QueueEnd \/ QueueWait \/ PickUp \/ Match \/ Pop \/ QueueClear
             \/ Send
          /\ UNCHANGED statusVars
    /\ UNCHANGED <<submitVars, handlerVars, mainVars, group>>

-----------------------------------------------------------------------------
(* The command response handler service.                                    *)

HandlerEnd ==
    /\ responsePc = "check"
    /\ ~responseOn
    /\ responsePc' = "stopped"
    /\ UNCHANGED <<arrived, responseOn, listVars, busy, eventVars, group,
                   serverVars>>

HandlerWait ==
    /\ responsePc = "check"
    /\ responseOn
    /\ AllAnswered
    /\ responsePc' = "wait"
    /\ UNCHANGED <<arrived, responseOn, listVars, busy, eventVars, group,
                   serverVars>>

\* After the wait, or because a response is missing.
Probing ==
    \/ responsePc = "wait" /\ responseEvent
    \/ responsePc = "check" /\ responseOn /\ ~AllAnswered

\* As it would be if the server were not marked as not busy.
ReceiveOnly(s) ==
    /\ Probing
    /\ answers[s] # <<>>
    /\ arrived' = Head(answers[s])
    /\ answers' = [answers EXCEPT ![s] = Tail(@)]
    /\ responsePc' = "store"
    /\ UNCHANGED <<responseOn, listVars, busy, eventVars, group, requests,
                   executing, result>>

Receive(s) ==
    /\ Probing
    /\ answers[s] # <<>>
    /\ arrived' = Head(answers[s])
    /\ answers' = [answers EXCEPT ![s] = Tail(@)]
    /\ busy' = [busy EXCEPT ![s] = FALSE]
    /\ responsePc' = "store"
    /\ UNCHANGED <<responseOn, listVars, eventVars, group, requests, executing,
                   result>>

NothingToReceive ==
    /\ responsePc = "wait" /\ responseEvent
    /\ \A s \in Servers : answers[s] = <<>>
    /\ responsePc' = "check"
    /\ UNCHANGED <<arrived, responseOn, listVars, busy, eventVars, group,
                   serverVars>>

\* As it would be if a late response were a timeout.
StoreTimeout ==
    /\ responsePc = "store"
    /\ response' = [response EXCEPT ![arrived.id] =
            IF timeout[server[arrived.id]] THEN "timeout" ELSE arrived.successful]
    /\ responsePc' = "finish"
    /\ UNCHANGED <<arrived, responseOn, server, busy, eventVars, group,
                   serverVars>>

Store ==
    /\ responsePc = "store"
    /\ response' = [response EXCEPT ![arrived.id] = arrived.successful]
    /\ responsePc' = IF \A id \in Registered : response'[id] # "none"
                     THEN "clear" ELSE "finish"
    /\ UNCHANGED <<arrived, responseOn, server, busy, eventVars, group,
                   serverVars>>

HandlerClear ==
    /\ responsePc = "clear"
    /\ responseEvent' = FALSE
    /\ responsePc' = "finish"
    /\ UNCHANGED <<arrived, responseOn, listVars, busy, queueEvent, group,
                   serverVars>>

\* The group the request belongs to, when it has the key.
Finish ==
    /\ responsePc = "finish"
    /\ IF arrived.id \in group.list \ group.keyless
       THEN LET list == group.list \ {arrived.id}
            IN  group' = [group EXCEPT !.list = list, !.event = (list = {})]
       ELSE UNCHANGED group
    /\ arrived' = NoAnswer
    /\ responsePc' = "check"
    /\ UNCHANGED <<responseOn, listVars, busy, eventVars, serverVars>>

ResponseHandler ==
    /\ \/ HandlerEnd \/ HandlerWait \/ NothingToReceive \/ Store
       \/ HandlerClear \/ Finish
       \/ \E s \in Servers : Receive(s)
    /\ UNCHANGED <<statusVars, submitVars, queueVars, mainVars>>

-----------------------------------------------------------------------------
(* The command request handler service of a server.                         *)

ServerReceive(s) ==
    /\ s \in alive
    /\ executing[s] = NoRequest
    /\ requests[s] # <<>>
    /\ executing' = [executing EXCEPT ![s] = Head(requests[s])]
    /\ requests' = [requests EXCEPT ![s] = Tail(@)]
    /\ UNCHANGED <<answers, result>>

ServerAnswer(s, successful) ==
    /\ s \in alive
    /\ executing[s] # NoRequest
    /\ result' = [result EXCEPT ![executing[s]] = successful]
    /\ answers' = [answers EXCEPT ![s] =
            Append(@, [id |-> executing[s], successful |-> successful])]
    /\ executing' = [executing EXCEPT ![s] = NoRequest]
    /\ UNCHANGED requests

Server(s) ==
    /\ \/ ServerReceive(s)
       \/ \E successful \in Results : ServerAnswer(s, successful)
    /\ UNCHANGED <<statusVars, submitVars, listVars, queueVars, handlerVars,
                   eventVars, busy, mainVars, group>>

Status ==
    /\ \E s \in Servers : TimesOut(s) \/ Recovers(s) \/ Die(s)
    /\ UNCHANGED commandVars

Next ==
    \/ Application
    \/ QueueService
    \/ ResponseHandler
    \/ \E s \in Servers : Server(s)
    \/ Status

\* The threads of the client run on, so do the servers that are alive, and a
\* dead one is found to be; a server alive need not recover.  The application
\* ends the calls it has begun, but need not begin another.
Fairness ==
    /\ WF_vars(QueueService)
    /\ WF_vars(ResponseHandler)
    /\ \A s \in Servers :
        /\ WF_vars(Server(s))
        /\ WF_vars(s \notin alive /\ TimesOut(s) /\ UNCHANGED commandVars)
    /\ WF_vars(Application /\ mainPc # "ready")

Spec == Init /\ [][Next]_vars /\ Fairness

-----------------------------------------------------------------------------
(* Properties.                                                              *)

Outstanding(s) ==
    Len(requests[s]) + Len(answers[s])
        + (IF executing[s] = NoRequest THEN 0 ELSE 1)

\* A request that could not be sent has taken a server for good.
Lost(s) == \E id \in Requests : response[id] = "unsent" /\ server[id] = s

(* A server has at most one command at a time, from the sending of the        *)
(* request to the receipt of the response, and counts as busy meanwhile:     *)
(* the queue service decides from a copy of the status of the servers while   *)
(* the response handler and the monitor change it.                            *)
OneCommandPerServer ==
    \A s \in Servers :
        /\ Outstanding(s) <= 1
        /\ Outstanding(s) = 1 => busy[s]

(* No server is forgotten: one that counts as busy has a command, except     *)
(* after the exception of a send.                                             *)
NoServerLeaked ==
    \A s \in Servers : busy[s] => Outstanding(s) = 1 \/ Lost(s)

(* A service that waits for its event with the event cleared has nothing to   *)
(* do, or the application is about to set the event: the services clear the   *)
(* events they wait for while the application sets them.                      *)
NoLostWakeup ==
    /\ queuePc = "wait" /\ ~queueEvent =>
        /\ queue = <<>>
        /\ input = <<>> \/ mainPc \in {"register", "wakeQueue"}
    /\ responsePc = "wait" /\ ~responseEvent =>
        AllAnswered \/ mainPc \in {"register", "wakeQueue", "wakeHandler"}

Queued(id) == id \in ToSet(input) \cup ToSet(queue)

(* Of two requests with the same target the one pushed first leaves the       *)
(* queue first, whatever servers come and go.                                 *)
FirstComeFirstSent ==
    \A a, b \in Registered :
        a < b /\ target[a] = target[b] /\ ~Queued(b) => ~Queued(a)

(* How far a request is, as JobQueue sees it.                                *)
Stage(id) ==
    IF id \notin Registered THEN "absent"
    ELSE IF response[id] = "unsent" THEN "refused"
    ELSE IF \E s \in Servers : executing[s] = id \/ id \in ToSet(requests[s])
         THEN "running"
    ELSE IF \E s \in Servers : \E a \in ToSet(answers[s]) : a.id = id
         THEN "finished"
    ELSE IF arrived.id = id \/ response[id] # "none" THEN "collected"
    ELSE "submitted"

Jobs == INSTANCE JobQueue WITH
    Jobs     <- Requests,
    Outcomes <- Results,
    job      <- [id \in Requests |-> Stage(id)],
    meantFor <- target,
    runner   <- [id \in Requests |->
                    IF Stage(id) \in {"running", "finished", "collected"}
                    THEN server[id] ELSE NoServer],
    outcome  <- [id \in Requests |->
                    IF response[id] = "unsent" THEN "unsent" ELSE result[id]]

(* The threads, the queues and the messages together give the application a   *)
(* job queue: each request runs at most once, where it was meant to, alone,   *)
(* and the application is told what it gave.                                  *)
IsJobQueue == Jobs!Spec

(* A blocking call returns unless the exception of a send has taken a server  *)
(* or all servers are in timeout, so that one that fails alone does not stop   *)
(* it; and stop_services ends whatever the services are doing.                 *)
CallsReturn ==
    (mainPc \in {"block", "stopQueue"}) ~>
        \/ mainPc \in {"ready", "stopped"}
        \/ /\ mainPc = "block"
           /\ (\E s \in Servers : Lost(s)) \/ (\A s \in Servers : timeout[s])

(* What MPICommandClient.py:186 says of a group, "If there are no requests    *)
(* pending from this group send the group response signal": who waits for a   *)
(* group is woken.  It is not when a response has come before the request got *)
(* the key of its group, nor when a request could not be sent.                *)
GroupSignalled == (mainPc = "groupWait") ~> (mainPc = "block")

=============================================================================
