-------------------------- MODULE MPICommandProofs --------------------------
(***************************************************************************)
(* For any number of servers and requests: a server never has two commands. *)
(* Then, where each request is: it waits in the queues in the order of its   *)
(* registration, then one server has it, then its answer comes back.  From   *)
(* that follow the types, that no server is forgotten, that no wakeup is     *)
(* lost, the order of the sending, and that the command client is a job      *)
(* queue.  At the end, the monitor that tells which servers still answer.    *)
(***************************************************************************)
EXTENDS MPICommand, MPIMonitor, FiniteSetTheorems, SequenceTheorems, TLAPS

\* The types the proofs need.
CommandTypes ==
    /\ counter \in Nat \ {0}
    /\ server \in [Requests -> Servers \cup {NoServer}]
    /\ response \in [Requests -> Results \cup {"none", "unsent"}]
    /\ input \in Seq(Requests)
    /\ queue \in Seq(Requests)
    /\ matching \subseteq Requests
    /\ queuePc \in {"clear", "send"} => inHand \in Requests
    /\ busy \in [Servers -> BOOLEAN]
    /\ requests \in [Servers -> Seq(Requests)]
    /\ executing \in [Servers -> Requests \cup {NoRequest}]
    /\ answers \in [Servers -> Seq(AnswerValue)]
    /\ responsePc = "store" => arrived \in AnswerValue

\* What is in the queues has been registered.
QueuesRegistered ==
    /\ \A i \in DOMAIN input : input[i] < counter
    /\ \A i \in DOMAIN queue : queue[i] < counter
    /\ \A id \in matching : id < counter
    /\ queuePc \in {"clear", "send"} => inHand < counter

\* The requests the queue service is about to send.
ToSend == matching \cup (IF queuePc \in {"clear", "send"} THEN {inHand} ELSE {})

\* Each goes to a server of its own, which is free: nobody but the queue service
\* marks a server as busy.
OwnServers ==
    /\ \A id \in ToSend : server[id] \in Servers /\ ~busy[server[id]]
    /\ \A a, b \in ToSend : server[a] = server[b] => a = b
    /\ queuePc \in {"clear", "send"} => inHand \notin matching

CommandInv == CommandTypes /\ QueuesRegistered /\ OwnServers /\ OneCommandPerServer

\* The choice of match_available_servers_with_command_requests.
LEMMA MatchedSuit ==
    ASSUME CommandTypes, NEW id \in Matched
    PROVE  \E i \in DOMAIN queue : queue[i] = id /\ Suits(i) /\ id \in Requests
<1>1. PICK i \in DOMAIN queue : queue[i] = id /\ Suits(i)
  BY DEF Matched
<1>2. queue[i] \in Requests
  BY DEF CommandTypes
<1> QED
  BY <1>1, <1>2

LEMMA MatchOwnServers ==
    ASSUME CommandInv, Match, UNCHANGED <<submitVars, handlerVars>>
    PROVE  OwnServers' /\ CommandTypes' /\ QueuesRegistered'
<1> DEFINE open == {id \in Matched : server[id] = NoServer}
           left == Available \ {server[id] : id \in Matched}
<1> USE StatusAssumption DEF CommandInv
<1>1. PICK given \in [open -> left] :
            /\ \A a, b \in open : given[a] = given[b] => a = b
            /\ server' = [id \in Requests |->
                            IF id \in open THEN given[id] ELSE server[id]]
  BY DEF Match
<1>2. Matched \subseteq Requests
  BY MatchedSuit
<1>3. \A id \in Matched \ open : server[id] \in Available /\ server'[id] = server[id]
  <2> SUFFICES ASSUME NEW id \in Matched \ open
               PROVE  server[id] \in Available /\ server'[id] = server[id]
    OBVIOUS
  <2>1. PICK i \in DOMAIN queue : queue[i] = id /\ Suits(i)
    BY MatchedSuit
  <2>2. server[id] # NoServer
    OBVIOUS
  <2> QED
    BY <1>1, <1>2, <2>1, <2>2 DEF Suits
<1>4. \A id \in open : server'[id] = given[id] /\ given[id] \in left
  BY <1>1, <1>2
<1>5. \A id \in Matched : server'[id] \in Available
  BY <1>3, <1>4
<1>6. \A a, b \in Matched : server'[a] = server'[b] => a = b
  <2> SUFFICES ASSUME NEW a \in Matched, NEW b \in Matched, server'[a] = server'[b]
               PROVE  a = b
    OBVIOUS
  <2>1. CASE a \in open /\ b \in open
    BY <1>1, <1>4, <2>1
  <2>2. CASE a \in open /\ b \notin open
    BY <1>3, <1>4, <2>2
  <2>3. CASE a \notin open /\ b \in open
    BY <1>3, <1>4, <2>3
  <2>4. CASE a \notin open /\ b \notin open
    <3>1. server[a] = server[b] /\ server[a] # NoServer /\ server[b] # NoServer
      BY <1>3, <2>4
    <3>2. PICK i \in DOMAIN queue : queue[i] = a /\ Suits(i)
      BY MatchedSuit
    <3>3. PICK j \in DOMAIN queue : queue[j] = b /\ Suits(j)
      BY MatchedSuit
    <3>4. i \in Nat /\ j \in Nat /\ i >= 1 /\ j >= 1
      BY DEF CommandTypes
    <3>5. ~(i < j)
      <4> SUFFICES ASSUME i < j PROVE FALSE
        OBVIOUS
      <4>1. i \in 1..(j - 1)
        BY <3>4
      <4> QED
        BY <3>1, <3>2, <3>3, <4>1 DEF Suits
    <3>6. ~(j < i)
      <4> SUFFICES ASSUME j < i PROVE FALSE
        OBVIOUS
      <4>1. j \in 1..(i - 1)
        BY <3>4
      <4> QED
        BY <3>1, <3>2, <3>3, <4>1 DEF Suits
    <3> QED
      BY <3>2, <3>3, <3>4, <3>5, <3>6
  <2> QED
    BY <2>1, <2>2, <2>3, <2>4
<1>7. /\ matching' = Matched
      /\ queuePc' \in {"check", "pop"}
      /\ UNCHANGED <<input, queue, busy, response, requests, executing, answers,
                     counter>>
  BY DEF Match, serverVars, submitVars
<1>8. ToSend' = Matched
  BY <1>7 DEF ToSend
<1>9. OwnServers'
  BY <1>5, <1>6, <1>7, <1>8 DEF OwnServers, Available
<1>10. server' \in [Requests -> Servers \cup {NoServer}]
  BY <1>1, <1>2 DEF Available, CommandTypes
<1>11. \A id \in Matched : id < counter
  BY MatchedSuit DEF QueuesRegistered
<1>12. QueuesRegistered'
  BY <1>7, <1>11 DEF QueuesRegistered
<1> QED
  BY <1>2, <1>7, <1>9, <1>10, <1>12 DEF CommandTypes, handlerVars

-----------------------------------------------------------------------------

\* RemoveAt closes the gap it makes, so the sequence keeps its order.
LEMMA RemoveAtSelects ==
    ASSUME NEW S, NEW q \in Seq(S), NEW i \in DOMAIN q
    PROVE  /\ RemoveAt(q, i) \in Seq(S)
           /\ Len(RemoveAt(q, i)) = Len(q) - 1
           /\ \A k \in 1..(Len(q) - 1) :
                RemoveAt(q, i)[k] = q[IF k < i THEN k ELSE k + 1]
<1> DEFINE a == SubSeq(q, 1, i - 1)
           b == SubSeq(q, i + 1, Len(q))
<1>1. /\ i \in 1..Len(q) /\ i \in Int /\ Len(q) \in Nat
      /\ \A n \in 1..Len(q) : q[n] \in S
  OBVIOUS
<1>2. /\ a \in Seq(S) /\ Len(a) = i - 1
      /\ \A n \in 1..(i - 1) : a[n] = q[n]
  BY <1>1
<1>3. /\ b \in Seq(S) /\ Len(b) = Len(q) - i
      /\ \A n \in 1..(Len(q) - i) : b[n] = q[n + i]
  BY <1>1
<1>4. RemoveAt(q, i) = a \o b
  BY DEF RemoveAt
<1> HIDE DEF a, b
<1>5. /\ a \o b \in Seq(S) /\ Len(a \o b) = Len(a) + Len(b)
      /\ \A n \in 1..(Len(a) + Len(b)) :
            (a \o b)[n] = IF n <= Len(a) THEN a[n] ELSE b[n - Len(a)]
  BY <1>2, <1>3, ConcatProperties
<1>6. Len(a) + Len(b) = Len(q) - 1
  BY <1>1, <1>2, <1>3
<1>7. ASSUME NEW k \in 1..(Len(q) - 1)
      PROVE  (a \o b)[k] = q[IF k < i THEN k ELSE k + 1]
  <2>1. CASE k < i
    <3>1. k \in 1..(i - 1) /\ k <= i - 1
      BY <1>1, <2>1
    <3>2. (a \o b)[k] = a[k]
      BY <1>2, <1>5, <1>6, <3>1
    <3> QED
      BY <1>2, <2>1, <3>1, <3>2
  <2>2. CASE ~(k < i)
    <3> DEFINE n == k - (i - 1)
    <3>1. n \in 1..(Len(q) - i) /\ n + i = k + 1 /\ ~(k <= i - 1)
      BY <1>1, <2>2
    <3>2. (a \o b)[k] = b[n]
      BY <1>2, <1>5, <1>6, <3>1
    <3> HIDE DEF n
    <3>3. b[n] = q[k + 1]
      BY <1>3, <3>1
    <3> QED
      BY <2>2, <3>2, <3>3
  <2> QED
    BY <2>1, <2>2
<1> QED
  BY <1>4, <1>5, <1>6, <1>7

\* What Outstanding counts.
LEMMA OutstandingNat ==
    ASSUME CommandTypes, NEW s \in Servers
    PROVE  /\ Len(requests[s]) \in Nat /\ Len(answers[s]) \in Nat
           /\ Outstanding(s) \in Nat
  BY DEF CommandTypes, Outstanding

LEMMA SendKeeps ==
    ASSUME CommandInv, Send, UNCHANGED <<submitVars, handlerVars>>
    PROVE  CommandInv'
<1> DEFINE s == server[inHand]
<1> USE DEF CommandInv
<1>1. inHand \in Requests /\ s \in Servers /\ ~busy[s] /\ inHand \notin matching
  BY DEF Send, OwnServers, ToSend, CommandTypes
<1>2. /\ busy' = [busy EXCEPT ![s] = TRUE]
      /\ requests' = [requests EXCEPT ![s] = Append(@, inHand)]
      /\ queuePc' \in {"check", "pop"}
      /\ UNCHANGED <<input, queue, matching, server, response, executing, answers,
                     counter, responsePc, arrived>>
  BY DEF Send, NextInHand, listVars, submitVars, handlerVars
<1>3. CommandTypes'
  BY <1>1, <1>2 DEF CommandTypes
<1>4. QueuesRegistered'
  BY <1>2 DEF QueuesRegistered
<1>5. ToSend' = matching
  BY <1>2 DEF ToSend
<1>6. \A id \in matching : server[id] \in Servers /\ server[id] # s /\ ~busy[server[id]]
  BY <1>1 DEF OwnServers, ToSend, Send
<1>7. OwnServers'
  BY <1>2, <1>5, <1>6 DEF OwnServers, ToSend, CommandTypes
<1>8. OneCommandPerServer'
  <2> SUFFICES ASSUME NEW t \in Servers
               PROVE  Outstanding(t)' <= 1 /\ (Outstanding(t)' = 1 => busy'[t])
    BY DEF OneCommandPerServer
  <2>1. CASE t = s
    <3>1. Outstanding(t) = 0
      BY <1>1, <2>1, OutstandingNat DEF OneCommandPerServer
    <3>2. Outstanding(t)' = Outstanding(t) + 1
      BY <1>1, <1>2, <2>1, OutstandingNat DEF Outstanding, CommandTypes
    <3>3. busy'[t]
      BY <1>2, <2>1 DEF CommandTypes
    <3> QED
      BY <3>1, <3>2, <3>3
  <2>2. CASE t # s
    <3>1. Outstanding(t)' = Outstanding(t) /\ busy'[t] = busy[t]
      BY <1>1, <1>2, <2>2 DEF Outstanding, CommandTypes
    <3> QED
      BY <3>1 DEF OneCommandPerServer
  <2> QED
    BY <2>1, <2>2
<1> QED
  BY <1>3, <1>4, <1>7, <1>8

LEMMA SendFailsKeeps ==
    ASSUME CommandInv, SendFails, UNCHANGED <<submitVars, handlerVars>>
    PROVE  CommandInv'
<1> DEFINE s == server[inHand]
<1> USE DEF CommandInv
<1>1. inHand \in Requests /\ s \in Servers /\ inHand \notin matching
  BY DEF SendFails, OwnServers, ToSend, CommandTypes
<1>2. /\ busy' = [busy EXCEPT ![s] = TRUE]
      /\ response' = [response EXCEPT ![inHand] = "unsent"]
      /\ queuePc' \in {"check", "pop"}
      /\ UNCHANGED <<input, queue, matching, server, requests, executing, answers,
                     counter, responsePc, arrived>>
  BY DEF SendFails, NextInHand, serverVars, submitVars, handlerVars
<1>3. CommandTypes'
  BY <1>1, <1>2 DEF CommandTypes
<1>4. QueuesRegistered'
  BY <1>2 DEF QueuesRegistered
<1>5. ToSend' = matching
  BY <1>2 DEF ToSend
<1>6. \A id \in matching : server[id] \in Servers /\ server[id] # s /\ ~busy[server[id]]
  BY <1>1 DEF OwnServers, ToSend, SendFails
<1>7. OwnServers'
  BY <1>2, <1>5, <1>6 DEF OwnServers, ToSend, CommandTypes
<1>8. \A t \in Servers : Outstanding(t)' = Outstanding(t) /\ (busy[t] => busy'[t])
  BY <1>2 DEF Outstanding, CommandTypes
<1>9. OneCommandPerServer'
  BY <1>8 DEF OneCommandPerServer
<1> QED
  BY <1>3, <1>4, <1>7, <1>9

LEMMA PopKeeps ==
    ASSUME CommandInv, Pop, UNCHANGED <<submitVars, handlerVars>>
    PROVE  CommandInv'
<1> USE DEF CommandInv
<1>1. PICK i \in DOMAIN queue :
        /\ queue[i] \in matching
        /\ inHand' = queue[i]
        /\ matching' = matching \ {queue[i]}
        /\ queue' = RemoveAt(queue, i)
  BY DEF Pop
<1>2. /\ queuePc = "pop"
      /\ queuePc' \in {"clear", "send"}
      /\ UNCHANGED <<input, server, response, busy, requests, executing, answers,
                     counter, responsePc, arrived>>
  BY DEF Pop, listVars, serverVars, submitVars, handlerVars
<1>3. /\ queue' \in Seq(Requests)
      /\ \A k \in DOMAIN queue' : \E j \in DOMAIN queue : queue'[k] = queue[j]
  <2>1. /\ queue' \in Seq(Requests) /\ Len(queue') = Len(queue) - 1
        /\ \A k \in 1..(Len(queue) - 1) :
            queue'[k] = queue[IF k < i THEN k ELSE k + 1]
    BY <1>1, RemoveAtSelects DEF CommandTypes
  <2>2. queue \in Seq(Requests)
    BY DEF CommandTypes
  <2>3. ASSUME NEW k \in DOMAIN queue'
        PROVE  \E j \in DOMAIN queue : queue'[k] = queue[j]
    <3>1. k \in 1..(Len(queue) - 1) /\ k \in DOMAIN queue /\ k + 1 \in DOMAIN queue
      BY <2>1, <2>2
    <3> QED
      BY <2>1, <3>1
  <2> QED
    BY <2>1, <2>3
<1>4. ToSend' = ToSend /\ inHand' \in Requests
  BY <1>1, <1>2 DEF ToSend, CommandTypes
<1>5. CommandTypes'
  BY <1>1, <1>2, <1>3, <1>4 DEF CommandTypes
<1>6. QueuesRegistered'
  BY <1>1, <1>2, <1>3 DEF QueuesRegistered
<1>7. OwnServers'
  BY <1>1, <1>2, <1>4 DEF OwnServers
<1>8. \A t \in Servers : Outstanding(t)' = Outstanding(t)
  BY <1>2 DEF Outstanding
<1>9. OneCommandPerServer'
  BY <1>2, <1>8 DEF OneCommandPerServer
<1> QED
  BY <1>5, <1>6, <1>7, <1>9

LEMMA ReceiveKeeps ==
    ASSUME CommandInv, NEW s \in Servers, Receive(s), UNCHANGED <<submitVars, queueVars>>
    PROVE  CommandInv'
<1> USE DEF CommandInv
<1>1. /\ answers[s] # <<>>
      /\ arrived' = Head(answers[s])
      /\ answers' = [answers EXCEPT ![s] = Tail(@)]
      /\ busy' = [busy EXCEPT ![s] = FALSE]
      /\ UNCHANGED <<input, queue, matching, queuePc, inHand, server, response,
                     requests, executing, counter>>
  BY DEF Receive, listVars, submitVars, queueVars
<1>2. CommandTypes'
  BY <1>1 DEF CommandTypes
<1>3. QueuesRegistered'
  BY <1>1 DEF QueuesRegistered
<1>4. ToSend' = ToSend
  BY <1>1 DEF ToSend
<1>5. OwnServers'
  BY <1>1, <1>4 DEF OwnServers, CommandTypes
<1>6. OneCommandPerServer'
  <2> SUFFICES ASSUME NEW t \in Servers
               PROVE  Outstanding(t)' <= 1 /\ (Outstanding(t)' = 1 => busy'[t])
    BY DEF OneCommandPerServer
  <2>1. CASE t = s
    <3>1. answers[s] \in Seq(AnswerValue) /\ Len(answers[s]) > 0
      BY <1>1 DEF CommandTypes
    <3>2. answers'[s] = Tail(answers[s]) /\ Len(answers'[s]) = Len(answers[s]) - 1
      BY <1>1, <3>1 DEF CommandTypes
    <3>3. requests' = requests /\ executing' = executing
      BY <1>1
    <3>4. Len(requests[s]) \in Nat /\ Len(answers[s]) \in Nat
      BY OutstandingNat
    <3>5. Outstanding(s)' = Outstanding(s) - 1
      <4> DEFINE own == IF executing[s] = NoRequest THEN 0 ELSE 1
      <4>1. Outstanding(s) = Len(requests[s]) + Len(answers[s]) + own
        BY DEF Outstanding
      <4>2. Outstanding(s)' = Len(requests[s]) + (Len(answers[s]) - 1) + own
        BY <3>2, <3>3 DEF Outstanding
      <4>3. own \in Nat
        OBVIOUS
      <4> HIDE DEF own
      <4> QED
        BY <3>4, <4>1, <4>2, <4>3
    <3> QED
      BY <2>1, <3>5, OutstandingNat DEF OneCommandPerServer
  <2>2. CASE t # s
    <3>1. Outstanding(t)' = Outstanding(t) /\ busy'[t] = busy[t]
      BY <1>1, <2>2 DEF Outstanding, CommandTypes
    <3> QED
      BY <3>1 DEF OneCommandPerServer
  <2> QED
    BY <2>1, <2>2
<1> QED
  BY <1>2, <1>3, <1>5, <1>6

LEMMA ServerKeeps ==
    ASSUME CommandInv, NEW s \in Servers, Server(s)
    PROVE  CommandInv'
<1> USE DEF CommandInv
<1>1. UNCHANGED <<input, queue, matching, queuePc, inHand, server, response, busy,
                  counter, responsePc, arrived>>
  BY DEF Server, submitVars, listVars, queueVars, handlerVars
<1>2. CASE ServerReceive(s)
  <2>1. requests[s] \in Seq(Requests) /\ requests[s] # <<>>
    BY <1>2 DEF ServerReceive, CommandTypes
  <2>2. Head(requests[s]) \in Requests /\ Len(Tail(requests[s])) = Len(requests[s]) - 1
    BY <2>1
  <2>3. Head(requests[s]) # NoRequest
    BY <2>2, CommandAssumption DEF Requests, NoRequest
  <2>4. CommandTypes'
    BY <1>1, <1>2, <2>1, <2>2 DEF CommandTypes, ServerReceive
  <2>5. \A t \in Servers : Outstanding(t)' = Outstanding(t)
    <3>1. /\ executing[s] = NoRequest /\ executing'[s] # NoRequest
          /\ Len(requests'[s]) = Len(requests[s]) - 1
          /\ answers' = answers
      BY <1>2, <2>1, <2>2, <2>3 DEF ServerReceive, CommandTypes
    <3>2. Outstanding(s)' = Outstanding(s)
      BY <3>1, OutstandingNat DEF Outstanding
    <3>3. ASSUME NEW t \in Servers \ {s} PROVE Outstanding(t)' = Outstanding(t)
      BY <1>2 DEF ServerReceive, Outstanding, CommandTypes
    <3> QED
      BY <3>2, <3>3
  <2> QED
    BY <1>1, <2>4, <2>5 DEF QueuesRegistered, OwnServers, ToSend, OneCommandPerServer
<1>3. ASSUME NEW successful \in Results, ServerAnswer(s, successful) PROVE CommandInv'
  <2> DEFINE answer == [id |-> executing[s], successful |-> successful]
  <2>1. answer \in AnswerValue
    BY <1>3 DEF ServerAnswer, CommandTypes, AnswerValue
  <2>2. answers[s] \in Seq(AnswerValue) /\ Len(Append(answers[s], answer)) = Len(answers[s]) + 1
    BY <2>1 DEF CommandTypes
  <2>3. /\ executing[s] # NoRequest
        /\ answers' = [answers EXCEPT ![s] = Append(@, answer)]
        /\ executing' = [executing EXCEPT ![s] = NoRequest]
        /\ UNCHANGED requests
    BY <1>3 DEF ServerAnswer
  <2>4. CommandTypes'
    BY <1>1, <2>1, <2>2, <2>3 DEF CommandTypes
  <2>5. \A t \in Servers : Outstanding(t)' = Outstanding(t)
    <3>1. /\ executing[s] # NoRequest /\ executing'[s] = NoRequest
          /\ Len(answers'[s]) = Len(answers[s]) + 1
          /\ requests' = requests
      BY <2>2, <2>3 DEF CommandTypes
    <3>2. Len(requests[s]) \in Nat /\ Len(answers[s]) \in Nat
      BY OutstandingNat
    <3>4. Outstanding(s)' = Outstanding(s)
      <4>1. Outstanding(s) = Len(requests[s]) + Len(answers[s]) + 1
        BY <3>1 DEF Outstanding
      <4>2. Outstanding(s)' = Len(requests[s]) + (Len(answers[s]) + 1) + 0
        BY <3>1 DEF Outstanding
      <4>3. \A m, n \in Nat : m + n + 1 = m + (n + 1) + 0
        OBVIOUS
      <4> QED
        BY <3>2, <4>1, <4>2, <4>3, Zenon
    <3>3. ASSUME NEW t \in Servers \ {s} PROVE Outstanding(t)' = Outstanding(t)
      BY <2>3 DEF Outstanding, CommandTypes
    <3> QED
      BY <3>3, <3>4
  <2> QED
    BY <1>1, <2>4, <2>5 DEF QueuesRegistered, OwnServers, ToSend, OneCommandPerServer
<1> QED
  BY <1>2, <1>3 DEF Server

LEMMA RegisterKeeps ==
    ASSUME CommandInv, NEW s \in Servers \cup {NoServer}, Register(s),
           counter \in Requests
    PROVE  CommandInv'
<1> USE DEF CommandInv
<1>1. /\ counter' = counter + 1
      /\ server' = [server EXCEPT ![counter] = s]
      /\ input' = Append(input, counter)
      /\ UNCHANGED <<queue, matching, queuePc, inHand, response, busy, requests,
                     executing, answers, responsePc, arrived>>
  BY DEF Register, handlerVars, serverVars
<1>2. CommandTypes'
  BY <1>1 DEF CommandTypes
<1>3. \A i \in DOMAIN input' : input'[i] < counter'
  <2> SUFFICES ASSUME NEW i \in DOMAIN input' PROVE input'[i] < counter'
    OBVIOUS
  <2>1. CASE i \in DOMAIN input
    <3>1. input'[i] = input[i] /\ input[i] \in Nat /\ input[i] < counter
      BY <1>1, <2>1, CommandAssumption DEF QueuesRegistered, CommandTypes, Requests
    <3> QED
      BY <1>1, <3>1 DEF CommandTypes
  <2>2. CASE i \notin DOMAIN input
    <3>1. input'[i] = counter
      BY <1>1, <2>2 DEF CommandTypes
    <3> QED
      BY <1>1, <3>1 DEF CommandTypes
  <2> QED
    BY <2>1, <2>2
<1>4. QueuesRegistered'
  <2>1. \A i \in DOMAIN queue : queue[i] \in Nat /\ queue[i] < counter
    BY CommandAssumption DEF QueuesRegistered, CommandTypes, Requests
  <2>2. \A id \in matching : id \in Nat /\ id < counter
    BY CommandAssumption DEF QueuesRegistered, CommandTypes, Requests
  <2>3. queuePc \in {"clear", "send"} => inHand \in Nat /\ inHand < counter
    BY CommandAssumption DEF QueuesRegistered, CommandTypes, Requests
  <2> QED
    BY <1>1, <1>3, <2>1, <2>2, <2>3 DEF QueuesRegistered, CommandTypes
<1>5. ToSend' = ToSend /\ ToSend \subseteq Requests /\ counter \notin ToSend
  <2>1. ToSend' = ToSend
    BY <1>1 DEF ToSend
  <2>2. \A id \in ToSend : id \in Requests /\ id < counter
    BY DEF ToSend, QueuesRegistered, CommandTypes
  <2> QED
    BY <2>1, <2>2 DEF CommandTypes
<1>6. \A id \in ToSend : server'[id] = server[id]
  BY <1>1, <1>5 DEF CommandTypes
<1>7. OwnServers'
  BY <1>1, <1>5, <1>6 DEF OwnServers
<1>8. OneCommandPerServer'
  BY <1>1 DEF OneCommandPerServer, Outstanding
<1> QED
  BY <1>2, <1>4, <1>7, <1>8

LEMMA PickUpKeeps ==
    ASSUME CommandInv, PickUp, UNCHANGED <<submitVars, handlerVars>>
    PROVE  CommandInv'
<1> USE DEF CommandInv
<1>1. /\ queue' = queue \o input
      /\ input' = <<>>
      /\ queuePc' = "match"
      /\ UNCHANGED <<counter, server, matching, inHand, response, busy, requests,
                     executing, answers, responsePc, arrived>>
  BY DEF PickUp, listVars, serverVars, submitVars, handlerVars
<1>2. CommandTypes'
  BY <1>1 DEF CommandTypes
<1>3. \A i \in DOMAIN queue' : queue'[i] < counter
  <2> SUFFICES ASSUME NEW i \in DOMAIN queue' PROVE queue'[i] < counter
    OBVIOUS
  <2>1. CASE i <= Len(queue)
    BY <1>1, <2>1 DEF QueuesRegistered, CommandTypes
  <2>2. CASE i > Len(queue)
    <3>1. i - Len(queue) \in DOMAIN input /\ queue'[i] = input[i - Len(queue)]
      BY <1>1, <2>2 DEF CommandTypes
    <3> QED
      BY <3>1 DEF QueuesRegistered
  <2> QED
    BY <1>1, <2>1, <2>2 DEF CommandTypes
<1>4. QueuesRegistered'
  BY <1>1, <1>3 DEF QueuesRegistered
<1>5. OwnServers' /\ OneCommandPerServer'
  BY <1>1 DEF OwnServers, ToSend, OneCommandPerServer, Outstanding
<1> QED
  BY <1>2, <1>4, <1>5

\* The variables the invariant is about.
invVars == <<counter, server, response, input, queue, matching, queuePc, inHand,
             busy, requests, executing, answers, responsePc, arrived>>

LEMMA CommandInvKept == CommandInv /\ UNCHANGED invVars => CommandInv'
  BY DEF CommandInv, CommandTypes, QueuesRegistered, OwnServers, ToSend,
         OneCommandPerServer, Outstanding, invVars

-----------------------------------------------------------------------------

\* The call of the application: what it still has to register fits.
CallFits ==
    mainPc = "register" =>
        /\ call.left # {} /\ IsFiniteSet(call.left)
        /\ counter + Cardinality(call.left) <= MaxRequests + 1

CallInv == counter \in 1..(MaxRequests + 1) /\ call \in CallValue /\ CallFits

LEMMA LeftRegisters ==
    ASSUME CallInv, NEW s, Register(s)
    PROVE  /\ counter \in Requests
           /\ Cardinality(call.left \ {s}) = Cardinality(call.left) - 1
           /\ Cardinality(call.left) \in Nat
<1>1. /\ IsFiniteSet(call.left) /\ s \in call.left
      /\ counter + Cardinality(call.left) <= MaxRequests + 1
  BY DEF CallInv, CallFits, Register
<1>2. /\ Cardinality(call.left \ {s}) = Cardinality(call.left) - 1
      /\ Cardinality(call.left) \in Nat /\ Cardinality(call.left \ {s}) \in Nat
  BY <1>1, FS_RemoveElement, FS_CardinalityType
<1> QED
  BY <1>1, <1>2, CommandAssumption DEF CallInv, Requests

\* What is registered for it, the application may ask for.
LEMMA UncollectedRequests == CallInv => Uncollected \subseteq Requests
  BY CommandAssumption DEF CallInv, Uncollected, Registered, Requests

LEMMA CallInvKept == CallInv /\ UNCHANGED <<counter, call, mainPc>> => CallInv'
  BY DEF CallInv, CallFits

LEMMA PushCall ==
    ASSUME CallInv, NEW servers \in Targets, NEW block \in BOOLEAN, Push(servers, block)
    PROVE  CallInv'
<1>1. /\ counter + Cardinality(servers) <= MaxRequests + 1
      /\ call' = [left |-> servers, ids |-> {}, pending |-> {}, block |-> block]
      /\ UNCHANGED counter
  BY DEF Push, NoCall, submitVars
<1>2. servers # {} /\ servers \subseteq Servers \cup {NoServer} /\ IsFiniteSet(servers)
  BY CommandAssumption, StatusAssumption, FS_Subset, FS_Singleton
<1> QED
  BY <1>1, <1>2 DEF CallInv, CallFits, CallValue

LEMMA RegisterCall ==
    ASSUME CallInv, NEW s, Register(s)
    PROVE  CallInv'
<1>1. /\ counter' = counter + 1
      /\ call' = [call EXCEPT !.left = @ \ {s}, !.ids = @ \cup {counter}]
      /\ mainPc' = IF call'.left = {} THEN "wakeQueue" ELSE "register"
      /\ mainPc = "register"
  BY DEF Register
<1>2. call' \in CallValue /\ call'.left = call.left \ {s}
  <2>1. call.ids \cup {counter} \subseteq Requests
    BY LeftRegisters DEF CallInv, CallValue
  <2>2. call' = [left |-> call.left \ {s}, ids |-> call.ids \cup {counter},
                 pending |-> call.pending, block |-> call.block]
    BY <1>1 DEF CallInv, CallValue
  <2> QED
    BY <2>1, <2>2 DEF CallInv, CallValue
<1>3. counter' \in 1..(MaxRequests + 1)
  <2>1. counter \in Requests
    BY LeftRegisters
  <2> QED
    BY <1>1, <2>1, CommandAssumption DEF Requests
<1>4. IsFiniteSet(call.left \ {s})
  BY <1>1, FS_RemoveElement DEF CallInv, CallFits
<1>5. counter' + Cardinality(call'.left) <= MaxRequests + 1
  BY <1>1, <1>2, LeftRegisters, CommandAssumption DEF CallInv, CallFits
<1> QED
  BY <1>1, <1>2, <1>3, <1>4, <1>5 DEF CallInv, CallFits

LEMMA ApplicationCall ==
    ASSUME CallInv, Application
    PROVE  CallInv'
<1>1. ASSUME NEW servers \in Targets, NEW block \in BOOLEAN, Push(servers, block)
      PROVE  CallInv'
  BY <1>1, PushCall
<1>2. ASSUME NEW s \in Servers \cup {NoServer}, Register(s) PROVE CallInv'
  BY <1>2, RegisterCall
<1>3. ASSUME NEW id \in Requests, LookAt(id) \/ KeyRequest(id) PROVE CallInv'
  <2>1. CASE LookAt(id)
    <3>1. call' = [call EXCEPT !.pending = @ \ {id}]
          /\ UNCHANGED <<counter, mainPc>> /\ mainPc = "block"
      BY <2>1 DEF LookAt, submitVars
    <3>2. call' \in CallValue
      BY <3>1 DEF CallInv, CallValue
    <3> QED
      BY <3>1, <3>2 DEF CallInv, CallFits
  <2>2. CASE KeyRequest(id)
    BY <2>2 DEF KeyRequest, submitVars, CallInv, CallFits
  <2> QED
    BY <1>3, <2>1, <2>2
<1>4. CASE WakeQueue \/ WakeHandler \/ Gather
  <2>1. mainPc' # "register" /\ UNCHANGED counter
    BY <1>4 DEF WakeQueue, WakeHandler, Gather, submitVars
  <2>2. \/ UNCHANGED call \/ call' = NoCall
        \/ call' = [call EXCEPT !.pending = call.ids]
    BY <1>4 DEF WakeQueue, WakeHandler, Gather
  <2>3. call' \in CallValue
    <3>1. CASE UNCHANGED call
      BY <3>1 DEF CallInv
    <3>2. CASE call' = NoCall
      BY <3>2 DEF CallValue, NoCall
    <3>3. CASE call' = [call EXCEPT !.pending = call.ids]
      <4>1. call' = [left |-> call.left, ids |-> call.ids,
                     pending |-> call.ids, block |-> call.block]
        BY <3>3 DEF CallInv, CallValue
      <4> QED
        BY <4>1 DEF CallInv, CallValue
    <3> QED
      BY <2>2, <3>1, <3>2, <3>3
  <2> QED
    BY <2>1, <2>3 DEF CallInv, CallFits
<1>5. CASE Collect \/ MakeGroup \/ GroupReady
  BY <1>5, UncollectedRequests DEF Collect, MakeGroup, GroupReady, NoCall,
           submitVars, CallInv, CallFits, CallValue
<1>6. CASE Stop \/ StopQueue \/ StopHandler \/ Stopped
  BY <1>6 DEF Stop, StopQueue, StopHandler, Stopped, submitVars, CallInv, CallFits
<1> QED
  BY <1>1, <1>2, <1>3, <1>4, <1>5, <1>6 DEF Application

LEMMA ApplicationKeeps ==
    ASSUME CommandInv, CallInv, Application
    PROVE  CommandInv'
<1>1. ASSUME NEW s \in Servers \cup {NoServer}, Register(s) PROVE CommandInv'
  BY <1>1, LeftRegisters, RegisterKeeps
<1> USE DEF invVars, submitVars, listVars, queueVars, handlerVars, serverVars
<1>2. ASSUME NEW servers \in Targets, NEW block \in BOOLEAN, Push(servers, block)
      PROVE  UNCHANGED invVars
  BY <1>2 DEF Push
<1>3. ASSUME NEW id \in Requests, LookAt(id) \/ KeyRequest(id)
      PROVE  UNCHANGED invVars
  BY <1>3 DEF LookAt, KeyRequest
<1>4. CASE WakeQueue \/ WakeHandler \/ Gather \/ Collect \/ MakeGroup \/ GroupReady
  <2>1. UNCHANGED invVars
    BY <1>4 DEF WakeQueue, WakeHandler, Gather, Collect, MakeGroup, GroupReady
  <2> QED
    BY <2>1, CommandInvKept
<1>5. CASE Stop \/ StopQueue \/ StopHandler \/ Stopped
  <2>1. UNCHANGED invVars
    BY <1>5 DEF Stop, StopQueue, StopHandler, Stopped
  <2> QED
    BY <2>1, CommandInvKept
<1> QED
  BY <1>1, <1>2, <1>3, <1>4, <1>5, CommandInvKept DEF Application

LEMMA QueueServiceKeeps ==
    ASSUME CommandInv, QueueService
    PROVE  CommandInv'
<1>0. UNCHANGED <<submitVars, handlerVars>>
  BY DEF QueueService
<1>1. CASE Match
  <2>1. OneCommandPerServer'
    BY <1>1 DEF CommandInv, Match, serverVars, OneCommandPerServer, Outstanding
  <2> QED
    BY <1>0, <1>1, <2>1, MatchOwnServers DEF CommandInv
<1>2. CASE QueueEnd \/ QueueWait \/ QueueClear
  BY <1>0, <1>2 DEF QueueEnd, QueueWait, QueueClear, listVars, serverVars,
     submitVars, handlerVars, CommandInv, CommandTypes, QueuesRegistered,
     OwnServers, ToSend, OneCommandPerServer, Outstanding
<1> QED
  BY <1>0, <1>1, <1>2, SendKeeps, SendFailsKeeps, PopKeeps, PickUpKeeps
     DEF QueueService

LEMMA ResponseHandlerKeeps ==
    ASSUME CommandInv, ResponseHandler
    PROVE  CommandInv'
<1>0. UNCHANGED <<submitVars, queueVars>>
  BY DEF ResponseHandler
<1>1. ASSUME NEW s \in Servers, Receive(s) PROVE CommandInv'
  BY <1>0, <1>1, ReceiveKeeps
<1>2. CASE Store
  <2>1. /\ response' = [response EXCEPT ![arrived.id] = arrived.successful]
        /\ responsePc = "store" /\ responsePc' # "store"
        /\ UNCHANGED <<arrived, server, busy, requests, executing, answers,
                       counter, input, queue, matching, queuePc, inHand>>
    BY <1>0, <1>2 DEF Store, serverVars, submitVars, queueVars
  <2>2. arrived.successful \in Results
    BY <2>1 DEF CommandInv, CommandTypes, AnswerValue
  <2>3. response' \in [Requests -> Results \cup {"none", "unsent"}]
    BY <2>1, <2>2 DEF CommandInv, CommandTypes
  <2>4. CommandTypes'
    BY <2>1, <2>3 DEF CommandInv, CommandTypes
  <2>5. (QueuesRegistered /\ OwnServers /\ OneCommandPerServer)'
    BY <2>1 DEF CommandInv, QueuesRegistered, OwnServers, ToSend,
       OneCommandPerServer, Outstanding
  <2> QED
    BY <2>4, <2>5 DEF CommandInv
<1>3. CASE HandlerEnd \/ HandlerWait \/ NothingToReceive \/ HandlerClear \/ Finish
  <2>1. /\ responsePc' # "store"
        /\ UNCHANGED <<server, response, busy, requests, executing, answers,
                       counter, input, queue, matching, queuePc, inHand>>
    BY <1>0, <1>3 DEF HandlerEnd, HandlerWait, NothingToReceive, HandlerClear,
       Finish, listVars, serverVars, submitVars, queueVars
  <2>2. CommandTypes'
    BY <2>1 DEF CommandInv, CommandTypes
  <2>3. (QueuesRegistered /\ OwnServers /\ OneCommandPerServer)'
    BY <2>1 DEF CommandInv, QueuesRegistered, OwnServers, ToSend,
       OneCommandPerServer, Outstanding
  <2> QED
    BY <2>2, <2>3 DEF CommandInv
<1> QED
  BY <1>1, <1>2, <1>3 DEF ResponseHandler

Inv == CommandInv /\ CallInv

LEMMA InvStep ==
    ASSUME Inv, [Next]_vars
    PROVE  Inv'
<1> USE DEF Inv
<1>1. CASE Application
  BY <1>1, ApplicationKeeps, ApplicationCall
<1>2. CASE QueueService
  <2>1. CallInv'
    BY <1>2, CallInvKept DEF QueueService, submitVars, mainVars
  <2> QED
    BY <1>2, <2>1, QueueServiceKeeps
<1>3. CASE ResponseHandler
  <2>1. CallInv'
    BY <1>3, CallInvKept DEF ResponseHandler, submitVars, mainVars
  <2> QED
    BY <1>3, <2>1, ResponseHandlerKeeps
<1>4. ASSUME NEW s \in Servers, Server(s) PROVE Inv'
  <2>1. CallInv'
    BY <1>4, CallInvKept DEF Server, submitVars, mainVars
  <2> QED
    BY <1>4, <2>1, ServerKeeps
<1>5. CASE Status \/ UNCHANGED vars
  <2>1. UNCHANGED commandVars
    BY <1>5 DEF Status, vars
  <2>2. CallInv'
    BY <2>1, CallInvKept DEF commandVars, submitVars, mainVars
  <2>3. CommandInv'
    BY <2>1, CommandInvKept DEF commandVars, invVars, submitVars, listVars,
       queueVars, handlerVars, serverVars
  <2> QED
    BY <2>2, <2>3
<1> QED
  BY <1>1, <1>2, <1>3, <1>4, <1>5 DEF Next

LEMMA InvHolds == Spec => []Inv
<1>1. Init => Inv
  <2> SUFFICES ASSUME Init PROVE Inv
    OBVIOUS
  <2> USE CommandAssumption
  <2>1. CommandTypes /\ QueuesRegistered /\ OwnServers
    BY DEF Init, CommandTypes, QueuesRegistered, OwnServers, ToSend
  <2>2. OneCommandPerServer
    BY DEF Init, OneCommandPerServer, Outstanding
  <2>3. CallInv
    BY DEF Init, CallInv, CallFits, CallValue, NoCall
  <2> QED
    BY <2>1, <2>2, <2>3 DEF Inv, CommandInv
<1> QED
  BY <1>1, InvStep, PTL DEF Spec

\* A server never has two commands, and is marked as busy while it has one,
\* whatever the threads and the servers do in whatever order.
THEOREM OneCommand == Spec => []OneCommandPerServer
<1>1. Inv => OneCommandPerServer
  BY DEF Inv, CommandInv
<1> QED
  BY <1>1, InvHolds, PTL

-----------------------------------------------------------------------------
(* Where each request is.                                                   *)

Rising(q) == \A i, j \in DOMAIN q : i < j => q[i] < q[j]

\* Where a request can be: not sent, with a server, answered, or received.
Lined == ToSet(input) \cup ToSet(queue)
InHand == IF queuePc \in {"clear", "send"} THEN {inHand} ELSE {}
Waiting == Lined \cup InHand
Running(s) == ToSet(requests[s]) \cup ({executing[s]} \ {NoRequest})
Answered(s) == {a.id : a \in ToSet(answers[s])}
At(s) == Running(s) \cup Answered(s)
Arrived == IF responsePc = "store" THEN {arrived.id} ELSE {}

\* The queues hold the requests in the order of their registration.
LineRises ==
    /\ Rising(queue) /\ Rising(input)
    /\ \A a \in ToSet(queue), b \in ToSet(input) : a < b
    /\ matching \subseteq ToSet(queue)
    /\ InHand \cap Lined = {}
    /\ queuePc \notin {"pop", "clear", "send"} => matching = {}

\* What is taken from the queue leaves nothing behind that came before it.
MatchingInOrder ==
    \A a \in ToSet(queue), b \in matching :
        a < b /\ target[a] = target[b] => a \in matching

TargetKept ==
    /\ target \in [Requests -> Servers \cup {NoServer}]
    /\ \A id \in Requests : target[id] \in {NoServer, server[id]}
    /\ \A id \in Lined \ matching : server[id] = target[id]

OrderInv == LineRises /\ MatchingInOrder /\ TargetKept

\* No request is in two places, and one that is somewhere has no response.
Apart ==
    /\ \A id \in Waiting : /\ response[id] = "none"
                           /\ id \notin Arrived
                           /\ \A s \in Servers : id \notin At(s)
    /\ \A s \in Servers : \A id \in At(s) :
        id < counter /\ server[id] = s /\ response[id] = "none" /\ id \notin Arrived
    /\ \A id \in Arrived : id < counter /\ response[id] = "none"
    /\ \A id \in Requests : id >= counter => response[id] = "none"

\* An answer says what executing the request gave, wherever it is.
AnswersTrue ==
    /\ result \in [Requests -> Results \cup {"none"}]
    /\ \A s \in Servers : \A a \in ToSet(answers[s]) : a.successful = result[a.id]
    /\ responsePc = "store" => arrived.successful = result[arrived.id]
    /\ \A id \in Requests :
        response[id] \notin {"none", "unsent"} => response[id] = result[id]

HandlerStage ==
    /\ responsePc \in {"check", "wait", "store", "clear", "finish", "stopped"}
    /\ responsePc \in {"check", "wait", "stopped"} => arrived = NoAnswer
    /\ responsePc \in {"store", "clear", "finish"} => arrived \in AnswerValue
    /\ responsePc \in {"clear", "finish"} => response[arrived.id] # "none"

AskedRegistered == call.ids \subseteq Registered

PlaceInv == Apart /\ AnswersTrue /\ HandlerStage /\ AskedRegistered

-----------------------------------------------------------------------------
(* Sequences of requests.                                                   *)

LEMMA SetOfAppend ==
    ASSUME NEW S, NEW q \in Seq(S), NEW x \in S
    PROVE  ToSet(Append(q, x)) = ToSet(q) \cup {x}
<1>1. /\ DOMAIN Append(q, x) = 1..(Len(q) + 1) /\ Len(q) \in Nat
      /\ DOMAIN q = 1..Len(q)
      /\ \A i \in 1..Len(q) : Append(q, x)[i] = q[i]
      /\ Append(q, x)[Len(q) + 1] = x
  OBVIOUS
<1>2. 1..(Len(q) + 1) = (1..Len(q)) \cup {Len(q) + 1}
  BY <1>1
<1> HIDE DEF ToSet
<1>3. ToSet(Append(q, x)) = {Append(q, x)[i] : i \in 1..(Len(q) + 1)}
  BY <1>1 DEF ToSet
<1>4. ToSet(q) = {q[i] : i \in 1..Len(q)}
  BY <1>1 DEF ToSet
<1> QED
  BY <1>1, <1>2, <1>3, <1>4

LEMMA SetOfConcat ==
    ASSUME NEW S, NEW a \in Seq(S), NEW b \in Seq(S)
    PROVE  ToSet(a \o b) = ToSet(a) \cup ToSet(b)
<1>1. /\ a \o b \in Seq(S) /\ Len(a \o b) = Len(a) + Len(b)
      /\ Len(a) \in Nat /\ Len(b) \in Nat
      /\ DOMAIN a = 1..Len(a) /\ DOMAIN b = 1..Len(b)
      /\ DOMAIN (a \o b) = 1..(Len(a) + Len(b))
      /\ \A i \in 1..(Len(a) + Len(b)) :
            (a \o b)[i] = IF i <= Len(a) THEN a[i] ELSE b[i - Len(a)]
  BY ConcatProperties, LenProperties
<1>2. ASSUME NEW x \in ToSet(a \o b) PROVE x \in ToSet(a) \cup ToSet(b)
  <2>1. PICK i \in 1..(Len(a) + Len(b)) : x = (a \o b)[i]
    BY <1>1, <1>2 DEF ToSet
  <2>2. CASE i <= Len(a)
    BY <1>1, <2>1, <2>2 DEF ToSet
  <2>3. CASE ~(i <= Len(a))
    <3>1. i - Len(a) \in 1..Len(b) /\ x = b[i - Len(a)]
      BY <1>1, <2>1, <2>3
    <3> QED
      BY <1>1, <3>1 DEF ToSet
  <2> QED
    BY <2>2, <2>3
<1>3. ASSUME NEW x \in ToSet(a) PROVE x \in ToSet(a \o b)
  <2>1. PICK i \in 1..Len(a) : x = a[i]
    BY <1>1, <1>3 DEF ToSet
  <2>2. i \in 1..(Len(a) + Len(b)) /\ (a \o b)[i] = a[i]
    BY <1>1
  <2> QED
    BY <1>1, <2>1, <2>2 DEF ToSet
<1>4. ASSUME NEW x \in ToSet(b) PROVE x \in ToSet(a \o b)
  <2>1. PICK i \in 1..Len(b) : x = b[i]
    BY <1>1, <1>4 DEF ToSet
  <2>2. i + Len(a) \in 1..(Len(a) + Len(b)) /\ (i + Len(a)) - Len(a) = i
        /\ ~(i + Len(a) <= Len(a))
    BY <1>1
  <2>3. (a \o b)[i + Len(a)] = b[i]
    BY <1>1, <2>2
  <2> QED
    BY <1>1, <2>1, <2>2, <2>3 DEF ToSet
<1> QED
  BY <1>2, <1>3, <1>4

LEMMA RisingConcat ==
    ASSUME NEW a \in Seq(Requests), NEW b \in Seq(Requests), Rising(a), Rising(b),
           \A x \in ToSet(a), y \in ToSet(b) : x < y
    PROVE  Rising(a \o b)
<1>1. /\ Len(a) \in Nat /\ Len(b) \in Nat
      /\ DOMAIN a = 1..Len(a) /\ DOMAIN b = 1..Len(b)
      /\ DOMAIN (a \o b) = 1..(Len(a) + Len(b))
      /\ \A i \in 1..(Len(a) + Len(b)) :
            (a \o b)[i] = IF i <= Len(a) THEN a[i] ELSE b[i - Len(a)]
  BY ConcatProperties, LenProperties
<1> SUFFICES ASSUME NEW i \in 1..(Len(a) + Len(b)), NEW j \in 1..(Len(a) + Len(b)),
                    i < j
             PROVE  (a \o b)[i] < (a \o b)[j]
  BY <1>1 DEF Rising
<1>2. CASE j <= Len(a)
  <2>1. i \in DOMAIN a /\ j \in DOMAIN a
    BY <1>1, <1>2
  <2> QED
    BY <1>1, <1>2, <2>1 DEF Rising
<1>3. CASE i <= Len(a) /\ ~(j <= Len(a))
  <2>1. i \in DOMAIN a /\ j - Len(a) \in DOMAIN b
    BY <1>1, <1>3
  <2>2. a[i] \in ToSet(a) /\ b[j - Len(a)] \in ToSet(b)
    BY <2>1 DEF ToSet
  <2> QED
    BY <1>1, <1>3, <2>2
<1>4. CASE ~(i <= Len(a))
  <2>1. i - Len(a) \in DOMAIN b /\ j - Len(a) \in DOMAIN b
        /\ i - Len(a) < j - Len(a) /\ ~(j <= Len(a))
    BY <1>1, <1>4
  <2> QED
    BY <1>1, <1>4, <2>1 DEF Rising
<1> QED
  BY <1>2, <1>3, <1>4

LEMMA RisingRemoveAt ==
    ASSUME NEW q \in Seq(Requests), Rising(q), NEW i \in DOMAIN q
    PROVE  /\ Rising(RemoveAt(q, i))
           /\ ToSet(RemoveAt(q, i)) = ToSet(q) \ {q[i]}
<1> DEFINE r == RemoveAt(q, i)
<1>1. /\ r \in Seq(Requests) /\ Len(r) = Len(q) - 1
      /\ \A k \in 1..(Len(q) - 1) : r[k] = q[IF k < i THEN k ELSE k + 1]
  BY RemoveAtSelects
<1>2. Len(q) \in Nat /\ DOMAIN q = 1..Len(q) /\ i \in 1..Len(q)
      /\ DOMAIN r = 1..(Len(q) - 1)
  BY <1>1, LenProperties
<1>3. \A k \in DOMAIN q : q[k] \in Int
  BY CommandAssumption DEF Requests
<1> HIDE DEF r
<1>4. Rising(r)
  <2> SUFFICES ASSUME NEW j \in 1..(Len(q) - 1), NEW k \in 1..(Len(q) - 1), j < k
               PROVE  r[j] < r[k]
    BY <1>2 DEF Rising
  <2> DEFINE jj == IF j < i THEN j ELSE j + 1
             kk == IF k < i THEN k ELSE k + 1
  <2>1. jj \in DOMAIN q /\ kk \in DOMAIN q /\ jj < kk
    BY <1>2
  <2>2. r[j] = q[jj] /\ r[k] = q[kk]
    BY <1>1
  <2> QED
    BY <2>1, <2>2 DEF Rising
<1>5. ASSUME NEW x \in ToSet(r) PROVE x \in ToSet(q) \ {q[i]}
  <2>1. PICK k \in 1..(Len(q) - 1) : x = r[k]
    BY <1>2, <1>5 DEF ToSet
  <2> DEFINE kk == IF k < i THEN k ELSE k + 1
  <2>2. kk \in DOMAIN q /\ (kk < i \/ i < kk) /\ x = q[kk]
    BY <1>1, <1>2, <2>1
  <2> HIDE DEF kk
  <2>3. q[kk] # q[i]
    BY <1>2, <1>3, <2>2 DEF Rising
  <2> QED
    BY <2>2, <2>3 DEF ToSet
<1>6. ASSUME NEW x \in ToSet(q) \ {q[i]} PROVE x \in ToSet(r)
  <2>1. PICK k \in 1..Len(q) : x = q[k] /\ k # i
    BY <1>2, <1>6 DEF ToSet
  <2> DEFINE kk == IF k < i THEN k ELSE k - 1
  <2>2. kk \in 1..(Len(q) - 1) /\ k = (IF kk < i THEN kk ELSE kk + 1)
    BY <1>2, <2>1
  <2> HIDE DEF kk
  <2>3. r[kk] = x
    BY <1>1, <2>1, <2>2
  <2> QED
    BY <1>2, <2>2, <2>3 DEF ToSet
<1> QED
  BY <1>4, <1>5, <1>6 DEF r

-----------------------------------------------------------------------------
(* The queues: what each step that touches them does to their order.        *)

LEMMA RequestsAreNat == Requests \subseteq Nat \ {0}
  BY CommandAssumption DEF Requests

LEMMA LinedRegistered ==
    ASSUME CommandInv
    PROVE  /\ ToSet(input) \subseteq Requests /\ ToSet(queue) \subseteq Requests
           /\ \A id \in ToSet(input) \cup ToSet(queue) : id < counter
           /\ counter \in Nat
           /\ \A id \in Waiting : id \in Requests /\ id < counter
<1>1. input \in Seq(Requests) /\ queue \in Seq(Requests)
  BY DEF CommandInv, CommandTypes
<1>2. ToSet(input) \subseteq Requests /\ ToSet(queue) \subseteq Requests
  BY <1>1 DEF ToSet
<1>3. \A id \in ToSet(input) \cup ToSet(queue) : id < counter
  BY DEF ToSet, CommandInv, QueuesRegistered
<1> QED
  BY <1>2, <1>3 DEF CommandInv, CommandTypes, QueuesRegistered, Waiting, Lined, InHand

LEMMA OrderInvKept ==
    ASSUME OrderInv,
           UNCHANGED <<input, queue, matching, queuePc, inHand, target, server>>
    PROVE  OrderInv' /\ Lined' = Lined
  BY DEF OrderInv, LineRises, MatchingInOrder, TargetKept, Lined, InHand

LEMMA RegisterOrder ==
    ASSUME CommandInv, OrderInv, NEW s \in Servers \cup {NoServer}, Register(s),
           counter \in Requests
    PROVE  /\ OrderInv' /\ Lined' = Lined \cup {counter}
           /\ InHand' = InHand
<1>1. /\ counter' = counter + 1
      /\ target' = [target EXCEPT ![counter] = s]
      /\ server' = [server EXCEPT ![counter] = s]
      /\ input' = Append(input, counter)
      /\ UNCHANGED <<queue, matching, queuePc, inHand>>
  BY DEF Register
<1>2. input \in Seq(Requests) /\ server \in [Requests -> Servers \cup {NoServer}]
  BY DEF CommandInv, CommandTypes
<1>3. ToSet(input') = ToSet(input) \cup {counter} /\ ToSet(queue') = ToSet(queue)
  BY <1>1, <1>2, SetOfAppend
<1>4. Lined' = Lined \cup {counter} /\ InHand' = InHand
  BY <1>1, <1>3 DEF Lined, InHand
<1>5. \A id \in ToSet(queue) \cup ToSet(input) : id \in Requests /\ id < counter
  BY LinedRegistered
<1>6. counter \in Nat /\ counter \notin Waiting /\ counter \notin matching
  <2>1. \A id \in Waiting : id < counter
    BY LinedRegistered
  <2> QED
    BY <2>1, RequestsAreNat DEF OrderInv, LineRises, Waiting, Lined
<1>7. Rising(input')
  <2> SUFFICES ASSUME NEW i \in DOMAIN input', NEW j \in DOMAIN input', i < j
               PROVE  input'[i] < input'[j]
    BY DEF Rising
  <2>1. /\ i \in 1..(Len(input) + 1) /\ j \in 1..(Len(input) + 1)
        /\ Len(input) \in Nat /\ DOMAIN input = 1..Len(input)
        /\ i \in 1..Len(input) /\ input'[i] = input[i]
        /\ input'[j] = IF j = Len(input) + 1 THEN counter ELSE input[j]
    BY <1>1, <1>2
  <2>2. CASE j = Len(input) + 1
    <3>1. input[i] \in ToSet(input)
      BY <2>1 DEF ToSet
    <3> QED
      BY <1>5, <2>1, <2>2, <3>1
  <2>3. CASE j # Len(input) + 1
    <3>1. j \in DOMAIN input
      BY <2>1, <2>3
    <3> QED
      BY <2>1, <2>3, <3>1 DEF OrderInv, LineRises, Rising
  <2> QED
    BY <2>2, <2>3
<1>8. LineRises'
  BY <1>1, <1>3, <1>4, <1>5, <1>6, <1>7
     DEF OrderInv, LineRises, Rising, Waiting, Lined
<1>9. \A id \in Lined \cup matching : target'[id] = target[id] /\ server'[id] = server[id]
  BY <1>1, <1>5, <1>6, <1>2 DEF OrderInv, TargetKept, LineRises, Lined, Waiting
<1>10. MatchingInOrder'
  BY <1>1, <1>3, <1>9 DEF OrderInv, MatchingInOrder, Lined
<1>11. target'[counter] = s /\ server'[counter] = s
  BY <1>1, <1>2 DEF OrderInv, TargetKept
<1>12. TargetKept'
  <2>1. target' \in [Requests -> Servers \cup {NoServer}]
    BY <1>1 DEF OrderInv, TargetKept
  <2>2. \A id \in Requests : target'[id] \in {NoServer, server'[id]}
    BY <1>1, <1>2 DEF OrderInv, TargetKept
  <2>3. \A id \in Lined' \ matching' : server'[id] = target'[id]
    BY <1>1, <1>4, <1>9, <1>11 DEF OrderInv, TargetKept
  <2> QED
    BY <2>1, <2>2, <2>3 DEF TargetKept
<1> QED
  BY <1>4, <1>8, <1>10, <1>12 DEF OrderInv

LEMMA PickUpOrder ==
    ASSUME CommandInv, OrderInv, PickUp, UNCHANGED submitVars
    PROVE  OrderInv' /\ Lined' = Lined /\ InHand' = InHand
<1>1. /\ queue' = queue \o input
      /\ input' = <<>>
      /\ queuePc' = "match" /\ queuePc \in {"wait", "check"}
      /\ UNCHANGED <<matching, inHand, server, target>>
  BY DEF PickUp, listVars, submitVars
<1>2. input \in Seq(Requests) /\ queue \in Seq(Requests)
  BY DEF CommandInv, CommandTypes
<1>3. ToSet(queue') = ToSet(queue) \cup ToSet(input) /\ ToSet(input') = {}
  <2>1. ToSet(queue') = ToSet(queue) \cup ToSet(input)
    BY <1>1, <1>2, SetOfConcat
  <2>2. ToSet(input') = {}
    BY <1>1 DEF ToSet
  <2> QED
    BY <2>1, <2>2
<1>4. Rising(queue') /\ Rising(input')
  <2>1. /\ Rising(queue) /\ Rising(input)
        /\ \A a \in ToSet(queue), b \in ToSet(input) : a < b
    BY DEF OrderInv, LineRises
  <2>2. Rising(queue \o input)
    BY <1>2, <2>1, RisingConcat
  <2>3. Rising(<<>>)
    BY DEF Rising
  <2> QED
    BY <1>1, <2>2, <2>3
<1>5. Lined' = Lined /\ InHand = {} /\ InHand' = {} /\ matching = {}
  BY <1>1, <1>3 DEF Lined, InHand, OrderInv, LineRises
<1> QED
  BY <1>1, <1>3, <1>4, <1>5
     DEF OrderInv, LineRises, MatchingInOrder, TargetKept

LEMMA MatchedInOrder ==
    ASSUME CommandInv, OrderInv, matching = {},
           NEW a \in ToSet(queue), NEW b \in Matched, a < b, target[a] = target[b]
    PROVE  a \in Matched
<1>1. PICK k \in DOMAIN queue :
        /\ queue[k] = b /\ Suits(k)
        /\ Cardinality({j \in 1..(k - 1) : Suits(j)}) < Cardinality(Available)
  BY DEF Matched
<1>2. PICK i \in DOMAIN queue : queue[i] = a
  BY DEF ToSet
<1>3. /\ queue \in Seq(Requests) /\ DOMAIN queue = 1..Len(queue) /\ Len(queue) \in Nat
      /\ a \in Requests /\ b \in Requests /\ b \in ToSet(queue)
  BY <1>1, <1>2 DEF CommandInv, CommandTypes, ToSet
<1>4. i < k
  <2>1. ~(k < i)
    BY <1>1, <1>2, <1>3, RequestsAreNat DEF OrderInv, LineRises, Rising
  <2>2. k # i
    BY <1>1, <1>2, <1>3, RequestsAreNat
  <2> QED
    BY <1>3, <2>1, <2>2
<1>5. server[a] = server[b]
  BY <1>3 DEF OrderInv, TargetKept, Lined
<1>6. server[b] = NoServer
  <2>1. i \in 1..(k - 1)
    BY <1>3, <1>4
  <2> QED
    BY <1>1, <1>2, <1>5, <2>1 DEF Suits
<1>7. Suits(i)
  BY <1>2, <1>5, <1>6 DEF Suits
<1> DEFINE before(n) == {j \in 1..(n - 1) : Suits(j)}
<1>8. Cardinality(before(i)) < Cardinality(Available)
  <2>1. IsFiniteSet(1..(k - 1))
    BY <1>3, FS_Interval
  <2>2. before(k) \subseteq 1..(k - 1) /\ before(i) \subseteq before(k)
    BY <1>3, <1>4
  <2>3. IsFiniteSet(before(k))
    BY <2>1, <2>2, FS_Subset
  <2> HIDE DEF before
  <2>4. Cardinality(before(i)) <= Cardinality(before(k)) /\ IsFiniteSet(before(i))
    BY <2>2, <2>3, FS_Subset
  <2>5. IsFiniteSet(Available)
    BY StatusAssumption, FS_Subset DEF Available
  <2>6. /\ Cardinality(before(i)) \in Nat /\ Cardinality(before(k)) \in Nat
        /\ Cardinality(Available) \in Nat
    BY <2>3, <2>4, <2>5, FS_CardinalityType
  <2>7. Cardinality(before(k)) < Cardinality(Available)
    BY <1>1 DEF before
  <2> QED
    BY <2>4, <2>6, <2>7
<1> QED
  BY <1>2, <1>7, <1>8 DEF Matched

LEMMA MatchOrder ==
    ASSUME CommandInv, OrderInv, Match, UNCHANGED submitVars
    PROVE  /\ OrderInv' /\ Lined' = Lined /\ InHand' = InHand
           /\ \A id \in Requests \ Lined : server'[id] = server[id]
<1> DEFINE open == {id \in Matched : server[id] = NoServer}
           left == Available \ {server[id] : id \in Matched}
<1>1. PICK given \in [open -> left] :
            server' = [id \in Requests |->
                            IF id \in open THEN given[id] ELSE server[id]]
  BY DEF Match
<1>2. /\ matching' = Matched /\ queuePc = "match" /\ queuePc' \in {"check", "pop"}
      /\ queuePc' = "check" => Matched = {}
      /\ UNCHANGED <<input, queue, inHand, target>>
  BY DEF Match, submitVars
<1>3. Matched \subseteq ToSet(queue) /\ matching = {} /\ ToSet(queue) \subseteq Requests
      /\ ToSet(input) \subseteq Requests
  BY <1>2, LinedRegistered DEF Matched, ToSet, OrderInv, LineRises
<1>4. Lined' = Lined /\ InHand' = {} /\ InHand = {}
  BY <1>2 DEF Lined, InHand
<1>5. LineRises'
  BY <1>2, <1>3, <1>4 DEF OrderInv, LineRises
<1>6. MatchingInOrder'
  BY <1>2, <1>3, MatchedInOrder DEF MatchingInOrder
<1>7. \A id \in Lined : target[id] = server[id]
  BY <1>3 DEF OrderInv, TargetKept
<1>8. \A id \in open : target[id] = NoServer
  BY <1>3, <1>7 DEF Lined
<1>9. \A id \in Requests \ open : server'[id] = server[id]
  BY <1>1
<1>10. TargetKept'
  <2>1. \A id \in Requests : target'[id] \in {NoServer, server'[id]}
    BY <1>2, <1>8, <1>9 DEF OrderInv, TargetKept
  <2>2. \A id \in Lined' \ matching' : server'[id] = target'[id]
    BY <1>2, <1>3, <1>4, <1>7, <1>9 DEF Lined
  <2> QED
    BY <1>2, <2>1, <2>2 DEF OrderInv, TargetKept
<1>11. \A id \in Requests \ Lined : server'[id] = server[id]
  BY <1>3, <1>9 DEF Lined
<1> QED
  BY <1>4, <1>5, <1>6, <1>10, <1>11 DEF OrderInv

\* What leaves the queue is the first one that matches, so nothing with the
\* same target that came before it stays.
LEMMA PopOrder ==
    ASSUME CommandInv, OrderInv, Pop, UNCHANGED submitVars
    PROVE  /\ OrderInv' /\ Waiting' = Waiting
           /\ inHand' \in ToSet(queue) /\ Lined' = Lined \ {inHand'}
           /\ \A a \in Lined : a < inHand' => target[a] # target[inHand']
<1>1. PICK i \in DOMAIN queue :
        /\ queue[i] \in matching
        /\ \A j \in 1..(i - 1) : queue[j] \notin matching
        /\ inHand' = queue[i]
        /\ matching' = matching \ {queue[i]}
        /\ queue' = RemoveAt(queue, i)
  BY DEF Pop
<1>2. /\ queuePc = "pop" /\ queuePc' \in {"clear", "send"}
      /\ UNCHANGED <<input, server, target>>
  BY DEF Pop, listVars, submitVars
<1>3. /\ queue \in Seq(Requests) /\ DOMAIN queue = 1..Len(queue) /\ Len(queue) \in Nat
      /\ \A k \in DOMAIN queue : queue[k] \in Nat
  <2>1. queue \in Seq(Requests)
    BY DEF CommandInv, CommandTypes
  <2>2. \A k \in DOMAIN queue : queue[k] \in Requests
    BY <2>1
  <2>3. \A k \in DOMAIN queue : queue[k] \in Nat
    BY <2>2, RequestsAreNat
  <2> QED
    BY <2>1, <2>3
<1>4. Rising(queue') /\ ToSet(queue') = ToSet(queue) \ {inHand'}
  BY <1>1, <1>3, RisingRemoveAt DEF OrderInv, LineRises
<1>5. /\ ToSet(input) \subseteq Nat /\ ToSet(queue) \subseteq Nat
      /\ inHand' \in ToSet(queue)
      /\ \A a \in ToSet(queue), b \in ToSet(input) : a < b
  BY <1>1, LinedRegistered, RequestsAreNat DEF OrderInv, LineRises, ToSet
<1>6. inHand' \notin ToSet(input) /\ inHand' \notin ToSet(queue')
  BY <1>4, <1>5
<1>7. /\ Lined' = Lined \ {inHand'} /\ InHand' = {inHand'} /\ InHand = {}
      /\ Waiting' = Waiting
  BY <1>2, <1>4, <1>5, <1>6 DEF Lined, InHand, Waiting
<1>8. matching' \subseteq ToSet(queue')
  BY <1>1, <1>4 DEF OrderInv, LineRises
<1>9. LineRises'
  <2>1. Rising(queue') /\ Rising(input')
    BY <1>2, <1>4 DEF OrderInv, LineRises
  <2>2. \A a \in ToSet(queue'), b \in ToSet(input') : a < b
    BY <1>2, <1>4, <1>5
  <2>3. InHand' \cap Lined' = {}
    BY <1>7
  <2> QED
    BY <1>2, <1>8, <2>1, <2>2, <2>3 DEF LineRises
<1>10. MatchingInOrder'
  BY <1>1, <1>2, <1>4 DEF OrderInv, MatchingInOrder
<1>11. TargetKept'
  <2>1. Lined' \ matching' \subseteq Lined \ matching
    BY <1>1, <1>7
  <2> QED
    BY <1>2, <2>1 DEF OrderInv, TargetKept
<1>12. ASSUME NEW a \in Lined, a < inHand' PROVE target[a] # target[inHand']
  <2> SUFFICES ASSUME target[a] = target[inHand'] PROVE FALSE
    OBVIOUS
  <2>1. a \in ToSet(queue)
    BY <1>5, <1>12 DEF Lined
  <2>2. a \in matching
    BY <1>1, <1>12, <2>1 DEF OrderInv, MatchingInOrder
  <2>3. PICK j \in DOMAIN queue : queue[j] = a
    BY <2>1 DEF ToSet
  <2>4. ~(j < i)
    <3> SUFFICES ASSUME j < i PROVE FALSE
      OBVIOUS
    <3>1. j \in 1..(i - 1)
      BY <1>3
    <3> QED
      BY <1>1, <2>2, <2>3, <3>1
  <2>5. ~(i < j) /\ i # j
    BY <1>1, <1>3, <1>12, <2>3 DEF OrderInv, LineRises, Rising
  <2> QED
    BY <1>3, <2>4, <2>5
<1> QED
  BY <1>5, <1>7, <1>9, <1>10, <1>11, <1>12 DEF OrderInv

\* The request in hand is sent, or fails to be.
LEMMA SentOrder ==
    ASSUME CommandInv, OrderInv, Send \/ SendFails, UNCHANGED submitVars
    PROVE  /\ OrderInv' /\ Lined' = Lined
           /\ inHand \in Waiting /\ Waiting' = Waiting \ {inHand}
<1>1. /\ queuePc = "send"
      /\ queuePc' = IF matching = {} THEN "check" ELSE "pop"
      /\ UNCHANGED <<input, queue, matching, server, target>>
  BY DEF Send, SendFails, NextInHand, listVars, submitVars
<1>2. /\ InHand = {inHand} /\ InHand' = {} /\ Lined' = Lined /\ inHand \notin Lined
  BY <1>1 DEF InHand, Lined, OrderInv, LineRises
<1>3. LineRises'
  BY <1>1, <1>2 DEF OrderInv, LineRises
<1> QED
  BY <1>1, <1>2, <1>3 DEF OrderInv, MatchingInOrder, TargetKept, Waiting

LEMMA LittleOrder ==
    ASSUME OrderInv, QueueEnd \/ QueueWait \/ QueueClear, UNCHANGED submitVars
    PROVE  /\ OrderInv' /\ Lined' = Lined /\ InHand' = InHand
<1>1. /\ queuePc \in {"check", "clear"}
      /\ queuePc = "check" => queuePc' \in {"stopped", "wait"}
      /\ queuePc = "clear" => queuePc' = "send"
      /\ UNCHANGED <<input, queue, matching, inHand, server, target>>
  BY DEF QueueEnd, QueueWait, QueueClear, listVars, submitVars
<1>2. Lined' = Lined /\ InHand' = InHand
  BY <1>1 DEF Lined, InHand
<1>3. LineRises'
  BY <1>1, <1>2 DEF OrderInv, LineRises
<1> QED
  BY <1>1, <1>2, <1>3 DEF OrderInv, MatchingInOrder, TargetKept

-----------------------------------------------------------------------------
(* The servers: how each step moves a request.                              *)

LEMMA SetOfFew ==
    /\ ToSet(<<>>) = {}
    /\ \A S : \A q \in Seq(S) :
        Len(q) = 1 => ToSet(q) = {Head(q)} /\ Tail(q) = <<>>
    /\ \A x : ToSet(<<x>>) = {x}
<1>1. ToSet(<<>>) = {}
  BY DEF ToSet
<1>2. ASSUME NEW S, NEW q \in Seq(S), Len(q) = 1
      PROVE  ToSet(q) = {Head(q)} /\ Tail(q) = <<>>
  <2>1. DOMAIN q = {1} /\ Head(q) = q[1]
    BY <1>2
  <2>2. Tail(q) \in Seq(S) /\ Len(Tail(q)) = 0
    BY <1>2
  <2>3. ToSet(q) = {q[1]}
    <3>1. {q[i] : i \in {1}} = {q[1]}
      OBVIOUS
    <3> QED
      BY <2>1, <3>1 DEF ToSet
  <2>4. Tail(q) = <<>>
    BY <2>2, EmptySeq
  <2> QED
    BY <2>1, <2>3, <2>4
<1>3. ASSUME NEW x PROVE ToSet(<<x>>) = {x}
  <2>1. DOMAIN <<x>> = {1} /\ <<x>>[1] = x
    OBVIOUS
  <2> QED
    BY <2>1 DEF ToSet
<1> QED
  BY <1>1, <1>2, <1>3

\* A server has a request to receive, one it executes, an answer, or nothing.
LEMMA ServerHasOne ==
    ASSUME CommandInv, NEW s \in Servers
    PROVE  /\ requests[s] \in Seq(Requests) /\ answers[s] \in Seq(AnswerValue)
           /\ Outstanding(s) = 0 =>
                requests[s] = <<>> /\ answers[s] = <<>> /\ executing[s] = NoRequest
           /\ requests[s] # <<>> =>
                Len(requests[s]) = 1 /\ answers[s] = <<>> /\ executing[s] = NoRequest
           /\ answers[s] # <<>> =>
                Len(answers[s]) = 1 /\ requests[s] = <<>> /\ executing[s] = NoRequest
           /\ executing[s] # NoRequest =>
                executing[s] \in Requests /\ requests[s] = <<>> /\ answers[s] = <<>>
<1>1. /\ requests[s] \in Seq(Requests) /\ answers[s] \in Seq(AnswerValue)
      /\ executing[s] \in Requests \cup {NoRequest}
  BY DEF CommandInv, CommandTypes
<1> DEFINE own == IF executing[s] = NoRequest THEN 0 ELSE 1
<1>2. /\ Outstanding(s) = Len(requests[s]) + Len(answers[s]) + own
      /\ Outstanding(s) <= 1
  BY DEF Outstanding, CommandInv, OneCommandPerServer
<1>3. own \in {0, 1} /\ (own = 0 <=> executing[s] = NoRequest)
  OBVIOUS
<1>4. /\ Len(requests[s]) \in Nat /\ Len(answers[s]) \in Nat
      /\ Len(requests[s]) = 0 <=> requests[s] = <<>>
      /\ Len(answers[s]) = 0 <=> answers[s] = <<>>
  BY <1>1
<1> HIDE DEF own
<1>5. /\ Outstanding(s) = 0 =>
            Len(requests[s]) = 0 /\ Len(answers[s]) = 0 /\ own = 0
      /\ Len(requests[s]) # 0 =>
            Len(requests[s]) = 1 /\ Len(answers[s]) = 0 /\ own = 0
      /\ Len(answers[s]) # 0 =>
            Len(answers[s]) = 1 /\ Len(requests[s]) = 0 /\ own = 0
      /\ own # 0 => Len(requests[s]) = 0 /\ Len(answers[s]) = 0
  <2>1. \A m, n \in Nat, o \in {0, 1} : m + n + o <= 1 =>
            /\ m + n + o = 0 => m = 0 /\ n = 0 /\ o = 0
            /\ m # 0 => m = 1 /\ n = 0 /\ o = 0
            /\ n # 0 => n = 1 /\ m = 0 /\ o = 0
            /\ o # 0 => m = 0 /\ n = 0
    OBVIOUS
  <2>2. Len(requests[s]) \in Nat /\ Len(answers[s]) \in Nat /\ own \in {0, 1}
    BY <1>3, <1>4
  <2>3. Len(requests[s]) + Len(answers[s]) + own <= 1
    BY <1>2
  <2> QED
    BY <1>2, <2>1, <2>2, <2>3, Zenon
<1> QED
  BY <1>1, <1>3, <1>4, <1>5

LEMMA ServersKept ==
    UNCHANGED <<requests, executing, answers>> =>
        \A t \in Servers : Running(t)' = Running(t) /\ Answered(t)' = Answered(t)
  BY DEF Running, Answered

LEMMA OneRunningOrAnswered ==
    ASSUME CommandInv, NEW s \in Servers
    PROVE  /\ At(s) \subseteq Requests
           /\ Outstanding(s) = 0 => At(s) = {}
           /\ \A id \in Running(s) : Running(s) = {id} /\ Answered(s) = {}
           /\ \A id \in Answered(s) : Answered(s) = {id} /\ Running(s) = {}
           /\ At(s) # {} => Outstanding(s) = 1
<1>1. CASE requests[s] # <<>>
  <2>1. /\ requests[s] \in Seq(Requests) /\ Len(requests[s]) = 1
        /\ answers[s] = <<>> /\ executing[s] = NoRequest
    BY <1>1, ServerHasOne
  <2>2. ToSet(requests[s]) = {Head(requests[s])} /\ Head(requests[s]) \in Requests
    BY <2>1, SetOfFew
  <2>3. Running(s) = {Head(requests[s])} /\ Answered(s) = {} /\ Outstanding(s) = 1
    BY <2>1, <2>2, SetOfFew DEF Running, Answered, Outstanding
  <2> QED
    BY <2>2, <2>3 DEF At
<1>2. CASE answers[s] # <<>>
  <2>1. /\ answers[s] \in Seq(AnswerValue) /\ Len(answers[s]) = 1
        /\ requests[s] = <<>> /\ executing[s] = NoRequest
    BY <1>2, ServerHasOne
  <2>2. ToSet(answers[s]) = {Head(answers[s])} /\ Head(answers[s]).id \in Requests
    <3>1. Head(answers[s]) \in AnswerValue
      BY <2>1
    <3> QED
      BY <2>1, <3>1, SetOfFew DEF AnswerValue
  <2>3. Answered(s) = {Head(answers[s]).id} /\ Running(s) = {} /\ Outstanding(s) = 1
    BY <2>1, <2>2, SetOfFew DEF Running, Answered, Outstanding
  <2> QED
    BY <2>2, <2>3 DEF At
<1>3. CASE executing[s] # NoRequest
  <2>1. executing[s] \in Requests /\ requests[s] = <<>> /\ answers[s] = <<>>
    BY <1>3, ServerHasOne
  <2>2. Running(s) = {executing[s]} /\ Answered(s) = {} /\ Outstanding(s) = 1
    BY <1>3, <2>1, SetOfFew DEF Running, Answered, Outstanding
  <2> QED
    BY <2>1, <2>2 DEF At
<1>4. CASE requests[s] = <<>> /\ answers[s] = <<>> /\ executing[s] = NoRequest
  <2>1. Running(s) = {} /\ Answered(s) = {}
    BY <1>4, SetOfFew DEF Running, Answered
  <2> QED
    BY <2>1 DEF At
<1> QED
  BY <1>1, <1>2, <1>3, <1>4

LEMMA SendMoves ==
    ASSUME CommandInv, Send, NEW s, s = server[inHand]
    PROVE  /\ s \in Servers /\ At(s) = {} /\ inHand \in Requests
           /\ Running(s)' = {inHand} /\ Answered(s)' = {}
           /\ \A t \in Servers \ {s} :
                Running(t)' = Running(t) /\ Answered(t)' = Answered(t)
<1>1. s \in Servers /\ ~busy[s] /\ inHand \in Requests
  BY DEF Send, CommandInv, OwnServers, ToSend, CommandTypes, listVars
<1>2. Outstanding(s) = 0
  BY <1>1, OutstandingNat DEF CommandInv, OneCommandPerServer
<1>3. requests[s] = <<>> /\ answers[s] = <<>> /\ executing[s] = NoRequest /\ At(s) = {}
  BY <1>1, <1>2, ServerHasOne, OneRunningOrAnswered
<1>4. /\ requests' = [requests EXCEPT ![s] = Append(@, inHand)]
      /\ UNCHANGED <<executing, answers>>
  BY DEF Send
<1>5. requests'[s] = <<inHand>> /\ \A t \in Servers \ {s} : requests'[t] = requests[t]
  BY <1>1, <1>3, <1>4 DEF CommandInv, CommandTypes
<1>6. ASSUME NEW t \in Servers \ {s}
      PROVE  Running(t)' = Running(t) /\ Answered(t)' = Answered(t)
  BY <1>4, <1>5 DEF Running, Answered
<1>7. Running(s)' = {inHand}
  <2>1. ToSet(requests'[s]) = {inHand} /\ executing'[s] = NoRequest
    BY <1>3, <1>4, <1>5, SetOfFew
  <2>2. ToSet(requests'[s]) \cup ({executing'[s]} \ {NoRequest}) = {inHand}
    BY <2>1
  <2> QED
    BY <2>2 DEF Running
<1>8. Answered(s)' = {}
  <2>1. {a.id : a \in ToSet(answers'[s])} = {}
    BY <1>3, <1>4, SetOfFew
  <2> QED
    BY <2>1 DEF Answered
<1> QED
  BY <1>1, <1>3, <1>6, <1>7, <1>8

LEMMA ServerReceiveMoves ==
    ASSUME CommandInv, NEW s \in Servers, ServerReceive(s)
    PROVE  \A t \in Servers : Running(t)' = Running(t) /\ Answered(t)' = Answered(t)
<1>1. /\ requests[s] \in Seq(Requests) /\ Len(requests[s]) = 1
      /\ executing[s] = NoRequest
  BY ServerHasOne DEF ServerReceive
<1>2. /\ executing' = [executing EXCEPT ![s] = Head(requests[s])]
      /\ requests' = [requests EXCEPT ![s] = Tail(@)]
      /\ UNCHANGED answers
  BY DEF ServerReceive
<1>3. /\ ToSet(requests[s]) = {Head(requests[s])} /\ Tail(requests[s]) = <<>>
      /\ Head(requests[s]) # NoRequest
  <2>1. Head(requests[s]) \in Requests
    BY <1>1
  <2> QED
    BY <1>1, <2>1, SetOfFew, RequestsAreNat DEF NoRequest
<1>4. /\ requests'[s] = <<>> /\ executing'[s] = Head(requests[s])
      /\ \A t \in Servers \ {s} : requests'[t] = requests[t] /\ executing'[t] = executing[t]
  BY <1>2, <1>3 DEF CommandInv, CommandTypes
<1>5. Running(s) = {Head(requests[s])} /\ Running(s)' = {Head(requests[s])}
  BY <1>1, <1>3, <1>4, SetOfFew DEF Running
<1> QED
  BY <1>2, <1>4, <1>5 DEF Running, Answered

LEMMA ServerAnswerMoves ==
    ASSUME CommandInv, NEW s \in Servers, NEW successful \in Results,
           ServerAnswer(s, successful)
    PROVE  /\ executing[s] \in Requests
           /\ Running(s) = {executing[s]} /\ Answered(s) = {}
           /\ Running(s)' = {} /\ Answered(s)' = {executing[s]}
           /\ ToSet(answers'[s]) = {[id |-> executing[s], successful |-> successful]}
           /\ result' = [result EXCEPT ![executing[s]] = successful]
           /\ \A t \in Servers \ {s} : /\ Running(t)' = Running(t)
                                       /\ Answered(t)' = Answered(t)
                                       /\ answers'[t] = answers[t]
<1> DEFINE answer == [id |-> executing[s], successful |-> successful]
<1>1. /\ executing[s] # NoRequest
      /\ answers' = [answers EXCEPT ![s] = Append(@, answer)]
      /\ executing' = [executing EXCEPT ![s] = NoRequest]
      /\ result' = [result EXCEPT ![executing[s]] = successful]
      /\ UNCHANGED requests
  BY DEF ServerAnswer
<1>2. executing[s] \in Requests /\ requests[s] = <<>> /\ answers[s] = <<>>
  BY <1>1, ServerHasOne
<1>3. /\ answers'[s] = <<answer>> /\ executing'[s] = NoRequest
      /\ \A t \in Servers \ {s} : answers'[t] = answers[t] /\ executing'[t] = executing[t]
  BY <1>1, <1>2 DEF CommandInv, CommandTypes
<1>4. Running(s) = {executing[s]} /\ Answered(s) = {}
  BY <1>1, <1>2, SetOfFew DEF Running, Answered
<1>5. Running(s)' = {} /\ ToSet(answers'[s]) = {answer}
  BY <1>1, <1>2, <1>3, SetOfFew DEF Running
<1>6. Answered(s)' = {executing[s]}
  BY <1>5 DEF Answered
<1> HIDE DEF answer
<1>7. \A t \in Servers \ {s} : Running(t)' = Running(t) /\ Answered(t)' = Answered(t)
  BY <1>1, <1>3 DEF Running, Answered
<1> QED
  BY <1>1, <1>2, <1>3, <1>4, <1>5, <1>6, <1>7 DEF answer

LEMMA ReceiveMoves ==
    ASSUME CommandInv, NEW s \in Servers, Receive(s)
    PROVE  /\ arrived' \in AnswerValue /\ arrived' \in ToSet(answers[s])
           /\ Answered(s) = {arrived'.id} /\ Running(s) = {}
           /\ Running(s)' = {} /\ Answered(s)' = {} /\ ToSet(answers'[s]) = {}
           /\ Arrived' = {arrived'.id}
           /\ \A t \in Servers \ {s} : /\ Running(t)' = Running(t)
                                       /\ Answered(t)' = Answered(t)
                                       /\ answers'[t] = answers[t]
<1>1. /\ answers[s] # <<>>
      /\ arrived' = Head(answers[s])
      /\ answers' = [answers EXCEPT ![s] = Tail(@)]
      /\ responsePc' = "store"
      /\ UNCHANGED <<requests, executing>>
  BY DEF Receive
<1>2. /\ answers[s] \in Seq(AnswerValue) /\ Len(answers[s]) = 1
      /\ requests[s] = <<>> /\ executing[s] = NoRequest
  BY <1>1, ServerHasOne
<1>3. ToSet(answers[s]) = {Head(answers[s])} /\ Tail(answers[s]) = <<>>
      /\ Head(answers[s]) \in AnswerValue
  BY <1>2, SetOfFew
<1>4. answers'[s] = <<>> /\ \A t \in Servers \ {s} : answers'[t] = answers[t]
  BY <1>1, <1>3 DEF CommandInv, CommandTypes
<1>5. Answered(s) = {arrived'.id} /\ Running(s) = {}
  BY <1>1, <1>2, <1>3, SetOfFew DEF Running, Answered
<1>6. Running(s)' = {} /\ ToSet(answers'[s]) = {}
  BY <1>1, <1>2, <1>4, SetOfFew DEF Running
<1>7. Answered(s)' = {}
  BY <1>6 DEF Answered
<1>8. \A t \in Servers \ {s} : Running(t)' = Running(t) /\ Answered(t)' = Answered(t)
  BY <1>1, <1>4 DEF Running, Answered
<1> QED
  BY <1>1, <1>3, <1>4, <1>5, <1>6, <1>7, <1>8 DEF Arrived

-----------------------------------------------------------------------------
(* Where the requests are, after each step.                                 *)

\* A step that moves no request and hears of no response.
LEMMA ApartKept ==
    ASSUME CommandInv, Apart, Waiting' = Waiting, Arrived' = Arrived,
           \A t \in Servers : Running(t)' = Running(t) /\ Answered(t)' = Answered(t),
           UNCHANGED <<response, counter>>,
           \A id \in Requests \ Waiting : server'[id] = server[id]
    PROVE  Apart'
<1>1. \A t \in Servers : At(t)' = At(t)
  BY DEF At
<1>2. \A t \in Servers : \A id \in At(t) : id \in Requests \ Waiting
  BY OneRunningOrAnswered DEF Apart
<1> QED
  BY <1>1, <1>2 DEF Apart

LEMMA RegisterPlace ==
    ASSUME CommandInv, OrderInv, Apart, AnswersTrue, HandlerStage,
           NEW s \in Servers \cup {NoServer}, Register(s), counter \in Requests
    PROVE  Apart' /\ AnswersTrue' /\ HandlerStage'
<1>1. /\ counter' = counter + 1
      /\ server' = [server EXCEPT ![counter] = s]
      /\ UNCHANGED <<response, requests, executing, answers, responsePc, arrived, result>>
  BY DEF Register, handlerVars, serverVars
<1>2. Waiting' = Waiting \cup {counter}
  BY RegisterOrder DEF Waiting
<1>3. \A t \in Servers : /\ Running(t)' = Running(t) /\ Answered(t)' = Answered(t)
                         /\ At(t)' = At(t) /\ At(t) \subseteq Requests
  BY <1>1, ServersKept, OneRunningOrAnswered DEF At
<1>4. Arrived' = Arrived
  BY <1>1 DEF Arrived
<1>5. /\ counter \in Nat /\ response[counter] = "none"
      /\ counter \notin Arrived
      /\ \A t \in Servers : counter \notin At(t)
  BY RequestsAreNat DEF Apart
<1>6. \A t \in Servers : \A id \in At(t) : id \in Nat /\ server'[id] = server[id]
  BY <1>1, <1>3, <1>5, RequestsAreNat DEF CommandInv, CommandTypes
<1>7. \A id \in Arrived : id \in Nat
  BY RequestsAreNat DEF Arrived, HandlerStage, AnswerValue
<1>8. Apart'
  <2>1. \A id \in Waiting' : /\ response'[id] = "none" /\ id \notin Arrived'
                             /\ \A t \in Servers : id \notin At(t)'
    BY <1>1, <1>2, <1>3, <1>4, <1>5 DEF Apart
  <2>2. \A t \in Servers : \A id \in At(t)' :
            id < counter' /\ server'[id] = t /\ response'[id] = "none" /\ id \notin Arrived'
    BY <1>1, <1>3, <1>4, <1>5, <1>6 DEF Apart
  <2>3. \A id \in Arrived' : id < counter' /\ response'[id] = "none"
    BY <1>1, <1>4, <1>5, <1>7 DEF Apart
  <2>4. \A id \in Requests : id >= counter' => response'[id] = "none"
    BY <1>1, <1>5, RequestsAreNat DEF Apart
  <2> QED
    BY <2>1, <2>2, <2>3, <2>4 DEF Apart
<1> QED
  BY <1>1, <1>8 DEF AnswersTrue, HandlerStage

LEMMA QueueServicePlace ==
    ASSUME CommandInv, OrderInv, Apart, AnswersTrue, HandlerStage, QueueService
    PROVE  OrderInv' /\ Apart' /\ AnswersTrue' /\ HandlerStage'
<1>1. UNCHANGED <<counter, target, responsePc, arrived>> /\ Arrived' = Arrived
  BY DEF QueueService, submitVars, handlerVars, Arrived
<1>2. UNCHANGED submitVars
  BY <1>1 DEF submitVars
<1>3. CASE ~Send /\ ~SendFails
  <2>1. UNCHANGED <<response, requests, executing, answers, result>>
    BY <1>3 DEF QueueService, QueueEnd, QueueWait, PickUp, Match, Pop, QueueClear,
       listVars, serverVars
  <2>2. /\ OrderInv' /\ Waiting' = Waiting
        /\ \A id \in Requests \ Waiting : server'[id] = server[id]
    <3>1. CASE Match
      BY <1>2, <3>1, MatchOrder DEF Waiting
    <3>2. CASE Pop
      <4>1. UNCHANGED server
        BY <3>2 DEF Pop, listVars
      <4> QED
        BY <1>2, <3>2, <4>1, PopOrder
    <3>3. CASE PickUp
      <4>1. UNCHANGED server
        BY <3>3 DEF PickUp, listVars
      <4> QED
        BY <1>2, <3>3, <4>1, PickUpOrder DEF Waiting
    <3>4. CASE QueueEnd \/ QueueWait \/ QueueClear
      <4>1. UNCHANGED server
        BY <3>4 DEF QueueEnd, QueueWait, QueueClear, listVars
      <4> QED
        BY <1>2, <3>4, <4>1, LittleOrder DEF Waiting
    <3> QED
      BY <1>3, <3>1, <3>2, <3>3, <3>4 DEF QueueService
  <2>3. Apart'
    BY <1>1, <2>1, <2>2, ServersKept, ApartKept
  <2> QED
    BY <1>1, <2>1, <2>2, <2>3 DEF AnswersTrue, HandlerStage
<1>4. CASE Send
  <2>0. PICK s : s = server[inHand]
    OBVIOUS
  <2>1. UNCHANGED <<response, answers, server, result>>
    BY <1>4 DEF Send, listVars
  <2>2. OrderInv' /\ inHand \in Waiting /\ Waiting' = Waiting \ {inHand}
    BY <1>2, <1>4, SentOrder
  <2>3. /\ s \in Servers /\ At(s) = {} /\ inHand \in Requests /\ inHand < counter
        /\ Running(s)' = {inHand} /\ Answered(s)' = {}
        /\ \A t \in Servers \ {s} :
             Running(t)' = Running(t) /\ Answered(t)' = Answered(t)
    <3>1. inHand < counter
      BY <2>2, LinedRegistered
    <3> QED
      BY <1>4, <2>0, <3>1, SendMoves
  <2>4. /\ At(s)' = {inHand} /\ \A t \in Servers \ {s} : At(t)' = At(t)
    BY <2>3 DEF At
  <2>5. server'[inHand] = s
    BY <2>0, <2>1, <2>2
  <2>6. Apart'
    BY <1>1, <2>1, <2>2, <2>3, <2>4, <2>5 DEF Apart
  <2> QED
    BY <1>1, <2>1, <2>2, <2>6 DEF AnswersTrue, HandlerStage
<1>5. CASE SendFails
  <2>1. /\ response' = [response EXCEPT ![inHand] = "unsent"]
        /\ UNCHANGED <<requests, executing, answers, server, result>>
    BY <1>5 DEF SendFails, serverVars
  <2>2. OrderInv' /\ inHand \in Waiting /\ Waiting' = Waiting \ {inHand}
    BY <1>2, <1>5, SentOrder
  <2>3. inHand \in Requests /\ inHand < counter /\ response[inHand] = "none"
        /\ inHand \notin Arrived /\ \A t \in Servers : inHand \notin At(t)
    BY <2>2, LinedRegistered DEF Apart
  <2>4. \A t \in Servers : At(t)' = At(t)
    BY <2>1, ServersKept DEF At
  <2>5. /\ response' \in [Requests -> Results \cup {"none", "unsent"}]
        /\ response'[inHand] = "unsent"
        /\ \A id \in Requests \ {inHand} : response'[id] = response[id]
    BY <2>1, <2>3 DEF CommandInv, CommandTypes
  <2>6. Apart'
    <3>1. \A id \in Waiting' : /\ response'[id] = "none" /\ id \notin Arrived'
                               /\ \A t \in Servers : id \notin At(t)'
      BY <1>1, <2>2, <2>4, <2>5, LinedRegistered DEF Apart
    <3>2. ASSUME NEW t \in Servers, NEW id \in At(t)'
          PROVE  /\ id < counter' /\ server'[id] = t /\ response'[id] = "none"
                 /\ id \notin Arrived'
      <4>1. id \in At(t) /\ id \in Requests \ {inHand}
        BY <2>3, <2>4, <3>2, OneRunningOrAnswered
      <4> QED
        BY <1>1, <2>1, <2>5, <4>1 DEF Apart
    <3>3. ASSUME NEW id \in Arrived' PROVE id < counter' /\ response'[id] = "none"
      <4>1. id \in Arrived /\ id \in Requests \ {inHand}
        BY <1>1, <2>3, <3>3 DEF Arrived, HandlerStage, AnswerValue
      <4> QED
        BY <1>1, <2>5, <4>1 DEF Apart
    <3>4. ASSUME NEW id \in Requests, id >= counter' PROVE response'[id] = "none"
      <4>1. id # inHand
        BY <1>1, <2>3, <3>4, LinedRegistered, RequestsAreNat
      <4> QED
        BY <1>1, <2>5, <3>4, <4>1 DEF Apart
    <3> QED
      BY <3>1, <3>2, <3>3, <3>4 DEF Apart
  <2>7. AnswersTrue'
    BY <1>1, <2>1, <2>5 DEF AnswersTrue
  <2>8. HandlerStage'
    BY <1>1, <2>5 DEF HandlerStage, AnswerValue
  <2> QED
    BY <2>2, <2>6, <2>7, <2>8
<1> QED
  BY <1>3, <1>4, <1>5

LEMMA ReceivePlace ==
    ASSUME CommandInv, Apart, AnswersTrue, HandlerStage,
           NEW s \in Servers, Receive(s), UNCHANGED <<submitVars, queueVars>>
    PROVE  Apart' /\ AnswersTrue' /\ HandlerStage'
<1>1. /\ responsePc \in {"wait", "check"} /\ responsePc' = "store"
      /\ UNCHANGED <<counter, server, response, result>>
      /\ Waiting' = Waiting
  BY DEF Receive, Probing, listVars, submitVars, queueVars, Waiting, Lined, InHand
<1>2. /\ arrived' \in AnswerValue /\ arrived' \in ToSet(answers[s])
      /\ Answered(s) = {arrived'.id} /\ Running(s) = {}
      /\ Running(s)' = {} /\ Answered(s)' = {} /\ ToSet(answers'[s]) = {}
      /\ Arrived' = {arrived'.id}
      /\ \A t \in Servers \ {s} : /\ Running(t)' = Running(t)
                                  /\ Answered(t)' = Answered(t)
                                  /\ answers'[t] = answers[t]
  BY ReceiveMoves
<1>3. Arrived = {}
  BY <1>1 DEF Arrived
<1>4. /\ At(s) = {arrived'.id} /\ At(s)' = {}
      /\ \A t \in Servers \ {s} : At(t)' = At(t)
  BY <1>2 DEF At
<1>5. /\ arrived'.id < counter /\ server[arrived'.id] = s
      /\ response[arrived'.id] = "none" /\ arrived'.id \notin Waiting
      /\ \A t \in Servers \ {s} : arrived'.id \notin At(t)
  BY <1>4 DEF Apart
<1>6. Apart'
  BY <1>1, <1>2, <1>4, <1>5 DEF Apart
<1>7. AnswersTrue'
  BY <1>1, <1>2 DEF AnswersTrue
<1> QED
  BY <1>1, <1>2, <1>6, <1>7 DEF HandlerStage

LEMMA StorePlace ==
    ASSUME CommandInv, Apart, AnswersTrue, HandlerStage,
           Store, UNCHANGED <<submitVars, queueVars>>
    PROVE  Apart' /\ AnswersTrue' /\ HandlerStage'
<1> DEFINE id == arrived.id
<1>1. /\ responsePc = "store" /\ responsePc' \in {"clear", "finish"}
      /\ response' = [response EXCEPT ![id] = arrived.successful]
      /\ UNCHANGED <<counter, server, arrived, requests, executing, answers, result>>
      /\ Waiting' = Waiting
  BY DEF Store, serverVars, submitVars, queueVars, Waiting, Lined, InHand
<1>2. Arrived = {id} /\ Arrived' = {}
  BY <1>1 DEF Arrived
<1>3. /\ id \in Requests /\ arrived.successful \in Results
      /\ arrived.successful = result[id] /\ id < counter
      /\ arrived.successful \notin {"none", "unsent"}
  BY <1>1, <1>2, CommandAssumption DEF HandlerStage, AnswersTrue, AnswerValue, Apart
<1>4. /\ response'[id] = arrived.successful
      /\ \A other \in Requests \ {id} : response'[other] = response[other]
  BY <1>1, <1>3 DEF CommandInv, CommandTypes
<1>5. \A t \in Servers : At(t)' = At(t) /\ At(t) \subseteq Requests /\ id \notin At(t)
  BY <1>1, <1>2, ServersKept, OneRunningOrAnswered DEF At, Apart
<1>6. id \notin Waiting /\ Waiting \subseteq Requests
  BY <1>2, LinedRegistered DEF Apart
<1> HIDE DEF id
<1>7. Apart'
  <2>1. \A other \in Waiting' : /\ response'[other] = "none" /\ other \notin Arrived'
                                /\ \A t \in Servers : other \notin At(t)'
    BY <1>1, <1>2, <1>4, <1>5, <1>6 DEF Apart
  <2>2. ASSUME NEW t \in Servers, NEW other \in At(t)'
        PROVE  /\ other < counter' /\ server'[other] = t /\ response'[other] = "none"
               /\ other \notin Arrived'
    <3>1. other \in At(t) /\ other \in Requests \ {id}
      BY <1>5, <2>2
    <3> QED
      BY <1>1, <1>2, <1>4, <3>1 DEF Apart
  <2>3. ASSUME NEW other \in Requests, other >= counter' PROVE response'[other] = "none"
    <3>1. other # id
      BY <1>1, <1>3, <2>3, LinedRegistered, RequestsAreNat
    <3> QED
      BY <1>1, <1>4, <2>3, <3>1 DEF Apart
  <2> QED
    BY <1>2, <2>1, <2>2, <2>3 DEF Apart
<1>8. AnswersTrue'
  BY <1>1, <1>3, <1>4 DEF AnswersTrue
<1>9. HandlerStage'
  BY <1>1, <1>3, <1>4 DEF HandlerStage, id
<1> QED
  BY <1>7, <1>8, <1>9

LEMMA ResponseHandlerPlace ==
    ASSUME CommandInv, OrderInv, Apart, AnswersTrue, HandlerStage, ResponseHandler
    PROVE  OrderInv' /\ Apart' /\ AnswersTrue' /\ HandlerStage'
<1>1. UNCHANGED <<submitVars, queueVars>> /\ UNCHANGED server
  BY DEF ResponseHandler, HandlerEnd, HandlerWait, NothingToReceive, Store,
     HandlerClear, Finish, Receive, listVars
<1>2. OrderInv'
  BY <1>1, OrderInvKept DEF submitVars, queueVars
<1>3. ASSUME NEW s \in Servers, Receive(s) PROVE Apart' /\ AnswersTrue' /\ HandlerStage'
  BY <1>1, <1>3, ReceivePlace
<1>4. CASE Store
  BY <1>1, <1>2, <1>4, StorePlace
<1>5. CASE HandlerEnd \/ HandlerWait \/ NothingToReceive \/ HandlerClear \/ Finish
  <2>1. /\ UNCHANGED <<response, requests, executing, answers, result, counter, server>>
        /\ responsePc # "store" /\ responsePc' # "store"
    BY <1>1, <1>5 DEF HandlerEnd, HandlerWait, NothingToReceive, HandlerClear,
       Finish, listVars, serverVars, submitVars
  <2>2. HandlerStage'
    BY <1>5, <2>1 DEF HandlerStage, HandlerEnd, HandlerWait, NothingToReceive,
       HandlerClear, Finish
  <2>3. Waiting' = Waiting /\ Arrived' = Arrived
    BY <1>1, <2>1 DEF Waiting, Lined, InHand, Arrived, queueVars
  <2>4. /\ \A t \in Servers : Running(t)' = Running(t) /\ Answered(t)' = Answered(t)
        /\ \A id \in Requests \ Waiting : server'[id] = server[id]
        /\ UNCHANGED <<response, counter>>
    BY <2>1, ServersKept
  <2>5. Apart'
    BY <2>3, <2>4, ApartKept
  <2> QED
    BY <1>2, <2>1, <2>2, <2>5 DEF AnswersTrue
<1> QED
  BY <1>2, <1>3, <1>4, <1>5 DEF ResponseHandler

LEMMA ServerPlace ==
    ASSUME CommandInv, OrderInv, Apart, AnswersTrue, HandlerStage,
           NEW s \in Servers, Server(s)
    PROVE  OrderInv' /\ Apart' /\ AnswersTrue' /\ HandlerStage'
<1>1. UNCHANGED <<submitVars, listVars, queueVars, handlerVars>>
  BY DEF Server
<1>2. OrderInv' /\ HandlerStage'
  <2>1. UNCHANGED <<input, queue, matching, queuePc, inHand, target, server>>
    BY <1>1 DEF submitVars, listVars, queueVars
  <2>2. HandlerStage'
    BY <1>1 DEF HandlerStage, handlerVars, listVars
  <2> QED
    BY <2>1, <2>2, OrderInvKept
<1>3. /\ Waiting' = Waiting /\ Arrived' = Arrived
      /\ UNCHANGED <<response, server, counter, arrived, responsePc>>
  BY <1>1 DEF Waiting, Lined, InHand, Arrived, queueVars, handlerVars, listVars, submitVars
<1>4. CASE ServerReceive(s)
  <2>1. Apart'
    BY <1>3, <1>4, ServerReceiveMoves, ApartKept
  <2> QED
    BY <1>2, <1>3, <1>4, <2>1 DEF ServerReceive, AnswersTrue
<1>5. ASSUME NEW successful \in Results, ServerAnswer(s, successful)
      PROVE  Apart' /\ AnswersTrue'
  <2>0. PICK id : id = executing[s]
    OBVIOUS
  <2>1. /\ id \in Requests /\ Running(s) = {id} /\ Answered(s) = {}
        /\ Running(s)' = {} /\ Answered(s)' = {id}
        /\ ToSet(answers'[s]) = {[id |-> id, successful |-> successful]}
        /\ result' = [result EXCEPT ![id] = successful]
        /\ \A t \in Servers \ {s} : /\ Running(t)' = Running(t)
                                    /\ Answered(t)' = Answered(t)
                                    /\ answers'[t] = answers[t]
    BY <1>5, <2>0, ServerAnswerMoves
  <2>2. \A t \in Servers : At(t)' = At(t)
    BY <2>1 DEF At
  <2>3. Apart'
    BY <1>3, <2>2 DEF Apart
  <2>4. /\ result'[id] = successful
        /\ \A other \in Requests \ {id} : result'[other] = result[other]
        /\ result' \in [Requests -> Results \cup {"none"}]
    BY <2>1 DEF AnswersTrue
  <2>5. /\ id \notin Arrived /\ response[id] = "none" /\ server[id] = s
        /\ id \in At(s)
    BY <2>1 DEF At, Apart
  <2>6. ASSUME NEW t \in Servers, NEW a \in ToSet(answers'[t])
        PROVE  a.successful = result'[a.id]
    <3>1. CASE t = s
      BY <2>1, <2>4, <2>6, <3>1
    <3>2. CASE t # s
      <4>1. a \in ToSet(answers[t]) /\ a.id \in At(t)
        BY <2>1, <2>6, <3>2 DEF At, Answered
      <4>2. a.id \in Requests /\ server[a.id] = t
        BY <4>1, OneRunningOrAnswered DEF Apart
      <4> QED
        BY <2>4, <2>5, <3>2, <4>1, <4>2 DEF AnswersTrue
    <3> QED
      BY <3>1, <3>2
  <2>7. responsePc = "store" => arrived.successful = result'[arrived.id]
    <3>1. responsePc = "store" => arrived.id \in Requests \ {id}
      BY <2>5 DEF Arrived, HandlerStage, AnswerValue
    <3> QED
      BY <2>4, <3>1 DEF AnswersTrue
  <2>8. \A other \in Requests :
            response[other] \notin {"none", "unsent"} => response[other] = result'[other]
    BY <2>4, <2>5 DEF AnswersTrue
  <2> QED
    BY <1>3, <2>3, <2>4, <2>6, <2>7, <2>8 DEF AnswersTrue
<1> QED
  BY <1>2, <1>4, <1>5 DEF Server

-----------------------------------------------------------------------------
(* The invariant.                                                           *)

RequestInv == Inv /\ OrderInv /\ PlaceInv

\* What the application does besides registering requests.
LEMMA ApplicationElse ==
    ASSUME Application, \A s \in Servers \cup {NoServer} : ~Register(s)
    PROVE  UNCHANGED <<submitVars, listVars, busy, serverVars, input, queue,
                       matching, queuePc, inHand, responsePc, arrived>>
<1> USE DEF queueVars, submitVars, listVars, handlerVars, serverVars
<1>1. CASE \E servers \in Targets, block \in BOOLEAN : Push(servers, block)
  BY <1>1 DEF Push
<1>2. CASE \E id \in Requests : LookAt(id) \/ KeyRequest(id)
  BY <1>2 DEF LookAt, KeyRequest
<1>3. CASE WakeQueue \/ WakeHandler \/ Gather \/ Collect \/ MakeGroup \/ GroupReady
  BY <1>3 DEF WakeQueue, WakeHandler, Gather, Collect, MakeGroup, GroupReady
<1>4. CASE Stop \/ StopQueue \/ StopHandler \/ Stopped
  BY <1>4 DEF Stop, StopQueue, StopHandler, Stopped
<1> QED
  BY <1>1, <1>2, <1>3, <1>4 DEF Application

LEMMA AskedKept ==
    ASSUME RequestInv, Application
    PROVE  AskedRegistered'
<1> USE DEF RequestInv, PlaceInv, AskedRegistered, Registered
<1>1. ASSUME NEW s \in Servers \cup {NoServer}, Register(s) PROVE AskedRegistered'
  <2>1. counter' = counter + 1 /\ call'.ids = call.ids \cup {counter}
    BY <1>1 DEF Register, Inv, CallInv, CallValue
  <2>2. counter \in Nat \ {0}
    BY DEF Inv, CommandInv, CommandTypes
  <2> QED
    BY <2>1, <2>2
<1>2. ASSUME NEW servers \in Targets, NEW block \in BOOLEAN, Push(servers, block)
      PROVE  AskedRegistered'
  BY <1>2 DEF Push, NoCall
<1>3. ASSUME NEW id \in Requests, LookAt(id) \/ KeyRequest(id) PROVE AskedRegistered'
  <2>1. CASE LookAt(id)
    <3>1. UNCHANGED counter /\ call' = [call EXCEPT !.pending = @ \ {id}]
      BY <2>1 DEF LookAt, submitVars
    <3>2. call'.ids = call.ids
      BY <3>1 DEF Inv, CallInv, CallValue
    <3> QED
      BY <3>1, <3>2
  <2>2. CASE KeyRequest(id)
    BY <2>2 DEF KeyRequest, submitVars
  <2> QED
    BY <1>3, <2>1, <2>2
<1>4. CASE WakeQueue \/ Gather \/ MakeGroup \/ Stop \/ StopQueue \/ StopHandler \/ Stopped
  <2>1. UNCHANGED counter /\ (UNCHANGED call \/ call'.ids = {})
    BY <1>4 DEF WakeQueue, Gather, MakeGroup, Stop, StopQueue, StopHandler, Stopped,
       submitVars, NoCall
  <2> QED
    BY <2>1
<1>5. CASE WakeHandler
  <2>1. UNCHANGED counter /\ (call'.ids = call.ids \/ call'.ids = {})
    BY <1>5 DEF WakeHandler, submitVars, NoCall, Inv, CallInv, CallValue
  <2> QED
    BY <2>1
<1>6. CASE Collect \/ GroupReady
  <2>1. UNCHANGED counter /\ call'.ids = Uncollected
    BY <1>6 DEF Collect, GroupReady, submitVars, NoCall
  <2> QED
    BY <2>1 DEF Uncollected
<1> QED
  BY <1>1, <1>2, <1>3, <1>4, <1>5, <1>6 DEF Application

LEMMA PlaceKept ==
    ASSUME RequestInv, UNCHANGED <<submitVars, listVars, serverVars, input, queue,
                                   matching, queuePc, inHand, responsePc, arrived>>
    PROVE  OrderInv' /\ Apart' /\ AnswersTrue' /\ HandlerStage'
<1> USE DEF RequestInv, Inv, PlaceInv
<1>1. /\ UNCHANGED <<input, queue, matching, queuePc, inHand, target, server>>
      /\ UNCHANGED <<response, requests, executing, answers, result, counter,
                     arrived, responsePc>>
  BY DEF submitVars, listVars, serverVars
<1>2. OrderInv'
  BY <1>1, OrderInvKept
<1>3. Waiting' = Waiting /\ Arrived' = Arrived
  BY <1>1 DEF Waiting, Lined, InHand, Arrived
<1>4. /\ \A t \in Servers : Running(t)' = Running(t) /\ Answered(t)' = Answered(t)
      /\ \A id \in Requests \ Waiting : server'[id] = server[id]
      /\ UNCHANGED <<response, counter>>
  BY <1>1, ServersKept
<1>5. Apart'
  BY <1>3, <1>4, ApartKept
<1>6. AnswersTrue' /\ HandlerStage'
  BY <1>1 DEF AnswersTrue, HandlerStage
<1> QED
  BY <1>2, <1>5, <1>6

LEMMA RequestInvStep ==
    ASSUME RequestInv, [Next]_vars
    PROVE  RequestInv'
<1> USE DEF RequestInv, PlaceInv
<1>0. Inv'
  BY InvStep
<1>1. CASE Application
  <2>1. ASSUME NEW s \in Servers \cup {NoServer}, Register(s) PROVE RequestInv'
    <3>1. counter \in Requests
      BY <2>1, LeftRegisters DEF Inv
    <3>2. OrderInv'
      BY <2>1, <3>1, RegisterOrder DEF Inv
    <3>3. Apart' /\ AnswersTrue' /\ HandlerStage'
      BY <2>1, <3>1, RegisterPlace DEF Inv
    <3> QED
      BY <1>0, <1>1, <3>2, <3>3, AskedKept
  <2>2. CASE \A s \in Servers \cup {NoServer} : ~Register(s)
    <3>1. OrderInv' /\ Apart' /\ AnswersTrue' /\ HandlerStage'
      BY <1>1, <2>2, ApplicationElse, PlaceKept
    <3> QED
      BY <1>0, <1>1, <3>1, AskedKept
  <2> QED
    BY <2>1, <2>2
<1>2. ASSUME UNCHANGED <<submitVars, mainVars>> PROVE AskedRegistered'
  BY <1>2 DEF AskedRegistered, Registered, submitVars, mainVars
<1>3. CASE QueueService
  <2>1. OrderInv' /\ Apart' /\ AnswersTrue' /\ HandlerStage'
    BY <1>3, QueueServicePlace DEF Inv
  <2> QED
    BY <1>0, <1>2, <1>3, <2>1 DEF QueueService
<1>4. CASE ResponseHandler
  <2>1. OrderInv' /\ Apart' /\ AnswersTrue' /\ HandlerStage'
    BY <1>4, ResponseHandlerPlace DEF Inv
  <2> QED
    BY <1>0, <1>2, <1>4, <2>1 DEF ResponseHandler
<1>5. ASSUME NEW s \in Servers, Server(s) PROVE RequestInv'
  <2>1. OrderInv' /\ Apart' /\ AnswersTrue' /\ HandlerStage'
    BY <1>5, ServerPlace DEF Inv
  <2> QED
    BY <1>0, <1>2, <1>5, <2>1 DEF Server
<1>6. CASE Status \/ UNCHANGED vars
  <2>1. UNCHANGED commandVars
    BY <1>6 DEF Status, vars
  <2>2. /\ UNCHANGED <<submitVars, listVars, serverVars, input, queue,
                       matching, queuePc, inHand, responsePc, arrived>>
        /\ UNCHANGED <<submitVars, mainVars>>
    BY <2>1 DEF commandVars, queueVars, handlerVars
  <2>3. OrderInv' /\ Apart' /\ AnswersTrue' /\ HandlerStage'
    BY <2>2, PlaceKept
  <2> QED
    BY <1>0, <1>2, <2>2, <2>3
<1> QED
  BY <1>1, <1>3, <1>4, <1>5, <1>6 DEF Next

LEMMA RequestInvHolds == Spec => []RequestInv
<1>1. Init /\ Inv => RequestInv
  <2> SUFFICES ASSUME Init, Inv PROVE RequestInv
    OBVIOUS
  <2>1. /\ Lined = {} /\ InHand = {} /\ Waiting = {} /\ Arrived = {}
        /\ \A s \in Servers : At(s) = {} /\ ToSet(answers[s]) = {}
    BY SetOfFew DEF Init, Lined, InHand, Waiting, Arrived, At, Running, Answered
  <2>2. OrderInv
    BY <2>1 DEF Init, OrderInv, LineRises, MatchingInOrder, TargetKept, Rising, Lined
  <2>3. Apart
    BY <2>1 DEF Init, Apart
  <2>4. AnswersTrue /\ HandlerStage /\ AskedRegistered
    BY <2>1 DEF Init, AnswersTrue, HandlerStage, AskedRegistered, NoCall
  <2> QED
    BY <2>2, <2>3, <2>4 DEF RequestInv, PlaceInv
<1> QED
  BY <1>1, RequestInvStep, InvHolds, PTL DEF Spec

-----------------------------------------------------------------------------
(* The theorems about the queue and the services.                           *)

LEMMA SentInOrderStep ==
    ASSUME RequestInv, FirstComeFirstSent, [Next]_vars
    PROVE  FirstComeFirstSent'
<1> USE DEF RequestInv, Inv
<1>0. /\ \A id : Queued(id) <=> id \in Lined
      /\ \A id : Queued(id)' <=> id \in Lined'
  BY DEF Queued, Lined
<1>1. ASSUME Lined' = Lined, UNCHANGED submitVars PROVE FirstComeFirstSent'
  BY <1>0, <1>1 DEF FirstComeFirstSent, Registered, submitVars
<1>2. CASE Application
  <2>1. ASSUME NEW s \in Servers \cup {NoServer}, Register(s)
        PROVE  FirstComeFirstSent'
    <3>1. counter \in Requests /\ counter \in Nat
      BY <2>1, LeftRegisters, RequestsAreNat
    <3>2. Lined' = Lined \cup {counter}
      BY <2>1, <3>1, RegisterOrder
    <3>3. counter' = counter + 1 /\ target' = [target EXCEPT ![counter] = s]
      BY <2>1 DEF Register
    <3> SUFFICES ASSUME NEW a \in Registered', NEW b \in Registered',
                        a < b, target'[a] = target'[b], b \notin Lined'
                 PROVE  a \notin Lined'
      BY <1>0 DEF FirstComeFirstSent
    <3>4. a \in Registered /\ b \in Registered /\ a # counter /\ b # counter
      BY <3>1, <3>2, <3>3 DEF Registered
    <3>5. a \in Requests /\ b \in Requests
      BY <3>1, <3>4, CommandAssumption DEF Registered, Requests
    <3>6. target[a] = target[b]
      BY <3>3, <3>4, <3>5 DEF OrderInv, TargetKept
    <3> QED
      BY <1>0, <3>2, <3>4, <3>6 DEF FirstComeFirstSent
  <2>2. CASE \A s \in Servers \cup {NoServer} : ~Register(s)
    BY <1>1, <1>2, <2>2, ApplicationElse DEF Lined
  <2> QED
    BY <2>1, <2>2
<1>3. CASE QueueService
  <2>0. UNCHANGED submitVars
    BY <1>3 DEF QueueService
  <2>1. CASE Pop
    <3>1. /\ Lined' = Lined \ {inHand'}
          /\ \A a \in Lined : a < inHand' => target[a] # target[inHand']
      BY <2>0, <2>1, PopOrder
    <3> SUFFICES ASSUME NEW a \in Registered', NEW b \in Registered',
                        a < b, target'[a] = target'[b], b \notin Lined'
                 PROVE  a \notin Lined'
      BY <1>0 DEF FirstComeFirstSent
    <3>2. a \in Registered /\ b \in Registered /\ target[a] = target[b]
      BY <2>0 DEF submitVars, Registered
    <3>3. CASE b = inHand'
      BY <3>1, <3>2, <3>3
    <3>4. CASE b # inHand'
      BY <1>0, <3>1, <3>2, <3>4 DEF FirstComeFirstSent
    <3> QED
      BY <3>3, <3>4
  <2>2. CASE ~Pop
    <3>1. Lined' = Lined
      BY <1>3, <2>0, <2>2, PickUpOrder, MatchOrder, SentOrder, LittleOrder
         DEF QueueService
    <3> QED
      BY <1>1, <2>0, <3>1
  <2> QED
    BY <2>1, <2>2
<1>4. CASE ResponseHandler \/ (\E s \in Servers : Server(s)) \/ Status \/ UNCHANGED vars
  <2>1. UNCHANGED submitVars /\ UNCHANGED queueVars
    BY <1>4 DEF ResponseHandler, Server, Status, vars, commandVars
  <2> QED
    BY <1>1, <2>1 DEF queueVars, Lined
<1> QED
  BY <1>2, <1>3, <1>4 DEF Next

\* The queue service of the client takes requests in the order of the queue, and
\* takes up what the application adds behind what is left: a request is never
\* overtaken by a later one that was meant for the same server, or for any.
THEOREM SentInOrder == Spec => []FirstComeFirstSent
<1>1. Init => FirstComeFirstSent
  BY DEF Init, FirstComeFirstSent, Registered
<1> QED
  BY <1>1, SentInOrderStep, RequestInvHolds, PTL DEF Spec

LEMMA WakeupStep ==
    ASSUME RequestInv, NoLostWakeup, [Next]_vars
    PROVE  NoLostWakeup'
<1> DEFINE QueueWakes == queuePc = "wait" /\ ~queueEvent =>
                /\ queue = <<>>
                /\ input = <<>> \/ mainPc \in {"register", "wakeQueue"}
           HandlerWakes == responsePc = "wait" /\ ~responseEvent =>
                AllAnswered \/ mainPc \in {"register", "wakeQueue", "wakeHandler"}
<1>0. QueueWakes /\ HandlerWakes
  BY DEF NoLostWakeup
<1> SUFFICES QueueWakes' /\ HandlerWakes'
  BY DEF NoLostWakeup
<1>1. ASSUME UNCHANGED <<queuePc, queue, input, mainPc, queueEvent>>
      PROVE  QueueWakes'
  BY <1>0, <1>1
<1>2. ASSUME UNCHANGED <<responsePc, responseEvent, mainPc, counter>>,
             \A id \in Requests : response[id] # "none" => response'[id] # "none"
      PROVE  HandlerWakes'
  <2>1. Registered \subseteq Requests
    BY CommandAssumption DEF Registered, Requests, RequestInv, Inv, CallInv
  <2> QED
    BY <1>0, <1>2, <2>1 DEF AllAnswered, Registered
<1>3. CASE Application
  <2>1. ASSUME NEW s \in Servers \cup {NoServer}, Register(s)
        PROVE  QueueWakes' /\ HandlerWakes'
    BY <1>0, <2>1 DEF Register, eventVars, handlerVars
  <2>2. CASE \A s \in Servers \cup {NoServer} : ~Register(s)
    <3>1. UNCHANGED <<counter, response, input, queue, queuePc, responsePc>>
      BY <1>3, <2>2, ApplicationElse DEF submitVars, listVars
    <3>2. /\ queueEvent' \/ (UNCHANGED queueEvent /\ mainPc # "wakeQueue")
          /\ responseEvent' \/ (UNCHANGED responseEvent /\ mainPc # "wakeHandler")
          /\ mainPc # "register"
          /\ mainPc = "wakeQueue" => mainPc' = "wakeHandler"
      BY <1>3, <2>2 DEF Application, Push, LookAt, KeyRequest, WakeQueue, WakeHandler,
         Gather, Collect, MakeGroup, GroupReady, Stop, StopQueue, StopHandler, Stopped,
         eventVars
    <3>3. AllAnswered' = AllAnswered
      BY <3>1 DEF AllAnswered, Registered
    <3> QED
      BY <1>0, <3>1, <3>2, <3>3
  <2> QED
    BY <2>1, <2>2
<1>4. CASE QueueService
  <2>1. QueueWakes'
    BY <1>4 DEF QueueService, QueueEnd, QueueWait, PickUp, Match, Pop, QueueClear,
       Send, SendFails, NextInHand, eventVars
  <2>2. UNCHANGED <<responsePc, responseEvent, mainPc, counter>>
    BY <1>4 DEF QueueService, QueueEnd, QueueWait, PickUp, Match, Pop, QueueClear,
       Send, SendFails, eventVars, submitVars, handlerVars, mainVars
  <2>3. \A id \in Requests : response[id] # "none" => response'[id] # "none"
    <3>1. UNCHANGED response \/ response' = [response EXCEPT ![inHand] = "unsent"]
      BY <1>4 DEF QueueService, QueueEnd, QueueWait, PickUp, Match, Pop, QueueClear,
         Send, SendFails, listVars
    <3> QED
      BY <3>1 DEF RequestInv, Inv, CommandInv, CommandTypes
  <2> QED
    BY <1>2, <2>1, <2>2, <2>3
<1>5. CASE ResponseHandler
  <2>1. QueueWakes'
    BY <1>1, <1>5 DEF ResponseHandler, HandlerEnd, HandlerWait, NothingToReceive,
       Store, HandlerClear, Finish, Receive, eventVars, queueVars, mainVars
  <2>2. CASE HandlerWait
    BY <2>1, <2>2, <1>5 DEF HandlerWait, ResponseHandler, listVars, submitVars,
       AllAnswered, Registered
  <2>3. CASE ~HandlerWait
    BY <1>5, <2>1, <2>3 DEF ResponseHandler, HandlerEnd, NothingToReceive, Store,
       HandlerClear, Finish, Receive
  <2> QED
    BY <2>1, <2>2, <2>3
<1>6. CASE (\E s \in Servers : Server(s)) \/ Status \/ UNCHANGED vars
  <2>1. /\ UNCHANGED <<queuePc, queue, input, mainPc, queueEvent>>
        /\ UNCHANGED <<responsePc, responseEvent, mainPc, counter, response>>
    BY <1>6 DEF Server, Status, vars, commandVars, submitVars, listVars, queueVars,
       handlerVars, eventVars, mainVars
  <2> QED
    BY <1>1, <1>2, <2>1
<1> QED
  BY <1>3, <1>4, <1>5, <1>6 DEF Next

\* Each service looks at what it waits for before it waits, the application sets
\* the event after it has added a request, and the event is only cleared by a
\* service that goes on to look again: no interleaving leaves one asleep.
THEOREM WakeupsArrive == Spec => []NoLostWakeup
<1>1. Init => NoLostWakeup
  BY DEF Init, NoLostWakeup
<1> QED
  BY <1>1, WakeupStep, RequestInvHolds, PTL DEF Spec

-----------------------------------------------------------------------------
(* The servers that count as busy.                                          *)

Counted == \A s \in Servers : Outstanding(s) = 1 <=> At(s) # {}

LEMMA OutstandingMeansAt == CommandInv => Counted
<1> USE DEF Counted
<1> SUFFICES ASSUME CommandInv, NEW s \in Servers
             PROVE  Outstanding(s) = 1 <=> At(s) # {}
  OBVIOUS
<1>1. CASE requests[s] = <<>> /\ answers[s] = <<>> /\ executing[s] = NoRequest
  <2>1. Outstanding(s) = 0
    BY <1>1 DEF Outstanding
  <2> QED
    BY <2>1, OneRunningOrAnswered
<1>2. CASE requests[s] # <<>> \/ answers[s] # <<>> \/ executing[s] # NoRequest
  <2>1. At(s) # {}
    <3>1. CASE requests[s] # <<>>
      <4>1. requests[s] \in Seq(Requests) /\ Len(requests[s]) = 1
        BY <3>1, ServerHasOne
      <4>2. ToSet(requests[s]) = {Head(requests[s])}
        BY <4>1, SetOfFew
      <4> QED
        BY <4>2 DEF At, Running
    <3>2. CASE answers[s] # <<>>
      <4>1. answers[s] \in Seq(AnswerValue) /\ Len(answers[s]) = 1
        BY <3>2, ServerHasOne
      <4>2. ToSet(answers[s]) = {Head(answers[s])}
        BY <4>1, SetOfFew
      <4> QED
        BY <4>2 DEF At, Answered
    <3>3. CASE executing[s] # NoRequest
      BY <3>3 DEF At, Running
    <3> QED
      BY <1>2, <3>1, <3>2, <3>3
  <2> QED
    BY <2>1, OneRunningOrAnswered
<1> QED
  BY <1>1, <1>2

\* A request that could not be sent stays so, and its server is settled.
LEMMA LostKept ==
    ASSUME RequestInv, [Next]_vars, NEW s \in Servers, Lost(s)
    PROVE  Lost(s)'
<1> USE DEF RequestInv, Inv, PlaceInv
<1>1. PICK id \in Requests : response[id] = "unsent" /\ server[id] = s
  BY DEF Lost
<1>2. id < counter /\ id \notin Waiting /\ id \notin Arrived
  <2>1. id \in Nat /\ counter \in Nat
    BY RequestsAreNat, LinedRegistered
  <2> QED
    BY <1>1, <2>1 DEF Apart
<1> SUFFICES response'[id] = "unsent" /\ server'[id] = s
  BY <1>1 DEF Lost
<1>3. ASSUME UNCHANGED listVars PROVE response'[id] = "unsent" /\ server'[id] = s
  BY <1>1, <1>3 DEF listVars
<1>4. CASE Application
  <2>1. ASSUME NEW t \in Servers \cup {NoServer}, Register(t)
        PROVE  response'[id] = "unsent" /\ server'[id] = s
    <3>1. id # counter /\ server' = [server EXCEPT ![counter] = t] /\ UNCHANGED response
      BY <1>2, <2>1, LinedRegistered DEF Register
    <3> QED
      BY <1>1, <3>1 DEF CommandInv, CommandTypes
  <2> QED
    BY <1>3, <1>4, <2>1, ApplicationElse
<1>5. CASE QueueService
  <2>1. CASE Match
    <3>1. UNCHANGED submitVars /\ UNCHANGED response
      BY <1>5, <2>1 DEF QueueService, Match
    <3>2. server'[id] = server[id]
      BY <1>1, <1>2, <2>1, <3>1, MatchOrder DEF Waiting
    <3> QED
      BY <1>1, <3>1, <3>2
  <2>2. CASE SendFails
    <3>1. response' = [response EXCEPT ![inHand] = "unsent"] /\ UNCHANGED server
      BY <2>2 DEF SendFails
    <3> QED
      BY <1>1, <3>1 DEF CommandInv, CommandTypes
  <2>3. CASE ~Match /\ ~SendFails
    <3>1. UNCHANGED listVars
      BY <1>5, <2>3 DEF QueueService, QueueEnd, QueueWait, PickUp, Pop, QueueClear, Send
    <3> QED
      BY <1>3, <3>1
  <2> QED
    BY <2>1, <2>2, <2>3
<1>6. CASE ResponseHandler
  <2>1. CASE Store
    <3>1. /\ id # arrived.id /\ UNCHANGED server
          /\ response' = [response EXCEPT ![arrived.id] = arrived.successful]
      BY <1>2, <2>1 DEF Store, Arrived
    <3> QED
      BY <1>1, <3>1 DEF CommandInv, CommandTypes
  <2>2. CASE ~Store
    <3>1. UNCHANGED listVars
      BY <1>6, <2>2 DEF ResponseHandler, HandlerEnd, HandlerWait, NothingToReceive,
         HandlerClear, Finish, Receive
    <3> QED
      BY <1>3, <3>1
  <2> QED
    BY <2>1, <2>2
<1>7. CASE (\E t \in Servers : Server(t)) \/ Status \/ UNCHANGED vars
  BY <1>3, <1>7 DEF Server, Status, vars, commandVars
<1> QED
  BY <1>4, <1>5, <1>6, <1>7 DEF Next

LEMMA BusyStep ==
    ASSUME RequestInv, NoServerLeaked, [Next]_vars
    PROVE  NoServerLeaked'
<1> USE DEF RequestInv, Inv
<1> SUFFICES ASSUME NEW s \in Servers, busy'[s], ~Lost(s)'
             PROVE  At(s)' # {}
  <2>1. CommandInv' => Counted'
    BY OutstandingMeansAt, PTL
  <2>2. CommandInv'
    BY RequestInvStep
  <2> QED
    BY <2>1, <2>2 DEF NoServerLeaked, Counted
<1>1. ~Lost(s)
  BY LostKept
<1>2. busy[s] => At(s) # {}
  BY <1>1, OutstandingMeansAt DEF NoServerLeaked, Counted
<1>3. ASSUME UNCHANGED busy,
             \A t \in Servers : Running(t)' = Running(t) /\ Answered(t)' = Answered(t)
      PROVE  At(s)' # {}
  BY <1>2, <1>3 DEF At
<1>4. CASE Application
  <2>1. UNCHANGED busy /\ UNCHANGED serverVars
    BY <1>4, ApplicationElse DEF Register
  <2> QED
    BY <1>3, <2>1, ServersKept DEF serverVars
<1>5. CASE QueueService
  <2>1. CASE Send
    <3>0. PICK t : t = server[inHand]
      OBVIOUS
    <3>1. /\ t \in Servers /\ Running(t)' = {inHand}
          /\ \A u \in Servers \ {t} : Running(u)' = Running(u) /\ Answered(u)' = Answered(u)
      BY <2>1, <3>0, SendMoves
    <3>2. CASE s = t
      BY <3>1, <3>2 DEF At
    <3>3. CASE s # t
      <4>1. busy'[s] = busy[s]
        BY <2>1, <3>0, <3>1, <3>3 DEF Send, CommandInv, CommandTypes
      <4> QED
        BY <1>2, <3>1, <3>3, <4>1 DEF At
    <3> QED
      BY <3>2, <3>3
  <2>2. CASE SendFails
    <3>1. /\ inHand \in Requests /\ server[inHand] \in Servers
          /\ response' = [response EXCEPT ![inHand] = "unsent"]
          /\ busy' = [busy EXCEPT ![server[inHand]] = TRUE]
          /\ UNCHANGED <<server, requests, executing, answers>>
      BY <2>2 DEF SendFails, serverVars, CommandInv, CommandTypes, OwnServers, ToSend
    <3>2. response'[inHand] = "unsent" /\ server'[inHand] = server[inHand]
      BY <3>1 DEF CommandInv, CommandTypes
    <3>3. s # server[inHand]
      BY <3>1, <3>2 DEF Lost
    <3>4. busy'[s] = busy[s] /\ At(s)' = At(s)
      BY <3>1, <3>3, ServersKept DEF At, CommandInv, CommandTypes
    <3> QED
      BY <1>2, <3>4
  <2>3. CASE ~Send /\ ~SendFails
    <3>1. UNCHANGED busy /\ UNCHANGED serverVars
      BY <1>5, <2>3 DEF QueueService, QueueEnd, QueueWait, PickUp, Match, Pop, QueueClear
    <3> QED
      BY <1>3, <3>1, ServersKept DEF serverVars
  <2> QED
    BY <2>1, <2>2, <2>3
<1>6. CASE ResponseHandler
  <2>1. ASSUME NEW t \in Servers, Receive(t) PROVE At(s)' # {}
    <3>1. busy' = [busy EXCEPT ![t] = FALSE]
      BY <2>1 DEF Receive
    <3>2. s # t /\ busy'[s] = busy[s]
      BY <3>1 DEF CommandInv, CommandTypes
    <3>3. Running(s)' = Running(s) /\ Answered(s)' = Answered(s)
      BY <2>1, <3>2, ReceiveMoves
    <3> QED
      BY <1>2, <3>2, <3>3 DEF At
  <2>2. CASE \A t \in Servers : ~Receive(t)
    <3>1. UNCHANGED busy /\ UNCHANGED serverVars
      BY <1>6, <2>2 DEF ResponseHandler, HandlerEnd, HandlerWait, NothingToReceive,
         Store, HandlerClear, Finish
    <3> QED
      BY <1>3, <3>1, ServersKept DEF serverVars
  <2> QED
    BY <2>1, <2>2
<1>7. ASSUME NEW t \in Servers, Server(t) PROVE At(s)' # {}
  <2>1. UNCHANGED busy
    BY <1>7 DEF Server
  <2>2. CASE ServerReceive(t)
    BY <1>3, <2>1, <2>2, ServerReceiveMoves
  <2>3. ASSUME NEW successful \in Results, ServerAnswer(t, successful)
        PROVE  At(s)' # {}
    <3>1. /\ Answered(t)' = {executing[t]}
          /\ \A u \in Servers \ {t} : Running(u)' = Running(u) /\ Answered(u)' = Answered(u)
      BY <2>3, ServerAnswerMoves
    <3> QED
      BY <1>2, <2>1, <3>1 DEF At
  <2> QED
    BY <1>7, <2>2, <2>3 DEF Server
<1>8. CASE Status \/ UNCHANGED vars
  <2>1. UNCHANGED busy /\ UNCHANGED serverVars
    BY <1>8 DEF Status, vars, commandVars
  <2> QED
    BY <1>3, <2>1, ServersKept DEF serverVars
<1> QED
  BY <1>4, <1>5, <1>6, <1>7, <1>8 DEF Next

\* A server counts as busy from the sending of a request to it until its answer is
\* received, and not longer, however late the answer; only the exception of a send
\* takes a server for good.
THEOREM ServersComeBack == Spec => []NoServerLeaked
<1>1. Init => NoServerLeaked
  BY DEF Init, NoServerLeaked
<1> QED
  BY <1>1, BusyStep, RequestInvHolds, PTL DEF Spec

-----------------------------------------------------------------------------
(* The types: what the invariant does not already say.                      *)

OtherTypes ==
    /\ StatusTypeOK
    /\ queuePc \in {"check", "wait", "match", "pop", "clear", "send", "stopped"}
    /\ inHand \in Requests \cup {NoRequest}
    /\ queueOn \in BOOLEAN /\ queueEvent \in BOOLEAN
    /\ responseOn \in BOOLEAN /\ responseEvent \in BOOLEAN
    /\ mainPc \in {"ready", "register", "wakeQueue", "wakeHandler", "block",
                   "keys", "groupWait", "stopQueue", "stopHandler", "stopping",
                   "stopped"}
    /\ told \in [Requests -> Results \cup {"none", "unsent", "timeout"}]
    /\ group \in [list : SUBSET Requests, keyless : SUBSET Requests, event : BOOLEAN]

LEMMA TypesFollow == RequestInv /\ OtherTypes => TypeOK
<1> SUFFICES ASSUME RequestInv, OtherTypes PROVE TypeOK
  OBVIOUS
<1>1. CommandTypes /\ CallInv /\ TargetKept /\ AnswersTrue /\ HandlerStage
  BY DEF RequestInv, Inv, CommandInv, OrderInv, PlaceInv
<1> QED
  BY <1>1 DEF TypeOK, OtherTypes, CommandTypes, CallInv, TargetKept, AnswersTrue,
     HandlerStage

LEMMA StatusTypes ==
    ASSUME StatusTypeOK, NEW s \in Servers, TimesOut(s) \/ Recovers(s) \/ Die(s)
    PROVE  StatusTypeOK'
<1>1. CASE TimesOut(s)
  BY <1>1, StatusAssumption DEF StatusTypeOK, TimesOut
<1>2. CASE Recovers(s)
  BY <1>2, StatusAssumption DEF StatusTypeOK, Recovers
<1>3. CASE Die(s)
  BY <1>3, StatusAssumption DEF StatusTypeOK, Die
<1> QED
  BY <1>1, <1>2, <1>3

LEMMA ApplicationTypes ==
    ASSUME RequestInv, OtherTypes, Application
    PROVE  OtherTypes'
<1> USE DEF OtherTypes, StatusTypeOK, statusVars, queueVars, handlerVars, eventVars
<1>1. ASSUME NEW s \in Servers \cup {NoServer}, Register(s) PROVE OtherTypes'
  BY <1>1 DEF Register
<1>2. ASSUME NEW servers \in Targets, NEW block \in BOOLEAN, Push(servers, block)
      PROVE  OtherTypes'
  BY <1>2 DEF Push
<1>3. ASSUME NEW id \in Requests, LookAt(id) \/ KeyRequest(id) PROVE OtherTypes'
  BY <1>3 DEF LookAt, KeyRequest
<1>4. CASE WakeQueue \/ WakeHandler \/ Collect
  BY <1>4 DEF WakeQueue, WakeHandler, Collect
<1>5. CASE Gather
  <2>1. told' \in [Requests -> Results \cup {"none", "unsent", "timeout"}]
    BY <1>5 DEF Gather, RequestInv, Inv, CommandInv, CommandTypes
  <2> QED
    BY <1>5, <2>1 DEF Gather
<1>6. CASE MakeGroup
  <2>1. Uncollected \subseteq Requests
    BY UncollectedRequests DEF RequestInv, Inv
  <2> QED
    BY <1>6, <2>1 DEF MakeGroup
<1>7. CASE GroupReady
  BY <1>7 DEF GroupReady, NoGroup
<1>8. CASE Stop \/ StopQueue \/ StopHandler \/ Stopped
  BY <1>8 DEF Stop, StopQueue, StopHandler, Stopped, StopMonitor
<1> QED
  BY <1>1, <1>2, <1>3, <1>4, <1>5, <1>6, <1>7, <1>8 DEF Application

LEMMA QueueServiceTypes ==
    ASSUME RequestInv, OtherTypes, QueueService
    PROVE  OtherTypes'
<1>1. UNCHANGED <<responseOn, responseEvent, mainPc, told, group>>
  BY DEF QueueService, QueueEnd, QueueWait, PickUp, Match, Pop, QueueClear, Send,
     SendFails, eventVars, handlerVars, mainVars
<1>2. StatusTypeOK'
  BY StatusAssumption DEF QueueService, SendFails, OtherTypes, StatusTypeOK, statusVars
<1>3. /\ queuePc' \in {"check", "wait", "match", "pop", "clear", "send", "stopped"}
      /\ queueOn' \in BOOLEAN /\ queueEvent' \in BOOLEAN
  BY DEF QueueService, QueueEnd, QueueWait, PickUp, Match, Pop, QueueClear, Send,
     SendFails, NextInHand, OtherTypes, eventVars
<1>4. inHand' \in Requests \cup {NoRequest}
  <2>1. CASE Pop
    BY <2>1 DEF Pop, RequestInv, Inv, CommandInv, CommandTypes
  <2>2. CASE ~Pop
    BY <2>2 DEF QueueService, QueueEnd, QueueWait, PickUp, Match, QueueClear, Send,
       SendFails, OtherTypes
  <2> QED
    BY <2>1, <2>2
<1> QED
  BY <1>1, <1>2, <1>3, <1>4 DEF OtherTypes

LEMMA ResponseHandlerTypes ==
    ASSUME OtherTypes, ResponseHandler
    PROVE  OtherTypes'
<1>1. /\ UNCHANGED <<statusVars, queuePc, inHand, queueOn, mainPc, told>>
      /\ UNCHANGED <<responseOn, queueEvent>>
      /\ responseEvent' \in {responseEvent, FALSE}
  BY DEF ResponseHandler, HandlerEnd, HandlerWait, NothingToReceive, Store,
     HandlerClear, Finish, Receive, queueVars, mainVars, eventVars
<1>2. group' \in [list : SUBSET Requests, keyless : SUBSET Requests, event : BOOLEAN]
  <2>1. CASE Finish
    <3>1. \/ UNCHANGED group
          \/ LET list == group.list \ {arrived.id}
             IN  group' = [group EXCEPT !.list = list, !.event = (list = {})]
      BY <2>1 DEF Finish
    <3>2. ASSUME NEW list \in SUBSET Requests, NEW set \in BOOLEAN
          PROVE  [group EXCEPT !.list = list, !.event = set]
                    \in [list : SUBSET Requests, keyless : SUBSET Requests, event : BOOLEAN]
      BY DEF OtherTypes
    <3>3. group.list \ {arrived.id} \in SUBSET Requests
      BY DEF OtherTypes
    <3> QED
      BY <3>1, <3>2, <3>3 DEF OtherTypes
  <2>2. CASE ~Finish
    BY <2>2 DEF ResponseHandler, HandlerEnd, HandlerWait, NothingToReceive, Store,
       HandlerClear, Receive, OtherTypes
  <2> QED
    BY <2>1, <2>2
<1>3. StatusTypeOK'
  BY <1>1 DEF OtherTypes, StatusTypeOK, statusVars
<1>4. responseEvent' \in BOOLEAN
  BY <1>1 DEF OtherTypes
<1> QED
  BY <1>1, <1>2, <1>3, <1>4 DEF OtherTypes

LEMMA TypesStep ==
    ASSUME RequestInv, OtherTypes, [Next]_vars
    PROVE  OtherTypes'
<1>1. CASE Status
  <2>1. StatusTypeOK'
    BY <1>1, StatusTypes DEF Status, OtherTypes
  <2> QED
    BY <1>1, <2>1 DEF Status, commandVars, queueVars, handlerVars, eventVars,
       mainVars, OtherTypes
<1>2. CASE (\E s \in Servers : Server(s)) \/ UNCHANGED vars
  <2>1. /\ UNCHANGED statusVars
        /\ UNCHANGED <<queuePc, inHand, queueOn, queueEvent, responseOn, responseEvent>>
        /\ UNCHANGED <<mainPc, told, group>>
    BY <1>2 DEF Server, vars, commandVars, queueVars, handlerVars, eventVars, mainVars
  <2> QED
    BY <2>1 DEF OtherTypes, StatusTypeOK, statusVars
<1> QED
  BY <1>1, <1>2, ApplicationTypes, QueueServiceTypes, ResponseHandlerTypes DEF Next

LEMMA TypesHold == Spec => []OtherTypes
<1>1. Init => OtherTypes
  <2> SUFFICES ASSUME Init PROVE OtherTypes
    OBVIOUS
  <2>1. StatusTypeOK
    BY StatusAssumption DEF Init, StatusInit, StatusTypeOK
  <2>2. group \in [list : SUBSET Requests, keyless : SUBSET Requests, event : BOOLEAN]
    BY DEF Init, NoGroup
  <2>3. told \in [Requests -> Results \cup {"none", "unsent", "timeout"}]
    BY DEF Init
  <2> QED
    BY <2>1, <2>2, <2>3 DEF Init, OtherTypes
<1> QED
  BY <1>1, TypesStep, RequestInvHolds, PTL DEF Spec

\* Whatever the threads do, an answer is stored for a request that exists, a request
\* is sent to a server that exists, and the application is told one of the outcomes.
THEOREM TypesCorrect == Spec => []TypeOK
  BY TypesFollow, TypesHold, RequestInvHolds, PTL

-----------------------------------------------------------------------------
(* The job queue.                                                           *)

\* The stage of a request, from where it is.
Found(id) ==
    IF ~(id < counter) THEN "absent"
    ELSE IF response[id] = "unsent" THEN "refused"
    ELSE IF \E s \in Servers : id \in Running(s) THEN "running"
    ELSE IF \E s \in Servers : id \in Answered(s) THEN "finished"
    ELSE IF id \in Arrived \/ response[id] # "none" THEN "collected"
    ELSE "submitted"

AllFound == \A id \in Requests : Stage(id) = Found(id)

\* What IsJobQueue says of a request beside its stage.
Runner(id) ==
    IF Stage(id) \in {"running", "finished", "collected"} THEN server[id] ELSE NoServer
Outcome(id) == IF response[id] = "unsent" THEN "unsent" ELSE result[id]

LEMMA StagesFound == RequestInv => AllFound
<1> SUFFICES ASSUME RequestInv, NEW id \in Requests
             PROVE  Stage(id) = Found(id)
  BY DEF AllFound
<1>1. id \in Registered <=> id < counter
  <2>1. counter \in Nat /\ id \in Nat \ {0}
    BY RequestsAreNat, LinedRegistered DEF RequestInv, Inv
  <2> QED
    BY <2>1 DEF Registered
<1>2. \A s \in Servers :
        (executing[s] = id \/ id \in ToSet(requests[s])) <=> id \in Running(s)
  BY RequestsAreNat DEF Running, NoRequest
<1>3. \A s \in Servers : (\E a \in ToSet(answers[s]) : a.id = id) <=> id \in Answered(s)
  BY DEF Answered
<1>4. (arrived.id = id \/ response[id] # "none") <=> (id \in Arrived \/ response[id] # "none")
  <2>1. CASE responsePc \in {"check", "wait", "stopped"}
    <3>1. arrived.id # id
      BY <2>1, RequestsAreNat DEF RequestInv, PlaceInv, HandlerStage, NoAnswer, NoRequest
    <3> QED
      BY <2>1, <3>1 DEF Arrived
  <2>2. CASE responsePc \in {"clear", "finish"}
    BY <2>2 DEF RequestInv, PlaceInv, HandlerStage, Arrived
  <2>3. CASE responsePc = "store"
    BY <2>3 DEF Arrived
  <2> QED
    BY <2>1, <2>2, <2>3 DEF RequestInv, PlaceInv, HandlerStage
<1> QED
  BY <1>1, <1>2, <1>3, <1>4 DEF Stage, Found

LEMMA StageKept ==
    ASSUME AllFound, AllFound', NEW id \in Requests,
           (id < counter)' = (id < counter),
           UNCHANGED <<response[id], server[id], result[id]>>,
           \A s \in Servers : /\ id \in Running(s)' <=> id \in Running(s)
                              /\ id \in Answered(s)' <=> id \in Answered(s),
           id \in Arrived' <=> id \in Arrived
    PROVE  Stage(id)' = Stage(id) /\ Runner(id)' = Runner(id) /\ Outcome(id)' = Outcome(id)
<1>1. Found(id)' = Found(id)
  BY DEF Found
<1>2. Stage(id)' = Stage(id)
  BY <1>1 DEF AllFound
<1> QED
  BY <1>2 DEF Runner, Outcome

\* The functions that IsJobQueue gives the job queue.
JobNow == [id \in Requests |-> Stage(id)]
RunnerNow ==
    [id \in Requests |-> IF Stage(id) \in {"running", "finished", "collected"}
                         THEN server[id] ELSE NoServer]
OutcomeNow ==
    [id \in Requests |-> IF response[id] = "unsent" THEN "unsent" ELSE result[id]]

\* A request in a queue has been submitted and nothing more.
LEMMA WaitingSubmitted ==
    ASSUME RequestInv, NEW id \in Waiting
    PROVE  id \in Requests /\ id < counter /\ Stage(id) = "submitted"
<1>1. id \in Requests /\ id < counter
  BY LinedRegistered DEF RequestInv, Inv
<1>2. response[id] = "none" /\ id \notin Arrived /\ \A s \in Servers : id \notin At(s)
  BY DEF RequestInv, PlaceInv, Apart
<1>3. Found(id) = "submitted"
  BY <1>1, <1>2 DEF Found, At
<1> QED
  BY <1>1, <1>3, StagesFound DEF AllFound

\* A step of one request, to the job queue.
LEMMA OneMoves ==
    ASSUME NEW j \in Requests,
           \A id \in Requests \ {j} :
                Stage(id)' = Stage(id) /\ Runner(id)' = Runner(id) /\ Outcome(id)' = Outcome(id)
    PROVE  /\ JobNow' = [JobNow EXCEPT ![j] = Stage(j)']
           /\ RunnerNow' = [RunnerNow EXCEPT ![j] = Runner(j)']
           /\ OutcomeNow' = [OutcomeNow EXCEPT ![j] = Outcome(j)']
           /\ Runner(j)' = Runner(j) => RunnerNow' = RunnerNow
           /\ Outcome(j)' = Outcome(j) => OutcomeNow' = OutcomeNow
           /\ JobNow[j] = Stage(j) /\ RunnerNow[j] = Runner(j) /\ OutcomeNow[j] = Outcome(j)
<1>1. /\ JobNow = [id \in Requests |-> Stage(id)]
      /\ JobNow' = [id \in Requests |-> Stage(id)']
  BY DEF JobNow
<1>2. /\ RunnerNow = [id \in Requests |-> Runner(id)]
      /\ RunnerNow' = [id \in Requests |-> Runner(id)']
  BY DEF RunnerNow, Runner
<1>3. /\ OutcomeNow = [id \in Requests |-> Outcome(id)]
      /\ OutcomeNow' = [id \in Requests |-> Outcome(id)']
  BY DEF OutcomeNow, Outcome
<1>4. JobNow' = [JobNow EXCEPT ![j] = Stage(j)'] /\ JobNow[j] = Stage(j)
  BY <1>1
<1>5. /\ RunnerNow' = [RunnerNow EXCEPT ![j] = Runner(j)'] /\ RunnerNow[j] = Runner(j)
      /\ Runner(j)' = Runner(j) => RunnerNow' = RunnerNow
  BY <1>2
<1>6. /\ OutcomeNow' = [OutcomeNow EXCEPT ![j] = Outcome(j)'] /\ OutcomeNow[j] = Outcome(j)
      /\ Outcome(j)' = Outcome(j) => OutcomeNow' = OutcomeNow
  BY <1>3
<1> QED
  BY <1>4, <1>5, <1>6

LEMMA NothingMoves ==
    ASSUME \A id \in Requests :
                Stage(id)' = Stage(id) /\ Runner(id)' = Runner(id) /\ Outcome(id)' = Outcome(id),
           UNCHANGED <<target, told>>
    PROVE  [Jobs!Next]_Jobs!jobVars
<1>1. JobNow' = JobNow
  BY DEF JobNow
<1>2. RunnerNow' = RunnerNow
  <2>1. /\ RunnerNow = [id \in Requests |-> Runner(id)]
        /\ RunnerNow' = [id \in Requests |-> Runner(id)']
    BY DEF RunnerNow, Runner
  <2> QED
    BY <2>1
<1>3. OutcomeNow' = OutcomeNow
  <2>1. /\ OutcomeNow = [id \in Requests |-> Outcome(id)]
        /\ OutcomeNow' = [id \in Requests |-> Outcome(id)']
    BY DEF OutcomeNow, Outcome
  <2> QED
    BY <2>1
<1> QED
  BY <1>1, <1>2, <1>3 DEF Jobs!jobVars, JobNow, RunnerNow, OutcomeNow

LEMMA RegisterSubmits ==
    ASSUME RequestInv, AllFound, AllFound', NEW s \in Servers \cup {NoServer}, Register(s)
    PROVE  Jobs!Next
<1> USE DEF RequestInv, Inv, PlaceInv
<1>0. PICK j : j = counter
  OBVIOUS
<1>1. j \in Requests /\ j \in Nat
  BY <1>0, LeftRegisters, RequestsAreNat
<1>2. /\ counter' = j + 1 /\ target' = [target EXCEPT ![j] = s]
      /\ server' = [server EXCEPT ![j] = s]
      /\ UNCHANGED <<response, requests, executing, answers, responsePc, arrived,
                     result, told>>
  BY <1>0 DEF Register, handlerVars, serverVars
<1>3. /\ \A t \in Servers : Running(t)' = Running(t) /\ Answered(t)' = Answered(t)
      /\ Arrived' = Arrived
  BY <1>2, ServersKept DEF Arrived
<1>4. ASSUME NEW id \in Requests \ {j}
      PROVE  Stage(id)' = Stage(id) /\ Runner(id)' = Runner(id) /\ Outcome(id)' = Outcome(id)
  <2>1. (id < counter)' = (id < counter) /\ server'[id] = server[id]
    BY <1>0, <1>1, <1>2, RequestsAreNat DEF CommandInv, CommandTypes
  <2> QED
    BY <1>2, <1>3, <2>1, StageKept
<1>5. /\ response[j] = "none" /\ j \notin Arrived /\ j < counter' /\ ~(j < counter)
      /\ \A t \in Servers : j \notin At(t)
  BY <1>0, <1>1, <1>2, <1>3 DEF Apart
<1>6. Stage(j) = "absent" /\ Stage(j)' = "submitted"
  <2>1. Found(j) = "absent"
    BY <1>5 DEF Found
  <2>2. Found(j)' = "submitted"
    BY <1>2, <1>3, <1>5 DEF Found, At
  <2> QED
    BY <1>1, <2>1, <2>2 DEF AllFound
<1>7. Runner(j)' = Runner(j) /\ Outcome(j)' = Outcome(j)
  BY <1>2, <1>6 DEF Runner, Outcome
<1>8. Jobs!Submit(j, s)
  <2>1. /\ JobNow[j] = "absent"
        /\ JobNow' = [JobNow EXCEPT ![j] = "submitted"]
        /\ RunnerNow' = RunnerNow /\ OutcomeNow' = OutcomeNow
    BY <1>1, <1>4, <1>6, <1>7, OneMoves
  <2> QED
    BY <1>2, <2>1 DEF Jobs!Submit, JobNow, RunnerNow, OutcomeNow
<1> QED
  BY <1>1, <1>8 DEF Jobs!Next

LEMMA SendStarts ==
    ASSUME RequestInv, AllFound, AllFound', Send, UNCHANGED <<submitVars, handlerVars, mainVars>>
    PROVE  Jobs!Next
<1> USE DEF RequestInv, Inv, PlaceInv
<1>0. PICK j, s : j = inHand /\ s = server[inHand]
  OBVIOUS
<1>1. /\ s \in Servers /\ At(s) = {} /\ j \in Requests
      /\ Running(s)' = {j} /\ Answered(s)' = {}
      /\ \A t \in Servers \ {s} : Running(t)' = Running(t) /\ Answered(t)' = Answered(t)
  BY <1>0, SendMoves
<1>2. /\ UNCHANGED <<counter, target, response, server, result, told>>
      /\ Arrived' = Arrived
  BY DEF Send, listVars, submitVars, mainVars, handlerVars, Arrived
<1>3. j \in Waiting
  BY <1>0, <1>2, SentOrder DEF submitVars
<1>4. j < counter /\ Stage(j) = "submitted" /\ response[j] = "none"
  BY <1>3, WaitingSubmitted DEF Apart
<1>5. ASSUME NEW id \in Requests \ {j}
      PROVE  Stage(id)' = Stage(id) /\ Runner(id)' = Runner(id) /\ Outcome(id)' = Outcome(id)
  <2>1. \A t \in Servers : /\ id \in Running(t)' <=> id \in Running(t)
                           /\ id \in Answered(t)' <=> id \in Answered(t)
    BY <1>1 DEF At
  <2> QED
    BY <1>2, <2>1, StageKept
<1>6. Stage(j)' = "running"
  <2>1. Found(j)' = "running"
    BY <1>1, <1>2, <1>4 DEF Found
  <2> QED
    BY <1>1, <2>1 DEF AllFound
<1>7. Runner(j)' = s /\ Outcome(j)' = Outcome(j)
  BY <1>0, <1>2, <1>6 DEF Runner, Outcome
<1>8. target[j] \in {NoServer, s}
  BY <1>0, <1>1 DEF OrderInv, TargetKept
<1>9. ASSUME NEW id \in Requests, Runner(id) = s
      PROVE  Stage(id) \notin {"running", "finished"}
  <2> SUFFICES ASSUME Stage(id) \in {"running", "finished"} PROVE FALSE
    OBVIOUS
  <2>1. PICK t \in Servers : id \in At(t)
    <3>1. Found(id) \in {"running", "finished"}
      BY DEF AllFound
    <3> QED
      BY <3>1 DEF Found, At
  <2>2. server[id] = s
    BY <1>9 DEF Runner
  <2> QED
    BY <1>1, <2>1, <2>2 DEF Apart
<1>10. Jobs!Free(s)
  BY <1>9 DEF Jobs!Free, Runner
<1>11. Jobs!Start(j, s)
  <2>1. /\ JobNow[j] = "submitted"
        /\ JobNow' = [JobNow EXCEPT ![j] = "running"]
        /\ RunnerNow' = [RunnerNow EXCEPT ![j] = s]
        /\ OutcomeNow' = OutcomeNow
    BY <1>1, <1>4, <1>5, <1>6, <1>7, OneMoves
  <2> QED
    BY <1>2, <1>8, <1>10, <2>1 DEF Jobs!Start, JobNow, RunnerNow, OutcomeNow
<1> QED
  BY <1>1, <1>11 DEF Jobs!Next

LEMMA SendFailsRefuses ==
    ASSUME RequestInv, AllFound, AllFound', SendFails,
           UNCHANGED <<submitVars, handlerVars, mainVars>>
    PROVE  Jobs!Next
<1> USE DEF RequestInv, Inv, PlaceInv
<1>0. PICK j : j = inHand
  OBVIOUS
<1>1. /\ response' = [response EXCEPT ![j] = "unsent"]
      /\ UNCHANGED <<counter, target, server, result, told, requests, executing, answers>>
      /\ Arrived' = Arrived
  BY <1>0 DEF SendFails, serverVars, submitVars, mainVars, handlerVars, Arrived
<1>2. \A t \in Servers : Running(t)' = Running(t) /\ Answered(t)' = Answered(t)
  BY <1>1, ServersKept
<1>3. j \in Waiting
  BY <1>0, <1>1, SentOrder DEF submitVars
<1>4. j \in Requests /\ j < counter /\ Stage(j) = "submitted"
  BY <1>3, WaitingSubmitted
<1>5. /\ response'[j] = "unsent"
      /\ \A id \in Requests \ {j} : response'[id] = response[id]
  BY <1>1, <1>4 DEF CommandInv, CommandTypes
<1>6. ASSUME NEW id \in Requests \ {j}
      PROVE  Stage(id)' = Stage(id) /\ Runner(id)' = Runner(id) /\ Outcome(id)' = Outcome(id)
  BY <1>1, <1>2, <1>5, StageKept
<1>7. Stage(j)' = "refused"
  <2>1. Found(j)' = "refused"
    BY <1>1, <1>4, <1>5 DEF Found
  <2> QED
    BY <1>4, <2>1 DEF AllFound
<1>8. Runner(j)' = Runner(j) /\ Outcome(j)' = "unsent"
  BY <1>4, <1>5, <1>7 DEF Runner, Outcome
<1>9. Jobs!Refuse(j)
  <2>1. /\ JobNow[j] = "submitted"
        /\ JobNow' = [JobNow EXCEPT ![j] = "refused"]
        /\ RunnerNow' = RunnerNow
        /\ OutcomeNow' = [OutcomeNow EXCEPT ![j] = "unsent"]
    BY <1>4, <1>6, <1>7, <1>8, OneMoves
  <2> QED
    BY <1>1, <2>1 DEF Jobs!Refuse, JobNow, RunnerNow, OutcomeNow
<1> QED
  BY <1>4, <1>9 DEF Jobs!Next

LEMMA AnswerFinishes ==
    ASSUME RequestInv, AllFound, AllFound', NEW s \in Servers, NEW successful \in Results,
           ServerAnswer(s, successful),
           UNCHANGED <<submitVars, listVars, handlerVars, mainVars>>
    PROVE  Jobs!Next
<1> USE DEF RequestInv, Inv, PlaceInv
<1>0. PICK j : j = executing[s]
  OBVIOUS
<1>1. /\ j \in Requests /\ Running(s) = {j} /\ Answered(s) = {}
      /\ Running(s)' = {} /\ Answered(s)' = {j}
      /\ result' = [result EXCEPT ![j] = successful]
      /\ \A t \in Servers \ {s} : Running(t)' = Running(t) /\ Answered(t)' = Answered(t)
  BY <1>0, ServerAnswerMoves
<1>2. UNCHANGED <<counter, target, response, server, told>> /\ Arrived' = Arrived
  BY DEF listVars, submitVars, mainVars, handlerVars, Arrived
<1>3. j \in At(s) /\ j < counter /\ response[j] = "none"
  BY <1>1 DEF At, Apart
<1>4. /\ result'[j] = successful
      /\ \A id \in Requests \ {j} : result'[id] = result[id]
  BY <1>1 DEF AnswersTrue
<1>5. ASSUME NEW id \in Requests \ {j}
      PROVE  Stage(id)' = Stage(id) /\ Runner(id)' = Runner(id) /\ Outcome(id)' = Outcome(id)
  <2>1. \A t \in Servers : /\ id \in Running(t)' <=> id \in Running(t)
                           /\ id \in Answered(t)' <=> id \in Answered(t)
    BY <1>1
  <2> QED
    BY <1>2, <1>4, <2>1, StageKept
<1>6. Stage(j) = "running" /\ Stage(j)' = "finished"
  <2>1. Found(j) = "running"
    BY <1>1, <1>3 DEF Found
  <2>2. \A t \in Servers : j \notin Running(t)'
    <3>1. \A t \in Servers \ {s} : j \notin At(t)
      BY <1>3 DEF Apart
    <3> QED
      BY <1>1, <3>1 DEF At
  <2>3. Found(j)' = "finished"
    BY <1>1, <1>2, <1>3, <2>2 DEF Found
  <2> QED
    BY <1>1, <2>1, <2>3 DEF AllFound
<1>7. Runner(j)' = Runner(j) /\ Outcome(j)' = successful
  BY <1>2, <1>3, <1>4, <1>6 DEF Runner, Outcome
<1>8. Jobs!Finish(j, successful)
  <2>1. /\ JobNow[j] = "running"
        /\ JobNow' = [JobNow EXCEPT ![j] = "finished"]
        /\ RunnerNow' = RunnerNow
        /\ OutcomeNow' = [OutcomeNow EXCEPT ![j] = successful]
    BY <1>1, <1>5, <1>6, <1>7, OneMoves
  <2> QED
    BY <1>2, <2>1 DEF Jobs!Finish, JobNow, RunnerNow, OutcomeNow
<1> QED
  BY <1>1, <1>8 DEF Jobs!Next

LEMMA ReceiveCollects ==
    ASSUME RequestInv, AllFound, AllFound', NEW s \in Servers, Receive(s),
           UNCHANGED <<submitVars, mainVars>>
    PROVE  Jobs!Next
<1> USE DEF RequestInv, Inv, PlaceInv
<1>0. PICK j : j = arrived'.id
  OBVIOUS
<1>1. /\ arrived' \in AnswerValue /\ Answered(s) = {j} /\ Running(s) = {}
      /\ Running(s)' = {} /\ Answered(s)' = {} /\ Arrived' = {j}
      /\ \A t \in Servers \ {s} : Running(t)' = Running(t) /\ Answered(t)' = Answered(t)
  BY <1>0, ReceiveMoves
<1>2. /\ UNCHANGED <<counter, target, response, server, result, told>> /\ Arrived = {}
      /\ j \in Requests
  BY <1>0, <1>1 DEF Receive, Probing, listVars, submitVars, mainVars, Arrived, AnswerValue
<1>3. /\ j \in At(s) /\ j < counter /\ response[j] = "none"
      /\ \A t \in Servers \ {s} : j \notin At(t)
  BY <1>1 DEF At, Apart
<1>4. ASSUME NEW id \in Requests \ {j}
      PROVE  Stage(id)' = Stage(id) /\ Runner(id)' = Runner(id) /\ Outcome(id)' = Outcome(id)
  <2>1. /\ \A t \in Servers : /\ id \in Running(t)' <=> id \in Running(t)
                              /\ id \in Answered(t)' <=> id \in Answered(t)
        /\ id \in Arrived' <=> id \in Arrived
    BY <1>1, <1>2
  <2> QED
    BY <1>2, <2>1, StageKept
<1>5. Stage(j) = "finished" /\ Stage(j)' = "collected"
  <2>1. \A t \in Servers : j \notin Running(t)
    BY <1>1, <1>3 DEF At
  <2>2. Found(j) = "finished"
    BY <1>1, <1>3, <2>1 DEF Found
  <2>3. \A t \in Servers : j \notin Running(t)' /\ j \notin Answered(t)'
    BY <1>1, <1>3 DEF At
  <2>4. Found(j)' = "collected"
    BY <1>1, <1>2, <1>3, <2>3 DEF Found
  <2> QED
    BY <1>2, <2>2, <2>4 DEF AllFound
<1>6. Runner(j)' = Runner(j) /\ Outcome(j)' = Outcome(j)
  BY <1>2, <1>5 DEF Runner, Outcome
<1>7. Jobs!Collect(j)
  <2>1. /\ JobNow[j] = "finished"
        /\ JobNow' = [JobNow EXCEPT ![j] = "collected"]
        /\ RunnerNow' = RunnerNow /\ OutcomeNow' = OutcomeNow
    BY <1>2, <1>4, <1>5, <1>6, OneMoves
  <2> QED
    BY <1>2, <2>1 DEF Jobs!Collect, JobNow, RunnerNow, OutcomeNow
<1> QED
  BY <1>2, <1>7 DEF Jobs!Next

LEMMA StoreStutters ==
    ASSUME RequestInv, AllFound, AllFound', Store,
           UNCHANGED <<submitVars, queueVars, mainVars>>
    PROVE  [Jobs!Next]_Jobs!jobVars
<1> USE DEF RequestInv, Inv, PlaceInv
<1>0. PICK j : j = arrived.id
  OBVIOUS
<1>1. /\ response' = [response EXCEPT ![j] = arrived.successful]
      /\ UNCHANGED <<counter, target, server, result, told, requests, executing, answers>>
      /\ Arrived = {j} /\ Arrived' = {}
  BY <1>0 DEF Store, serverVars, submitVars, mainVars, Arrived
<1>2. /\ j \in Requests /\ j < counter /\ response[j] = "none"
      /\ arrived.successful = result[j] /\ arrived.successful \notin {"none", "unsent"}
  BY <1>0, <1>1, CommandAssumption DEF Store, HandlerStage, AnswersTrue, AnswerValue, Apart
<1>3. /\ response'[j] = result[j]
      /\ \A id \in Requests \ {j} : response'[id] = response[id]
  BY <1>1, <1>2 DEF CommandInv, CommandTypes
<1>4. \A t \in Servers : /\ Running(t)' = Running(t) /\ Answered(t)' = Answered(t)
                         /\ j \notin Running(t) /\ j \notin Answered(t)
  BY <1>1, ServersKept DEF Apart, At
<1>5. ASSUME NEW id \in Requests \ {j}
      PROVE  Stage(id)' = Stage(id) /\ Runner(id)' = Runner(id) /\ Outcome(id)' = Outcome(id)
  <2>1. id \in Arrived' <=> id \in Arrived
    BY <1>1
  <2> QED
    BY <1>1, <1>3, <1>4, <2>1, StageKept
<1>6. Stage(j) = "collected" /\ Stage(j)' = "collected"
  <2>1. Found(j) = "collected"
    BY <1>1, <1>2, <1>4 DEF Found
  <2>2. Found(j)' = "collected"
    BY <1>1, <1>2, <1>3, <1>4 DEF Found
  <2> QED
    BY <1>2, <2>1, <2>2 DEF AllFound
<1>7. Runner(j)' = Runner(j) /\ Outcome(j)' = Outcome(j)
  BY <1>1, <1>2, <1>3, <1>6 DEF Runner, Outcome
<1> QED
  BY <1>1, <1>5, <1>6, <1>7, NothingMoves

\* What the application is told: the response where there is one.
LEMMA GatherTells ==
    ASSUME RequestInv, AllFound, OtherTypes', Gather
    PROVE  [Jobs!Next]_Jobs!jobVars
<1> USE DEF RequestInv, Inv, PlaceInv
<1>1. /\ told' = [id \in Requests |->
                    IF id \notin call.ids THEN told[id]
                    ELSE IF response[id] = "none" THEN "timeout"
                    ELSE response[id]]
      /\ UNCHANGED <<submitVars, listVars, serverVars, responsePc, arrived, target>>
  BY DEF Gather, submitVars, handlerVars
<1>2. told' \in [Requests -> Results \cup {"none", "unsent", "timeout"}]
  BY DEF OtherTypes
<1>3. call.ids \in SUBSET Requests /\ \A j \in call.ids : j < counter
  <2>1. counter \in Nat
    BY LinedRegistered
  <2> QED
    BY <2>1 DEF AskedRegistered, Registered, CallInv, CallValue
<1>4. ASSUME NEW j \in call.ids PROVE Stage(j) # "absent"
  <2>1. Found(j) # "absent"
    BY <1>3 DEF Found
  <2> QED
    BY <1>3, <2>1 DEF AllFound
<1>5. ASSUME NEW j \in call.ids
      PROVE  \/ Stage(j) \in {"collected", "refused"} /\ told'[j] = Outcome(j)
             \/ Stage(j) # "refused" /\ told'[j] = "timeout"
  <2>1. j \in Requests /\ j < counter /\ Stage(j) = Found(j)
    BY <1>3 DEF AllFound
  <2>2. CASE response[j] = "none"
    BY <1>1, <2>1, <2>2 DEF Found
  <2>3. CASE response[j] = "unsent"
    BY <1>1, <2>1, <2>3 DEF Found, Outcome
  <2>4. CASE response[j] \notin {"none", "unsent"}
    <3>1. \A s \in Servers : j \notin Running(s) /\ j \notin Answered(s)
      BY <2>4 DEF Apart, At
    <3>2. Found(j) = "collected"
      BY <2>1, <2>4, <3>1 DEF Found
    <3>3. told'[j] = response[j] /\ Outcome(j) = result[j] /\ response[j] = result[j]
      BY <1>1, <2>1, <2>4 DEF Outcome, AnswersTrue
    <3> QED
      BY <2>1, <3>2, <3>3
  <2> QED
    BY <2>2, <2>3, <2>4
<1>6. \A j \in Requests \ call.ids : told'[j] = told[j]
  BY <1>1
<1>7. JobNow' = JobNow /\ RunnerNow' = RunnerNow /\ OutcomeNow' = OutcomeNow
  <2>1. UNCHANGED <<counter, response, server, requests, executing, answers, arrived,
                    result>>
    BY <1>1 DEF submitVars, listVars, serverVars
  <2>2. \A id \in Requests : Stage(id)' = Stage(id)
    BY <2>1 DEF Stage, Registered
  <2> QED
    BY <2>1, <2>2 DEF JobNow, RunnerNow, OutcomeNow
<1>8. Jobs!Tell(call.ids)
  <2>1. /\ \A j \in Requests : JobNow[j] = Stage(j)
        /\ \A j \in Requests : OutcomeNow[j] = Outcome(j)
    BY DEF JobNow, OutcomeNow, Outcome
  <2>2. \A j \in call.ids : JobNow[j] # "absent"
    BY <1>3, <1>4, <2>1
  <2>3. \A j \in Requests :
            IF j \in call.ids
            THEN \/ JobNow[j] \in {"collected", "refused"} /\ told'[j] = OutcomeNow[j]
                 \/ JobNow[j] # "refused" /\ told'[j] = "timeout"
            ELSE told'[j] = told[j]
    BY <1>5, <1>6, <2>1
  <2> QED
    BY <1>1, <1>2, <1>7, <2>2, <2>3 DEF Jobs!Tell, JobNow, RunnerNow, OutcomeNow
<1> QED
  BY <1>3, <1>8 DEF Jobs!Next

\* A step that moves no request; it may choose the server of one that waits.
LEMMA ElseStutters ==
    ASSUME RequestInv, AllFound, AllFound',
           UNCHANGED <<counter, target, response, result, told>>,
           UNCHANGED <<requests, executing, answers>>, Arrived' = Arrived,
           \A id \in Requests \ Waiting : server'[id] = server[id]
    PROVE  [Jobs!Next]_Jobs!jobVars
<1>1. \A t \in Servers : Running(t)' = Running(t) /\ Answered(t)' = Answered(t)
  BY ServersKept
<1>2. ASSUME NEW id \in Requests
      PROVE  Stage(id)' = Stage(id) /\ Runner(id)' = Runner(id) /\ Outcome(id)' = Outcome(id)
  <2>1. CASE id \in Waiting
    <3>1. Stage(id) = "submitted"
      BY <2>1, WaitingSubmitted
    <3>2. Found(id)' = Found(id)
      BY <1>1 DEF Found
    <3>3. Stage(id)' = Stage(id)
      BY <3>2 DEF AllFound
    <3> QED
      BY <3>1, <3>3 DEF Runner, Outcome
  <2>2. CASE id \notin Waiting
    BY <1>1, <2>2, StageKept
  <2> QED
    BY <2>1, <2>2
<1> QED
  BY <1>2, NothingMoves

LEMMA JobsStep ==
    ASSUME RequestInv, OtherTypes, [Next]_vars
    PROVE  [Jobs!Next]_Jobs!jobVars
<1> USE DEF RequestInv, Inv, PlaceInv
<1>0. AllFound /\ AllFound'
  <2>1. RequestInv' => AllFound'
    BY StagesFound, PTL
  <2> QED
    BY <2>1, StagesFound, RequestInvStep
<1>1. CASE Application
  <2>1. ASSUME NEW s \in Servers \cup {NoServer}, Register(s)
        PROVE  [Jobs!Next]_Jobs!jobVars
    BY <1>0, <2>1, RegisterSubmits
  <2>2. CASE Gather
    BY <1>0, <2>2, GatherTells, TypesStep
  <2>3. CASE ~Gather /\ \A s \in Servers \cup {NoServer} : ~Register(s)
    <3>1. UNCHANGED <<counter, target, server, response, requests, executing, answers,
                      result, responsePc, arrived>>
      BY <1>1, <2>3, ApplicationElse DEF submitVars, listVars, serverVars
    <3>2. UNCHANGED told
      BY <1>1, <2>3 DEF Application, Push, LookAt, KeyRequest, WakeQueue, WakeHandler,
         Collect, MakeGroup, GroupReady, Stop, StopQueue, StopHandler, Stopped
    <3> QED
      BY <1>0, <3>1, <3>2, ElseStutters DEF Arrived
  <2> QED
    BY <2>1, <2>2, <2>3
<1>2. CASE QueueService
  <2>1. UNCHANGED <<submitVars, handlerVars, mainVars>>
    BY <1>2 DEF QueueService
  <2>2. CASE Send
    BY <1>0, <2>1, <2>2, SendStarts
  <2>3. CASE SendFails
    BY <1>0, <2>1, <2>3, SendFailsRefuses
  <2>4. CASE ~Send /\ ~SendFails
    <3>1. UNCHANGED <<counter, target, told, response, requests, executing, answers,
                      result>> /\ Arrived' = Arrived
      BY <1>2, <2>1, <2>4 DEF QueueService, QueueEnd, QueueWait, PickUp, Match, Pop,
         QueueClear, listVars, serverVars, submitVars, handlerVars, mainVars, Arrived
    <3>2. \A id \in Requests \ Waiting : server'[id] = server[id]
      <4>1. CASE Match
        BY <2>1, <4>1, MatchOrder DEF Waiting
      <4>2. CASE ~Match
        <5>1. UNCHANGED server
          BY <1>2, <2>4, <4>2 DEF QueueService, QueueEnd, QueueWait, PickUp, Pop,
             QueueClear, listVars
        <5> QED
          BY <5>1
      <4> QED
        BY <4>1, <4>2
    <3> QED
      BY <1>0, <3>1, <3>2, ElseStutters
  <2> QED
    BY <2>2, <2>3, <2>4
<1>3. CASE ResponseHandler
  <2>1. UNCHANGED <<submitVars, queueVars, mainVars>>
    BY <1>3 DEF ResponseHandler
  <2>2. ASSUME NEW s \in Servers, Receive(s) PROVE [Jobs!Next]_Jobs!jobVars
    BY <1>0, <2>1, <2>2, ReceiveCollects
  <2>3. CASE Store
    BY <1>0, <2>1, <2>3, StoreStutters
  <2>4. CASE HandlerEnd \/ HandlerWait \/ NothingToReceive \/ HandlerClear \/ Finish
    <3>1. /\ UNCHANGED <<counter, target, told, server, response, requests, executing,
                         answers, result>>
          /\ responsePc # "store" /\ responsePc' # "store"
      BY <2>1, <2>4 DEF HandlerEnd, HandlerWait, NothingToReceive, HandlerClear, Finish,
         listVars, serverVars, submitVars, mainVars
    <3> QED
      BY <1>0, <3>1, ElseStutters DEF Arrived
  <2> QED
    BY <1>3, <2>2, <2>3, <2>4 DEF ResponseHandler
<1>4. ASSUME NEW s \in Servers, Server(s) PROVE [Jobs!Next]_Jobs!jobVars
  <2>1. UNCHANGED <<submitVars, listVars, handlerVars, mainVars>>
    BY <1>4 DEF Server
  <2>2. ASSUME NEW successful \in Results, ServerAnswer(s, successful)
        PROVE  [Jobs!Next]_Jobs!jobVars
    BY <1>0, <2>1, <2>2, AnswerFinishes
  <2>3. CASE ServerReceive(s)
    <3>1. UNCHANGED <<counter, target, response, server, result, told, answers>>
          /\ Arrived' = Arrived
      BY <2>1, <2>3 DEF ServerReceive, submitVars, listVars, handlerVars, mainVars, Arrived
    <3>2. \A t \in Servers : Running(t)' = Running(t) /\ Answered(t)' = Answered(t)
      BY <2>3, ServerReceiveMoves
    <3>3. ASSUME NEW id \in Requests
          PROVE  /\ Stage(id)' = Stage(id)
                 /\ Runner(id)' = Runner(id) /\ Outcome(id)' = Outcome(id)
      BY <1>0, <3>1, <3>2, StageKept
    <3> QED
      BY <3>1, <3>3, NothingMoves
  <2> QED
    BY <1>4, <2>2, <2>3 DEF Server
<1>5. CASE Status \/ UNCHANGED vars
  <2>1. UNCHANGED commandVars
    BY <1>5 DEF Status, vars
  <2>2. UNCHANGED <<counter, target, told, server, response, requests, executing, answers,
                    result>> /\ Arrived' = Arrived
    BY <2>1 DEF commandVars, listVars, serverVars, submitVars, mainVars, handlerVars,
       Arrived
  <2> QED
    BY <1>0, <2>2, ElseStutters
<1> QED
  BY <1>1, <1>2, <1>3, <1>4, <1>5 DEF Next

LEMMA JobsInit == Init => Jobs!Init
<1> SUFFICES ASSUME Init PROVE Jobs!Init
  OBVIOUS
<1>1. \A id \in Requests : Stage(id) = "absent"
  <2>1. Registered = {}
    BY DEF Init, Registered
  <2> QED
    BY <2>1 DEF Stage
<1>2. JobNow = [id \in Requests |-> "absent"]
  BY <1>1 DEF JobNow
<1>3. RunnerNow = [id \in Requests |-> NoServer]
  BY <1>1 DEF RunnerNow
<1>4. OutcomeNow = [id \in Requests |-> "none"]
  BY DEF Init, OutcomeNow
<1> QED
  BY <1>2, <1>3, <1>4 DEF Init, Jobs!Init, JobNow, RunnerNow, OutcomeNow

\* The queue service, the response handler, the servers and the monitor together are
\* a job queue: each request is started at most once, where it was meant to run, on a
\* server with no other, and the application is told what executing it gave, or that
\* its server timed out.
THEOREM ClientIsJobQueue == Spec => IsJobQueue
<1>1. [Next]_vars /\ RequestInv /\ OtherTypes => [Jobs!Next]_Jobs!jobVars
  BY JobsStep
<1> QED
  BY <1>1, JobsInit, RequestInvHolds, TypesHold, PTL DEF Spec, IsJobQueue, Jobs!Spec

-----------------------------------------------------------------------------
(* The monitor of the servers: the pings and their answers, in any order,    *)
(* change the status of the servers as ServerStatus says.                   *)

\* The status of the servers and the pings always have their types.
THEOREM MonitorTypes == MonitorSpec => []MonitorTypeOK
<1>1. MonitorInit => MonitorTypeOK
  BY StatusAssumption DEF MonitorInit, StatusInit, MonitorTypeOK, StatusTypeOK
<1>2. MonitorTypeOK /\ [MonitorNext]_monitorVars => MonitorTypeOK'
  <2> SUFFICES ASSUME MonitorTypeOK, [MonitorNext]_monitorVars PROVE MonitorTypeOK'
    OBVIOUS
  <2> USE StatusAssumption DEF MonitorTypeOK, StatusTypeOK
  <2>1. ASSUME NEW s \in Servers, SendPing(s) PROVE MonitorTypeOK'
    BY <2>1 DEF SendPing, statusVars
  <2>2. CASE NotePing
    <3>1. pinged \in Servers
      BY <2>2 DEF NotePing
    <3> QED
      BY <2>2, <3>1 DEF NotePing, statusVars
  <2>3. ASSUME NEW s \in Servers, CheckPong(s) PROVE MonitorTypeOK'
    <3>1. StatusTypeOK'
      BY <2>3 DEF CheckPong, TimesOut
    <3> QED
      BY <2>3, <3>1 DEF CheckPong, pingVars
  <2>4. ASSUME NEW s \in Servers, ReceivePong(s) PROVE MonitorTypeOK'
    <3>1. /\ ping' = [ping EXCEPT ![s] = "none"]
          /\ pongPending' = [pongPending EXCEPT ![s] = FALSE]
          /\ UNCHANGED pinged
      BY <2>4 DEF ReceivePong
    <3>2. Recovers(s) \/ UNCHANGED statusVars
      BY <2>4 DEF ReceivePong
    <3>3. StatusTypeOK'
      <4>1. CASE Recovers(s)
        BY <4>1 DEF Recovers
      <4>2. CASE UNCHANGED statusVars
        BY <4>2 DEF statusVars
      <4> QED
        BY <3>2, <4>1, <4>2
    <3> QED
      BY <3>1, <3>3
  <2>5. ASSUME NEW s \in Servers, AnswerPing(s) PROVE MonitorTypeOK'
    BY <2>5 DEF AnswerPing, statusVars
  <2>6. ASSUME NEW s \in Servers, ServerDies(s) PROVE MonitorTypeOK'
    BY <2>6 DEF ServerDies, Die, pingVars
  <2>7. CASE StopServices
    BY <2>7 DEF StopServices, StopMonitor, pingVars
  <2>8. CASE UNCHANGED monitorVars
    BY <2>8 DEF monitorVars, statusVars, pingVars
  <2> QED
    BY <2>1, <2>2, <2>3, <2>4, <2>5, <2>6, <2>7, <2>8 DEF MonitorNext
<1> QED
  BY <1>1, <1>2, PTL DEF MonitorSpec

\* A ping that is under way, or answered but not received, is pending or about
\* to be noted as pending.
PingNoted ==
    /\ MonitorTypeOK
    /\ \A s \in Servers : ping[s] # "none" => pongPending[s] \/ pinged = s

\* The status service looks at 'pong_pending', which the other thread resets, and
\* sets it only after it has sent the ping (MPIMonitorClient.py:117-121): even so,
\* no server is pinged while a ping to it or its answer is under way.
THEOREM OnePingAtATime ==
  MonitorSpec => [][\A s \in Servers : SendPing(s) => ping[s] = "none"]_monitorVars
<1>1. MonitorInit => \A s \in Servers : ping[s] # "none" => pongPending[s] \/ pinged = s
  BY DEF MonitorInit
<1>2. MonitorTypeOK' /\ PingNoted /\ [MonitorNext]_monitorVars => PingNoted'
  <2> SUFFICES ASSUME MonitorTypeOK', PingNoted, [MonitorNext]_monitorVars,
                      NEW r \in Servers, ping'[r] # "none"
               PROVE  pongPending'[r] \/ pinged' = r
    BY DEF PingNoted
  <2> USE DEF PingNoted, MonitorTypeOK
  <2>1. CASE NotePing
    BY <2>1 DEF NotePing
  <2>2. ASSUME NEW s \in Servers, SendPing(s) PROVE pongPending'[r] \/ pinged' = r
    BY <2>2, StatusAssumption DEF SendPing
  <2>3. ASSUME NEW s \in Servers, CheckPong(s) PROVE pongPending'[r] \/ pinged' = r
    BY <2>3 DEF CheckPong, pingVars
  <2>4. ASSUME NEW s \in Servers, ReceivePong(s) PROVE pongPending'[r] \/ pinged' = r
    BY <2>4 DEF ReceivePong
  <2>5. ASSUME NEW s \in Servers, AnswerPing(s) PROVE pongPending'[r] \/ pinged' = r
    BY <2>5 DEF AnswerPing
  <2>6. ASSUME NEW s \in Servers, ServerDies(s) PROVE pongPending'[r] \/ pinged' = r
    BY <2>6 DEF ServerDies, pingVars
  <2>7. CASE StopServices
    BY <2>7 DEF StopServices, pingVars
  <2>8. CASE UNCHANGED monitorVars
    BY <2>8 DEF monitorVars, pingVars
  <2> QED
    BY <2>1, <2>2, <2>3, <2>4, <2>5, <2>6, <2>7, <2>8 DEF MonitorNext
<1>3. PingNoted => \A s \in Servers : SendPing(s) => ping[s] = "none"
  BY StatusAssumption DEF PingNoted, SendPing
<1>4. MonitorTypeOK /\ (\A s \in Servers : ping[s] # "none" => pongPending[s] \/ pinged = s)
        => PingNoted
  BY DEF PingNoted
<1>5. [MonitorNext]_monitorVars /\ PingNoted
        => [\A s \in Servers : SendPing(s) => ping[s] = "none"]_monitorVars
  BY <1>3
<1> QED
  BY <1>1, <1>2, <1>4, <1>5, MonitorTypes, PTL DEF MonitorSpec

\* The steps of the monitor's threads that write the status are steps of
\* ServerStatus, with which the command client is composed, and its other steps
\* leave the status alone: the definitions are written so.
LEMMA MonitorIsStatus == MonitorSpec => StatusSpec
<1>1. MonitorInit => StatusInit
  BY DEF MonitorInit
<1>2. [MonitorNext]_monitorVars => [StatusNext]_statusVars
  <2> SUFFICES ASSUME [MonitorNext]_monitorVars PROVE [StatusNext]_statusVars
    OBVIOUS
  <2>1. ASSUME NEW s \in Servers, SendPing(s) \/ AnswerPing(s)
        PROVE UNCHANGED statusVars
    BY <2>1 DEF SendPing, AnswerPing
  <2>2. CASE NotePing
    BY <2>2 DEF NotePing
  <2>3. ASSUME NEW s \in Servers, CheckPong(s) PROVE StatusNext
    BY <2>3 DEF CheckPong, StatusNext
  <2>4. ASSUME NEW s \in Servers, ReceivePong(s) PROVE [StatusNext]_statusVars
    BY <2>4 DEF ReceivePong, StatusNext
  <2>5. ASSUME NEW s \in Servers, ServerDies(s) PROVE StatusNext
    BY <2>5 DEF ServerDies, StatusNext
  <2>6. CASE StopServices
    BY <2>6 DEF StopServices, StatusNext
  <2>7. CASE UNCHANGED monitorVars
    BY <2>7 DEF monitorVars
  <2> QED
    BY <2>1, <2>2, <2>3, <2>4, <2>5, <2>6, <2>7 DEF MonitorNext
<1> QED
  BY <1>1, <1>2, PTL DEF MonitorSpec, StatusSpec

=============================================================================
