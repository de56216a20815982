-------------------------- MODULE TransportProofs --------------------------
(***************************************************************************)
(* Proofs about Transport for any number of clients, workers, topics and   *)
(* rounds.                                                                 *)
(***************************************************************************)
EXTENDS Transport, FiniteSetTheorems, TLAPS

\* The steps of the system, as one list of actions.
LEMMA StepCases ==
  ASSUME Next
  PROVE  \/ \E c \in Clients : \/ Connect(c) \/ SendPut(c) \/ ReadAck(c) \/ ReadReply(c)
                               \/ SendTrigger(c) \/ ReadAnswer(c) \/ Register(c) \/ Kill(c)
                               \/ ReadStore(c) \/ ReadTrigger(c) \/ ReadRegister(c) \/ ReadEnd(c)
         \/ Accept \/ AcceptFails \/ Stop
         \/ \E p \in posted \cup pushed : Store(p) \/ Acknowledge(p) \/ Load(p)
         \/ \E t \in Topics : HandOut(t) \/ Release(t)
         \/ \E r \in asked : Answer(r)
  BY SortsAssumption DEF Next, Programs, Program, Server, Reading, Handling, Serving, Answering

\* The steps that read a reply hand over its place in the stream.
LEMMA Taken ==
  ASSUME TypeOK, NEW c \in Clients, NEW kind, Receive(c, kind)
  PROVE  outbound' \in [Clients -> Seq(Replies)] /\ misled' \subseteq Clients
<1>1. Tail(outbound[c]) \in Seq(Replies)
  BY DEF TypeOK, Receive
<1>2. QED
  BY <1>1 DEF TypeOK, Receive

\* A packet that is sent is one more in the stream.
LEMMA Sent ==
  ASSUME TypeOK, NEW c \in Clients, NEW t \in Topics \cup {NoTopic}, NEW kind \in Kinds,
         Send(c, Packet(kind, c, t))
  PROVE  inbound' \in [Clients -> Seq(Packets)]
<1>1. Packet(kind, c, t) \in Packets
  BY DEF Packet, Packets, Current, Requests, TypeOK
<1>2. QED
  BY <1>1 DEF TypeOK, Send

\* One that is read has been taken from its front.
LEMMA GotPacket ==
  ASSUME TypeOK, NEW c \in Clients, NEW kinds, Reads(c, kinds)
  PROVE  inbound' \in [Clients -> Seq(Packets)] /\ Head(inbound[c]) \in Packets
<1>1. Tail(inbound[c]) \in Seq(Packets) /\ Head(inbound[c]) \in Packets
  BY DEF TypeOK, Reads
<1>2. QED
  BY <1>1 DEF TypeOK, Reads

\* A reply that is written is one more in the stream back.
LEMMA Written ==
  ASSUME TypeOK, NEW c \in Clients, NEW r \in Replies
  PROVE  Write(c, r) \in [Clients -> Seq(Replies)]
  BY DEF TypeOK, Write

\* The replies of a message that is handed out, too.
LEMMA HandedOut ==
  ASSUME TypeOK, NEW t \in Topics, HandOut(t)
  PROVE  /\ outbound' \in [Clients -> Seq(Replies)]
         /\ backlog' \in [Topics -> Seq(Requests)]
         /\ served' \in [Topics -> [Requests -> Seq(Requests)]]
<1>1. IsFiniteSet(Requests)
  <2>1. IsFiniteSet(Clients) /\ IsFiniteSet(1..Rounds)
    BY SortsAssumption, BoundsAssumption, FS_Interval
  <2>2. QED
    BY <2>1, FS_Product DEF Requests
<1>2. /\ backlog[t] \in Seq(Requests) /\ backlog[t] # <<>>
      /\ Head(backlog[t]) \in Requests /\ Tail(backlog[t]) \in Seq(Requests)
  BY DEF TypeOK, HandOut
<1>3. ASSUME NEW c \in Clients
      PROVE  outbound[c] \o [i \in 1..Cardinality({s \in open[t] : s[1] = c}) |->
                               Reply("data", Head(backlog[t]))] \in Seq(Replies)
  <2> DEFINE n == Cardinality({s \in open[t] : s[1] = c})
  <2>1. n \in Nat
    <3>1. {s \in open[t] : s[1] = c} \subseteq Requests
      BY DEF TypeOK
    <3>2. IsFiniteSet({s \in open[t] : s[1] = c})
      BY <1>1, <3>1, FS_Subset
    <3>3. QED
      BY <3>2, FS_CardinalityType
  <2>2. Reply("data", Head(backlog[t])) \in Replies
    BY <1>2 DEF Reply, Replies
  <2>3. [i \in 1..n |-> Reply("data", Head(backlog[t]))] \in Seq(Replies)
    <3> HIDE DEF n
    <3>1. QED
      BY <2>1, <2>2
  <2>4. QED
    BY <2>3 DEF TypeOK
<1>4. outbound' \in [Clients -> Seq(Replies)]
  BY <1>3 DEF HandOut
<1>5. backlog' \in [Topics -> Seq(Requests)]
  BY <1>2 DEF HandOut, TypeOK
<1>6. ASSUME NEW s \in Requests
      PROVE  (IF s \in open[t] THEN Append(served[t][s], Head(backlog[t])) ELSE served[t][s])
               \in Seq(Requests)
  BY <1>2 DEF TypeOK
<1>7. served' \in [Topics -> [Requests -> Seq(Requests)]]
  BY <1>6 DEF HandOut, TypeOK
<1>8. QED
  BY <1>4, <1>5, <1>7

\* Every variable keeps its type.
LEMMA TypeStep ==
  ASSUME TypeOK, Next
  PROVE  TypeOK'
<1> USE DEF programs, listener, links, handlers, topics, launcher
<1>1. ASSUME NEW c \in Clients, Connect(c) PROVE TypeOK'
  <2>1. step' \in [Clients -> {"start", "put", "ack", "reply", "trigger", "answer", "register",
                               "serve", "over", "failed"}]
    BY <1>1 DEF Connect, TypeOK, Clients
  <2>2. pending' \in Seq(Clients)
    BY <1>1 DEF Connect, TypeOK
  <2>3. QED
    BY <1>1, <2>1, <2>2 DEF Connect, TypeOK
<1>2. ASSUME NEW c \in Clients, SendPut(c) PROVE TypeOK'
  <2>1. inbound' \in [Clients -> Seq(Packets)]
    BY <1>2, Sent DEF SendPut, Kinds
  <2>2. QED
    BY ZenonT(30), <1>2, <2>1 DEF SendPut, TypeOK
<1>3. ASSUME NEW c \in Clients, ReadAck(c) PROVE TypeOK'
  <2>1. inbound' \in [Clients -> Seq(Packets)]
    BY <1>3, Sent DEF ReadAck, Kinds, TypeOK
  <2>2. outbound' \in [Clients -> Seq(Replies)] /\ misled' \subseteq Clients
    BY <1>3, Taken DEF ReadAck
  <2>3. QED
    BY <1>3, <2>1, <2>2 DEF ReadAck, TypeOK
<1>4. ASSUME NEW c \in Clients, NEW first \in {"put", "trigger"}, NextRound(c, first)
      PROVE  /\ step' \in [Clients -> {"start", "put", "ack", "reply", "trigger", "answer",
                                        "register", "serve", "over", "failed"}]
             /\ round' \in [Clients -> 1..Rounds]
  <2>1. round[c] \in 1..Rounds /\ (~LastRound(c) => round[c] + 1 \in 1..Rounds)
    BY BoundsAssumption DEF LastRound, TypeOK
  <2>2. QED
    BY <1>4, <2>1 DEF NextRound, TypeOK
<1>5. ASSUME NEW c \in Clients, ReadReply(c) PROVE TypeOK'
  <2>1. outbound' \in [Clients -> Seq(Replies)] /\ misled' \subseteq Clients
    BY <1>5, Taken DEF ReadReply
  <2>2. QED
    BY <1>4, <1>5, <2>1 DEF ReadReply, TypeOK
<1>6. ASSUME NEW c \in Clients, SendTrigger(c) PROVE TypeOK'
  <2>1. inbound' \in [Clients -> Seq(Packets)]
    BY <1>6, Sent DEF SendTrigger, Kinds
  <2>2. QED
    BY <1>6, <2>1 DEF SendTrigger, TypeOK
<1>7. ASSUME NEW c \in Clients, ReadAnswer(c) PROVE TypeOK'
  <2>1. outbound' \in [Clients -> Seq(Replies)] /\ misled' \subseteq Clients
    BY <1>7, Taken DEF ReadAnswer
  <2>2. QED
    BY <1>4, <1>7, <2>1 DEF ReadAnswer, TypeOK
<1>8. ASSUME NEW c \in Clients, Register(c) PROVE TypeOK'
  <2>1. inbound' \in [Clients -> Seq(Packets)]
    BY <1>8, Sent DEF Register, Kinds
  <2>2. QED
    BY <1>8, <2>1 DEF Register, TypeOK
<1>9. ASSUME NEW c \in Clients, Kill(c) PROVE TypeOK'
  <2>1. PICK rest \in {<<>>, inbound[c]} : inbound' = [inbound EXCEPT ![c] = rest]
    BY <1>9 DEF Kill
  <2>2. inbound[c] \in Seq(Packets) /\ rest \in Seq(Packets)
    <3>1. inbound[c] \in Seq(Packets) /\ <<>> \in Seq(Packets)
      BY DEF TypeOK
    <3>2. QED
      BY <2>1, <3>1
  <2>3. inbound' \in [Clients -> Seq(Packets)]
    BY <2>1, <2>2 DEF TypeOK
  <2>4. QED
    BY <1>9, <2>3 DEF Kill, TypeOK
<1>10. ASSUME NEW c \in Clients, ReadStore(c) PROVE TypeOK'
  <2>1. inbound' \in [Clients -> Seq(Packets)] /\ Head(inbound[c]) \in Packets
    BY <1>10, GotPacket DEF ReadStore
  <2>2. QED
    BY <1>10, <2>1 DEF ReadStore, TypeOK
<1>11. ASSUME NEW c \in Clients, ReadTrigger(c) PROVE TypeOK'
  <2>1. inbound' \in [Clients -> Seq(Packets)] /\ Head(inbound[c]) \in Packets
    BY <1>11, GotPacket DEF ReadTrigger
  <2>2. Head(inbound[c]).req \in Requests
    BY <2>1 DEF Packets
  <2>3. QED
    BY <1>11, <2>1, <2>2 DEF ReadTrigger, TypeOK
<1>12. ASSUME NEW c \in Clients, ReadRegister(c) PROVE TypeOK'
  <2>1. inbound' \in [Clients -> Seq(Packets)]
    BY <1>12, GotPacket DEF ReadRegister
  <2>2. QED
    BY <1>12, <2>1 DEF ReadRegister, TypeOK
<1>13. ASSUME NEW c \in Clients, ReadEnd(c) PROVE TypeOK'
  BY <1>13 DEF ReadEnd, TypeOK
<1>14. ASSUME Accept PROVE TypeOK'
  <2>1. Head(pending) \in Clients /\ Tail(pending) \in Seq(Clients)
    BY <1>14 DEF Accept, TypeOK
  <2>2. QED
    BY <1>14, <2>1 DEF Accept, TypeOK
<1>15. ASSUME AcceptFails PROVE TypeOK'
  BY <1>15 DEF AcceptFails, TypeOK
<1>16. ASSUME Stop PROVE TypeOK'
  <2>1. /\ inbound' \in [Clients -> Seq(Packets)] /\ outbound' \in [Clients -> Seq(Replies)]
        /\ backlog' \in [Topics -> Seq(Requests)] /\ open' \in [Topics -> SUBSET Requests]
        /\ served' \in [Topics -> [Requests -> Seq(Requests)]]
    BY <1>16 DEF Stop, NoPackets, NoMessages, NoSlots, NothingServed
  <2>2. step' \in [Clients -> {"start", "put", "ack", "reply", "trigger", "answer", "register",
                               "serve", "over", "failed"}]
    BY <1>16 DEF Stop, TypeOK
  <2>3. pending' \in Seq(Clients)
    BY <1>16 DEF Stop
  <2>4. QED
    BY <1>16, <2>1, <2>2, <2>3 DEF Stop, TypeOK
<1>17. ASSUME NEW p \in posted \cup pushed, Store(p) PROVE TypeOK'
  <2>1. p \in Packets /\ p.req \in Requests
    BY DEF TypeOK, Packets
  <2>2. ASSUME p.topic \in Topics PROVE Append(backlog[p.topic], p.req) \in Seq(Requests)
    BY <2>1, <2>2 DEF TypeOK
  <2>3. backlog' \in [Topics -> Seq(Requests)]
    BY <1>17, <2>2 DEF Store, TypeOK
  <2>4. QED
    BY <1>17, <2>1, <2>3 DEF Store, TypeOK
<1>18. ASSUME NEW p \in posted \cup pushed, Acknowledge(p) PROVE TypeOK'
  <2>1. p.req \in Requests /\ p.req[1] \in Clients /\ Reply("ack", p.req) \in Replies
    BY DEF TypeOK, Packets, Requests, Reply, Replies
  <2>2. outbound' \in [Clients -> Seq(Replies)]
    BY <1>18, <2>1, Written DEF Acknowledge
  <2>3. QED
    BY <1>18, <2>2 DEF Acknowledge, TypeOK
<1>19. ASSUME NEW p \in posted \cup pushed, Load(p) PROVE TypeOK'
  <2>1. p.req \in Requests
    BY DEF TypeOK, Packets
  <2>2. QED
    BY <1>19, <2>1 DEF Load, TypeOK
<1>20. ASSUME NEW t \in Topics, HandOut(t) PROVE TypeOK'
  BY <1>20, HandedOut DEF HandOut, TypeOK
<1>21. ASSUME NEW t \in Topics, Release(t) PROVE TypeOK'
  BY <1>21 DEF Release, TypeOK
<1>22. ASSUME NEW r \in asked, Answer(r) PROVE TypeOK'
  <2>1. r[1] \in Clients /\ Reply("answer", r) \in Replies
    BY DEF TypeOK, Requests, Reply, Replies
  <2>2. outbound' \in [Clients -> Seq(Replies)]
    BY <1>22, <2>1, Written DEF Answer
  <2>3. QED
    BY <1>22, <2>1, <2>2 DEF Answer, TypeOK
<1>23. QED
  BY StepCases, <1>1, <1>2, <1>3, <1>5, <1>6, <1>7, <1>8, <1>9, <1>10, <1>11, <1>12, <1>13, <1>14,
     <1>15, <1>16, <1>17, <1>18, <1>19, <1>20, <1>21, <1>22

\* Every reachable state is of the declared types: a packet, a reply or a request is
\* never anything but one of the protocol's.
THEOREM TypeCorrect == Spec => []TypeOK
<1>1. Init => TypeOK
  <2>1. ASSUME Init
        PROVE  /\ inbound \in [Clients -> Seq(Packets)] /\ outbound \in [Clients -> Seq(Replies)]
               /\ backlog \in [Topics -> Seq(Requests)] /\ open \in [Topics -> SUBSET Requests]
               /\ served \in [Topics -> [Requests -> Seq(Requests)]]
    BY <2>1 DEF Init, NoPackets, NoMessages, NoSlots, NothingServed
  <2>2. ASSUME Init PROVE pending \in Seq(Clients) /\ round \in [Clients -> 1..Rounds]
    BY <2>2, BoundsAssumption DEF Init
  <2>3. QED
    BY <2>1, <2>2 DEF Init, TypeOK
<1>2. TypeOK /\ [Next]_vars => TypeOK'
  <2>1. ASSUME TypeOK, UNCHANGED vars PROVE TypeOK'
    BY <2>1 DEF TypeOK, vars, programs, listener, links, handlers, topics, launcher
  <2>2. QED
    BY <2>1, TypeStep
<1>3. QED
  BY <1>1, <1>2, PTL DEF Spec

-----------------------------------------------------------------------------
(* Who keeps a connection.                                                 *)

\* The strengthening of KeptOpen: what keeps the connection of a client that is still
\* there is its read, a job or a worker - never only a handler or a slot, which go.
Keepers == \A c \in accepted : ~Gone(c) => c \in reading \cup jobs \cup workers_

LEMMA KeepersStep ==
  ASSUME TypeOK, Keepers, Next
  PROVE  Keepers'
<1> USE DEF Keepers, Gone, programs, listener, links, handlers, topics, launcher
<1>1. ASSUME NEW c \in Clients, NEW s, step' = [step EXCEPT ![c] = s], ~Gone(c),
             accepted' = accepted, reading' = reading, jobs' = jobs, workers_' = workers_
      PROVE  Keepers'
  BY <1>1 DEF TypeOK
<1>2. ASSUME NEW c \in Clients,
             \/ Connect(c) \/ SendPut(c) \/ ReadAck(c) \/ ReadReply(c)
             \/ SendTrigger(c) \/ ReadAnswer(c) \/ Register(c) \/ Kill(c)
      PROVE  Keepers'
  <2>1. CASE Connect(c)
    BY <2>1, <1>1 DEF Connect
  <2>2. CASE SendPut(c)
    BY <2>2, <1>1 DEF SendPut
  <2>3. CASE ReadAck(c)
    BY <2>3, <1>1 DEF ReadAck
  <2>4. CASE ReadReply(c)
    BY <2>4, <1>1 DEF ReadReply, NextRound
  <2>5. CASE SendTrigger(c)
    BY <2>5, <1>1 DEF SendTrigger
  <2>6. CASE ReadAnswer(c)
    BY <2>6, <1>1 DEF ReadAnswer, NextRound
  <2>7. CASE Register(c)
    BY <2>7, <1>1 DEF Register
  <2>8. CASE Kill(c)
    BY <2>8, <1>1 DEF Kill
  <2>9. QED
    BY <1>2, <2>1, <2>2, <2>3, <2>4, <2>5, <2>6, <2>7, <2>8
<1>3. ASSUME NEW c \in Clients, ReadStore(c) PROVE Keepers'
  BY <1>3 DEF ReadStore
<1>4. ASSUME NEW c \in Clients, ReadTrigger(c) PROVE Keepers'
  BY <1>4 DEF ReadTrigger
<1>5. ASSUME NEW c \in Clients, ReadRegister(c) PROVE Keepers'
  BY <1>5 DEF ReadRegister
<1>6. ASSUME NEW c \in Clients, ReadEnd(c) PROVE Keepers'
  BY <1>6 DEF ReadEnd
<1>7. ASSUME Accept PROVE Keepers'
  BY <1>7 DEF Accept
<1>8. ASSUME AcceptFails PROVE Keepers'
  BY <1>8 DEF AcceptFails
<1>9. ASSUME Stop PROVE Keepers'
  BY <1>9 DEF Stop
<1>10. ASSUME NEW p \in posted \cup pushed, Store(p) \/ Acknowledge(p) \/ Load(p) PROVE Keepers'
  BY <1>10 DEF Store, Acknowledge, Load
<1>11. ASSUME NEW t \in Topics, HandOut(t) \/ Release(t) PROVE Keepers'
  BY <1>11 DEF HandOut, Release
<1>12. ASSUME NEW r \in asked, Answer(r) PROVE Keepers'
  BY <1>12 DEF Answer
<1>13. QED
  BY StepCases, <1>2, <1>3, <1>4, <1>5, <1>6, <1>7, <1>8, <1>9, <1>10, <1>11, <1>12

\* The server never closes a connection in the face of its client, however many clients
\* there are and whatever they send: at every moment a read, a job or a worker holds the
\* last shared_ptr that matters.
THEOREM ConnectionsKept == Spec => []KeptOpen
<1>1. Init => Keepers
  BY DEF Init, Keepers
<1>2. TypeOK /\ Keepers /\ [Next]_vars => Keepers'
  <2>1. ASSUME Keepers, UNCHANGED vars PROVE Keepers'
    BY <2>1 DEF Keepers, Gone, vars, programs, listener, launcher
  <2>2. QED
    BY <2>1, KeepersStep
<1>3. Keepers => KeptOpen
  BY DEF Keepers, KeptOpen, Open, Held
<1>4. QED
  BY <1>1, <1>2, <1>3, TypeCorrect, PTL DEF Spec

-----------------------------------------------------------------------------
(* The topics.                                                             *)

LEMMA TopicStep ==
  ASSUME TypeOK, [Next]_vars, NEW t \in Topics
  PROVE  [T(t)!Next \/ stopped']_(T(t)!vars)
<1> USE DEF programs, listener, links, handlers, topics, launcher
<1> SUFFICES T(t)!Next \/ stopped' \/ UNCHANGED <<backlog[t], open[t], served[t]>>
  BY DEF T!vars
<1>1. CASE UNCHANGED topics
  BY <1>1
<1>2. ASSUME NEW p \in posted \cup pushed, Store(p) PROVE T(t)!Next \/ UNCHANGED <<backlog[t], open[t], served[t]>>
  <2>1. p.req \in Requests
    BY DEF TypeOK, Packets
  <2>2. CASE p.topic = t
    <3>1. T(t)!Publish(p.req)
      BY <1>2, <2>2 DEF Store, T!Publish, TypeOK
    <3>2. QED
      BY <2>1, <3>1 DEF T!Next
  <2>3. CASE p.topic # t
    BY <1>2, <2>3 DEF Store, TypeOK
  <2>4. QED
    BY <2>2, <2>3
<1>3. ASSUME NEW p \in posted \cup pushed, Load(p) PROVE T(t)!Next \/ UNCHANGED <<backlog[t], open[t], served[t]>>
  <2>1. p.req \in Requests
    BY DEF TypeOK, Packets
  <2>2. CASE p.topic = t /\ p.req \notin open[t]
    <3>1. T(t)!Subscribe(p.req)
      BY <1>3, <2>2 DEF Load, T!Subscribe, TypeOK
    <3>2. QED
      BY <2>1, <3>1 DEF T!Next
  <2>3. CASE p.topic # t \/ p.req \in open[t]
    BY <1>3, <2>3 DEF Load, TypeOK
  <2>4. QED
    BY <2>2, <2>3
<1>4. ASSUME NEW u \in Topics, HandOut(u) PROVE T(t)!Next \/ UNCHANGED <<backlog[t], open[t], served[t]>>
  <2>1. CASE u = t
    <3>1. T(t)!HandOut
      BY <1>4, <2>1 DEF HandOut, T!HandOut, TypeOK
    <3>2. QED
      BY <3>1 DEF T!Next
  <2>2. CASE u # t
    BY <1>4, <2>2 DEF HandOut, TypeOK
  <2>3. QED
    BY <2>1, <2>2
<1>5. ASSUME NEW u \in Topics, Release(u) PROVE T(t)!Next \/ UNCHANGED <<backlog[t], open[t], served[t]>>
  <2>1. CASE u = t
    <3>1. T(t)!Release
      BY <1>5, <2>1 DEF Release, T!Release, T!WeakRelease, T!Answered, TypeOK
    <3>2. QED
      BY <3>1 DEF T!Next
  <2>2. CASE u # t
    BY <1>5, <2>2 DEF Release, TypeOK
  <2>3. QED
    BY <2>1, <2>2
<1>6. CASE Next
  <2>1. CASE \E c \in Clients : \/ Connect(c) \/ SendPut(c) \/ ReadAck(c) \/ ReadReply(c)
                              \/ SendTrigger(c) \/ ReadAnswer(c) \/ Register(c) \/ Kill(c)
    BY <2>1, <1>1 DEF Connect, SendPut, ReadAck, ReadReply, SendTrigger, ReadAnswer, Register, Kill
  <2>2. CASE \E c \in Clients : ReadStore(c) \/ ReadTrigger(c) \/ ReadRegister(c) \/ ReadEnd(c)
    BY <2>2, <1>1 DEF ReadStore, ReadTrigger, ReadRegister, ReadEnd
  <2>3. CASE Accept \/ AcceptFails \/ Stop
    BY <2>3, <1>1 DEF Accept, AcceptFails, Stop
  <2>4. CASE \E p \in posted \cup pushed : Acknowledge(p)
    BY <2>4, <1>1 DEF Acknowledge
  <2>5. CASE \E r \in asked : Answer(r)
    BY <2>5, <1>1 DEF Answer
  <2>6. QED
    BY <1>2, <1>3, <1>4, <1>5, <1>6, <2>1, <2>2, <2>3, <2>4, <2>5, StepCases
<1>7. QED
  BY <1>1, <1>6 DEF vars

\* Composed with clients, connections and an accept loop, every topic keeps behaving as
\* the TopicQueue that module Bucket implements, until the server is stopped: the two
\* specifications fit together.
THEOREM TopicsCompose == Spec => TopicsComposed
<1>1. ASSUME NEW t \in Topics
      PROVE  Spec => T(t)!Init /\ [][T(t)!Next \/ stopped']_(T(t)!vars)
  <2>1. Init => T(t)!Init
    BY DEF Init, T!Init, NoMessages, NoSlots, NothingServed
  <2>2. TypeOK /\ [Next]_vars => [T(t)!Next \/ stopped']_(T(t)!vars)
    BY TopicStep
  <2>3. QED
    BY <2>1, <2>2, TypeCorrect, PTL DEF Spec
<1>2. QED
  BY <1>1 DEF TopicsComposed

-----------------------------------------------------------------------------
(* Clients stay in step with their connections.                            *)

\* Where the one request of a client is: among what it sent, posted, pushed or asked, or
\* among what it has still to read.
At(c, sent, toRun, toAck, toAnswer, replies) ==
  /\ inbound[c] = sent /\ outbound[c] = replies
  /\ {p \in posted : p.req[1] = c} = toRun
  /\ {p \in pushed : p.req[1] = c} = toAck
  /\ {r \in asked : r[1] = c} = toAnswer

\* No topic knows the request as a slot.
Untouched(c) == \A t \in Topics : Current(c) \notin open[t] /\ served[t][Current(c)] = <<>>

Idle(c) ==
  /\ At(c, <<>>, {}, {}, {}, <<>>) /\ Untouched(c)
  /\ topic[c] \in Topics => backlog[topic[c]] = <<>>

\* Between a PUT and its acknowledgement ...
Storing(c) ==
  LET put == Packet("put", c, topic[c]) IN
  /\ topic[c] \in Topics /\ Untouched(c) /\ open[topic[c]] = {}
  /\ \/ At(c, <<put>>, {}, {}, {}, <<>>) /\ backlog[topic[c]] = <<>>
     \/ At(c, <<>>, {put}, {}, {}, <<>>) /\ backlog[topic[c]] = <<>>
     \/ At(c, <<>>, {}, {put}, {}, <<>>) /\ backlog[topic[c]] = <<Current(c)>>
     \/ At(c, <<>>, {}, {}, {}, <<Reply("ack", Current(c))>>) /\ backlog[topic[c]] = <<Current(c)>>

\* ... and between the GET that follows and the data.
Loading(c) ==
  LET get == Packet("get", c, topic[c]) IN
  /\ topic[c] \in Topics
  /\ \/ /\ At(c, <<get>>, {}, {}, {}, <<>>) \/ At(c, <<>>, {get}, {}, {}, <<>>)
        /\ Untouched(c) /\ open[topic[c]] = {} /\ backlog[topic[c]] = <<Current(c)>>
     \/ /\ At(c, <<>>, {}, {}, {}, <<>>)
        /\ open[topic[c]] = {Current(c)} /\ served[topic[c]][Current(c)] = <<>>
        /\ backlog[topic[c]] = <<Current(c)>>
     \/ /\ At(c, <<>>, {}, {}, {}, <<Reply("data", Current(c))>>)
        /\ backlog[topic[c]] = <<>>

Asking(c) ==
  \/ At(c, <<Packet("trigger", c, NoTopic)>>, {}, {}, {}, <<>>)
  \/ At(c, <<>>, {}, {}, {Current(c)}, <<>>)
  \/ At(c, <<>>, {}, {}, {}, <<Reply("answer", Current(c))>>)

Stage(c) ==
  /\ step[c] \in {"start", "put", "trigger", "register"} => Idle(c)
  /\ step[c] = "ack" => Storing(c)
  /\ step[c] = "reply" => Loading(c)
  /\ step[c] = "answer" => Asking(c)

\* Only client.cpp uses topics, and no two of them use the same at a time.
Apart ==
  /\ \A c \in Clients : /\ step[c] \in {"put", "ack", "reply"} => c \in Loops
                        /\ step[c] \in {"trigger", "answer"} => c \in Callers
  /\ \A c \in Clients : topic[c] # NoTopic => c \in Loops
  /\ \A c, d \in Clients : c # d /\ topic[c] = topic[d] => topic[c] = NoTopic

\* What is under way in the name of a client, also of one that was killed, is about the
\* topic it uses; a slot of a topic in use belongs to the client that uses it.
Past(r) == r[2] <= round[r[1]]
OwnPacket(c, p) ==
  /\ p.req[1] = c /\ Past(p.req)
  /\ p.kind \in {"put", "get"} => p.topic = topic[c]
OwnPackets ==
  /\ \A c \in Clients : \A i \in 1..Len(inbound[c]) : OwnPacket(c, inbound[c][i])
  /\ \A p \in posted \cup pushed : OwnPacket(p.req[1], p) /\ p.kind \in {"put", "get"}
OwnTopics ==
  \A t \in Topics :
    /\ \A i \in 1..Len(backlog[t]) : topic[backlog[t][i][1]] = t
    /\ \A s \in open[t] : Past(s) /\ \A c \in Clients : topic[c] = t => s[1] = c
    /\ \A s \in Requests : served[t][s] # <<>> => Past(s)

\* The strengthening of InStep.
Order == Apart /\ OwnPackets /\ OwnTopics /\ \A c \in Clients : Stage(c)

LEMMA OneElement ==
  ASSUME NEW x
  PROVE  /\ Head(<<x>>) = x /\ Tail(<<x>>) = <<>> /\ <<x>> # <<>>
         /\ Append(<<>>, x) = <<x>> /\ Len(<<x>>) = 1
         /\ Len(<<>>) = 0
  OBVIOUS

\* What a client's stage depends on.
Undisturbed(c) ==
  /\ step'[c] = step[c] /\ round'[c] = round[c] /\ topic'[c] = topic[c]
  /\ inbound'[c] = inbound[c] /\ outbound'[c] = outbound[c]
  /\ {p \in posted' : p.req[1] = c} = {p \in posted : p.req[1] = c}
  /\ {p \in pushed' : p.req[1] = c} = {p \in pushed : p.req[1] = c}
  /\ {r \in asked' : r[1] = c} = {r \in asked : r[1] = c}
  /\ topic[c] \in Topics => backlog'[topic[c]] = backlog[topic[c]] /\ open'[topic[c]] = open[topic[c]]
  /\ \A t \in Topics : /\ Current(c) \in open'[t] => Current(c) \in open[t]
                       /\ served'[t][Current(c)] = served[t][Current(c)]

LEMMA Frame ==
  ASSUME NEW c \in Clients, Undisturbed(c), Stage(c)
  PROVE  Stage(c)'
<1>1. Current(c)' = Current(c)
  BY DEF Undisturbed, Current
<1>2. Untouched(c) => Untouched(c)'
  BY <1>1 DEF Undisturbed, Untouched
<1>3. ASSUME NEW sent, NEW toRun, NEW toAck, NEW toAnswer, NEW replies,
             At(c, sent, toRun, toAck, toAnswer, replies)
      PROVE  /\ inbound'[c] = sent /\ outbound'[c] = replies
             /\ {p \in posted' : p.req[1] = c} = toRun
             /\ {p \in pushed' : p.req[1] = c} = toAck
             /\ {r \in asked' : r[1] = c} = toAnswer
  BY <1>3 DEF Undisturbed, At
<1>4. Idle(c) => Idle(c)'
  BY <1>2, <1>3 DEF Idle, At, Undisturbed
<1>5. Storing(c) => Storing(c)'
  BY <1>1, <1>2, <1>3 DEF Storing, At, Undisturbed, Packet
<1>6. Loading(c) => Loading(c)'
  BY <1>1, <1>2, <1>3 DEF Loading, At, Undisturbed, Packet
<1>7. Asking(c) => Asking(c)'
  BY <1>1, <1>3 DEF Asking, At, Undisturbed, Packet
<1>8. QED
  BY <1>4, <1>5, <1>6, <1>7 DEF Stage, Undisturbed

\* A step in the name of one client leaves the others where they are.
LEMMA OthersKeep ==
  ASSUME Order, NEW c \in Clients, Stage(c)', \A d \in Clients \ {c} : Undisturbed(d)
  PROVE  \A d \in Clients : Stage(d)'
  BY Frame DEF Order

\* What a client sends next is its own.
LEMMA SentOwn ==
  ASSUME TypeOK, Order, NEW c \in Clients, NEW p,
         inbound' = [inbound EXCEPT ![c] = <<p>>], p.req = <<c, round[c]>>,
         p.kind \in {"put", "get"} => p.topic = topic'[c],
         \A d \in Clients \ {c} : topic'[d] = topic[d],
         topic'[c] = topic[c] \/ ~ \E q \in posted \cup pushed : q.req[1] = c,
         UNCHANGED <<round, posted, pushed>>
  PROVE  OwnPackets'
<1>1. \A i \in 1..Len(inbound'[c]) : OwnPacket(c, inbound[c][i])'
  <2>1. inbound'[c] = <<p>> /\ Len(<<p>>) = 1 /\ <<p>>[1] = p
    BY DEF TypeOK
  <2>2. \A i \in 1..Len(inbound'[c]) : inbound'[c][i] = p
    BY <2>1
  <2>3. round[c] \in Nat
    BY DEF TypeOK
  <2>4. QED
    BY <2>2, <2>3 DEF OwnPacket, Past
<1>2. \A d \in Clients \ {c} : \A i \in 1..Len(inbound'[d]) : OwnPacket(d, inbound[d][i])'
  BY DEF Order, OwnPackets, OwnPacket, Past, TypeOK
<1>3. \A q \in posted' \cup pushed' : OwnPacket(q.req[1], q)' /\ q.kind \in {"put", "get"}
  <2>1. \A q \in posted \cup pushed : q.req[1] \in Clients
    BY DEF TypeOK, Packets, Requests
  <2>2. QED
    BY <2>1 DEF Order, OwnPackets, OwnPacket, Past
<1>4. QED
  BY <1>1, <1>2, <1>3 DEF OwnPackets

\* What the programs do.
LEMMA ConnectOrder ==
  ASSUME TypeOK, Order, NEW c \in Clients, Connect(c)
  PROVE  Order'
<1> USE DEF programs, listener, links, handlers, topics, launcher
<1>1. \A d \in Clients \ {c} : Undisturbed(d)
  BY DEF Undisturbed, Connect, TypeOK
<1>2. step'[c] \in {"put", "trigger", "register"}
  BY DEF Connect, TypeOK, Clients
<1>3. Idle(c)'
  <2>1. Idle(c)
    BY DEF Order, Stage, Connect
  <2>2. QED
    BY <2>1 DEF Idle, At, Untouched, Current, Connect
<1>4. Stage(c)'
  BY <1>2, <1>3 DEF Stage
<1>5. Apart'
  <2>1. /\ step'[c] = "put" => c \in Loops
        /\ step'[c] = "trigger" => c \in Callers
    BY DEF Connect, TypeOK, Clients
  <2>2. QED
    BY <1>2, <2>1 DEF Order, Apart, Connect, TypeOK
<1>6. OwnPackets' /\ OwnTopics'
  BY DEF Order, OwnPackets, OwnPacket, OwnTopics, Past, Connect
<1>7. QED
  BY <1>1, <1>4, <1>5, <1>6, OthersKeep DEF Order

LEMMA SendPutOrder ==
  ASSUME TypeOK, Order, NEW c \in Clients, SendPut(c)
  PROVE  Order'
<1> USE DEF programs, listener, links, handlers, topics, launcher
<1>1. PICK t \in Topics : /\ Unused(c, t)
                         /\ topic' = [topic EXCEPT ![c] = t]
                         /\ Send(c, Packet("put", c, t))
  BY DEF SendPut, Draw
<1>2. Idle(c) /\ c \in Loops
  BY DEF Order, Stage, Apart, SendPut
<1>3. /\ inbound' = [inbound EXCEPT ![c] = <<Packet("put", c, t)>>]
      /\ topic'[c] = t /\ \A d \in Clients \ {c} : topic'[d] = topic[d]
  BY <1>1, <1>2, OneElement DEF Send, Idle, At, TypeOK
<1>4. \A d \in Clients \ {c} : Undisturbed(d)
  BY <1>3 DEF Undisturbed, SendPut, TypeOK
<1>5. Storing(c)'
  <2>1. Untouched(c)'
    BY <1>2 DEF Untouched, Idle, Current, SendPut
  <2>2. Packet("put", c, topic[c])' = Packet("put", c, t)
    BY <1>3 DEF Packet, Current, SendPut
  <2>3. backlog'[t] = <<>> /\ open'[t] = {}
    BY <1>1 DEF Unused, SendPut
  <2>4. QED
    BY <1>2, <1>3, <2>1, <2>2, <2>3 DEF Storing, At, Idle, SendPut, TypeOK
<1>6. Stage(c)'
  BY <1>5 DEF Stage, SendPut, TypeOK
<1>7. Apart'
  BY <1>1, <1>2, <1>3 DEF Order, Apart, SendPut, TypeOK, Unused
<1>8. OwnPackets'
  <2>1. ~ \E p \in posted \cup pushed : p.req[1] = c
    BY <1>2 DEF Idle, At
  <2>2. /\ Packet("put", c, t).req = Current(c) /\ Packet("put", c, t).topic = t
        /\ Packet("put", c, t).kind = "put"
    BY DEF Packet
  <2>3. QED
    BY <1>3, <2>1, <2>2, SentOwn DEF SendPut, Current, TypeOK
<1>9. OwnTopics'
  <2>1. ASSUME NEW u \in Topics, NEW i \in 1..Len(backlog[u])
        PROVE  topic'[backlog[u][i][1]] = u
    <3>1. backlog[u] \in Seq(Requests) /\ backlog[u][i] \in Requests /\ backlog[u] # <<>>
      BY OneElement DEF TypeOK
    <3>2. backlog[u][i][1] \in Clients /\ topic[backlog[u][i][1]] = u
      BY <3>1 DEF Order, OwnTopics, Requests
    <3>3. backlog[u][i][1] # c
      BY <1>2, <3>1, <3>2 DEF Idle
    <3>4. QED
      BY <1>3, <3>2, <3>3
  <2>2. ASSUME NEW u \in Topics, NEW s \in open[u], NEW d \in Clients, topic'[d] = u
        PROVE  s[1] = d
    BY <1>1, <1>3, <2>2 DEF Order, OwnTopics, Unused
  <2>3. QED
    BY <2>1, <2>2 DEF Order, OwnTopics, Past, SendPut
<1>10. QED
  BY <1>4, <1>6, <1>7, <1>8, <1>9, OthersKeep DEF Order

LEMMA ReadAckOrder ==
  ASSUME TypeOK, Order, NEW c \in Clients, ReadAck(c)
  PROVE  Order' /\ misled' = misled
<1> USE DEF programs, listener, links, handlers, topics, launcher
<1> DEFINE ack == Reply("ack", Current(c))
           get == Packet("get", c, topic[c])
<1>1. Storing(c) /\ outbound[c] # <<>>
  BY DEF Order, Stage, ReadAck, Receive
<1>2. At(c, <<>>, {}, {}, {}, <<ack>>) /\ backlog[topic[c]] = <<Current(c)>>
  BY <1>1 DEF Storing, At
<1>3. /\ outbound' = [outbound EXCEPT ![c] = <<>>] /\ misled' = misled
      /\ inbound' = [inbound EXCEPT ![c] = <<get>>]
  BY <1>2, OneElement DEF ReadAck, Receive, Send, At, TypeOK
<1>4. \A d \in Clients \ {c} : Undisturbed(d)
  BY <1>3 DEF Undisturbed, ReadAck, TypeOK
<1>5. Loading(c)'
  <2>1. Untouched(c)'
    BY <1>1 DEF Storing, Untouched, Current, ReadAck
  <2>2. Packet("get", c, topic[c])' = get /\ Current(c)' = Current(c)
    BY DEF Packet, Current, ReadAck
  <2>3. inbound'[c] = <<get>> /\ outbound'[c] = <<>>
    BY <1>3 DEF TypeOK
  <2>4. QED
    BY <1>1, <1>2, <2>1, <2>2, <2>3 DEF Loading, Storing, At, ReadAck
<1>6. Stage(c)'
  BY <1>5 DEF Stage, ReadAck, TypeOK
<1>7. Apart'
  BY DEF Order, Apart, ReadAck, TypeOK
<1>8. OwnPackets'
  <2>1. get.req = <<c, round[c]>> /\ get.topic = topic[c]
    BY DEF Packet, Current
  <2>2. QED
    BY <1>3, <2>1, SentOwn DEF ReadAck
<1>9. OwnTopics'
  BY DEF Order, OwnTopics, Past, ReadAck
<1>10. QED
  BY <1>3, <1>4, <1>6, <1>7, <1>8, <1>9, OthersKeep DEF Order

\* The next round begins with a request nobody knows of.
LEMMA NextRoundOrder ==
  ASSUME TypeOK, Order, NEW c \in Clients, NEW first \in {"put", "trigger"}, NextRound(c, first),
         first = "put" => c \in Loops, first = "trigger" => c \in Callers,
         topic[c] \in Topics => backlog[topic[c]] = <<>>,
         \E replies : /\ At(c, <<>>, {}, {}, {}, <<replies>>)
                      /\ outbound' = [outbound EXCEPT ![c] = <<>>],
         UNCHANGED <<topic, listener, reading, inbound, handlers, topics, launcher>>
  PROVE  Order'
<1> USE DEF programs, listener, links, handlers, topics, launcher
<1>1. /\ inbound[c] = <<>> /\ outbound'[c] = <<>>
      /\ {p \in posted : p.req[1] = c} = {} /\ {p \in pushed : p.req[1] = c} = {}
      /\ {r \in asked : r[1] = c} = {}
  BY DEF At, TypeOK
<1>2. \A d \in Clients \ {c} : Undisturbed(d)
  BY DEF Undisturbed, NextRound, TypeOK
<1>3. /\ round'[c] \in Nat /\ round[c] \in Nat
      /\ step'[c] # "over" => step'[c] = first /\ round'[c] = round[c] + 1
      /\ round'[c] >= round[c]
      /\ \A d \in Clients \ {c} : round'[d] = round[d] /\ step'[d] = step[d]
  BY DEF NextRound, TypeOK
<1>4. ASSUME step'[c] # "over" PROVE Idle(c)'
  <2>1. Current(c)' = <<c, round[c] + 1>>
    BY <1>3, <1>4 DEF Current
  <2>2. ASSUME NEW t \in Topics
        PROVE  <<c, round[c] + 1>> \notin open[t] /\ served[t][<<c, round[c] + 1>>] = <<>>
    <3>1. ~Past(<<c, round[c] + 1>>)
      BY <1>3 DEF Past
    <3>2. <<c, round[c] + 1>> \in Requests
      BY <1>3, <1>4, BoundsAssumption DEF Requests, NextRound, LastRound, TypeOK
    <3>3. QED
      BY <3>1, <3>2 DEF Order, OwnTopics
  <2>3. QED
    BY <1>1, <2>1, <2>2 DEF Idle, At, Untouched
<1>5. Stage(c)'
  <2>1. step'[c] \in {"over", first}
    BY DEF NextRound, TypeOK
  <2>2. QED
    BY <1>4, <2>1 DEF Stage
<1>6. Apart'
  BY <1>3 DEF Order, Apart, NextRound, TypeOK
<1>7. OwnPackets'
  <2>1. \A r \in Requests : Past(r) => Past(r)'
    <3>1. \A d \in Clients : round[d] \in Nat /\ round'[d] \in Nat /\ round[d] <= round'[d]
      <4>1. \A d \in Clients : round[d] \in Nat
        BY DEF TypeOK
      <4>2. QED
        BY <1>3, <4>1
    <3>2. \A r \in Requests : r[1] \in Clients /\ r[2] \in Nat
      BY DEF Requests
    <3>3. QED
      BY <3>1, <3>2 DEF Past
  <2>2. ASSUME NEW d \in Clients, NEW i \in 1..Len(inbound[d]) PROVE OwnPacket(d, inbound[d][i])'
    <3>1. inbound[d][i] \in Packets /\ inbound[d][i].req \in Requests
      <4>1. inbound[d] \in Seq(Packets)
        BY DEF TypeOK
      <4>2. inbound[d][i] \in Packets
        BY <4>1
      <4>3. QED
        BY <4>2 DEF Packets
    <3>2. QED
      BY <2>1, <3>1 DEF Order, OwnPackets, OwnPacket
  <2>3. ASSUME NEW p \in posted \cup pushed PROVE OwnPacket(p.req[1], p)'
    <3>1. p.req \in Requests
      BY DEF TypeOK, Packets
    <3>2. QED
      BY <2>1, <3>1 DEF Order, OwnPackets, OwnPacket
  <2>4. QED
    BY <2>2, <2>3 DEF OwnPackets, Order
<1>8. OwnTopics'
  <2>1. \A r \in Requests : Past(r) => Past(r)'
    <3>1. \A d \in Clients : round[d] \in Nat /\ round'[d] \in Nat /\ round[d] <= round'[d]
      <4>1. \A d \in Clients : round[d] \in Nat
        BY DEF TypeOK
      <4>2. QED
        BY <1>3, <4>1
    <3>2. \A r \in Requests : r[1] \in Clients /\ r[2] \in Nat
      BY DEF Requests
    <3>3. QED
      BY <3>1, <3>2 DEF Past
  <2>2. QED
    BY <2>1 DEF Order, OwnTopics, TypeOK
<1>9. QED
  BY <1>2, <1>5, <1>6, <1>7, <1>8, OthersKeep DEF Order

LEMMA ReadReplyOrder ==
  ASSUME TypeOK, Order, NEW c \in Clients, ReadReply(c)
  PROVE  Order' /\ misled' = misled
<1> USE DEF programs, listener, links, handlers, topics, launcher
<1> DEFINE data == Reply("data", Current(c))
<1>1. Loading(c) /\ outbound[c] # <<>> /\ c \in Loops
  BY DEF Order, Stage, Apart, ReadReply, Receive
<1>2. At(c, <<>>, {}, {}, {}, <<data>>) /\ backlog[topic[c]] = <<>>
  BY <1>1 DEF Loading, At
<1>3. outbound' = [outbound EXCEPT ![c] = <<>>] /\ misled' = misled
  BY <1>2, OneElement DEF ReadReply, Receive, At
<1>4. QED
  BY <1>1, <1>2, <1>3, NextRoundOrder DEF ReadReply

LEMMA SendTriggerOrder ==
  ASSUME TypeOK, Order, NEW c \in Clients, SendTrigger(c)
  PROVE  Order'
<1> USE DEF programs, listener, links, handlers, topics, launcher
<1> DEFINE trigger == Packet("trigger", c, NoTopic)
<1>1. Idle(c)
  BY DEF Order, Stage, SendTrigger
<1>2. inbound' = [inbound EXCEPT ![c] = <<trigger>>]
  BY <1>1, OneElement DEF SendTrigger, Send, Idle, At
<1>3. \A d \in Clients \ {c} : Undisturbed(d)
  BY <1>2 DEF Undisturbed, SendTrigger, TypeOK
<1>4. Stage(c)'
  <2>1. trigger' = trigger /\ inbound'[c] = <<trigger>> /\ step'[c] = "answer"
    BY <1>2 DEF Packet, Current, SendTrigger, TypeOK
  <2>2. Asking(c)'
    BY <1>1, <2>1 DEF Asking, At, Idle, SendTrigger
  <2>3. QED
    BY <2>1, <2>2 DEF Stage
<1>5. Apart'
  BY DEF Order, Apart, SendTrigger, TypeOK
<1>6. OwnPackets'
  <2>1. trigger.req = <<c, round[c]>> /\ trigger.kind = "trigger"
    BY DEF Packet, Current
  <2>2. QED
    BY <1>2, <2>1, SentOwn DEF SendTrigger
<1>7. OwnTopics'
  BY DEF Order, OwnTopics, Past, SendTrigger
<1>8. QED
  BY <1>3, <1>4, <1>5, <1>6, <1>7, OthersKeep DEF Order

LEMMA ReadAnswerOrder ==
  ASSUME TypeOK, Order, NEW c \in Clients, ReadAnswer(c)
  PROVE  Order' /\ misled' = misled
<1> USE DEF programs, listener, links, handlers, topics, launcher
<1> DEFINE answer == Reply("answer", Current(c))
<1>1. Asking(c) /\ outbound[c] # <<>> /\ c \in Callers
  BY DEF Order, Stage, Apart, ReadAnswer, Receive
<1>2. At(c, <<>>, {}, {}, {}, <<answer>>)
  BY <1>1 DEF Asking, At
<1>3. outbound' = [outbound EXCEPT ![c] = <<>>] /\ misled' = misled
  BY <1>2, OneElement DEF ReadAnswer, Receive, At
<1>4. topic[c] = NoTopic /\ NoTopic \notin Topics
  BY <1>1, SortsAssumption DEF Order, Apart
<1>5. QED
  BY <1>1, <1>2, <1>3, <1>4, NextRoundOrder DEF ReadAnswer

LEMMA RegisterOrder ==
  ASSUME TypeOK, Order, NEW c \in Clients, Register(c)
  PROVE  Order'
<1> USE DEF programs, listener, links, handlers, topics, launcher
<1> DEFINE packet == Packet("worker_reg", c, NoTopic)
<1>1. Idle(c)
  BY DEF Order, Stage, Register
<1>2. inbound' = [inbound EXCEPT ![c] = <<packet>>]
  BY <1>1, OneElement DEF Register, Send, Idle, At
<1>3. \A d \in Clients \ {c} : Undisturbed(d)
  BY <1>2 DEF Undisturbed, Register, TypeOK
<1>4. Stage(c)'
  BY DEF Stage, Register, TypeOK
<1>5. Apart'
  BY DEF Order, Apart, Register, TypeOK
<1>6. OwnPackets'
  <2>1. packet.req = <<c, round[c]>> /\ packet.kind = "worker_reg"
    BY DEF Packet, Current
  <2>2. QED
    BY <1>2, <2>1, SentOwn DEF Register
<1>7. OwnTopics'
  BY DEF Order, OwnTopics, Past, Register
<1>8. QED
  BY <1>3, <1>4, <1>5, <1>6, <1>7, OthersKeep DEF Order

LEMMA KillOrder ==
  ASSUME TypeOK, Order, NEW c \in Clients, Kill(c)
  PROVE  Order'
<1> USE DEF programs, listener, links, handlers, topics, launcher
<1>1. PICK rest \in {<<>>, inbound[c]} : inbound' = [inbound EXCEPT ![c] = rest]
  BY DEF Kill
<1>2. \A d \in Clients \ {c} : Undisturbed(d)
  BY <1>1 DEF Undisturbed, Kill, TypeOK
<1>3. Stage(c)'
  BY DEF Stage, Kill, TypeOK
<1>4. Apart'
  BY DEF Order, Apart, Kill, TypeOK
<1>5. OwnPackets'
  <2>1. inbound'[c] = rest /\ (rest = <<>> \/ rest = inbound[c])
    BY <1>1 DEF TypeOK
  <2>2. \A i \in 1..Len(inbound'[c]) : OwnPacket(c, inbound[c][i])'
    BY <2>1, OneElement DEF Order, OwnPackets, OwnPacket, Past, Kill
  <2>3. \A d \in Clients \ {c} : \A i \in 1..Len(inbound'[d]) : OwnPacket(d, inbound[d][i])'
    BY <1>1 DEF Order, OwnPackets, OwnPacket, Past, Kill, TypeOK
  <2>4. \A p \in posted' \cup pushed' : OwnPacket(p.req[1], p)' /\ p.kind \in {"put", "get"}
    BY DEF Order, OwnPackets, OwnPacket, Past, Kill
  <2>5. QED
    BY <2>2, <2>3, <2>4 DEF OwnPackets
<1>6. OwnTopics'
  BY DEF Order, OwnTopics, Past, Kill
<1>7. QED
  BY <1>2, <1>3, <1>4, <1>5, <1>6, OthersKeep DEF Order

\* What a client that waits has sent.
LEMMA HeadKind ==
  ASSUME Order, NEW c \in Clients, inbound[c] # <<>>
  PROVE  /\ step[c] \notin {"start", "put", "trigger", "register"}
         /\ step[c] = "ack" => Head(inbound[c]).kind = "put"
         /\ step[c] = "reply" => Head(inbound[c]).kind = "get"
         /\ step[c] = "answer" => Head(inbound[c]).kind = "trigger"
<1>1. Stage(c)
  BY DEF Order
<1>2. step[c] \notin {"start", "put", "trigger", "register"}
  BY <1>1 DEF Stage, Idle, At
<1>3. ASSUME step[c] = "ack" PROVE Head(inbound[c]).kind = "put"
  <2>1. inbound[c] = <<Packet("put", c, topic[c])>>
    BY <1>1, <1>3 DEF Stage, Storing, At
  <2>2. QED
    BY <2>1, OneElement DEF Packet
<1>4. ASSUME step[c] = "reply" PROVE Head(inbound[c]).kind = "get"
  <2>1. inbound[c] = <<Packet("get", c, topic[c])>>
    BY <1>1, <1>4 DEF Stage, Loading, At
  <2>2. QED
    BY <2>1, OneElement DEF Packet
<1>5. ASSUME step[c] = "answer" PROVE Head(inbound[c]).kind = "trigger"
  <2>1. inbound[c] = <<Packet("trigger", c, NoTopic)>>
    BY <1>1, <1>5 DEF Stage, Asking, At
  <2>2. QED
    BY <2>1, OneElement DEF Packet
<1>6. QED
  BY <1>2, <1>3, <1>4, <1>5

\* What the server does to what the clients sent.
LEMMA ReadOwn ==
  ASSUME TypeOK, Order, NEW c \in Clients, NEW kinds, Reads(c, kinds)
  PROVE  /\ OwnPacket(c, Head(inbound[c])) /\ Head(inbound[c]) \in Packets
         /\ \A d \in Clients \ {c} : inbound'[d] = inbound[d]
         /\ inbound'[c] = Tail(inbound[c])
         /\ \A d \in Clients : \A i \in 1..Len(inbound'[d]) : OwnPacket(d, inbound'[d][i])
<1>1. /\ inbound[c] \in Seq(Packets) /\ inbound[c] # <<>>
      /\ inbound'[c] = Tail(inbound[c])
      /\ \A d \in Clients \ {c} : inbound'[d] = inbound[d]
  BY DEF TypeOK, Reads
<1>2. /\ Len(inbound[c]) \in Nat /\ Len(inbound[c]) >= 1 /\ Head(inbound[c]) = inbound[c][1]
      /\ Head(inbound[c]) \in Packets
      /\ Len(Tail(inbound[c])) = Len(inbound[c]) - 1
      /\ \A i \in 1..Len(Tail(inbound[c])) : Tail(inbound[c])[i] = inbound[c][i + 1]
  BY <1>1
<1>3. \A i \in 1..Len(inbound[c]) : OwnPacket(c, inbound[c][i])
  BY DEF Order, OwnPackets
<1>4. OwnPacket(c, Head(inbound[c]))
  BY <1>2, <1>3
<1>5. \A i \in 1..Len(inbound'[c]) : OwnPacket(c, inbound'[c][i])
  BY <1>1, <1>2, <1>3
<1>6. \A d \in Clients \ {c} : \A i \in 1..Len(inbound'[d]) : OwnPacket(d, inbound'[d][i])
  BY <1>1 DEF Order, OwnPackets
<1>7. QED
  BY <1>1, <1>2, <1>4, <1>5, <1>6

LEMMA ReadStoreOrder ==
  ASSUME TypeOK, Order, NEW c \in Clients, ReadStore(c)
  PROVE  Order'
<1> USE DEF programs, listener, links, handlers, topics, launcher
<1> DEFINE p == Head(inbound[c])
<1>1. /\ OwnPacket(c, p) /\ p \in Packets
      /\ \A d \in Clients \ {c} : inbound'[d] = inbound[d]
      /\ inbound'[c] = Tail(inbound[c])
      /\ \A d \in Clients : \A i \in 1..Len(inbound'[d]) : OwnPacket(d, inbound'[d][i])
  BY ReadOwn DEF ReadStore
<1>2. p.kind \in {"put", "get"} /\ inbound[c] # <<>> /\ p.req[1] = c
  BY <1>1 DEF ReadStore, Reads, OwnPacket
<1>3. \A d \in Clients \ {c} : Undisturbed(d)
  BY <1>1, <1>2 DEF Undisturbed, ReadStore
<1>4. Stage(c)'
  <2>1. step[c] \notin {"start", "put", "trigger", "register"}
    BY <1>2, HeadKind
  <2>2. step[c] # "answer"
    BY <1>2, HeadKind
  <2>3. ASSUME step[c] = "ack" PROVE Storing(c)'
    <3> DEFINE put == Packet("put", c, topic[c])
    <3>1. At(c, <<put>>, {}, {}, {}, <<>>) /\ backlog[topic[c]] = <<>> /\ topic[c] \in Topics
          /\ Untouched(c) /\ open[topic[c]] = {}
      BY <1>2, <2>3 DEF Order, Stage, Storing, At
    <3>2. p = put /\ inbound'[c] = <<>>
      BY <1>1, <3>1, OneElement DEF At
    <3>3. {q \in posted' : q.req[1] = c} = {put}
      BY <1>2, <3>1, <3>2 DEF At, ReadStore
    <3>4. put' = put /\ Untouched(c)'
      BY <3>1 DEF Packet, Current, Untouched, ReadStore
    <3>5. QED
      BY <3>1, <3>2, <3>3, <3>4 DEF Storing, At, ReadStore
  <2>4. ASSUME step[c] = "reply" PROVE Loading(c)'
    <3> DEFINE get == Packet("get", c, topic[c])
    <3>1. At(c, <<get>>, {}, {}, {}, <<>>) /\ backlog[topic[c]] = <<Current(c)>>
          /\ topic[c] \in Topics /\ Untouched(c) /\ open[topic[c]] = {}
      BY <1>2, <2>4 DEF Order, Stage, Loading, At
    <3>2. p = get /\ inbound'[c] = <<>>
      BY <1>1, <3>1, OneElement DEF At
    <3>3. {q \in posted' : q.req[1] = c} = {get}
      BY <1>2, <3>1, <3>2 DEF At, ReadStore
    <3>4. get' = get /\ Untouched(c)' /\ Current(c)' = Current(c)
      BY <3>1 DEF Packet, Current, Untouched, ReadStore
    <3>5. QED
      BY <3>1, <3>2, <3>3, <3>4 DEF Loading, At, ReadStore
  <2>5. QED
    BY <2>1, <2>2, <2>3, <2>4 DEF Stage, ReadStore
<1>5. Apart'
  BY DEF Order, Apart, ReadStore
<1>6. OwnPackets'
  BY <1>1, <1>2 DEF Order, OwnPackets, OwnPacket, Past, ReadStore
<1>7. OwnTopics'
  BY DEF Order, OwnTopics, Past, ReadStore
<1>8. QED
  BY <1>3, <1>4, <1>5, <1>6, <1>7, OthersKeep DEF Order

LEMMA ReadTriggerOrder ==
  ASSUME TypeOK, Order, NEW c \in Clients, ReadTrigger(c)
  PROVE  Order'
<1> USE DEF programs, listener, links, handlers, topics, launcher
<1> DEFINE p == Head(inbound[c])
<1>1. /\ OwnPacket(c, p) /\ p \in Packets
      /\ \A d \in Clients \ {c} : inbound'[d] = inbound[d]
      /\ inbound'[c] = Tail(inbound[c])
      /\ \A d \in Clients : \A i \in 1..Len(inbound'[d]) : OwnPacket(d, inbound'[d][i])
  BY ReadOwn DEF ReadTrigger
<1>2. p.kind = "trigger" /\ inbound[c] # <<>> /\ p.req[1] = c
  BY <1>1 DEF ReadTrigger, Reads, OwnPacket
<1>3. \A d \in Clients \ {c} : Undisturbed(d)
  BY <1>1, <1>2 DEF Undisturbed, ReadTrigger
<1>4. Stage(c)'
  <2>1. step[c] \notin {"start", "put", "trigger", "register"}
    BY <1>2, HeadKind
  <2>2. step[c] \notin {"ack", "reply"}
    BY <1>2, HeadKind
  <2>3. ASSUME step[c] = "answer" PROVE Asking(c)'
    <3>1. At(c, <<Packet("trigger", c, NoTopic)>>, {}, {}, {}, <<>>)
      BY <1>2, <2>3 DEF Order, Stage, Asking, At
    <3>2. p.req = Current(c) /\ inbound'[c] = <<>>
      BY <1>1, <3>1, OneElement DEF At, Packet
    <3>3. {r \in asked' : r[1] = c} = {Current(c)}
      BY <1>2, <3>1, <3>2 DEF At, ReadTrigger
    <3>4. Current(c)' = Current(c)
      BY DEF Current, ReadTrigger
    <3>5. QED
      BY <3>1, <3>2, <3>3, <3>4 DEF Asking, At, ReadTrigger
  <2>4. QED
    BY <2>1, <2>2, <2>3 DEF Stage, ReadTrigger
<1>5. Apart'
  BY DEF Order, Apart, ReadTrigger
<1>6. OwnPackets'
  BY <1>1, <1>2 DEF Order, OwnPackets, OwnPacket, Past, ReadTrigger
<1>7. OwnTopics'
  BY DEF Order, OwnTopics, Past, ReadTrigger
<1>8. QED
  BY <1>3, <1>4, <1>5, <1>6, <1>7, OthersKeep DEF Order

LEMMA ReadRegisterOrder ==
  ASSUME TypeOK, Order, NEW c \in Clients, ReadRegister(c)
  PROVE  Order'
<1> USE DEF programs, listener, links, handlers, topics, launcher
<1> DEFINE p == Head(inbound[c])
<1>1. /\ \A d \in Clients \ {c} : inbound'[d] = inbound[d]
      /\ \A d \in Clients : \A i \in 1..Len(inbound'[d]) : OwnPacket(d, inbound'[d][i])
  BY ReadOwn DEF ReadRegister
<1>2. p.kind = "worker_reg" /\ inbound[c] # <<>>
  BY DEF ReadRegister, Reads
<1>3. \A d \in Clients \ {c} : Undisturbed(d)
  BY <1>1 DEF Undisturbed, ReadRegister
<1>4. Stage(c)'
  <2>1. step[c] \notin {"start", "put", "trigger", "register"}
    BY <1>2, HeadKind
  <2>2. step[c] \notin {"ack", "reply", "answer"}
    BY <1>2, HeadKind
  <2>3. QED
    BY <2>1, <2>2 DEF Stage, ReadRegister
<1>5. Apart'
  BY DEF Order, Apart, ReadRegister
<1>6. OwnPackets'
  BY <1>1 DEF Order, OwnPackets, OwnPacket, Past, ReadRegister
<1>7. OwnTopics'
  BY DEF Order, OwnTopics, Past, ReadRegister
<1>8. QED
  BY <1>3, <1>4, <1>5, <1>6, <1>7, OthersKeep DEF Order

\* Steps that touch neither packets nor topics.
LEMMA QuietOrder ==
  ASSUME Order, UNCHANGED <<programs, links, handlers, topics, asked>>
  PROVE  Order'
<1> USE DEF programs, links, handlers, topics
<1>1. \A d \in Clients : Undisturbed(d)
  BY DEF Undisturbed
<1>2. Apart' /\ OwnPackets' /\ OwnTopics'
  BY DEF Order, Apart, OwnPackets, OwnPacket, OwnTopics, Past
<1>3. QED
  BY <1>1, <1>2, Frame DEF Order

LEMMA StopOrder ==
  ASSUME TypeOK, Order, Stop
  PROVE  Order'
<1>1. \A c \in Clients : step'[c] \in {"over", "failed"}
  BY DEF Stop, Gone, TypeOK
<1>2. \A c \in Clients : Stage(c)'
  BY <1>1 DEF Stage
<1>3. Apart'
  BY <1>1 DEF Order, Apart, Stop
<1>4. OwnPackets'
  BY OneElement DEF OwnPackets, Stop, NoPackets
<1>5. OwnTopics'
  BY OneElement DEF OwnTopics, Stop, NoMessages, NoSlots, NothingServed
<1>6. QED
  BY <1>2, <1>3, <1>4, <1>5 DEF Order

LEMMA StoreOrder ==
  ASSUME TypeOK, Order, NEW p \in posted \cup pushed, Store(p)
  PROVE  Order'
<1> USE DEF programs, listener, links, handlers, topics, launcher
<1> DEFINE c == p.req[1]
<1>1. c \in Clients /\ p.req \in Requests /\ p \in posted /\ p.kind = "put"
  BY DEF TypeOK, Packets, Requests, Store
<1>2. p.topic = topic[c] /\ OwnPacket(c, p)
  BY <1>1 DEF Order, OwnPackets, OwnPacket
<1>3. \A d \in Clients \ {c} : topic[d] \in Topics => topic[d] # p.topic
  BY <1>1, <1>2, SortsAssumption DEF Order, Apart
<1>4. \A d \in Clients \ {c} : Undisturbed(d)
  BY <1>3 DEF Undisturbed, Store, TypeOK
<1>5. Stage(c)'
  <2>1. p \in {q \in posted : q.req[1] = c}
    BY <1>1
  <2>2. step[c] \notin {"start", "put", "trigger", "register", "answer"}
    BY <1>1, <2>1 DEF Order, Stage, Idle, Asking, At
  <2>3. step[c] # "reply"
    <3>1. p.kind # "get"
      BY <1>1
    <3>2. ASSUME Loading(c) PROVE FALSE
      <4>1. {q \in posted : q.req[1] = c} \in {{}, {Packet("get", c, topic[c])}}
        BY <3>2 DEF Loading, At
      <4>2. p = Packet("get", c, topic[c])
        BY <2>1, <4>1
      <4>3. QED
        BY <3>1, <4>2 DEF Packet
    <3>3. QED
      BY <1>1, <3>2 DEF Order, Stage
  <2>4. ASSUME step[c] = "ack" PROVE Storing(c)'
    <3> DEFINE put == Packet("put", c, topic[c])
    <3>1. At(c, <<>>, {put}, {}, {}, <<>>) /\ backlog[topic[c]] = <<>> /\ topic[c] \in Topics
          /\ Untouched(c) /\ open[topic[c]] = {}
      BY <1>1, <2>1, <2>4 DEF Order, Stage, Storing, At
    <3>2. p = put /\ p.req = Current(c)
      BY <2>1, <3>1 DEF At, Packet
    <3>3. backlog'[topic[c]] = <<Current(c)>>
      BY <1>2, <3>1, <3>2, OneElement DEF Store, TypeOK
    <3>4. /\ {q \in posted' : q.req[1] = c} = {} /\ {q \in pushed' : q.req[1] = c} = {put}
      BY <3>1, <3>2 DEF At, Store
    <3>5. put' = put /\ Untouched(c)' /\ Current(c)' = Current(c)
      BY <3>1 DEF Packet, Current, Untouched, Store
    <3>6. QED
      BY <3>1, <3>3, <3>4, <3>5 DEF Storing, At, Store
  <2>5. QED
    BY <2>2, <2>3, <2>4 DEF Stage, Store
<1>6. Apart'
  BY DEF Order, Apart, Store
<1>7. OwnPackets'
  BY DEF Order, OwnPackets, OwnPacket, Past, Store
<1>8. OwnTopics'
  <2>1. ASSUME NEW t \in Topics, NEW i \in 1..Len(backlog'[t])
        PROVE  topic'[backlog'[t][i][1]] = t
    <3>1. CASE t = p.topic
      <4>1. backlog[t] \in Seq(Requests) /\ backlog'[t] = Append(backlog[t], p.req)
        BY <3>1 DEF Store, TypeOK
      <4>2. backlog'[t][i] = p.req \/ (i \in 1..Len(backlog[t]) /\ backlog'[t][i] = backlog[t][i])
        BY <1>1, <4>1
      <4>3. topic' = topic
        BY DEF Store
      <4>4. \A k \in 1..Len(backlog[t]) : topic[backlog[t][k][1]] = t
        BY DEF Order, OwnTopics
      <4>5. CASE backlog'[t][i] = p.req
        BY <1>2, <3>1, <4>3, <4>5
      <4>6. QED
        BY <4>2, <4>3, <4>4, <4>5
    <3>2. CASE t # p.topic
      <4>1. backlog'[t] = backlog[t]
        BY <3>2 DEF Store, TypeOK
      <4>2. QED
        BY <4>1 DEF Order, OwnTopics, Store
    <3>3. QED
      BY <3>1, <3>2
  <2>2. QED
    BY <2>1 DEF Order, OwnTopics, Past, Store
<1>9. QED
  BY <1>1, <1>4, <1>5, <1>6, <1>7, <1>8, OthersKeep DEF Order

LEMMA AcknowledgeOrder ==
  ASSUME TypeOK, Order, NEW p \in posted \cup pushed, Acknowledge(p)
  PROVE  Order'
<1> USE DEF programs, listener, links, handlers, topics, launcher
<1> DEFINE c == p.req[1]
<1>1. c \in Clients /\ p \in pushed
  BY DEF TypeOK, Packets, Requests, Acknowledge
<1>2. outbound' = [outbound EXCEPT ![c] = Append(outbound[c], Reply("ack", p.req))]
  BY DEF Acknowledge, Write
<1>3. \A d \in Clients \ {c} : Undisturbed(d)
  BY <1>2 DEF Undisturbed, Acknowledge, TypeOK
<1>4. Stage(c)'
  <2>1. p \in {q \in pushed : q.req[1] = c}
    BY <1>1
  <2>2. step[c] \notin {"start", "put", "trigger", "register", "reply", "answer"}
    BY <1>1, <2>1 DEF Order, Stage, Idle, Loading, Asking, At
  <2>3. ASSUME step[c] = "ack" PROVE Storing(c)'
    <3> DEFINE put == Packet("put", c, topic[c])
    <3>1. At(c, <<>>, {}, {put}, {}, <<>>) /\ backlog[topic[c]] = <<Current(c)>>
          /\ topic[c] \in Topics /\ Untouched(c) /\ open[topic[c]] = {}
      BY <1>1, <2>1, <2>3 DEF Order, Stage, Storing, At
    <3>2. p = put /\ p.req = Current(c)
      BY <2>1, <3>1 DEF At, Packet
    <3>3. outbound'[c] = <<Reply("ack", Current(c))>>
      BY <1>1, <1>2, <3>1, <3>2, OneElement DEF At, TypeOK
    <3>4. {q \in pushed' : q.req[1] = c} = {}
      BY <3>1, <3>2 DEF At, Acknowledge
    <3>5. Untouched(c)' /\ Current(c)' = Current(c)
      BY <3>1 DEF Current, Untouched, Acknowledge
    <3>6. QED
      BY <3>1, <3>3, <3>4, <3>5 DEF Storing, At, Acknowledge
  <2>4. QED
    BY <2>2, <2>3 DEF Stage, Acknowledge
<1>5. Apart'
  BY DEF Order, Apart, Acknowledge
<1>6. OwnPackets'
  BY DEF Order, OwnPackets, OwnPacket, Past, Acknowledge
<1>7. OwnTopics'
  BY DEF Order, OwnTopics, Past, Acknowledge
<1>8. QED
  BY <1>1, <1>3, <1>4, <1>5, <1>6, <1>7, OthersKeep DEF Order

LEMMA LoadOrder ==
  ASSUME TypeOK, Order, NEW p \in posted \cup pushed, Load(p)
  PROVE  Order'
<1> USE DEF programs, listener, links, handlers, topics, launcher
<1> DEFINE c == p.req[1]
<1>1. c \in Clients /\ p.req \in Requests /\ p \in posted /\ p.kind = "get"
  BY DEF TypeOK, Packets, Requests, Load
<1>2. p.topic = topic[c] /\ OwnPacket(c, p) /\ Past(p.req)
  BY <1>1 DEF Order, OwnPackets, OwnPacket
<1>3. \A d \in Clients \ {c} : topic[d] \in Topics => topic[d] # p.topic
  BY <1>1, <1>2, SortsAssumption DEF Order, Apart
<1>4. \A t \in Topics : open'[t] = IF t = p.topic THEN open[t] \cup {p.req} ELSE open[t]
  BY DEF Load, TypeOK
<1>5. \A d \in Clients \ {c} : Undisturbed(d)
  <2>1. \A d \in Clients \ {c} : Current(d) # p.req
    BY DEF Current
  <2>2. QED
    BY <1>3, <1>4, <2>1 DEF Undisturbed, Load
<1>6. Stage(c)'
  <2>1. p \in {q \in posted : q.req[1] = c}
    BY <1>1
  <2>2. step[c] \notin {"start", "put", "trigger", "register", "answer"}
    BY <1>1, <2>1 DEF Order, Stage, Idle, Asking, At
  <2>3. step[c] # "ack"
    <3>1. ASSUME Storing(c) PROVE FALSE
      <4>1. {q \in posted : q.req[1] = c} \in {{}, {Packet("put", c, topic[c])}}
        BY <3>1 DEF Storing, At
      <4>2. p = Packet("put", c, topic[c])
        BY <2>1, <4>1
      <4>3. QED
        BY <1>1, <4>2 DEF Packet
    <3>2. QED
      BY <1>1, <3>1 DEF Order, Stage
  <2>4. ASSUME step[c] = "reply" PROVE Loading(c)'
    <3> DEFINE get == Packet("get", c, topic[c])
    <3>1. At(c, <<>>, {get}, {}, {}, <<>>) /\ backlog[topic[c]] = <<Current(c)>>
          /\ topic[c] \in Topics /\ Untouched(c) /\ open[topic[c]] = {}
      BY <1>1, <2>1, <2>4 DEF Order, Stage, Loading, At
    <3>2. p = get /\ p.req = Current(c)
      BY <2>1, <3>1 DEF At, Packet
    <3>3. open'[topic[c]] = {Current(c)} /\ served'[topic[c]][Current(c)] = <<>>
      BY <1>2, <1>4, <3>1, <3>2 DEF Load, Untouched
    <3>4. {q \in posted' : q.req[1] = c} = {}
      BY <3>1, <3>2 DEF At, Load
    <3>5. Current(c)' = Current(c)
      BY DEF Current, Load
    <3>6. QED
      BY <3>1, <3>3, <3>4, <3>5 DEF Loading, At, Load
  <2>5. QED
    BY <2>2, <2>3, <2>4 DEF Stage, Load
<1>7. Apart'
  BY DEF Order, Apart, Load
<1>8. OwnPackets'
  BY DEF Order, OwnPackets, OwnPacket, Past, Load
<1>9. OwnTopics'
  <2>1. ASSUME NEW t \in Topics, NEW s \in open'[t]
        PROVE  Past(s) /\ \A d \in Clients : topic[d] = t => s[1] = d
    <3>1. CASE s \in open[t]
      BY <3>1 DEF Order, OwnTopics
    <3>2. CASE s \notin open[t]
      <4>1. t = p.topic /\ s = p.req
        BY <1>4, <2>1, <3>2
      <4>2. QED
        BY <1>2, <1>3, <4>1
    <3>3. QED
      BY <3>1, <3>2
  <2>2. QED
    BY <2>1 DEF Order, OwnTopics, Past, Load
<1>10. QED
  BY <1>1, <1>5, <1>6, <1>7, <1>8, <1>9, OthersKeep DEF Order

\* Nobody or one is written to.
LEMMA Copies ==
  ASSUME NEW S, NEW r \in S
  PROVE  [i \in 1..0 |-> r] = <<>> /\ [i \in 1..1 |-> r] = <<r>>
<1>1. [i \in 1..0 |-> r] = <<>>
  <2>1. [i \in 1..0 |-> r] \in Seq(S) /\ Len([i \in 1..0 |-> r]) = 0
    OBVIOUS
  <2>2. QED
    BY <2>1
<1>2. [i \in 1..1 |-> r] = <<r>>
  <2>1. /\ [i \in 1..1 |-> r] \in Seq(S) /\ Len([i \in 1..1 |-> r]) = 1
        /\ [i \in 1..1 |-> r][1] = r
    OBVIOUS
  <2>2. QED
    BY <2>1
<1>3. QED
  BY <1>1, <1>2

\* The slots that are served belong to the client whose message it is.
LEMMA HandOutOwner ==
  ASSUME TypeOK, Order, NEW t \in Topics, HandOut(t)
  PROVE  \E c \in Clients : /\ topic[c] = t /\ \A s \in open[t] : s[1] = c
                            /\ \A d \in Clients \ {c} : outbound'[d] = outbound[d]
<1>1. backlog[t] \in Seq(Requests) /\ backlog[t] # <<>>
  BY DEF HandOut, TypeOK
<1>2. 1 \in 1..Len(backlog[t]) /\ backlog[t][1] \in Requests
  BY <1>1
<1>3. backlog[t][1][1] \in Clients /\ topic[backlog[t][1][1]] = t
  BY <1>2 DEF Order, OwnTopics, Requests
<1> DEFINE c == backlog[t][1][1]
<1>4. \A s \in open[t] : s[1] = c
  BY <1>3 DEF Order, OwnTopics
<1>5. ASSUME NEW d \in Clients \ {c} PROVE outbound'[d] = outbound[d]
  <2> DEFINE r == Reply("data", Head(backlog[t]))
  <2>1. {s \in open[t] : s[1] = d} = {}
    BY <1>4
  <2>2. Cardinality({s \in open[t] : s[1] = d}) = 0
    BY <2>1, FS_EmptySet
  <2>3. [i \in 1..Cardinality({s \in open[t] : s[1] = d}) |-> r] = <<>>
    BY <2>2, Copies
  <2>4. outbound[d] \in Seq(Replies)
    BY DEF TypeOK
  <2>5. outbound'[d] = outbound[d] \o <<>>
    BY <2>3 DEF HandOut
  <2>6. QED
    BY <2>4, <2>5
<1>6. QED
  BY <1>3, <1>4, <1>5

LEMMA HandOutOrder ==
  ASSUME TypeOK, Order, NEW t \in Topics, HandOut(t)
  PROVE  Order'
<1> USE DEF programs, listener, links, handlers, topics, launcher
<1>1. PICK c \in Clients : /\ topic[c] = t /\ \A s \in open[t] : s[1] = c
                           /\ \A d \in Clients \ {c} : outbound'[d] = outbound[d]
  BY HandOutOwner
<1>2. \A u \in Topics : u # t => backlog'[u] = backlog[u] /\ served'[u] = served[u]
  BY DEF HandOut, TypeOK
<1>3. /\ served'[t] = [s \in Requests |-> IF s \in open[t] THEN Append(served[t][s], Head(backlog[t]))
                                                       ELSE served[t][s]]
      /\ backlog'[t] = Tail(backlog[t])
  BY DEF HandOut, TypeOK
<1>4. \A d \in Clients : Current(d) \in Requests
  BY DEF Current, Requests, TypeOK
<1>5. \A d \in Clients \ {c} : Undisturbed(d)
  <2>1. \A d \in Clients \ {c} : topic[d] # t
    BY <1>1, SortsAssumption DEF Order, Apart
  <2>2. \A d \in Clients \ {c} : Current(d) \notin open[t]
    BY <1>1 DEF Current
  <2>3. \A d \in Clients \ {c} : \A u \in Topics : served'[u][Current(d)] = served[u][Current(d)]
    BY <1>2, <1>3, <1>4, <2>2
  <2>4. QED
    BY <1>1, <1>2, <2>1, <2>3 DEF Undisturbed, HandOut
<1>6. backlog[t] # <<>> /\ open[t] # {}
  BY DEF HandOut
<1>7. Stage(c)'
  <2>1. step[c] \notin {"start", "put", "trigger", "register", "ack"}
    BY <1>1, <1>6 DEF Order, Stage, Idle, Storing
  <2>2. step[c] # "answer"
    BY <1>1, SortsAssumption DEF Order, Apart
  <2>3. ASSUME step[c] = "reply" PROVE Loading(c)'
    <3>1. /\ At(c, <<>>, {}, {}, {}, <<>>) /\ open[t] = {Current(c)}
          /\ backlog[t] = <<Current(c)>>
      BY <1>1, <1>6, <2>3 DEF Order, Stage, Loading
    <3>2. Head(backlog[t]) = Current(c) /\ backlog'[t] = <<>>
      BY <1>3, <3>1, OneElement
    <3>3. outbound'[c] = <<Reply("data", Current(c))>>
      <4> DEFINE r == Reply("data", Current(c))
      <4>1. {s \in open[t] : s[1] = c} = {Current(c)}
        BY <1>1, <3>1
      <4>2. Cardinality({s \in open[t] : s[1] = c}) = 1
        BY <4>1, FS_Singleton
      <4>3. [i \in 1..Cardinality({s \in open[t] : s[1] = c}) |-> r] = <<r>>
        BY <4>2, Copies
      <4>4. outbound'[c] = outbound[c] \o <<r>>
        BY <3>2, <4>3 DEF HandOut
      <4>5. outbound[c] = <<>>
        BY <3>1 DEF At
      <4>6. <<>> \o <<r>> = <<r>>
        OBVIOUS
      <4>7. QED
        BY <4>4, <4>5, <4>6
    <3>4. Current(c)' = Current(c)
      BY DEF Current, HandOut
    <3>5. QED
      BY <1>1, <3>1, <3>2, <3>3, <3>4 DEF Loading, At, HandOut
  <2>4. QED
    BY <2>1, <2>2, <2>3 DEF Stage, HandOut
<1>8. Apart'
  BY DEF Order, Apart, HandOut
<1>9. OwnPackets'
  BY DEF Order, OwnPackets, OwnPacket, Past, HandOut
<1>10. OwnTopics'
  <2>1. ASSUME NEW u \in Topics, NEW i \in 1..Len(backlog'[u])
        PROVE  topic[backlog'[u][i][1]] = u
    <3>1. CASE u = t
      <4>1. backlog[t] \in Seq(Requests)
        BY DEF TypeOK
      <4>2. /\ Len(backlog[t]) \in Nat /\ Len(Tail(backlog[t])) = Len(backlog[t]) - 1
            /\ \A j \in 1..Len(Tail(backlog[t])) : Tail(backlog[t])[j] = backlog[t][j + 1]
        BY <1>6, <4>1
      <4>3. i \in 1..Len(Tail(backlog[t])) /\ backlog'[t] = Tail(backlog[t])
        BY <1>3, <2>1, <3>1
      <4>4. i + 1 \in 1..Len(backlog[t]) /\ backlog'[t][i] = backlog[t][i + 1]
        BY <4>2, <4>3
      <4>5. QED
        BY <3>1, <4>4 DEF Order, OwnTopics
    <3>2. CASE u # t
      BY <1>2, <3>2 DEF Order, OwnTopics
    <3>3. QED
      BY <3>1, <3>2
  <2>2. ASSUME NEW u \in Topics, NEW s \in Requests, served'[u][s] # <<>> PROVE Past(s)
    <3>1. served[u][s] # <<>> \/ s \in open[u]
      BY <1>2, <1>3, <2>2
    <3>2. QED
      BY <3>1 DEF Order, OwnTopics
  <2>3. QED
    BY <2>1, <2>2 DEF Order, OwnTopics, Past, HandOut
<1>11. QED
  BY <1>5, <1>7, <1>8, <1>9, <1>10, OthersKeep DEF Order

LEMMA ReleaseOrder ==
  ASSUME TypeOK, Order, NEW t \in Topics, Release(t)
  PROVE  Order'
<1> USE DEF programs, listener, links, handlers, topics, launcher
<1>1. \A u \in Topics : open'[u] = IF u = t THEN {} ELSE open[u]
  BY DEF Release, TypeOK
<1>2. ASSUME NEW c \in Clients PROVE Stage(c)'
  <2>1. CASE topic[c] # t
    <3>1. Undisturbed(c)
      BY <1>1, <2>1 DEF Undisturbed, Release
    <3>2. QED
      BY <3>1, Frame DEF Order
  <2>2. CASE topic[c] = t
    <3>1. Current(c)' = Current(c)
      BY DEF Current, Release
    <3>2. Untouched(c) => Untouched(c)'
      BY <1>1, <3>1 DEF Untouched, Release
    <3>3. PICK s \in open[t] : served[t][s] # <<>>
      BY DEF Release
    <3>4. step[c] \notin {"ack", "answer"}
      BY <2>2, <3>3, SortsAssumption DEF Order, Stage, Storing, Apart
    <3>5. Idle(c) => Idle(c)'
      BY <3>2 DEF Idle, At, Release
    <3>6. ASSUME step[c] = "reply" PROVE Loading(c)'
      <4>1. /\ At(c, <<>>, {}, {}, {}, <<Reply("data", Current(c))>>)
            /\ backlog[topic[c]] = <<>>
        BY <2>2, <3>3, <3>6 DEF Order, Stage, Loading
      <4>2. QED
        BY <2>2, <3>1, <4>1 DEF Loading, At, Release
    <3>7. QED
      BY <3>4, <3>5, <3>6 DEF Order, Stage, Release
  <2>3. QED
    BY <2>1, <2>2
<1>3. Apart'
  BY DEF Order, Apart, Release
<1>4. OwnPackets'
  BY DEF Order, OwnPackets, OwnPacket, Past, Release
<1>5. OwnTopics'
  BY <1>1 DEF Order, OwnTopics, Past, Release
<1>6. QED
  BY <1>2, <1>3, <1>4, <1>5 DEF Order

LEMMA AnswerOrder ==
  ASSUME TypeOK, Order, NEW r \in asked, Answer(r)
  PROVE  Order'
<1> USE DEF programs, listener, links, handlers, topics, launcher
<1> DEFINE c == r[1]
<1>1. c \in Clients
  BY DEF TypeOK, Requests
<1>2. outbound' = [outbound EXCEPT ![c] = Append(outbound[c], Reply("answer", r))]
  BY DEF Answer, Write
<1>3. \A d \in Clients \ {c} : Undisturbed(d)
  BY <1>2 DEF Undisturbed, Answer, TypeOK
<1>4. Stage(c)'
  <2>1. r \in {q \in asked : q[1] = c}
    OBVIOUS
  <2>2. step[c] \notin {"start", "put", "trigger", "register", "ack", "reply"}
    BY <1>1, <2>1 DEF Order, Stage, Idle, Storing, Loading, At
  <2>3. ASSUME step[c] = "answer" PROVE Asking(c)'
    <3>1. At(c, <<>>, {}, {}, {Current(c)}, <<>>)
      BY <1>1, <2>1, <2>3 DEF Order, Stage, Asking, At
    <3>2. r = Current(c)
      BY <2>1, <3>1 DEF At
    <3>3. outbound'[c] = <<Reply("answer", Current(c))>>
      BY <1>1, <1>2, <3>1, <3>2, OneElement DEF At, TypeOK
    <3>4. {q \in asked' : q[1] = c} = {}
      BY <3>1, <3>2 DEF At, Answer
    <3>5. Current(c)' = Current(c)
      BY DEF Current, Answer
    <3>6. QED
      BY <3>1, <3>3, <3>4, <3>5 DEF Asking, At, Answer
  <2>4. QED
    BY <2>2, <2>3 DEF Stage, Answer
<1>5. Apart'
  BY DEF Order, Apart, Answer
<1>6. OwnPackets'
  BY DEF Order, OwnPackets, OwnPacket, Past, Answer
<1>7. OwnTopics'
  BY DEF Order, OwnTopics, Past, Answer
<1>8. QED
  BY <1>1, <1>3, <1>4, <1>5, <1>6, <1>7, OthersKeep DEF Order

LEMMA OrderStep ==
  ASSUME TypeOK, Order, Next
  PROVE  Order' /\ misled' = misled
<1> USE DEF programs, listener, links, handlers, topics, launcher
<1>1. ASSUME NEW c \in Clients,
             \/ Connect(c) \/ SendPut(c) \/ ReadAck(c) \/ ReadReply(c)
             \/ SendTrigger(c) \/ ReadAnswer(c) \/ Register(c) \/ Kill(c)
      PROVE  Order'
  BY <1>1, ConnectOrder, SendPutOrder, ReadAckOrder, ReadReplyOrder, SendTriggerOrder,
     ReadAnswerOrder, RegisterOrder, KillOrder
<1>2. ASSUME NEW c \in Clients,
             \/ Connect(c) \/ SendPut(c) \/ ReadAck(c) \/ ReadReply(c)
             \/ SendTrigger(c) \/ ReadAnswer(c) \/ Register(c) \/ Kill(c)
      PROVE  misled' = misled
  <2>1. ASSUME ReadAck(c) \/ ReadReply(c) \/ ReadAnswer(c) PROVE misled' = misled
    BY <2>1, ReadAckOrder, ReadReplyOrder, ReadAnswerOrder
  <2>2. QED
    BY <1>2, <2>1 DEF Connect, SendPut, SendTrigger, Register, Kill
<1>3. ASSUME NEW c \in Clients, ReadStore(c) \/ ReadTrigger(c) \/ ReadRegister(c) \/ ReadEnd(c)
      PROVE  Order' /\ misled' = misled
  <2>1. ReadEnd(c) => Order'
    BY QuietOrder DEF ReadEnd
  <2>2. Order'
    BY <1>3, <2>1, ReadStoreOrder, ReadTriggerOrder, ReadRegisterOrder
  <2>3. QED
    BY <1>3, <2>2 DEF ReadStore, ReadTrigger, ReadRegister, ReadEnd
<1>4. ASSUME Accept \/ AcceptFails PROVE Order' /\ misled' = misled
  <2>1. UNCHANGED <<programs, links, handlers, topics, asked>>
    BY <1>4 DEF Accept, AcceptFails
  <2>2. QED
    BY <2>1, QuietOrder
<1>5. ASSUME Stop PROVE Order' /\ misled' = misled
  BY <1>5, StopOrder DEF Stop
<1>6. ASSUME NEW p \in posted \cup pushed, Store(p) \/ Acknowledge(p) \/ Load(p)
      PROVE  Order' /\ misled' = misled
  <2>1. Order'
    BY <1>6, StoreOrder, AcknowledgeOrder, LoadOrder
  <2>2. QED
    BY <1>6, <2>1 DEF Store, Acknowledge, Load
<1>7. ASSUME NEW t \in Topics, HandOut(t) \/ Release(t) PROVE Order' /\ misled' = misled
  <2>1. Order'
    BY <1>7, HandOutOrder, ReleaseOrder
  <2>2. QED
    BY <1>7, <2>1 DEF HandOut, Release
<1>8. ASSUME NEW r \in asked, Answer(r) PROVE Order' /\ misled' = misled
  <2>1. Order'
    BY <1>8, AnswerOrder
  <2>2. QED
    BY <1>8, <2>1 DEF Answer
<1>9. QED
  BY StepCases, <1>1, <1>2, <1>3, <1>4, <1>5, <1>6, <1>7, <1>8

\* At first nothing is under way, and every step keeps the order.
LEMMA ClientsOrdered == Spec => [](Order /\ InStep)
<1>1. Init => Order /\ InStep
  <2>1. ASSUME Init PROVE \A c \in Clients : Stage(c)
    <3>1. ASSUME NEW c \in Clients PROVE Idle(c)
      <4>1. Current(c) \in Requests /\ NoTopic \notin Topics
        BY <2>1, BoundsAssumption, SortsAssumption DEF Init, Current, Requests
      <4>2. At(c, <<>>, {}, {}, {}, <<>>)
        BY <2>1 DEF Init, At, NoPackets
      <4>3. Untouched(c)
        BY <2>1, <4>1 DEF Init, Untouched, NoSlots, NothingServed
      <4>4. QED
        BY <2>1, <4>1, <4>2, <4>3 DEF Init, Idle
    <3>2. QED
      BY <2>1, <3>1 DEF Init, Stage
  <2>2. ASSUME Init PROVE Apart
    BY <2>2 DEF Init, Apart
  <2>3. ASSUME Init PROVE OwnPackets
    BY <2>3, OneElement DEF Init, OwnPackets, NoPackets
  <2>4. ASSUME Init PROVE OwnTopics
    BY <2>4, OneElement DEF Init, OwnTopics, NoMessages, NoSlots, NothingServed
  <2>5. QED
    BY <2>1, <2>2, <2>3, <2>4 DEF Order, Init, InStep
<1>2. TypeOK /\ Order /\ InStep /\ [Next]_vars => (Order /\ InStep)'
  <2>1. ASSUME Order, UNCHANGED vars PROVE Order'
    BY <2>1, QuietOrder DEF vars, launcher
  <2>2. QED
    BY <2>1, OrderStep DEF InStep, vars, programs
<1>3. QED
  BY <1>1, <1>2, TypeCorrect, PTL DEF Spec

\* A client that counts on turns is never misled: at any time exactly one thing is under
\* way in its name, wherever the threads of the server have got to - because the topic of
\* a round is drawn afresh (packet_header::gen) and nothing of an earlier round, whose
\* slot may still be connected, can reach it.
THEOREM ClientsInStep == Spec => []InStep
  BY ClientsOrdered, PTL

-----------------------------------------------------------------------------
(* The system stops only when everybody has been served.                   *)

Waiting(c) == \E i \in 1..Len(pending) : pending[i] = c

\* A process that runs waits to be accepted, or is read from, or has a trigger at the
\* launcher, or has given its socket to a worker.
LiveInv ==
  /\ stopped => \A c \in Clients : Gone(c)
  /\ \A c \in Clients : ~Gone(c) /\ step[c] # "start" => c \in accepted \/ Waiting(c)
  /\ \A c \in accepted : ~Gone(c) => c \in reading \/ (\E r \in asked : r[1] = c) \/ c \in Workers
  /\ \A c \in Clients : step[c] \in {"register", "serve"} => c \in Workers

\* A GET under way in the name of a process that was killed, too, finds its message: the
\* topic is its own and has no slot.
NoGet(c) ==
  /\ \A i \in 1..Len(inbound[c]) : inbound[c][i].kind # "get"
  /\ \A p \in posted : p.req[1] = c => p.kind # "get"

GetPending(c) ==
  LET get == Packet("get", c, topic[c]) IN
  /\ topic[c] \in Topics /\ open[topic[c]] = {} /\ backlog[topic[c]] # <<>>
  /\ \/ inbound[c] = <<get>> /\ {p \in posted : p.req[1] = c} = {}
     \/ inbound[c] = <<>> /\ {p \in posted : p.req[1] = c} = {get}

GetInv == \A c \in Clients : Gone(c) \/ step[c] = "serve" => NoGet(c) \/ GetPending(c)

\* A slot has a message coming, or has been served and is about to be disconnected.
SlotInv ==
  \A t \in Topics : open[t] # {} => backlog[t] # <<>> \/ \E s \in open[t] : served[t][s] # <<>>

\* The steps of the programs, the accept loop and the reading.
LEMMA LiveStep ==
  ASSUME TypeOK, Order, LiveInv, Next
  PROVE  LiveInv'
<1> USE DEF LiveInv, Gone, programs, listener, links, handlers, topics, launcher
<1>1. ASSUME NEW c \in Clients, Connect(c) PROVE LiveInv'
  <2>1. \A d \in Clients : Waiting(d) \/ d = c => Waiting(d)'
    <3>1. /\ Len(pending') = Len(pending) + 1 /\ Len(pending) \in Nat
          /\ pending'[Len(pending) + 1] = c
          /\ \A i \in 1..Len(pending) : pending'[i] = pending[i]
      BY <1>1 DEF Connect, TypeOK
    <3>2. 1..Len(pending) \subseteq 1..Len(pending') /\ Len(pending) + 1 \in 1..Len(pending')
      BY <3>1
    <3>3. QED
      BY <3>1, <3>2 DEF Waiting
  <2>2. step'[c] \in {"put", "trigger", "register"} /\ (step'[c] = "register" => c \in Workers)
    BY <1>1 DEF Connect, TypeOK, Clients
  <2>3. QED
    BY <1>1, <2>1, <2>2 DEF Connect, TypeOK
<1>2. ASSUME NEW c \in Clients, NEW s, step' = [step EXCEPT ![c] = s], step[c] # "start", ~Gone(c),
             s # "start", s \in {"register", "serve"} => c \in Workers,
             UNCHANGED <<pending, accepted, reading, asked, stopped>>
      PROVE  LiveInv'
  <2>1. \A d \in Clients : Waiting(d)' <=> Waiting(d)
    BY <1>2 DEF Waiting
  <2>2. QED
    BY <1>2, <2>1 DEF TypeOK
<1>3. ASSUME NEW c \in Clients,
             \/ SendPut(c) \/ ReadAck(c) \/ SendTrigger(c) \/ Register(c) \/ Kill(c)
      PROVE  LiveInv'
  <2>1. /\ \E s \in {"ack", "reply", "answer", "serve", "failed"} :
             /\ step' = [step EXCEPT ![c] = s]
             /\ s = "serve" => step[c] = "register"
        /\ step[c] # "start" /\ ~Gone(c)
        /\ UNCHANGED <<pending, accepted, reading, asked, stopped>>
    BY <1>3 DEF SendPut, ReadAck, SendTrigger, Register, Kill
  <2>2. QED
    BY <1>2, <2>1
<1>4. ASSUME NEW c \in Clients, ReadReply(c) \/ ReadAnswer(c) PROVE LiveInv'
  <2>1. PICK s \in {"over", "put", "trigger"} : step' = [step EXCEPT ![c] = s]
    BY <1>4 DEF ReadReply, ReadAnswer, NextRound
  <2>2. QED
    BY <1>2, <1>4, <2>1 DEF ReadReply, ReadAnswer
<1>5. ASSUME UNCHANGED <<step, pending, accepted, stopped>>,
             \A c \in Clients : c \in reading /\ c \notin reading' =>
               (\E r \in asked' : r[1] = c) \/ c \in Workers \/ Gone(c),
             \A c \in Clients : (\E r \in asked : r[1] = c) =>
               (\E r \in asked' : r[1] = c) \/ c \in reading'
      PROVE  LiveInv'
  <2>1. \A d \in Clients : Waiting(d)' <=> Waiting(d)
    BY <1>5 DEF Waiting
  <2>2. accepted \subseteq Clients
    BY DEF TypeOK
  <2>3. QED
    BY <1>5, <2>1, <2>2
<1>6. ASSUME NEW c \in Clients, ReadStore(c) PROVE LiveInv'
  BY <1>5, <1>6 DEF ReadStore
<1>7. ASSUME NEW c \in Clients, ReadTrigger(c) PROVE LiveInv'
  <2>1. OwnPacket(c, Head(inbound[c]))
    BY <1>7, ReadOwn DEF ReadTrigger
  <2>2. asked' = asked \cup {Head(inbound[c]).req} /\ Head(inbound[c]).req[1] = c
    BY <1>7, <2>1 DEF ReadTrigger, OwnPacket
  <2>3. QED
    BY <1>5, <1>7, <2>2 DEF ReadTrigger
<1>8. ASSUME NEW c \in Clients, ReadRegister(c) PROVE LiveInv'
  <2>1. inbound[c] # <<>> /\ Head(inbound[c]).kind = "worker_reg"
    BY <1>8 DEF ReadRegister, Reads
  <2>2. step[c] \notin {"start", "put", "trigger", "register", "ack", "reply", "answer"}
    BY <2>1, HeadKind
  <2>3. c \in Workers \/ Gone(c)
    BY <2>2 DEF TypeOK
  <2>4. QED
    BY <1>5, <1>8, <2>3 DEF ReadRegister
<1>9. ASSUME NEW c \in Clients, ReadEnd(c) PROVE LiveInv'
  BY <1>5, <1>9 DEF ReadEnd
<1>10. ASSUME Accept PROVE LiveInv'
  <2>1. /\ pending \in Seq(Clients) /\ pending # <<>> /\ pending' = Tail(pending)
        /\ accepted' = accepted \cup {Head(pending)} /\ reading' = reading \cup {Head(pending)}
        /\ UNCHANGED <<step, stopped, asked>>
    BY <1>10 DEF Accept, TypeOK
  <2>2. ASSUME NEW d \in Clients, Waiting(d) PROVE d = Head(pending) \/ Waiting(d)'
    <3>1. PICK i \in 1..Len(pending) : pending[i] = d
      BY <2>2 DEF Waiting
    <3>2. /\ Len(pending') = Len(pending) - 1 /\ Len(pending) \in Nat /\ Head(pending) = pending[1]
          /\ \A k \in 1..Len(pending') : pending'[k] = pending[k + 1]
      BY <2>1
    <3>3. i # 1 => i - 1 \in 1..Len(pending') /\ pending'[i - 1] = pending[i]
      BY <3>2
    <3>4. QED
      BY <3>1, <3>2, <3>3 DEF Waiting
  <2>3. QED
    BY <2>1, <2>2
<1>11. ASSUME AcceptFails PROVE LiveInv'
  BY <1>5, <1>11 DEF AcceptFails
<1>12. ASSUME Stop PROVE LiveInv'
  BY <1>12 DEF Stop, TypeOK
<1>13. ASSUME NEW p \in posted \cup pushed, Store(p) \/ Acknowledge(p) \/ Load(p) PROVE LiveInv'
  BY <1>5, <1>13 DEF Store, Acknowledge, Load
<1>14. ASSUME NEW t \in Topics, HandOut(t) \/ Release(t) PROVE LiveInv'
  BY <1>5, <1>14 DEF HandOut, Release
<1>15. ASSUME NEW r \in asked, Answer(r) PROVE LiveInv'
  BY <1>5, <1>15 DEF Answer
<1>16. QED
  BY StepCases, <1>1, <1>3, <1>4, <1>6, <1>7, <1>8, <1>9, <1>10, <1>11, <1>12, <1>13, <1>14, <1>15

\* Of a process that runs the GET is where its stage says.
LEMMA LiveGet ==
  ASSUME Order, TypeOK, GetInv, NEW c \in Clients
  PROVE  NoGet(c) \/ GetPending(c)
<1>1. Stage(c)
  BY DEF Order
<1>2. ASSUME NEW toAck, NEW toAnswer, NEW replies, At(c, <<>>, {}, toAck, toAnswer, replies)
      PROVE  NoGet(c)
  <2>1. inbound[c] = <<>> /\ Len(<<>>) = 0 /\ \A p \in posted : p.req[1] # c
    BY <1>2 DEF At
  <2>2. QED
    BY <2>1 DEF NoGet
<1>3. ASSUME NEW p, p.kind # "get", NEW toAck, NEW toAnswer, NEW replies,
             \/ At(c, <<p>>, {}, toAck, toAnswer, replies)
             \/ At(c, <<>>, {p}, toAck, toAnswer, replies)
      PROVE  NoGet(c)
  <2>1. Len(<<>>) = 0 /\ Len(<<p>>) = 1 /\ <<p>>[1] = p
    OBVIOUS
  <2>2. \A i \in 1..Len(inbound[c]) : inbound[c][i] = p
    BY <1>3, <2>1 DEF At
  <2>3. \A q \in posted : q.req[1] = c => q = p
    BY <1>3 DEF At
  <2>4. QED
    BY <1>3, <2>2, <2>3 DEF NoGet
<1>4. CASE step[c] \in {"start", "put", "trigger", "register"}
  BY <1>1, <1>2, <1>4 DEF Stage, Idle
<1>5. CASE step[c] = "ack"
  <2>1. Storing(c) /\ Packet("put", c, topic[c]).kind # "get"
    BY <1>1, <1>5 DEF Stage, Packet
  <2>2. QED
    BY <1>2, <1>3, <2>1 DEF Storing
<1>6. CASE step[c] = "reply"
  <2>1. Loading(c)
    BY <1>1, <1>6 DEF Stage
  <2>2. CASE \E replies : At(c, <<>>, {}, {}, {}, replies)
    BY <1>2, <2>2
  <2>3. CASE ~\E replies : At(c, <<>>, {}, {}, {}, replies)
    <3>1. <<Current(c)>> # <<>>
      OBVIOUS
    <3>2. GetPending(c)
      BY <2>1, <2>3, <3>1 DEF Loading, GetPending, At
    <3>3. QED
      BY <3>2
  <2>4. QED
    BY <2>2, <2>3
<1>7. CASE step[c] = "answer"
  <2>1. Asking(c) /\ Packet("trigger", c, NoTopic).kind # "get"
    BY <1>1, <1>7 DEF Stage, Packet
  <2>2. QED
    BY <1>2, <1>3, <2>1 DEF Asking
<1>8. QED
  BY <1>4, <1>5, <1>6, <1>7 DEF Gone, TypeOK, GetInv

\* What a client's GET depends on.
LEMMA GetFrame ==
  ASSUME NEW c \in Clients, NoGet(c) \/ GetPending(c),
         topic'[c] = topic[c], round'[c] = round[c], inbound'[c] = inbound[c],
         {p \in posted' : p.req[1] = c} = {p \in posted : p.req[1] = c},
         GetPending(c) => /\ open'[topic[c]] = {}
                          /\ backlog'[topic[c]] # <<>>
  PROVE  NoGet(c)' \/ GetPending(c)'
<1>1. Packet("get", c, topic[c])' = Packet("get", c, topic[c])
  BY DEF Packet, Current
<1>2. \A p \in posted' : p.req[1] = c => p \in posted
  OBVIOUS
<1>3. NoGet(c) => NoGet(c)'
  BY <1>2 DEF NoGet
<1>4. GetPending(c) => GetPending(c)'
  BY <1>1 DEF GetPending
<1>5. QED
  BY <1>3, <1>4

\* Nothing was sent or posted in the client's name.
LEMMA NoGetEmpty ==
  ASSUME NEW c \in Clients, inbound'[c] = <<>>, \A p \in posted' : p.req[1] # c
  PROVE  NoGet(c)'
<1>1. Len(<<>>) = 0
  OBVIOUS
<1>2. QED
  BY <1>1 DEF NoGet

\* The GETs of processes that run are where their stages say; those of the others stay
\* where they are until the server reads and loads them.
LEMMA GetStep ==
  ASSUME TypeOK, Order, GetInv, Next
  PROVE  GetInv'
<1> USE DEF programs, listener, links, handlers, topics, launcher
<1>1. SUFFICES ASSUME NEW c \in Clients, Gone(c)' \/ step'[c] = "serve"
               PROVE  NoGet(c)' \/ GetPending(c)'
  BY DEF GetInv
<1>2. NoGet(c) \/ GetPending(c)
  BY LiveGet
<1>3. ASSUME topic'[c] = topic[c], round'[c] = round[c], inbound'[c] = inbound[c],
             UNCHANGED <<posted, open, backlog>>
      PROVE  NoGet(c)' \/ GetPending(c)'
  BY <1>2, <1>3, GetFrame DEF GetPending
<1>4. ASSUME NEW d \in Clients,
             \/ Connect(d) \/ SendPut(d) \/ ReadAck(d) \/ ReadReply(d)
             \/ SendTrigger(d) \/ ReadAnswer(d)
      PROVE  NoGet(c)' \/ GetPending(c)'
  <2>1. UNCHANGED <<posted, open, backlog>>
    BY <1>4 DEF Connect, SendPut, ReadAck, ReadReply, SendTrigger, ReadAnswer
  <2>2. CASE d # c
    <3>1. topic'[c] = topic[c] /\ round'[c] = round[c] /\ inbound'[c] = inbound[c]
      BY <1>4, <2>2 DEF Connect, SendPut, ReadAck, ReadReply, SendTrigger, ReadAnswer, NextRound,
                        Send, TypeOK
    <3>2. QED
      BY <1>3, <2>1, <3>1
  <2>3. CASE d = c
    <3>1. ~(Connect(c) \/ SendPut(c) \/ ReadAck(c) \/ SendTrigger(c))
      BY <1>1 DEF Connect, SendPut, ReadAck, SendTrigger, Gone, TypeOK, Clients
    <3>2. PICK first \in {"put", "trigger"} :
            /\ NextRound(c, first) /\ UNCHANGED <<topic, inbound>>
      BY <1>4, <2>3, <3>1 DEF ReadReply, ReadAnswer
    <3>3. round'[c] = round[c]
      BY <1>1, <3>2 DEF NextRound, Gone, TypeOK
    <3>4. QED
      BY <1>3, <2>1, <3>2, <3>3
  <2>4. QED
    BY <2>2, <2>3
<1>5. ASSUME NEW d \in Clients, Register(d) PROVE NoGet(c)' \/ GetPending(c)'
  <2>1. CASE d # c
    BY <1>3, <1>5, <2>1 DEF Register, Send, TypeOK
  <2>2. CASE d = c
    <3>1. Idle(c)
      BY <1>5, <2>2 DEF Order, Stage, Register
    <3>2. inbound'[c] = Append(<<>>, Packet("worker_reg", c, NoTopic))
      BY <1>5, <2>2, <3>1 DEF Register, Send, TypeOK, Idle, At
    <3>3. /\ inbound'[c] = <<Packet("worker_reg", c, NoTopic)>>
          /\ Packet("worker_reg", c, NoTopic).kind # "get"
      BY <3>2, OneElement DEF Packet
    <3>4. \A i \in 1..Len(inbound'[c]) : inbound'[c][i].kind # "get"
      <4>1. \A x : Len(<<x>>) = 1 /\ <<x>>[1] = x
        OBVIOUS
      <4>2. QED
        BY <3>3, <4>1
    <3>5. \A p \in posted' : p.req[1] # c
      BY <1>5, <3>1 DEF Register, Idle, At
    <3>6. QED
      BY <3>4, <3>5 DEF NoGet
  <2>3. QED
    BY <2>1, <2>2
<1>6. ASSUME NEW d \in Clients, Kill(d) PROVE NoGet(c)' \/ GetPending(c)'
  <2>1. UNCHANGED <<topic, round, posted, open, backlog>>
    BY <1>6 DEF Kill
  <2>2. CASE inbound'[c] = inbound[c]
    BY <1>3, <2>1, <2>2
  <2>3. CASE inbound'[c] # inbound[c]
    <3>1. inbound'[c] = <<>> /\ inbound[c] # <<>>
      BY <1>6, <2>3 DEF Kill, TypeOK
    <3>2. GetPending(c) => \A p \in posted' : p.req[1] # c
      BY <2>1, <3>1 DEF GetPending
    <3>3. NoGet(c) => NoGet(c)'
      <4>1. Len(<<>>) = 0
        OBVIOUS
      <4>2. QED
        BY <2>1, <3>1, <4>1 DEF NoGet
    <3>4. QED
      BY <1>2, <3>1, <3>2, <3>3, NoGetEmpty
  <2>4. QED
    BY <2>2, <2>3
<1>7. ASSUME NEW d \in Clients, ReadStore(d) \/ ReadTrigger(d) \/ ReadRegister(d)
      PROVE  NoGet(c)' \/ GetPending(c)'
  <2>1. PICK kinds : Reads(d, kinds)
    BY <1>7 DEF ReadStore, ReadTrigger, ReadRegister
  <2>2. PICK h : h = Head(inbound[d])
    OBVIOUS
  <2>3. /\ OwnPacket(d, h) /\ \A e \in Clients \ {d} : inbound'[e] = inbound[e]
        /\ inbound'[d] = Tail(inbound[d]) /\ inbound[d] # <<>> /\ inbound[d] \in Seq(Packets)
    BY <2>1, <2>2, ReadOwn DEF Reads, TypeOK
  <2>4. /\ UNCHANGED <<topic, round, open, backlog>>
        /\ IF ReadStore(d) THEN posted' = posted \cup {h} ELSE posted' = posted /\ h.kind # "get"
    BY <1>7, <2>2 DEF ReadStore, ReadTrigger, ReadRegister, Reads
  <2>5. CASE d # c
    <3>1. {p \in posted' : p.req[1] = c} = {p \in posted : p.req[1] = c}
      BY <2>3, <2>4, <2>5 DEF OwnPacket
    <3>2. inbound'[c] = inbound[c]
      BY <2>3, <2>5
    <3>3. QED
      BY <1>2, <2>4, <3>1, <3>2, GetFrame DEF GetPending
  <2>6. CASE d = c
    <3>1. ASSUME NoGet(c) PROVE NoGet(c)'
      <4>1. /\ 1 \in 1..Len(inbound[c]) /\ h = inbound[c][1]
            /\ Len(inbound'[c]) = Len(inbound[c]) - 1 /\ Len(inbound[c]) \in Nat
            /\ \A i \in 1..Len(inbound'[c]) : inbound'[c][i] = inbound[c][i + 1]
        <5>1. ASSUME NEW s \in Seq(Packets), s # <<>>
              PROVE  /\ 1 \in 1..Len(s) /\ Head(s) = s[1] /\ Len(Tail(s)) = Len(s) - 1 /\ Len(s) \in Nat
                     /\ \A i \in 1..Len(Tail(s)) : Tail(s)[i] = s[i + 1]
          BY <5>1
        <5>2. QED
          BY ZenonT(30), <2>2, <2>3, <2>6, <5>1
      <4>2. h.kind # "get" /\ \A i \in 1..Len(inbound'[c]) : i + 1 \in 1..Len(inbound[c])
        BY <3>1, <4>1 DEF NoGet
      <4>3. \A i \in 1..Len(inbound'[c]) : inbound'[c][i].kind # "get"
        BY <3>1, <4>1, <4>2 DEF NoGet
      <4>4. \A p \in posted' : p.req[1] = c => p.kind # "get"
        BY <2>4, <3>1, <4>2 DEF NoGet
      <4>5. QED
        BY <4>3, <4>4 DEF NoGet
    <3>2. ASSUME GetPending(c) PROVE GetPending(c)'
      <4>1. /\ inbound[c] = <<Packet("get", c, topic[c])>> /\ {p \in posted : p.req[1] = c} = {}
        BY <2>3, <2>6, <3>2 DEF GetPending
      <4>2. h = Packet("get", c, topic[c]) /\ inbound'[c] = <<>> /\ h.kind = "get" /\ h.req[1] = c
        BY <2>2, <2>3, <2>6, <4>1, OneElement DEF Packet, Current
      <4>3. {p \in posted' : p.req[1] = c} = {h}
        BY <2>4, <4>1, <4>2
      <4>4. Packet("get", c, topic[c])' = Packet("get", c, topic[c])
        BY <2>4 DEF Packet, Current
      <4>5. QED
        BY <2>4, <3>2, <4>2, <4>3, <4>4 DEF GetPending
    <3>3. QED
      BY <1>2, <3>1, <3>2
  <2>7. QED
    BY <2>5, <2>6
<1>8. ASSUME \/ (\E d \in Clients : ReadEnd(d)) \/ Accept \/ AcceptFails
             \/ (\E r \in asked : Answer(r))
      PROVE  NoGet(c)' \/ GetPending(c)'
  BY <1>3, <1>8 DEF ReadEnd, Accept, AcceptFails, Answer
<1>9. ASSUME Stop PROVE NoGet(c)' \/ GetPending(c)'
  BY <1>9, NoGetEmpty DEF Stop, NoPackets
<1>10. ASSUME NEW p \in posted \cup pushed, Acknowledge(p) PROVE NoGet(c)' \/ GetPending(c)'
  BY <1>3, <1>10 DEF Acknowledge
<1>11. ASSUME NEW p \in posted, Store(p) PROVE NoGet(c)' \/ GetPending(c)'
  <2>1. ASSUME NoGet(c) PROVE NoGet(c)'
    BY <1>11, <2>1 DEF Store, NoGet
  <2>2. ASSUME GetPending(c) PROVE GetPending(c)'
    <3>1. p.req[1] # c
      BY <1>11, <2>2 DEF GetPending, Store, Packet
    <3>2. {q \in posted' : q.req[1] = c} = {q \in posted : q.req[1] = c}
      BY <1>11, <3>1 DEF Store
    <3>3. backlog'[topic[c]] # <<>>
      <4>1. \A t \in Topics : backlog[t] # <<>> => backlog'[t] # <<>>
        <5>1. p.req \in Requests
          BY DEF TypeOK, Packets
        <5>2. \A s \in Seq(Requests) : Append(s, p.req) # <<>>
          BY <5>1
        <5>3. QED
          BY <1>11, <5>2 DEF Store, TypeOK
      <4>2. QED
        BY <2>2, <4>1 DEF GetPending
    <3>4. Packet("get", c, topic[c])' = Packet("get", c, topic[c])
      BY <1>11 DEF Store, Packet, Current
    <3>5. QED
      BY <1>11, <2>2, <3>2, <3>3, <3>4 DEF Store, GetPending
  <2>3. QED
    BY <1>2, <2>1, <2>2
<1>12. ASSUME NEW p \in posted, Load(p) PROVE NoGet(c)' \/ GetPending(c)'
  <2>1. ASSUME NoGet(c) PROVE NoGet(c)'
    BY <1>12, <2>1 DEF Load, NoGet
  <2>2. CASE GetPending(c) /\ p.req[1] = c
    <3>1. inbound'[c] = <<>> /\ \A q \in posted' : q.req[1] # c
      BY <1>12, <2>2 DEF GetPending, Load
    <3>2. QED
      BY <3>1, NoGetEmpty
  <2>3. CASE GetPending(c) /\ p.req[1] # c
    <3>1. p.topic = topic[p.req[1]] /\ p.req[1] \in Clients
      BY <1>12 DEF Order, OwnPackets, OwnPacket, Load, TypeOK, Packets, Requests
    <3>2. p.topic # topic[c]
      BY <2>3, <3>1, SortsAssumption DEF Order, Apart, GetPending
    <3>3. open'[topic[c]] = open[topic[c]]
      BY <1>12, <2>3, <3>2 DEF Load, TypeOK, GetPending
    <3>4. {q \in posted' : q.req[1] = c} = {q \in posted : q.req[1] = c}
      BY <1>12, <2>3 DEF Load
    <3>5. QED
      BY <1>2, <1>12, <2>3, <3>3, <3>4, GetFrame DEF Load, GetPending
  <2>4. QED
    BY <1>2, <2>1, <2>2, <2>3
<1>13. ASSUME NEW t \in Topics, HandOut(t) \/ Release(t) PROVE NoGet(c)' \/ GetPending(c)'
  <2>1. UNCHANGED <<topic, round, inbound, posted>>
    BY <1>13 DEF HandOut, Release
  <2>2. ASSUME GetPending(c) PROVE open'[topic[c]] = {} /\ backlog'[topic[c]] # <<>>
    <3>1. topic[c] # t /\ topic[c] \in Topics
      BY <1>13, <2>2 DEF HandOut, Release, GetPending
    <3>2. QED
      BY <1>13, <2>2, <3>1 DEF HandOut, Release, GetPending, TypeOK
  <2>3. QED
    BY <1>2, <2>1, <2>2, GetFrame
<1>14. QED
  BY StepCases, <1>4, <1>5, <1>6, <1>7, <1>8, <1>9, <1>10, <1>11, <1>12, <1>13 DEF Store, Load

\* A slot is connected where its message is, and a message is handed out before the slots
\* are disconnected.
LEMMA SlotStep ==
  ASSUME TypeOK, Order, GetInv, SlotInv, Next
  PROVE  SlotInv'
<1> USE DEF programs, listener, links, handlers, topics, launcher
<1>1. ASSUME UNCHANGED <<backlog, open, served>> PROVE SlotInv'
  BY <1>1 DEF SlotInv
<1>2. ASSUME NEW c \in Clients,
             \/ Connect(c) \/ SendPut(c) \/ ReadAck(c) \/ ReadReply(c)
             \/ SendTrigger(c) \/ ReadAnswer(c) \/ Register(c) \/ Kill(c)
             \/ ReadStore(c) \/ ReadTrigger(c) \/ ReadRegister(c) \/ ReadEnd(c)
      PROVE  SlotInv'
  BY <1>1, <1>2 DEF Connect, SendPut, ReadAck, ReadReply, SendTrigger, ReadAnswer, Register, Kill,
                    ReadStore, ReadTrigger, ReadRegister, ReadEnd
<1>3. CASE Accept \/ AcceptFails
  BY <1>1, <1>3 DEF Accept, AcceptFails
<1>4. CASE Stop
  BY <1>4 DEF Stop, SlotInv, NoSlots
<1>5. ASSUME NEW p \in posted \cup pushed, Store(p) PROVE SlotInv'
  <2>1. p.req \in Requests
    BY DEF TypeOK, Packets
  <2>2. \A s \in Seq(Requests) : Append(s, p.req) # <<>>
    BY <2>1
  <2>3. \A t \in Topics : backlog[t] # <<>> => backlog'[t] # <<>>
    BY <1>5, <2>2 DEF Store, TypeOK
  <2>4. QED
    BY <1>5, <2>3 DEF Store, SlotInv
<1>6. ASSUME NEW p \in posted \cup pushed, Acknowledge(p) PROVE SlotInv'
  BY <1>1, <1>6 DEF Acknowledge
<1>7. ASSUME NEW p \in posted \cup pushed, Load(p) PROVE SlotInv'
  <2>1. PICK c \in Clients : c = p.req[1]
    BY DEF TypeOK, Packets, Requests
  <2>2. p \in posted /\ p.kind = "get"
    BY <1>7 DEF Load
  <2>3. GetPending(c)
    BY <2>1, <2>2, LiveGet DEF NoGet
  <2>4. p = Packet("get", c, topic[c])
    BY <2>1, <2>2, <2>3 DEF GetPending
  <2>5. backlog[p.topic] # <<>>
    BY <2>3, <2>4 DEF GetPending, Packet
  <2>6. \A t \in Topics \ {p.topic} : open'[t] = open[t]
    BY <1>7 DEF Load, TypeOK
  <2>7. QED
    BY <1>7, <2>5, <2>6 DEF Load, SlotInv
<1>8. ASSUME NEW t \in Topics, HandOut(t) PROVE SlotInv'
  <2>1. \A s \in open[t] : served'[t][s] # <<>>
    <3>1. backlog[t] \in Seq(Requests) /\ backlog[t] # <<>> /\ open[t] \subseteq Requests
      BY <1>8 DEF HandOut, TypeOK
    <3>2. Head(backlog[t]) \in Requests
      BY <3>1
    <3>3. \A s \in Seq(Requests) : Append(s, Head(backlog[t])) # <<>>
      BY <3>2
    <3>4. \A s \in open[t] : served'[t][s] = Append(served[t][s], Head(backlog[t]))
      BY <1>8, <3>1 DEF HandOut, TypeOK
    <3>5. QED
      BY <3>1, <3>3, <3>4 DEF TypeOK
  <2>2. open[t] # {} /\ open' = open
    BY <1>8 DEF HandOut
  <2>3. \A u \in Topics \ {t} : backlog'[u] = backlog[u] /\ served'[u] = served[u]
    BY <1>8 DEF HandOut, TypeOK
  <2>4. QED
    BY <2>1, <2>2, <2>3 DEF SlotInv
<1>9. ASSUME NEW t \in Topics, Release(t) PROVE SlotInv'
  BY <1>9 DEF Release, SlotInv, TypeOK
<1>10. ASSUME NEW r \in asked, Answer(r) PROVE SlotInv'
  BY <1>1, <1>10 DEF Answer
<1>11. QED
  BY StepCases, <1>2, <1>3, <1>4, <1>5, <1>6, <1>7, <1>8, <1>9, <1>10

\* Nothing is left to be done: no program can go on, nothing is to be accepted, read,
\* handled, handed out, disconnected or answered (no guard of Programs, Server and Answering
\* holds).
Quiet ==
  /\ \A c \in Clients : /\ step[c] = "start" => stopped
                        /\ step[c] = "put" => \A t \in Topics : ~Unused(c, t)
                        /\ step[c] \notin {"trigger", "register"}
                        /\ step[c] \in {"ack", "reply", "answer"} => outbound[c] = <<>>
  /\ stopped \/ ~armed \/ pending = <<>>
  /\ \A c \in reading : inbound[c] = <<>> /\ ~Gone(c)
  /\ posted = {} /\ pushed = {}
  /\ \A t \in Topics : /\ backlog[t] = <<>> \/ open[t] = {}
                       /\ \A s \in open[t] : served[t][s] = <<>>
  /\ asked = {} \/ \A w \in workers_ : step[w] # "serve"

NobodyServes == \A w \in workers_ : step[w] # "serve"

\* When nothing is left to be done, every client has gone through its rounds - but for one
\* that was never accepted for want of a descriptor, one that finds no topic that is not in
\* use, and one whose trigger no worker is there to answer (see EveryRoundEnds).  A trigger
\* that some worker could answer counts as something left to be done: that the launcher
\* does answer it is the subject of Launcher.
THEOREM QuietWhenServed ==
  Spec => [](Quiet => \A c \in Loops \cup Callers :
                \/ Gone(c)
                \/ ~armed /\ c \notin accepted
                \/ step[c] = "put" /\ \A t \in Topics : ~Unused(c, t)
                \/ step[c] = "answer" /\ NobodyServes)
<1>1. Init => LiveInv
  BY DEF Init, LiveInv, Gone
<1>2. TypeOK /\ Order /\ LiveInv /\ [Next]_vars => LiveInv'
  <2>1. ASSUME LiveInv, UNCHANGED vars PROVE LiveInv'
    BY <2>1 DEF LiveInv, Gone, Waiting, vars, programs, listener, launcher
  <2>2. QED
    BY <2>1, LiveStep
<1>3. ASSUME TypeOK, Order, LiveInv, Quiet, NEW c \in Loops \cup Callers, ~Gone(c),
             armed \/ c \in accepted
      PROVE  \/ step[c] = "put" /\ \A t \in Topics : ~Unused(c, t)
             \/ step[c] = "answer" /\ NobodyServes
  <2>1. c \in Clients /\ c \notin Workers
    BY SortsAssumption DEF Clients
  <2>2. ~stopped
    BY <1>3, <2>1 DEF LiveInv
  <2>3. step[c] \in {"put", "ack", "reply", "answer"}
    BY <1>3, <2>1, <2>2 DEF Quiet, LiveInv, TypeOK, Gone
  <2>4. c \in accepted
    <3>1. Len(<<>>) = 0
      OBVIOUS
    <3>2. armed => ~Waiting(c)
      BY <1>3, <2>2, <3>1 DEF Quiet, Waiting
    <3>3. QED
      BY <1>3, <2>1, <2>3, <3>2 DEF LiveInv
  <2>5. c \in reading \/ \E r \in asked : r[1] = c
    BY <1>3, <2>1, <2>4 DEF LiveInv
  <2>6. \A x : <<x>> # <<>>
    OBVIOUS
  <2>7. CASE step[c] = "put"
    BY <1>3, <2>1, <2>7 DEF Quiet
  <2>8. ASSUME step[c] \in {"ack", "reply"} PROVE FALSE
    <3>1. Storing(c) \/ Loading(c)
      BY <1>3, <2>1, <2>8 DEF Order, Stage
    <3>2. \A r \in asked : r[1] # c
      BY <3>1 DEF Storing, Loading, At
    <3>3. inbound[c] = <<>> /\ outbound[c] = <<>> /\ posted = {} /\ pushed = {}
      BY <1>3, <2>1, <2>5, <2>8, <3>2 DEF Quiet
    <3>4. ~Storing(c)
      BY <2>6, <3>3 DEF Storing, At
    <3>5. /\ topic[c] \in Topics /\ open[topic[c]] = {Current(c)}
          /\ backlog[topic[c]] = <<Current(c)>>
      BY <2>6, <3>1, <3>3, <3>4 DEF Loading, At
    <3>6. QED
      BY <1>3, <2>6, <3>5 DEF Quiet
  <2>9. CASE step[c] = "answer"
    <3>1. Asking(c) /\ outbound[c] = <<>>
      BY <1>3, <2>1, <2>9 DEF Order, Stage, Quiet
    <3>2. asked # {}
      <4>1. CASE c \in reading
        <5>1. inbound[c] = <<>>
          BY <1>3, <4>1 DEF Quiet
        <5>2. {r \in asked : r[1] = c} = {Current(c)}
          BY <2>6, <3>1, <5>1 DEF Asking, At
        <5>3. QED
          BY <5>2
      <4>2. QED
        BY <2>5, <4>1
    <3>3. QED
      BY <1>3, <2>9, <3>2 DEF Quiet, NobodyServes
  <2>10. QED
    BY <2>3, <2>7, <2>8, <2>9
<1>4. TypeOK /\ Order /\ LiveInv =>
        (Quiet => \A c \in Loops \cup Callers :
            \/ Gone(c)
            \/ ~armed /\ c \notin accepted
            \/ step[c] = "put" /\ \A t \in Topics : ~Unused(c, t)
            \/ step[c] = "answer" /\ NobodyServes)
  BY <1>3
<1>5. QED
  BY <1>1, <1>2, <1>4, TypeCorrect, ClientsOrdered, PTL DEF Spec

\* When nothing is left to be done, no descriptor is kept for a client that is gone, unless
\* a job or a worker has its connection: no slot waits for a message that will not come,
\* wherever its client was killed (see DescriptorsGivenBack).
THEOREM QuietGivesBack ==
  Spec => [](Quiet => \A c \in Clients : Gone(c) /\ Open(c) => c \in jobs \cup workers_)
<1>1. Init => GetInv /\ SlotInv
  BY DEF Init, GetInv, SlotInv, Gone, NoSlots
<1>2. TypeOK /\ Order /\ (GetInv /\ SlotInv) /\ [Next]_vars => (GetInv /\ SlotInv)'
  <2>1. ASSUME GetInv, SlotInv, UNCHANGED vars PROVE GetInv' /\ SlotInv'
    BY <2>1 DEF GetInv, SlotInv, Gone, NoGet, GetPending, Packet, Current, vars, programs, links,
                handlers, topics
  <2>2. QED
    BY <2>1, GetStep, SlotStep
<1>3. SlotInv => (Quiet => \A c \in Clients : Gone(c) /\ Open(c) => c \in jobs \cup workers_)
  <2> SUFFICES ASSUME SlotInv, Quiet, NEW c \in Clients, Gone(c), Open(c)
               PROVE  c \in jobs \cup workers_
    OBVIOUS
  <2>1. \A t \in Topics : open[t] = {}
    BY DEF SlotInv, Quiet
  <2>2. QED
    BY <2>1 DEF Open, Held, Quiet
<1>4. QED
  BY <1>1, <1>2, <1>3, TypeCorrect, ClientsOrdered, PTL DEF Spec
=============================================================================
