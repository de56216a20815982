----------------------------- MODULE Transport -----------------------------
(***************************************************************************)
(* The whole transport: the accept loop and the shutdown of main.cpp, the  *)
(* connections it makes and how long each lives, and the programs at the   *)
(* other end - client.cpp, the threads of slsfs-client.cpp, workers.       *)
(*                                                                         *)
(* The parts that have modules of their own appear as what those modules   *)
(* show them to promise.  A topic is a TopicQueue that is not bound to a   *)
(* URL (Bucket implements it); the launcher answers a trigger through some *)
(* worker (Launcher); a connection posts each packet it has read and        *)
(* writes whole replies to a client that waits for them and gets one       *)
(* message for each GET, as here, where a topic is put to once             *)
(* (Connection).                                                           *)
(*                                                                         *)
(* New here is who keeps a connection.  A tcp_connection lives as long as  *)
(* somebody holds a shared_ptr to it - its read, the handlers posted for   *)
(* its packets, its slots in a topic, the on_completion_ of a job - and    *)
(* with it the descriptor of its socket, of which the process has only so  *)
(* many.                                                                   *)
(***************************************************************************)
EXTENDS Naturals, Sequences, FiniteSets

CONSTANTS
  Loops,    \* processes that run client.cpp
  Callers,  \* threads of slsfs-client.cpp
  Workers,  \* worker processes
  Mortal,   \* the processes that may be killed
  Topics,   \* headers that gen() may draw
  NoTopic,  \* the header before the first draw
  Rounds,   \* bound: how often a client goes round (times)
  Once,     \* bound: the clients that go round only once
  Limit     \* descriptors the server process has for connections

Clients == Loops \cup Callers \cup Workers

ASSUME SortsAssumption ==
  /\ Loops \cap Callers = {} /\ Loops \cap Workers = {} /\ Callers \cap Workers = {}
  /\ IsFiniteSet(Clients) /\ Mortal \subseteq Clients /\ Once \subseteq Clients
  /\ NoTopic \notin Topics
ASSUME BoundsAssumption == Rounds \in Nat \ {0} /\ Limit \in Nat \ {0}

VARIABLES
  step,      \* what each process does next, or waits for
  round,     \* the round it is in
  topic,     \* key and salt of the header it uses
  misled,    \* the clients that read something else than what they took it for
  pending,   \* connections the kernel has completed and the server not accepted
  armed,     \* is an async_accept outstanding?
  accepted,  \* the processes a tcp_connection was made for
  reading,   \* the connections with an async_read outstanding
  inbound,   \* packets on their way to the server
  outbound,  \* replies on their way to the client
  posted,    \* packets whose handler waits for a thread
  pushed,    \* PUTs whose handler has pushed and not yet acknowledged
  backlog,   \* per topic: the messages nobody was handed
  open,      \* per topic: the slots connected
  served,    \* per topic: what each slot was called with
  asked,     \* triggers the launcher has not answered
  jobs,      \* the clients whose connection is held by jobs in started_jobs_
  workers_,  \* workers the launcher knows
  stopped    \* was the io_context stopped?

programs == <<step, round, topic, misled>>
listener == <<pending, armed, accepted, stopped>>
links == <<inbound, outbound>>
handlers == <<posted, pushed>>
topics == <<backlog, open, served>>
launcher == <<asked, jobs, workers_>>
vars == <<programs, listener, reading, links, handlers, topics, launcher>>

\* The request a client is at: it names the message of a PUT, the slot of a GET and
\* the job of a trigger.
Requests == Clients \X (1..Rounds)
Current(c) == <<c, round[c]>>

Kinds == {"put", "get", "trigger", "worker_reg"}
Packets == [kind : Kinds, req : Requests, topic : Topics \cup {NoTopic}]
Packet(kind, c, t) == [kind |-> kind, req |-> Current(c), topic |-> t]
Reply(kind, req) == [kind |-> kind, req |-> req]

\* Mutant: for (int i = 0; i <= times; i++).
RoundsOneMore(c) == round[c] > IF c \in Once THEN 1 ELSE Rounds

LastRound(c) == round[c] >= IF c \in Once THEN 1 ELSE Rounds

Gone(c) == step[c] \in {"over", "failed"}

NoPackets == [c \in Clients |-> <<>>]
NoMessages == [t \in Topics |-> <<>>]
NoSlots == [t \in Topics |-> {}]
NothingServed == [t \in Topics |-> [s \in Requests |-> <<>>]]

Init ==
  /\ step = [c \in Clients |-> "start"]
  /\ round = [c \in Clients |-> 1]
  /\ topic = [c \in Clients |-> NoTopic]
  /\ misled = {}
  /\ pending = <<>> /\ armed = TRUE /\ accepted = {} /\ reading = {}
  /\ inbound = NoPackets /\ outbound = NoPackets
  /\ posted = {} /\ pushed = {}
  /\ backlog = NoMessages /\ open = NoSlots /\ served = NothingServed
  /\ asked = {} /\ jobs = {} /\ workers_ = {}
  /\ stopped = FALSE

-----------------------------------------------------------------------------
(* The programs.                                                           *)

\* The kernel completes the connection, whether the server accepts it or not.
Connect(c) ==
  /\ step[c] = "start" /\ ~stopped
  /\ step' = [step EXCEPT ![c] = CASE c \in Loops -> "put"
                                   [] c \in Callers -> "trigger"
                                   [] c \in Workers -> "register"]
  /\ pending' = Append(pending, c)
  /\ UNCHANGED <<round, topic, misled, armed, accepted, stopped, reading, links, handlers,
                 topics, launcher>>

\* What gen() draws is not in use: four random bytes make it new, and a topic that
\* was left with nothing in it is as good as new.
Unused(c, t) ==
  /\ backlog[t] = <<>> /\ open[t] = {}
  /\ \A d \in Clients \ {c} : topic[d] # t

\* Mutant: the header is generated once, before the loop.
DrawOnce(c, t) == IF topic[c] = NoTopic THEN Unused(c, t) ELSE t = topic[c]

Draw(c, t) == Unused(c, t)

Send(c, packet) == inbound' = [inbound EXCEPT ![c] = Append(@, packet)]

SendPut(c) ==
  /\ step[c] = "put"
  /\ \E t \in Topics :
       /\ Draw(c, t)
       /\ topic' = [topic EXCEPT ![c] = t]
       /\ Send(c, Packet("put", c, t))
  /\ step' = [step EXCEPT ![c] = "ack"]
  /\ UNCHANGED <<round, misled, listener, reading, outbound, handlers, topics, launcher>>

\* A blocking read returns the next reply, taken for one to this request.
Receive(c, kind) ==
  /\ outbound[c] # <<>>
  /\ outbound' = [outbound EXCEPT ![c] = Tail(@)]
  /\ misled' = IF Head(outbound[c]) = Reply(kind, Current(c)) THEN misled ELSE misled \cup {c}

\* The acknowledgement is read, and the GET for the same topic written.
ReadAck(c) ==
  /\ step[c] = "ack"
  /\ Receive(c, "ack")
  /\ Send(c, Packet("get", c, topic[c]))
  /\ step' = [step EXCEPT ![c] = "reply"]
  /\ UNCHANGED <<round, topic, listener, reading, handlers, topics, launcher>>

\* A round is over: the next one begins, or the program ends and its socket closes.
NextRound(c, first) ==
  /\ step' = [step EXCEPT ![c] = IF LastRound(c) THEN "over" ELSE first]
  /\ round' = [round EXCEPT ![c] = IF LastRound(c) THEN @ ELSE @ + 1]

ReadReply(c) ==
  /\ step[c] = "reply"
  /\ Receive(c, "data")
  /\ NextRound(c, "put")
  /\ UNCHANGED <<topic, listener, reading, inbound, handlers, topics, launcher>>

SendTrigger(c) ==
  /\ step[c] = "trigger"
  /\ Send(c, Packet("trigger", c, NoTopic))
  /\ step' = [step EXCEPT ![c] = "answer"]
  /\ UNCHANGED <<round, topic, misled, listener, reading, outbound, handlers, topics, launcher>>

ReadAnswer(c) ==
  /\ step[c] = "answer"
  /\ Receive(c, "answer")
  /\ NextRound(c, "trigger")
  /\ UNCHANGED <<topic, listener, reading, inbound, handlers, topics, launcher>>

Register(w) ==
  /\ step[w] = "register"
  /\ Send(w, Packet("worker_reg", w, NoTopic))
  /\ step' = [step EXCEPT ![w] = "serve"]
  /\ UNCHANGED <<round, topic, misled, listener, reading, outbound, handlers, topics, launcher>>

\* A process is killed: what it sent arrives, or does not.
Kill(c) ==
  /\ step[c] # "start" /\ ~Gone(c)
  /\ step' = [step EXCEPT ![c] = "failed"]
  /\ \E rest \in {<<>>, inbound[c]} : inbound' = [inbound EXCEPT ![c] = rest]
  /\ UNCHANGED <<round, topic, misled, listener, reading, outbound, handlers, topics, launcher>>

Program(c) ==
  \/ Connect(c) \/ SendPut(c) \/ ReadAck(c) \/ ReadReply(c)
  \/ SendTrigger(c) \/ ReadAnswer(c) \/ Register(c)

-----------------------------------------------------------------------------
(* tcp_server and main.                                                    *)

\* Who holds a connection, or the worker its socket was moved to.
Held(c) ==
  \/ c \in reading \cup jobs \cup workers_
  \/ \E p \in posted \cup pushed : p.req[1] = c
  \/ \E t \in Topics : \E s \in open[t] : s[1] = c

Open(c) == c \in accepted /\ Held(c)
Descriptors == Cardinality({c \in Clients : Open(c)})

\* A connection is made for the accepted socket and starts to read; the next
\* async_accept is started.
Accept ==
  /\ ~stopped /\ armed /\ pending # <<>> /\ Descriptors < Limit
  /\ accepted' = accepted \cup {Head(pending)}
  /\ reading' = reading \cup {Head(pending)}
  /\ pending' = Tail(pending)
  /\ UNCHANGED <<programs, armed, stopped, links, handlers, topics, launcher>>

\* No descriptor is left: the handler gets an error and does not accept again.
AcceptFails ==
  /\ ~stopped /\ armed /\ pending # <<>> /\ Descriptors >= Limit
  /\ armed' = FALSE
  /\ UNCHANGED <<programs, pending, accepted, stopped, reading, links, handlers, topics,
                 launcher>>

\* SIGINT or SIGTERM: ioc.stop(), the threads are joined and main returns.  Nothing the
\* server held outlives it, and the programs fail at their next call, whose exception
\* nothing catches.
Stop ==
  /\ ~stopped /\ stopped' = TRUE
  /\ step' = [c \in Clients |-> IF Gone(c) THEN step[c] ELSE "failed"]
  /\ pending' = <<>> /\ armed' = FALSE /\ accepted' = {} /\ reading' = {}
  /\ inbound' = NoPackets /\ outbound' = NoPackets
  /\ posted' = {} /\ pushed' = {}
  /\ backlog' = NoMessages /\ open' = NoSlots /\ served' = NothingServed
  /\ asked' = {} /\ jobs' = {} /\ workers_' = {}
  /\ UNCHANGED <<round, topic, misled>>

-----------------------------------------------------------------------------
(* tcp_connection.                                                         *)

\* The read outstanding completes with the next packet.
Reads(c, kinds) ==
  /\ ~stopped /\ c \in reading
  /\ inbound[c] # <<>> /\ Head(inbound[c]).kind \in kinds
  /\ inbound' = [inbound EXCEPT ![c] = Tail(@)]

\* PUT and GET: the handler is posted and the reading goes on.
ReadStore(c) ==
  /\ Reads(c, {"put", "get"})
  /\ posted' = posted \cup {Head(inbound[c])}
  /\ UNCHANGED <<programs, listener, reading, outbound, pushed, topics, launcher>>

\* Mutant: the job's callback does not capture the connection.
ReadTriggerWeak(c) ==
  /\ Reads(c, {"trigger"})
  /\ asked' = asked \cup {Head(inbound[c]).req}
  /\ reading' = reading \ {c}
  /\ UNCHANGED <<programs, listener, outbound, handlers, topics, jobs, workers_>>

\* A trigger: a job keeps the connection from now on; nobody reads until it is answered.
ReadTrigger(c) ==
  /\ Reads(c, {"trigger"})
  /\ asked' = asked \cup {Head(inbound[c]).req}
  /\ jobs' = jobs \cup {c}
  /\ reading' = reading \ {c}
  /\ UNCHANGED <<programs, listener, outbound, handlers, topics, workers_>>

\* worker_reg: the socket goes to a worker, which workers_ never gives up.
ReadRegister(c) ==
  /\ Reads(c, {"worker_reg"})
  /\ workers_' = workers_ \cup {c}
  /\ reading' = reading \ {c}
  /\ UNCHANGED <<programs, listener, outbound, handlers, topics, asked, jobs>>

\* Mutant: after an error the header is read again.
ReadEndAgain(c) ==
  /\ ~stopped /\ c \in reading
  /\ inbound[c] = <<>> /\ Gone(c)
  /\ UNCHANGED vars

\* The peer has closed its socket: the connection is not read any more.
ReadEnd(c) ==
  /\ ~stopped /\ c \in reading
  /\ inbound[c] = <<>> /\ Gone(c)
  /\ reading' = reading \ {c}
  /\ UNCHANGED <<programs, listener, links, handlers, topics, launcher>>

Write(c, reply) == [outbound EXCEPT ![c] = Append(@, reply)]

\* The handler of start_store up to the push.
Store(p) ==
  /\ ~stopped /\ p \in posted /\ p.kind = "put"
  /\ posted' = posted \ {p}
  /\ pushed' = pushed \cup {p}
  /\ backlog' = [backlog EXCEPT ![p.topic] = Append(@, p.req)]
  /\ UNCHANGED <<programs, listener, reading, links, open, served, launcher>>

\* ... and its rest.
Acknowledge(p) ==
  /\ ~stopped /\ p \in pushed
  /\ pushed' = pushed \ {p}
  /\ outbound' = Write(p.req[1], Reply("ack", p.req))
  /\ UNCHANGED <<programs, listener, reading, inbound, posted, topics, launcher>>

\* The handler of start_load: the slot keeps the connection.
Load(p) ==
  /\ ~stopped /\ p \in posted /\ p.kind = "get"
  /\ posted' = posted \ {p}
  /\ open' = [open EXCEPT ![p.topic] = @ \cup {p.req}]
  /\ UNCHANGED <<programs, listener, reading, links, pushed, backlog, served, launcher>>

-----------------------------------------------------------------------------
(* Topics and launcher, by what they promise.                              *)

\* The oldest message goes to every slot, each of which writes it to its client.
HandOut(t) ==
  /\ ~stopped /\ backlog[t] # <<>> /\ open[t] # {}
  /\ served' = [served EXCEPT ![t] = [s \in Requests |->
                  IF s \in open[t] THEN Append(@[s], Head(backlog[t])) ELSE @[s]]]
  /\ outbound' = [c \in Clients |-> outbound[c] \o
                    [i \in 1..Cardinality({s \in open[t] : s[1] = c}) |->
                       Reply("data", Head(backlog[t]))]]
  /\ backlog' = [backlog EXCEPT ![t] = Tail(@)]
  /\ UNCHANGED <<programs, listener, reading, inbound, handlers, open, launcher>>

\* The slots are disconnected once one of them was served.
Release(t) ==
  /\ ~stopped
  /\ \E s \in open[t] : served[t][s] # <<>>
  /\ open' = [open EXCEPT ![t] = {}]
  /\ UNCHANGED <<programs, listener, reading, links, handlers, backlog, served, launcher>>

\* Mutant: the reading is not resumed.
AnswerOnly(r) ==
  /\ ~stopped /\ r \in asked
  /\ \E w \in workers_ : step[w] = "serve"
  /\ asked' = asked \ {r}
  /\ outbound' = Write(r[1], Reply("answer", r))
  /\ UNCHANGED <<programs, listener, reading, inbound, handlers, topics, jobs, workers_>>

\* A worker that serves has answered: on_completion_ writes and resumes the reading.
\* The job stays in started_jobs_.
Answer(r) ==
  /\ ~stopped /\ r \in asked
  /\ \E w \in workers_ : step[w] = "serve"
  /\ asked' = asked \ {r}
  /\ outbound' = Write(r[1], Reply("answer", r))
  /\ reading' = reading \cup {r[1]}
  /\ UNCHANGED <<programs, listener, inbound, handlers, topics, jobs, workers_>>

-----------------------------------------------------------------------------
Programs == \E c \in Clients : Program(c)
Reading == \E c \in Clients : ReadStore(c) \/ ReadTrigger(c) \/ ReadRegister(c) \/ ReadEnd(c)
Handling == \E p \in posted \cup pushed : Store(p) \/ Acknowledge(p) \/ Load(p)
Serving == \E t \in Topics : HandOut(t) \/ Release(t)
Answering == \E r \in asked : Answer(r)

Server == Accept \/ AcceptFails \/ Reading \/ Handling \/ Serving

Next ==
  \/ Programs
  \/ \E c \in Mortal : Kill(c)
  \/ Server
  \/ Answering
  \/ Stop

AllServe == \A w \in Workers : ~Gone(w)

\* The triggers of one caller follow one another; those of several may be dispatched to a
\* worker at a time, and then their requests can mix (Launcher!Misread).
Alone == \A c, d \in Callers : c = d

\* The programs run; the io_context runs what it holds, and the topics keep their promise
\* (TopicQueue!Spec); the launcher answers as long as every worker stays and reads one
\* request after the other (Launcher!EveryJobAnswered).  Nobody need be killed, nor the
\* server be stopped.  That some of the work at hand is done is enough: who is served first
\* is left open.
Fairness == WF_vars(Programs) /\ WF_vars(Server) /\ WF_vars(Answering /\ AllServe /\ Alone)

Spec == Init /\ [][Next]_vars /\ Fairness
-----------------------------------------------------------------------------
(* Properties                                                              *)

Replies == [kind : {"ack", "data", "answer"}, req : Requests]

TypeOK ==
  /\ step \in [Clients -> {"start", "put", "ack", "reply", "trigger", "answer", "register",
                            "serve", "over", "failed"}]
  /\ round \in [Clients -> 1..Rounds]
  /\ topic \in [Clients -> Topics \cup {NoTopic}]
  /\ misled \subseteq Clients
  /\ pending \in Seq(Clients) /\ armed \in BOOLEAN /\ stopped \in BOOLEAN
  /\ accepted \subseteq Clients /\ reading \subseteq Clients
  /\ inbound \in [Clients -> Seq(Packets)] /\ outbound \in [Clients -> Seq(Replies)]
  /\ posted \subseteq Packets /\ pushed \subseteq Packets
  /\ backlog \in [Topics -> Seq(Requests)]
  /\ open \in [Topics -> SUBSET Requests]
  /\ served \in [Topics -> [Requests -> Seq(Requests)]]
  /\ asked \subseteq Requests /\ jobs \subseteq Clients /\ workers_ \subseteq Clients

\* A client that counts on turns reads what it thinks it reads: the acknowledgement of
\* its own PUT, then the very data it has put, or the answer to its own trigger
\* (client.cpp reads a header only after a PUT and a body after a GET: one reply too
\* many would put it out of step with the stream for good).
InStep == misled = {}

\* The server never closes a connection in the face of its client: from the accept to the
\* end of the client some shared_ptr is left, also while nobody reads because a job is
\* at work (main.cpp:224-229).
KeptOpen == \A c \in accepted : ~Gone(c) => Open(c)

\* In the end every client has gone through all its rounds, unless it was killed, the
\* server was stopped or had no descriptor left to accept it; a caller also needs workers
\* that could connect and stay, and no other caller beside it.
EveryRoundEnds ==
  <>[](\A c \in Loops \cup Callers : \/ Gone(c)
                                      \/ (~armed /\ c \notin accepted)
                                      \/ (c \in Callers /\ (~armed \/ ~AllServe \/ ~Alone)))

\* In the end the descriptors of clients that are gone have been given back - but for
\* those of clients that ever sent a trigger and those of workers, which started_jobs_
\* and workers_ keep as long as the server runs.
DescriptorsGivenBack ==
  <>[](\A c \in Clients : Gone(c) /\ Open(c) => c \in jobs \cup workers_)

-----------------------------------------------------------------------------
(* Each topic is a TopicQueue, shared by all clients.                      *)
T(t) == INSTANCE TopicQueue WITH
          Messages <- Requests, Subscriptions <- Requests,
          strict <- FALSE, bound <- FALSE,
          backlog <- backlog[t], open <- open[t], inbox <- served[t], forwarded <- <<>>

TopicsComposed == \A t \in Topics : T(t)!Init /\ [][T(t)!Next \/ stopped']_(T(t)!vars)
=============================================================================
