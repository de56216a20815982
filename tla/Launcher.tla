------------------------------ MODULE Launcher ------------------------------
(***************************************************************************)
(* The launcher of trigger jobs: class launcher and class job              *)
(* (launcher.hpp), class worker (worker.hpp), and the two handlers of      *)
(* class tcp_connection that call them: a trigger packet whose body was    *)
(* read (start_trigger_post) and a worker_reg packet (add_worker).         *)
(*                                                                         *)
(* Each of these handlers is a process with a program counter over the     *)
(* loop of start_jobs; the io_context runs `threads' of them at a time.    *)
(* Handlers share registered_jobs_, started_jobs_ and workers_, which are  *)
(* concurrent containers: every access is one step.  What workers send is  *)
(* read in order per worker and posted to started_jobs_strand_.            *)
(*                                                                         *)
(* A job is identified with the trigger packet it was made for, a handler  *)
(* with the job or the worker it serves.  Headers of jobs have a zero key  *)
(* and a generated salt; two jobs may be given the same one.               *)
(***************************************************************************)
EXTENDS Naturals, Sequences, FiniteSets, SequencesExt

CONSTANTS
  Jobs,      \* trigger packets
  Workers,   \* worker processes that may connect
  OnDemand,  \* those that connect only after a wakeup was posted
  Mortal,    \* those that may leave or die
  Salts,     \* values of packet_header::random_salt
  ThreadCounts, \* what std::thread::hardware_concurrency() may be
  NoJob,     \* a null job_ptr
  NoSalt     \* the salt of a packet not yet generated

ASSUME SortsAssumption ==
  /\ Jobs \cap Workers = {} /\ IsFiniteSet(Jobs \cup Workers)
  /\ OnDemand \subseteq Workers /\ Mortal \subseteq Workers
  /\ NoJob \notin Jobs /\ NoSalt \notin Salts
ASSUME ThreadsAssumption == ThreadCounts \subseteq Nat \ {0}

Handlers == Jobs \cup Workers

VARIABLES
  threads,          \* threads that run the io_context, chosen at first
  pc,               \* where each handler is
  calls,            \* how many calls of start_jobs it has left, this one included
  hand,             \* its local job_ptr j, while the handler still uses it
  seen,             \* the workers its scan of workers_ cannot miss
  registered_jobs_, \* concurrent_queue<job_ptr>
  started_jobs_,    \* concurrent_unordered_map from headers to job_ptr
  workers_,         \* concurrent_unordered_set of workers
  valid_,           \* the workers whose valid_ is true
  salt,             \* the salt generated for each job's header
  state_,           \* job::state_
  timer,            \* the wait on job::timer_ and what it ended with
  strand,           \* handlers posted to started_jobs_strand_
  toWorker,         \* requests written to a worker and not yet taken by it
  partly,           \* the workers whose last request is only partly written
  garbled,          \* those that were sent a request inside another
  fromWorker,       \* what a worker sent and the transport has not read
  up,               \* the workers whose process runs
  invokers,         \* the handlers that have made an invoker: itrigger_ is the last one,
                    \* null at first
  wakeups,          \* wakeup POSTs not yet answered by a worker
  posted,           \* history: the workers each job was posted to
  answers,          \* history: the jobs whose responses on_completion_ was given
  crashed           \* a null job_ptr or a torn itrigger_ was dereferenced

loopVars == <<pc, calls, hand, seen>>
jobVars == <<salt, state_, timer>>
workerVars == <<workers_, valid_>>
linkVars == <<toWorker, partly, garbled, fromWorker, up>>
launch == <<invokers, wakeups>>
vars == <<threads, loopVars, registered_jobs_, started_jobs_, workerVars, jobVars, strand,
          linkVars, launch, posted, answers, crashed>>

Running == {h \in Handlers : pc[h] \notin {"idle", "done"}}
FreeThread == Cardinality(Running) < threads

Message(kind, j) == [kind |-> kind, job |-> j]

Init ==
  /\ threads \in ThreadCounts
  /\ pc = [h \in Handlers |-> "idle"]
  /\ calls = [h \in Handlers |-> IF h \in Workers THEN 2 ELSE 1]
  /\ hand = [h \in Handlers |-> NoJob]
  /\ seen = [h \in Handlers |-> {}]
  /\ registered_jobs_ = <<>>
  /\ started_jobs_ = [s \in Salts |-> NoJob]
  /\ workers_ = {}
  /\ valid_ = Workers
  /\ salt = [j \in Jobs |-> NoSalt]
  /\ state_ = [j \in Jobs |-> "registered"]
  /\ timer = [j \in Jobs |-> "idle"]
  /\ strand = <<>>
  /\ toWorker = [w \in Workers |-> <<>>] /\ partly = {} /\ garbled = {}
  /\ fromWorker = [w \in Workers |-> <<>>]
  /\ up = Workers
  /\ invokers = {} /\ wakeups = 0
  /\ posted = [j \in Jobs |-> <<>>]
  /\ answers = [j \in Jobs |-> <<>>]
  /\ crashed = FALSE

Goto(h, from, to) ==
  /\ pc[h] = from
  /\ pc' = [pc EXCEPT ![h] = to]

-----------------------------------------------------------------------------
(* start_trigger_post                                                      *)

\* The header is generated and the job pushed: from here on every handler in
\* start_jobs can take it.
RegisterJob(j) ==
  /\ FreeThread
  /\ Goto(j, "idle", "emplace")
  /\ \E s \in Salts : salt' = [salt EXCEPT ![j] = s]
  /\ registered_jobs_' = Append(registered_jobs_, j)
  /\ UNCHANGED <<threads, calls, hand, seen, started_jobs_, workerVars, state_, timer, strand,
                 linkVars, launch, posted, answers, crashed>>

\* started_jobs_.emplace, which leaves an entry with an equal header alone.
Emplace(j) ==
  /\ Goto(j, "emplace", "pop")
  /\ started_jobs_' = IF started_jobs_[salt[j]] = NoJob
                      THEN [started_jobs_ EXCEPT ![salt[j]] = j]
                      ELSE started_jobs_
  /\ UNCHANGED <<threads, calls, hand, seen, registered_jobs_, workerVars, jobVars, strand,
                 linkVars, launch, posted, answers, crashed>>

-----------------------------------------------------------------------------
(* start_jobs                                                              *)

\* try_pop gives a job; the scan over workers_ starts.
Pop(h) ==
  /\ registered_jobs_ # <<>>
  /\ Goto(h, "pop", "scan")
  /\ hand' = [hand EXCEPT ![h] = Head(registered_jobs_)]
  /\ seen' = [seen EXCEPT ![h] = workers_]
  /\ registered_jobs_' = Tail(registered_jobs_)
  /\ UNCHANGED <<threads, calls, started_jobs_, workerVars, jobVars, strand, linkVars,
                 launch, posted, answers, crashed>>

\* Mutant: start_jobs calls itself again at its end.
ReturnAgain(h, from) ==
  /\ Goto(h, from, "pop")
  /\ calls' = [calls EXCEPT ![h] = @ - 1]

\* A call of start_jobs returns; the handler makes its next one or ends.
Return(h, from) ==
  /\ Goto(h, from, IF calls[h] > 1 THEN "pop" ELSE "done")
  /\ calls' = [calls EXCEPT ![h] = @ - 1]

PopNothing(h) ==
  /\ registered_jobs_ = <<>>
  /\ Return(h, "pop")
  /\ UNCHANGED <<threads, hand, seen, registered_jobs_, started_jobs_, workerVars, jobVars, strand,
                 linkVars, launch, posted, answers, crashed>>

\* start_post: a composed async_write on the worker's socket, which every handler may
\* start at any time (write_strand_ orders completions only).  The socket takes all of
\* the request at once or a first part; bytes sent before the rest come to lie inside the
\* request, and what the worker reads from there on is in nobody's hands.  A write to a
\* dead worker is lost.
StartPost(w, j) ==
  \/ w \notin up \ garbled /\ UNCHANGED <<toWorker, partly, garbled>>
  \/ /\ w \in up \ (garbled \cup partly)
     /\ toWorker' = [toWorker EXCEPT ![w] = Append(@, j)]
     /\ partly' \in {partly, partly \cup {w}}
     /\ UNCHANGED garbled
  \/ /\ w \in up \cap partly
     /\ garbled' = garbled \cup {w} /\ partly' = partly \ {w}
     /\ UNCHANGED toWorker

\* get_available_worker returns a worker that was valid when it was asked (the
\* order of the set is that of pointer hashes), start_post writes the job to
\* it, and timer_.async_wait is called.
Dispatch(h, w) ==
  /\ w \in workers_ \cap valid_
  /\ Goto(h, "scan", "arm")
  /\ posted' = [posted EXCEPT ![hand[h]] = Append(@, w)]
  /\ StartPost(w, hand[h])
  /\ timer' = [timer EXCEPT ![hand[h]] = "waiting"]
  /\ seen' = [seen EXCEPT ![h] = {}]
  /\ UNCHANGED <<threads, calls, hand, registered_jobs_, started_jobs_, workerVars, salt,
                 state_, strand, fromWorker, up, launch, answers, crashed>>

\* A pending wait is completed with operation_aborted.
Cancel(j) == timer' = [timer EXCEPT ![j] = IF @ = "waiting" THEN "aborted" ELSE @]

\* expires_from_now(1s) sets the expiry and, like any change of it, cancels the
\* wait that was started before.
Arm(h) ==
  /\ Goto(h, "arm", "pop")
  /\ Cancel(hand[h])
  /\ hand' = [hand EXCEPT ![h] = NoJob]
  /\ UNCHANGED <<threads, calls, seen, registered_jobs_, started_jobs_, workerVars, salt,
                 state_, strand, linkVars, launch, posted, answers, crashed>>

\* get_available_worker returns nullptr: the job goes back, to the end of the
\* queue.  Workers added since the scan began may have been missed.
PushBack(h) ==
  /\ seen[h] \cap valid_ = {}
  /\ Goto(h, "scan", "wake")
  /\ registered_jobs_' = Append(registered_jobs_, hand[h])
  /\ hand' = [hand EXCEPT ![h] = NoJob]
  /\ seen' = [seen EXCEPT ![h] = {}]
  /\ UNCHANGED <<threads, calls, started_jobs_, workerVars, jobVars, strand, linkVars, launch,
                 posted, answers, crashed>>

\* Mutant: itrigger_ is not tested.
NotTested(h) ==
  /\ Goto(h, "wake", "make")
  /\ UNCHANGED <<threads, calls, hand, seen, registered_jobs_, started_jobs_, workerVars, jobVars,
                 strand, linkVars, launch, posted, answers, crashed>>

\* create_worker: itrigger_ is null, and this handler will make the invoker ...
FindNoInvoker(h) ==
  /\ invokers = {}
  /\ Goto(h, "wake", "make")
  /\ UNCHANGED <<threads, calls, hand, seen, registered_jobs_, started_jobs_, workerVars, jobVars,
                 strand, linkVars, launch, posted, answers, crashed>>

\* ... also when another was faster: make_shared and the assignment.  From now on
\* itrigger_ is not null.
MakeInvoker(h) ==
  /\ Goto(h, "make", "wake")
  /\ invokers' = invokers \cup {h}
  /\ UNCHANGED <<threads, calls, hand, seen, registered_jobs_, started_jobs_, workerVars, jobVars,
                 strand, linkVars, wakeups, posted, answers, crashed>>

\* Mutant: the loop is left without a wakeup.
WakeForgotten(h) ==
  /\ invokers # {}
  /\ Return(h, "wake")
  /\ UNCHANGED <<threads, hand, seen, registered_jobs_, started_jobs_, workerVars, jobVars, strand,
                 linkVars, launch, posted, answers, crashed>>

\* itrigger_ posts the wakeup, from job_launch_strand_, and the loop is left.
Wake(h) ==
  /\ invokers # {}
  /\ Return(h, "wake")
  /\ wakeups' = wakeups + 1
  /\ UNCHANGED <<threads, hand, seen, registered_jobs_, started_jobs_, workerVars, jobVars, strand,
                 linkVars, invokers, posted, answers, crashed>>

\* While k is between its test and the end of its assignment, itrigger_ is read or
\* assigned by another handler or read by the post of a wakeup, on a thread of its own:
\* a data race on a shared_ptr.
Torn(k) ==
  /\ pc[k] = "make"
  /\ \/ \E h \in Handlers \ {k} : pc[h] \in {"wake", "make"}
     \/ FreeThread /\ wakeups > 0

\* What it may come to, besides going well: a half-written pointer is used.
Tear ==
  /\ \E k \in Handlers : Torn(k)
  /\ crashed' = TRUE
  /\ UNCHANGED <<threads, loopVars, registered_jobs_, started_jobs_, workerVars, jobVars, strand,
                 linkVars, launch, posted, answers>>

\* Mutant: the job is pushed back when its time is over, answered or not.
RePushOnExpiry(ec) == ec = "ok"

\* A wait on timer_ completes with ec and its handler runs.  The expiry of a new
\* timer is in the past, so a wait that is not cancelled in time succeeds.
RePushOn(ec) == ec # "ok" /\ ec # "aborted"

TimerHandler(j) ==
  /\ FreeThread
  /\ timer[j] \in {"waiting", "aborted"}
  /\ timer' = [timer EXCEPT ![j] = "handled"]
  /\ LET ec == IF timer[j] = "waiting" THEN "ok" ELSE "aborted"
     IN  registered_jobs_' = IF RePushOn(ec) THEN Append(registered_jobs_, j)
                                             ELSE registered_jobs_
  /\ UNCHANGED <<threads, loopVars, started_jobs_, workerVars, salt, state_, strand, linkVars,
                 launch, posted, answers, crashed>>

\* The socket has room again: the composed async_write goes on with the rest.
WriteRest(w) ==
  /\ FreeThread
  /\ w \in partly
  /\ partly' = partly \ {w}
  /\ UNCHANGED <<threads, loopVars, registered_jobs_, started_jobs_, workerVars, jobVars, strand,
                 toWorker, garbled, fromWorker, up, launch, posted, answers, crashed>>

-----------------------------------------------------------------------------
(* Workers                                                                 *)

\* worker_reg: the worker joins workers_ and its reading starts; add_worker
\* calls start_jobs and so does its caller.
AddWorker(w) ==
  /\ FreeThread
  /\ w \in up
  /\ w \in OnDemand => wakeups > 0
  /\ Goto(w, "idle", "pop")
  /\ workers_' = workers_ \cup {w}
  /\ wakeups' = IF w \in OnDemand THEN wakeups - 1 ELSE wakeups
  /\ UNCHANGED <<threads, calls, hand, seen, registered_jobs_, started_jobs_, valid_, jobVars, strand,
                 linkVars, invokers, posted, answers, crashed>>

\* The worker process takes a request that is whole, acknowledges it and answers it.
Serve(w) ==
  /\ w \in up
  /\ toWorker[w] # <<>> /\ (w \in partly => Len(toWorker[w]) > 1)
  /\ LET j == Head(toWorker[w])
     IN  fromWorker' = [fromWorker EXCEPT ![w] = @ \o <<Message("ack", j), Message("response", j)>>]
  /\ toWorker' = [toWorker EXCEPT ![w] = Tail(@)]
  /\ UNCHANGED <<threads, loopVars, registered_jobs_, started_jobs_, workerVars, jobVars, strand,
                 partly, garbled, up, launch, posted, answers, crashed>>

\* It takes mixed bytes for a request and answers a header that nobody was given.  The
\* handler of that reply finds no entry, as in NullJob.
Misread(w) ==
  /\ FreeThread
  /\ w \in up \cap garbled
  /\ Len(toWorker[w]) <= 1 /\ fromWorker[w] = <<>> /\ strand = <<>>
  /\ crashed' = TRUE
  /\ UNCHANGED <<threads, loopVars, registered_jobs_, started_jobs_, workerVars, jobVars, strand,
                 linkVars, launch, posted, answers>>

\* It leaves after worker_dereg, or dies: what it sent arrives up to some
\* message, perhaps cut inside the body of a response.
Tails(w) ==
  LET sent == fromWorker[w]
      upto(n) == SubSeq(sent, 1, n)
  IN  {Append(upto(n), Message("eof", NoJob)) : n \in 0..Len(sent)}
      \cup {Append(upto(n - 1), Message("cut", NoJob)) :
              n \in {i \in 1..Len(sent) : sent[i].kind = "response"}}
      \cup {sent \o <<Message("dereg", NoJob), Message("eof", NoJob)>>}

Leave(w) ==
  /\ w \in Mortal \cap up \cap workers_
  /\ up' = up \ {w}
  /\ toWorker' = [toWorker EXCEPT ![w] = <<>>] /\ partly' = partly \ {w}
  /\ \E tail \in Tails(w) : fromWorker' = [fromWorker EXCEPT ![w] = tail]
  /\ UNCHANGED <<threads, loopVars, registered_jobs_, started_jobs_, workerVars, jobVars, strand,
                 garbled, launch, posted, answers, crashed>>

\* Mutant: replies are posted to the io_context, where any order is possible.
ReadUnstranded(w) ==
  /\ FreeThread
  /\ fromWorker[w] # <<>>
  /\ fromWorker' = [fromWorker EXCEPT ![w] = Tail(@)]
  /\ LET m == Head(fromWorker[w])
     IN  /\ IF m.kind \in {"ack", "response"}
            THEN strand' \in {Append(strand, m), <<m>> \o strand}
            ELSE UNCHANGED strand
         /\ valid_' = IF m.kind \in {"dereg", "eof"} THEN valid_ \ {w} ELSE valid_
  /\ UNCHANGED <<threads, loopVars, registered_jobs_, started_jobs_, workers_, jobVars, toWorker,
                 partly, garbled, up, launch, posted, answers, crashed>>

\* Mutant: a response is taken only for a job already seen to be acknowledged.
ReadAcknowledged(w) ==
  /\ FreeThread
  /\ fromWorker[w] # <<>>
  /\ fromWorker' = [fromWorker EXCEPT ![w] = Tail(@)]
  /\ LET m == Head(fromWorker[w])
     IN  /\ strand' = IF m.kind = "ack" \/ (m.kind = "response" /\ state_[m.job] = "started")
                      THEN Append(strand, m) ELSE strand
         /\ valid_' = IF m.kind \in {"dereg", "eof"} THEN valid_ \ {w} ELSE valid_
  /\ UNCHANGED <<threads, loopVars, registered_jobs_, started_jobs_, workers_, jobVars, toWorker,
                 partly, garbled, up, launch, posted, answers, crashed>>

\* worker::start_read_header and start_read_body: replies are posted to
\* started_jobs_strand_; only a failed header read makes the worker invalid.
Read(w) ==
  /\ FreeThread
  /\ fromWorker[w] # <<>>
  /\ fromWorker' = [fromWorker EXCEPT ![w] = Tail(@)]
  /\ LET m == Head(fromWorker[w])
     IN  /\ strand' = IF m.kind \in {"ack", "response"} THEN Append(strand, m) ELSE strand
         /\ valid_' = IF m.kind \in {"dereg", "eof"} THEN valid_ \ {w} ELSE valid_
  /\ UNCHANGED <<threads, loopVars, registered_jobs_, started_jobs_, workers_, jobVars, toWorker,
                 partly, garbled, up, launch, posted, answers, crashed>>

\* Mutant: headers are compared by key only, and every job has the zero key.
FoundByKey ==
  IF \A s \in Salts : started_jobs_[s] = NoJob THEN NoJob
  ELSE started_jobs_[CHOOSE s \in Salts : started_jobs_[s] # NoJob]

\* started_jobs_[header] for the header of the reply at the strand's head.
Found == started_jobs_[salt[Head(strand).job]]

\* The handler of on_worker_ack.
Acknowledge ==
  /\ FreeThread
  /\ strand # <<>> /\ Head(strand).kind = "ack" /\ Found # NoJob
  /\ strand' = Tail(strand)
  /\ state_' = [state_ EXCEPT ![Found] = "started"]
  /\ Cancel(Found)
  /\ UNCHANGED <<threads, loopVars, registered_jobs_, started_jobs_, workerVars, salt, linkVars,
                 launch, posted, answers, crashed>>

\* Mutant: the entry of a finished job is erased.
CompleteErase ==
  /\ FreeThread
  /\ strand # <<>> /\ Head(strand).kind = "response" /\ Found # NoJob
  /\ strand' = Tail(strand)
  /\ answers' = [answers EXCEPT ![Found] = Append(@, Head(strand).job)]
  /\ state_' = [state_ EXCEPT ![Found] = "finished"]
  /\ started_jobs_' = [started_jobs_ EXCEPT ![salt[Found]] = NoJob]
  /\ UNCHANGED <<threads, loopVars, registered_jobs_, workerVars, salt, timer, linkVars,
                 launch, posted, crashed>>

\* The handler of on_worker_response: on_completion_ writes to the client.
Complete ==
  /\ FreeThread
  /\ strand # <<>> /\ Head(strand).kind = "response" /\ Found # NoJob
  /\ strand' = Tail(strand)
  /\ answers' = [answers EXCEPT ![Found] = Append(@, Head(strand).job)]
  /\ state_' = [state_ EXCEPT ![Found] = "finished"]
  /\ UNCHANGED <<threads, loopVars, registered_jobs_, started_jobs_, workerVars, salt, timer, linkVars,
                 launch, posted, crashed>>

\* operator[] finds no entry, inserts a null job_ptr, and the handler uses it.
NullJob ==
  /\ FreeThread
  /\ strand # <<>> /\ Found = NoJob
  /\ crashed' = TRUE
  /\ UNCHANGED <<threads, loopVars, registered_jobs_, started_jobs_, workerVars, jobVars, strand,
                 linkVars, launch, posted, answers>>

-----------------------------------------------------------------------------
Handle(h) ==
  \/ Pop(h) \/ PopNothing(h) \/ Arm(h) \/ PushBack(h)
  \/ FindNoInvoker(h) \/ MakeInvoker(h) \/ Wake(h)
  \/ \E w \in Workers : Dispatch(h, w)

Strand == Acknowledge \/ Complete \/ NullJob

Next ==
  /\ ~crashed
  /\ \/ \E j \in Jobs : RegisterJob(j) \/ Emplace(j) \/ TimerHandler(j)
     \/ \E h \in Handlers : Handle(h)
     \/ \E w \in Workers : \/ AddWorker(w) \/ WriteRest(w) \/ Serve(w)
                            \/ Misread(w) \/ Leave(w) \/ Read(w)
     \/ Strand \/ Tear

\* The io_context runs what it holds; a wakeup brings a worker, and a worker that runs
\* serves the requests it can read.  There are finitely many such steps, so that none is
\* put off for ever.  Nobody must submit, leave or die.
System ==
  \/ \E j \in Jobs : Emplace(j) \/ TimerHandler(j)
  \/ \E h \in Handlers : Handle(h)
  \/ \E w \in Workers : WriteRest(w) \/ (w \notin garbled /\ Serve(w)) \/ Read(w)
  \/ \E w \in OnDemand : AddWorker(w)
  \/ Strand

Fairness == WF_vars(~crashed /\ System)

Spec == Init /\ [][Next]_vars /\ Fairness

-----------------------------------------------------------------------------
(* Properties                                                              *)

Replies == [kind : {"ack", "response"}, job : Jobs]
Notices == [kind : {"dereg", "eof", "cut"}, job : {NoJob}]
Messages == Replies \cup Notices

TypeOK ==
  /\ threads \in ThreadCounts
  /\ pc \in [Handlers -> {"idle", "emplace", "pop", "scan", "arm", "wake", "make", "done"}]
  /\ calls \in [Handlers -> 0..2]
  /\ hand \in [Handlers -> Jobs \cup {NoJob}]
  /\ seen \in [Handlers -> SUBSET Workers]
  /\ registered_jobs_ \in Seq(Jobs)
  /\ started_jobs_ \in [Salts -> Jobs \cup {NoJob}]
  /\ workers_ \subseteq Workers /\ valid_ \subseteq Workers /\ up \subseteq Workers
  /\ salt \in [Jobs -> Salts \cup {NoSalt}]
  /\ state_ \in [Jobs -> {"registered", "started", "finished"}]
  /\ timer \in [Jobs -> {"idle", "waiting", "aborted", "handled"}]
  /\ strand \in Seq(Replies)
  /\ toWorker \in [Workers -> Seq(Jobs)]
  /\ partly \subseteq Workers /\ garbled \subseteq Workers
  /\ fromWorker \in [Workers -> Seq(Messages)]
  /\ invokers \subseteq Handlers /\ wakeups \in Nat
  /\ posted \in [Jobs -> Seq(Workers)]
  /\ answers \in [Jobs -> Seq(Jobs)]
  /\ crashed \in BOOLEAN

Submitted(j) == salt[j] # NoSalt
Queued(j) == j \in ToSet(registered_jobs_)
Held(j) == \E h \in Handlers : pc[h] = "scan" /\ hand[h] = j
Posted(j) == posted[j] # <<>>

\* No two jobs were given the same salt.
Distinct == \A i, j \in Jobs : Submitted(i) /\ salt[i] = salt[j] => i = j

\* A submitted job is in registered_jobs_, or in the hands of one handler that
\* looks for a worker, or was posted to one worker: start_jobs, called from many
\* handlers at once, neither loses a job nor posts one twice.
OnePlace ==
  \A j \in Jobs :
    /\ Submitted(j) <=> Queued(j) \/ Held(j) \/ Posted(j)
    /\ ~(Queued(j) /\ Held(j)) /\ ~(Queued(j) /\ Posted(j)) /\ ~(Held(j) /\ Posted(j))
    /\ Len(posted[j]) <= 1
    /\ \A h, k \in Handlers :
         pc[h] = "scan" /\ pc[k] = "scan" /\ hand[h] = j /\ hand[k] = j => h = k

\* A queued job is never abandoned: a handler that will call try_pop again is on
\* its way, or a wakeup is (its worker will register and call start_jobs).  The
\* job may have been in a handler's hands while a worker registered, found the
\* queue empty and went idle.
NoStrandedJob ==
  registered_jobs_ # <<>> => Running # {} \/ wakeups > 0

\* The server is brought down by nothing but a worker that was sent one request inside
\* another, and its two races, both of which need a second thread: a reply finds no entry
\* in started_jobs_ while start_trigger_post is between registered_jobs_.push and
\* started_jobs_.emplace, or itrigger_ is used while another handler, which found it null
\* too, assigns it.
CrashWindow ==
  crashed => \/ garbled # {}
             \/ /\ threads > 1
                /\ (\E j \in Jobs : pc[j] = "emplace") \/ \E k \in Handlers : Torn(k)

\* create_worker is to make one invoker, whose stream all wakeups share; unsynchronised it
\* makes up to one per thread, and never another once one of them was assigned.
FewInvokers == Cardinality(invokers) <= threads

\* A client is answered with the response to another client's trigger only if
\* both jobs were generated the same salt; and with distinct salts on_completion_ runs
\* at most once per job, as it must: it resumes the reading of the client's connection.
OwnAnswer ==
  /\ \A j \in Jobs : \A a \in ToSet(answers[j]) : salt[a] = salt[j]
  /\ Distinct => \A j \in Jobs : Len(answers[j]) <= 1

\* What is promised to the clients of the launcher, whatever handlers, timers and strands
\* do: one holder per header, one worker per job, one answer per response.
JS == INSTANCE JobService WITH holder <- started_jobs_, given <- posted
ImplementsService == JS!Spec

Phase(s) == CASE s = "registered" -> 0 [] s = "started" -> 1 [] s = "finished" -> 2

\* With distinct salts a job's state_ only advances: the acknowledgement of a
\* worker is handled before its response.
ForwardOnly ==
  [][Distinct => \A j \in Jobs : Phase(state_[j]) <= Phase(state_'[j])]_vars

\* A job posted to a worker that neither left nor died is still on its way: with
\* the worker, in its unread replies, on the strand, or given to on_completion_ - unless
\* one request to that worker was written inside another.
OnItsWay ==
  \A j \in Jobs : \A w \in (ToSet(posted[j]) \cap up) \ garbled :
    \/ j \in ToSet(toWorker[w])
    \/ Message("response", j) \in ToSet(fromWorker[w]) \cup ToSet(strand)
    \/ \E i \in Jobs : j \in ToSet(answers[i])

\* With workers that stay and distinct salts every submitted trigger has been answered in
\* the end, unless the server was brought down (CrashWindow) or requests to its worker
\* were mixed.
EveryJobAnswered ==
  <>[](crashed \/ ~Distinct \/ \A j \in Jobs :
         Submitted(j) => answers[j] # <<>> \/ ToSet(posted[j]) \cap garbled # {})

\* What the handler of the wait on timer_ says it does ("repush job"): a job that
\* was posted and gets no answer from its worker is pushed again.
Repushed ==
  \A j \in Jobs :
    Posted(j) ~> (answers[j] # <<>> \/ Queued(j) \/ Len(posted[j]) > 1 \/ crashed \/ ~Distinct)
=============================================================================
