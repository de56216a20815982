# A verification project for the transport of cpp-serializer

The repository is a message transport: one server process (`main.cpp`) that
keeps topics in memory, starts serverless workers over HTTPS and hands them the
triggers its clients send.  This directory holds TLA+ modules translated from
that code, the TLC configurations that check them on small instances, and proofs
that TLAPS checks for instances of any size.

## 1. Inventory

All of the server runs in handlers of one `boost::asio::io_context`, executed by
`hardware_concurrency()` threads (`main.cpp:365-381`).  A handler is a lambda
given to `async_read`, `async_write`, `net::post` or a timer; what is said to be
"deferred" is posted.  Handlers of one strand never overlap; all others may.

| Component | State | Operations | Talks to |
|---|---|---|---|
| `bucket` (topic), `main.cpp:25-107` | `message_queue_`, `listener_`, `binding_` | `push_message`, `get_connect`, `start_handle_events` on `event_io_strand_` | slots call `tcp_connection::start_write`; `binding_` is an invoker |
| topic table, `main.cpp:109-114, 136-141` | concurrent map from headers to buckets | `get_bucket`: `contains`, `emplace`, `at` | every PUT and GET |
| `tcp_connection`, `main.cpp:116-305` | the socket | read header, read body, start_store, start_load, start_trigger, start_write | buckets, launcher |
| `launcher` and `job`, `launcher.hpp` | `registered_jobs_`, `started_jobs_`, `workers_`, a timer and a state per job | `start_trigger_post`, `start_jobs`, `add_worker`, `create_worker`, `on_worker_ack`, `on_worker_response` | workers, invoker, `on_completion_` to the connection |
| `df::worker`, `worker.hpp` | socket, `valid_` | read loop, `start_post` | launcher |
| `trigger::invoker`, `trigger.hpp` | TLS stream, `retried_`, one deadline | `start_post`, resolve, connect, handshake, write, read | an HTTPS host |
| wire format, `serializer.hpp`, `json-replacement.hpp` | none | `dump`, `parse`, `hton`, `ntoh`, `serialize`, `request_parser` | all sockets |
| `tcp_server`, `main`, `main.cpp:307-387` | acceptor, threads, the descriptors of the process | accept loop, shutdown on a signal | connections |
| clients `client.cpp`, `slsfs-client.cpp` | one socket, the header in use | closed loop of requests and replies | the server |
| trace tools, `basic.hpp`, `scope_exit.hpp` | none that matters | load generation, logging, TLS context | - |

What is hard, and what makes each part correct:

* **bucket** - messages and listeners arrive on any thread while one handler
  drains.  No acknowledged message may vanish or be delivered twice, listeners
  get them in order, a message and a listener must not wait beside each other,
  and a listener should not be thrown away without an answer.
* **topic table** - three accesses that are atomic one by one: one bucket per
  topic whatever the interleaving.
* **launcher** - handlers of many connections and workers run the same loop over
  shared containers: a job is neither lost nor posted twice, a worker that
  registers while a job is in another handler's hands does not leave it behind,
  answers reach the right client once, a reply never finds its job missing.
* **invoker** - posts of several callers share a stream, a counter of retries and
  a deadline: bounded retries, every post ends.
* **wire** - the reader cuts the stream where the sender joined it.
* **connection** - reading resumes exactly once per packet; its handlers run on any
  thread in almost any order; replies of several handlers share one socket, which a
  worker's registration moves away.
* **server and clients** - a connection lives as long as some handler, slot or job
  holds it, and with it a descriptor; the accept loop ends for good when one is
  missing.  No client may find its connection closed, nor take one reply for another,
  and every round must end.

`PROJECT.json` lists every hazard at its line with the properties that cover it.

## 2. Modules

| Module | What it models |
|---|---|
| `TopicQueue` | abstract: what a topic promises (FIFO backlog, hand-out to all open subscriptions, joint release, forwarding when bound to a URL) |
| `Bucket` | one topic with the PUT and GET handlers that reach it; implements `TopicQueue` |
| `BucketProofs`, `SequenceLemmas` | proofs about `Bucket`; lemmas on `ToSet`, `Append`, `Tail` |
| `TopicTable`, `TopicTableProofs` | racing calls of `get_bucket`, and proofs |
| `JobService` | abstract: what the launcher promises to those that send triggers (the first with a header holds it, one worker per trigger, one answer per response) |
| `Launcher`, `LauncherProofs` | launcher, jobs, timers, workers and the race for `itrigger_`; implements `JobService`; and proofs |
| `Invoker`, `InvokerProofs` | the HTTPS client, and proofs |
| `Connection`, `ConnectionProofs` | one connection: its reading loop, the queue of handlers it posts, its writes; and proofs |
| `Transport`, `TransportProofs` | the composition: server, connections and their life, the topics as `TopicQueue`s, the launcher as what it promises, `client.cpp`, `slsfs-client.cpp` and workers; and proofs |
| `Wire`, `WireProofs` | header layout, integer conversion, framing, requests in trigger bodies; and proofs |
| `MC...` | model values for TLC, with symmetry where it is sound |

Every module but `Transport` stands for a part of the program that shares no variable
with the others; they meet at an interface that each describes from its own side.  A PUT
in `Bucket` is a packet `Wire` has delivered and `Connection` has posted (`Reach`
there is `StorePush` or `LoadConnect` here).  A call of `start_trigger_post` is
`RegisterJob` in `Launcher` and `BodyTrigger` in `Connection`, whose `Complete` is
the call of `on_completion_`.  `Launcher`'s `Wake` and `Bucket`'s `TriggerPost`
are each a `StartPost` of `Invoker`.

### How state and actions correspond to the code

*Bucket.*  `message_queue_`, `listener_` are the members of that name; `stage`
says where each packet is in its handlers.  `StorePush`/`StoreEvent` are the two
halves of the lambda of `start_store`, `LoadConnect`/`LoadEvent` those of
`start_load`; between the halves other threads run.  `EventBegin` is the start of
the handler on the strand with its test of both containers, `Deliver` one turn of
the loop over `try_pop` with the signal call, `DrainEnd` the `try_pop` that fails,
`Clear` is `disconnect_all_slots`.  Another GET may connect between the last two.
`TriggerPost` and `TriggerEnd` are the other branch.  Reading two containers in
`EventBegin`, and popping and signalling in `Deliver`, is one step because only
the handler on the strand removes: a push or a connect that slips in between has
the effect of one that comes just before or after.  The number of threads and the
kind of topic are variables chosen at the start and never changed, so one run
covers all of them.

*Launcher.*  `pc` is the program counter of each handler in `start_jobs` and `calls` how
many calls it still makes: `add_worker` makes one and its caller another.  `Pop` takes
the job and starts the scan, `Dispatch` ends it with a worker that is valid then,
`PushBack` ends it with none; `seen` holds the workers the scan cannot miss, so a worker
that registers during a scan may or may not be found.  `FindNoInvoker` and `MakeInvoker`
are the test and the assignment of `itrigger_` in `create_worker`; several handlers may
be between the two, and what undefined behaviour may come of it (`Tear`) is that a
half-written pointer is used, whereupon the model stops as it does after `NullJob`.
`Dispatch` starts the wait on the timer and `Arm` sets its expiry, which cancels that
wait; in between the wait may already have succeeded, for the expiry of a new timer is
in the past.  `StartPost` is the `async_write` to the worker: every handler may start
one on the shared socket, and `write_strand_` orders only their completions.  The socket
takes the request at once or a first part of it, to be completed by `WriteRest`;
meanwhile the worker is in `partly`, and one to which another request is written then is
`garbled`.  What a worker makes of mixed bytes is its own affair, hence external: it may
serve nothing of what it was sent from then on, some of it, or answer a header that
nobody has (`Misread`), for which the server finds no entry and crashes, even on one
thread.  `Read` is one packet of a worker; acknowledgements and responses go to
`strand`, whose head `Acknowledge`, `Complete` or `NullJob` handles.  `Serve`, `Tails`
and `Leave` are the worker process: external.

*Invoker.*  `stage` is the asynchronous operation a post waits for.  `Begin` notes
in `clash` when the stream is given an operation beside another that excludes it;
what happens then is undefined, and the model stops there.  `expired` stands for
the 300 seconds of the only `expires_after`.

*Wire.*  A byte is a number below 256 and an integer in memory the sequence of its
bytes, least significant first.  `dump`, `parse`, `hton`, `ntoh` and
`request_parser` are translated field by field; `ReadHeader` and `ReadBody` are
the loops of `tcp_connection` and of `worker` (`reader` says which).

*Connection.*  `reads` holds the reads outstanding on the socket; each case of the
switch in `start_read_header` is an action, and so is the completion of each kind of
body.  `posted` is the queue of the `io_context`, `running` the handlers threads have
taken, `done` the packets in the order in which they reached their buckets.  A write
is an entry of `writes` (a write_some on the socket) or of `resuming` (between two of
them); `HeaderWorker` sets `moved`, after which `start_write` and `Resume` find a
socket that was moved from.  `turns` says whether the client waits for each reply,
as `client.cpp` does: it takes the first reply to a packet for the only one, while the
bucket sends a GET as many messages as it has drained (`Deliver`).  `arrived` records what
the client has read, `mixed` which replies reached a waiting client with others inside.  That
one thread moves the socket while another writes to it is a data race; the model
takes either order.

*Transport.*  `step` is where each program is in its loop.  `pending` is the backlog of
the listening socket, `armed` whether an `async_accept` is outstanding, `reading` which
connections have a read outstanding.  `Held` lists who can hold the `shared_ptr` of a
connection: a read, a posted handler, a slot in a topic, the `on_completion_` of a job
(`jobs` only grows, as `started_jobs_` does), or the worker the socket was moved to.  A
connection that nobody holds has closed its socket.  The actions of topics are those of
`TopicQueue` that `Bucket` implements (`Store` is its `Publish`, `Load` its
`Subscribe`); `Answer` is what `Launcher` promises for jobs with distinct salts.  A reply
is written whole because a client that waits for its replies gets them so as long as no
GET is sent several messages (`WholeReplies`), and here each topic is put to once.  Of what
`Launcher` promises, an answer in the end is relied on for one caller only (`Alone`): the
triggers of several may be dispatched to one worker at a time, and their requests mix.
A crash of the launcher is `Launcher`'s matter; here the server ends with `Stop`.  `gen()` draws a topic nobody uses (`Unused`); topics that are empty
again stand for new ones.  `misled` records the clients that read another reply than
the one they took it for.  `Stop` is a signal: the server ends, and so do the programs,
at an exception of their next call.

*TopicTable.*  `Contains`, `Emplace` and `At` are the three accesses; a node of
the map is found when hash and comparison agree, from what each reads of a header.

## 3. Runs

| Run | Question | Bounds |
|---|---|---|
| `bucket` | safety, liveness and refinement of a topic | 3 PUTs, 2 GETs, 1 or 2 threads, either kind of topic |
| `bucket_trigger_request` | does each message of a trigger topic issue its request? **no** | 2 PUTs, 1 GET, 2 threads |
| `launcher` | safety of jobs, replies and states | 2 jobs, 2 workers on demand (one mortal), 2 salts, 1 or 2 threads |
| `launcher_live` | is every trigger answered when workers stay? | 2 jobs, 2 workers on demand, 2 threads |
| `launcher_retry` | is a job of a dead worker pushed again? **no** | 1 job, 2 workers |
| `invoker` | retries, deadline, termination | 2 posts, of callers that take turns or overlap |
| `invoker_expiry` | does every wakeup reach the host? **no** | 2 posts of callers that take turns, no faults |
| `connection` | reading, order of handlers, replies, what is lost | 3 packets of any types, up to 2 messages per GET (`MaxDrained`), none after 3 replies (`MaxReplies`), replies in 2 pieces, 1 or 2 threads, a client that waits or not |
| `transport` | do rounds end, are clients in step, connections kept, descriptors given back? | 2 processes of `client.cpp` (one mortal with 2 rounds, one with 1), 1 thread of `slsfs-client.cpp` with 2, 1 worker, 2 topics, 3 descriptors |
| `wire` | framing, for connections and workers | 3 packets, all types, bodies of 0, 1, 3 and 256 bytes, 2-byte keys |
| `wire_request` | does the parser read what the client wrote? **no** | 2 packets |
| `topic_table` | one bucket per topic | 4 calls, 2 keys, 2 salts, 2 sequences |

*Why the bounds suffice.*  A topic's conflicts are between the handler on the
strand and one other; two threads give both, and three messages let one be
drained, one queued and one pushed.  Two jobs with two salts give distinct and
colliding headers; two workers give one that dies while the other arrives.  Two
posts share the four-step budget in all splits.  The 256-byte body needs the
second byte of `datasize`, two packets a boundary and the third what follows a
body.  Three packets let one
overtake two, or be sent while one is handled and one written; a reply in two pieces
can be cut by another.  Two messages to one GET and the reply to the next packet can be
under way together, which is three replies.  A request to a worker is written in one or
two parts; that is enough for another to come to lie inside it.  Four calls of `get_bucket` can all be between `contains` and `emplace`.
Four processes at three
descriptors make an accept fail in every order, but let any three go through all their
rounds; two topics are used again in the second round (`Rounds`, `Once`, `Limit` and
`Mortal` are the names of these bounds).
What is proved (section 5) has no bound.  The inductive invariants `IInv` are in no
run: the proofs check them.

*Deadlock* is not checked: a finite supply of packets, jobs, posts or calls is
used up and the system then rests.

*What the four refuting runs show.*
`bucket_trigger_request`: `main.cpp:86` posts the data of the packet whose handler
runs, so with two PUTs one body is posted twice and the other never, and a GET
posts an empty one, although `binding_` is there "to issue a request to binded
http url when a message comes in" (`main.cpp:33`).
`launcher_retry`: the condition at `launcher.hpp:124` excludes `operation_aborted`
and success, the only ways a `steady_timer` wait ends; the "repush job" of
`launcher.hpp:126` cannot happen.
`invoker_expiry`: `trigger.hpp:80` sets the deadline once in the lifetime of an
invoker that the launcher keeps forever, so "Start one." (`launcher.hpp:113`)
fails silently five minutes later.  In TLC's trace one caller after the other posts,
nothing fails, the first wakeup is served and its connection ends, the 300 seconds pass, and
the second post is dropped for want of a connection.
`wire_request`: `hton` of a `std::size_t` is -1; its "not supported conversion"
(`serializer.hpp:70`) is a `static_assert` of a string, which always holds.

## 4. Fairness

Only what the code's scheduling gives.  `Bucket`: every posted handler is run and
finishes (`io_context::run` on every thread until the end), while clients need not
send.  `Launcher`: posted handlers and timers run, a write that was begun is completed, a
process that is up and was sent no mixed requests serves what it is sent, its replies are
read, and a posted wakeup brings a worker.
The last is an assumption on the environment: `Invoker` shows that it fails 300
seconds after the launcher's first wakeup.  Workers need not register on their
own, leave or die.  `Invoker`: every asynchronous operation completes, with success
or an error (the deadline sees to it).  `Connection`: posted handlers run, operations of
the socket complete, and the launcher answers a trigger, which is what `launcher_live`
shows when workers stay; clients need neither send nor stay, and buckets need not
call the slot of a GET.  `Wire`: reading goes on while there is something to read.
`Transport`: programs run, the server does some of the work it has - which needs only that
its handlers run and topics keep the fairness of `TopicQueue` - and triggers are answered
as long as every worker stays and one client alone sends triggers, so that no requests mix
(`launcher_live`).  Nobody need be killed, nor the server be
stopped.  `TopicQueue`: what faces each other is handed out, and a slot that was served is
released; `ImplementsTopic` shows that `Bucket` does both.

## 5. Proofs

All for every value of the constants, from the named assumptions of the modules
(finite disjoint sets of packets, jobs and workers; a positive number of threads; packets and
requests made of bytes).  The inductive invariants are in the `...Proofs` modules, where they
are used, and the modules of the program keep only what is said of it.

*Bucket.*  `IInv` adds to the checked properties that the strand runs one handler,
where every message is (queued, delivered or requested exactly when its push was
made), and what the draining handler knows: `listener_` is not empty, and once the
queue has been empty every slot was served or belongs to a GET whose own event is
still to come.  That last part is why disconnecting is nearly safe: nobody but the
handler on the strand removes.  `NoMessageLost`, `NoStandoff`, `LateOnly` and
`SingleThreadAnswers` follow.  For `InOrder` the proof adds that the queue is the tail of
what was pushed and that a connected listener which was served has the run that ends
where the queue begins.  Then `Refinement`: each step maps to a step of
`TopicQueue` or a stutter (`StorePush` to `Publish`, `LoadConnect` to `Subscribe`,
`Deliver` to `HandOut`, `TriggerPost` to `Forward`, `Clear` to `Release`), to the
strict one when there is one thread.

*Launcher.*  `IInv` joins `OnePlace`, `NoStrandedJob` and the crash window to facts
about program counters (who holds a job), entries (past its `emplace` a job's
salt has an entry; only submitted jobs travel) and salts (entries and answers
stay with the salt they were made for).  `NoStrandedJob` alone is not inductive: it
needs that a handler in the loop always has a call of `start_jobs` left.
`FewInvokers` needs `InvokerInv`: those that found `itrigger_` null and have not yet
assigned it, and those that have, were all running at one time, on as many threads.
`ResponseInv` follows a response from the worker to `on_completion_` and says that it is
in one place; with it come `OwnAnswer`, whose second part is that a job is answered at most
once, `OnItsWay`, which speaks of the workers that are up and not `garbled`, and `Service`:
each step of the
launcher is a step of `JobService` (`RegisterJob` is `Submit`, `Emplace` is `Hold`,
`Dispatch` is `Give`, `Complete` is `Answer`) or a stutter.  Last comes
the order of the two replies to a job: in each worker's stream and on the strand its
acknowledgement is ahead of its response, and none is left once the job is answered
(`AckInv`); only an answer makes a job finished (`FinishedInv`).  So no step takes `state_`
back: `ForwardOnly`.

*Invoker.*  `IInv` says that while callers take turns the writes of the active post
are bounded by the failures counted in `retried_`; `AtMostFour`, `SharedBudget` and
`SilentAfterExpiry` follow.

*Connection.*  `OneReader` is inductive with the types of what it speaks of.  For
`Overtaking`, `IInv` follows a packet from the stream to its bucket: parts are in the
stream in order, a handler is posted behind those of all earlier packets, the queue is
ascending and behind everything that has left it.  So the packets overtaken by one
that reaches its bucket are in the hands of other threads.  When the client waits,
the replies do it: one to an earlier packet was written only after that packet had
reached its bucket.
`WInv` is about replies: a packet that is still on its way has none, and those to a packet
are numbered without a gap (`FreshInv`, `NumberInv`); one that was made is under way in at most
one place, the queue of writes or a write to be resumed, with exactly the bytes that have
not arrived (`OutputInv`); only a packet of a worker moves the socket (`WorkerInv`); and when
the client waits, all its packets but the last are answered (`TurnInv`).  So a write that
is under way when another starts is to the last packet or belongs to a GET that was sent
several messages: a packet that was not has no reply but the one with its number
(`OnlyReply`).  `NothingLost`, `WholeReplies` and the types follow.

*TopicTable.*  `IInv` says that no two nodes have the same topic and that a call
past its `emplace` finds one: `OneBucketPerTopic` follows although the test and the
`emplace` are not one step.

*Transport.*  For `KeptOpen` the proof says more: what keeps the connection of a client
that is still there is its read, a job or a worker, never only a handler or a slot.  `InStep` follows the topics: only the client whose round
it is has messages, slots and packets with the topic it has drawn, its request is in
exactly one of the places between its PUT and its reply, so what it reads is what it has
put.  `TopicsCompose` says that each topic, whatever clients share it, takes steps of
`TopicQueue` only, until the server is stopped: that is what the composition relies on.

*Wire.*  `ParseDump` says that `parse` undoes `dump`, field by field: the lengths before a
field are those of its place (`Layout`), a number comes back from its four bytes
(`NumberOfMemory`), and `ntoh` is the inverse of `hton` on two and four bytes.  It needs that
the size fits into `datasize`, which is `Announced` in `Regular`: nothing in `serialize`
checks a body for it, so it is a condition on senders.  `Framed` is not inductive, for it does
not say what the unread bytes are.  `Frame` does: there is a function `cut` to the places where
the packets not yet read begin (`IsCut`), the one whose body is awaited before the first byte;
consecutive cuts differ by the length of a packet, the last one is the end of the stream, and
between two of them are the bytes of the packet.  `Send` adds a cut, `ReadHeader` and
`ReadBody` move all of them, and the header read at a cut is by `ParseDump` the one that was
sent, so the reader awaits a body exactly where there is one.  From it follow `StreamFramed` and
`NothingHeldBack`: when too few bytes are left to read on, everything regular has been
read.  `RequestsLost` makes the finding of `wire_request` a theorem: the parser reads -1 for
every position and size.

*What is left when nothing is left to do.*  A liveness property of these modules can fail in
two ways: the program goes on for ever without coming to it, or it comes to rest
before.  The second is a matter of safety, and is excluded for every instance.  `Idle` in
`ConnectionProofs` and in `LauncherProofs`, `Quiet` in `TransportProofs` and `Waiting` in
`WireProofs` say that no step of the server and of what it waits for can be taken; they spell
out the guards, since `ENABLED` is beyond the prover.  Then:

* a connection has answered each packet that has a reply (`IdleAnswered`).  The invariant
  (`IdleInv`) says what is due at each place of the stream, so that a read is never for a body
  where a header comes, and where each packet that was read is: with the launcher, in the
  queue, with a thread, or done with its reply made;
* a launcher has answered each job once, with its own response, except those of workers that
  left or were sent one request inside another, and those for which more wakeups were posted
  than workers came (`IdleAnswered`);
* in the whole system each client has gone through its rounds, except one that was shut out
  after a failed accept, finds no unused topic, or waits for a worker when none is
  there (`QuietWhenServed`, where a trigger that some worker could answer counts as work
  left, `Alone` or not): `LiveInv` says at each step of a program who has its packet or its
  reply;
* and a gone client's descriptor is kept by a job or a worker only (`QuietGivesBack`): a
  slot of a killed client always has its message coming (`GetInv`, `SlotInv`);
* a stream has been read to its end or given away (`NothingHeldBack`).

What TLC adds for small instances is that the steps come to an end under the fairness of
section 4.

## 6. Only model-checked

Liveness (`HandlersFinish`, `EveryJobAnswered`, `EveryPostEnds`, `EveryPacketAnswered`,
`ReadIsStored`, `ReadToTheEnd`, `EveryRoundEnds`, `DescriptorsGivenBack`) and the fairness
half of `ImplementsTopic` are beyond the prover, but for what section 5 says of the states
in which nothing is left to do.  Two gaps remain between those theorems and the properties:
that the steps come to an end needs a measure that decreases over sums and lengths of any
size, hence induction over data; and that the guards `Idle` and its like deny are those
of the actions needs `ENABLED`.  TLC has agreed on the second for the instances of
`connection`, `launcher` and `transport`: in each of their states the predicate holds exactly
when no step of the server can be taken, but for the read that reports that a client is
gone (or the launcher has crashed).  The two properties of refuted runs that are not about
requests (`Repushed`, `EveryPostServed`) and `MessageIssuesRequest` are false, and shown false by TLC alone.

## 7. Not modelled

Logging, the TLS context, command lines, the times clients measure and the wording of
HTTP requests.  The trace tools: a CSV reader and load generators that replay it with the
loop of `slsfs-client.cpp`; `trace_emulator.cpp` is built by no target of
`CMakeLists.txt`.  What a reader makes of a body of 2^32 bytes or more, whose size
`datasize` truncates, is not claimed (`Announced`).  What a worker makes of two requests
written into each other, beyond that it may serve nothing more or bring the server down: that
is for the worker's program, which is not in the repository.  What the TLS stream does with
operations that exclude each other (`clash`).  In `Transport`, jobs have distinct salts
(`Launcher` has the others), writes that are under way do not keep a connection, and with
several callers nothing is claimed of when triggers are answered.

## 8. Plan

Done, in this order: `TopicQueue`, `Bucket`, `Launcher`, `Invoker`, `Wire`,
`TopicTable`, `Connection`, `Transport`, `JobService`, each with its runs and its proofs,
and the safety half of the liveness properties.

What is left: a `Transport` whose triggers may collide or have their requests mixed, and
a proof that its `Answer` is a step of `JobService`, as its topics are of `TopicQueue`.
