----------------------------- MODULE Connection -----------------------------
(***************************************************************************)
(* One connection: class tcp_connection of main.cpp.                       *)
(*                                                                         *)
(* The client's packets are numbered in the order in which it sends them.  *)
(* One asynchronous read at a time takes a header or a body from the       *)
(* stream; PUTs and GETs are posted to io_context_, whose queue is FIFO    *)
(* and is served by `threads' threads, triggers go to the launcher and     *)
(* suspend reading until it answers, and a worker_reg packet moves the     *)
(* socket away.  A handler posted for a packet has two halves: what it     *)
(* does to the bucket, and the rest.                                       *)
(*                                                                         *)
(* External are the client, the calls of start_write by buckets and of     *)
(* on_completion_ by the launcher, and the operations of the socket: an    *)
(* async_write is a series of write_some operations, which stand in one    *)
(* FIFO queue of the socket and each send some of what is left.  The       *)
(* strand given to async_write runs what follows a write_some, it does not *)
(* keep two writes apart.                                                  *)
(***************************************************************************)
EXTENDS Naturals, Sequences, FiniteSets, SequencesExt

CONSTANTS
  MaxPackets,   \* bound: packets the client sends
  MaxDrained,   \* bound: messages a bucket hands to one GET
  MaxReplies,   \* bound: replies made before a bucket hands out its last one
  Units,        \* pieces in which a reply may leave
  ThreadCounts  \* what std::thread::hardware_concurrency() may be

ASSUME BoundsAssumption == MaxPackets \in Nat /\ MaxDrained \in Nat \ {0} /\ Units \in Nat \ {0}
ASSUME ThreadsAssumption == ThreadCounts \subseteq Nat \ {0}

VARIABLES
  turns,      \* does the client wait for each reply, as client.cpp does? (chosen at first)
  threads,    \* threads that run io_context_ (chosen at first)
  kinds,      \* the type of each packet sent so far
  peer,       \* is the client "up" or "gone"?
  inbound,    \* headers and bodies on their way to the server
  reads,      \* the reads outstanding on socket_
  posted,     \* packets whose handler is in the queue of io_context_
  running,    \* packets whose handler a thread has taken
  done,       \* packets that have reached their bucket, in that order
  submitted,  \* triggers the launcher has not answered
  moved,      \* has add_worker taken the socket?
  writes,     \* the write_some operations on the socket, in order
  resuming,   \* writes whose next write_some is still to be started
  written,    \* replies start_write was called with
  arrived,    \* history: units of each reply the client has got
  mixed       \* history: replies it got with units of others in between, if it waits

conf == <<turns, threads>>
client == <<kinds, peer>>
queue == <<posted, running, done>>
output == <<writes, resuming, written, arrived, mixed>>
vars == <<conf, client, inbound, reads, queue, submitted, moved, output>>

Ids == 1..MaxPackets
Kinds == {"put", "get", "trigger", "stray", "worker_reg"}
WithBody == {"put", "trigger"}
Sent == 1..Len(kinds)
Parts == [packet : Ids, part : {"header", "body"}]
IsPosted(p) == kinds[p] \in {"put", "get"}

\* Packets whose handler has been posted.
Accepted == ToSet(posted) \cup running \cup ToSet(done)

\* The n-th reply to packet p; only a GET may have more than one.
Replies == Ids \X (1..MaxDrained)
RepliesTo(p) == {r \in written : r[1] = p}
Answered(p) == \E r \in RepliesTo(p) : arrived[r] = Units

Init ==
  /\ turns \in BOOLEAN
  /\ threads \in ThreadCounts
  /\ kinds = <<>> /\ peer = "up" /\ inbound = <<>>
  /\ reads = <<"header">>
  /\ posted = <<>> /\ running = {} /\ done = <<>>
  /\ submitted = {} /\ moved = FALSE
  /\ writes = <<>> /\ resuming = {} /\ written = {}
  /\ arrived = [r \in Replies |-> 0] /\ mixed = {}

-----------------------------------------------------------------------------
(* The client.                                                             *)

Tokens(p, kind) ==
  LET header == [packet |-> p, part |-> "header"]
      body == [packet |-> p, part |-> "body"]
  IN IF kind \in WithBody THEN <<header, body>> ELSE <<header>>

\* Mutant: the client does not read the acknowledgement of a PUT.
SendUnread(kind) ==
  /\ peer = "up" /\ Len(kinds) < MaxPackets
  /\ "worker_reg" \notin ToSet(kinds)
  /\ turns => \A p \in Sent : kinds[p] # "put" => Answered(p)
  /\ inbound' = inbound \o Tokens(Len(kinds) + 1, kind)
  /\ kinds' = Append(kinds, kind)
  /\ UNCHANGED <<conf, peer, reads, queue, submitted, moved, output>>

Send(kind) ==
  /\ peer = "up" /\ Len(kinds) < MaxPackets
  /\ "worker_reg" \notin ToSet(kinds)
  /\ turns => \A p \in Sent : Answered(p)
  /\ inbound' = inbound \o Tokens(Len(kinds) + 1, kind)
  /\ kinds' = Append(kinds, kind)
  /\ UNCHANGED <<conf, peer, reads, queue, submitted, moved, output>>

\* The stream ends anywhere in what is on its way.
HangUp ==
  /\ peer = "up" /\ peer' = "gone"
  /\ \E n \in 0..Len(inbound) : inbound' = SubSeq(inbound, 1, n)
  /\ UNCHANGED <<conf, kinds, reads, queue, submitted, moved, output>>

-----------------------------------------------------------------------------
(* Writing.                                                                *)

\* async_write fails at once on the socket that was moved from.
StartWrite(p) ==
  LET r == <<p, Cardinality(RepliesTo(p)) + 1>> IN
  /\ written' = written \cup {r}
  /\ writes' = IF moved THEN writes ELSE Append(writes, [reply |-> r, left |-> Units])
  /\ UNCHANGED <<resuming, arrived, mixed>>

\* Mutant: async_write_some instead of async_write.
TransmitOnce ==
  /\ writes # <<>> /\ peer = "up"
  /\ LET r == Head(writes).reply IN
     \E n \in 1..Head(writes).left : arrived' = [arrived EXCEPT ![r] = @ + n]
  /\ writes' = Tail(writes)
  /\ UNCHANGED <<conf, client, inbound, reads, queue, submitted, moved, resuming, written, mixed>>

\* A write_some sends what the buffer of the socket takes.
Transmit ==
  /\ writes # <<>> /\ peer = "up"
  /\ LET r == Head(writes).reply
         left == Head(writes).left
     IN \E n \in 1..left :
          /\ arrived' = [arrived EXCEPT ![r] = @ + n]
          /\ resuming' = resuming \cup IF n < left THEN {[reply |-> r, left |-> left - n]} ELSE {}
  /\ mixed' = mixed \cup {q \in Replies \ {Head(writes).reply} :
                           turns /\ arrived[q] \in 1..(Units - 1)}
  /\ writes' = Tail(writes)
  /\ UNCHANGED <<conf, client, inbound, reads, queue, submitted, moved, written>>

WriteError ==
  /\ writes # <<>> /\ peer = "gone"
  /\ writes' = Tail(writes)
  /\ UNCHANGED <<conf, client, inbound, reads, queue, submitted, moved>>
  /\ UNCHANGED <<resuming, written, arrived, mixed>>

\* A thread is left when not all are in posted handlers.
FreeThread == Cardinality(running) < threads

\* Mutant: what was sent is sent again.
ResumeWhole(w) ==
  /\ FreeThread
  /\ resuming' = resuming \ {w}
  /\ writes' = IF moved THEN writes ELSE Append(writes, [w EXCEPT !.left = Units])
  /\ UNCHANGED <<conf, client, inbound, reads, queue, submitted, moved, written, arrived, mixed>>

\* The composed write goes on with what is left, on the connection's own socket_.
Resume(w) ==
  /\ FreeThread
  /\ resuming' = resuming \ {w}
  /\ writes' = IF moved THEN writes ELSE Append(writes, w)
  /\ UNCHANGED <<conf, client, inbound, reads, queue, submitted, moved, written, arrived, mixed>>

-----------------------------------------------------------------------------
(* Reading.                                                                *)

\* The read at hand completes with the next header or body of a packet of this kind.
Completes(part, kind) ==
  /\ FreeThread
  /\ reads # <<>> /\ Head(reads) = part
  /\ inbound # <<>> /\ Head(inbound).part = part
  /\ kinds[Head(inbound).packet] = kind
  /\ inbound' = Tail(inbound)
  /\ UNCHANGED <<conf, client, running, done>>

NextRead(part) == reads' = Append(Tail(reads), part)

HeaderWithBody ==
  /\ \E kind \in WithBody : Completes("header", kind)
  /\ NextRead("body")
  /\ UNCHANGED <<posted, submitted, moved, output>>

\* Mutant: start_load connects without posting.
HeaderGetInline ==
  /\ FreeThread
  /\ reads # <<>> /\ Head(reads) = "header"
  /\ inbound # <<>> /\ kinds[Head(inbound).packet] = "get"
  /\ inbound' = Tail(inbound)
  /\ done' = Append(done, Head(inbound).packet)
  /\ UNCHANGED <<conf, client, reads, posted, running, submitted, moved, output>>

\* start_load posts.
HeaderGet ==
  /\ Completes("header", "get")
  /\ posted' = Append(posted, Head(inbound).packet)
  /\ NextRead("header")
  /\ UNCHANGED <<submitted, moved, output>>

\* An ack, or a type that only workers or the server send, is returned.
HeaderStray ==
  /\ Completes("header", "stray")
  /\ StartWrite(Head(inbound).packet)
  /\ NextRead("header")
  /\ UNCHANGED <<posted, submitted, moved>>

\* The worker goes on with the socket; this connection reads no more.
HeaderWorker ==
  /\ Completes("header", "worker_reg")
  /\ moved' = TRUE
  /\ reads' = Tail(reads)
  /\ UNCHANGED <<posted, submitted, output>>

\* start_store posts.
BodyPut ==
  /\ Completes("body", "put")
  /\ posted' = Append(posted, Head(inbound).packet)
  /\ NextRead("header")
  /\ UNCHANGED <<submitted, moved, output>>

\* Mutant: the lines that are commented out resume reading at once (main.cpp:230-231).
BodyTriggerOn ==
  /\ Completes("body", "trigger")
  /\ submitted' = submitted \cup {Head(inbound).packet}
  /\ NextRead("header")
  /\ UNCHANGED <<posted, moved, output>>

BodyTrigger ==
  /\ Completes("body", "trigger")
  /\ submitted' = submitted \cup {Head(inbound).packet}
  /\ reads' = Tail(reads)
  /\ UNCHANGED <<posted, moved, output>>

\* Nothing is started after an error.
ReadError ==
  /\ FreeThread
  /\ reads # <<>> /\ inbound = <<>> /\ peer = "gone"
  /\ reads' = Tail(reads)
  /\ UNCHANGED <<conf, client, inbound, queue, submitted, moved, output>>

-----------------------------------------------------------------------------
(* Posted handlers.                                                        *)

\* Mutant: the handler holds a weak pointer, and nobody reads any more.
TakeIfAlive ==
  /\ FreeThread
  /\ posted # <<>>
  /\ running' = IF reads = <<>> THEN running ELSE running \cup {Head(posted)}
  /\ posted' = Tail(posted)
  /\ UNCHANGED <<conf, client, inbound, reads, done, submitted, moved, output>>

Take ==
  /\ FreeThread
  /\ posted # <<>>
  /\ running' = running \cup {Head(posted)}
  /\ posted' = Tail(posted)
  /\ UNCHANGED <<conf, client, inbound, reads, done, submitted, moved, output>>

\* push_message of a PUT, get_connect of a GET.
Reach(p) ==
  /\ p \in running /\ p \notin ToSet(done)
  /\ done' = Append(done, p)
  /\ UNCHANGED <<conf, client, inbound, reads, posted, running, submitted, moved, output>>

\* start_handle_events, and for a PUT the acknowledgement.
Finish(p) ==
  /\ p \in running /\ p \in ToSet(done)
  /\ running' = running \ {p}
  /\ IF kinds[p] = "put" THEN StartWrite(p) ELSE UNCHANGED output
  /\ UNCHANGED <<conf, client, inbound, reads, posted, done, submitted, moved>>

\* A bucket calls the slot of a GET, once for each message it has drained for it.
Deliver(p) ==
  /\ FreeThread
  /\ p \in ToSet(done) /\ kinds[p] = "get"
  /\ Cardinality(RepliesTo(p)) < MaxDrained /\ Cardinality(written) < MaxReplies
  /\ StartWrite(p)
  /\ UNCHANGED <<conf, client, inbound, reads, queue, submitted, moved>>

\* Mutant: on_completion_ only writes.
CompleteUnread(p) ==
  /\ FreeThread
  /\ p \in submitted
  /\ submitted' = submitted \ {p}
  /\ StartWrite(p)
  /\ UNCHANGED <<conf, client, inbound, reads, queue, moved>>

\* The launcher calls on_completion_, which also resumes the reading.
Complete(p) ==
  /\ FreeThread
  /\ p \in submitted
  /\ submitted' = submitted \ {p}
  /\ StartWrite(p)
  /\ reads' = Append(reads, "header")
  /\ UNCHANGED <<conf, client, inbound, queue, moved>>

-----------------------------------------------------------------------------
Read ==
  \/ HeaderWithBody \/ HeaderGet \/ HeaderStray \/ HeaderWorker
  \/ BodyPut \/ BodyTrigger \/ ReadError
Write == Transmit \/ WriteError \/ \E w \in resuming : Resume(w)
Handle == Take \/ \E p \in running : Reach(p) \/ Finish(p)
Server == Read \/ Write \/ Handle
Answer == \E p \in submitted : Complete(p)

Next ==
  \/ \E kind \in Kinds : Send(kind)
  \/ HangUp
  \/ \E p \in Sent : Deliver(p)
  \/ Server
  \/ Answer

\* Posted handlers run and operations of the socket complete; there are finitely many
\* such steps, so that none is put off for ever.  The launcher answers (see Launcher).
Spec == Init /\ [][Next]_vars /\ WF_vars(Server) /\ WF_vars(Answer)

-----------------------------------------------------------------------------
(* Properties.                                                             *)

Entries == [reply : Replies, left : 1..Units]

TypeOK ==
  /\ turns \in BOOLEAN /\ threads \in ThreadCounts
  /\ kinds \in Seq(Kinds) /\ Len(kinds) <= MaxPackets /\ peer \in {"up", "gone"}
  /\ inbound \in Seq(Parts)
  /\ reads \in Seq({"header", "body"})
  /\ posted \in Seq(Sent) /\ running \subseteq Sent /\ done \in Seq(Sent)
  /\ submitted \subseteq Sent /\ moved \in BOOLEAN
  /\ writes \in Seq(Entries) /\ resuming \subseteq Entries
  /\ written \subseteq Replies /\ mixed \subseteq Replies
  /\ arrived \in [Replies -> 0..Units]

\* The stream has one reader: never two reads at once on a socket, none while the
\* launcher has a trigger of this connection, none once a worker owns the socket
\* (start_trigger hands the reading over to on_completion_, main.cpp:224-229).
OneReader ==
  /\ Len(reads) + Cardinality(submitted) <= 1
  /\ moved => reads = <<>> /\ submitted = {}

\* start_store and start_load post what they do, so that packets of one connection may
\* reach their buckets out of order: a packet overtakes fewer others than there are
\* threads, and none when the client waits for replies or there is one thread.
Overtaking ==
  \A i \in 1..Len(done) :
    LET overtaken == {p \in Sent : p < done[i] /\ IsPosted(p) /\ \A j \in 1..i : done[j] # p}
    IN IF turns THEN overtaken = {} ELSE Cardinality(overtaken) < threads

\* Every reply is an async_write of its own on the same socket, and two at a time mix
\* their bytes.  A client that waits for its replies gets each in one piece, unless an
\* earlier GET, or this one, was sent several messages: on_load writes every message
\* the bucket has drained, and the client waits for one (main.cpp:280-285).
WholeReplies ==
  turns => \A r \in mixed : \E p \in 1..r[1] : Cardinality(RepliesTo(p)) > 1

\* What start_write was called with arrives, is on its way, or the client is gone;
\* add_worker moves the socket from under the replies to packets sent ahead of a
\* worker_reg (main.cpp:182), and then they can be lost or cut short: all of them when
\* the client does not wait, else only the messages of a GET that was sent several.
NothingLost ==
  \A r \in written :
    LET underway == {w \in ToSet(writes) \cup resuming : w.reply = r} IN
    \/ arrived[r] = Units
    \/ \E w \in underway : arrived[r] + w.left = Units
    \/ peer = "gone"
    \/ moved /\ (turns => Cardinality(RepliesTo(r[1])) > 1)

\* In the end every PUT, trigger or misdirected packet has been answered, unless the
\* client went away or did not wait for its answers before it registered as a worker.
EveryPacketAnswered ==
  <>[](\A p \in Sent : \/ kinds[p] \in {"get", "worker_reg"}
                       \/ Answered(p)
                       \/ peer = "gone"
                       \/ moved /\ ~turns)

\* A PUT whose body was read is stored, even when the client hangs up meanwhile: the
\* handlers keep the connection alive (shared_from_this).  Nothing that was posted is
\* dropped before it has reached its bucket, and in the end all of it has been handled.
ReadIsStored ==
  /\ [][Accepted \subseteq Accepted']_vars
  /\ <>[](posted = <<>> /\ running = {})
=============================================================================
