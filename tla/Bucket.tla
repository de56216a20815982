------------------------------- MODULE Bucket -------------------------------
(***************************************************************************)
(* One topic of the transport: class bucket of main.cpp together with the  *)
(* handlers of class tcp_connection that store into it (PUT) and listen on *)
(* it (GET).                                                               *)
(*                                                                         *)
(* Every packet for the topic is followed through the handlers that carry  *)
(* it: the lambda posted by start_store or start_load, and then the lambda *)
(* posted by start_handle_events, which runs on the bucket's strand.       *)
(* Handlers run on `threads' threads and interleave between any two        *)
(* accesses to what they share (message_queue_, listener_), except that    *)
(* two handlers of event_io_strand_ never overlap.  A test of both          *)
(* message_queue_ and listener_, and a try_pop with the signal that         *)
(* follows it, are one step: while a handler is on the strand no other one  *)
(* removes a message or a slot.                                             *)
(*                                                                         *)
(* A message is identified with the PUT that carries it, a slot of         *)
(* listener_ with the GET that connected it.                               *)
(***************************************************************************)
EXTENDS Naturals, Sequences, FiniteSets, SequencesExt

CONSTANTS
  Puts,         \* PUT packets for this topic
  Gets,         \* GET packets for this topic
  ThreadCounts  \* what std::thread::hardware_concurrency() may be

Packets == Puts \cup Gets

ASSUME PacketsAssumption == Puts \cap Gets = {} /\ IsFiniteSet(Packets)
ASSUME ThreadsAssumption == ThreadCounts \subseteq Nat \ {0}

VARIABLES
  threads,        \* threads that run the io_context, chosen at first
  is_trigger,     \* packet_header::is_trigger() of the topic's header, likewise
  stage,          \* where each packet is in its handlers
  message_queue_, \* oneapi::tbb::concurrent_queue<pack::packet_data>
  listener_,      \* slots connected to the boost::signals2::signal
  pushed,         \* history: every message ever pushed, in order
  sent,           \* history: what start_write sent through each slot
  requests,       \* history: HTTP requests, the popped message and the body
  acked           \* history: PUTs whose acknowledgement was written

fixed == <<threads, is_trigger>>
vars == <<fixed, stage, message_queue_, listener_, pushed, sent, requests, acked>>

(***************************************************************************)
(* A packet is "unsent" until its connection has read it, "posted" while   *)
(* the lambda of start_store or start_load waits for a thread, "mid" while *)
(* that lambda is between its first access to the bucket and its call of   *)
(* start_handle_events, "event" while its event handler waits for the      *)
(* strand, "drain" while that handler loops over try_pop, "clear" between  *)
(* the try_pop that found nothing and disconnect_all_slots.                *)
(***************************************************************************)
Stages == {"unsent", "posted", "mid", "event", "drain", "clear", "done"}

At(s) == {p \in Packets : stage[p] \in s}

OnStrand == At({"drain", "clear"})
Running == At({"mid", "drain", "clear"})

\* Mutant: one handler more than there are threads.
FreeThreadOneMore == Cardinality(Running) <= threads

FreeThread == Cardinality(Running) < threads

Move(p, from, to) ==
  /\ stage[p] = from
  /\ stage' = [stage EXCEPT ![p] = to]

Init ==
  /\ threads \in ThreadCounts
  /\ is_trigger \in BOOLEAN
  /\ stage = [p \in Packets |-> "unsent"]
  /\ message_queue_ = <<>>
  /\ listener_ = {}
  /\ pushed = <<>>
  /\ sent = [g \in Gets |-> <<>>]
  /\ requests = <<>>
  /\ acked = {}

-----------------------------------------------------------------------------
(* PUT: the body is read, then start_store posts its lambda.               *)
ReceivePut(p) ==
  /\ FreeThread
  /\ Move(p, "unsent", "posted")
  /\ UNCHANGED <<fixed, message_queue_, listener_, pushed, sent, requests, acked>>

\* The lambda of start_store up to push_message.
StorePush(p) ==
  /\ FreeThread
  /\ Move(p, "posted", "mid")
  /\ message_queue_' = Append(message_queue_, p)
  /\ pushed' = Append(pushed, p)
  /\ UNCHANGED <<fixed, listener_, sent, requests, acked>>

\* ... and its rest: start_handle_events, then the acknowledgement.
StoreEvent(p) ==
  /\ Move(p, "mid", "event")
  /\ acked' = acked \cup {p}
  /\ UNCHANGED <<fixed, message_queue_, listener_, pushed, sent, requests>>

(* GET: the header suffices, start_load posts its lambda.                  *)
ReceiveGet(g) ==
  /\ FreeThread
  /\ Move(g, "unsent", "posted")
  /\ UNCHANGED <<fixed, message_queue_, listener_, pushed, sent, requests, acked>>

\* The lambda of start_load up to get_connect.
LoadConnect(g) ==
  /\ FreeThread
  /\ Move(g, "posted", "mid")
  /\ listener_' = listener_ \cup {g}
  /\ UNCHANGED <<fixed, message_queue_, pushed, sent, requests, acked>>

\* ... and its rest: start_handle_events.
\* Mutant: start_load forgets start_handle_events.
LoadEventForgotten(g) ==
  /\ Move(g, "mid", "done")
  /\ UNCHANGED <<fixed, message_queue_, listener_, pushed, sent, requests, acked>>

LoadEvent(g) ==
  /\ Move(g, "mid", "event")
  /\ UNCHANGED <<fixed, message_queue_, listener_, pushed, sent, requests, acked>>

-----------------------------------------------------------------------------
(* The handler posted by start_handle_events, on event_io_strand_.         *)
\* Mutant: the test of listener_.empty() is missing.
NothingToDoNoListener == ~is_trigger /\ message_queue_ = <<>>

\* Mutant: the test of message_queue_.empty() is missing.
NothingToDoNoMessage == ~is_trigger /\ listener_ = {}

NothingToDo ==
  /\ ~is_trigger
  /\ listener_ = {} \/ message_queue_ = <<>>

\* Mutant: the handler is posted to the io_context instead of the strand.
EventBeginUnstranded(p) ==
  /\ FreeThread
  /\ Move(p, "event", IF NothingToDo THEN "done" ELSE "drain")
  /\ UNCHANGED <<fixed, message_queue_, listener_, pushed, sent, requests, acked>>

EventBegin(p) ==
  /\ FreeThread
  /\ OnStrand = {}
  /\ Move(p, "event", IF NothingToDo THEN "done" ELSE "drain")
  /\ UNCHANGED <<fixed, message_queue_, listener_, pushed, sent, requests, acked>>

\* Mutant: a slot takes one message only.
DeliverOnce(p) ==
  /\ ~is_trigger
  /\ stage[p] = "drain"
  /\ message_queue_ # <<>>
  /\ sent' = [g \in Gets |-> IF g \in listener_ /\ sent[g] = <<>>
                             THEN <<Head(message_queue_)>> ELSE sent[g]]
  /\ message_queue_' = Tail(message_queue_)
  /\ UNCHANGED <<fixed, stage, listener_, pushed, requests, acked>>

\* try_pop succeeds and the signal calls every slot connected at that moment.
Deliver(p) ==
  /\ ~is_trigger
  /\ stage[p] = "drain"
  /\ message_queue_ # <<>>
  /\ sent' = [g \in Gets |-> IF g \in listener_
                             THEN Append(sent[g], Head(message_queue_))
                             ELSE sent[g]]
  /\ message_queue_' = Tail(message_queue_)
  /\ UNCHANGED <<fixed, stage, listener_, pushed, requests, acked>>

\* Mutant: a blocking pop instead of try_pop while somebody listens.
DrainEndBlocking(p) ==
  /\ ~is_trigger
  /\ message_queue_ = <<>>
  /\ listener_ = {}
  /\ Move(p, "drain", "clear")
  /\ UNCHANGED <<fixed, message_queue_, listener_, pushed, sent, requests, acked>>

\* try_pop found the queue empty: the loop over the listeners is over.
DrainEnd(p) ==
  /\ ~is_trigger
  /\ message_queue_ = <<>>
  /\ Move(p, "drain", "clear")
  /\ UNCHANGED <<fixed, message_queue_, listener_, pushed, sent, requests, acked>>

\* listener_.disconnect_all_slots()
Clear(p) ==
  /\ Move(p, "clear", "done")
  /\ listener_' = {}
  /\ UNCHANGED <<fixed, message_queue_, pushed, sent, requests, acked>>

\* The body posted for a popped message is that of the packet being handled.
TriggerBody(p) == p

\* A trigger topic: try_pop succeeds and start_trigger_post is called.
TriggerPost(p) ==
  /\ is_trigger
  /\ stage[p] = "drain"
  /\ message_queue_ # <<>>
  /\ requests' = Append(requests, [msg |-> Head(message_queue_), body |-> TriggerBody(p)])
  /\ message_queue_' = Tail(message_queue_)
  /\ UNCHANGED <<fixed, stage, listener_, pushed, sent, acked>>

TriggerEnd(p) ==
  /\ is_trigger
  /\ message_queue_ = <<>>
  /\ Move(p, "drain", "done")
  /\ UNCHANGED <<fixed, message_queue_, listener_, pushed, sent, requests, acked>>

-----------------------------------------------------------------------------
Receive(p) == (p \in Puts /\ ReceivePut(p)) \/ (p \in Gets /\ ReceiveGet(p))

\* Mutant: a missing break lets every packet fall through to start_load.
HandleFallThrough(p) ==
  \/ p \in Puts /\ (StorePush(p) \/ StoreEvent(p))
  \/ LoadConnect(p) \/ LoadEvent(p)
  \/ EventBegin(p) \/ Deliver(p) \/ DrainEnd(p) \/ Clear(p)
  \/ TriggerPost(p) \/ TriggerEnd(p)

Handle(p) ==
  \/ p \in Puts /\ (StorePush(p) \/ StoreEvent(p))
  \/ p \in Gets /\ (LoadConnect(p) \/ LoadEvent(p))
  \/ EventBegin(p) \/ Deliver(p) \/ DrainEnd(p) \/ Clear(p)
  \/ TriggerPost(p) \/ TriggerEnd(p)

Next == \E p \in Packets : Receive(p) \/ Handle(p)

\* Every handler the io_context holds is run and runs to its end; nothing
\* forces a client to send.
Fairness == \A p \in Packets : WF_vars(Handle(p))

Spec == Init /\ [][Next]_vars /\ Fairness
-----------------------------------------------------------------------------
(* Properties                                                              *)

TypeOK ==
  /\ threads \in ThreadCounts
  /\ is_trigger \in BOOLEAN
  /\ stage \in [Packets -> Stages]
  /\ message_queue_ \in Seq(Puts)
  /\ listener_ \subseteq Gets
  /\ pushed \in Seq(Puts)
  /\ sent \in [Gets -> Seq(Puts)]
  /\ requests \in Seq([msg : Puts, body : Packets])
  /\ acked \subseteq Puts

Queued(m) == m \in ToSet(message_queue_)
Delivered(m) == \E g \in Gets : m \in ToSet(sent[g])
Requested(m) == \E r \in ToSet(requests) : r.msg = m

\* A message whose PUT was acknowledged is still queued, or it was popped and
\* then really handed to a listener or to the bound URL; it is never in two of
\* these places.  (bucket::start_handle_events pops first and calls the signal
\* afterwards: with no slot connected the pop would destroy the message.)
NoMessageLost ==
  \A m \in Puts :
    /\ m \in acked => Queued(m) \/ Delivered(m) \/ Requested(m)
    /\ ~(Queued(m) /\ (Delivered(m) \/ Requested(m)))
    /\ ~(Delivered(m) /\ Requested(m))

\* What the bucket has popped so far: all that was pushed but the queue's tail.
Popped == SubSeq(pushed, 1, Len(pushed) - Len(message_queue_))

\* Each listener is sent an unbroken run of the messages in the order of their
\* push_message, and a listener that is still connected was not passed over
\* since its first message.
RunOf(g) ==
  \E a \in 1..(Len(pushed) + 1), b \in 0..Len(pushed) :
    /\ sent[g] = SubSeq(pushed, a, b)
    /\ (g \in listener_ /\ sent[g] # <<>>) => b = Len(Popped)

InOrder == \A g \in Gets : RunOf(g)

\* Messages and listeners never face each other with no handler on the way:
\* whenever both exist, some packet's event handler is running or still to run
\* (start_store and start_load both end by start_handle_events).
NoStandoff ==
  (message_queue_ # <<>> /\ (is_trigger \/ listener_ # {})) => At({"mid", "event", "drain"}) # {}

\* A GET whose own event handler has already run is never disconnected without
\* a message: the slots that disconnect_all_slots throws away unanswered belong
\* to GETs that connected after the last try_pop of the running handler.
LateOnly ==
  At({"clear"}) # {} => \A g \in listener_ : sent[g] # <<>> \/ stage[g] \in {"mid", "event"}

\* With one thread the window between the last try_pop and disconnect_all_slots
\* is closed: a GET that is past its handlers was answered or is connected.
SingleThreadAnswers ==
  threads = 1 =>
    \A g \in Gets : stage[g] = "done" => sent[g] # <<>> \/ g \in listener_

\* A topic bound to a URL issues "a request [...] when a message comes in": once
\* the handlers of a message's PUT are done, a request was made for that message.
MessageIssuesRequest ==
  \A m \in Puts : is_trigger /\ stage[m] = "done" => \E r \in ToSet(requests) : r.body = m

\* Every handler that was posted finishes: the strand is always released.
HandlersFinish == \A p \in Packets : stage[p] = "posted" ~> stage[p] = "done"

-----------------------------------------------------------------------------
(* The bucket implements the abstract topic; the strict one on one thread. *)
TQ == INSTANCE TopicQueue WITH
        Messages <- Puts, Subscriptions <- Gets,
        strict <- (threads = 1), bound <- is_trigger,
        backlog <- message_queue_, open <- listener_, inbox <- sent,
        forwarded <- [i \in 1..Len(requests) |-> requests[i].msg]

ImplementsTopic == TQ!Spec
=============================================================================
