---------------------------- MODULE BucketProofs ----------------------------
(***************************************************************************)
(* Proofs about Bucket for any number of PUTs, GETs and threads.           *)
(***************************************************************************)
EXTENDS Bucket, SequenceLemmas, SequenceTheorems, FiniteSetTheorems, TLAPS

-----------------------------------------------------------------------------
(* The inductive invariant behind the safety properties.                   *)

Waited(g) == sent[g] # <<>> \/ stage[g] \in {"mid", "event"}

\* event_io_strand_ runs one handler at a time.
StrandInv == \A p, q \in OnStrand : p = q

\* Who is connected, and where every pushed message is.
PlaceInv ==
  /\ \A g \in listener_ : stage[g] \notin {"unsent", "posted"}
  /\ \A m \in Puts :
       /\ (Queued(m) \/ Delivered(m) \/ Requested(m)) <=> stage[m] \notin {"unsent", "posted"}
       /\ ~(Queued(m) /\ (Delivered(m) \/ Requested(m)))
       /\ Delivered(m) => ~is_trigger
       /\ Requested(m) => is_trigger
  /\ \A m \in acked : stage[m] \notin {"unsent", "posted"}
  /\ \A i, j \in 1..Len(message_queue_) : message_queue_[i] = message_queue_[j] => i = j

\* What the handler on the strand knows while it loops and when it is about to
\* disconnect: only it removes messages and slots.
DrainInv ==
  ~is_trigger =>
    \A p \in OnStrand :
      /\ listener_ # {}
      /\ (stage[p] = "drain" /\ message_queue_ # <<>>)
           \/ /\ \A g \in listener_ : Waited(g)
              /\ \E g \in listener_ : sent[g] # <<>>

\* With one thread nothing happens between two steps of a handler.
SingleInv ==
  threads = 1 =>
    /\ \A p, q \in Running : p = q
    /\ ~is_trigger => \A p \in OnStrand :
         (stage[p] = "drain" /\ message_queue_ # <<>>) \/ \A g \in listener_ : sent[g] # <<>>
    /\ \A g \in Gets : stage[g] \in {"unsent", "posted"} \/ sent[g] # <<>> \/ g \in listener_

ClearInv == is_trigger => At({"clear"}) = {}

IInv == TypeOK /\ StrandInv /\ PlaceInv /\ NoStandoff /\ DrainInv /\ SingleInv /\ ClearInv

-----------------------------------------------------------------------------
\* No step changes the two variables that are chosen at first.
USE DEF fixed

\* The steps of one packet, as one list of actions.
LEMMA StepCases ==
  ASSUME NEW p \in Packets, Receive(p) \/ Handle(p)
  PROVE  \/ p \in Puts /\ ReceivePut(p)
         \/ p \in Gets /\ ReceiveGet(p)
         \/ p \in Puts /\ StorePush(p)
         \/ p \in Puts /\ StoreEvent(p)
         \/ p \in Gets /\ LoadConnect(p)
         \/ p \in Gets /\ LoadEvent(p)
         \/ EventBegin(p)
         \/ Deliver(p)
         \/ DrainEnd(p)
         \/ Clear(p)
         \/ TriggerPost(p)
         \/ TriggerEnd(p)
  BY DEF Receive, Handle

-----------------------------------------------------------------------------
(* Type correctness.                                                       *)

\* No handler changes what was chosen at first.
LEMMA ChosenStep ==
  ASSUME NEW p \in Packets, Receive(p) \/ Handle(p)
  PROVE  threads' = threads /\ is_trigger' = is_trigger
  BY StepCases DEF ReceivePut, ReceiveGet, StorePush, StoreEvent, LoadConnect, LoadEvent,
     EventBegin, Deliver, DrainEnd, Clear, TriggerPost, TriggerEnd

\* Every handler step of bucket and tcp_connection keeps the types.
LEMMA TypeStep ==
  ASSUME TypeOK, NEW p \in Packets, Receive(p) \/ Handle(p)
  PROVE  TypeOK'
<1> USE DEF TypeOK, Stages, Packets, Move
<1>1. CASE p \in Puts /\ ReceivePut(p)
  BY <1>1 DEF ReceivePut
<1>2. CASE p \in Gets /\ ReceiveGet(p)
  BY <1>2 DEF ReceiveGet
<1>3. CASE p \in Puts /\ StorePush(p)
  BY <1>3 DEF StorePush
<1>4. CASE p \in Puts /\ StoreEvent(p)
  BY <1>4 DEF StoreEvent
<1>5. CASE p \in Gets /\ LoadConnect(p)
  BY <1>5 DEF LoadConnect
<1>6. CASE p \in Gets /\ LoadEvent(p)
  BY <1>6 DEF LoadEvent
<1>7. CASE EventBegin(p)
  BY <1>7 DEF EventBegin
<1>8. CASE Deliver(p)
  <2>1. Head(message_queue_) \in Puts /\ Tail(message_queue_) \in Seq(Puts)
    BY <1>8 DEF Deliver
  <2>2. QED
    BY <1>8, <2>1 DEF Deliver
<1>9. CASE DrainEnd(p)
  BY <1>9 DEF DrainEnd
<1>10. CASE Clear(p)
  BY <1>10 DEF Clear
<1>11. CASE TriggerPost(p)
  <2>1. Head(message_queue_) \in Puts /\ Tail(message_queue_) \in Seq(Puts)
    BY <1>11 DEF TriggerPost
  <2>2. QED
    BY <1>11, <2>1 DEF TriggerPost, TriggerBody
<1>12. CASE TriggerEnd(p)
  BY <1>12 DEF TriggerEnd
<1>13. QED
  BY <1>1, <1>2, <1>3, <1>4, <1>5, <1>6, <1>7, <1>8, <1>9, <1>10, <1>11, <1>12, StepCases

\* The bucket's queue, slots and histories always hold what their types say.
THEOREM TypeCorrect == Spec => []TypeOK
<1>1. Init => TypeOK
  BY DEF Init, TypeOK, Stages
<1>2. TypeOK /\ [Next]_vars => TypeOK'
  <2> SUFFICES ASSUME TypeOK, [Next]_vars PROVE TypeOK'
    OBVIOUS
  <2>1. CASE Next
    BY <2>1, TypeStep DEF Next
  <2>2. CASE UNCHANGED vars
    BY <2>2 DEF vars, TypeOK
  <2>3. QED
    BY <2>1, <2>2
<1>3. QED
  BY <1>1, <1>2, PTL DEF Spec

-----------------------------------------------------------------------------
(* The strand, and the meeting of messages and listeners.                  *)

\* event_io_strand_ never runs two handlers at once, whatever the threads do.
LEMMA StrandStep ==
  ASSUME TypeOK, StrandInv, NEW p \in Packets, Receive(p) \/ Handle(p)
  PROVE  StrandInv'
<1> USE DEF TypeOK, StrandInv, OnStrand, At, Move
<1>1. CASE p \in Puts /\ ReceivePut(p)
  BY <1>1 DEF ReceivePut
<1>2. CASE p \in Gets /\ ReceiveGet(p)
  BY <1>2 DEF ReceiveGet
<1>3. CASE p \in Puts /\ StorePush(p)
  BY <1>3 DEF StorePush
<1>4. CASE p \in Puts /\ StoreEvent(p)
  BY <1>4 DEF StoreEvent
<1>5. CASE p \in Gets /\ LoadConnect(p)
  BY <1>5 DEF LoadConnect
<1>6. CASE p \in Gets /\ LoadEvent(p)
  BY <1>6 DEF LoadEvent
<1>7. CASE EventBegin(p)
  BY <1>7 DEF EventBegin
<1>8. CASE Deliver(p)
  BY <1>8 DEF Deliver
<1>9. CASE DrainEnd(p)
  BY <1>9 DEF DrainEnd
<1>10. CASE Clear(p)
  BY <1>10 DEF Clear
<1>11. CASE TriggerPost(p)
  BY <1>11 DEF TriggerPost
<1>12. CASE TriggerEnd(p)
  BY <1>12 DEF TriggerEnd
<1>13. QED
  BY <1>1, <1>2, <1>3, <1>4, <1>5, <1>6, <1>7, <1>8, <1>9, <1>10, <1>11, <1>12, StepCases

\* Only the listener branch of the event handler ever reaches the clearing of
\* the slots: trigger topics keep theirs.
LEMMA ClearInvStep ==
  ASSUME TypeOK, ClearInv, NEW p \in Packets, Receive(p) \/ Handle(p)
  PROVE  ClearInv'
<1> USE DEF TypeOK, ClearInv, At, Move
<1>1. CASE p \in Puts /\ ReceivePut(p)
  BY <1>1 DEF ReceivePut
<1>2. CASE p \in Gets /\ ReceiveGet(p)
  BY <1>2 DEF ReceiveGet
<1>3. CASE p \in Puts /\ StorePush(p)
  BY <1>3 DEF StorePush
<1>4. CASE p \in Puts /\ StoreEvent(p)
  BY <1>4 DEF StoreEvent
<1>5. CASE p \in Gets /\ LoadConnect(p)
  BY <1>5 DEF LoadConnect
<1>6. CASE p \in Gets /\ LoadEvent(p)
  BY <1>6 DEF LoadEvent
<1>7. CASE EventBegin(p)
  BY <1>7 DEF EventBegin
<1>8. CASE Deliver(p) \/ DrainEnd(p)
  BY <1>8 DEF Deliver, DrainEnd
<1>9. CASE Clear(p)
  BY <1>9 DEF Clear
<1>10. CASE TriggerPost(p)
  BY <1>10 DEF TriggerPost
<1>11. CASE TriggerEnd(p)
  BY <1>11 DEF TriggerEnd
<1>12. QED
  BY <1>1, <1>2, <1>3, <1>4, <1>5, <1>6, <1>7, <1>8, <1>9, <1>10, <1>11, StepCases

\* start_store and start_load end by start_handle_events, and the handler
\* leaves only when one side is empty: nobody is left facing nobody's handler.
LEMMA StandoffStep ==
  ASSUME TypeOK, ClearInv, NoStandoff, NEW p \in Packets, Receive(p) \/ Handle(p)
  PROVE  NoStandoff'
<1> USE DEF TypeOK, NoStandoff, At, Move
<1>1. CASE p \in Puts /\ ReceivePut(p)
  BY <1>1 DEF ReceivePut
<1>2. CASE p \in Gets /\ ReceiveGet(p)
  BY <1>2 DEF ReceiveGet
<1>3. CASE p \in Puts /\ StorePush(p)
  BY <1>3 DEF StorePush
<1>4. CASE p \in Puts /\ StoreEvent(p)
  BY <1>4 DEF StoreEvent
<1>5. CASE p \in Gets /\ LoadConnect(p)
  BY <1>5 DEF LoadConnect
<1>6. CASE p \in Gets /\ LoadEvent(p)
  BY <1>6 DEF LoadEvent
<1>7. CASE EventBegin(p)
  BY <1>7 DEF EventBegin, NothingToDo
<1>8. CASE Deliver(p)
  BY <1>8 DEF Deliver
<1>9. CASE DrainEnd(p)
  BY <1>9 DEF DrainEnd
<1>10. CASE Clear(p)
  BY <1>10 DEF Clear, ClearInv
<1>11. CASE TriggerPost(p)
  BY <1>11 DEF TriggerPost
<1>12. CASE TriggerEnd(p)
  BY <1>12 DEF TriggerEnd
<1>13. QED
  BY <1>1, <1>2, <1>3, <1>4, <1>5, <1>6, <1>7, <1>8, <1>9, <1>10, <1>11, <1>12, StepCases

-----------------------------------------------------------------------------
(* Where the messages are.                                                 *)

\* A step that moves p onwards without touching queue, slots or histories
\* leaves every message and slot where it is.
LEMMA PlaceMove ==
  ASSUME TypeOK, PlaceInv, NEW p \in Packets, stage[p] # "unsent" \/ stage'[p] = "posted",
         stage[p] # "posted", NEW to \in Stages, to # "unsent",
         stage[p] # "unsent" => to # "posted",
         stage' = [stage EXCEPT ![p] = to],
         UNCHANGED <<is_trigger, message_queue_, listener_, sent, requests>>,
         acked' = acked \/ (p \in Puts /\ stage[p] = "mid" /\ acked' = acked \cup {p})
  PROVE  PlaceInv'
  BY DEF TypeOK, PlaceInv, Queued, Delivered, Requested, Stages, Packets

\* try_pop followed by the signal: the head moves from the queue to the slots.
LEMMA PlaceDeliver ==
  ASSUME TypeOK, PlaceInv, NEW p \in Packets, Deliver(p), listener_ # {}
  PROVE  PlaceInv'
<1> USE DEF TypeOK
<1>0. PICK h \in Puts : h = Head(message_queue_)
  BY DEF Deliver
<1>1. /\ message_queue_ \in Seq(Puts) /\ message_queue_ # <<>>
      /\ message_queue_' = Tail(message_queue_)
      /\ h \in Puts
      /\ UNCHANGED <<is_trigger, stage, listener_, requests, acked>>
      /\ ~is_trigger
  BY <1>0 DEF Deliver
<1>2. ToSet(message_queue_) = {h} \cup ToSet(message_queue_')
  <2> HIDE DEF TypeOK
  <2>1. QED
    BY <1>0, <1>1, ToSetTail
<1>3. /\ h \notin ToSet(message_queue_')
      /\ \A i, j \in 1..Len(message_queue_') : message_queue_'[i] = message_queue_'[j] => i = j
  <2> HIDE DEF TypeOK
  <2>1. \A i, j \in 1..Len(message_queue_) : message_queue_[i] = message_queue_[j] => i = j
    BY DEF PlaceInv
  <2>2. /\ Head(message_queue_) \notin ToSet(Tail(message_queue_))
        /\ \A i, j \in 1..Len(Tail(message_queue_)) :
              Tail(message_queue_)[i] = Tail(message_queue_)[j] => i = j
    BY <1>1, <2>1, HeadOnce
  <2>3. QED
    BY <1>0, <1>1, <2>2
<1>4. \A g \in Gets : ToSet(sent'[g]) = IF g \in listener_ THEN ToSet(sent[g]) \cup {h}
                                                           ELSE ToSet(sent[g])
  <2> SUFFICES ASSUME NEW g \in Gets
               PROVE  ToSet(sent'[g]) = IF g \in listener_ THEN ToSet(sent[g]) \cup {h}
                                                           ELSE ToSet(sent[g])
    OBVIOUS
  <2>1. sent[g] \in Seq(Puts)
    OBVIOUS
  <2>2. ToSet(Append(sent[g], h)) = ToSet(sent[g]) \cup {h}
    BY <1>1, <2>1, ToSetAppend
  <2>3. sent'[g] = IF g \in listener_ THEN Append(sent[g], h) ELSE sent[g]
    BY <1>0 DEF Deliver
  <2>4. QED
    BY <2>2, <2>3
<1>5. PICK l \in Gets : l \in listener_
  OBVIOUS
<1>6. Delivered(h)'
  BY <1>4, <1>5 DEF Delivered
<1>7. \A m \in Puts : m # h => (Delivered(m)' <=> Delivered(m)) /\ (Queued(m)' <=> Queued(m))
  BY <1>2, <1>4 DEF Delivered, Queued
<1>8. \A m \in Puts : Requested(m)' <=> Requested(m)
  BY <1>1 DEF Requested
<1>9. ~Queued(h)' /\ Queued(h)
  BY <1>2, <1>3 DEF Queued
<1>10. ~Requested(h)
  BY <1>1, <1>9 DEF PlaceInv
<1>11. QED
  BY <1>1, <1>3, <1>6, <1>7, <1>8, <1>9, <1>10 DEF PlaceInv

\* try_pop followed by start_trigger_post: the head moves to the requests.
LEMMA PlacePost ==
  ASSUME TypeOK, PlaceInv, NEW p \in Packets, TriggerPost(p)
  PROVE  PlaceInv'
<1> USE DEF TypeOK
<1>0. PICK h \in Puts : h = Head(message_queue_)
  BY DEF TriggerPost
<1>q. PICK Q : Q = [msg : Puts, body : Packets]
  OBVIOUS
<1>p. [msg |-> h, body |-> p] \in Q /\ [msg |-> h, body |-> p].msg = h
  BY <1>q
<1>r. PICK r : r = [msg |-> h, body |-> p] /\ r.msg = h /\ r \in Q
  BY <1>p, Zenon
<1>1. /\ message_queue_ \in Seq(Puts) /\ message_queue_ # <<>>
      /\ message_queue_' = Tail(message_queue_)
      /\ h \in Puts
      /\ UNCHANGED <<is_trigger, stage, listener_, sent, acked>>
      /\ is_trigger
  BY DEF TriggerPost
<1>s. requests' = Append(requests, r) /\ requests \in Seq(Q)
  BY <1>0, <1>q, <1>r DEF TriggerPost, TriggerBody
<1>2. ToSet(message_queue_) = {h} \cup ToSet(message_queue_')
  <2> HIDE DEF TypeOK
  <2>1. QED
    BY <1>0, <1>1, ToSetTail
<1>3. /\ h \notin ToSet(message_queue_')
      /\ \A i, j \in 1..Len(message_queue_') : message_queue_'[i] = message_queue_'[j] => i = j
  <2> HIDE DEF TypeOK
  <2>1. \A i, j \in 1..Len(message_queue_) : message_queue_[i] = message_queue_[j] => i = j
    BY DEF PlaceInv
  <2>2. /\ Head(message_queue_) \notin ToSet(Tail(message_queue_))
        /\ \A i, j \in 1..Len(Tail(message_queue_)) :
              Tail(message_queue_)[i] = Tail(message_queue_)[j] => i = j
    BY <1>1, <2>1, HeadOnce
  <2>3. QED
    BY <1>0, <1>1, <2>2
<1>4. \A m \in Puts : Requested(m)' <=> Requested(m) \/ m = h
  <2>1. ToSet(requests') = ToSet(requests) \cup {r}
    <3> HIDE DEF TypeOK
    <3>1. ToSet(Append(requests, r)) = ToSet(requests) \cup {r}
      BY <1>s, <1>r, ToSetAppend
    <3>2. QED
      BY <1>s, <3>1
  <2>2. \A m : Requested(m) <=> \E x \in ToSet(requests) : x.msg = m
    BY DEF Requested
  <2>3. \A m : Requested(m)' <=> \E x \in ToSet(requests') : x.msg = m
    BY DEF Requested
  <2>4. QED
    BY <2>1, <2>2, <2>3, <1>r
<1>5. \A m \in Puts : m # h => (Queued(m)' <=> Queued(m))
  BY <1>2 DEF Queued
<1>6. \A m \in Puts : Delivered(m)' <=> Delivered(m)
  BY <1>1 DEF Delivered
<1>7. ~Queued(h)' /\ Queued(h)
  BY <1>2, <1>3 DEF Queued
<1>8. ~Delivered(h)
  BY <1>1, <1>7 DEF PlaceInv
<1>9. QED
  BY <1>1, <1>3, <1>4, <1>5, <1>6, <1>7, <1>8 DEF PlaceInv

\* push_message: a message that was nowhere is queued, once.
LEMMA PlacePush ==
  ASSUME TypeOK, PlaceInv, NEW p \in Puts, StorePush(p)
  PROVE  PlaceInv'
<1> USE DEF TypeOK
<1>1. /\ message_queue_ \in Seq(Puts)
      /\ message_queue_' = Append(message_queue_, p)
      /\ stage[p] = "posted" /\ stage' = [stage EXCEPT ![p] = "mid"]
      /\ UNCHANGED <<is_trigger, listener_, sent, requests, acked>>
      /\ p \in Packets
  BY DEF StorePush, Move, Packets
<1>2. ToSet(message_queue_') = ToSet(message_queue_) \cup {p}
  BY <1>1, ToSetAppend
<1>3. p \notin ToSet(message_queue_)
  BY <1>1 DEF PlaceInv, Queued
<1>4. \A i, j \in 1..Len(message_queue_') : message_queue_'[i] = message_queue_'[j] => i = j
  <2> HIDE DEF TypeOK
  <2>1. \A i, j \in 1..Len(message_queue_) : message_queue_[i] = message_queue_[j] => i = j
    BY DEF PlaceInv
  <2>2. PICK Q : Q = Append(message_queue_, p) /\ \A i, j \in 1..Len(Q) : Q[i] = Q[j] => i = j
    BY <1>1, <1>3, <2>1, AppendOnce
  <2>3. QED
    BY <1>1, <2>2
<1>5. \A m \in Puts : /\ Queued(m)' <=> Queued(m) \/ m = p
                      /\ Delivered(m)' <=> Delivered(m)
                      /\ Requested(m)' <=> Requested(m)
  BY <1>1, <1>2 DEF Queued, Delivered, Requested
<1>6. \A q \in Packets : stage'[q] \in {"unsent", "posted"} <=> stage[q] \in {"unsent", "posted"} /\ q # p
  BY <1>1
<1>7. Puts \subseteq Packets /\ Gets \subseteq Packets /\ p \notin Gets
  BY PacketsAssumption DEF Packets
<1>8. ~Delivered(p) /\ ~Requested(p)
  BY <1>1 DEF PlaceInv
<1>9. QED
  BY <1>1, <1>4, <1>5, <1>6, <1>7, <1>8 DEF PlaceInv

\* get_connect and disconnect_all_slots change slots only.
LEMMA PlaceSlots ==
  ASSUME TypeOK, PlaceInv, NEW p \in Packets, (p \in Gets /\ LoadConnect(p)) \/ Clear(p)
  PROVE  PlaceInv'
<1> USE DEF TypeOK, Move
<1>1. CASE p \in Gets /\ LoadConnect(p)
  <2>1. p \notin Puts
    BY <1>1, PacketsAssumption
  <2>2. QED
    BY <1>1, <2>1 DEF LoadConnect, PlaceInv, Queued, Delivered, Requested, Packets
<1>2. CASE Clear(p)
  BY <1>2 DEF Clear, PlaceInv, Queued, Delivered, Requested, Packets
<1>3. QED
  BY <1>1, <1>2

\* Every step keeps every message in the place its handlers say.
LEMMA PlaceStep ==
  ASSUME TypeOK, PlaceInv, DrainInv, NEW p \in Packets, Receive(p) \/ Handle(p)
  PROVE  PlaceInv'
<1>1. CASE (p \in Puts /\ ReceivePut(p)) \/ (p \in Gets /\ ReceiveGet(p))
  BY <1>1, PlaceMove DEF ReceivePut, ReceiveGet, Move, Stages, TypeOK
<1>2. CASE p \in Puts /\ StorePush(p)
  BY <1>2, PlacePush
<1>3. CASE p \in Puts /\ StoreEvent(p)
  BY <1>3, PlaceMove DEF StoreEvent, Move, Stages
<1>4. CASE (p \in Gets /\ LoadConnect(p)) \/ Clear(p)
  BY <1>4, PlaceSlots
<1>5. CASE p \in Gets /\ LoadEvent(p)
  BY <1>5, PlaceMove DEF LoadEvent, Move, Stages
<1>6. CASE EventBegin(p)
  BY <1>6, PlaceMove DEF EventBegin, Move, Stages
<1>7. CASE Deliver(p)
  <2>1. p \in OnStrand /\ ~is_trigger
    BY <1>7 DEF Deliver, OnStrand, At
  <2>2. listener_ # {}
    BY <2>1 DEF DrainInv
  <2>3. QED
    BY <1>7, <2>2, PlaceDeliver
<1>8. CASE DrainEnd(p) \/ TriggerEnd(p)
  BY <1>8, PlaceMove DEF DrainEnd, TriggerEnd, Move, Stages
<1>9. CASE TriggerPost(p)
  BY <1>9, PlacePost
<1>10. QED
  BY <1>1, <1>2, <1>3, <1>4, <1>5, <1>6, <1>7, <1>8, <1>9, StepCases

-----------------------------------------------------------------------------
(* What the handler on the strand knows.                                   *)

\* The signal calls every connected slot, and what a slot was sent stays sent.
LEMMA DeliverSent ==
  ASSUME TypeOK, NEW p \in Packets, Deliver(p)
  PROVE  /\ \A g \in listener_ : sent'[g] # <<>>
         /\ \A g \in Gets : sent[g] # <<>> => sent'[g] # <<>>
<1>0. PICK h \in Puts : h = Head(message_queue_)
  BY DEF TypeOK, Deliver
<1>1. \A g \in Gets : Append(sent[g], h) # <<>>
  BY AppendNotEmpty DEF TypeOK
<1>2. sent' = [g \in Gets |-> IF g \in listener_ THEN Append(sent[g], h) ELSE sent[g]]
  BY <1>0 DEF Deliver
<1>3. QED
  BY <1>1, <1>2 DEF TypeOK

\* While one event handler loops over try_pop, no other handler removes a
\* message or a slot: this is what event_io_strand_ is for.
LEMMA DrainStep ==
  ASSUME TypeOK, StrandInv, DrainInv, NEW p \in Packets, Receive(p) \/ Handle(p)
  PROVE  DrainInv'
<1> USE DEF TypeOK, DrainInv, OnStrand, At, Move, Waited
<1>1. CASE p \in Puts /\ ReceivePut(p)
  BY <1>1, PacketsAssumption DEF ReceivePut
<1>2. CASE p \in Gets /\ ReceiveGet(p)
  BY <1>2 DEF ReceiveGet
<1>3. CASE p \in Puts /\ StorePush(p)
  <2>1. message_queue_' # <<>>
    <3>1. message_queue_' = Append(message_queue_, p)
      BY <1>3 DEF StorePush
    <3>2. QED
      BY <1>3, <3>1, AppendNotEmpty
  <2>2. QED
    BY <1>3, <2>1, PacketsAssumption DEF StorePush, Packets
<1>4. CASE p \in Puts /\ StoreEvent(p)
  BY <1>4, PacketsAssumption DEF StoreEvent
<1>5. CASE p \in Gets /\ LoadConnect(p)
  BY <1>5 DEF LoadConnect, Packets
<1>6. CASE p \in Gets /\ LoadEvent(p)
  BY <1>6 DEF LoadEvent
<1>7. CASE EventBegin(p)
  BY <1>7 DEF EventBegin, NothingToDo
<1>8. CASE Deliver(p)
  <2>1. ~is_trigger /\ p \in OnStrand /\ listener_ # {} /\ UNCHANGED <<stage, listener_>>
    BY <1>8 DEF Deliver
  <2>2. \A g \in listener_ : sent'[g] # <<>>
    BY <1>8, DeliverSent
  <2>3. QED
    BY <2>1, <2>2
<1>9. CASE DrainEnd(p)
  BY <1>9 DEF DrainEnd
<1>10. CASE Clear(p)
  BY <1>10 DEF Clear, StrandInv
<1>11. CASE TriggerPost(p)
  BY <1>11 DEF TriggerPost
<1>12. CASE TriggerEnd(p)
  BY <1>12 DEF TriggerEnd
<1>13. QED
  BY <1>1, <1>2, <1>3, <1>4, <1>5, <1>6, <1>7, <1>8, <1>9, <1>10, <1>11, <1>12, StepCases

-----------------------------------------------------------------------------
(* One thread.                                                             *)

\* With one thread a handler starts only when no other is under way.
LEMMA OneThread ==
  ASSUME threads = 1, FreeThread
  PROVE  Running = {}
<1>1. IsFiniteSet(Running)
  BY PacketsAssumption, FS_Subset DEF Running, At
<1>2. Cardinality(Running) \in Nat
  BY <1>1, FS_CardinalityType
<1>3. Cardinality(Running) = 0
  BY <1>2 DEF FreeThread
<1>4. QED
  BY <1>1, <1>3, FS_EmptySet

\* On one thread nothing slips between two steps of a handler, in particular
\* not between the last try_pop and disconnect_all_slots.
LEMMA SingleStep ==
  ASSUME TypeOK, StrandInv, DrainInv, ClearInv, SingleInv, NEW p \in Packets,
         Receive(p) \/ Handle(p), threads = 1
  PROVE  SingleInv'
<1> USE DEF TypeOK, SingleInv, OnStrand, Running, At, Move
<1>1. CASE p \in Puts /\ ReceivePut(p)
  BY <1>1, OneThread, PacketsAssumption DEF ReceivePut
<1>2. CASE p \in Gets /\ ReceiveGet(p)
  BY <1>2, OneThread DEF ReceiveGet
<1>3. CASE p \in Puts /\ StorePush(p)
  BY <1>3, OneThread, PacketsAssumption DEF StorePush
<1>4. CASE p \in Puts /\ StoreEvent(p)
  BY <1>4, PacketsAssumption DEF StoreEvent
<1>5. CASE p \in Gets /\ LoadConnect(p)
  BY <1>5, OneThread DEF LoadConnect
<1>6. CASE p \in Gets /\ LoadEvent(p)
  BY <1>6 DEF LoadEvent
<1>7. CASE EventBegin(p)
  BY <1>7, OneThread DEF EventBegin, NothingToDo
<1>8. CASE Deliver(p)
  <2>1. UNCHANGED <<threads, is_trigger, stage, listener_>>
    BY <1>8 DEF Deliver
  <2>2. \A g \in listener_ : sent'[g] # <<>>
    BY <1>8, DeliverSent
  <2>3. \A g \in Gets : sent[g] # <<>> => sent'[g] # <<>>
    BY <1>8, DeliverSent
  <2>4. QED
    BY <2>1, <2>2, <2>3
<1>9. CASE DrainEnd(p)
  BY <1>9 DEF DrainEnd
<1>10. CASE Clear(p)
  <2>1. ~is_trigger /\ stage[p] = "clear"
    BY <1>10 DEF Clear, ClearInv
  <2>2. \A g \in listener_ : sent[g] # <<>>
    BY <2>1
  <2>3. /\ UNCHANGED <<threads, is_trigger, message_queue_, sent>> /\ listener_' = {}
        /\ \A q \in Packets : stage'[q] = IF q = p THEN "done" ELSE stage[q]
    BY <1>10 DEF Clear
  <2>4. (\A q, r \in Running : q = r)'
    BY <2>3
  <2>5. \A q \in Packets : stage'[q] \notin {"drain", "clear"}
    BY <2>1, <2>3
  <2>6. \A g \in Gets : stage'[g] \in {"unsent", "posted"} \/ sent'[g] # <<>> \/ g \in listener_'
    BY <2>1, <2>2, <2>3 DEF Packets
  <2>7. threads = 1 /\ ~is_trigger'
    BY <2>1, <2>3
  <2>8. QED
    BY <2>4, <2>5, <2>6, <2>7
<1>11. CASE TriggerPost(p)
  BY <1>11 DEF TriggerPost
<1>12. CASE TriggerEnd(p)
  BY <1>12 DEF TriggerEnd
<1>13. QED
  BY <1>1, <1>2, <1>3, <1>4, <1>5, <1>6, <1>7, <1>8, <1>9, <1>10, <1>11, <1>12, StepCases

-----------------------------------------------------------------------------
(* The theorems.                                                           *)

\* A bucket starts empty, with no handler under way.
LEMMA IInvInit == Init => IInv
<1> SUFFICES ASSUME Init PROVE IInv
  OBVIOUS
<1> USE DEF Init
<1>1. TypeOK
  BY DEF TypeOK, Stages
<1>2. StrandInv /\ ClearInv /\ NoStandoff /\ DrainInv
  BY DEF StrandInv, ClearInv, NoStandoff, DrainInv, OnStrand, At
<1>3. PlaceInv
  BY DEF PlaceInv, Queued, Delivered, Requested, ToSet, Packets
<1>4. SingleInv
  BY DEF SingleInv, Running, OnStrand, At, Packets
<1>5. QED
  BY <1>1, <1>2, <1>3, <1>4 DEF IInv

\* Every step of every handler keeps the inductive invariant.
LEMMA IInvStep == IInv /\ [Next]_vars => IInv'
<1> SUFFICES ASSUME IInv, [Next]_vars PROVE IInv'
  OBVIOUS
<1>1. CASE Next
  <2>1. PICK p \in Packets : Receive(p) \/ Handle(p)
    BY <1>1 DEF Next
  <2>2. TypeOK' /\ StrandInv' /\ ClearInv'
    BY <2>1, TypeStep, StrandStep, ClearInvStep DEF IInv
  <2>3. PlaceInv' /\ NoStandoff'
    BY <2>1, PlaceStep, StandoffStep DEF IInv
  <2>4. DrainInv'
    BY <2>1, DrainStep DEF IInv
  <2>5. SingleInv'
    <3>1. CASE threads = 1
      BY <2>1, <3>1, SingleStep DEF IInv
    <3>2. CASE threads # 1
      BY <2>1, <3>2, ChosenStep DEF SingleInv
    <3>3. QED
      BY <3>1, <3>2
  <2>6. QED
    BY <2>2, <2>3, <2>4, <2>5 DEF IInv
<1>2. CASE UNCHANGED vars
  BY <1>2 DEF vars, IInv, TypeOK, StrandInv, PlaceInv, NoStandoff, DrainInv, SingleInv, ClearInv,
              OnStrand, Running, At, Queued, Delivered, Requested, Waited
<1>3. QED
  BY <1>1, <1>2

\* The inductive invariant of the bucket holds for any number of packets and
\* threads.
THEOREM Inductive == Spec => []IInv
  BY IInvInit, IInvStep, PTL DEF Spec

\* No acknowledged message disappears: start_handle_events pops a message only
\* when a slot or the bound URL takes it.
THEOREM MessageSafety == Spec => []NoMessageLost
<1>1. IInv => NoMessageLost
  BY DEF IInv, PlaceInv, NoMessageLost
<1>2. QED
  BY <1>1, Inductive, PTL

\* Queued messages and connected slots always have an event handler coming.
THEOREM StandoffFreedom == Spec => []NoStandoff
<1>1. IInv => NoStandoff
  BY DEF IInv
<1>2. QED
  BY <1>1, Inductive, PTL

\* disconnect_all_slots drops no GET whose own event handler has run.
THEOREM OnlyLateGetsDropped == Spec => []LateOnly
<1>1. IInv => LateOnly
  <2> SUFFICES ASSUME IInv, At({"clear"}) # {}
               PROVE  \A g \in listener_ : sent[g] # <<>> \/ stage[g] \in {"mid", "event"}
    BY DEF LateOnly
  <2>1. PICK p \in Packets : stage[p] = "clear"
    BY DEF At
  <2>2. ~is_trigger
    BY <2>1 DEF IInv, ClearInv
  <2>3. p \in OnStrand
    BY <2>1 DEF OnStrand, At
  <2>4. QED
    BY <2>1, <2>2, <2>3 DEF IInv, DrainInv, Waited
<1>2. QED
  BY <1>1, Inductive, PTL

\* On a single thread every GET is answered or still connected.
THEOREM OneThreadAnswers == Spec => []SingleThreadAnswers
<1>1. IInv => SingleThreadAnswers
  BY DEF IInv, SingleInv, SingleThreadAnswers
<1>2. QED
  BY <1>1, Inductive, PTL

-----------------------------------------------------------------------------
(* The bucket implements the abstract topic.                               *)

\* Every step of a handler is a step of the abstract topic or invisible to it.
LEMMA TopicStep ==
  ASSUME IInv, NEW p \in Packets, Receive(p) \/ Handle(p)
  PROVE  [TQ!Next]_(TQ!vars)
<1> USE DEF TQ!vars, TQ!Next
<1>1. CASE (p \in Puts /\ ReceivePut(p)) \/ (p \in Gets /\ ReceiveGet(p))
  BY <1>1 DEF ReceivePut, ReceiveGet
<1>2. CASE p \in Puts /\ StorePush(p)
  BY <1>2 DEF StorePush, TQ!Publish
<1>3. CASE (p \in Puts /\ StoreEvent(p)) \/ (p \in Gets /\ LoadEvent(p))
  BY <1>3 DEF StoreEvent, LoadEvent
<1>4. CASE p \in Gets /\ LoadConnect(p)
  <2>1. p \notin listener_
    BY <1>4 DEF IInv, PlaceInv, LoadConnect, Move
  <2>2. QED
    BY <1>4, <2>1 DEF LoadConnect, TQ!Subscribe
<1>5. CASE EventBegin(p) \/ DrainEnd(p) \/ TriggerEnd(p)
  BY <1>5 DEF EventBegin, DrainEnd, TriggerEnd
<1>9. CASE TriggerPost(p)
  <2>1. [i \in 1..Len(requests') |-> requests'[i].msg]
          = Append([i \in 1..Len(requests) |-> requests[i].msg], Head(message_queue_))
    BY <1>9 DEF TriggerPost, IInv, TypeOK
  <2>2. QED
    BY <1>9, <2>1 DEF TriggerPost, TQ!Forward
<1>6. CASE Deliver(p)
  <2>1. p \in OnStrand /\ ~is_trigger
    BY <1>6 DEF Deliver, OnStrand, At
  <2>2. listener_ # {}
    BY <2>1 DEF IInv, DrainInv
  <2>3. QED
    BY <1>6, <2>2 DEF Deliver, TQ!HandOut
<1>7. CASE Clear(p)
  <2>1. p \in OnStrand /\ stage[p] = "clear" /\ ~is_trigger
    BY <1>7 DEF Clear, Move, OnStrand, At, IInv, ClearInv
  <2>2. listener_ # {} /\ \E g \in listener_ : sent[g] # <<>>
    BY <2>1 DEF IInv, DrainInv
  <2>3. threads = 1 => \A g \in listener_ : sent[g] # <<>>
    BY <2>1 DEF IInv, SingleInv
  <2>4. QED
    BY <1>7, <2>2, <2>3
       DEF Clear, TQ!Release, TQ!WeakRelease, TQ!StrictRelease, TQ!Answered
<1>8. QED
  BY <1>1, <1>2, <1>3, <1>4, <1>5, <1>6, <1>7, <1>9, StepCases

\* A bucket behaves as the abstract topic, and as the strict one when the io_context
\* has a single thread (safety; TLC checks the fairness).
THEOREM Refinement == Spec => TQ!SafeSpec
<1>1. Init => TQ!Init
  BY DEF Init, TQ!Init
<1>2. IInv /\ [Next]_vars => [TQ!Next]_(TQ!vars)
  <2> SUFFICES ASSUME IInv, [Next]_vars PROVE [TQ!Next]_(TQ!vars)
    OBVIOUS
  <2>1. CASE Next
    BY <2>1, TopicStep DEF Next
  <2>2. CASE UNCHANGED vars
    BY <2>2 DEF vars, TQ!vars
  <2>3. QED
    BY <2>1, <2>2
<1>3. QED
  BY <1>1, <1>2, Inductive, PTL DEF Spec, TQ!SafeSpec

-----------------------------------------------------------------------------
(* The order of messages.                                                  *)

\* How many messages were popped.
Count == Len(pushed) - Len(message_queue_)

\* What is queued is what was pushed last.
QueueTail ==
  /\ Len(message_queue_) <= Len(pushed)
  /\ \A i \in 1..Len(message_queue_) : message_queue_[i] = pushed[Count + i]

\* What was sent to g are the popped messages from the a-th on, all of them if it is
\* still connected.
Starts(g, a) ==
  /\ a \in 1..(Len(pushed) + 1)
  /\ a + Len(sent[g]) - 1 <= Count
  /\ \A i \in 1..Len(sent[g]) : sent[g][i] = pushed[a + i - 1]
  /\ g \in listener_ /\ sent[g] # <<>> => a + Len(sent[g]) - 1 = Count

OrderInv ==
  /\ QueueTail
  /\ \A g \in Gets : \E a \in Nat : Starts(g, a)
  /\ \A g \in Gets : stage[g] \in {"unsent", "posted"} => sent[g] = <<>>

\* The types of what is ordered.
LEMMA OrderTyped ==
  ASSUME TypeOK
  PROVE  /\ pushed \in Seq(Puts) /\ message_queue_ \in Seq(Puts)
         /\ Len(pushed) \in Nat /\ Len(message_queue_) \in Nat /\ Count \in Int
         /\ \A g \in Gets : sent[g] \in Seq(Puts) /\ Len(sent[g]) \in Nat
         /\ \A g \in Gets : Len(sent[g]) = 0 <=> sent[g] = <<>>
  BY EmptySeq DEF TypeOK, Count

\* A step that moves no message and connects nobody to whom something was sent.
LEMMA OrderFrame ==
  ASSUME OrderInv, UNCHANGED <<pushed, message_queue_, sent>>,
         \A g \in listener_' : g \in listener_ \/ sent[g] = <<>>,
         \A g \in Gets : stage'[g] \in {"unsent", "posted"} => stage[g] \in {"unsent", "posted"}
  PROVE  OrderInv'
<1>1. QueueTail'
  BY DEF OrderInv, QueueTail, Count
<1>2. ASSUME NEW g \in Gets, NEW a \in Nat, Starts(g, a) PROVE Starts(g, a)'
  BY <1>2 DEF Starts, Count
<1>3. QED
  BY <1>1, <1>2 DEF OrderInv

\* push_message adds to what was pushed and to what is queued.
LEMMA OrderPush ==
  ASSUME TypeOK, OrderInv, NEW p \in Puts, StorePush(p)
  PROVE  OrderInv'
<1>1. /\ pushed' = Append(pushed, p) /\ message_queue_' = Append(message_queue_, p)
      /\ UNCHANGED <<listener_, sent>>
  BY DEF StorePush
<1>2. PICK n \in Nat, m \in Nat : n = Len(pushed) /\ m = Len(message_queue_)
  BY OrderTyped
<1>3. /\ Len(pushed') = n + 1 /\ pushed'[n + 1] = p
      /\ \A i \in 1..n : pushed'[i] = pushed[i]
  BY <1>1, <1>2, OrderTyped
<1>4. /\ Len(message_queue_') = m + 1 /\ message_queue_'[m + 1] = p
      /\ \A i \in 1..m : message_queue_'[i] = message_queue_[i]
  BY <1>1, <1>2, OrderTyped
<1>5. Count = n - m /\ Count' = n - m /\ m <= n
  BY <1>2, <1>3, <1>4 DEF Count, OrderInv, QueueTail
<1>6. QueueTail'
  <2>1. ASSUME NEW i \in 1..(m + 1) PROVE message_queue_'[i] = pushed'[(n - m) + i]
    <3>1. CASE i \in 1..m
      <4>1. message_queue_[i] = pushed[(n - m) + i]
        BY <1>2, <1>5, <3>1 DEF OrderInv, QueueTail
      <4>2. (n - m) + i \in 1..n
        BY <1>5, <3>1
      <4>3. QED
        BY <1>3, <1>4, <3>1, <4>1, <4>2
    <3>2. CASE i = m + 1
      <4>1. (n - m) + i = n + 1
        BY <3>2
      <4>2. QED
        BY <1>3, <1>4, <3>2, <4>1
    <3>3. QED
      BY <3>1, <3>2
  <2>2. QED
    BY <1>3, <1>4, <1>5, <2>1 DEF QueueTail
<1>7. ASSUME NEW g \in Gets, NEW a \in Nat, Starts(g, a) PROVE Starts(g, a)'
  <2>1. PICK l \in Nat : l = Len(sent[g]) /\ l = Len(sent'[g])
    BY <1>1, OrderTyped
  <2>2. a \in 1..(n + 1) /\ a + l - 1 <= n - m
    BY <1>2, <1>5, <1>7, <2>1 DEF Starts
  <2>3. ASSUME NEW i \in 1..l PROVE sent'[g][i] = pushed'[a + i - 1]
    <3>1. sent[g][i] = pushed[a + i - 1]
      BY <1>7, <2>1 DEF Starts
    <3>2. a + i - 1 \in 1..n
      BY <1>5, <2>2
    <3>3. QED
      BY <1>1, <1>3, <3>1, <3>2
  <2>4. g \in listener_ /\ sent[g] # <<>> => a + l - 1 = n - m
    BY <1>5, <1>7, <2>1 DEF Starts
  <2>5. a \in 1..(Len(pushed') + 1)
    BY <1>3, <2>2
  <2>6. QED
    BY <1>1, <1>5, <2>1, <2>2, <2>3, <2>4, <2>5 DEF Starts
<1>8. \A g \in Gets : stage'[g] \in {"unsent", "posted"} => sent'[g] = <<>>
  BY <1>1 DEF StorePush, Move, OrderInv, TypeOK, Packets
<1>9. QED
  BY <1>6, <1>7, <1>8 DEF OrderInv

\* try_pop takes the message that was pushed first of those that are queued.
LEMMA OrderPop ==
  ASSUME TypeOK, OrderInv, message_queue_ # <<>>,
         message_queue_' = Tail(message_queue_), pushed' = pushed
  PROVE  /\ QueueTail' /\ Count' = Count + 1 /\ Count \in Nat /\ Count + 1 <= Len(pushed)
         /\ Head(message_queue_) = pushed[Count + 1]
<1>1. PICK n \in Nat, m \in Nat : n = Len(pushed) /\ m = Len(message_queue_)
  BY OrderTyped
<1>2. m > 0
  BY <1>1, OrderTyped, EmptySeq
<1>3. /\ Len(message_queue_') = m - 1 /\ Head(message_queue_) = message_queue_[1]
      /\ \A i \in 1..(m - 1) : message_queue_'[i] = message_queue_[i + 1]
  BY <1>1, OrderTyped
<1>4. Count = n - m /\ Count' = (n - m) + 1 /\ m <= n
  BY <1>1, <1>2, <1>3 DEF Count, OrderInv, QueueTail
<1>5. \A i \in 1..m : message_queue_[i] = pushed[(n - m) + i]
  BY <1>1, <1>4 DEF OrderInv, QueueTail
<1>6. ASSUME NEW i \in 1..(m - 1) PROVE message_queue_'[i] = pushed'[((n - m) + 1) + i]
  <2>1. message_queue_'[i] = message_queue_[i + 1] /\ i + 1 \in 1..m
    BY <1>2, <1>3
  <2>2. (n - m) + (i + 1) = ((n - m) + 1) + i
    OBVIOUS
  <2>3. QED
    BY <1>5, <2>1, <2>2
<1>7. QueueTail'
  BY <1>1, <1>2, <1>3, <1>4, <1>6 DEF QueueTail
<1>8. Head(message_queue_) = pushed[Count + 1]
  BY <1>2, <1>3, <1>4, <1>5
<1>9. QED
  BY <1>1, <1>2, <1>4, <1>7, <1>8

\* The signal sends what was popped to everybody who is connected.
LEMMA OrderDeliver ==
  ASSUME TypeOK, PlaceInv, OrderInv, NEW p \in Packets, Deliver(p)
  PROVE  OrderInv'
<1>1. PICK m \in Puts : m = Head(message_queue_)
  BY DEF Deliver, TypeOK
<1>2. /\ message_queue_ # <<>> /\ message_queue_' = Tail(message_queue_)
      /\ UNCHANGED <<pushed, listener_, stage>>
      /\ \A g \in Gets : sent'[g] = IF g \in listener_ THEN Append(sent[g], m) ELSE sent[g]
  BY <1>1 DEF Deliver
<1>3. PICK c \in Nat : /\ c = Count /\ Count' = c + 1 /\ c + 1 <= Len(pushed) /\ QueueTail'
                       /\ m = pushed[c + 1]
  BY <1>1, <1>2, OrderPop
<1>4. ASSUME NEW g \in Gets PROVE \E a \in Nat : Starts(g, a)'
  <2>1. PICK a \in Nat : Starts(g, a)
    BY DEF OrderInv
  <2>2. PICK l \in Nat : l = Len(sent[g]) /\ sent[g] \in Seq(Puts)
    BY OrderTyped
  <2>3. CASE g \notin listener_
    <3>1. sent'[g] = sent[g] /\ g \notin listener_'
      BY <1>2, <2>3
    <3>2. a + l - 1 <= c + 1
      BY <1>3, <2>1, <2>2 DEF Starts
    <3>3. Starts(g, a)'
      BY <1>2, <1>3, <2>1, <2>2, <3>1, <3>2 DEF Starts
    <3>4. QED
      BY <3>3
  <2>4. CASE g \in listener_ /\ sent[g] = <<>>
    <3>0. Append(<<>>, m) = <<m>>
      OBVIOUS
    <3>1. sent'[g] = <<m>>
      BY <1>2, <2>4, <3>0
    <3>2. Len(sent'[g]) = 1 /\ sent'[g][1] = m
      BY <3>1
    <3>3. Starts(g, c + 1)'
      BY <1>2, <1>3, <3>2, OrderTyped DEF Starts
    <3>4. QED
      BY <3>3
  <2>5. CASE g \in listener_ /\ sent[g] # <<>>
    <3>1. a + l - 1 = c
      BY <1>3, <2>1, <2>2, <2>5 DEF Starts
    <3>2. sent'[g] = Append(sent[g], m)
      BY <1>2, <2>5
    <3>3. /\ Len(sent'[g]) = l + 1 /\ sent'[g][l + 1] = m
          /\ \A i \in 1..l : sent'[g][i] = sent[g][i]
      BY <2>2, <3>2
    <3>4. ASSUME NEW i \in 1..(l + 1) PROVE sent'[g][i] = pushed'[a + i - 1]
      <4>1. CASE i \in 1..l
        BY <1>2, <2>1, <2>2, <3>3, <4>1 DEF Starts
      <4>2. CASE i = l + 1
        <5>1. a + i - 1 = c + 1
          BY <3>1, <4>2
        <5>2. QED
          BY <1>2, <1>3, <3>3, <4>2, <5>1
      <4>3. QED
        BY <4>1, <4>2
    <3>5. a + Len(sent'[g]) - 1 = c + 1
      BY <3>1, <3>3
    <3>6. a \in 1..(Len(pushed') + 1)
      BY <1>2, <2>1 DEF Starts
    <3>7. Starts(g, a)'
      BY <1>3, <3>3, <3>4, <3>5, <3>6 DEF Starts
    <3>8. QED
      BY <3>7
  <2>6. QED
    BY <2>3, <2>4, <2>5
<1>5. \A g \in Gets : stage'[g] \in {"unsent", "posted"} => sent'[g] = <<>>
  <2>1. \A g \in Gets : stage[g] \in {"unsent", "posted"} => g \notin listener_
    BY DEF PlaceInv
  <2>2. QED
    BY <1>2, <2>1 DEF OrderInv
<1>6. QED
  BY <1>3, <1>4, <1>5 DEF OrderInv

\* A trigger topic has sent nothing to anybody.
LEMMA OrderTrigger ==
  ASSUME TypeOK, PlaceInv, OrderInv, NEW p \in Packets, TriggerPost(p)
  PROVE  OrderInv'
<1>1. /\ is_trigger /\ message_queue_ # <<>> /\ message_queue_' = Tail(message_queue_)
      /\ UNCHANGED <<pushed, listener_, stage, sent>>
  BY DEF TriggerPost
<1>2. QueueTail' /\ Count' = Count + 1 /\ Count \in Nat /\ Count + 1 <= Len(pushed)
  BY <1>1, OrderPop
<1>3. \A g \in Gets : sent[g] = <<>>
  <2> SUFFICES ASSUME NEW g \in Gets, sent[g] # <<>> PROVE FALSE
    OBVIOUS
  <2>1. Head(sent[g]) \in ToSet(sent[g]) /\ Head(sent[g]) \in Puts
    BY OrderTyped, ToSetTail
  <2>2. Delivered(Head(sent[g]))
    BY <2>1 DEF Delivered
  <2>3. QED
    BY <1>1, <2>1, <2>2 DEF PlaceInv
<1>4. ASSUME NEW g \in Gets PROVE Starts(g, 1)'
  <2>1. sent'[g] = <<>> /\ Len(sent'[g]) = 0
    BY <1>1, <1>3
  <2>2. 1 \in 1..(Len(pushed') + 1) /\ 1 + 0 - 1 <= Count'
    BY <1>1, <1>2, OrderTyped
  <2>3. QED
    BY <2>1, <2>2 DEF Starts
<1>5. QED
  BY <1>1, <1>2, <1>3, <1>4 DEF OrderInv

\* Every handler keeps the order.
LEMMA OrderStep ==
  ASSUME TypeOK, PlaceInv, OrderInv, NEW p \in Packets, Receive(p) \/ Handle(p)
  PROVE  OrderInv'
<1> USE DEF TypeOK, Packets, Move
<1>1. CASE p \in Puts /\ StorePush(p)
  BY <1>1, OrderPush
<1>2. CASE Deliver(p)
  BY <1>2, OrderDeliver
<1>3. CASE TriggerPost(p)
  BY <1>3, OrderTrigger
<1>4. CASE p \in Gets /\ LoadConnect(p)
  <2>1. UNCHANGED <<pushed, message_queue_, sent>>
    BY <1>4 DEF LoadConnect
  <2>2. \A g \in listener_' : g \in listener_ \/ sent[g] = <<>>
    BY <1>4 DEF LoadConnect, OrderInv
  <2>3. \A g \in Gets : stage'[g] \in {"unsent", "posted"} => stage[g] \in {"unsent", "posted"}
    BY <1>4 DEF LoadConnect
  <2>4. QED
    BY <2>1, <2>2, <2>3, OrderFrame
<1>5. CASE (p \in Puts /\ ReceivePut(p)) \/ (p \in Gets /\ ReceiveGet(p)) \/ (p \in Puts /\ StoreEvent(p))
           \/ (p \in Gets /\ LoadEvent(p)) \/ EventBegin(p) \/ DrainEnd(p) \/ Clear(p) \/ TriggerEnd(p)
  <2>1. UNCHANGED <<pushed, message_queue_, sent>> /\ listener_' \subseteq listener_
    BY <1>5 DEF ReceivePut, ReceiveGet, StoreEvent, LoadEvent, EventBegin, DrainEnd, Clear, TriggerEnd
  <2>2. \A g \in Gets : stage'[g] \in {"unsent", "posted"} => stage[g] \in {"unsent", "posted"}
    BY <1>5 DEF ReceivePut, ReceiveGet, StoreEvent, LoadEvent, EventBegin, DrainEnd, Clear, TriggerEnd
  <2>3. QED
    BY <2>1, <2>2, OrderFrame
<1>6. QED
  BY <1>1, <1>2, <1>3, <1>4, <1>5, StepCases

\* The order of positions is that of InOrder.
LEMMA OrderImplies ==
  ASSUME TypeOK, OrderInv
  PROVE  InOrder
<1> SUFFICES ASSUME NEW g \in Gets PROVE RunOf(g)
  BY DEF InOrder
<1>1. PICK a \in Nat : Starts(g, a)
  BY DEF OrderInv
<1>2. PICK n \in Nat, m \in Nat, l \in Nat, c \in Int :
        /\ n = Len(pushed) /\ m = Len(message_queue_) /\ l = Len(sent[g]) /\ c = n - m /\ c = Count
  BY OrderTyped DEF Count
<1>3. a \in 1..(n + 1) /\ a + l - 1 <= c /\ m <= n
  BY <1>1, <1>2 DEF Starts, OrderInv, QueueTail
<1>4. PICK b \in 0..n : b = a + l - 1
  <2>1. c <= n /\ a >= 1
    BY <1>2, <1>3
  <2>2. a + l - 1 <= n /\ a + l - 1 >= 0 /\ a + l - 1 \in Int
    BY <1>3, <2>1
  <2>3. a + l - 1 \in 0..n
    BY <2>2
  <2>4. QED
    BY <2>3
<1>5. sent[g] = SubSeq(pushed, a, b)
  <2>1. pushed \in Seq(Puts) /\ sent[g] \in Seq(Puts)
    BY OrderTyped
  <2>2. \A i \in a..b : pushed[i] \in Puts
    BY <1>2, <1>3, <2>1
  <2>3. /\ SubSeq(pushed, a, b) \in Seq(Puts)
        /\ Len(SubSeq(pushed, a, b)) = IF a <= b THEN b - a + 1 ELSE 0
        /\ \A i \in 1..(b - a + 1) : SubSeq(pushed, a, b)[i] = pushed[a + i - 1]
    BY <2>2, SubSeqProperties
  <2>4. Len(SubSeq(pushed, a, b)) = l /\ b - a + 1 = l
    BY <1>3, <1>4, <2>3
  <2>5. \A i \in 1..l : sent[g][i] = SubSeq(pushed, a, b)[i]
    BY <1>1, <1>2, <2>3, <2>4 DEF Starts
  <2>6. QED
    BY <1>2, <2>1, <2>3, <2>4, <2>5, SeqEqual
<1>6. c = Len(Popped)
  <2>1. pushed \in Seq(Puts) /\ c \in 0..n
    BY <1>2, <1>3, OrderTyped
  <2>2. \A i \in 1..c : pushed[i] \in Puts
    BY <1>2, <2>1
  <2>3. Len(SubSeq(pushed, 1, c)) = IF 1 <= c THEN c - 1 + 1 ELSE 0
    BY <2>1, <2>2, SubSeqProperties
  <2>4. QED
    BY <1>2, <2>1, <2>3 DEF Popped
<1>7. g \in listener_ /\ sent[g] # <<>> => b = c
  BY <1>1, <1>2, <1>4 DEF Starts
<1>8. QED
  BY <1>2, <1>3, <1>4, <1>5, <1>6, <1>7 DEF RunOf

\* Messages reach every listener in the order of push_message, without a gap while it is
\* connected: one signal call serves all slots, and the strand runs one loop at a time.
THEOREM MessagesInOrder == Spec => []InOrder
<1>1. Init => OrderInv
  <2> SUFFICES ASSUME Init PROVE OrderInv
    OBVIOUS
  <2>1. QueueTail /\ Count = 0
    BY DEF Init, QueueTail, Count
  <2>2. \A g \in Gets : Starts(g, 1) /\ sent[g] = <<>>
    BY <2>1 DEF Init, Starts
  <2>3. QED
    BY <2>1, <2>2 DEF OrderInv
<1>2. IInv /\ OrderInv /\ [Next]_vars => OrderInv'
  <2> SUFFICES ASSUME IInv, OrderInv, [Next]_vars PROVE OrderInv'
    OBVIOUS
  <2>1. CASE Next
    BY <2>1, OrderStep DEF Next, IInv
  <2>2. CASE UNCHANGED vars
    BY <2>2, OrderFrame DEF vars
  <2>3. QED
    BY <2>1, <2>2
<1>3. IInv /\ OrderInv => InOrder
  BY OrderImplies DEF IInv
<1>4. QED
  BY <1>1, <1>2, <1>3, Inductive, PTL DEF Spec
=============================================================================
