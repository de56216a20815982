----------------------------- MODULE TopicQueue -----------------------------
(***************************************************************************)
(* What a topic of the transport promises to its clients, without threads, *)
(* strands or handlers: published messages wait in a first-in first-out    *)
(* backlog, a message leaves the backlog only by being handed to every     *)
(* subscription that is open at that moment, and open subscriptions are    *)
(* released all together.  A topic that is bound to a URL forwards its     *)
(* messages there instead, and its subscriptions stay open.                *)
(*                                                                         *)
(* A subscription may be released only after some subscription of the      *)
(* round was handed a message (WeakRelease); a strict topic promises more, *)
(* that every released subscription was handed one.  The C++ class bucket  *)
(* is strict only when the io_context runs on a single thread: see module  *)
(* Bucket.                                                                 *)
(***************************************************************************)
EXTENDS Sequences

CONSTANTS
  Messages,      \* what may be published
  Subscriptions  \* the GET requests that may be opened

VARIABLES
  strict,        \* is a release without an answer forbidden?
  bound,         \* is the topic bound to a URL?
  backlog,       \* published messages that were not handed out, oldest first
  open,          \* the subscriptions that wait for messages
  inbox,         \* what each subscription has been handed, in order
  forwarded      \* the messages forwarded to the URL, in order

vars == <<strict, bound, backlog, open, inbox, forwarded>>

Init ==
  /\ strict \in BOOLEAN
  /\ bound \in BOOLEAN
  /\ backlog = <<>>
  /\ open = {}
  /\ inbox = [s \in Subscriptions |-> <<>>]
  /\ forwarded = <<>>

Publish(m) ==
  /\ backlog' = Append(backlog, m)
  /\ UNCHANGED <<strict, bound, open, inbox, forwarded>>

Subscribe(s) ==
  /\ s \notin open
  /\ open' = open \cup {s}
  /\ UNCHANGED <<strict, bound, backlog, inbox, forwarded>>

\* The oldest message goes to every open subscription.
HandOut ==
  /\ ~bound
  /\ backlog # <<>>
  /\ open # {}
  /\ inbox' = [s \in Subscriptions |->
                 IF s \in open THEN Append(inbox[s], Head(backlog)) ELSE inbox[s]]
  /\ backlog' = Tail(backlog)
  /\ UNCHANGED <<strict, bound, open, forwarded>>

\* It goes to the URL the topic is bound to.
Forward ==
  /\ bound
  /\ backlog # <<>>
  /\ forwarded' = Append(forwarded, Head(backlog))
  /\ backlog' = Tail(backlog)
  /\ UNCHANGED <<strict, bound, open, inbox>>

Answered(s) == inbox[s] # <<>>

WeakRelease == \E s \in open : Answered(s)
StrictRelease == \A s \in open : Answered(s)

Release ==
  /\ open # {}
  /\ WeakRelease
  /\ strict => StrictRelease
  /\ open' = {}
  /\ UNCHANGED <<strict, bound, backlog, inbox, forwarded>>

Next ==
  \/ \E m \in Messages : Publish(m)
  \/ \E s \in Subscriptions : Subscribe(s)
  \/ HandOut
  \/ Forward
  \/ Release

SafeSpec == Init /\ [][Next]_vars

\* A backlog and an open subscription do not face each other forever, nor does a
\* bound topic keep a backlog; a subscription that was served is released in the end.
Spec == SafeSpec /\ WF_vars(HandOut \/ Forward) /\ WF_vars(Release)
=============================================================================
