------------------------------ MODULE Invoker ------------------------------
(***************************************************************************)
(* The HTTPS client that posts wakeups (launcher) and bodies of trigger    *)
(* topics (bucket): class trigger::invoker, trigger.hpp.                   *)
(*                                                                         *)
(* All posts of one invoker share its stream_ and its retried_ counter.    *)
(* A post goes through the handlers of start_resolve, start_connect,       *)
(* start_write and start_read; a post that finds the socket open starts    *)
(* with start_write.  The handlers but that of start_read are on           *)
(* io_strand_, so each is one step.                                        *)
(*                                                                         *)
(* External are the stream and the server.  The stream allows one write    *)
(* and one read at a time and nothing beside a connect or a handshake: an  *)
(* operation started against that rule is undefined, and the model stops.  *)
(* Its deadline is set once, by the constructor: when it has passed, an    *)
(* operation that must wait for the network times out at once and closes   *)
(* the socket; a write to an open connection may still be first.           *)
(***************************************************************************)
EXTENDS Naturals, FiniteSets

CONSTANTS
  Posts,   \* calls of start_post
  Faults   \* may the network and the server fail?

ASSUME FaultsAssumption == Faults \in BOOLEAN

VARIABLES
  turns,     \* do the callers wait for a post to end before the next one? (chosen at first)
  stage,     \* the asynchronous operation each post waits for
  retried_,  \* invoker::retried_
  link,      \* the socket: closed, open without TLS ("raw"), ready, or left by the peer
  expired,   \* has the deadline of expires_after(300s) passed?
  clash,     \* was an operation started that the stream does not allow?
  attempts,  \* history: start_writes of each post
  served,    \* history: how often the server got each post
  failures   \* history: writes that failed

vars == <<turns, stage, retried_, link, expired, clash, attempts, served, failures>>

StreamOps == {"connect", "handshake", "write", "read"}
Ended == {"answered", "dropped"}
Active == {p \in Posts : stage[p] \notin Ended \cup {"idle"}}

Init ==
  /\ turns \in BOOLEAN
  /\ stage = [p \in Posts |-> "idle"]
  /\ retried_ = 0
  /\ link = "closed"
  /\ expired = FALSE
  /\ clash = FALSE
  /\ attempts = [p \in Posts |-> 0]
  /\ served = [p \in Posts |-> 0]
  /\ failures = 0

Goto(p, s) == stage' = [stage EXCEPT ![p] = s]

\* Post p starts an operation on stream_.
Begin(p, op) ==
  /\ Goto(p, op)
  /\ clash' = \E q \in Posts \ {p} : stage[q] \in StreamOps /\ {op, stage[q]} # {"write", "read"}
  /\ attempts' = IF op = "write" THEN [attempts EXCEPT ![p] = @ + 1] ELSE attempts

\* The handler of a failed operation logs, and nothing of the post remains.
Drop(p) == Goto(p, "dropped") /\ UNCHANGED <<clash, attempts>>

\* What a timeout leaves of the socket.
LinkAfterError == IF expired THEN "closed" ELSE link

\* The socket being open is all that start_post asks of the stream.
StartPost(p) ==
  /\ stage[p] = "idle"
  /\ turns => Active = {}
  /\ IF link # "closed" THEN Begin(p, "write")
     ELSE Goto(p, "resolve") /\ UNCHANGED <<clash, attempts>>
  /\ UNCHANGED <<turns, retried_, link, expired, served, failures>>

\* async_connect closes the socket it has and opens another.
Resolved(p) ==
  /\ stage[p] = "resolve"
  /\ \/ Begin(p, "connect") /\ link' = "raw"
     \/ Faults /\ Drop(p) /\ UNCHANGED link
  /\ UNCHANGED <<turns, retried_, expired, served, failures>>

\* Mutant: the deadline is set anew for every connection.
ConnectedRearmed(p) ==
  /\ stage[p] = "connect"
  /\ \/ Begin(p, "handshake") /\ UNCHANGED link /\ expired' = FALSE
     \/ Faults /\ Drop(p) /\ link' = LinkAfterError /\ UNCHANGED expired
  /\ UNCHANGED <<turns, retried_, served, failures>>

\* Mutant: a connect has no deadline.
ConnectedForever(p) ==
  /\ stage[p] = "connect"
  /\ ~expired
  /\ \/ Begin(p, "handshake") /\ UNCHANGED link
     \/ Faults /\ Drop(p) /\ UNCHANGED link
  /\ UNCHANGED <<turns, retried_, expired, served, failures>>

Connected(p) ==
  /\ stage[p] = "connect"
  /\ \/ ~expired /\ Begin(p, "handshake") /\ UNCHANGED link
     \/ (Faults \/ expired) /\ Drop(p) /\ link' = LinkAfterError
  /\ UNCHANGED <<turns, retried_, expired, served, failures>>

Shaken(p) ==
  /\ stage[p] = "handshake"
  /\ \/ ~expired /\ Begin(p, "write") /\ link' = "ready"
     \/ (Faults \/ expired) /\ Drop(p) /\ link' = LinkAfterError
  /\ UNCHANGED <<turns, retried_, expired, served, failures>>

\* The write succeeds; what is written after the peer has left is lost.
Written(p) ==
  /\ stage[p] = "write"
  /\ link \in {"ready", "left"}
  /\ Begin(p, "read")
  /\ served' = IF link = "ready" THEN [served EXCEPT ![p] = @ + 1] ELSE served
  /\ UNCHANGED <<turns, retried_, link, expired, failures>>

\* Mutant: one retry more.
MayRetryOnceMore == retried_ <= 3

MayRetry == retried_ < 3

\* Mutant: the counter is not reset when a post is given up.
WriteFailedNoReset(p) ==
  /\ stage[p] = "write"
  /\ Faults \/ expired \/ link # "ready"
  /\ IF MayRetry THEN Goto(p, "resolve") /\ retried_' = retried_ + 1
                 ELSE Goto(p, "dropped") /\ UNCHANGED retried_
  /\ served' \in {served} \cup (IF link = "ready" THEN {[served EXCEPT ![p] = @ + 1]} ELSE {})
  /\ failures' = failures + 1
  /\ link' = LinkAfterError
  /\ UNCHANGED <<turns, expired, clash, attempts>>

\* It fails, perhaps after the server got the request: it is written again on a
\* new connection, or given up.
WriteFailed(p) ==
  /\ stage[p] = "write"
  /\ Faults \/ expired \/ link # "ready"
  /\ IF MayRetry THEN Goto(p, "resolve") /\ retried_' = retried_ + 1
                 ELSE Goto(p, "dropped") /\ retried_' = 0
  /\ served' \in {served} \cup (IF link = "ready" THEN {[served EXCEPT ![p] = @ + 1]} ELSE {})
  /\ failures' = failures + 1
  /\ link' = LinkAfterError
  /\ UNCHANGED <<turns, expired, clash, attempts>>

\* The response, or an error after which nothing is retried.
ReadDone(p) ==
  /\ stage[p] = "read"
  /\ \/ link = "ready" /\ Goto(p, "answered") /\ UNCHANGED link
     \/ (Faults \/ expired \/ link # "ready") /\ Goto(p, "dropped") /\ link' = LinkAfterError
  /\ UNCHANGED <<turns, retried_, expired, clash, attempts, served, failures>>

PeerLeaves ==
  /\ Faults /\ link = "ready"
  /\ link' = "left"
  /\ UNCHANGED <<turns, stage, retried_, expired, clash, attempts, served, failures>>

Expire ==
  /\ ~expired
  /\ expired' = TRUE
  /\ UNCHANGED <<turns, stage, retried_, link, clash, attempts, served, failures>>

Progress(p) ==
  Resolved(p) \/ Connected(p) \/ Shaken(p) \/ Written(p) \/ WriteFailed(p) \/ ReadDone(p)

Next ==
  /\ ~clash
  /\ (\E p \in Posts : StartPost(p) \/ Progress(p)) \/ PeerLeaves \/ Expire

\* Every operation completes, with success or an error.
Fairness == \A p \in Posts : WF_vars(~clash /\ Progress(p))

Spec == Init /\ [][Next]_vars /\ Fairness

-----------------------------------------------------------------------------
(* Properties                                                              *)

TypeOK ==
  /\ turns \in BOOLEAN
  /\ stage \in [Posts -> StreamOps \cup Ended \cup {"idle", "resolve"}]
  /\ retried_ \in 0..3
  /\ link \in {"closed", "raw", "ready", "left"}
  /\ expired \in BOOLEAN /\ clash \in BOOLEAN
  /\ attempts \in [Posts -> Nat] /\ served \in [Posts -> Nat]
  /\ failures \in Nat

\* retried_ is one budget for all posts: it is reset only when a post is given up,
\* not when one succeeds, so every fourth failed write gives its post up, whichever
\* posts the other three belong to.
SharedBudget == retried_ = failures % 4

\* A post whose callers take turns is written at most four times: the server runs
\* the function it asks for four times at most, even when all writes reach it.
AtMostFour == turns => \A p \in Posts : attempts[p] <= 4 /\ served[p] <= attempts[p]

\* Once the deadline has passed and no connection is ready, there will never be
\* one again, for every later connect times out, and the server gets no post.
SilentAfterExpiry ==
  [][expired /\ link # "ready" => expired' /\ link' # "ready" /\ UNCHANGED served]_vars

\* Every post ends: the retries of one post or of several do not go on forever.  Nothing
\* is claimed of posts that overlap once the stream was asked for what it does not allow,
\* which callers that take turns never ask.
EveryPostEnds == \A p \in Posts : p \in Active ~> (p \notin Active \/ (clash /\ ~turns))

\* "Start one" says the launcher of the worker it has none of: the wakeup it posts
\* reaches the host, at least when nothing fails and the callers take turns.
EveryPostServed == \A p \in Posts : (turns /\ stage[p] # "idle") ~> served[p] > 0
=============================================================================
