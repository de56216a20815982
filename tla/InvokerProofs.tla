--------------------------- MODULE InvokerProofs ---------------------------
(***************************************************************************)
(* Proofs about Invoker for any number of posts.                           *)
(***************************************************************************)
EXTENDS Invoker, TLAPS

-----------------------------------------------------------------------------
(* The inductive invariant.                                                *)

\* Callers that take turns leave the counter to one post at a time.
TurnInv ==
  turns =>
    /\ \A p, q \in Active : p = q
    /\ \A p \in Posts :
         /\ stage[p] = "idle" => attempts[p] = 0
         /\ stage[p] \in {"resolve", "connect", "handshake"} => attempts[p] <= retried_
         /\ stage[p] = "write" => attempts[p] <= retried_ + 1

\* A write that is under way has not been counted in served.
ServedInv ==
  \A p \in Posts : served[p] + (IF stage[p] = "write" THEN 1 ELSE 0) <= attempts[p]

IInv == TypeOK /\ SharedBudget /\ AtMostFour /\ TurnInv /\ ServedInv

-----------------------------------------------------------------------------
\* The steps of the invoker, as one list of actions.
LEMMA StepCases ==
  ASSUME Next
  PROVE  \/ \E p \in Posts : \/ StartPost(p) \/ Resolved(p) \/ Connected(p) \/ Shaken(p)
                             \/ Written(p) \/ WriteFailed(p) \/ ReadDone(p)
         \/ PeerLeaves \/ Expire
  BY DEF Next, Progress

\* An operation that is started changes its own post only.
LEMMA BeginEffect ==
  ASSUME TypeOK, NEW p \in Posts, NEW op \in StreamOps, Begin(p, op)
  PROVE  /\ stage' \in [Posts -> StreamOps \cup Ended \cup {"idle", "resolve"}]
         /\ \A q \in Posts : stage'[q] = IF q = p THEN op ELSE stage[q]
         /\ attempts' \in [Posts -> Nat]
         /\ \A q \in Posts : attempts'[q] = IF q = p /\ op = "write" THEN attempts[q] + 1 ELSE attempts[q]
         /\ clash' \in BOOLEAN
<1>1. clash' \in BOOLEAN
  BY DEF Begin
<1>2. /\ stage' \in [Posts -> StreamOps \cup Ended \cup {"idle", "resolve"}]
      /\ \A q \in Posts : stage'[q] = IF q = p THEN op ELSE stage[q]
  BY DEF Begin, Goto, TypeOK
<1>3. /\ attempts' \in [Posts -> Nat]
      /\ \A q \in Posts : attempts'[q] = IF q = p /\ op = "write" THEN attempts[q] + 1 ELSE attempts[q]
  BY DEF Begin, TypeOK
<1>4. QED
  BY <1>1, <1>2, <1>3

\* So does one that is not.
LEMMA GotoEffect ==
  ASSUME TypeOK, NEW p \in Posts, NEW s \in StreamOps \cup Ended \cup {"idle", "resolve"}, Goto(p, s)
  PROVE  /\ stage' \in [Posts -> StreamOps \cup Ended \cup {"idle", "resolve"}]
         /\ \A q \in Posts : stage'[q] = IF q = p THEN s ELSE stage[q]
  BY DEF Goto, TypeOK

\* Retries are counted modulo four, and every variable keeps its type.
LEMMA TypeStep ==
  ASSUME TypeOK, SharedBudget, Next
  PROVE  TypeOK' /\ SharedBudget'
<1> USE DEF TypeOK, SharedBudget
<1>1. ASSUME NEW p \in Posts, StartPost(p) PROVE TypeOK' /\ SharedBudget'
  BY <1>1, BeginEffect, GotoEffect DEF StartPost, StreamOps
<1>2. ASSUME NEW p \in Posts, Resolved(p) PROVE TypeOK' /\ SharedBudget'
  BY <1>2, BeginEffect, GotoEffect DEF Resolved, StreamOps, Drop, Ended
<1>3. ASSUME NEW p \in Posts, Connected(p) PROVE TypeOK' /\ SharedBudget'
  BY <1>3, BeginEffect, GotoEffect DEF Connected, StreamOps, Drop, Ended, LinkAfterError
<1>4. ASSUME NEW p \in Posts, Shaken(p) PROVE TypeOK' /\ SharedBudget'
  BY <1>4, BeginEffect, GotoEffect DEF Shaken, StreamOps, Drop, Ended, LinkAfterError
<1>5. ASSUME NEW p \in Posts, Written(p) PROVE TypeOK' /\ SharedBudget'
  BY <1>5, BeginEffect DEF Written, StreamOps
<1>6. ASSUME NEW p \in Posts, WriteFailed(p) PROVE TypeOK' /\ SharedBudget'
  <2>1. stage' \in [Posts -> StreamOps \cup Ended \cup {"idle", "resolve"}]
    BY <1>6, GotoEffect DEF WriteFailed, Ended
  <2>2. served' \in [Posts -> Nat] /\ link' \in {"closed", "raw", "ready", "left"}
    BY <1>6 DEF WriteFailed, LinkAfterError
  <2>3. failures' = failures + 1 /\ failures' \in Nat
    BY <1>6 DEF WriteFailed
  <2>4. CASE retried_ < 3
    <3>1. retried_' = retried_ + 1 /\ retried_' \in 0..3
      BY <1>6, <2>4 DEF WriteFailed, MayRetry
    <3>2. (failures + 1) % 4 = (failures % 4) + 1
      BY <2>4
    <3>3. QED
      BY <1>6, <2>1, <2>2, <2>3, <3>1, <3>2 DEF WriteFailed
  <2>5. CASE retried_ = 3
    <3>1. retried_' = 0
      BY <1>6, <2>5 DEF WriteFailed, MayRetry
    <3>2. (failures + 1) % 4 = 0
      BY <2>5
    <3>3. QED
      BY <1>6, <2>1, <2>2, <2>3, <3>1, <3>2 DEF WriteFailed
  <2>6. QED
    BY <2>4, <2>5
<1>7. ASSUME NEW p \in Posts, ReadDone(p) PROVE TypeOK' /\ SharedBudget'
  BY <1>7, GotoEffect DEF ReadDone, Ended, LinkAfterError
<1>8. CASE PeerLeaves
  BY <1>8 DEF PeerLeaves
<1>9. CASE Expire
  BY <1>9 DEF Expire
<1>10. QED
  BY <1>1, <1>2, <1>3, <1>4, <1>5, <1>6, <1>7, <1>8, <1>9, StepCases

\* What the server got was written.
LEMMA ServedStep ==
  ASSUME TypeOK, ServedInv, Next
  PROVE  ServedInv'
<1> USE DEF ServedInv, StreamOps, Ended
<1>1. ASSUME NEW p \in Posts, StartPost(p) PROVE ServedInv'
  BY <1>1, BeginEffect, GotoEffect DEF StartPost, TypeOK
<1>2. ASSUME NEW p \in Posts, Resolved(p) PROVE ServedInv'
  BY <1>2, BeginEffect, GotoEffect DEF Resolved, Drop, TypeOK
<1>3. ASSUME NEW p \in Posts, Connected(p) PROVE ServedInv'
  BY <1>3, BeginEffect, GotoEffect DEF Connected, Drop, TypeOK
<1>4. ASSUME NEW p \in Posts, Shaken(p) PROVE ServedInv'
  BY <1>4, BeginEffect, GotoEffect DEF Shaken, Drop, TypeOK
<1>5. ASSUME NEW p \in Posts, Written(p) PROVE ServedInv'
  <2>1. \A q \in Posts : /\ stage'[q] = IF q = p THEN "read" ELSE stage[q]
                         /\ attempts'[q] = attempts[q]
    BY <1>5, BeginEffect DEF Written
  <2>2. stage[p] = "write" /\ served'[p] \in {served[p], served[p] + 1}
        /\ \A q \in Posts \ {p} : served'[q] = served[q]
    BY <1>5 DEF Written, TypeOK
  <2>3. QED
    BY <2>1, <2>2 DEF TypeOK
<1>6. ASSUME NEW p \in Posts, WriteFailed(p) PROVE ServedInv'
  <2>1. \A q \in Posts : stage'[q] = IF q = p THEN stage'[p] ELSE stage[q]
    BY <1>6, GotoEffect DEF WriteFailed
  <2>2. stage'[p] \in {"resolve", "dropped"} /\ attempts' = attempts
    BY <1>6, GotoEffect DEF WriteFailed
  <2>3. stage[p] = "write" /\ served'[p] \in {served[p], served[p] + 1}
        /\ \A q \in Posts \ {p} : served'[q] = served[q]
    BY <1>6 DEF WriteFailed, TypeOK
  <2>4. QED
    BY <2>1, <2>2, <2>3 DEF TypeOK
<1>7. ASSUME NEW p \in Posts, ReadDone(p) PROVE ServedInv'
  BY <1>7, GotoEffect DEF ReadDone, TypeOK
<1>8. CASE PeerLeaves \/ Expire
  BY <1>8 DEF PeerLeaves, Expire
<1>9. QED
  BY <1>1, <1>2, <1>3, <1>4, <1>5, <1>6, <1>7, <1>8, StepCases

\* A step of post p whose callers take turns: p is the only active post before and
\* after, so only p can be at odds with the counter.
LEMMA TurnFrame ==
  ASSUME TypeOK, TurnInv, AtMostFour, turns, NEW p \in Posts,
         Active \subseteq {p},
         \A q \in Posts \ {p} : stage'[q] = stage[q] /\ attempts'[q] = attempts[q],
         stage'[p] # "idle",
         stage'[p] \in {"resolve", "connect", "handshake"} => attempts'[p] <= retried_',
         stage'[p] = "write" => attempts'[p] <= retried_' + 1,
         attempts'[p] <= 4,
         TypeOK', ServedInv'
  PROVE  TurnInv' /\ AtMostFour'
<1>1. \A q \in Posts \ {p} : stage[q] \in Ended \cup {"idle"}
  BY DEF Active
<1>2. \A q \in Posts \ {p} : stage'[q] \in Ended \cup {"idle"}
  BY <1>1
<1>3. Active' \subseteq {p}
  BY <1>2 DEF Active
<1>4. \A q \in Posts : stage'[q] = "idle" => attempts'[q] = 0
  BY DEF TurnInv
<1>5. \A q \in Posts : attempts'[q] <= 4
  BY DEF AtMostFour
<1>6. TurnInv'
  BY <1>2, <1>3, <1>4 DEF TurnInv, Ended
<1>7. \A q \in Posts : served'[q] <= attempts'[q]
  BY DEF ServedInv, TypeOK
<1>8. QED
  BY <1>5, <1>6, <1>7 DEF AtMostFour

\* A post that is active is the only one.
LEMMA OnlyActive ==
  ASSUME TurnInv, turns, NEW p \in Posts, stage[p] \notin Ended \cup {"idle"}
  PROVE  Active \subseteq {p}
  BY DEF TurnInv, Active

\* A post enters the loop of retries with no write made, and each further write was
\* preceded by a count in retried_.
LEMMA TurnStep ==
  ASSUME TypeOK, SharedBudget, TurnInv, AtMostFour, ServedInv, Next
  PROVE  TurnInv' /\ AtMostFour'
<1>t. turns' = turns
  BY StepCases DEF StartPost, Resolved, Connected, Shaken, Written, WriteFailed, ReadDone,
                   PeerLeaves, Expire
<1> SUFFICES ASSUME turns PROVE TurnInv' /\ AtMostFour'
  BY <1>t DEF TurnInv, AtMostFour
<1>0. TypeOK' /\ ServedInv'
  BY TypeStep, ServedStep
<1>a. retried_ \in 0..3 /\ \A q \in Posts : attempts[q] \in Nat
  BY DEF TypeOK
<1>b. \A q \in Posts : attempts[q] <= 4
  BY DEF AtMostFour
<1>1. ASSUME NEW p \in Posts, StartPost(p) PROVE TurnInv' /\ AtMostFour'
  <2>1. Active \subseteq {p} /\ attempts[p] = 0 /\ retried_' = retried_
    BY <1>1 DEF StartPost, TurnInv
  <2>2. CASE Begin(p, "write")
    BY <1>0, <1>a, <2>1, <2>2, BeginEffect, TurnFrame DEF StreamOps
  <2>3. CASE Goto(p, "resolve") /\ UNCHANGED attempts
    BY <1>0, <1>a, <2>1, <2>3, GotoEffect, TurnFrame
  <2>4. QED
    BY <1>1, <2>2, <2>3 DEF StartPost
<1>2. ASSUME NEW p \in Posts, Resolved(p) \/ Connected(p) PROVE TurnInv' /\ AtMostFour'
  <2>1. Active \subseteq {p} /\ attempts[p] <= retried_ /\ retried_' = retried_
    BY <1>2, OnlyActive DEF Resolved, Connected, TurnInv, Ended
  <2>2. CASE Begin(p, "connect") \/ Begin(p, "handshake")
    BY <1>0, <1>a, <1>b, <2>1, <2>2, BeginEffect, TurnFrame DEF StreamOps
  <2>3. CASE Drop(p)
    BY <1>0, <1>a, <1>b, <2>1, <2>3, GotoEffect, TurnFrame DEF Drop, Ended
  <2>4. QED
    BY <1>2, <2>2, <2>3 DEF Resolved, Connected
<1>3. ASSUME NEW p \in Posts, Shaken(p) PROVE TurnInv' /\ AtMostFour'
  <2>1. Active \subseteq {p} /\ attempts[p] <= retried_ /\ retried_' = retried_
    BY <1>3, OnlyActive DEF Shaken, TurnInv, Ended
  <2>2. CASE Begin(p, "write")
    BY <1>0, <1>a, <2>1, <2>2, BeginEffect, TurnFrame DEF StreamOps
  <2>3. CASE Drop(p)
    BY <1>0, <1>a, <1>b, <2>1, <2>3, GotoEffect, TurnFrame DEF Drop, Ended
  <2>4. QED
    BY <1>3, <2>2, <2>3 DEF Shaken
<1>4. ASSUME NEW p \in Posts, Written(p) PROVE TurnInv' /\ AtMostFour'
  <2>1. Active \subseteq {p}
    BY <1>4, OnlyActive DEF Written, Ended
  <2>2. QED
    BY <1>0, <1>b, <1>4, <2>1, BeginEffect, TurnFrame DEF Written, StreamOps
<1>5. ASSUME NEW p \in Posts, WriteFailed(p) PROVE TurnInv' /\ AtMostFour'
  <2>1. Active \subseteq {p} /\ attempts[p] <= retried_ + 1 /\ UNCHANGED attempts
    BY <1>5, OnlyActive DEF WriteFailed, TurnInv, Ended
  <2>2. CASE MayRetry
    BY <1>0, <1>a, <1>b, <1>5, <2>1, <2>2, GotoEffect, TurnFrame DEF WriteFailed
  <2>3. CASE ~MayRetry
    BY <1>0, <1>b, <1>5, <2>1, <2>3, GotoEffect, TurnFrame DEF WriteFailed, Ended
  <2>4. QED
    BY <2>2, <2>3
<1>6. ASSUME NEW p \in Posts, ReadDone(p) PROVE TurnInv' /\ AtMostFour'
  <2>1. Active \subseteq {p} /\ UNCHANGED attempts
    BY <1>6, OnlyActive DEF ReadDone, Ended
  <2>2. Goto(p, "answered") \/ Goto(p, "dropped")
    BY <1>6 DEF ReadDone
  <2>3. QED
    BY <1>0, <1>b, <2>1, <2>2, GotoEffect, TurnFrame DEF Ended
<1>7. CASE PeerLeaves \/ Expire
  BY <1>7 DEF PeerLeaves, Expire, TurnInv, AtMostFour, Active
<1>8. QED
  BY <1>1, <1>2, <1>3, <1>4, <1>5, <1>6, <1>7, StepCases

-----------------------------------------------------------------------------
(* The theorems.                                                           *)

\* Nothing was posted at first.
LEMMA IInvInit == Init => IInv
<1> SUFFICES ASSUME Init PROVE IInv
  OBVIOUS
<1> USE DEF Init
<1>1. TypeOK
  <2>1. stage \in [Posts -> StreamOps \cup Ended \cup {"idle", "resolve"}]
    BY DEF StreamOps, Ended
  <2>2. attempts \in [Posts -> Nat] /\ served \in [Posts -> Nat]
    OBVIOUS
  <2>3. retried_ \in 0..3 /\ failures \in Nat
    OBVIOUS
  <2>4. expired \in BOOLEAN /\ clash \in BOOLEAN
    BY Zenon
  <2>5. link \in {"closed", "raw", "ready", "left"}
    OBVIOUS
  <2>6. QED
    BY <2>1, <2>2, <2>3, <2>4, <2>5 DEF TypeOK
<1>2. SharedBudget
  BY DEF SharedBudget
<1>3. Active = {}
  BY DEF Active
<1>4. AtMostFour /\ TurnInv /\ ServedInv
  BY <1>3 DEF AtMostFour, TurnInv, ServedInv
<1>5. QED
  BY <1>1, <1>2, <1>4 DEF IInv

\* Every step keeps the inductive invariant.
LEMMA IInvStep == IInv /\ [Next]_vars => IInv'
<1> SUFFICES ASSUME IInv, [Next]_vars PROVE IInv'
  OBVIOUS
<1>1. CASE Next
  BY <1>1, TypeStep, ServedStep, TurnStep DEF IInv
<1>2. CASE UNCHANGED vars
  <2>1. TypeOK' /\ SharedBudget'
    BY <1>2 DEF vars, IInv, TypeOK, SharedBudget
  <2>2. AtMostFour' /\ TurnInv' /\ ServedInv'
    BY <1>2 DEF vars, IInv, AtMostFour, TurnInv, ServedInv, Active
  <2>3. QED
    BY <2>1, <2>2 DEF IInv
<1>3. QED
  BY <1>1, <1>2

\* The inductive invariant of the invoker.
THEOREM Inductive == Spec => []IInv
  BY IInvInit, IInvStep, PTL DEF Spec

\* Every variable of the invoker keeps its type: retried_ never passes three.
THEOREM TypeCorrect == Spec => []TypeOK
<1>1. IInv => TypeOK
  BY DEF IInv
<1>2. QED
  BY <1>1, Inductive, PTL

\* Every fourth failed write gives its post up, whichever posts the others were of.
THEOREM BudgetIsShared == Spec => []SharedBudget
<1>1. IInv => SharedBudget
  BY DEF IInv
<1>2. QED
  BY <1>1, Inductive, PTL

\* A post whose callers take turns is written four times at most.
THEOREM FourWrites == Spec => []AtMostFour
<1>1. IInv => AtMostFour
  BY DEF IInv
<1>2. QED
  BY <1>1, Inductive, PTL

\* An invoker whose deadline has passed without a ready connection is silent.
LEMMA SilentStep ==
  ASSUME Next, expired, link # "ready"
  PROVE  expired' /\ link' # "ready" /\ UNCHANGED served
<1>1. ASSUME NEW p \in Posts, StartPost(p) \/ Resolved(p) \/ Connected(p) \/ Shaken(p)
      PROVE  expired' /\ link' # "ready" /\ UNCHANGED served
  BY <1>1 DEF StartPost, Resolved, Connected, Shaken, LinkAfterError
<1>2. ASSUME NEW p \in Posts, Written(p) \/ WriteFailed(p) \/ ReadDone(p)
      PROVE  expired' /\ link' # "ready" /\ UNCHANGED served
  BY <1>2 DEF Written, WriteFailed, ReadDone, LinkAfterError
<1>3. CASE PeerLeaves \/ Expire
  BY <1>3 DEF PeerLeaves, Expire
<1>4. QED
  BY <1>1, <1>2, <1>3, StepCases

\* The deadline of the constructor ends the invoker's service for good.
THEOREM SilenceIsFinal == Spec => SilentAfterExpiry
<1>1. [Next]_vars => [expired /\ link # "ready" => expired' /\ link' # "ready" /\ UNCHANGED served]_vars
  BY SilentStep
<1>2. QED
  BY <1>1, PTL DEF Spec, SilentAfterExpiry
=============================================================================
