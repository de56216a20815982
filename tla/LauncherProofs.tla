--------------------------- MODULE LauncherProofs ---------------------------
(***************************************************************************)
(* Proofs about Launcher for any number of jobs, workers, salts and        *)
(* threads.                                                                *)
(***************************************************************************)
EXTENDS Launcher, SequenceLemmas, FiniteSetTheorems, TLAPS

-----------------------------------------------------------------------------
(* The inductive invariant behind the safety properties.                   *)

InFlight == ToSet(strand) \cup UNION {ToSet(fromWorker[w]) : w \in Workers}

\* A handler that looks for a worker or arms a timer has a job in its hands; one
\* that is not done has a call of start_jobs to make; a job's handler starts with
\* the generation of its header.
LoopInv ==
  /\ \A h \in Handlers : pc[h] \in {"scan", "arm"} => hand[h] \in Jobs
  /\ \A h \in Handlers : pc[h] # "done" => calls[h] >= 1
  /\ \A w \in Workers : pc[w] # "emplace"
  /\ \A j \in Jobs : Submitted(j) <=> pc[j] # "idle"

\* registered_jobs_ holds no job twice.
QueueInv ==
  \A a, b \in 1..Len(registered_jobs_) : registered_jobs_[a] = registered_jobs_[b] => a = b

\* Past its emplace, a job's header has an entry; only headers of submitted jobs
\* travel.
EntryInv ==
  /\ \A j \in Jobs : Submitted(j) /\ pc[j] # "emplace" => started_jobs_[salt[j]] # NoJob
  /\ \A m \in InFlight : m.kind \in {"ack", "response"} => Submitted(m.job)
  /\ \A w \in Workers : \A j \in ToSet(toWorker[w]) : Submitted(j)

\* Entries and answers stay with the salt they were made for.
SaltInv ==
  /\ \A s \in Salts : started_jobs_[s] # NoJob => salt[started_jobs_[s]] = s
  /\ \A j \in Jobs : \A a \in ToSet(answers[j]) : Submitted(a)

\* An answer carries the salt of the job it is given to (see OwnAnswer).
SameSalt == \A j \in Jobs : \A a \in ToSet(answers[j]) : salt[a] = salt[j]

\* Handlers run on threads; those that found itrigger_ null did so at the same time.
InvokerInv ==
  /\ Cardinality(Running) <= threads
  /\ Cardinality(invokers \cup {h \in Handlers : pc[h] = "make"}) <= threads

IInv ==
  /\ TypeOK /\ LoopInv /\ QueueInv /\ OnePlace /\ EntryInv /\ SaltInv
  /\ NoStrandedJob /\ CrashWindow /\ InvokerInv /\ SameSalt

-----------------------------------------------------------------------------
(* Type correctness.                                                       *)

\* The steps of the launcher, as one list of actions.
LEMMA StepCases ==
  ASSUME Next
  PROVE  \/ \E j \in Jobs : RegisterJob(j)
         \/ \E j \in Jobs : Emplace(j)
         \/ \E j \in Jobs : TimerHandler(j)
         \/ \E h \in Handlers : Pop(h)
         \/ \E h \in Handlers : PopNothing(h)
         \/ \E h \in Handlers : Arm(h)
         \/ \E h \in Handlers : PushBack(h)
         \/ \E h \in Handlers : FindNoInvoker(h)
         \/ \E h \in Handlers : MakeInvoker(h)
         \/ \E h \in Handlers : Wake(h)
         \/ \E h \in Handlers, w \in Workers : Dispatch(h, w)
         \/ \E w \in Workers : AddWorker(w)
         \/ \E w \in Workers : WriteRest(w)
         \/ \E w \in Workers : Serve(w)
         \/ \E w \in Workers : Misread(w)
         \/ \E w \in Workers : Leave(w)
         \/ \E w \in Workers : Read(w)
         \/ Acknowledge
         \/ Complete
         \/ NullJob
         \/ Tear
  BY DEF Next, Handle, Strand

\* A reply on the strand is one to a submitted job.
LEMMA StrandSubmitted ==
  ASSUME TypeOK, EntryInv, strand # <<>>
  PROVE  /\ Head(strand) \in Replies /\ Head(strand) \in ToSet(strand)
         /\ Head(strand).job \in Jobs
         /\ Submitted(Head(strand).job)
<1>0. PICK R : R = Replies
  OBVIOUS
<1>1. strand \in Seq(R)
  BY <1>0 DEF TypeOK
<1>2. Head(strand) \in R
  BY <1>1
<1>3. Head(strand) \in ToSet(strand)
  BY <1>1, ToSetTail
<1>4. Head(strand).job \in Jobs /\ Head(strand).kind \in {"ack", "response"}
  BY <1>0, <1>2 DEF Replies
<1>5. Submitted(Head(strand).job)
  BY <1>3, <1>4 DEF EntryInv, InFlight
<1>6. QED
  BY <1>0, <1>2, <1>3, <1>4, <1>5

\* What arrives of a worker that leaves are messages.
LEMMA TailsType ==
  ASSUME TypeOK, NEW w \in Workers, NEW tail \in Tails(w)
  PROVE  tail \in Seq(Messages)
<1>1. fromWorker[w] \in Seq(Messages)
  BY DEF TypeOK
<1>2. /\ Message("eof", NoJob) \in Messages /\ Message("cut", NoJob) \in Messages
      /\ Message("dereg", NoJob) \in Messages
  BY DEF Message, Messages, Notices
<1>3. PICK M, s, eof, cut, dereg :
        /\ M = Messages /\ s = fromWorker[w] /\ eof = Message("eof", NoJob)
        /\ cut = Message("cut", NoJob) /\ dereg = Message("dereg", NoJob)
  OBVIOUS
<1>4. \A n \in 0..Len(s) : SubSeq(s, 1, n) \in Seq(M)
  BY <1>1, <1>3
<1>5. \A n \in 0..Len(s) : Append(SubSeq(s, 1, n), eof) \in Seq(M)
  BY <1>2, <1>3, <1>4
<1>6. \A n \in 1..Len(s) : Append(SubSeq(s, 1, n - 1), cut) \in Seq(M)
  <2>1. \A n \in 1..Len(s) : n - 1 \in 0..Len(s)
    BY <1>1, <1>3
  <2>2. QED
    BY <1>2, <1>3, <1>4, <2>1
<1>7. s \o <<dereg, eof>> \in Seq(M)
  BY <1>1, <1>2, <1>3
<1>8. QED
  BY <1>3, <1>5, <1>6, <1>7 DEF Tails

\* What start_post does to the streams: it adds a request, or part of it, or mixes it.
LEMMA StartPostType ==
  ASSUME TypeOK, NEW w \in Workers, NEW j \in Jobs, StartPost(w, j)
  PROVE  /\ \/ toWorker' = toWorker
            \/ toWorker' = [toWorker EXCEPT ![w] = Append(toWorker[w], j)]
         /\ \A v \in Workers : toWorker'[v] = toWorker[v] \/ toWorker'[v] = Append(toWorker[v], j)
         /\ partly' \subseteq Workers /\ garbled' \subseteq Workers
<1>1. /\ partly \subseteq Workers /\ garbled \subseteq Workers
      /\ \E D : toWorker \in [Workers -> D]
  BY DEF TypeOK
<1>2. \/ toWorker' = toWorker
      \/ toWorker' = [toWorker EXCEPT ![w] = Append(toWorker[w], j)]
  BY DEF StartPost
<1>3. partly' \subseteq Workers /\ garbled' \subseteq Workers
  BY <1>1 DEF StartPost
<1>4. QED
  BY <1>1, <1>2, <1>3

\* Every step of the launcher and its workers keeps the types.
LEMMA TypeStep ==
  ASSUME TypeOK, LoopInv, EntryInv, Next
  PROVE  TypeOK'
<1> USE DEF TypeOK, Goto, Return, Cancel, Handlers, loopVars, jobVars, workerVars, linkVars,
           launch
<1>1. ASSUME NEW j \in Jobs, RegisterJob(j) PROVE TypeOK'
  BY <1>1 DEF RegisterJob
<1>2. ASSUME NEW j \in Jobs, Emplace(j) PROVE TypeOK'
  BY <1>2 DEF Emplace
<1>3. ASSUME NEW j \in Jobs, TimerHandler(j) PROVE TypeOK'
  BY <1>3 DEF TimerHandler
<1>4. ASSUME NEW h \in Handlers, Pop(h) PROVE TypeOK'
  BY <1>4 DEF Pop
<1>5. ASSUME NEW h \in Handlers, PopNothing(h) PROVE TypeOK'
  BY <1>5 DEF PopNothing, LoopInv
<1>6. ASSUME NEW h \in Handlers, Arm(h) PROVE TypeOK'
  BY <1>6 DEF Arm, LoopInv
<1>7. ASSUME NEW h \in Handlers, PushBack(h) PROVE TypeOK'
  BY <1>7 DEF PushBack, LoopInv
<1>8. ASSUME NEW h \in Handlers, Wake(h) PROVE TypeOK'
  <2>0. pc[h] = "wake"
    BY <1>8 DEF Wake
  <2>1. calls[h] >= 1 /\ calls[h] \in 0..2
    BY <2>0 DEF LoopInv
  <2>2. wakeups' \in Nat
    BY <1>8 DEF Wake
  <2>3. QED
    BY <1>8, <2>1, <2>2 DEF Wake
<1>9. ASSUME NEW h \in Handlers, NEW w \in Workers, Dispatch(h, w) PROVE TypeOK'
  <2>1. PICK j \in Jobs : j = hand[h]
    BY <1>9 DEF Dispatch, LoopInv
  <2>2. Append(posted[j], w) \in Seq(Workers) /\ Append(toWorker[w], j) \in Seq(Jobs)
    OBVIOUS
  <2>3. /\ \/ toWorker' = toWorker
           \/ toWorker' = [toWorker EXCEPT ![w] = Append(toWorker[w], j)]
        /\ partly' \subseteq Workers /\ garbled' \subseteq Workers
    BY <1>9, <2>1, StartPostType DEF Dispatch
  <2>4. toWorker' \in [Workers -> Seq(Jobs)]
    BY <2>2, <2>3
  <2>5. QED
    BY <1>9, <2>1, <2>2, <2>3, <2>4 DEF Dispatch
<1>10. ASSUME NEW w \in Workers, AddWorker(w) PROVE TypeOK'
  BY <1>10 DEF AddWorker
<1>11. ASSUME NEW w \in Workers, Serve(w) PROVE TypeOK'
  <2>1. PICK j \in Jobs : j = Head(toWorker[w])
    BY <1>11 DEF Serve
  <2>2. /\ Message("ack", j) \in Messages /\ Message("response", j) \in Messages
    BY DEF Message, Messages, Replies
  <2>3. fromWorker[w] \o <<Message("ack", j), Message("response", j)>> \in Seq(Messages)
    BY <2>2
  <2>4. Tail(toWorker[w]) \in Seq(Jobs)
    BY <1>11 DEF Serve
  <2>5. QED
    BY <1>11, <2>1, <2>3, <2>4 DEF Serve
<1>12. ASSUME NEW w \in Workers, Leave(w) PROVE TypeOK'
  <2>1. \A tail \in Tails(w) : tail \in Seq(Messages)
    BY TailsType
  <2>2. QED
    BY <1>12, <2>1 DEF Leave
<1>13. ASSUME NEW w \in Workers, Read(w) PROVE TypeOK'
  <2>1. Head(fromWorker[w]) \in Messages /\ Tail(fromWorker[w]) \in Seq(Messages)
    BY <1>13 DEF Read
  <2>2. Head(fromWorker[w]).kind \in {"ack", "response"} => Head(fromWorker[w]) \in Replies
    BY <2>1 DEF Messages, Notices
  <2>3. strand' \in Seq(Replies) /\ fromWorker' \in [Workers -> Seq(Messages)]
    BY <1>13, <2>1, <2>2 DEF Read
  <2>4. QED
    BY <1>13, <2>3 DEF Read
<1>14. ASSUME Acknowledge PROVE TypeOK'
  <2>1. Head(strand) \in Replies /\ Tail(strand) \in Seq(Replies)
    BY <1>14 DEF Acknowledge
  <2>2. QED
    BY <1>14, <2>1 DEF Acknowledge
<1>15. ASSUME Complete PROVE TypeOK'
  <2>1. Head(strand) \in Replies /\ Tail(strand) \in Seq(Replies)
    BY <1>15 DEF Complete
  <2>2. Head(strand).job \in Jobs
    BY <2>1 DEF Replies
  <2>2a. Submitted(Head(strand).job)
    BY <1>15, StrandSubmitted DEF Complete
  <2>3. PICK f \in Jobs : f = Found
    BY <1>15, <2>2, <2>2a DEF Complete, Found, Submitted
  <2>4. Append(answers[f], Head(strand).job) \in Seq(Jobs)
    BY <2>2
  <2>5. QED
    BY <1>15, <2>1, <2>3, <2>4 DEF Complete
<1>16. ASSUME NullJob \/ Tear PROVE TypeOK'
  BY <1>16 DEF NullJob, Tear
<1>17. ASSUME NEW h \in Handlers, FindNoInvoker(h) PROVE TypeOK'
  BY <1>17 DEF FindNoInvoker
<1>18. ASSUME NEW h \in Handlers, MakeInvoker(h) PROVE TypeOK'
  BY <1>18 DEF MakeInvoker
<1>19. ASSUME NEW w \in Workers, WriteRest(w) \/ Misread(w) PROVE TypeOK'
  BY <1>19 DEF WriteRest, Misread
<1>20. QED
  BY <1>1, <1>2, <1>3, <1>4, <1>5, <1>6, <1>7, <1>8, <1>9, <1>10, <1>11, <1>12, <1>13, <1>14,
     <1>15, <1>16, <1>17, <1>18, <1>19, StepCases

-----------------------------------------------------------------------------
(* The loop of start_jobs.                                                 *)

\* What workers do, what is read of them and what runs on the strand moves no
\* handler and no job; nor does the handler of a timer, because the two outcomes
\* of its wait never satisfy its condition.
LEMMA QuietSteps ==
  ASSUME \/ \E j \in Jobs : TimerHandler(j)
         \/ \E w \in Workers : WriteRest(w) \/ Serve(w) \/ Misread(w) \/ Leave(w) \/ Read(w)
         \/ Acknowledge \/ Complete \/ NullJob \/ Tear
  PROVE  UNCHANGED <<pc, calls, hand, salt, registered_jobs_, posted, started_jobs_>>
<1>1. ASSUME NEW j \in Jobs, TimerHandler(j)
      PROVE  UNCHANGED <<pc, calls, hand, salt, registered_jobs_, posted, started_jobs_>>
  BY <1>1 DEF TimerHandler, RePushOn, loopVars
<1>2. ASSUME NEW w \in Workers, WriteRest(w) \/ Serve(w) \/ Misread(w) \/ Leave(w) \/ Read(w)
      PROVE  UNCHANGED <<pc, calls, hand, salt, registered_jobs_, posted, started_jobs_>>
  BY <1>2 DEF WriteRest, Serve, Misread, Leave, Read, loopVars, jobVars
<1>3. ASSUME Acknowledge \/ Complete \/ NullJob \/ Tear
      PROVE  UNCHANGED <<pc, calls, hand, salt, registered_jobs_, posted, started_jobs_>>
  BY <1>3 DEF Acknowledge, Complete, NullJob, Tear, loopVars, jobVars
<1>4. QED
  BY <1>1, <1>2, <1>3

\* Returning from start_jobs takes one call off the handler's count.
LEMMA ReturnLoop ==
  ASSUME TypeOK, LoopInv, NEW h \in Handlers, NEW from \in {"pop", "wake"}, Return(h, from),
         UNCHANGED <<hand, salt>>
  PROVE  LoopInv'
<1>1. /\ pc[h] = from /\ calls[h] \in 0..2 /\ calls[h] >= 1
      /\ pc' = [pc EXCEPT ![h] = IF calls[h] > 1 THEN "pop" ELSE "done"]
      /\ calls' = [calls EXCEPT ![h] = calls[h] - 1]
  BY DEF TypeOK, LoopInv, Return, Goto
<1>2. calls[h] > 1 => calls[h] - 1 >= 1
  BY <1>1
<1>3. \A k \in Handlers : calls'[k] = IF k = h THEN calls[h] - 1 ELSE calls[k]
  BY <1>1 DEF TypeOK
<1>4. \A k \in Handlers :
        pc'[k] = IF k = h THEN IF calls[h] > 1 THEN "pop" ELSE "done" ELSE pc[k]
  BY <1>1 DEF TypeOK
<1>5. \A k \in Handlers : pc'[k] # "done" => calls'[k] >= 1
  BY <1>2, <1>3, <1>4 DEF LoopInv
<1>6. \A k \in Handlers : pc'[k] \in {"scan", "arm"} => hand'[k] \in Jobs
  BY <1>4 DEF LoopInv
<1>7. \A k \in Handlers : (pc'[k] = "idle" <=> pc[k] = "idle") /\ (pc'[k] = "emplace" => pc[k] = "emplace")
  BY <1>1, <1>4
<1>8. QED
  BY <1>5, <1>6, <1>7 DEF LoopInv, Handlers, Submitted

\* Every handler that is under way knows its job and has a call of start_jobs left.
LEMMA LoopStep ==
  ASSUME TypeOK, LoopInv, Next
  PROVE  LoopInv'
<1> USE SortsAssumption DEF TypeOK, LoopInv, Handlers, Goto, Submitted, jobVars, workerVars
<1>1. ASSUME NEW j \in Jobs, RegisterJob(j) PROVE LoopInv'
  BY <1>1 DEF RegisterJob
<1>2. ASSUME NEW j \in Jobs, Emplace(j) PROVE LoopInv'
  BY <1>2 DEF Emplace
<1>3. ASSUME NEW h \in Handlers, Pop(h) PROVE LoopInv'
  <2>1. Head(registered_jobs_) \in Jobs
    BY <1>3 DEF Pop
  <2>2. QED
    BY <1>3, <2>1 DEF Pop
<1>4. ASSUME NEW h \in Handlers, PopNothing(h) PROVE LoopInv'
  BY <1>4, ReturnLoop DEF PopNothing
<1>5. ASSUME NEW h \in Handlers, Arm(h) PROVE LoopInv'
  BY <1>5 DEF Arm
<1>6. ASSUME NEW h \in Handlers, PushBack(h) PROVE LoopInv'
  BY <1>6 DEF PushBack
<1>7. ASSUME NEW h \in Handlers, Wake(h) PROVE LoopInv'
  BY <1>7, ReturnLoop DEF Wake
<1>8. ASSUME NEW h \in Handlers, NEW w \in Workers, Dispatch(h, w) PROVE LoopInv'
  BY <1>8 DEF Dispatch
<1>9. ASSUME NEW w \in Workers, AddWorker(w) PROVE LoopInv'
  BY <1>9 DEF AddWorker
<1>10. ASSUME UNCHANGED <<pc, calls, hand, salt, registered_jobs_, posted, started_jobs_>>
      PROVE  LoopInv'
  BY <1>10
<1>11. ASSUME NEW h \in Handlers, FindNoInvoker(h) \/ MakeInvoker(h) PROVE LoopInv'
  BY <1>11 DEF FindNoInvoker, MakeInvoker
<1>12. QED
  BY <1>1, <1>2, <1>3, <1>4, <1>5, <1>6, <1>7, <1>8, <1>9, <1>10, <1>11, StepCases, QuietSteps

-----------------------------------------------------------------------------
(* Where the jobs are.                                                     *)

\* registered_jobs_.push of a job that is not queued.
LEMMA PushedJob ==
  ASSUME TypeOK, QueueInv, NEW j \in Jobs, ~Queued(j),
         registered_jobs_' = Append(registered_jobs_, j)
  PROVE  QueueInv' /\ \A i \in Jobs : Queued(i)' <=> Queued(i) \/ i = j
<1>1. registered_jobs_ \in Seq(Jobs) /\ j \notin ToSet(registered_jobs_)
  BY DEF TypeOK, Queued
<1>2. ToSet(Append(registered_jobs_, j)) = ToSet(registered_jobs_) \cup {j}
  BY <1>1, ToSetAppend
<1>3. QueueInv'
  BY <1>1, AppendOnce DEF QueueInv
<1>4. QED
  BY <1>2, <1>3 DEF Queued

\* registered_jobs_.try_pop.
LEMMA PoppedJob ==
  ASSUME TypeOK, QueueInv, NEW j \in Jobs, registered_jobs_ # <<>>, j = Head(registered_jobs_),
         registered_jobs_' = Tail(registered_jobs_)
  PROVE  /\ QueueInv' /\ Queued(j)
         /\ \A i \in Jobs : Queued(i)' <=> Queued(i) /\ i # j
<1>1. registered_jobs_ \in Seq(Jobs)
  BY DEF TypeOK
<1>2. ToSet(registered_jobs_) = {j} \cup ToSet(Tail(registered_jobs_))
  BY <1>1, ToSetTail
<1>3. /\ j \notin ToSet(Tail(registered_jobs_))
      /\ QueueInv'
  BY <1>1, HeadOnce DEF QueueInv
<1>4. QED
  BY <1>2, <1>3 DEF Queued

\* A step that leaves the queue, the history of posts and every handler in the
\* middle of a scan alone leaves every job where it is.
LEMMA PlaceFrame ==
  ASSUME QueueInv, OnePlace, UNCHANGED <<registered_jobs_, posted, salt>>,
         \A h \in Handlers : /\ pc'[h] = "scan" <=> pc[h] = "scan"
                             /\ pc[h] = "scan" => hand'[h] = hand[h]
  PROVE  QueueInv' /\ OnePlace'
  BY DEF QueueInv, OnePlace, Queued, Held, Posted, Submitted

\* No step of the loop loses a job, queues it twice or posts it twice.
LEMMA PlaceStep ==
  ASSUME TypeOK, LoopInv, QueueInv, OnePlace, Next
  PROVE  QueueInv' /\ OnePlace'
<1>1. ASSUME NEW j \in Jobs, RegisterJob(j) PROVE QueueInv' /\ OnePlace'
  <2>1. ~Submitted(j) /\ ~Queued(j) /\ ~Held(j) /\ ~Posted(j)
    BY <1>1 DEF RegisterJob, Goto, LoopInv, OnePlace
  <2>2. QueueInv' /\ \A i \in Jobs : Queued(i)' <=> Queued(i) \/ i = j
    BY <1>1, <2>1, PushedJob DEF RegisterJob
  <2>3. \A i \in Jobs : Submitted(i)' <=> Submitted(i) \/ i = j
    BY <1>1, SortsAssumption DEF RegisterJob, Submitted, TypeOK
  <2>4. /\ \A h \in Handlers : pc'[h] = "scan" <=> pc[h] = "scan"
        /\ UNCHANGED <<hand, posted>>
    BY <1>1 DEF RegisterJob, Goto, TypeOK
  <2>5. \A i \in Jobs : (Held(i)' <=> Held(i)) /\ (Posted(i)' <=> Posted(i))
    BY <2>4 DEF Held, Posted
  <2>6. QED
    BY <2>1, <2>2, <2>3, <2>4, <2>5 DEF OnePlace
<1>2. ASSUME NEW j \in Jobs, Emplace(j) PROVE QueueInv' /\ OnePlace'
  BY <1>2, PlaceFrame DEF Emplace, Goto, Return, TypeOK, jobVars
<1>3. ASSUME NEW h \in Handlers, Pop(h) PROVE QueueInv' /\ OnePlace'
  <2>1. PICK j \in Jobs : j = Head(registered_jobs_)
    BY <1>3 DEF Pop, TypeOK
  <2>2. QueueInv' /\ Queued(j) /\ \A i \in Jobs : Queued(i)' <=> Queued(i) /\ i # j
    BY <1>3, <2>1, PoppedJob DEF Pop
  <2>3. ~Held(j) /\ ~Posted(j) /\ Submitted(j)
    BY <2>2 DEF OnePlace
  <2>4. /\ \A k \in Handlers : pc'[k] = IF k = h THEN "scan" ELSE pc[k]
        /\ \A k \in Handlers : hand'[k] = IF k = h THEN j ELSE hand[k]
        /\ pc[h] = "pop" /\ UNCHANGED <<posted, salt>>
    BY <1>3, <2>1 DEF Pop, Goto, TypeOK, jobVars
  <2>5. \A i \in Jobs : Held(i)' <=> Held(i) \/ i = j
    BY <2>4 DEF Held
  <2>6. \A i \in Jobs : (Posted(i)' <=> Posted(i)) /\ (Submitted(i)' <=> Submitted(i))
    BY <2>4 DEF Posted, Submitted
  <2>7. \A k \in Handlers : k # h => ~(pc'[k] = "scan" /\ hand'[k] = j)
    BY <2>3, <2>4 DEF Held
  <2>8. QED
    BY <2>2, <2>3, <2>4, <2>5, <2>6, <2>7 DEF OnePlace
<1>4. ASSUME NEW h \in Handlers, PopNothing(h) PROVE QueueInv' /\ OnePlace'
  BY <1>4, PlaceFrame DEF PopNothing, Goto, Return, TypeOK, jobVars
<1>5. ASSUME NEW h \in Handlers, Arm(h) PROVE QueueInv' /\ OnePlace'
  BY <1>5, PlaceFrame DEF Arm, Goto, Return, TypeOK, jobVars
<1>6. ASSUME NEW h \in Handlers, PushBack(h) PROVE QueueInv' /\ OnePlace'
  <2>1. PICK j \in Jobs : j = hand[h]
    BY <1>6 DEF PushBack, Goto, LoopInv
  <2>2. Held(j) /\ ~Queued(j) /\ ~Posted(j) /\ Submitted(j)
    BY <1>6, <2>1 DEF Held, PushBack, Goto, OnePlace
  <2>3. QueueInv' /\ \A i \in Jobs : Queued(i)' <=> Queued(i) \/ i = j
    BY <1>6, <2>1, <2>2, PushedJob DEF PushBack
  <2>4. /\ \A k \in Handlers : pc'[k] = IF k = h THEN "wake" ELSE pc[k]
        /\ \A k \in Handlers : k # h => hand'[k] = hand[k]
        /\ pc[h] = "scan" /\ UNCHANGED <<posted, salt>>
    BY <1>6 DEF PushBack, Goto, TypeOK, jobVars
  <2>5. \A i \in Jobs : Held(i)' <=> Held(i) /\ i # j
    BY <1>6, <2>1, <2>2, <2>4 DEF Held, OnePlace
  <2>6. \A i \in Jobs : (Posted(i)' <=> Posted(i)) /\ (Submitted(i)' <=> Submitted(i))
    BY <2>4 DEF Posted, Submitted
  <2>7. QED
    BY <2>2, <2>3, <2>4, <2>5, <2>6 DEF OnePlace
<1>7. ASSUME NEW h \in Handlers, Wake(h) PROVE QueueInv' /\ OnePlace'
  BY <1>7, PlaceFrame DEF Wake, Goto, Return, TypeOK, jobVars
<1>8. ASSUME NEW h \in Handlers, NEW w \in Workers, Dispatch(h, w) PROVE QueueInv' /\ OnePlace'
  <2>1. PICK j \in Jobs : j = hand[h]
    BY <1>8 DEF Dispatch, Goto, LoopInv
  <2>2. Held(j) /\ ~Queued(j) /\ ~Posted(j) /\ Submitted(j)
    BY <1>8, <2>1 DEF Held, Dispatch, Goto, OnePlace
  <2>3. /\ \A k \in Handlers : pc'[k] = IF k = h THEN "arm" ELSE pc[k]
        /\ pc[h] = "scan" /\ UNCHANGED <<registered_jobs_, hand, salt>>
        /\ \A i \in Jobs : posted'[i] = IF i = j THEN Append(posted[j], w) ELSE posted[i]
    BY <1>8, <2>1 DEF Dispatch, Goto, TypeOK
  <2>4. posted[j] = <<>> /\ Len(Append(posted[j], w)) = 1 /\ Append(posted[j], w) # <<>>
    <3>1. posted[j] \in Seq(Workers) /\ posted[j] = <<>>
      BY <2>2 DEF Posted, TypeOK
    <3>2. Len(Append(posted[j], w)) = 0 + 1
      BY <3>1
    <3>3. QED
      BY <3>1, <3>2, AppendNotEmpty
  <2>5. \A i \in Jobs : Posted(i)' <=> Posted(i) \/ i = j
    BY <2>3, <2>4 DEF Posted
  <2>6. \A i \in Jobs : Held(i)' <=> Held(i) /\ i # j
    BY <1>8, <2>1, <2>2, <2>3 DEF Held, OnePlace
  <2>7. ASSUME NEW i \in Jobs PROVE Len(posted'[i]) <= 1
    <3>1. CASE i = j
      <4>1. posted'[i] = Append(posted[j], w)
        BY <2>3, <3>1
      <4>2. QED
        BY <2>4, <4>1
    <3>2. CASE i # j
      <4>1. posted'[i] = posted[i]
        BY <2>3, <3>2
      <4>2. QED
        BY <4>1 DEF OnePlace
    <3>3. QED
      BY <3>1, <3>2
  <2>8. \A i \in Jobs : (Queued(i)' <=> Queued(i)) /\ (Submitted(i)' <=> Submitted(i))
    BY <2>3 DEF Queued, Submitted
  <2>9. QED
    BY <2>2, <2>3, <2>5, <2>6, <2>7, <2>8 DEF OnePlace, QueueInv
<1>9. ASSUME NEW w \in Workers, AddWorker(w) PROVE QueueInv' /\ OnePlace'
  BY <1>9, PlaceFrame DEF AddWorker, Goto, Return, TypeOK, jobVars
<1>10. ASSUME UNCHANGED <<pc, calls, hand, salt, registered_jobs_, posted, started_jobs_>>
      PROVE  QueueInv' /\ OnePlace'
  BY <1>10, PlaceFrame
<1>11. ASSUME NEW h \in Handlers, FindNoInvoker(h) \/ MakeInvoker(h)
       PROVE  QueueInv' /\ OnePlace'
  BY <1>11, PlaceFrame DEF FindNoInvoker, MakeInvoker, Goto, TypeOK, jobVars
<1>12. QED
  BY <1>1, <1>2, <1>3, <1>4, <1>5, <1>6, <1>7, <1>8, <1>9, <1>10, <1>11, StepCases, QuietSteps

-----------------------------------------------------------------------------
(* Entries, messages and answers.                                          *)

\* A generated header stays with its job.
LEMMA SaltStays ==
  ASSUME TypeOK, LoopInv, Next
  PROVE  \A j \in Jobs : Submitted(j) => Submitted(j)' /\ salt'[j] = salt[j]
<1>1. ASSUME NEW j \in Jobs, RegisterJob(j)
      PROVE  \A i \in Jobs : Submitted(i) => Submitted(i)' /\ salt'[i] = salt[i]
  BY <1>1 DEF RegisterJob, Goto, LoopInv, Submitted, TypeOK
<1>2. ASSUME UNCHANGED salt
      PROVE  \A i \in Jobs : Submitted(i) => Submitted(i)' /\ salt'[i] = salt[i]
  BY <1>2 DEF Submitted
<1>3. (\E j \in Jobs : RegisterJob(j)) \/ UNCHANGED salt
  BY StepCases, QuietSteps
     DEF Emplace, Pop, PopNothing, Arm, PushBack, FindNoInvoker, MakeInvoker, Wake, Dispatch,
         AddWorker, jobVars
<1>4. QED
  BY <1>1, <1>2, <1>3

\* What arrives of a worker that leaves is what it sent, and notices.
LEMMA TailsElements ==
  ASSUME TypeOK, NEW w \in Workers, NEW tail \in Tails(w), NEW m \in ToSet(tail)
  PROVE  m \in ToSet(fromWorker[w]) \/ m \in Notices
<1>1. /\ Message("eof", NoJob) \in Notices /\ Message("cut", NoJob) \in Notices
      /\ Message("dereg", NoJob) \in Notices
  BY DEF Message, Notices
<1>2. PICK M, s, eof, cut, dereg :
        /\ M = Messages /\ s = fromWorker[w] /\ eof = Message("eof", NoJob)
        /\ cut = Message("cut", NoJob) /\ dereg = Message("dereg", NoJob)
  OBVIOUS
<1>3. s \in Seq(M) /\ eof \in M /\ cut \in M /\ dereg \in M
  BY <1>1, <1>2 DEF TypeOK, Messages
<1>4. CASE \E n \in 0..Len(s) : tail = Append(SubSeq(s, 1, n), eof)
  <2>1. PICK n \in 0..Len(s) : tail = Append(SubSeq(s, 1, n), eof)
    BY <1>4
  <2>2. PICK t \in Seq(M) : t = SubSeq(s, 1, n) /\ ToSet(t) \subseteq ToSet(s)
    BY <1>3, ToSetPrefix
  <2>3. ToSet(Append(t, eof)) = ToSet(t) \cup {eof}
    BY <1>3, ToSetAppend
  <2>4. QED
    BY <1>1, <1>2, <2>1, <2>2, <2>3
<1>5. CASE \E n \in 1..Len(s) : tail = Append(SubSeq(s, 1, n - 1), cut)
  <2>1. PICK n \in 1..Len(s) : tail = Append(SubSeq(s, 1, n - 1), cut)
    BY <1>5
  <2>2. PICK l \in 0..Len(s) : l = n - 1
    BY <1>3
  <2>3. PICK t \in Seq(M) : t = SubSeq(s, 1, l) /\ ToSet(t) \subseteq ToSet(s)
    BY <1>3, ToSetPrefix
  <2>4. ToSet(Append(t, cut)) = ToSet(t) \cup {cut}
    BY <1>3, ToSetAppend
  <2>5. QED
    BY <1>1, <1>2, <2>1, <2>2, <2>3, <2>4
<1>6. CASE tail = s \o <<dereg, eof>>
  <2>1. ToSet(s \o <<dereg, eof>>) = ToSet(s) \cup {dereg, eof}
    BY <1>3, ToSetAppendTwo
  <2>2. QED
    BY <1>1, <1>2, <1>6, <2>1
<1>7. QED
  BY <1>2, <1>4, <1>5, <1>6 DEF Tails

\* What travels is typed.
LEMMA InFlightJobs ==
  ASSUME TypeOK, NEW m \in InFlight, m.kind \in {"ack", "response"}
  PROVE  m.job \in Jobs
<1>1. strand \in Seq(Replies) /\ \A w \in Workers : fromWorker[w] \in Seq(Messages)
  BY DEF TypeOK
<1>2. ToSet(strand) \subseteq Replies
  BY <1>1 DEF ToSet
<1>3. \A w \in Workers : ToSet(fromWorker[w]) \subseteq Messages
  BY <1>1 DEF ToSet
<1>4. m \in Messages
  BY <1>2, <1>3 DEF InFlight, Messages
<1>5. QED
  BY <1>4 DEF Messages, Replies, Notices

\* Requests are jobs.
LEMMA ToWorkerJobs ==
  ASSUME TypeOK, NEW w \in Workers
  PROVE  ToSet(toWorker[w]) \subseteq Jobs
<1>1. toWorker[w] \in Seq(Jobs)
  BY DEF TypeOK
<1>2. QED
  BY <1>1 DEF ToSet

\* Taking the strand's first handler leaves the others.
LEMMA StrandTail ==
  ASSUME TypeOK, strand # <<>>
  PROVE  ToSet(Tail(strand)) \subseteq ToSet(strand)
<1>1. PICK R : R = Replies
  OBVIOUS
<1>2. strand \in Seq(R)
  BY <1>1 DEF TypeOK
<1>3. QED
  BY <1>2, ToSetTail

\* A step that sends nothing and takes no handler out of its emplace keeps EntryInv.
LEMMA EntryFrame ==
  ASSUME EntryInv, UNCHANGED <<strand, toWorker, fromWorker, salt, started_jobs_>>,
         \A j \in Jobs : pc'[j] # "emplace" => pc[j] # "emplace"
  PROVE  EntryInv'
  BY DEF EntryInv, InFlight, Submitted

\* A step that keeps headers, entries and handlers keeps EntryInv if what it sends
\* is about submitted jobs.
LEMMA EntrySend ==
  ASSUME EntryInv, UNCHANGED <<pc, salt, started_jobs_>>,
         \A m \in InFlight' : m.kind \in {"ack", "response"} => m \in InFlight \/ Submitted(m.job),
         \A w \in Workers : \A j \in ToSet(toWorker'[w]) : Submitted(j)
  PROVE  EntryInv'
  BY DEF EntryInv, Submitted

\* Past its emplace a job is found by its header, and only headers of submitted
\* jobs travel.
LEMMA EntryStep ==
  ASSUME TypeOK, LoopInv, OnePlace, EntryInv, Next
  PROVE  EntryInv'
<1>1. ASSUME NEW j \in Jobs, RegisterJob(j) PROVE EntryInv'
  <2>1. ~Submitted(j) /\ \A i \in Jobs : i # j => salt'[i] = salt[i]
    BY <1>1 DEF RegisterJob, Goto, LoopInv, TypeOK
  <2>2. \A i \in Jobs : pc'[i] = IF i = j THEN "emplace" ELSE pc[i]
    BY <1>1 DEF RegisterJob, Goto, TypeOK, Handlers
  <2>3. UNCHANGED <<strand, toWorker, fromWorker, started_jobs_>> /\ InFlight' = InFlight
    BY <1>1 DEF RegisterJob, linkVars, InFlight
  <2>4. \A i \in Jobs : Submitted(i) => Submitted(i)'
    BY SaltStays
  <2>5. \A m \in InFlight' : m.kind \in {"ack", "response"} => Submitted(m.job)'
    BY <2>3, <2>4, InFlightJobs DEF EntryInv
  <2>6. \A w \in Workers : \A i \in ToSet(toWorker'[w]) : Submitted(i)'
    BY <2>3, <2>4, ToWorkerJobs DEF EntryInv
  <2>7. \A i \in Jobs : Submitted(i)' /\ pc'[i] # "emplace" => started_jobs_'[salt'[i]] # NoJob
    BY <2>1, <2>2, <2>3 DEF EntryInv, Submitted
  <2>8. QED
    BY <2>5, <2>6, <2>7 DEF EntryInv
<1>2. ASSUME NEW j \in Jobs, Emplace(j) PROVE EntryInv'
  <2>1. Submitted(j) /\ salt[j] \in Salts
    BY <1>2 DEF Emplace, Goto, LoopInv, Submitted, TypeOK
  <2>2. /\ \A s \in Salts : started_jobs_[s] # NoJob => started_jobs_'[s] = started_jobs_[s]
        /\ started_jobs_'[salt[j]] # NoJob
    BY <1>2, <2>1, SortsAssumption DEF Emplace, TypeOK
  <2>3. \A i \in Jobs : i # j => (pc'[i] = pc[i])
    BY <1>2 DEF Emplace, Goto, TypeOK, Handlers
  <2>4. \A i \in Jobs : Submitted(i) => salt[i] \in Salts
    BY DEF Submitted, TypeOK
  <2>5. UNCHANGED <<strand, toWorker, fromWorker, salt>>
    BY <1>2 DEF Emplace, jobVars, linkVars
  <2>6. QED
    BY <2>2, <2>3, <2>4, <2>5 DEF EntryInv, InFlight, Submitted
<1>3. ASSUME NEW j \in Jobs, TimerHandler(j) PROVE EntryInv'
  BY <1>3, EntryFrame DEF TimerHandler, loopVars, linkVars
<1>4. ASSUME NEW h \in Handlers, Pop(h) PROVE EntryInv'
  BY <1>4, EntryFrame DEF Pop, Goto, Return, TypeOK, jobVars, linkVars, Handlers
<1>5. ASSUME NEW h \in Handlers, PopNothing(h) PROVE EntryInv'
  BY <1>5, EntryFrame DEF PopNothing, Goto, Return, TypeOK, jobVars, linkVars, Handlers
<1>6. ASSUME NEW h \in Handlers, Arm(h) PROVE EntryInv'
  BY <1>6, EntryFrame DEF Arm, Goto, Return, TypeOK, jobVars, linkVars, Handlers
<1>7. ASSUME NEW h \in Handlers, PushBack(h) PROVE EntryInv'
  BY <1>7, EntryFrame DEF PushBack, Goto, Return, TypeOK, jobVars, linkVars, Handlers
<1>8. ASSUME NEW h \in Handlers, Wake(h) PROVE EntryInv'
  BY <1>8, EntryFrame DEF Wake, Goto, Return, TypeOK, jobVars, linkVars, Handlers
<1>9. ASSUME NEW h \in Handlers, NEW w \in Workers, Dispatch(h, w) PROVE EntryInv'
  <2>1. PICK j \in Jobs : j = hand[h]
    BY <1>9 DEF Dispatch, Goto, LoopInv
  <2>2. Submitted(j)
    BY <1>9, <2>1 DEF Dispatch, Goto, OnePlace, Held
  <2>3. \A v \in Workers : toWorker'[v] = toWorker[v] \/ toWorker'[v] = Append(toWorker[v], j)
    BY <1>9, <2>1, StartPostType DEF Dispatch
  <2>4. \A v \in Workers : ToSet(Append(toWorker[v], j)) = ToSet(toWorker[v]) \cup {j}
    BY ToSetAppend DEF TypeOK
  <2>5. ASSUME NEW v \in Workers, NEW i \in ToSet(toWorker'[v]) PROVE Submitted(i)
    <3>1. ToSet(toWorker'[v]) \subseteq ToSet(toWorker[v]) \cup {j}
      <4>1. CASE toWorker'[v] = toWorker[v]
        BY <4>1
      <4>2. CASE toWorker'[v] = Append(toWorker[v], j)
        BY <2>4, <4>2
      <4>3. QED
        BY <2>3, <4>1, <4>2
    <3>2. CASE i = j
      BY <2>2, <3>2
    <3>3. CASE i \in ToSet(toWorker[v])
      BY <3>3 DEF EntryInv
    <3>4. QED
      BY <3>1, <3>2, <3>3
  <2>6. /\ UNCHANGED <<strand, fromWorker, salt, started_jobs_>>
        /\ \A i \in Jobs : pc'[i] # "emplace" => pc[i] # "emplace"
    BY <1>9 DEF Dispatch, Goto, TypeOK, Handlers
  <2>7. QED
    BY <2>5, <2>6 DEF EntryInv, InFlight, Submitted
<1>10. ASSUME NEW w \in Workers, AddWorker(w) PROVE EntryInv'
  BY <1>10, EntryFrame DEF AddWorker, Goto, Return, TypeOK, jobVars, linkVars, Handlers
<1>11. ASSUME NEW w \in Workers, Serve(w) PROVE EntryInv'
  <2>1. PICK j \in Jobs : j = Head(toWorker[w]) /\ Submitted(j)
    <3>1. toWorker[w] \in Seq(Jobs) /\ toWorker[w] # <<>>
      BY <1>11 DEF Serve, TypeOK
    <3>2. Head(toWorker[w]) \in ToSet(toWorker[w]) /\ Head(toWorker[w]) \in Jobs
      BY <3>1, ToSetTail
    <3>3. QED
      BY <3>2 DEF EntryInv
  <2>0. Message("ack", j).job = j /\ Message("response", j).job = j
    BY DEF Message
  <2>2. PICK a, r : a = Message("ack", j) /\ r = Message("response", j) /\ a.job = j /\ r.job = j
    BY <2>0, Zenon
  <2>3. \A v \in Workers : ToSet(toWorker'[v]) \subseteq ToSet(toWorker[v])
    <3>1. ToSet(Tail(toWorker[w])) \subseteq ToSet(toWorker[w])
      BY <1>11, ToSetTail DEF Serve, TypeOK
    <3>2. QED
      BY <1>11, <3>1 DEF Serve, TypeOK
  <2>4. \A v \in Workers : ToSet(fromWorker'[v]) \subseteq ToSet(fromWorker[v]) \cup {a, r}
    <3>1. PICK M : M = Messages
      OBVIOUS
    <3>2. a \in M /\ r \in M /\ fromWorker[w] \in Seq(M)
      BY <2>2, <3>1 DEF Message, Messages, Replies, TypeOK
    <3>3. ToSet(fromWorker[w] \o <<a, r>>) = ToSet(fromWorker[w]) \cup {a, r}
      BY <3>2, ToSetAppendTwo
    <3>4. \A v \in Workers : fromWorker'[v] = IF v = w THEN fromWorker[w] \o <<a, r>>
                                              ELSE fromWorker[v]
      BY <1>11, <2>1, <2>2 DEF Serve, TypeOK
    <3>5. QED
      BY <3>3, <3>4
  <2>5. UNCHANGED <<strand, pc, salt, started_jobs_>>
    BY <1>11 DEF Serve, loopVars, jobVars
  <2>6. \A m \in InFlight' : m \in InFlight \/ m = a \/ m = r
    BY <2>4, <2>5 DEF InFlight
  <2>7. \A m \in InFlight' : m.kind \in {"ack", "response"} => m \in InFlight \/ Submitted(m.job)
    BY <2>1, <2>2, <2>6
  <2>8. \A v \in Workers : \A i \in ToSet(toWorker'[v]) : Submitted(i)
    BY <2>3 DEF EntryInv
  <2>9. QED
    BY <2>5, <2>7, <2>8, EntrySend
<1>12. ASSUME NEW w \in Workers, Leave(w) PROVE EntryInv'
  <2>1. PICK tail \in Tails(w) : fromWorker' = [fromWorker EXCEPT ![w] = tail]
    BY <1>12 DEF Leave
  <2>2. \A v \in Workers : fromWorker'[v] = IF v = w THEN tail ELSE fromWorker[v]
    BY <2>1 DEF TypeOK
  <2>3. \A m \in ToSet(tail) : m \in ToSet(fromWorker[w]) \/ m \in Notices
    BY TailsElements
  <2>4. UNCHANGED <<strand, pc, salt, started_jobs_>>
    BY <1>12 DEF Leave, loopVars, jobVars
  <2>5. \A m \in InFlight' : m \in InFlight \/ m \in Notices
    BY <2>2, <2>3, <2>4 DEF InFlight
  <2>6. \A m \in Notices : m.kind \notin {"ack", "response"}
    BY DEF Notices
  <2>7. \A v \in Workers : \A i \in ToSet(toWorker'[v]) : Submitted(i)
    <3>1. ToSet(<<>>) = {}
      BY DEF ToSet
    <3>2. QED
      BY <1>12, <3>1 DEF Leave, TypeOK, EntryInv
  <2>8. QED
    BY <2>4, <2>5, <2>6, <2>7, EntrySend
<1>13. ASSUME NEW w \in Workers, Read(w) PROVE EntryInv'
  <2>1. PICK m \in Messages : m = Head(fromWorker[w])
    BY <1>13 DEF Read, TypeOK
  <2>2. ToSet(fromWorker[w]) = {m} \cup ToSet(Tail(fromWorker[w]))
    BY <1>13, <2>1, ToSetTail DEF Read, TypeOK
  <2>3. \A v \in Workers : ToSet(fromWorker'[v]) \subseteq ToSet(fromWorker[v])
    BY <1>13, <2>2 DEF Read, TypeOK
  <2>4. m.kind \in {"ack", "response"} => m \in Replies
    BY DEF Messages, Notices
  <2>5. strand' = strand \/ (m \in Replies /\ strand' = Append(strand, m))
    BY <1>13, <2>1, <2>4 DEF Read
  <2>6. ToSet(strand') \subseteq ToSet(strand) \cup {m}
    <3>1. PICK R : R = Replies
      OBVIOUS
    <3>2. strand \in Seq(R)
      BY <3>1 DEF TypeOK
    <3>3. m \in R => ToSet(Append(strand, m)) = ToSet(strand) \cup {m}
      BY <3>2, ToSetAppend
    <3>4. QED
      BY <2>5, <3>1, <3>3
  <2>7. UNCHANGED <<toWorker, pc, salt, started_jobs_>>
    BY <1>13 DEF Read, loopVars, jobVars
  <2>8. InFlight' \subseteq InFlight
    BY <2>2, <2>3, <2>6 DEF InFlight
  <2>9. QED
    BY <2>7, <2>8, EntrySend DEF EntryInv
<1>14. ASSUME Acknowledge PROVE EntryInv'
  <2>1. UNCHANGED <<toWorker, fromWorker, pc, salt, started_jobs_>> /\ strand # <<>> /\ strand' = Tail(strand)
    BY <1>14 DEF Acknowledge, loopVars, linkVars, jobVars
  <2>2. InFlight' \subseteq InFlight
    BY <2>1, StrandTail DEF InFlight
  <2>3. QED
    BY <2>1, <2>2, EntrySend DEF EntryInv
<1>15. ASSUME Complete PROVE EntryInv'
  <2>1. UNCHANGED <<toWorker, fromWorker, pc, salt, started_jobs_>> /\ strand # <<>> /\ strand' = Tail(strand)
    BY <1>15 DEF Complete, loopVars, linkVars, jobVars
  <2>2. InFlight' \subseteq InFlight
    BY <2>1, StrandTail DEF InFlight
  <2>3. QED
    BY <2>1, <2>2, EntrySend DEF EntryInv
<1>16. ASSUME NullJob \/ Tear PROVE EntryInv'
  BY <1>16, EntryFrame DEF NullJob, Tear, loopVars, linkVars, jobVars
<1>17. ASSUME NEW h \in Handlers, FindNoInvoker(h) \/ MakeInvoker(h) PROVE EntryInv'
  BY <1>17, EntryFrame DEF FindNoInvoker, MakeInvoker, Goto, TypeOK, jobVars, linkVars, Handlers
<1>18. ASSUME NEW w \in Workers, WriteRest(w) \/ Misread(w) PROVE EntryInv'
  BY <1>18, EntryFrame DEF WriteRest, Misread, loopVars, linkVars, jobVars
<1>19. QED
  BY <1>1, <1>2, <1>3, <1>4, <1>5, <1>6, <1>7, <1>8, <1>9, <1>10, <1>11, <1>12, <1>13, <1>14,
     <1>15, <1>16, <1>17, <1>18, StepCases

-----------------------------------------------------------------------------
(* Headers, entries and answers.                                           *)

\* What on_completion_ was given are jobs.
LEMMA AnswerJobs ==
  ASSUME TypeOK, NEW j \in Jobs
  PROVE  ToSet(answers[j]) \subseteq Jobs
<1>1. answers[j] \in Seq(Jobs)
  BY DEF TypeOK
<1>2. QED
  BY <1>1 DEF ToSet

\* A step that keeps headers, entries and answers keeps what relates them.
LEMMA SaltFrame ==
  ASSUME SaltInv, SameSalt, UNCHANGED <<salt, started_jobs_, answers>>
  PROVE  SaltInv' /\ SameSalt'
  BY DEF SaltInv, SameSalt, Submitted

\* Entries are found under the salt they were made with, and an answer carries the
\* salt of the job it is given to.
LEMMA SaltStep ==
  ASSUME TypeOK, LoopInv, EntryInv, SaltInv, SameSalt, Next
  PROVE  SaltInv' /\ SameSalt'
<1>1. ASSUME NEW j \in Jobs, RegisterJob(j) PROVE SaltInv' /\ SameSalt'
  <2>1. salt[j] = NoSalt /\ \A i \in Jobs : i # j => salt'[i] = salt[i]
    BY <1>1 DEF RegisterJob, Goto, LoopInv, Submitted, TypeOK
  <2>2. UNCHANGED <<started_jobs_, answers>>
    BY <1>1 DEF RegisterJob
  <2>3. \A s \in Salts : started_jobs_[s] # NoJob => started_jobs_[s] \in Jobs /\ started_jobs_[s] # j
    BY <2>1, SortsAssumption DEF SaltInv, TypeOK
  <2>4. \A i \in Jobs : \A a \in ToSet(answers[i]) : a \in Jobs /\ a # j /\ i # j
    BY <2>1, AnswerJobs DEF SaltInv, SameSalt, Submitted
  <2>5. SaltInv'
    BY <2>1, <2>2, <2>3, <2>4 DEF SaltInv, Submitted
  <2>6. SameSalt'
    BY <2>1, <2>2, <2>4 DEF SameSalt
  <2>7. QED
    BY <2>5, <2>6
<1>2. ASSUME NEW j \in Jobs, Emplace(j) PROVE SaltInv' /\ SameSalt'
  <2>1. UNCHANGED <<salt, answers>>
    BY <1>2 DEF Emplace, jobVars
  <2>2. \A s \in Salts : started_jobs_'[s] = started_jobs_[s] \/ (s = salt[j] /\ started_jobs_'[s] = j)
    BY <1>2 DEF Emplace, TypeOK
  <2>3. SaltInv'
    BY <2>1, <2>2 DEF SaltInv, Submitted
  <2>4. SameSalt'
    BY <2>1 DEF SameSalt
  <2>5. QED
    BY <2>3, <2>4
<1>3. ASSUME Complete PROVE SaltInv' /\ SameSalt'
  <2>1. PICK a \in Jobs : a = Head(strand).job /\ Submitted(a)
    BY <1>3, StrandSubmitted DEF Complete
  <2>2. salt[a] \in Salts
    BY <2>1 DEF Submitted, TypeOK
  <2>3. PICK f \in Jobs : f = Found /\ salt[f] = salt[a]
    BY <1>3, <2>1, <2>2 DEF Complete, Found, SaltInv, TypeOK
  <2>4. /\ UNCHANGED <<salt, started_jobs_>>
        /\ \A i \in Jobs : answers'[i] = IF i = f THEN Append(answers[f], a) ELSE answers[i]
    BY <1>3, <2>1, <2>3 DEF Complete, TypeOK
  <2>5. ToSet(Append(answers[f], a)) = ToSet(answers[f]) \cup {a}
    BY ToSetAppend DEF TypeOK
  <2>6. ASSUME NEW i \in Jobs, NEW b \in ToSet(answers'[i])
        PROVE  Submitted(b) /\ salt[b] = salt[i]
    <3>1. b \in ToSet(answers[i]) \/ (i = f /\ b = a)
      BY <2>4, <2>5, <2>6
    <3>2. CASE b \in ToSet(answers[i])
      BY <3>2 DEF SaltInv, SameSalt
    <3>3. CASE i = f /\ b = a
      BY <2>1, <2>3, <3>3
    <3>4. QED
      BY <3>1, <3>2, <3>3
  <2>7. SaltInv'
    BY <2>4, <2>6 DEF SaltInv, Submitted
  <2>8. SameSalt'
    BY <2>4, <2>6 DEF SameSalt
  <2>9. QED
    BY <2>7, <2>8
<1>4. ASSUME UNCHANGED <<salt, started_jobs_, answers>> PROVE SaltInv' /\ SameSalt'
  BY <1>4, SaltFrame
<1>5. \/ \E j \in Jobs : RegisterJob(j) \/ Emplace(j)
      \/ Complete
      \/ UNCHANGED <<salt, started_jobs_, answers>>
  BY StepCases, QuietSteps
     DEF TimerHandler, Pop, PopNothing, Arm, PushBack, FindNoInvoker, MakeInvoker, Wake, Dispatch,
         AddWorker, WriteRest, Serve, Misread, Leave, Read, Acknowledge, NullJob, Tear, jobVars
<1>6. QED
  BY <1>1, <1>2, <1>3, <1>4, <1>5

-----------------------------------------------------------------------------
(* No job is abandoned.                                                    *)

\* A queued job has a handler or a wakeup to come for it: who leaves the loop saw
\* the queue empty or posted a wakeup.
LEMMA StrandedStep ==
  ASSUME TypeOK, NoStrandedJob, Next
  PROVE  NoStrandedJob'
<1>1. ASSUME NEW h \in Handlers, NEW s \in {"emplace", "pop", "scan", "arm", "wake", "make"},
             pc'[h] = s
      PROVE  NoStrandedJob'
  BY <1>1 DEF NoStrandedJob, Running
<1>2. (\E j \in Jobs : RegisterJob(j) \/ Emplace(j)) => NoStrandedJob'
  BY <1>1 DEF RegisterJob, Emplace, Goto, TypeOK, Handlers
<1>3. (\E h \in Handlers : Pop(h) \/ Arm(h) \/ PushBack(h) \/ FindNoInvoker(h) \/ MakeInvoker(h))
      => NoStrandedJob'
  BY <1>1 DEF Pop, Arm, PushBack, FindNoInvoker, MakeInvoker, Goto, TypeOK
<1>4. (\E h \in Handlers, w \in Workers : Dispatch(h, w)) => NoStrandedJob'
  BY <1>1 DEF Dispatch, Goto, TypeOK
<1>5. (\E w \in Workers : AddWorker(w)) => NoStrandedJob'
  BY <1>1 DEF AddWorker, Goto, TypeOK, Handlers
<1>6. (\E h \in Handlers : PopNothing(h)) => NoStrandedJob'
  BY DEF PopNothing, NoStrandedJob
<1>7. (\E h \in Handlers : Wake(h)) => NoStrandedJob'
  BY DEF Wake, NoStrandedJob, TypeOK
<1>8. UNCHANGED <<pc, registered_jobs_, wakeups>> => NoStrandedJob'
  BY DEF NoStrandedJob, Running
<1>9. (\/ \E j \in Jobs : TimerHandler(j)
       \/ \E w \in Workers : WriteRest(w) \/ Serve(w) \/ Misread(w) \/ Leave(w) \/ Read(w)
       \/ Acknowledge \/ Complete \/ NullJob \/ Tear)
      => UNCHANGED <<pc, registered_jobs_, wakeups>>
  BY QuietSteps
     DEF TimerHandler, WriteRest, Serve, Misread, Leave, Read, Acknowledge, Complete, NullJob,
         Tear, launch
<1>10. QED
  BY <1>2, <1>3, <1>4, <1>5, <1>6, <1>7, <1>8, <1>9, StepCases

-----------------------------------------------------------------------------
(* Threads and invokers.                                                   *)

\* The handlers that found itrigger_ null and have not assigned it yet.
Making == {h \in Handlers : pc[h] = "make"}

\* There are finitely many handlers.
LEMMA FewHandlers ==
  /\ IsFiniteSet(Running) /\ Cardinality(Running) \in Nat
  /\ \A S \in SUBSET Handlers : IsFiniteSet(S) /\ Cardinality(S) \in Nat
<1>1. \A S \in SUBSET Handlers : IsFiniteSet(S) /\ Cardinality(S) \in Nat
  BY SortsAssumption, FS_Subset, FS_CardinalityType DEF Handlers
<1>2. Running \in SUBSET Handlers
  BY DEF Running
<1>3. QED
  BY <1>1, <1>2

\* A step that starts no handler keeps those that run within the threads.
LEMMA NoneStarted ==
  ASSUME TypeOK, InvokerInv, UNCHANGED threads, Running' \subseteq Running
  PROVE  Cardinality(Running') <= threads'
<1>1. Cardinality(Running') <= Cardinality(Running)
  BY FewHandlers, FS_Subset
<1>2. threads \in Nat
  BY ThreadsAssumption DEF TypeOK
<1>3. Cardinality(Running') \in Nat
  BY FewHandlers, FS_Subset, FS_CardinalityType
<1>4. QED
  BY <1>1, <1>2, <1>3, FewHandlers DEF InvokerInv

\* A step that starts one handler does so on a free thread.
LEMMA OneStarted ==
  ASSUME TypeOK, FreeThread, UNCHANGED threads, NEW h \in Handlers,
         Running' \subseteq Running \cup {h}
  PROVE  Cardinality(Running') <= threads'
<1>1. /\ IsFiniteSet(Running \cup {h})
      /\ Cardinality(Running \cup {h}) <= Cardinality(Running) + 1
  BY FewHandlers, FS_AddElement
<1>2. /\ Cardinality(Running') <= Cardinality(Running \cup {h})
      /\ Cardinality(Running') \in Nat /\ Cardinality(Running \cup {h}) \in Nat
  BY <1>1, FS_Subset, FS_CardinalityType
<1>3. threads \in Nat
  BY ThreadsAssumption DEF TypeOK
<1>4. QED
  BY <1>1, <1>2, <1>3, FewHandlers DEF FreeThread

\* No thread runs two handlers, and those that make an invoker found none together.
LEMMA InvokerStep ==
  ASSUME TypeOK, InvokerInv, Next
  PROVE  InvokerInv'
<1> USE DEF Goto, Return, Handlers, TypeOK
<1>1. UNCHANGED threads
  BY StepCases
     DEF RegisterJob, Emplace, TimerHandler, Pop, PopNothing, Arm, PushBack, FindNoInvoker,
         MakeInvoker, Wake, Dispatch, AddWorker, WriteRest, Serve, Misread, Leave, Read,
         Acknowledge, Complete,
         NullJob, Tear
<1>2. \/ FreeThread /\ \E h \in Handlers : Running' \subseteq Running \cup {h}
      \/ Running' \subseteq Running
  <2>1. ASSUME NEW j \in Jobs, RegisterJob(j)
        PROVE  FreeThread /\ Running' \subseteq Running \cup {j}
    BY <2>1 DEF RegisterJob, Running
  <2>2. ASSUME NEW w \in Workers, AddWorker(w)
        PROVE  FreeThread /\ Running' \subseteq Running \cup {w}
    BY <2>2 DEF AddWorker, Running
  <2>3. ASSUME NEW j \in Jobs, Emplace(j) PROVE Running' \subseteq Running
    BY <2>3 DEF Emplace, Running
  <2>4. ASSUME NEW h \in Handlers,
               Pop(h) \/ Arm(h) \/ PushBack(h) \/ FindNoInvoker(h) \/ MakeInvoker(h)
        PROVE  Running' \subseteq Running
    BY <2>4 DEF Pop, Arm, PushBack, FindNoInvoker, MakeInvoker, Running
  <2>5. ASSUME NEW h \in Handlers, PopNothing(h) \/ Wake(h) PROVE Running' \subseteq Running
    BY <2>5 DEF PopNothing, Wake, Running
  <2>6. ASSUME NEW h \in Handlers, NEW w \in Workers, Dispatch(h, w)
        PROVE  Running' \subseteq Running
    BY <2>6 DEF Dispatch, Running
  <2>7. UNCHANGED pc => Running' \subseteq Running
    BY DEF Running
  <2>8. QED
    BY <2>1, <2>2, <2>3, <2>4, <2>5, <2>6, <2>7, StepCases, QuietSteps
<1>3. Cardinality(Running') <= threads'
  BY <1>1, <1>2, NoneStarted, OneStarted
<1>4. Cardinality((invokers \cup Making)') <= threads'
  <2>1. CASE (invokers \cup Making)' \subseteq invokers \cup Making
    <3>1. /\ invokers \cup Making \in SUBSET Handlers
          /\ (invokers \cup Making)' \in SUBSET Handlers
      BY <2>1 DEF Making
    <3>2. Cardinality((invokers \cup Making)') <= Cardinality(invokers \cup Making)
      BY <2>1, <3>1, FewHandlers, FS_Subset
    <3>3. threads \in Nat
      BY ThreadsAssumption
    <3>4. Cardinality(invokers \cup Making) <= threads
      BY DEF InvokerInv, Making
    <3>5. /\ Cardinality(invokers \cup Making) \in Nat
          /\ Cardinality((invokers \cup Making)') \in Nat
      BY <3>1, FewHandlers
    <3>6. QED
      BY <1>1, <3>2, <3>3, <3>4, <3>5
  <2>2. CASE \E h \in Handlers : FindNoInvoker(h)
    <3>1. PICK h \in Handlers : FindNoInvoker(h)
      BY <2>2
    <3>2. (invokers \cup Making)' \subseteq Running'
      BY <3>1 DEF FindNoInvoker, Making, Running, launch
    <3>3. /\ Running' \in SUBSET Handlers
          /\ (invokers \cup Making)' \in SUBSET Handlers
      BY <3>2 DEF Running
    <3>4. Cardinality((invokers \cup Making)') <= Cardinality(Running')
      BY <3>2, <3>3, FewHandlers, FS_Subset
    <3>5. threads \in Nat
      BY ThreadsAssumption
    <3>6. Cardinality(Running') \in Nat /\ Cardinality((invokers \cup Making)') \in Nat
      BY <3>3, FewHandlers
    <3>7. QED
      BY <1>1, <1>3, <3>4, <3>5, <3>6
  <2>3. \/ \E h \in Handlers : FindNoInvoker(h)
        \/ (invokers \cup Making)' \subseteq invokers \cup Making
    <3>1. ASSUME NEW h \in Handlers, MakeInvoker(h)
          PROVE  (invokers \cup Making)' \subseteq invokers \cup Making
      BY <3>1 DEF MakeInvoker, Making
    <3>2. ASSUME UNCHANGED invokers, Making' \subseteq Making
          PROVE  (invokers \cup Making)' \subseteq invokers \cup Making
      BY <3>2
    <3>3. ASSUME NEW j \in Jobs, RegisterJob(j) \/ Emplace(j)
          PROVE  UNCHANGED invokers /\ Making' \subseteq Making
      BY <3>3 DEF RegisterJob, Emplace, Making, launch
    <3>4. ASSUME NEW h \in Handlers, Pop(h) \/ PopNothing(h) \/ Arm(h) \/ PushBack(h) \/ Wake(h)
          PROVE  UNCHANGED invokers /\ Making' \subseteq Making
      BY <3>4 DEF Pop, PopNothing, Arm, PushBack, Wake, Making, launch
    <3>5. ASSUME NEW h \in Handlers, NEW w \in Workers, Dispatch(h, w)
          PROVE  UNCHANGED invokers /\ Making' \subseteq Making
      BY <3>5 DEF Dispatch, Making, launch
    <3>6. ASSUME NEW w \in Workers, AddWorker(w)
          PROVE  UNCHANGED invokers /\ Making' \subseteq Making
      BY <3>6 DEF AddWorker, Making
    <3>7. UNCHANGED <<pc, launch>> => UNCHANGED invokers /\ Making' \subseteq Making
      BY DEF Making, launch
    <3>8. (\/ \E j \in Jobs : TimerHandler(j)
           \/ \E w \in Workers : WriteRest(w) \/ Serve(w) \/ Misread(w) \/ Leave(w) \/ Read(w)
           \/ Acknowledge \/ Complete \/ NullJob \/ Tear)
          => UNCHANGED <<pc, launch>>
      BY QuietSteps DEF TimerHandler, WriteRest, Serve, Misread, Leave, Read, Acknowledge,
                        Complete, NullJob, Tear
    <3>9. QED
      BY <3>1, <3>2, <3>3, <3>4, <3>5, <3>6, <3>7, <3>8, StepCases
  <2>4. QED
    BY <2>1, <2>2, <2>3
<1>5. QED
  BY <1>3, <1>4 DEF InvokerInv, Making

-----------------------------------------------------------------------------
(* The two races.                                                          *)

\* Only a reply without an entry, to a mixed request or not, or a torn itrigger_ crashes.
LEMMA OnlyRaces ==
  ASSUME Next
  PROVE  ~crashed /\ (NullJob \/ Tear \/ (\E w \in Workers : Misread(w)) \/ ~crashed')
<1>1. ~crashed
  BY DEF Next
<1>2. NullJob \/ Tear \/ (\E w \in Workers : Misread(w)) \/ UNCHANGED crashed
  BY StepCases
     DEF RegisterJob, Emplace, TimerHandler, Pop, PopNothing, Arm, PushBack, FindNoInvoker,
         MakeInvoker, Wake, Dispatch, AddWorker, WriteRest, Serve, Leave, Read, Acknowledge, Complete
<1>3. QED
  BY <1>1, <1>2

\* A reply without an entry is one to a job whose handler has not emplaced it.
LEMMA NullJobWindow ==
  ASSUME TypeOK, EntryInv, NullJob
  PROVE  \E j \in Jobs : pc[j] = "emplace"
<1>1. PICK j \in Jobs : j = Head(strand).job /\ Submitted(j)
  BY StrandSubmitted DEF NullJob
<1>2. started_jobs_[salt[j]] = NoJob
  BY <1>1 DEF NullJob, Found
<1>3. QED
  BY <1>1, <1>2 DEF EntryInv

\* One thread runs one handler.
LEMMA OneThread ==
  ASSUME threads = 1, FreeThread
  PROVE  Running = {}
<1>1. Cardinality(Running) = 0
  BY FewHandlers DEF FreeThread
<1>2. QED
  BY <1>1, FewHandlers, FS_EmptySet

\* Two handlers that run do so on two threads.
LEMMA TwoThreads ==
  ASSUME TypeOK, InvokerInv, NEW h \in Running, NEW k \in Running, h # k
  PROVE  threads > 1
<1>1. IsFiniteSet({h, k}) /\ Cardinality({h, k}) = 2
  <2>1. IsFiniteSet({k}) /\ Cardinality({k}) = 1 /\ h \notin {k}
    BY FS_Singleton
  <2>2. {k} \cup {h} = {h, k}
    OBVIOUS
  <2>3. QED
    BY <2>1, <2>2, FS_AddElement
<1>2. Cardinality({h, k}) <= Cardinality(Running)
  BY FewHandlers, FS_Subset
<1>3. threads \in Nat
  BY ThreadsAssumption DEF TypeOK
<1>4. QED
  BY <1>1, <1>2, <1>3, FewHandlers DEF InvokerInv

\* A crash needs mixed requests; or a handler between its push and its emplace, or two in
\* create_worker, so a second thread.
LEMMA CrashStep ==
  ASSUME TypeOK, EntryInv, InvokerInv, CrashWindow, Next
  PROVE  CrashWindow'
<1>0. threads \in Nat \ {0}
  BY ThreadsAssumption DEF TypeOK
<1>1. CASE ~crashed'
  BY <1>1 DEF CrashWindow
<1>2. CASE NullJob
  <2>1. PICK j \in Jobs : pc[j] = "emplace"
    BY <1>2, NullJobWindow
  <2>2. pc' = pc /\ threads' = threads
    BY <1>2 DEF NullJob, loopVars
  <2>3. threads # 1
    <3>1. j \in Running
      BY <2>1 DEF Running, Handlers
    <3>2. FreeThread
      BY <1>2 DEF NullJob
    <3>3. QED
      BY <3>1, <3>2, OneThread
  <2>4. QED
    BY <1>0, <2>1, <2>2, <2>3 DEF CrashWindow
<1>3. CASE Tear
  <2>1. PICK k \in Handlers : Torn(k)
    BY <1>3 DEF Tear
  <2>2. pc' = pc /\ threads' = threads /\ wakeups' = wakeups
    BY <1>3 DEF Tear, loopVars, launch
  <2>3. threads > 1
    <3>1. k \in Running
      BY <2>1 DEF Torn, Running
    <3>2. CASE \E h \in Handlers \ {k} : pc[h] \in {"wake", "make"}
      BY <3>1, <3>2, TwoThreads DEF Running
    <3>3. CASE FreeThread
      BY <3>1, <3>3, <1>0, OneThread
    <3>4. QED
      BY <2>1, <3>2, <3>3 DEF Torn
  <2>4. Torn(k)'
    BY <2>1, <2>2 DEF Torn, FreeThread, Running
  <2>5. QED
    BY <2>2, <2>3, <2>4 DEF CrashWindow
<1>4. CASE \E w \in Workers : Misread(w)
  BY <1>4 DEF Misread, linkVars, CrashWindow
<1>5. QED
  BY <1>1, <1>2, <1>3, <1>4, OnlyRaces

-----------------------------------------------------------------------------
(* The way of a response, and the service the launcher implements.         *)

\* The response of a worker to a job.
Response(j) == Message("response", j)

\* Where a job's request, or the response to it, is: with a worker, in its unread
\* replies, on the strand, or given to a job's on_completion_.
Where(j) ==
  {<<"asked", w>> : w \in {w \in Workers : j \in ToSet(toWorker[w])}}
  \cup {<<"sent", w>> : w \in {w \in Workers : Response(j) \in ToSet(fromWorker[w])}}
  \cup {<<"read", NoJob>> : s \in {s \in {strand} : Response(j) \in ToSet(s)}}
  \cup {<<"given", i>> : i \in {i \in Jobs : j \in ToSet(answers[i])}}

\* It is in one place at most, and only after the job was posted ...
OneWay(j) == (\A p, q \in Where(j) : p = q) /\ (Where(j) # {} => Posted(j))

\* ... and in that place once.
OnceEach(j) ==
  /\ \A w \in Workers : Once(toWorker[w], j) /\ Once(fromWorker[w], Response(j))
  /\ Once(strand, Response(j))
  /\ \A i \in Jobs : Once(answers[i], j)

ResponseInv == \A j \in Jobs : OneWay(j) /\ OnceEach(j)

\* A response is unlike those to other jobs, acknowledgements and notices.
LEMMA ResponseApart ==
  /\ \A i, j : Response(i) = Response(j) => i = j
  /\ \A i, j : Message("ack", i) # Response(j)
  /\ \A m \in Notices : \A j : m # Response(j)
  /\ \A j \in Jobs : Response(j) \in Replies /\ Response(j) \in Messages
<1>1. \A i, j : Response(i) = Response(j) => i = j
  <2>1. \A i : Response(i).job = i
    BY DEF Response, Message
  <2>2. QED
    BY <2>1
<1>2. \A i : Response(i).kind = "response" /\ Message("ack", i).kind = "ack"
  BY DEF Response, Message
<1>3. \A m \in Notices : m.kind # "response"
  BY DEF Notices
<1>4. \A j \in Jobs : Response(j) \in Replies /\ Response(j) \in Messages
  BY DEF Response, Message, Replies, Messages
<1>5. \A i, j : Message("ack", i) # Response(j)
  <2> SUFFICES ASSUME NEW i, NEW j, Message("ack", i) = Response(j) PROVE FALSE
    OBVIOUS
  <2>1. "ack" = "response"
    BY <1>2
  <2>2. QED
    BY <2>1
<1>6. QED
  BY <1>1, <1>2, <1>3, <1>4, <1>5

\* Where, by what is there.
LEMMA WhereIs ==
  ASSUME NEW j
  PROVE  /\ \A w \in Workers : <<"asked", w>> \in Where(j) <=> j \in ToSet(toWorker[w])
         /\ \A w \in Workers : <<"sent", w>> \in Where(j) <=> Response(j) \in ToSet(fromWorker[w])
         /\ <<"read", NoJob>> \in Where(j) <=> Response(j) \in ToSet(strand)
         /\ \A i \in Jobs : <<"given", i>> \in Where(j) <=> j \in ToSet(answers[i])
         /\ \A p \in Where(j) :
              \/ \E w \in Workers : p = <<"asked", w>> \/ p = <<"sent", w>>
              \/ p = <<"read", NoJob>>
              \/ \E i \in Jobs : p = <<"given", i>>
  BY DEF Where

\* What is in one place is in no other.
LEMMA WhereOne ==
  ASSUME NEW j, OneWay(j), NEW p \in Where(j)
  PROVE  /\ \A w \in Workers : j \in ToSet(toWorker[w]) => p = <<"asked", w>>
         /\ \A w \in Workers : Response(j) \in ToSet(fromWorker[w]) => p = <<"sent", w>>
         /\ Response(j) \in ToSet(strand) => p = <<"read", NoJob>>
         /\ \A i \in Jobs : j \in ToSet(answers[i]) => p = <<"given", i>>
  BY WhereIs DEF OneWay

\* A step that only takes something away.
LEMMA WayShrinks ==
  ASSUME NEW j, OneWay(j), Posted(j) => Posted(j)',
         \A w \in Workers : j \in ToSet(toWorker'[w]) => j \in ToSet(toWorker[w]),
         \A w \in Workers : Response(j) \in ToSet(fromWorker'[w]) => Response(j) \in ToSet(fromWorker[w]),
         Response(j) \in ToSet(strand') => Response(j) \in ToSet(strand),
         \A i \in Jobs : j \in ToSet(answers'[i]) => j \in ToSet(answers[i])
  PROVE  OneWay(j)'
<1>1. Where(j)' \subseteq Where(j)
  BY DEF Where
<1>2. QED
  BY <1>1 DEF OneWay

\* A step that moves it to q.
LEMMA WayMoves ==
  ASSUME NEW j, NEW q, Posted(j)',
         \A w \in Workers : j \in ToSet(toWorker'[w]) => q = <<"asked", w>>,
         \A w \in Workers : Response(j)' \in ToSet(fromWorker'[w]) => q = <<"sent", w>>,
         Response(j)' \in ToSet(strand') => q = <<"read", NoJob>>,
         \A i \in Jobs : j \in ToSet(answers'[i]) => q = <<"given", i>>
  PROVE  OneWay(j)'
<1>1. Where(j)' \subseteq {q}
  BY DEF Where
<1>2. QED
  BY <1>1 DEF OneWay

\* The queues are typed.
LEMMA QueueTypes ==
  ASSUME TypeOK
  PROVE  /\ \A w \in Workers : toWorker[w] \in Seq(Jobs) /\ fromWorker[w] \in Seq(Messages)
         /\ strand \in Seq(Replies)
         /\ \A j \in Jobs : answers[j] \in Seq(Jobs) /\ posted[j] \in Seq(Workers)
  BY DEF TypeOK


\* A step that moves no message and posts no job.
LEMMA ResponseFrame ==
  ASSUME ResponseInv, UNCHANGED <<toWorker, fromWorker, strand, answers, posted>>
  PROVE  ResponseInv'
<1> SUFFICES ASSUME NEW j \in Jobs PROVE OneWay(j)' /\ OnceEach(j)'
  BY DEF ResponseInv
<1>1. OneWay(j) /\ OnceEach(j)
  BY DEF ResponseInv
<1>2. OneWay(j)'
  BY <1>1 DEF OneWay, Where, Posted, Response, Message
<1>3. OnceEach(j)'
  BY <1>1 DEF OnceEach, Response, Message
<1>4. QED
  BY <1>2, <1>3

\* A job that is dispatched was posted to no worker before.
LEMMA DispatchFirst ==
  ASSUME TypeOK, LoopInv, OnePlace, NEW h \in Handlers, NEW w \in Workers, Dispatch(h, w)
  PROVE  /\ hand[h] \in Jobs /\ ~Posted(hand[h]) /\ Submitted(hand[h]) /\ Held(hand[h])
         /\ posted' = [posted EXCEPT ![hand[h]] = <<w>>]
<1>1. PICK j \in Jobs : j = hand[h]
  BY DEF Dispatch, Goto, LoopInv
<1>2. Held(j) /\ ~Posted(j) /\ Submitted(j)
  BY <1>1 DEF Held, Dispatch, Goto, OnePlace
<1>3. posted[j] = <<>>
  BY <1>2 DEF Posted
<1>4. Append(posted[j], w) = <<w>>
  BY <1>3
<1>5. QED
  BY <1>1, <1>2, <1>4 DEF Dispatch

\* A job that is posted is asked of one worker.
LEMMA ResponseDispatch ==
  ASSUME TypeOK, LoopInv, OnePlace, ResponseInv, NEW h \in Handlers, NEW w \in Workers,
         Dispatch(h, w)
  PROVE  ResponseInv'
<1>1. PICK j \in Jobs : j = hand[h] /\ ~Posted(j) /\ posted' = [posted EXCEPT ![j] = <<w>>]
  BY DispatchFirst
<1>2. UNCHANGED <<fromWorker, strand, answers>>
  BY DEF Dispatch
<1>3. \A v \in Workers :
        \/ toWorker'[v] = toWorker[v]
        \/ v = w /\ toWorker'[v] = Append(toWorker[v], j)
  BY <1>1, SMTT(30) DEF Dispatch, StartPost, TypeOK
<1>4. \A v \in Workers : ToSet(Append(toWorker[v], j)) = ToSet(toWorker[v]) \cup {j}
  BY ToSetAppend, QueueTypes
<1>5. \A i \in Jobs : posted'[i] = IF i = j THEN <<w>> ELSE posted[i]
  BY <1>1 DEF TypeOK
<1>6. \A i \in Jobs : (Posted(i) => Posted(i)') /\ Posted(j)'
  BY <1>5 DEF Posted
<1>7. Where(j) = {} /\ OneWay(j)
  BY <1>1 DEF ResponseInv, OneWay
<1>8. OneWay(j)'
  <2>1. PICK q : q = <<"asked", w>>
    OBVIOUS
  <2>2. \A v \in Workers : j \in ToSet(toWorker'[v]) => q = <<"asked", v>>
    BY <1>3, <1>7, <2>1, WhereIs
  <2>3. /\ \A v \in Workers : Response(j)' \notin ToSet(fromWorker'[v])
        /\ Response(j)' \notin ToSet(strand')
        /\ \A i \in Jobs : j \notin ToSet(answers'[i])
    BY <1>2, <1>7, WhereIs DEF Response, Message
  <2>4. QED
    BY <1>6, <2>2, <2>3, WayMoves
<1>9. ASSUME NEW i \in Jobs, i # j PROVE OneWay(i)'
  <2>1. OneWay(i)
    BY DEF ResponseInv
  <2>2. ASSUME NEW v \in Workers, i \in ToSet(toWorker'[v]) PROVE i \in ToSet(toWorker[v])
    <3>1. CASE toWorker'[v] = toWorker[v]
      BY <2>2, <3>1
    <3>2. CASE toWorker'[v] = Append(toWorker[v], j)
      BY <1>4, <1>9, <2>2, <3>2
    <3>3. QED
      BY <1>3, <3>1, <3>2
  <2>3. QED
    BY <1>2, <1>6, <2>1, <2>2, WayShrinks
<1>10. ASSUME NEW i \in Jobs PROVE OnceEach(i)'
  <2>1. OnceEach(i)
    BY DEF ResponseInv
  <2>2. ASSUME NEW v \in Workers PROVE Once(toWorker'[v], i)
    <3>1. Once(toWorker[v], i) /\ toWorker[v] \in Seq(Jobs)
      BY <2>1, QueueTypes DEF OnceEach
    <3>2. j # i \/ i \notin ToSet(toWorker[v])
      BY <1>7, WhereIs
    <3>3. Once(Append(toWorker[v], j), i)
      BY <3>1, <3>2, OnceAppend
    <3>4. QED
      BY <1>3, <3>1, <3>3
  <2>3. QED
    BY <1>2, <2>1, <2>2 DEF OnceEach, Response, Message
<1>11. QED
  BY <1>8, <1>9, <1>10 DEF ResponseInv

\* A worker that serves a request has one response to send.
LEMMA ResponseServe ==
  ASSUME TypeOK, ResponseInv, NEW w \in Workers, Serve(w)
  PROVE  ResponseInv'
<1>1. PICK j \in Jobs : j = Head(toWorker[w]) /\ j \in ToSet(toWorker[w])
  <2>1. toWorker[w] \in Seq(Jobs) /\ toWorker[w] # <<>>
    BY QueueTypes DEF Serve
  <2>2. QED
    BY <2>1, ToSetTail
<1>2. PICK a, r : a = Message("ack", j) /\ r = Response(j)
  OBVIOUS
<1>3. UNCHANGED <<strand, answers, posted>>
  BY DEF Serve
<1>4. \A v \in Workers :
        /\ toWorker'[v] = IF v = w THEN Tail(toWorker[w]) ELSE toWorker[v]
        /\ fromWorker'[v] = IF v = w THEN fromWorker[w] \o <<a, r>> ELSE fromWorker[v]
  BY <1>1, <1>2 DEF Serve, TypeOK, Response
<1>5. PICK M : M = Messages /\ a \in M /\ r \in M /\ fromWorker[w] \in Seq(M)
  BY <1>2, QueueTypes, ResponseApart DEF Message, Messages, Replies
<1>6. ToSet(fromWorker[w] \o <<a, r>>) = ToSet(fromWorker[w]) \cup {a, r}
  BY <1>5, ToSetAppendTwo
<1>7. ToSet(Tail(toWorker[w])) \subseteq ToSet(toWorker[w])
  BY QueueTypes, ToSetTail DEF Serve
<1>8. OneWay(j) /\ OnceEach(j)
  BY DEF ResponseInv
<1>9. PICK p \in Where(j) : p = <<"asked", w>>
  BY <1>1, WhereIs
<1>10. /\ \A v \in Workers : j \in ToSet(toWorker[v]) => v = w
       /\ \A v \in Workers : r \notin ToSet(fromWorker[v])
       /\ r \notin ToSet(strand)
       /\ \A i \in Jobs : j \notin ToSet(answers[i])
  BY <1>2, <1>8, <1>9, WhereOne
<1>11. \A i \in Jobs : Posted(i)' <=> Posted(i)
  BY <1>3 DEF Posted
<1>12. OneWay(j)'
  <2>1. j \notin ToSet(Tail(toWorker[w]))
    BY <1>1, <1>8, OnceTail, QueueTypes DEF OnceEach, Serve
  <2>2. Posted(j)'
    BY <1>8, <1>9, <1>11 DEF OneWay
  <2>3. PICK q : q = <<"sent", w>>
    OBVIOUS
  <2>4. \A v \in Workers : j \notin ToSet(toWorker'[v])
    BY <1>4, <1>10, <2>1
  <2>5. \A v \in Workers : Response(j)' \in ToSet(fromWorker'[v]) => q = <<"sent", v>>
    BY <1>2, <1>4, <1>10, <2>3 DEF Response, Message
  <2>6. Response(j)' \notin ToSet(strand') /\ \A i \in Jobs : j \notin ToSet(answers'[i])
    BY <1>2, <1>3, <1>10 DEF Response, Message
  <2>7. QED
    BY <2>2, <2>4, <2>5, <2>6, WayMoves
<1>13. ASSUME NEW i \in Jobs, i # j PROVE OneWay(i)'
  <2>1. OneWay(i)
    BY DEF ResponseInv
  <2>2. \A v \in Workers : i \in ToSet(toWorker'[v]) => i \in ToSet(toWorker[v])
    BY <1>4, <1>7
  <2>3. Response(i) # a /\ Response(i) # r
    BY <1>2, <1>13, ResponseApart
  <2>4. \A v \in Workers : Response(i) \in ToSet(fromWorker'[v]) => Response(i) \in ToSet(fromWorker[v])
    BY <1>4, <1>6, <2>3
  <2>5. QED
    BY <1>3, <1>11, <2>1, <2>2, <2>4, WayShrinks
<1>14. ASSUME NEW i \in Jobs PROVE OnceEach(i)'
  <2>1. OnceEach(i)
    BY DEF ResponseInv
  <2>2. \A v \in Workers : Once(toWorker'[v], i)
    <3>1. Once(Tail(toWorker[w]), i)
      BY <2>1, OnceTail, QueueTypes DEF OnceEach, Serve
    <3>2. QED
      BY <1>4, <2>1, <3>1 DEF OnceEach
  <2>3. \A v \in Workers : Once(fromWorker'[v], Response(i))
    <3>1. a # Response(i)
      BY <1>2, ResponseApart
    <3>2. r # Response(i) \/ Response(i) \notin ToSet(fromWorker[w])
      BY <1>10
    <3>3. Once(fromWorker[w] \o <<a, r>>, Response(i))
      BY <1>5, <2>1, <3>1, <3>2, OnceAppendTwo DEF OnceEach
    <3>4. QED
      BY <1>4, <2>1, <3>3 DEF OnceEach
  <2>4. QED
    BY <1>3, <2>1, <2>2, <2>3 DEF OnceEach, Response, Message
<1>15. QED
  BY <1>12, <1>13, <1>14 DEF ResponseInv

\* What arrives of a worker that leaves has a response at most once.
LEMMA TailsOnce ==
  ASSUME TypeOK, NEW w \in Workers, NEW tail \in Tails(w), NEW j, Once(fromWorker[w], Response(j))
  PROVE  Once(tail, Response(j))
<1>1. /\ Message("eof", NoJob) \in Notices /\ Message("cut", NoJob) \in Notices
      /\ Message("dereg", NoJob) \in Notices
  BY DEF Message, Notices
<1>2. PICK M, s, eof, cut, dereg, r :
        /\ M = Messages /\ s = fromWorker[w] /\ eof = Message("eof", NoJob)
        /\ cut = Message("cut", NoJob) /\ dereg = Message("dereg", NoJob) /\ r = Response(j)
  OBVIOUS
<1>3. s \in Seq(M) /\ eof \in M /\ cut \in M /\ dereg \in M /\ Once(s, r)
  BY <1>1, <1>2 DEF TypeOK, Messages
<1>4. eof # r /\ cut # r /\ dereg # r
  BY <1>1, <1>2, ResponseApart
<1>5. ASSUME NEW n \in 0..Len(s), NEW e \in M, e # r
      PROVE  Once(Append(SubSeq(s, 1, n), e), r)
  <2>1. SubSeq(s, 1, n) \in Seq(M)
    BY <1>3, ToSetPrefix
  <2>2. Once(SubSeq(s, 1, n), r)
    BY <1>3, OncePrefix
  <2>3. QED
    BY <1>5, <2>1, <2>2, OnceAppend
<1>6. CASE \E n \in 0..Len(s) : tail = Append(SubSeq(s, 1, n), eof)
  BY <1>2, <1>3, <1>4, <1>5, <1>6
<1>7. CASE \E n \in 1..Len(s) : tail = Append(SubSeq(s, 1, n - 1), cut)
  <2>1. PICK n \in 1..Len(s) : tail = Append(SubSeq(s, 1, n - 1), cut)
    BY <1>7
  <2>2. PICK l \in 0..Len(s) : l = n - 1
    BY <1>3
  <2>3. Once(Append(SubSeq(s, 1, l), cut), r)
    BY <1>3, <1>4, <1>5
  <2>4. QED
    BY <1>2, <2>1, <2>2, <2>3
<1>8. CASE tail = s \o <<dereg, eof>>
  BY <1>2, <1>3, <1>4, <1>8, OnceAppendTwo
<1>9. QED
  BY <1>2, <1>6, <1>7, <1>8 DEF Tails

\* Leaving makes no message.
LEMMA ResponseLeave ==
  ASSUME TypeOK, ResponseInv, NEW w \in Workers, Leave(w)
  PROVE  ResponseInv'
<1>1. PICK tail \in Tails(w) : fromWorker' = [fromWorker EXCEPT ![w] = tail]
  BY DEF Leave
<1>2. \A v \in Workers :
        /\ toWorker'[v] = IF v = w THEN <<>> ELSE toWorker[v]
        /\ fromWorker'[v] = IF v = w THEN tail ELSE fromWorker[v]
  BY <1>1 DEF Leave, TypeOK
<1>3. UNCHANGED <<strand, answers, posted>>
  BY DEF Leave
<1>4. ToSet(<<>>) = {}
  BY DEF ToSet
<1>5. \A i \in Jobs : Once(<<>>, i)
  BY DEF Once
<1> SUFFICES ASSUME NEW i \in Jobs PROVE OneWay(i)' /\ OnceEach(i)'
  BY DEF ResponseInv
<1>6. OneWay(i) /\ OnceEach(i)
  BY DEF ResponseInv
<1>7. OneWay(i)'
  <2>1. \A v \in Workers : i \in ToSet(toWorker'[v]) => i \in ToSet(toWorker[v])
    BY <1>2, <1>4
  <2>2. Response(i) \in ToSet(tail) => Response(i) \in ToSet(fromWorker[w])
    BY TailsElements, ResponseApart
  <2>3. \A v \in Workers : Response(i) \in ToSet(fromWorker'[v]) => Response(i) \in ToSet(fromWorker[v])
    BY <1>2, <2>2
  <2>4. Posted(i) => Posted(i)'
    BY <1>3 DEF Posted
  <2>5. QED
    BY <1>3, <1>6, <2>1, <2>3, <2>4, WayShrinks
<1>8. OnceEach(i)'
  <2>1. Once(tail, Response(i))
    BY <1>6, TailsOnce DEF OnceEach
  <2>2. \A v \in Workers : Once(toWorker'[v], i) /\ Once(fromWorker'[v], Response(i))
    BY <1>2, <1>5, <1>6, <2>1 DEF OnceEach
  <2>3. QED
    BY <1>3, <1>6, <2>2 DEF OnceEach, Response, Message
<1>9. QED
  BY <1>7, <1>8

\* What is read goes to the strand or nowhere.
LEMMA ResponseRead ==
  ASSUME TypeOK, ResponseInv, NEW w \in Workers, Read(w)
  PROVE  ResponseInv'
<1>1. PICK M : M = Messages /\ fromWorker[w] \in Seq(M) /\ fromWorker[w] # <<>>
  BY QueueTypes DEF Read
<1>2. PICK m \in M : m = Head(fromWorker[w]) /\ m \in ToSet(fromWorker[w])
  BY <1>1, ToSetTail
<1>3. PICK R : R = Replies /\ strand \in Seq(R)
  BY QueueTypes
<1>4. m.kind \in {"ack", "response"} => m \in R
  BY <1>1, <1>2, <1>3 DEF Messages, Notices
<1>5. strand' = strand \/ (m \in R /\ strand' = Append(strand, m))
  BY <1>2, <1>4 DEF Read
<1>6. \A v \in Workers :
        fromWorker'[v] = IF v = w THEN Tail(fromWorker[w]) ELSE fromWorker[v]
  BY DEF Read, TypeOK
<1>7. UNCHANGED <<toWorker, answers, posted>>
  BY DEF Read
<1>8. m \in R => ToSet(Append(strand, m)) = ToSet(strand) \cup {m}
  BY <1>3, ToSetAppend
<1>9. ToSet(Tail(fromWorker[w])) \subseteq ToSet(fromWorker[w])
  BY <1>1, ToSetTail
<1> SUFFICES ASSUME NEW i \in Jobs PROVE OneWay(i)' /\ OnceEach(i)'
  BY DEF ResponseInv
<1>10. OneWay(i) /\ OnceEach(i)
  BY DEF ResponseInv
<1>11. Posted(i)' <=> Posted(i)
  BY <1>7 DEF Posted
<1>12. CASE m = Response(i)
  <2>1. PICK p \in Where(i) : p = <<"sent", w>>
    BY <1>2, <1>12, WhereIs
  <2>2. /\ \A v \in Workers : i \notin ToSet(toWorker[v])
        /\ \A v \in Workers : m \in ToSet(fromWorker[v]) => v = w
        /\ m \notin ToSet(strand)
        /\ \A k \in Jobs : i \notin ToSet(answers[k])
    BY <1>10, <1>12, <2>1, WhereOne
  <2>3. Once(Tail(fromWorker[w]), m) /\ m \notin ToSet(Tail(fromWorker[w]))
    BY <1>1, <1>2, <1>10, <1>12, OnceTail DEF OnceEach
  <2>4. Posted(i)'
    BY <1>10, <1>11, <2>1 DEF OneWay
  <2>5. PICK q : q = <<"read", NoJob>>
    OBVIOUS
  <2>6. \A v \in Workers : Response(i)' \notin ToSet(fromWorker'[v])
    BY <1>6, <1>12, <2>2, <2>3 DEF Response, Message
  <2>7. /\ \A v \in Workers : i \notin ToSet(toWorker'[v])
        /\ \A k \in Jobs : i \notin ToSet(answers'[k])
    BY <1>7, <2>2
  <2>8. OneWay(i)'
    BY <2>4, <2>5, <2>6, <2>7, WayMoves
  <2>9. Once(strand', m)
    <3>1. Once(strand, m)
      BY <1>10, <1>12 DEF OnceEach
    <3>2. m \in R => Once(Append(strand, m), m)
      BY <1>3, <2>2, <3>1, OnceAppend
    <3>3. QED
      BY <1>5, <3>1, <3>2
  <2>10. \A v \in Workers : Once(fromWorker'[v], m)
    BY <1>6, <1>10, <1>12, <2>3 DEF OnceEach
  <2>11. OnceEach(i)'
    BY <1>7, <1>10, <1>12, <2>9, <2>10 DEF OnceEach, Response, Message
  <2>12. QED
    BY <2>8, <2>11
<1>13. CASE m # Response(i)
  <2>1. PICK r : r = Response(i)
    OBVIOUS
  <2>2. r \in ToSet(strand') => r \in ToSet(strand)
    <3>1. CASE strand' = strand
      BY <3>1
    <3>2. CASE m \in R /\ strand' = Append(strand, m)
      BY <1>8, <1>13, <2>1, <3>2
    <3>3. QED
      BY <1>5, <3>1, <3>2
  <2>3. \A v \in Workers : r \in ToSet(fromWorker'[v]) => r \in ToSet(fromWorker[v])
    BY <1>6, <1>9
  <2>4. OneWay(i)'
    BY <1>7, <1>10, <1>11, <2>1, <2>2, <2>3, WayShrinks
  <2>5. Once(strand', r)
    <3>1. Once(strand, r)
      BY <1>10, <2>1 DEF OnceEach
    <3>2. m \in R => Once(Append(strand, m), r)
      BY <1>3, <1>13, <2>1, <3>1, OnceAppend
    <3>3. QED
      BY <1>5, <3>1, <3>2
  <2>6. \A v \in Workers : Once(fromWorker'[v], r)
    <3>1. Once(Tail(fromWorker[w]), r)
      BY <1>1, <1>10, <2>1, OnceTail DEF OnceEach
    <3>2. QED
      BY <1>6, <1>10, <2>1, <3>1 DEF OnceEach
  <2>7. OnceEach(i)'
    BY <1>7, <1>10, <2>1, <2>5, <2>6 DEF OnceEach, Response, Message
  <2>8. QED
    BY <2>4, <2>7
<1>14. QED
  BY <1>12, <1>13

\* An acknowledgement is taken off the strand.
LEMMA ResponseAcknowledge ==
  ASSUME TypeOK, ResponseInv, Acknowledge
  PROVE  ResponseInv'
<1>1. PICK R : R = Replies /\ strand \in Seq(R) /\ strand # <<>> /\ strand' = Tail(strand)
  BY QueueTypes DEF Acknowledge
<1>2. UNCHANGED <<toWorker, fromWorker, answers, posted>>
  BY DEF Acknowledge, linkVars
<1>3. ToSet(Tail(strand)) \subseteq ToSet(strand)
  BY <1>1, ToSetTail
<1> SUFFICES ASSUME NEW i \in Jobs PROVE OneWay(i)' /\ OnceEach(i)'
  BY DEF ResponseInv
<1>4. OneWay(i) /\ OnceEach(i)
  BY DEF ResponseInv
<1>5. OneWay(i)'
  <2>1. Posted(i) => Posted(i)'
    BY <1>2 DEF Posted
  <2>2. QED
    BY <1>1, <1>2, <1>3, <1>4, <2>1, WayShrinks
<1>6. OnceEach(i)'
  <2>1. Once(Tail(strand), Response(i))
    BY <1>1, <1>4, OnceTail DEF OnceEach
  <2>2. QED
    BY <1>1, <1>2, <1>4, <2>1 DEF OnceEach, Response, Message
<1>7. QED
  BY <1>5, <1>6

\* The response that is completed: whose it is, and that nobody was given it before.
LEMMA CompletedJob ==
  ASSUME TypeOK, EntryInv, ResponseInv, Complete
  PROVE  /\ Head(strand).job \in Jobs /\ Head(strand) = Response(Head(strand).job)
         /\ Submitted(Head(strand).job) /\ Posted(Head(strand).job)
         /\ <<"read", NoJob>> \in Where(Head(strand).job)
         /\ \A w \in Workers : Head(strand).job \notin ToSet(toWorker[w])
         /\ \A w \in Workers : Head(strand) \notin ToSet(fromWorker[w])
         /\ \A i \in Jobs : Head(strand).job \notin ToSet(answers[i])
<1>1. PICK m \in Replies : m = Head(strand) /\ m \in ToSet(strand) /\ m.job \in Jobs /\ Submitted(m.job)
  BY StrandSubmitted DEF Complete
<1>2. m = Response(m.job)
  BY <1>1 DEF Complete, Replies, Response, Message
<1>3. PICK p \in Where(m.job) : p = <<"read", NoJob>>
  BY <1>1, <1>2, WhereIs
<1>4. OneWay(m.job)
  BY <1>1 DEF ResponseInv
<1>5. /\ \A w \in Workers : m.job \notin ToSet(toWorker[w])
      /\ \A w \in Workers : m \notin ToSet(fromWorker[w])
      /\ \A i \in Jobs : m.job \notin ToSet(answers[i])
  BY <1>2, <1>3, <1>4, WhereOne
<1>6. Posted(m.job)
  BY <1>3, <1>4 DEF OneWay
<1>7. QED
  BY <1>1, <1>2, <1>3, <1>5, <1>6

\* The entry its header is found under.
LEMMA FoundJob ==
  ASSUME TypeOK, EntryInv, strand # <<>>
  PROVE  /\ salt[Head(strand).job] \in Salts
         /\ Found \in Jobs \cup {NoJob}
<1>1. PICK a \in Jobs : a = Head(strand).job /\ Submitted(a)
  BY StrandSubmitted
<1>2. salt[a] \in Salts
  BY <1>1 DEF Submitted, TypeOK
<1>3. QED
  BY <1>1, <1>2 DEF Found, TypeOK

\* A completed response is given to one job.
LEMMA ResponseComplete ==
  ASSUME TypeOK, EntryInv, ResponseInv, Complete
  PROVE  ResponseInv'
<1>1. PICK j \in Jobs : j = Head(strand).job
  BY CompletedJob
<1>2. /\ Head(strand) = Response(j) /\ Posted(j)
      /\ \A w \in Workers : j \notin ToSet(toWorker[w])
      /\ \A w \in Workers : Response(j) \notin ToSet(fromWorker[w])
      /\ \A i \in Jobs : j \notin ToSet(answers[i])
  BY <1>1, CompletedJob
<1>3. PICK f \in Jobs : f = Found
  BY FoundJob DEF Complete
<1>4. /\ UNCHANGED <<toWorker, fromWorker, posted>>
      /\ \A i \in Jobs : answers'[i] = IF i = f THEN Append(answers[f], j) ELSE answers[i]
  BY <1>1, <1>3 DEF Complete, linkVars, TypeOK
<1>5. PICK R : R = Replies /\ strand \in Seq(R) /\ strand # <<>> /\ strand' = Tail(strand)
  BY QueueTypes DEF Complete
<1>6. ToSet(Tail(strand)) \subseteq ToSet(strand)
  BY <1>5, ToSetTail
<1>7. ToSet(Append(answers[f], j)) = ToSet(answers[f]) \cup {j} /\ answers[f] \in Seq(Jobs)
  BY ToSetAppend, QueueTypes
<1> SUFFICES ASSUME NEW i \in Jobs PROVE OneWay(i)' /\ OnceEach(i)'
  BY DEF ResponseInv
<1>8. OneWay(i) /\ OnceEach(i)
  BY DEF ResponseInv
<1>9. Once(Tail(strand), Response(i)) /\ (i = j => Response(i) \notin ToSet(Tail(strand)))
  BY <1>2, <1>5, <1>8, OnceTail DEF OnceEach
<1>10. Posted(i)' <=> Posted(i)
  BY <1>4 DEF Posted
<1>11. OneWay(i)'
  <2>1. CASE i = j
    <3>1. PICK q : q = <<"given", f>>
      OBVIOUS
    <3>2. /\ \A w \in Workers : i \notin ToSet(toWorker'[w])
          /\ \A w \in Workers : Response(i)' \notin ToSet(fromWorker'[w])
          /\ Response(i)' \notin ToSet(strand')
      BY <1>2, <1>4, <1>5, <1>9, <2>1 DEF Response, Message
    <3>3. \A k \in Jobs : i \in ToSet(answers'[k]) => q = <<"given", k>>
      BY <1>2, <1>4, <2>1, <3>1
    <3>4. QED
      BY <1>2, <1>10, <2>1, <3>2, <3>3, WayMoves
  <2>2. CASE i # j
    <3>1. \A k \in Jobs : i \in ToSet(answers'[k]) => i \in ToSet(answers[k])
      BY <1>4, <1>7, <2>2
    <3>2. QED
      BY <1>4, <1>5, <1>6, <1>8, <1>10, <3>1, WayShrinks
  <2>3. QED
    BY <2>1, <2>2
<1>12. OnceEach(i)'
  <2>1. Once(Append(answers[f], j), i)
    <3>1. Once(answers[f], i) /\ (j # i \/ i \notin ToSet(answers[f]))
      BY <1>2, <1>8 DEF OnceEach
    <3>2. QED
      BY <1>7, <3>1, OnceAppend
  <2>2. \A k \in Jobs : Once(answers'[k], i)
    BY <1>4, <1>8, <2>1 DEF OnceEach
  <2>3. QED
    BY <1>4, <1>5, <1>8, <1>9, <2>2 DEF OnceEach, Response, Message
<1>13. QED
  BY <1>11, <1>12

\* No step makes a second response, or puts one in two places.
LEMMA ResponseStep ==
  ASSUME IInv, ResponseInv, Next
  PROVE  ResponseInv'
<1>1. TypeOK /\ LoopInv /\ OnePlace /\ EntryInv
  BY DEF IInv
<1>2. UNCHANGED <<toWorker, fromWorker, strand, answers, posted>> => ResponseInv'
  BY ResponseFrame
<1>3. \/ \E h \in Handlers, w \in Workers : Dispatch(h, w)
      \/ \E w \in Workers : Serve(w) \/ Leave(w) \/ Read(w)
      \/ Acknowledge \/ Complete
      \/ UNCHANGED <<toWorker, fromWorker, strand, answers, posted>>
  BY StepCases
     DEF RegisterJob, Emplace, TimerHandler, Pop, PopNothing, Arm, PushBack, FindNoInvoker,
         MakeInvoker, Wake, AddWorker, WriteRest, Misread, NullJob, Tear, linkVars
<1>4. QED
  BY <1>1, <1>2, <1>3, ResponseDispatch, ResponseServe, ResponseLeave, ResponseRead,
     ResponseAcknowledge, ResponseComplete

\* At first there is no response.
LEMMA ResponseInit ==
  ASSUME Init
  PROVE  ResponseInv
<1>1. ToSet(<<>>) = {}
  BY DEF ToSet
<1>2. \A x : Once(<<>>, x)
  BY DEF Once
<1> SUFFICES ASSUME NEW j \in Jobs PROVE OneWay(j) /\ OnceEach(j)
  BY DEF ResponseInv
<1>3. Where(j) = {}
  BY <1>1 DEF Where, Init
<1>4. OnceEach(j)
  BY <1>2 DEF OnceEach, Init
<1>5. QED
  BY <1>3, <1>4 DEF OneWay

\* What a step of the launcher is for its clients.
LEMMA ServiceStep ==
  ASSUME IInv, ResponseInv, Next
  PROVE  [JS!Next]_(JS!vars)
<1>1. TypeOK /\ LoopInv /\ OnePlace /\ EntryInv
  BY DEF IInv
<1>2. ASSUME NEW j \in Jobs, RegisterJob(j) PROVE JS!Submit(j)
  <2>1. salt[j] = NoSalt
    BY <1>1, <1>2 DEF RegisterJob, Goto, LoopInv, Submitted
  <2>2. QED
    BY <1>2, <2>1 DEF RegisterJob, JS!Submit
<1>3. ASSUME NEW j \in Jobs, Emplace(j) PROVE JS!Hold(j) \/ UNCHANGED JS!vars
  <2>1. salt[j] \in Salts
    BY <1>1, <1>3 DEF Emplace, Goto, LoopInv, Submitted, TypeOK
  <2>2. QED
    BY <1>3, <2>1 DEF Emplace, jobVars, JS!Hold, JS!vars
<1>4. ASSUME NEW h \in Handlers, NEW w \in Workers, Dispatch(h, w) PROVE JS!Give(hand[h], w)
  <2>1. PICK j \in Jobs : j = hand[h] /\ ~Posted(j) /\ Submitted(j) /\ posted' = [posted EXCEPT ![j] = <<w>>]
    BY <1>1, <1>4, DispatchFirst
  <2>2. salt[j] \in Salts /\ posted[j] = <<>>
    BY <1>1, <2>1 DEF Submitted, Posted, TypeOK
  <2>3. UNCHANGED <<salt, started_jobs_, answers>>
    BY <1>4 DEF Dispatch
  <2>4. QED
    BY <2>1, <2>2, <2>3 DEF JS!Give
<1>5. ASSUME Complete PROVE JS!Answer(Head(strand).job)
  <2>1. PICK j \in Jobs : j = Head(strand).job
    BY <1>1, <1>5, CompletedJob
  <2>2. posted[j] # <<>> /\ \A i \in Jobs : j \notin ToSet(answers[i])
    BY <1>1, <1>5, <2>1, CompletedJob DEF Posted
  <2>3. /\ started_jobs_[salt[j]] # NoJob
        /\ answers' = [answers EXCEPT ![started_jobs_[salt[j]]] = Append(@, j)]
        /\ UNCHANGED <<salt, started_jobs_, posted>>
    BY <1>5, <2>1 DEF Complete, Found
  <2>4. JS!Answer(j)
    BY <2>2, <2>3 DEF JS!Answer, ToSet, JS!ToSet
  <2>5. QED
    BY <2>1, <2>4
<1>6. \/ \E j \in Jobs : RegisterJob(j) \/ Emplace(j)
      \/ \E h \in Handlers, w \in Workers : Dispatch(h, w)
      \/ Complete
      \/ UNCHANGED JS!vars
  BY StepCases
     DEF TimerHandler, Pop, PopNothing, Arm, PushBack, FindNoInvoker, MakeInvoker, Wake,
         AddWorker, WriteRest, Serve, Misread, Leave, Read, Acknowledge, NullJob, Tear, jobVars,
         JS!vars
<1>7. \A h \in Handlers, w \in Workers : Dispatch(h, w) => hand[h] \in Jobs
  BY <1>1, DispatchFirst
<1>8. Complete => Head(strand).job \in Jobs
  BY <1>1, CompletedJob
<1>9. QED
  BY <1>2, <1>3, <1>4, <1>5, <1>6, <1>7, <1>8 DEF JS!Next

-----------------------------------------------------------------------------
(* What was posted to a worker that runs.                                  *)

\* Where job j, posted to w, may be as long as w runs.
OnWay(j, w) ==
  \/ j \in ToSet(toWorker[w])
  \/ Response(j) \in ToSet(fromWorker[w]) \cup ToSet(strand)
  \/ \E i \in Jobs : j \in ToSet(answers[i])

\* No step takes a job that was posted to a running worker off its way, mixed or not.
LEMMA WayStep ==
  ASSUME TypeOK, LoopInv, OnePlace, EntryInv, ResponseInv, Next, NEW j \in Jobs, NEW w \in up',
         w \in up /\ OnWay(j, w)
  PROVE  OnWay(j, w)'
<1>0. w \in Workers
  BY DEF TypeOK
<1>1. CASE UNCHANGED <<toWorker, fromWorker, strand, answers>>
  BY <1>1 DEF OnWay, Response, Message
<1>2. ASSUME NEW h \in Handlers, NEW v \in Workers, Dispatch(h, v) PROVE OnWay(j, w)'
  <2>1. PICK i \in Jobs : i = hand[h]
    BY <1>2, DispatchFirst
  <2>2. toWorker'[w] = toWorker[w] \/ toWorker'[w] = Append(toWorker[w], i)
    BY <1>0, <1>2, <2>1, SMTT(30) DEF Dispatch, StartPost, TypeOK
  <2>3. ToSet(Append(toWorker[w], i)) = ToSet(toWorker[w]) \cup {i}
    BY <1>0, ToSetAppend, QueueTypes
  <2>4. j \in ToSet(toWorker[w]) => j \in ToSet(toWorker'[w])
    BY <2>2, <2>3
  <2>5. UNCHANGED <<fromWorker, strand, answers>>
    BY <1>2 DEF Dispatch
  <2>6. QED
    BY <2>4, <2>5 DEF OnWay, Response, Message
<1>3. ASSUME NEW v \in Workers, Serve(v) PROVE OnWay(j, w)'
  <2>1. UNCHANGED <<strand, answers>>
    BY <1>3 DEF Serve
  <2>2. CASE v # w
    <3>1. toWorker'[w] = toWorker[w] /\ fromWorker'[w] = fromWorker[w]
      BY <1>0, <1>3, <2>2 DEF Serve, TypeOK
    <3>2. QED
      BY <2>1, <3>1 DEF OnWay, Response, Message
  <2>3. CASE v = w
    <3>1. PICK i \in Jobs : i = Head(toWorker[w]) /\ ToSet(toWorker[w]) = {i} \cup ToSet(Tail(toWorker[w]))
      <4>1. toWorker[w] \in Seq(Jobs) /\ toWorker[w] # <<>>
        BY <1>0, <1>3, <2>3, QueueTypes DEF Serve
      <4>2. QED
        BY <4>1, ToSetTail
    <3>2. PICK a, r : a = Message("ack", i) /\ r = Response(i)
      OBVIOUS
    <3>3. /\ toWorker'[w] = Tail(toWorker[w])
          /\ fromWorker'[w] = fromWorker[w] \o <<a, r>>
      BY <1>0, <1>3, <2>3, <3>1, <3>2 DEF Serve, TypeOK, Response
    <3>4. PICK M : M = Messages /\ a \in M /\ r \in M /\ fromWorker[w] \in Seq(M)
      BY <1>0, <3>2, QueueTypes, ResponseApart DEF Message, Messages, Replies
    <3>5. ToSet(fromWorker[w] \o <<a, r>>) = ToSet(fromWorker[w]) \cup {a, r}
      BY <3>4, ToSetAppendTwo
    <3>6. j \in ToSet(toWorker[w]) => j \in ToSet(toWorker'[w]) \/ Response(j) \in ToSet(fromWorker'[w])
      BY <3>1, <3>2, <3>3, <3>5
    <3>7. Response(j) \in ToSet(fromWorker[w]) => Response(j) \in ToSet(fromWorker'[w])
      BY <3>3, <3>5
    <3>8. QED
      BY <2>1, <3>6, <3>7 DEF OnWay, Response, Message
  <2>4. QED
    BY <2>2, <2>3
<1>4. ASSUME NEW v \in Workers, Leave(v) PROVE OnWay(j, w)'
  <2>1. v # w
    BY <1>4 DEF Leave
  <2>2. UNCHANGED <<strand, answers>> /\ toWorker'[w] = toWorker[w] /\ fromWorker'[w] = fromWorker[w]
    BY <1>0, <1>4, <2>1 DEF Leave, TypeOK
  <2>3. QED
    BY <2>2 DEF OnWay, Response, Message
<1>5. ASSUME NEW v \in Workers, Read(v) PROVE OnWay(j, w)'
  <2>1. UNCHANGED <<toWorker, answers>>
    BY <1>5 DEF Read
  <2>2. PICK M, R : /\ M = Messages /\ fromWorker[v] \in Seq(M) /\ fromWorker[v] # <<>>
                    /\ R = Replies /\ strand \in Seq(R)
    BY <1>5, QueueTypes DEF Read
  <2>3. PICK m \in M : m = Head(fromWorker[v]) /\ ToSet(fromWorker[v]) = {m} \cup ToSet(Tail(fromWorker[v]))
    BY <2>2, ToSetTail
  <2>4. strand' = IF m.kind \in {"ack", "response"} THEN Append(strand, m) ELSE strand
    BY <1>5, <2>3 DEF Read
  <2>5. m.kind \in {"ack", "response"} => m \in R
    BY <2>2, <2>3 DEF Messages, Notices
  <2>6. m \in R => ToSet(Append(strand, m)) = ToSet(strand) \cup {m}
    BY <2>2, ToSetAppend
  <2>7. ToSet(strand) \subseteq ToSet(strand')
    BY <2>4, <2>5, <2>6
  <2>8. m = Response(j) => m \in ToSet(strand')
    BY <2>4, <2>5, <2>6 DEF Response, Message
  <2>9. fromWorker'[w] = IF w = v THEN Tail(fromWorker[v]) ELSE fromWorker[w]
    BY <1>0, <1>5 DEF Read, TypeOK
  <2>10. Response(j) \in ToSet(fromWorker[w]) => Response(j) \in ToSet(fromWorker'[w]) \cup ToSet(strand')
    BY <2>3, <2>8, <2>9
  <2>11. QED
    BY <2>1, <2>7, <2>10 DEF OnWay, Response, Message
<1>6. ASSUME Acknowledge PROVE OnWay(j, w)'
  <2>1. UNCHANGED <<toWorker, fromWorker, answers>> /\ strand' = Tail(strand)
    BY <1>6 DEF Acknowledge, linkVars
  <2>2. PICK R : R = Replies /\ strand \in Seq(R) /\ strand # <<>>
    BY <1>6, QueueTypes DEF Acknowledge
  <2>3. ToSet(strand) = {Head(strand)} \cup ToSet(Tail(strand))
    BY <2>2, ToSetTail
  <2>4. Head(strand).kind = "ack" /\ Response(j).kind = "response"
    BY <1>6 DEF Acknowledge, Response, Message
  <2>5. Response(j) \in ToSet(strand) => Response(j) \in ToSet(strand')
    BY <2>1, <2>3, <2>4
  <2>6. QED
    BY <2>1, <2>5 DEF OnWay, Response, Message
<1>7. ASSUME Complete PROVE OnWay(j, w)'
  <2>1. UNCHANGED <<toWorker, fromWorker>> /\ strand' = Tail(strand)
    BY <1>7 DEF Complete, linkVars
  <2>2. PICK R : R = Replies /\ strand \in Seq(R) /\ strand # <<>>
    BY <1>7, QueueTypes DEF Complete
  <2>3. ToSet(strand) = {Head(strand)} \cup ToSet(Tail(strand))
    BY <2>2, ToSetTail
  <2>4. PICK a \in Jobs : a = Head(strand).job /\ Head(strand) = Response(a)
    BY <1>7, CompletedJob
  <2>5. PICK f \in Jobs : f = Found
    BY <1>7, FoundJob DEF Complete
  <2>6. \A i \in Jobs : answers'[i] = IF i = f THEN Append(answers[f], a) ELSE answers[i]
    BY <1>7, <2>4, <2>5 DEF Complete, TypeOK
  <2>7. ToSet(Append(answers[f], a)) = ToSet(answers[f]) \cup {a}
    BY ToSetAppend, QueueTypes
  <2>8. \A i \in Jobs : ToSet(answers[i]) \subseteq ToSet(answers'[i])
    BY <2>6, <2>7
  <2>9. a \in ToSet(answers'[f])
    BY <2>6, <2>7
  <2>10. Response(j) \in ToSet(strand) => j = a \/ Response(j) \in ToSet(strand')
    BY <2>1, <2>3, <2>4, ResponseApart
  <2>11. QED
    BY <2>1, <2>8, <2>9, <2>10 DEF OnWay, Response, Message
<1>8. \/ \E h \in Handlers, v \in Workers : Dispatch(h, v)
      \/ \E v \in Workers : Serve(v) \/ Leave(v) \/ Read(v)
      \/ Acknowledge \/ Complete
      \/ UNCHANGED <<toWorker, fromWorker, strand, answers>>
  BY StepCases
     DEF RegisterJob, Emplace, TimerHandler, Pop, PopNothing, Arm, PushBack, FindNoInvoker,
         MakeInvoker, Wake, AddWorker, WriteRest, Misread, NullJob, Tear, linkVars
<1>9. QED
  BY <1>1, <1>2, <1>3, <1>4, <1>5, <1>6, <1>7, <1>8

\* A job that is posted to a running worker starts on its way, unless it mixes with
\* another; no worker comes back and no stream is mended.
LEMMA OnItsWayStep ==
  ASSUME IInv, ResponseInv, OnItsWay, Next
  PROVE  OnItsWay'
<1>1. TypeOK /\ LoopInv /\ OnePlace /\ EntryInv
  BY DEF IInv
<1>2. up' \subseteq up /\ garbled \subseteq garbled'
  BY StepCases
     DEF RegisterJob, Emplace, TimerHandler, Pop, PopNothing, Arm, PushBack, FindNoInvoker,
         MakeInvoker, Wake, Dispatch, StartPost, AddWorker, WriteRest, Serve, Misread, Leave, Read,
         Acknowledge, Complete,
         NullJob, Tear, linkVars
<1>3. ASSUME NEW j \in Jobs, NEW w \in (ToSet(posted'[j]) \cap up') \ garbled', w \notin ToSet(posted[j])
      PROVE  OnWay(j, w)'
  <2>1. PICK h \in Handlers, v \in Workers : Dispatch(h, v)
    <3>1. (\E h \in Handlers, v \in Workers : Dispatch(h, v)) \/ UNCHANGED posted
      BY StepCases
         DEF RegisterJob, Emplace, TimerHandler, Pop, PopNothing, Arm, PushBack, FindNoInvoker,
             MakeInvoker, Wake, AddWorker, WriteRest, Serve, Misread, Leave, Read, Acknowledge,
             Complete, NullJob, Tear
    <3>2. QED
      BY <1>3, <3>1
  <2>2. PICK i \in Jobs : i = hand[h] /\ posted' = [posted EXCEPT ![i] = <<v>>]
    BY <1>1, <2>1, DispatchFirst
  <2>3. ToSet(<<v>>) = {v}
    BY DEF ToSet
  <2>4. j = i /\ w = v
    <3>1. posted'[j] = IF j = i THEN <<v>> ELSE posted[j]
      BY <1>1, <2>2 DEF TypeOK
    <3>2. QED
      BY <1>3, <2>3, <3>1
  <2>5. toWorker'[w] = Append(toWorker[w], j)
    BY <1>1, <1>2, <1>3, <2>1, <2>2, <2>4 DEF Dispatch, StartPost, TypeOK
  <2>6. ToSet(Append(toWorker[w], j)) = ToSet(toWorker[w]) \cup {j}
    BY <1>1, <2>1, <2>4, ToSetAppend, QueueTypes
  <2>7. QED
    BY <2>5, <2>6 DEF OnWay
<1>4. ASSUME NEW j \in Jobs, NEW w \in (ToSet(posted'[j]) \cap up') \ garbled', w \in ToSet(posted[j])
      PROVE  OnWay(j, w)'
  <2>1. w \in up /\ OnWay(j, w)
    BY <1>2, <1>4 DEF OnItsWay, OnWay, Response
  <2>2. QED
    BY <1>1, <1>4, <2>1, WayStep
<1>5. \A j \in Jobs : \A w \in (ToSet(posted'[j]) \cap up') \ garbled' : OnWay(j, w)'
  BY <1>3, <1>4
<1>6. QED
  BY <1>5 DEF OnItsWay, OnWay, Response

-----------------------------------------------------------------------------
(* The theorems.                                                           *)

\* The launcher starts without jobs and workers.
LEMMA IInvInit == Init => IInv
<1> SUFFICES ASSUME Init PROVE IInv
  OBVIOUS
<1> USE SortsAssumption DEF Init
<1>1. TypeOK
  <2>1. calls \in [Handlers -> 0..2]
    OBVIOUS
  <2>2. /\ registered_jobs_ \in Seq(Jobs) /\ strand \in Seq(Replies)
        /\ \A S : <<>> \in Seq(S)
    OBVIOUS
  <2>3. /\ toWorker \in [Workers -> Seq(Jobs)] /\ fromWorker \in [Workers -> Seq(Messages)]
        /\ posted \in [Jobs -> Seq(Workers)] /\ answers \in [Jobs -> Seq(Jobs)]
    BY <2>2
  <2>4. /\ pc \in [Handlers -> {"idle", "emplace", "pop", "scan", "arm", "wake", "make", "done"}]
        /\ state_ \in [Jobs -> {"registered", "started", "finished"}]
        /\ timer \in [Jobs -> {"idle", "waiting", "aborted", "handled"}]
    OBVIOUS
  <2>5. QED
    BY <2>1, <2>2, <2>3, <2>4 DEF TypeOK
<1>2. LoopInv
  BY DEF LoopInv, Handlers, Submitted
<1>3. QueueInv
  BY DEF QueueInv
<1>4. OnePlace
  <2>1. ToSet(registered_jobs_) = {}
    BY DEF ToSet
  <2>2. \A h \in Handlers : pc[h] # "scan"
    OBVIOUS
  <2>3. \A j \in Jobs : ~Submitted(j) /\ ~Queued(j) /\ ~Held(j) /\ ~Posted(j) /\ posted[j] = <<>>
    BY <2>1, <2>2 DEF Submitted, Queued, Held, Posted
  <2>4. Len(<<>>) <= 1
    OBVIOUS
  <2>5. QED
    BY <2>2, <2>3, <2>4 DEF OnePlace
<1>5. EntryInv
  <2>1. \A j \in Jobs : ~Submitted(j)
    BY DEF Submitted
  <2>2. ToSet(<<>>) = {}
    BY DEF ToSet
  <2>3. InFlight = {} /\ \A w \in Workers : ToSet(toWorker[w]) = {}
    BY <2>2 DEF InFlight
  <2>4. QED
    BY <2>1, <2>3 DEF EntryInv
<1>6. SaltInv /\ SameSalt
  BY DEF SaltInv, SameSalt, ToSet
<1>7. NoStrandedJob /\ CrashWindow
  BY DEF NoStrandedJob, CrashWindow
<1>8. InvokerInv
  <2>1. Running = {} /\ invokers \cup {h \in Handlers : pc[h] = "make"} = {}
    BY DEF Running
  <2>2. Cardinality({}) = 0 /\ threads >= 0
    BY ThreadsAssumption, FS_EmptySet
  <2>3. QED
    BY <2>1, <2>2 DEF InvokerInv
<1>9. QED
  BY <1>1, <1>2, <1>3, <1>4, <1>5, <1>6, <1>7, <1>8 DEF IInv

\* Every step keeps the inductive invariant.
LEMMA IInvStep == IInv /\ [Next]_vars => IInv'
<1> SUFFICES ASSUME IInv, [Next]_vars PROVE IInv'
  OBVIOUS
<1>1. CASE Next
  <2>1. TypeOK' /\ LoopInv'
    BY <1>1, TypeStep, LoopStep DEF IInv
  <2>2. QueueInv' /\ OnePlace'
    BY <1>1, PlaceStep DEF IInv
  <2>3. EntryInv'
    BY <1>1, EntryStep DEF IInv
  <2>4. SaltInv' /\ SameSalt'
    BY <1>1, SaltStep DEF IInv
  <2>5. NoStrandedJob'
    BY <1>1, StrandedStep DEF IInv
  <2>6. CrashWindow' /\ InvokerInv'
    BY <1>1, CrashStep, InvokerStep DEF IInv
  <2>7. QED
    BY <2>1, <2>2, <2>3, <2>4, <2>5, <2>6 DEF IInv
<1>2. CASE UNCHANGED vars
  <2> USE <1>2 DEF vars, loopVars, jobVars, workerVars, linkVars, launch
  <2>1. TypeOK' /\ LoopInv'
    BY DEF IInv, TypeOK, LoopInv, Submitted
  <2>2. QueueInv' /\ OnePlace'
    BY DEF IInv, QueueInv, OnePlace, Submitted, Queued, Held, Posted
  <2>3. EntryInv'
    BY DEF IInv, EntryInv, InFlight, Submitted
  <2>4. SaltInv' /\ SameSalt'
    BY SaltFrame DEF IInv
  <2>5. NoStrandedJob' /\ CrashWindow' /\ InvokerInv'
    BY DEF IInv, NoStrandedJob, CrashWindow, Torn, FreeThread, InvokerInv, Running
  <2>6. QED
    BY <2>1, <2>2, <2>3, <2>4, <2>5 DEF IInv
<1>3. QED
  BY <1>1, <1>2

\* The inductive invariant of the launcher.
THEOREM Inductive == Spec => []IInv
  BY IInvInit, IInvStep, PTL DEF Spec

\* Every variable of the launcher keeps its type.
THEOREM TypeCorrect == Spec => []TypeOK
<1>1. IInv => TypeOK
  BY DEF IInv
<1>2. QED
  BY <1>1, Inductive, PTL

\* start_jobs, run by any number of handlers at once, loses no job and posts none
\* to two workers.
THEOREM JobSafety == Spec => []OnePlace
<1>1. IInv => OnePlace
  BY DEF IInv
<1>2. QED
  BY <1>1, Inductive, PTL

\* No queued job is left without a handler or a wakeup that will lead to one.
THEOREM NoJobAbandoned == Spec => []NoStrandedJob
<1>1. IInv => NoStrandedJob
  BY DEF IInv
<1>2. QED
  BY <1>1, Inductive, PTL

\* The server goes down only by requests that mixed at a worker, by a reply met between the
\* push and the emplace of start_trigger_post, or by an itrigger_ used while it is assigned;
\* the last two need two threads.
THEOREM CrashOnlyInWindow == Spec => []CrashWindow
<1>1. IInv => CrashWindow
  BY DEF IInv
<1>2. QED
  BY <1>1, Inductive, PTL

\* create_worker makes no more invokers than there are threads.
THEOREM FewInvokersMade == Spec => []FewInvokers
<1>1. IInv => FewInvokers
  <2> SUFFICES ASSUME IInv PROVE FewInvokers
    OBVIOUS
  <2>1. invokers \cup Making \in SUBSET Handlers /\ threads \in Nat
    BY ThreadsAssumption DEF IInv, TypeOK, Making
  <2>2. invokers \in SUBSET Handlers /\ Cardinality(invokers) <= Cardinality(invokers \cup Making)
    BY <2>1, FewHandlers, FS_Subset
  <2>3. Cardinality(invokers \cup Making) <= threads
    BY DEF IInv, InvokerInv, Making
  <2>4. QED
    BY <2>1, <2>2, <2>3, FewHandlers DEF FewInvokers
<1>2. QED
  BY <1>1, Inductive, PTL

\* The response to a job is never made twice, nor in two places.
THEOREM ResponseOnce == Spec => [](IInv /\ ResponseInv)
<1>1. Init => IInv /\ ResponseInv
  BY IInvInit, ResponseInit
<1>2. (IInv /\ ResponseInv) /\ [Next]_vars => (IInv /\ ResponseInv)'
  <2> SUFFICES ASSUME IInv, ResponseInv, [Next]_vars PROVE IInv' /\ ResponseInv'
    OBVIOUS
  <2>1. IInv'
    BY IInvStep
  <2>2. UNCHANGED vars => UNCHANGED <<toWorker, fromWorker, strand, answers, posted>>
    BY DEF vars, linkVars
  <2>3. QED
    BY <2>1, <2>2, ResponseStep, ResponseFrame
<1>3. QED
  BY <1>1, <1>2, PTL DEF Spec

\* The launcher with its queue, its racing handlers, timers and strands is, for its clients,
\* the service that gives each trigger to one worker and answers it once.
THEOREM Service == Spec => ImplementsService
<1>1. Init => JS!Init
  BY DEF Init, JS!Init
<1>2. IInv /\ ResponseInv /\ [Next]_vars => [JS!Next]_(JS!vars)
  <2>1. UNCHANGED vars => UNCHANGED JS!vars
    BY DEF vars, jobVars, JS!vars
  <2>2. QED
    BY <2>1, ServiceStep
<1>3. QED
  BY <1>1, <1>2, ResponseOnce, PTL DEF Spec, ImplementsService, JS!Spec

\* With distinct salts the answer to a job is given once.
AnsweredOnce == Distinct => \A j \in Jobs : Len(answers[j]) <= 1

\* A client gets the response of another client's trigger only under an equal salt, and
\* with distinct salts on_completion_, which resumes the reading of the client's
\* connection, runs once per job.
THEOREM AnswersMatch == Spec => []OwnAnswer
<1>1. IInv /\ ResponseInv => AnsweredOnce
  <2> SUFFICES ASSUME IInv, ResponseInv, Distinct, NEW j \in Jobs PROVE Len(answers[j]) <= 1
    BY DEF AnsweredOnce
  <2>1. \A a \in ToSet(answers[j]) : a = j
    BY AnswerJobs DEF IInv, SaltInv, SameSalt, Distinct
  <2>2. answers[j] \in Seq(Jobs)
    BY DEF IInv, TypeOK
  <2>3. \A n \in 1..Len(answers[j]) : answers[j][n] = j
    BY <2>1, <2>2, ToSetByIndex
  <2>4. Once(answers[j], j)
    BY DEF ResponseInv, OnceEach
  <2>5. Len(answers[j]) \in Nat
    BY <2>2
  <2>6. CASE Len(answers[j]) > 1
    <3>1. 1 \in 1..Len(answers[j]) /\ 2 \in 1..Len(answers[j])
      BY <2>5, <2>6
    <3>2. QED
      BY <2>3, <2>4, <3>1 DEF Once
  <2>7. QED
    BY <2>5, <2>6
<1>2. IInv /\ AnsweredOnce => OwnAnswer
  BY DEF IInv, SameSalt, AnsweredOnce, OwnAnswer
<1>3. QED
  BY <1>1, <1>2, ResponseOnce, PTL

\* A job that was posted to a worker which runs, and whose requests did not mix, is not
\* lost between the worker and the client, however its request is cut in pieces.
THEOREM PostedIsOnItsWay == Spec => []OnItsWay
<1>1. Init => OnItsWay
  BY DEF Init, OnItsWay, ToSet
<1>2. IInv /\ ResponseInv /\ OnItsWay /\ [Next]_vars => OnItsWay'
  <2>1. OnItsWay /\ UNCHANGED vars => OnItsWay'
    BY DEF vars, linkVars, OnItsWay, Message
  <2>2. QED
    BY <2>1, OnItsWayStep
<1>3. QED
  BY <1>1, <1>2, ResponseOnce, PTL DEF Spec

-----------------------------------------------------------------------------
(* A worker's acknowledgement of a job is handled before its response.     *)

\* The acknowledgement of a job by a worker.
Ack(j) == Message("ack", j)

-----------------------------------------------------------------------------
(* The way of an acknowledgement a, ahead of the response r to job j.      *)

\* There is none before the job was posted, nor while its request waits.
NotYet(j, a) ==
  /\ \A w \in Workers : a \in ToSet(fromWorker[w]) => Posted(j)
  /\ a \in ToSet(strand) => Posted(j)
  /\ \A w \in Workers :
       j \in ToSet(toWorker[w]) => /\ a \notin ToSet(strand)
                                   /\ \A v \in Workers : a \notin ToSet(fromWorker[v])

\* Where the response is, the acknowledgement is ahead of it in the same stream or has
\* left that stream.
Ahead(a, r) ==
  /\ Before(strand, a, r)
  /\ r \in ToSet(strand) => \A v \in Workers : a \notin ToSet(fromWorker[v])
  /\ \A w \in Workers :
       /\ Before(fromWorker[w], a, r)
       /\ r \in ToSet(fromWorker[w]) =>
            \A v \in Workers : a \in ToSet(fromWorker[v]) => v = w

\* Once the response is given, no acknowledgement is under way.
Over(j, a) ==
  \A i \in Jobs :
    j \in ToSet(answers[i]) => /\ a \notin ToSet(strand)
                               /\ \A v \in Workers : a \notin ToSet(fromWorker[v])

Sequel(j, a, r) == NotYet(j, a) /\ Ahead(a, r) /\ Over(j, a)

AckInv == \A j \in Jobs : Sequel(j, Ack(j), Response(j))

\* An acknowledgement is unlike those of other jobs, responses and notices.
LEMMA AckApart ==
  /\ \A i, j : Ack(i) = Ack(j) => i = j
  /\ \A i, j : Ack(i) # Response(j)
  /\ \A m \in Notices : \A j : m # Ack(j)
  /\ \A j \in Jobs : Ack(j) \in Replies /\ Ack(j) \in Messages
<1>1. \A i, j : Ack(i) = Ack(j) => i = j
  <2>1. \A i : Ack(i).job = i
    BY DEF Ack, Message
  <2>2. QED
    BY <2>1
<1>2. \A i, j : Ack(i) # Response(j)
  BY ResponseApart DEF Ack
<1>3. \A m \in Notices : \A j : m # Ack(j)
  <2>1. \A m \in Notices : m.kind # "ack"
    BY DEF Notices
  <2>2. \A j : Ack(j).kind = "ack"
    BY DEF Ack, Message
  <2>3. QED
    BY <2>1, <2>2
<1>4. \A j \in Jobs : Ack(j) \in Replies /\ Ack(j) \in Messages
  BY DEF Ack, Message, Replies, Messages
<1>5. QED
  BY <1>1, <1>2, <1>3, <1>4

\* A step that keeps every sequel, job by job.
LEMMA AckEach ==
  ASSUME AckInv,
         ASSUME NEW j \in Jobs, NEW a, NEW r, a = Ack(j), r = Response(j), a # r, Sequel(j, a, r)
         PROVE  Sequel(j, a, r)'
  PROVE  AckInv'
<1> SUFFICES ASSUME NEW j \in Jobs PROVE Sequel(j, Ack(j), Response(j))'
  BY DEF AckInv
<1>1. PICK a, r : a = Ack(j) /\ r = Response(j)
  OBVIOUS
<1>2. Sequel(j, a, r)' 
  BY <1>1, AckApart DEF AckInv
<1>3. a = Ack(j)' /\ r = Response(j)'
  BY <1>1 DEF Ack, Response, Message
<1>4. QED
  BY <1>2, <1>3

\* A step that moves no message.
LEMMA AckFrame ==
  ASSUME AckInv, UNCHANGED <<toWorker, fromWorker, strand, answers, posted>>
  PROVE  AckInv'
<1>1. ASSUME NEW j \in Jobs, NEW a, NEW r, a = Ack(j), r = Response(j), a # r, Sequel(j, a, r)
      PROVE  Sequel(j, a, r)'
  BY <1>1 DEF Sequel, NotYet, Ahead, Over, Posted
<1>2. QED
  BY <1>1, AckEach

\* A job that is dispatched was never acknowledged.
LEMMA AckDispatch ==
  ASSUME TypeOK, LoopInv, OnePlace, AckInv, NEW h \in Handlers, NEW w \in Workers, Dispatch(h, w)
  PROVE  AckInv'
<1>1. PICK d \in Jobs : d = hand[h] /\ ~Posted(d) /\ posted' = [posted EXCEPT ![d] = <<w>>]
  BY DispatchFirst
<1>2. UNCHANGED <<fromWorker, strand, answers>>
  BY DEF Dispatch
<1>3. \A v \in Workers :
        \/ toWorker'[v] = toWorker[v]
        \/ v = w /\ toWorker'[v] = Append(toWorker[v], d)
  BY <1>1, SMTT(30) DEF Dispatch, StartPost, TypeOK
<1>4. \A v \in Workers : ToSet(Append(toWorker[v], d)) = ToSet(toWorker[v]) \cup {d}
  BY <1>1, ToSetAppend, QueueTypes
<1>5. \A i \in Jobs : Posted(i) => Posted(i)'
  <2>1. \A i \in Jobs : posted'[i] = IF i = d THEN <<w>> ELSE posted[i]
    BY <1>1 DEF TypeOK
  <2>2. QED
    BY <2>1 DEF Posted
<1>6. ASSUME NEW j \in Jobs, NEW a, NEW r, a = Ack(j), r = Response(j), a # r, Sequel(j, a, r)
      PROVE  Sequel(j, a, r)'
  <2>1. NotYet(j, a) /\ Ahead(a, r) /\ Over(j, a)
    BY <1>6 DEF Sequel
  <2>2. j = d => a \notin ToSet(strand) /\ \A v \in Workers : a \notin ToSet(fromWorker[v])
    BY <1>1, <2>1 DEF NotYet
  <2>3. ASSUME NEW v \in Workers, j \in ToSet(toWorker'[v]), j # d PROVE j \in ToSet(toWorker[v])
    <3>1. CASE toWorker'[v] = toWorker[v]
      BY <2>3, <3>1
    <3>2. CASE toWorker'[v] = Append(toWorker[v], d)
      BY <1>4, <2>3, <3>2
    <3>3. QED
      BY <1>3, <3>1, <3>2
  <2>4. NotYet(j, a)'
    BY <1>2, <1>5, <2>1, <2>2, <2>3 DEF NotYet
  <2>5. Ahead(a, r)' /\ Over(j, a)'
    BY <1>2, <2>1 DEF Ahead, Over
  <2>6. QED
    BY <2>4, <2>5 DEF Sequel
<1>7. QED
  BY <1>6, AckEach

\* A worker acknowledges the request it serves, and then responds.
LEMMA AckServe ==
  ASSUME TypeOK, ResponseInv, AckInv, NEW w \in Workers, Serve(w)
  PROVE  AckInv'
<1>1. PICK d \in Jobs : d = Head(toWorker[w]) /\ d \in ToSet(toWorker[w])
  <2>1. toWorker[w] \in Seq(Jobs) /\ toWorker[w] # <<>>
    BY QueueTypes DEF Serve
  <2>2. QED
    BY <2>1, ToSetTail
<1>2. PICK c, e : c = Ack(d) /\ e = Response(d)
  OBVIOUS
<1>3. UNCHANGED <<strand, answers, posted>>
  BY DEF Serve
<1>4. \A v \in Workers :
        /\ toWorker'[v] = IF v = w THEN Tail(toWorker[w]) ELSE toWorker[v]
        /\ fromWorker'[v] = IF v = w THEN fromWorker[w] \o <<c, e>> ELSE fromWorker[v]
  BY <1>1, <1>2 DEF Serve, TypeOK, Response, Ack
<1>5. PICK M : M = Messages /\ c \in M /\ e \in M /\ fromWorker[w] \in Seq(M)
  BY <1>2, QueueTypes, ResponseApart, AckApart
<1>6. ToSet(fromWorker[w] \o <<c, e>>) = ToSet(fromWorker[w]) \cup {c, e}
  BY <1>5, ToSetAppendTwo
<1>7. ToSet(Tail(toWorker[w])) \subseteq ToSet(toWorker[w])
  BY QueueTypes, ToSetTail DEF Serve
<1>8. OneWay(d) /\ OnceEach(d)
  BY DEF ResponseInv
<1>9. PICK p \in Where(d) : p = <<"asked", w>>
  BY <1>1, WhereIs
<1>10. /\ \A v \in Workers : d \in ToSet(toWorker[v]) => v = w
       /\ \A v \in Workers : e \notin ToSet(fromWorker[v])
       /\ e \notin ToSet(strand)
       /\ \A i \in Jobs : d \notin ToSet(answers[i])
       /\ Posted(d)
  BY <1>2, <1>8, <1>9, WhereOne DEF OneWay
<1>11. \A v \in Workers : d \notin ToSet(toWorker'[v])
  <2>1. d \notin ToSet(Tail(toWorker[w]))
    BY <1>1, <1>8, OnceTail, QueueTypes DEF OnceEach, Serve
  <2>2. QED
    BY <1>4, <1>10, <2>1
<1>12. ASSUME NEW j \in Jobs, NEW a, NEW r, a = Ack(j), r = Response(j), a # r, Sequel(j, a, r)
       PROVE  Sequel(j, a, r)'
  <2>1. NotYet(j, a) /\ Ahead(a, r) /\ Over(j, a)
    BY <1>12 DEF Sequel
  <2>2. e # a /\ c # r
    BY <1>2, <1>12, AckApart
  <2>3. CASE j = d
    <3>1. a = c /\ r = e
      BY <1>2, <1>12, <2>3
    <3>2. a \notin ToSet(strand) /\ \A v \in Workers : a \notin ToSet(fromWorker[v])
      BY <1>1, <2>1, <2>3 DEF NotYet
    <3>3. \A v \in Workers : v # w => a \notin ToSet(fromWorker'[v])
      BY <1>4, <3>2
    <3>4. NotYet(j, a)'
      BY <1>3, <1>10, <1>11, <2>3 DEF NotYet, Posted
    <3>5. Before(fromWorker[w] \o <<c, e>>, a, r)
      BY <1>5, <1>10, <1>12, <2>1, <2>2, <3>1, BeforeAppendTwo DEF Ahead
    <3>6. \A v \in Workers : Before(fromWorker'[v], a, r)
      BY <1>4, <2>1, <3>5 DEF Ahead
    <3>7. \A v \in Workers : r \in ToSet(fromWorker'[v]) => v = w
      BY <1>4, <1>10, <3>1
    <3>8. Ahead(a, r)'
      BY <1>3, <1>10, <2>1, <3>1, <3>3, <3>6, <3>7 DEF Ahead
    <3>9. Over(j, a)'
      BY <1>3, <1>10, <2>3 DEF Over
    <3>10. QED
      BY <3>4, <3>8, <3>9 DEF Sequel
  <2>4. CASE j # d
    <3>1. a # c /\ r # e
      BY <1>2, <1>12, <2>4, AckApart, ResponseApart
    <3>2. \A v \in Workers :
            /\ j \in ToSet(toWorker'[v]) => j \in ToSet(toWorker[v])
            /\ a \in ToSet(fromWorker'[v]) <=> a \in ToSet(fromWorker[v])
            /\ r \in ToSet(fromWorker'[v]) <=> r \in ToSet(fromWorker[v])
      BY <1>4, <1>6, <1>7, <2>2, <3>1
    <3>3. Before(fromWorker[w] \o <<c, e>>, a, r)
      BY <1>5, <1>12, <2>1, <2>2, <3>1, BeforeAppendTwo DEF Ahead
    <3>4. \A v \in Workers : Before(fromWorker'[v], a, r)
      BY <1>4, <2>1, <3>3 DEF Ahead
    <3>5. NotYet(j, a)'
      BY <1>3, <2>1, <3>2 DEF NotYet, Posted
    <3>6. Ahead(a, r)'
      BY <1>3, <2>1, <3>2, <3>4 DEF Ahead
    <3>7. Over(j, a)'
      BY <1>3, <2>1, <3>2 DEF Over
    <3>8. QED
      BY <3>5, <3>6, <3>7 DEF Sequel
  <2>5. QED
    BY <2>3, <2>4
<1>13. QED
  BY <1>12, AckEach

\* What arrives of a worker that leaves is in the order it was sent in.
LEMMA TailsBefore ==
  ASSUME TypeOK, NEW w \in Workers, NEW tail \in Tails(w), NEW a, NEW r, a # r,
         a \notin Notices, Before(fromWorker[w], a, r)
  PROVE  Before(tail, a, r)
<1>1. /\ Message("eof", NoJob) \in Notices /\ Message("cut", NoJob) \in Notices
      /\ Message("dereg", NoJob) \in Notices
  BY DEF Message, Notices
<1>2. PICK M, s, eof, cut, dereg :
        /\ M = Messages /\ s = fromWorker[w] /\ eof = Message("eof", NoJob)
        /\ cut = Message("cut", NoJob) /\ dereg = Message("dereg", NoJob)
  OBVIOUS
<1>3. s \in Seq(M) /\ eof \in M /\ cut \in M /\ dereg \in M /\ Before(s, a, r)
  BY <1>1, <1>2 DEF TypeOK, Messages
<1>4. eof # a /\ cut # a /\ dereg # a
  BY <1>1, <1>2
<1>5. ASSUME NEW n \in 0..Len(s), NEW e \in M, e # a
      PROVE  Before(Append(SubSeq(s, 1, n), e), a, r)
  <2>1. SubSeq(s, 1, n) \in Seq(M)
    BY <1>3, ToSetPrefix
  <2>2. Before(SubSeq(s, 1, n), a, r)
    BY <1>3, BeforePrefix
  <2>3. QED
    BY <1>5, <2>1, <2>2, BeforeAppend
<1>6. CASE \E n \in 0..Len(s) : tail = Append(SubSeq(s, 1, n), eof)
  BY <1>2, <1>3, <1>4, <1>5, <1>6
<1>7. CASE \E n \in 1..Len(s) : tail = Append(SubSeq(s, 1, n - 1), cut)
  <2>1. PICK n \in 1..Len(s) : tail = Append(SubSeq(s, 1, n - 1), cut)
    BY <1>7
  <2>2. PICK l \in 0..Len(s) : l = n - 1
    BY <1>3
  <2>3. Before(Append(SubSeq(s, 1, l), cut), a, r)
    BY <1>3, <1>4, <1>5
  <2>4. QED
    BY <1>2, <2>1, <2>2, <2>3
<1>8. CASE tail = s \o <<dereg, eof>>
  BY <1>2, <1>3, <1>4, <1>8, BeforeAppendTwo
<1>9. QED
  BY <1>2, <1>6, <1>7, <1>8 DEF Tails

\* Leaving acknowledges nothing.
LEMMA AckLeave ==
  ASSUME TypeOK, AckInv, NEW w \in Workers, Leave(w)
  PROVE  AckInv'
<1>1. PICK tail \in Tails(w) : fromWorker' = [fromWorker EXCEPT ![w] = tail]
  BY DEF Leave
<1>2. \A v \in Workers :
        /\ toWorker'[v] = IF v = w THEN <<>> ELSE toWorker[v]
        /\ fromWorker'[v] = IF v = w THEN tail ELSE fromWorker[v]
  BY <1>1 DEF Leave, TypeOK
<1>3. UNCHANGED <<strand, answers, posted>>
  BY DEF Leave
<1>4. ToSet(<<>>) = {}
  BY DEF ToSet
<1>5. ASSUME NEW j \in Jobs, NEW a, NEW r, a = Ack(j), r = Response(j), a # r, Sequel(j, a, r)
      PROVE  Sequel(j, a, r)'
  <2>1. NotYet(j, a) /\ Ahead(a, r) /\ Over(j, a)
    BY <1>5 DEF Sequel
  <2>2. a \notin Notices /\ r \notin Notices
    BY <1>5, AckApart, ResponseApart
  <2>3. \A m \in {a, r} : m \in ToSet(tail) => m \in ToSet(fromWorker[w])
    BY <2>2, TailsElements
  <2>4. Before(tail, a, r)
    BY <1>5, <2>1, <2>2, TailsBefore DEF Ahead
  <2>5. \A v \in Workers :
          /\ j \in ToSet(toWorker'[v]) => j \in ToSet(toWorker[v])
          /\ a \in ToSet(fromWorker'[v]) => a \in ToSet(fromWorker[v])
          /\ r \in ToSet(fromWorker'[v]) => r \in ToSet(fromWorker[v])
    BY <1>2, <1>4, <2>3
  <2>6. \A v \in Workers : Before(fromWorker'[v], a, r)
    BY <1>2, <2>1, <2>4 DEF Ahead
  <2>7. NotYet(j, a)'
    BY <1>3, <2>1, <2>5 DEF NotYet, Posted
  <2>8. Ahead(a, r)'
    BY <1>3, <2>1, <2>5, <2>6 DEF Ahead
  <2>9. Over(j, a)'
    BY <1>3, <2>1, <2>5 DEF Over
  <2>10. QED
    BY <2>7, <2>8, <2>9 DEF Sequel
<1>6. QED
  BY <1>5, AckEach

\* Replies go to the strand in the order they are read in.
LEMMA AckRead ==
  ASSUME TypeOK, AckInv, NEW w \in Workers, Read(w)
  PROVE  AckInv'
<1>1. PICK M : M = Messages /\ fromWorker[w] \in Seq(M) /\ fromWorker[w] # <<>>
  BY QueueTypes DEF Read
<1>2. PICK m \in M : /\ m = Head(fromWorker[w])
                     /\ ToSet(fromWorker[w]) = {m} \cup ToSet(Tail(fromWorker[w]))
  BY <1>1, ToSetTail
<1>3. PICK R : R = Replies /\ strand \in Seq(R)
  BY QueueTypes
<1>4. m.kind \in {"ack", "response"} => m \in R
  BY <1>1, <1>2, <1>3 DEF Messages, Notices
<1>5. strand' = IF m.kind \in {"ack", "response"} THEN Append(strand, m) ELSE strand
  BY <1>2 DEF Read
<1>6. \A v \in Workers :
        fromWorker'[v] = IF v = w THEN Tail(fromWorker[w]) ELSE fromWorker[v]
  BY DEF Read, TypeOK
<1>7. UNCHANGED <<toWorker, answers, posted>>
  BY DEF Read
<1>8. m \in R => ToSet(Append(strand, m)) = ToSet(strand) \cup {m}
  BY <1>3, ToSetAppend
<1>9. ToSet(strand') \subseteq ToSet(strand) \cup {m}
  BY <1>4, <1>5, <1>8
<1>10. \A v \in Workers : ToSet(fromWorker'[v]) \subseteq ToSet(fromWorker[v])
  BY <1>2, <1>6
<1>11. ASSUME NEW j \in Jobs, NEW a, NEW r, a = Ack(j), r = Response(j), a # r, Sequel(j, a, r)
       PROVE  Sequel(j, a, r)'
  <2>1. NotYet(j, a) /\ Ahead(a, r) /\ Over(j, a)
    BY <1>11 DEF Sequel
  <2>2. /\ Before(Tail(fromWorker[w]), a, r)
        /\ m = r => a \notin ToSet(Tail(fromWorker[w]))
    BY <1>1, <1>2, <2>1, BeforeTail DEF Ahead
  <2>3. m = a => r \notin ToSet(strand)
    BY <1>2, <2>1 DEF Ahead
  <2>4. Before(strand', a, r)
    <3>1. Before(strand, a, r)
      BY <2>1 DEF Ahead
    <3>2. m \in R => Before(Append(strand, m), a, r)
      BY <1>3, <1>11, <2>3, <3>1, BeforeAppend
    <3>3. QED
      BY <1>4, <1>5, <3>1, <3>2
  <2>5. ASSUME r \in ToSet(strand'), NEW v \in Workers, a \in ToSet(fromWorker'[v]) PROVE FALSE
    <3>1. a \in ToSet(fromWorker[v]) /\ r \notin ToSet(strand) /\ m = r
      BY <1>9, <1>10, <2>1, <2>5 DEF Ahead
    <3>2. v = w
      BY <1>2, <2>1, <3>1 DEF Ahead
    <3>3. a \in ToSet(Tail(fromWorker[w]))
      BY <1>6, <2>5, <3>2
    <3>4. QED
      BY <2>2, <3>1, <3>3
  <2>6. \A v \in Workers : Before(fromWorker'[v], a, r)
    BY <1>6, <2>1, <2>2 DEF Ahead
  <2>7. Ahead(a, r)'
    BY <1>10, <2>1, <2>4, <2>5, <2>6 DEF Ahead
  <2>8. a \in ToSet(strand') => a \in ToSet(strand) \/ a \in ToSet(fromWorker[w])
    BY <1>2, <1>9
  <2>9. NotYet(j, a)'
    BY <1>7, <1>10, <2>1, <2>8 DEF NotYet, Posted
  <2>10. Over(j, a)'
    BY <1>7, <1>10, <2>1, <2>8 DEF Over
  <2>11. QED
    BY <2>7, <2>9, <2>10 DEF Sequel
<1>12. QED
  BY <1>11, AckEach

\* The strand runs the acknowledgement of a job before its response.
LEMMA AckStrand ==
  ASSUME TypeOK, EntryInv, ResponseInv, AckInv, Acknowledge \/ Complete
  PROVE  AckInv'
<1>1. /\ UNCHANGED <<toWorker, fromWorker, posted>>
      /\ strand # <<>> /\ strand' = Tail(strand)
  BY DEF Acknowledge, Complete, linkVars
<1>2. PICK R : R = Replies /\ strand \in Seq(R)
  BY QueueTypes
<1>3. Head(strand) \in ToSet(strand) /\ ToSet(strand') \subseteq ToSet(strand)
  <2>1. ToSet(strand) = {Head(strand)} \cup ToSet(Tail(strand))
    BY <1>1, <1>2, ToSetTail
  <2>2. QED
    BY <1>1, <2>1
<1>4. ASSUME NEW j \in Jobs, NEW i \in Jobs, j \in ToSet(answers'[i]), j \notin ToSet(answers[i])
      PROVE  Head(strand) = Response(j)
  <2>1. Complete
    BY <1>4 DEF Acknowledge
  <2>2. PICK b \in Jobs : b = Head(strand).job /\ Head(strand) = Response(b)
    BY <2>1, CompletedJob
  <2>3. PICK f \in Jobs : f = Found
    BY <2>1, FoundJob DEF Complete
  <2>4. answers'[i] = answers[i] \/ answers'[i] = Append(answers[i], b)
    BY <2>1, <2>2, <2>3 DEF Complete, TypeOK
  <2>5. ToSet(Append(answers[i], b)) = ToSet(answers[i]) \cup {b}
    BY ToSetAppend, QueueTypes
  <2>6. j = b
    BY <1>4, <2>4, <2>5
  <2>7. QED
    BY <2>2, <2>6
<1>5. ASSUME NEW j \in Jobs, NEW a, NEW r, a = Ack(j), r = Response(j), a # r, Sequel(j, a, r)
      PROVE  Sequel(j, a, r)'
  <2>1. NotYet(j, a) /\ Ahead(a, r) /\ Over(j, a)
    BY <1>5 DEF Sequel
  <2>2. Before(strand', a, r) /\ (Head(strand) = r => a \notin ToSet(strand'))
    BY <1>1, <1>2, <2>1, BeforeTail DEF Ahead
  <2>3. NotYet(j, a)'
    BY <1>1, <1>3, <2>1 DEF NotYet, Posted
  <2>4. Ahead(a, r)'
    BY <1>1, <1>3, <2>1, <2>2 DEF Ahead
  <2>5. ASSUME NEW i \in Jobs, j \in ToSet(answers'[i])
        PROVE  a \notin ToSet(strand') /\ \A v \in Workers : a \notin ToSet(fromWorker'[v])
    <3>1. CASE j \in ToSet(answers[i])
      BY <1>1, <1>3, <2>1, <3>1 DEF Over
    <3>2. CASE j \notin ToSet(answers[i])
      <4>1. Head(strand) = r
        BY <1>4, <1>5, <2>5, <3>2
      <4>2. QED
        BY <1>1, <1>3, <2>1, <2>2, <4>1 DEF Ahead
    <3>3. QED
      BY <3>1, <3>2
  <2>6. Over(j, a)'
    BY <2>5 DEF Over
  <2>7. QED
    BY <2>3, <2>4, <2>6 DEF Sequel
<1>6. QED
  BY <1>5, AckEach

\* No step sends, reads or handles a response before its acknowledgement.
LEMMA AckStep ==
  ASSUME IInv, ResponseInv, AckInv, Next
  PROVE  AckInv'
<1>1. TypeOK /\ LoopInv /\ OnePlace /\ EntryInv
  BY DEF IInv
<1>2. UNCHANGED <<toWorker, fromWorker, strand, answers, posted>> => AckInv'
  BY AckFrame
<1>3. \/ \E h \in Handlers, w \in Workers : Dispatch(h, w)
      \/ \E w \in Workers : Serve(w) \/ Leave(w) \/ Read(w)
      \/ Acknowledge \/ Complete
      \/ UNCHANGED <<toWorker, fromWorker, strand, answers, posted>>
  BY StepCases
     DEF RegisterJob, Emplace, TimerHandler, Pop, PopNothing, Arm, PushBack, FindNoInvoker,
         MakeInvoker, Wake, AddWorker, WriteRest, Misread, NullJob, Tear, linkVars
<1>4. QED
  BY <1>1, <1>2, <1>3, AckDispatch, AckServe, AckLeave, AckRead, AckStrand

\* At first nothing is under way.
LEMMA AckInit ==
  ASSUME Init
  PROVE  AckInv
<1>1. ToSet(<<>>) = {}
  BY DEF ToSet
<1>2. \A a, r : Before(<<>>, a, r)
  BY DEF Before
<1> SUFFICES ASSUME NEW j \in Jobs PROVE Sequel(j, Ack(j), Response(j))
  BY DEF AckInv
<1>3. NotYet(j, Ack(j)) /\ Over(j, Ack(j))
  BY <1>1 DEF NotYet, Over, Init
<1>4. Ahead(Ack(j), Response(j))
  BY <1>1, <1>2 DEF Ahead, Init
<1>5. QED
  BY <1>3, <1>4 DEF Sequel

-----------------------------------------------------------------------------
(* The state of a job.                                                     *)

\* A job is finished by an answer.
FinishedInv == \A j \in Jobs : state_[j] = "finished" => answers[j] # <<>>

\* Steps that leave states and answers alone.
LEMMA StateFrame ==
  ASSUME Next
  PROVE  Acknowledge \/ Complete \/ UNCHANGED <<state_, answers>>
  BY StepCases
     DEF RegisterJob, Emplace, TimerHandler, Pop, PopNothing, Arm, PushBack, FindNoInvoker,
         MakeInvoker, Wake, Dispatch, AddWorker, WriteRest, Serve, Misread, Leave, Read, NullJob,
         Tear, jobVars

\* Only the response makes a job finished, and nothing takes an answer back.
LEMMA FinishedStep ==
  ASSUME IInv, ResponseInv, FinishedInv, Next
  PROVE  FinishedInv'
<1>1. TypeOK /\ EntryInv
  BY DEF IInv
<1>2. CASE UNCHANGED <<state_, answers>>
  BY <1>2 DEF FinishedInv
<1>3. CASE Acknowledge
  <2>1. PICK f \in Jobs : f = Found
    BY <1>1, <1>3, FoundJob DEF Acknowledge
  <2>2. \A j \in Jobs : state_'[j] = IF j = f THEN "started" ELSE state_[j]
    BY <1>1, <1>3, <2>1 DEF Acknowledge, TypeOK
  <2>3. answers' = answers
    BY <1>3 DEF Acknowledge
  <2>4. QED
    BY <2>2, <2>3 DEF FinishedInv
<1>4. CASE Complete
  <2>1. PICK f \in Jobs : f = Found
    BY <1>1, <1>4, FoundJob DEF Complete
  <2>2. PICK b \in Jobs : b = Head(strand).job
    BY <1>1, <1>4, CompletedJob
  <2>3. \A j \in Jobs : j # f => state_'[j] = state_[j] /\ answers'[j] = answers[j]
    BY <1>1, <1>4, <2>1 DEF Complete, TypeOK
  <2>4. answers'[f] = Append(answers[f], b)
    BY <1>1, <1>4, <2>1, <2>2 DEF Complete, TypeOK
  <2>5. answers'[f] # <<>>
    BY <1>1, <2>4, AppendNotEmpty, QueueTypes
  <2>6. ASSUME NEW j \in Jobs, state_'[j] = "finished" PROVE answers'[j] # <<>>
    BY <2>3, <2>5, <2>6 DEF FinishedInv
  <2>7. QED
    BY <2>6 DEF FinishedInv
<1>5. QED
  BY <1>2, <1>3, <1>4, StateFrame

\* With distinct salts an acknowledgement is not for a finished job.
LEMMA AcknowledgedOpen ==
  ASSUME IInv, ResponseInv, AckInv, FinishedInv, Distinct, Acknowledge
  PROVE  Found \in Jobs /\ state_[Found] # "finished"
<1>1. TypeOK /\ EntryInv /\ SaltInv /\ SameSalt
  BY DEF IInv
<1>2. PICK m \in Replies : m = Head(strand) /\ m \in ToSet(strand) /\ m.job \in Jobs /\ Submitted(m.job)
  BY <1>1, StrandSubmitted DEF Acknowledge
<1>3. PICK j \in Jobs : j = m.job /\ m = Ack(j) /\ Submitted(j)
  BY <1>2 DEF Acknowledge, Replies, Ack, Message
<1>4. PICK f \in Jobs : f = Found
  BY <1>1, FoundJob DEF Acknowledge
<1>5. salt[f] = salt[j]
  <2>1. salt[j] \in Salts
    BY <1>1, <1>2, <1>3, FoundJob DEF Acknowledge
  <2>2. f = started_jobs_[salt[j]]
    BY <1>2, <1>3, <1>4 DEF Found
  <2>3. started_jobs_[salt[j]] # NoJob
    BY <1>2, <1>3, <1>4 DEF Acknowledge, Found
  <2>4. QED
    BY <1>1, <2>1, <2>2, <2>3 DEF SaltInv
<1>6. ASSUME state_[f] = "finished" PROVE FALSE
  <2>1. answers[f] # <<>> /\ answers[f] \in Seq(Jobs)
    BY <1>1, <1>6, QueueTypes DEF FinishedInv
  <2>2. PICK b \in ToSet(answers[f]) : TRUE
    <3>1. Head(answers[f]) \in ToSet(answers[f])
      BY <2>1, ToSetTail
    <3>2. QED
      BY <3>1
  <2>3. b \in Jobs
    BY <1>1, <2>2, AnswerJobs
  <2>4. salt[b] = salt[f]
    BY <1>1, <2>2 DEF SameSalt
  <2>5. b = j
    BY <1>3, <1>5, <2>3, <2>4 DEF Distinct
  <2>6. Ack(j) \notin ToSet(strand)
    BY <2>2, <2>5 DEF AckInv, Sequel, Over
  <2>7. QED
    BY <1>2, <1>3, <2>6
<1>7. QED
  BY <1>4, <1>6

\* No step takes a job's state back.
LEMMA ForwardStep ==
  ASSUME IInv, ResponseInv, AckInv, FinishedInv, Distinct, Next, NEW j \in Jobs
  PROVE  Phase(state_[j]) <= Phase(state_'[j])
<1>1. TypeOK /\ EntryInv /\ state_[j] \in {"registered", "started", "finished"}
  BY DEF IInv, TypeOK
<1>2. Phase("registered") = 0 /\ Phase("started") = 1 /\ Phase("finished") = 2
  BY DEF Phase
<1>3. CASE UNCHANGED <<state_, answers>>
  BY <1>1, <1>2, <1>3
<1>4. CASE Acknowledge
  <2>1. Found \in Jobs /\ state_[Found] # "finished"
    BY <1>4, AcknowledgedOpen
  <2>2. state_'[j] = IF j = Found THEN "started" ELSE state_[j]
    BY <1>1, <1>4 DEF Acknowledge, TypeOK
  <2>3. CASE j = Found
    <3>1. state_'[j] = "started" /\ state_[j] \in {"registered", "started"}
      BY <1>1, <2>1, <2>2, <2>3
    <3>2. QED
      BY <1>2, <3>1
  <2>4. CASE j # Found
    BY <1>1, <1>2, <2>2, <2>4
  <2>5. QED
    BY <2>3, <2>4
<1>5. CASE Complete
  <2>1. state_'[j] = "finished" \/ state_'[j] = state_[j]
    BY <1>1, <1>5 DEF Complete, TypeOK
  <2>2. QED
    BY <1>1, <1>2, <2>1
<1>6. QED
  BY <1>3, <1>4, <1>5, StateFrame

-----------------------------------------------------------------------------
(* The theorems.                                                           *)

\* In every stream and on the strand the acknowledgement of a job is ahead of its response.
THEOREM AckFirst == Spec => [](IInv /\ ResponseInv /\ AckInv /\ FinishedInv)
<1>1. Init => AckInv /\ FinishedInv
  BY AckInit DEF Init, FinishedInv
<1>2. (IInv /\ ResponseInv) /\ (AckInv /\ FinishedInv) /\ [Next]_vars => (AckInv /\ FinishedInv)'
  <2>1. AckInv /\ FinishedInv /\ UNCHANGED vars => AckInv' /\ FinishedInv'
    BY AckFrame DEF vars, linkVars, jobVars, FinishedInv
  <2>2. QED
    BY <2>1, AckStep, FinishedStep
<1>3. QED
  BY <1>1, <1>2, ResponseOnce, PTL DEF Spec

\* With distinct headers the state_ of a job goes from registered to started to finished
\* and never back, whichever threads and workers run.
THEOREM StateAdvances == Spec => ForwardOnly
<1>1. (IInv /\ ResponseInv /\ AckInv /\ FinishedInv) /\ [Next]_vars
        => [Distinct => \A j \in Jobs : Phase(state_[j]) <= Phase(state_'[j])]_vars
  BY ForwardStep
<1>2. QED
  BY <1>1, AckFirst, PTL DEF Spec, ForwardOnly

-----------------------------------------------------------------------------
(* The launcher stops only when everybody has been answered.               *)

\* Nothing is left to be done: no handler, no completed wait, no write to be continued, no
\* request at a worker that runs and can read it, no reply unread or on the strand, and no
\* worker that a wakeup brings (no guard of System holds).
Idle ==
  /\ Running = {} /\ strand = <<>> /\ partly = {}
  /\ \A j \in Jobs : timer[j] \notin {"waiting", "aborted"}
  /\ \A w \in Workers : fromWorker[w] = <<>> /\ (w \in up \ garbled => toWorker[w] = <<>>)
  /\ wakeups > 0 => \A w \in OnDemand \cap up : pc[w] # "idle"

\* With distinct salts a launcher that has nothing left to do has answered every job once,
\* with the response to it - but for those whose worker left or died or was sent requests
\* that mixed, which nothing retries, and those that wait for more workers than a wakeup
\* brought (see EveryJobAnswered).
THEOREM IdleAnswered ==
  Spec => [](Idle /\ Distinct => \A j \in Jobs : Submitted(j) =>
                \/ answers[j] = <<j>>
                \/ \E w \in ToSet(posted[j]) : w \notin up \ garbled
                \/ Queued(j) /\ wakeups > 0)
<1>1. IInv /\ ResponseInv /\ OnItsWay /\ OwnAnswer =>
        (Idle /\ Distinct => \A j \in Jobs : Submitted(j) =>
            \/ answers[j] = <<j>>
            \/ \E w \in ToSet(posted[j]) : w \notin up \ garbled
            \/ Queued(j) /\ wakeups > 0)
  <2> SUFFICES ASSUME IInv, OnItsWay, OwnAnswer, Idle, Distinct, NEW j \in Jobs, Submitted(j),
                      \A w \in ToSet(posted[j]) : w \in up \ garbled, ~(Queued(j) /\ wakeups > 0)
               PROVE  answers[j] = <<j>>
    OBVIOUS
  <2>0. TypeOK /\ OnePlace /\ NoStrandedJob
    BY DEF IInv
  <2>1. ~Held(j)
    <3>1. \A h \in Handlers : pc[h] \in {"idle", "done"}
      BY DEF Idle, Running
    <3>2. QED
      BY <3>1 DEF Held
  <2>2. ~Queued(j)
    <3>1. ASSUME Queued(j) PROVE registered_jobs_ # <<>>
      BY <3>1 DEF Queued, ToSet
    <3>2. Queued(j) => wakeups > 0
      BY <2>0, <3>1 DEF NoStrandedJob, Idle
    <3>3. QED
      BY <3>2
  <2>3. posted[j] # <<>> /\ posted[j] \in Seq(Workers)
    BY <2>0, <2>1, <2>2 DEF OnePlace, Posted, TypeOK
  <2>4. PICK w \in ToSet(posted[j]) : w \in (Workers \cap up) \ garbled
    <3>1. 1 \in 1..Len(posted[j]) /\ posted[j][1] \in Workers
      BY <2>3
    <3>2. posted[j][1] \in ToSet(posted[j])
      BY <2>3, <3>1, ToSetByIndex
    <3>3. QED
      BY <3>1, <3>2
  <2>5. ToSet(toWorker[w]) = {} /\ ToSet(fromWorker[w]) = {} /\ ToSet(strand) = {}
    <3>1. ToSet(<<>>) = {}
      BY DEF ToSet
    <3>2. QED
      BY <2>4, <3>1 DEF Idle
  <2>6. PICK i \in Jobs : j \in ToSet(answers[i])
    BY <2>4, <2>5 DEF OnItsWay
  <2>7. i = j
    BY <2>0, <2>6 DEF OwnAnswer, Distinct
  <2>8. answers[j] \in Seq(Jobs) /\ Len(answers[j]) \in Nat /\ Len(answers[j]) <= 1
    <3>1. answers[j] \in Seq(Jobs)
      BY <2>0 DEF TypeOK
    <3>2. QED
      BY <3>1 DEF OwnAnswer
  <2>9. PICK k \in 1..Len(answers[j]) : answers[j][k] = j
    BY <2>6, <2>7, <2>8, ToSetByIndex
  <2>10. Len(answers[j]) = 1 /\ answers[j][1] = j
    <3>1. PICK n \in Nat : n = Len(answers[j])
      BY <2>8
    <3>2. k \in 1..n /\ n <= 1
      BY <2>8, <2>9, <3>1
    <3>3. k = 1 /\ n = 1
      BY <3>2
    <3>4. QED
      BY <2>9, <3>1, <3>3
  <2>11. ASSUME NEW s \in Seq(Jobs), Len(s) = 1 PROVE s = <<s[1]>>
    BY <2>11
  <2>12. QED
    BY <2>8, <2>10, <2>11
<1>2. QED
  BY <1>1, PostedIsOnItsWay, AnswersMatch, ResponseOnce, PTL
=============================================================================
