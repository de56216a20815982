----------------------------- MODULE JobService -----------------------------
(***************************************************************************)
(* What the launcher promises to the clients that send triggers, without   *)
(* queue, loop, timers or strands: a trigger is given a header, the first  *)
(* with that header holds it for good, each is given to one worker at      *)
(* most, and the response to it goes, once, to the holder of its header.   *)
(***************************************************************************)
EXTENDS Sequences, SequencesExt

CONSTANTS
  Jobs,     \* the triggers
  Workers,
  Salts,    \* what makes the header of one trigger differ from another's
  NoJob,
  NoSalt

VARIABLES
  salt,     \* the salt each trigger was given
  holder,   \* the trigger that holds each header
  given,    \* the worker each trigger was given to
  answers   \* the triggers whose responses each trigger was answered with

vars == <<salt, holder, given, answers>>

Init ==
  /\ salt = [j \in Jobs |-> NoSalt]
  /\ holder = [s \in Salts |-> NoJob]
  /\ given = [j \in Jobs |-> <<>>]
  /\ answers = [j \in Jobs |-> <<>>]

Submit(j) ==
  /\ salt[j] = NoSalt
  /\ \E s \in Salts : salt' = [salt EXCEPT ![j] = s]
  /\ UNCHANGED <<holder, given, answers>>

Hold(j) ==
  /\ salt[j] \in Salts /\ holder[salt[j]] = NoJob
  /\ holder' = [holder EXCEPT ![salt[j]] = j]
  /\ UNCHANGED <<salt, given, answers>>

Give(j, w) ==
  /\ salt[j] \in Salts /\ given[j] = <<>>
  /\ given' = [given EXCEPT ![j] = <<w>>]
  /\ UNCHANGED <<salt, holder, answers>>

\* The response to j arrives.
Answer(j) ==
  /\ given[j] # <<>> /\ holder[salt[j]] # NoJob
  /\ \A i \in Jobs : j \notin ToSet(answers[i])
  /\ answers' = [answers EXCEPT ![holder[salt[j]]] = Append(@, j)]
  /\ UNCHANGED <<salt, holder, given>>

Next ==
  \E j \in Jobs : Submit(j) \/ Hold(j) \/ Answer(j) \/ \E w \in Workers : Give(j, w)

Spec == Init /\ [][Next]_vars
=============================================================================
