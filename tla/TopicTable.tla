----------------------------- MODULE TopicTable -----------------------------
(***************************************************************************)
(* The table of topics: tcp_connection::get_bucket (main.cpp), which the   *)
(* handlers of start_store and start_load call from any thread, over the   *)
(* concurrent_unordered_map `topics' with the hash and the comparison of   *)
(* packet headers in serializer.hpp.                                       *)
(*                                                                         *)
(* get_bucket asks the table three times: contains, emplace, at.  Each     *)
(* call is atomic, the three together are not.  A bucket is identified     *)
(* with the call of get_bucket that constructed it.                        *)
(***************************************************************************)
EXTENDS FiniteSets

CONSTANTS
  Calls,      \* calls of get_bucket
  Keys,       \* packet_header::key
  Salts,      \* packet_header::random_salt
  Sequences,  \* packet_header::sequence
  NoBucket    \* before a call returned

ASSUME BucketAssumption == NoBucket \notin Calls

Headers == [key : Keys, random_salt : Salts, sequence : Sequences]

VARIABLES
  pc,      \* what each call does next
  header,  \* its argument
  topics,  \* the nodes of the map
  bucket,  \* the bucket it returned
  thrown   \* did at() not find the header?

vars == <<pc, header, topics, bucket, thrown>>

\* Mutant: the sequence of a packet is hashed too.
HashedWithSequence(h) == h

\* What packet_header_key_hash reads of a header, and so what its value depends on.
Hashed(h) == <<h.key, h.random_salt>>

\* packet_header_key_compare
Compare(h, k) == <<h.key, h.random_salt>> = <<k.key, k.random_salt>>

\* The map compares a header with the nodes that have the same hash.
Nodes(h) == {n \in topics : Hashed(n.header) = Hashed(h) /\ Compare(n.header, h)}

Init ==
  /\ pc = [c \in Calls |-> "contains"]
  /\ header \in [Calls -> Headers]
  /\ topics = {}
  /\ bucket = [c \in Calls |-> NoBucket]
  /\ thrown = FALSE

Goto(c, from, to) ==
  /\ pc[c] = from
  /\ pc' = [pc EXCEPT ![c] = to]

\* Mutant: the test is an operator[], which inserts what it does not find.
ContainsInserting(c) ==
  /\ Goto(c, "contains", "at")
  /\ topics' = IF Nodes(header[c]) = {}
               THEN topics \cup {[header |-> header[c], bucket |-> NoBucket]} ELSE topics
  /\ UNCHANGED <<header, bucket, thrown>>

Contains(c) ==
  /\ Goto(c, "contains", IF Nodes(header[c]) = {} THEN "emplace" ELSE "at")
  /\ UNCHANGED <<header, topics, bucket, thrown>>

\* emplace constructs a node and drops it again if an equal header is there.
Emplace(c) ==
  /\ Goto(c, "emplace", "at")
  /\ topics' = IF Nodes(header[c]) = {}
               THEN topics \cup {[header |-> header[c], bucket |-> c]} ELSE topics
  /\ UNCHANGED <<header, bucket, thrown>>

At(c) ==
  /\ Goto(c, "at", "done")
  /\ IF Nodes(header[c]) = {} THEN thrown' = TRUE /\ UNCHANGED bucket
     ELSE /\ \E n \in Nodes(header[c]) : bucket' = [bucket EXCEPT ![c] = n.bucket]
          /\ UNCHANGED thrown
  /\ UNCHANGED <<header, topics>>

Next == \E c \in Calls : Contains(c) \/ Emplace(c) \/ At(c)

Spec == Init /\ [][Next]_vars

-----------------------------------------------------------------------------
(* Properties                                                              *)

TypeOK ==
  /\ pc \in [Calls -> {"contains", "emplace", "at", "done"}]
  /\ header \in [Calls -> Headers]
  /\ topics \subseteq [header : Headers, bucket : Calls]
  /\ bucket \in [Calls -> Calls \cup {NoBucket}]
  /\ thrown \in BOOLEAN

SameTopic(h, k) == h.key = k.key /\ h.random_salt = k.random_salt

\* Two calls get the same bucket if and only if their headers name the same topic,
\* whatever their sequences and however the calls interleave: no message is stored
\* in a bucket that no listener of its topic can reach, and at() always finds one.
OneBucketPerTopic ==
  /\ ~thrown
  /\ \A c, d \in Calls :
       pc[c] = "done" /\ pc[d] = "done" =>
         (bucket[c] = bucket[d] <=> SameTopic(header[c], header[d]))
=============================================================================
