-------------------------- MODULE TopicTableProofs --------------------------
(***************************************************************************)
(* Proofs about TopicTable for any number of calls and headers.            *)
(***************************************************************************)
EXTENDS TopicTable, TLAPS

\* The inductive invariant: one node per topic, made by a call for that topic, and
\* past its emplace a call finds one.
TableInv ==
  /\ \A n \in topics : SameTopic(n.header, header[n.bucket])
  /\ \A m, n \in topics : SameTopic(m.header, n.header) => m = n
  /\ \A c \in Calls : pc[c] \in {"at", "done"} =>
       \E n \in topics : SameTopic(n.header, header[c])
  /\ \A c \in Calls : pc[c] = "done" =>
       \E n \in topics : SameTopic(n.header, header[c]) /\ bucket[c] = n.bucket

IInv == TypeOK /\ ~thrown /\ TableInv

-----------------------------------------------------------------------------
\* The map finds the nodes of a header's topic and no others: what is compared is
\* also what is hashed.
LEMMA NodesOfTopic ==
  ASSUME NEW h, NEW n
  PROVE  n \in Nodes(h) <=> n \in topics /\ SameTopic(n.header, h)
  BY DEF Nodes, Hashed, Compare, SameTopic

\* Every step of a call keeps the types.
LEMMA TypeStep ==
  ASSUME TypeOK, NEW c \in Calls, Contains(c) \/ Emplace(c) \/ At(c)
  PROVE  TypeOK'
<1>1. CASE Contains(c)
  BY <1>1 DEF TypeOK, Contains, Goto
<1>2. CASE Emplace(c)
  BY <1>2 DEF TypeOK, Emplace, Goto
<1>3. CASE At(c)
  <2>1. \A n \in Nodes(header[c]) : n.bucket \in Calls
    BY DEF TypeOK, Nodes
  <2>2. bucket' \in [Calls -> Calls \cup {NoBucket}]
    BY <1>3, <2>1 DEF At, TypeOK
  <2>3. thrown' \in BOOLEAN
    BY <1>3 DEF At, TypeOK
  <2>4. QED
    BY <1>3, <2>2, <2>3 DEF At, Goto, TypeOK
<1>4. QED
  BY <1>1, <1>2, <1>3

\* A call that is between contains and at, alone or with others, leaves one node per
\* topic; at() finds it.
LEMMA TableStep ==
  ASSUME TypeOK, ~thrown, TableInv, NEW c \in Calls, Contains(c) \/ Emplace(c) \/ At(c)
  PROVE  ~thrown' /\ TableInv'
<1> USE DEF TableInv, SameTopic
<1>1. CASE Contains(c)
  <2>1. UNCHANGED <<header, topics, bucket, thrown>>
    BY <1>1 DEF Contains
  <2>2. \A d \in Calls : d # c => pc'[d] = pc[d]
    BY <1>1 DEF Contains, Goto, TypeOK
  <2>3. pc'[c] \in {"emplace", "at"} /\ (pc'[c] = "at" => Nodes(header[c]) # {})
    BY <1>1 DEF Contains, Goto, TypeOK
  <2>4. pc'[c] = "at" => \E n \in topics : SameTopic(n.header, header[c])
    BY <2>3, NodesOfTopic
  <2>5. QED
    BY <2>1, <2>2, <2>3, <2>4
<1>2. CASE Emplace(c)
  <2>1. UNCHANGED <<header, bucket, thrown>> /\ topics \subseteq topics'
    BY <1>2 DEF Emplace
  <2>2. \A d \in Calls : d # c => pc'[d] = pc[d]
    BY <1>2 DEF Emplace, Goto, TypeOK
  <2>3. pc'[c] = "at"
    BY <1>2 DEF Emplace, Goto, TypeOK
  <2>4. CASE Nodes(header[c]) = {}
    <3>1. PICK new : new = [header |-> header[c], bucket |-> c]
      OBVIOUS
    <3>2. topics' = topics \cup {new} /\ new.header = header[c] /\ new.bucket = c
      BY <1>2, <2>4, <3>1 DEF Emplace
    <3>3. \A n \in topics : ~SameTopic(n.header, header[c])
      BY <2>4, NodesOfTopic
    <3>4. \A n \in topics' : n \in topics \/ n = new
      BY <3>2
    <3>5. \A n \in topics' : SameTopic(n.header, header'[n.bucket])
      BY <2>1, <3>2, <3>4
    <3>6. \A m, n \in topics' : SameTopic(m.header, n.header) => m = n
      BY <3>2, <3>3, <3>4
    <3>7. ASSUME NEW d \in Calls, pc'[d] \in {"at", "done"}
          PROVE  \E n \in topics' : SameTopic(n.header, header'[d])
      <4>1. CASE d = c
        BY <4>1, <2>1, <3>2
      <4>2. CASE d # c
        BY <4>2, <2>1, <2>2, <3>7
      <4>3. QED
        BY <4>1, <4>2
    <3>8. ASSUME NEW d \in Calls, pc'[d] = "done"
          PROVE  \E n \in topics' : SameTopic(n.header, header'[d]) /\ bucket'[d] = n.bucket
      BY <3>8, <2>1, <2>2, <2>3
    <3>9. QED
      BY <2>1, <3>5, <3>6, <3>7, <3>8
  <2>5. CASE Nodes(header[c]) # {}
    <3>1. topics' = topics /\ \E n \in topics : SameTopic(n.header, header[c])
      BY <1>2, <2>5, NodesOfTopic DEF Emplace
    <3>2. QED
      BY <2>1, <2>2, <2>3, <3>1
  <2>6. QED
    BY <2>4, <2>5
<1>3. CASE At(c)
  <2>1. UNCHANGED <<header, topics>> /\ pc[c] = "at"
    BY <1>3 DEF At, Goto
  <2>2. \A d \in Calls : d # c => pc'[d] = pc[d]
    BY <1>3 DEF At, Goto, TypeOK
  <2>3. Nodes(header[c]) # {}
    <3>1. PICK n \in topics : SameTopic(n.header, header[c])
      BY <2>1
    <3>2. n \in Nodes(header[c])
      BY <3>1, NodesOfTopic
    <3>3. QED
      BY <3>2
  <2>4. PICK n \in Nodes(header[c]) : bucket' = [bucket EXCEPT ![c] = n.bucket]
    BY <1>3, <2>3 DEF At
  <2>5. ~thrown'
    BY <1>3, <2>3 DEF At
  <2>6. n \in topics /\ SameTopic(n.header, header[c])
    BY NodesOfTopic
  <2>7. \A d \in Calls : bucket'[d] = IF d = c THEN n.bucket ELSE bucket[d]
    BY <2>4 DEF TypeOK
  <2>8. QED
    BY <2>1, <2>2, <2>5, <2>6, <2>7
<1>4. QED
  BY <1>1, <1>2, <1>3

\* The table starts empty.
LEMMA IInvInit == Init => IInv
<1> SUFFICES ASSUME Init PROVE IInv
  OBVIOUS
<1>1. TypeOK
  BY DEF Init, TypeOK
<1>2. ~thrown /\ TableInv
  BY DEF Init, TableInv
<1>3. QED
  BY <1>1, <1>2 DEF IInv

\* Every step keeps the inductive invariant.
LEMMA IInvStep == IInv /\ [Next]_vars => IInv'
<1> SUFFICES ASSUME IInv, [Next]_vars PROVE IInv'
  OBVIOUS
<1>1. CASE Next
  BY <1>1, TypeStep, TableStep DEF Next, IInv
<1>2. CASE UNCHANGED vars
  BY <1>2 DEF vars, IInv, TypeOK, TableInv, SameTopic
<1>3. QED
  BY <1>1, <1>2

\* The inductive invariant of the table.
THEOREM Inductive == Spec => []IInv
  BY IInvInit, IInvStep, PTL DEF Spec

\* The type invariant, with it that every bucket was made by one of the calls.
THEOREM TypeCorrect == Spec => []TypeOK
<1>1. IInv => TypeOK
  BY DEF IInv
<1>2. QED
  BY <1>1, Inductive, PTL

\* Calls that race on a topic, each testing before it emplaces, end with the same
\* bucket, and with different ones for different topics.
THEOREM OneBucket == Spec => []OneBucketPerTopic
<1>1. IInv => OneBucketPerTopic
  <2> SUFFICES ASSUME IInv PROVE OneBucketPerTopic
    OBVIOUS
  <2>1. ASSUME NEW c \in Calls, NEW d \in Calls, pc[c] = "done", pc[d] = "done"
        PROVE  bucket[c] = bucket[d] <=> SameTopic(header[c], header[d])
    <3>1. PICK m \in topics : SameTopic(m.header, header[c]) /\ bucket[c] = m.bucket
      BY <2>1 DEF IInv, TableInv
    <3>2. PICK n \in topics : SameTopic(n.header, header[d]) /\ bucket[d] = n.bucket
      BY <2>1 DEF IInv, TableInv
    <3>3. SameTopic(m.header, header[m.bucket]) /\ SameTopic(n.header, header[n.bucket])
      BY DEF IInv, TableInv
    <3>4. SameTopic(m.header, n.header) => m = n
      BY DEF IInv, TableInv
    <3>5. QED
      BY <3>1, <3>2, <3>3, <3>4 DEF SameTopic
  <2>2. QED
    BY <2>1 DEF OneBucketPerTopic, IInv
<1>2. QED
  BY <1>1, Inductive, PTL
=============================================================================
