-------------------------- MODULE ConnectionProofs --------------------------
(***************************************************************************)
(* Proofs about Connection: its stream has one reader, few packets are     *)
(* overtaken, and every reply goes out once, to its client, and whole.     *)
(***************************************************************************)
EXTENDS Connection, SequenceLemmas, FiniteSetTheorems, SequenceTheorems, TLAPS

-----------------------------------------------------------------------------
(* The inductive invariant of Overtaking.                                  *)

\* The part whose reading posts the handler of a packet.
LastPart(p) == [packet |-> p, part |-> IF kinds[p] = "put" THEN "body" ELSE "header"]

OrderTypes ==
  /\ turns \in BOOLEAN /\ threads \in Nat
  /\ kinds \in Seq(Kinds) /\ Len(kinds) <= MaxPackets /\ peer \in {"up", "gone"}
  /\ inbound \in Seq(Parts) /\ \A i \in 1..Len(inbound) : inbound[i].packet \in Sent
  /\ posted \in Seq(Ids) /\ running \subseteq Ids /\ done \in Seq(Ids) /\ Accepted \subseteq Sent
  /\ IsFiniteSet(running) /\ Cardinality(running) <= threads

\* The stream is in order, and handlers are posted in its order.
StreamInv ==
  /\ \A i, j \in 1..Len(inbound) : i < j =>
       \/ inbound[i].packet < inbound[j].packet
       \/ /\ inbound[i].packet = inbound[j].packet
          /\ inbound[i].part = "header" /\ kinds[inbound[i].packet] \in WithBody
  /\ \A h \in Accepted : \A i \in 1..Len(inbound) : h < inbound[i].packet
  /\ \A q \in Sent \ Accepted : IsPosted(q) =>
       /\ \A h \in Accepted : h < q
       /\ \A i \in 1..Len(inbound) :
            q < inbound[i].packet => \E j \in 1..(i - 1) : inbound[j] = LastPart(q)
       /\ peer = "up" => \E j \in 1..Len(inbound) : inbound[j] = LastPart(q)

\* The queue is in order, and behind what has left it.
QueueInv ==
  /\ \A i, j \in 1..Len(posted) : i < j => posted[i] < posted[j]
  /\ \A p \in running \cup ToSet(done) : \A q \in ToSet(posted) : p < q

\* A reply shows that its packet has reached the bucket.
ReplyInv ==
  /\ \A r \in written : r[1] \in Sent /\ (IsPosted(r[1]) => r[1] \in ToSet(done))
  /\ turns => \A q \in Sent : q < Len(kinds) => RepliesTo(q) # {}
  /\ \A p \in submitted : p \in Sent /\ kinds[p] = "trigger"

IInv == OrderTypes /\ StreamInv /\ QueueInv /\ ReplyInv /\ Overtaking

-----------------------------------------------------------------------------
\* With the types of what the reading loop keeps, OneReader is inductive.
ReaderInv == reads \in Seq({"header", "body"}) /\ IsFiniteSet(submitted) /\ OneReader

\* A sequence of at most one element has an empty tail.
LEMMA TailOfOne ==
  ASSUME NEW S, NEW s \in Seq(S), s # <<>>, Len(s) <= 1
  PROVE  Tail(s) = <<>> /\ Len(s) = 1
<1>1. Len(s) \in Nat \ {0}
  BY EmptySeq
<1>2. Len(s) = 1
  BY <1>1
<1>3. Tail(s) \in Seq(S) /\ Len(Tail(s)) = 0
  BY <1>2, HeadTailProperties
<1>4. QED
  BY <1>2, <1>3, EmptySeq

\* While a read is outstanding there is no other, and no trigger at the launcher.
LEMMA ReaderAlone ==
  ASSUME ReaderInv, reads # <<>>
  PROVE  Len(reads) = 1 /\ Tail(reads) = <<>> /\ submitted = {} /\ ~moved
<1> USE DEF ReaderInv, OneReader
<1>1. Cardinality(submitted) \in Nat
  BY FS_CardinalityType
<1>2. Len(reads) <= 1 /\ Len(reads) >= 1
  BY <1>1
<1>3. Cardinality(submitted) = 0
  BY <1>1, <1>2
<1>4. submitted = {}
  BY <1>3, FS_EmptySet
<1>5. QED
  BY <1>2, <1>4, TailOfOne

\* A read that completes is followed by the next one.
LEMMA ReaderNext ==
  ASSUME ReaderInv, reads # <<>>, NEW part \in {"header", "body"}, NextRead(part),
         UNCHANGED <<submitted, moved>>
  PROVE  ReaderInv'
<1>1. Tail(reads) = <<>> /\ submitted = {} /\ ~moved
  BY ReaderAlone
<1>2. reads' = <<part>>
  <2>1. reads' = Append(<<>>, part)
    BY <1>1 DEF NextRead
  <2>2. Append(<<>>, part) = <<part>>
    OBVIOUS
  <2>3. QED
    BY <2>1, <2>2
<1>3. IsFiniteSet({}) /\ Cardinality({}) = 0
  BY FS_EmptySet
<1>4. <<part>> \in Seq({"header", "body"}) /\ Len(<<part>>) = 1
  OBVIOUS
<1>5. submitted' = {} /\ ~moved'
  BY <1>1
<1>6. QED
  BY <1>2, <1>3, <1>4, <1>5 DEF ReaderInv, OneReader

\* The invariant of the reading loop, action by action.
LEMMA ReaderStep ==
  ASSUME ReaderInv, [Next]_vars
  PROVE  ReaderInv'
<1>e. IsFiniteSet({}) /\ Cardinality({}) = 0
  BY FS_EmptySet
<1>1. CASE UNCHANGED <<reads, submitted, moved>>
  BY <1>1 DEF ReaderInv, OneReader
<1>2. CASE HeaderWithBody \/ HeaderGet \/ HeaderStray \/ BodyPut
  <2>1. /\ reads # <<>>
        /\ \E part \in {"header", "body"} : NextRead(part)
        /\ UNCHANGED <<submitted, moved>>
    BY <1>2 DEF HeaderWithBody, HeaderGet, HeaderStray, BodyPut, Completes
  <2>2. QED
    BY <2>1, ReaderNext
<1>3. CASE HeaderWorker
  <2>1. reads # <<>> /\ reads' = Tail(reads) /\ submitted' = submitted
    BY <1>3 DEF HeaderWorker, Completes
  <2>2. reads' = <<>> /\ submitted' = {}
    BY <2>1, ReaderAlone
  <2>3. QED
    BY <1>e, <2>2 DEF ReaderInv, OneReader
<1>4. CASE BodyTrigger
  <2>1. PICK p : submitted' = submitted \cup {p}
    BY <1>4 DEF BodyTrigger
  <2>2. reads # <<>> /\ reads' = Tail(reads) /\ moved' = moved
    BY <1>4 DEF BodyTrigger, Completes
  <2>3. reads' = <<>> /\ submitted' = {p} /\ ~moved'
    BY <2>1, <2>2, ReaderAlone
  <2>4. IsFiniteSet({p}) /\ Cardinality({p}) = 1
    BY FS_Singleton
  <2>5. QED
    BY <2>3, <2>4 DEF ReaderInv, OneReader
<1>5. CASE ReadError
  <2>1. reads # <<>> /\ reads' = Tail(reads) /\ UNCHANGED <<submitted, moved>>
    BY <1>5 DEF ReadError
  <2>2. reads' = <<>> /\ submitted' = {}
    BY <2>1, ReaderAlone
  <2>3. QED
    BY <1>e, <2>2 DEF ReaderInv, OneReader
<1>6. ASSUME NEW p \in submitted, Complete(p) PROVE ReaderInv'
  <2>1. /\ submitted' = submitted \ {p} /\ moved' = moved
        /\ reads' = Append(reads, "header")
    BY <1>6 DEF Complete
  <2>2. /\ IsFiniteSet(submitted \ {p})
        /\ Cardinality(submitted \ {p}) = Cardinality(submitted) - 1
        /\ Cardinality(submitted) \in Nat
    BY <1>6, FS_RemoveElement, FS_CardinalityType DEF ReaderInv
  <2>3. ~moved /\ Len(reads) \in Nat
    BY <1>6 DEF ReaderInv, OneReader
  <2>4. /\ reads' \in Seq({"header", "body"})
        /\ Len(reads') = Len(reads) + 1
    BY <2>1 DEF ReaderInv
  <2>5. QED
    BY <2>1, <2>2, <2>3, <2>4 DEF ReaderInv, OneReader
<1>7. CASE \E kind \in Kinds : Send(kind)
  BY <1>1, <1>7 DEF Send
<1>8. CASE HangUp
  BY <1>1, <1>8 DEF HangUp
<1>9. CASE \E p \in Sent : Deliver(p)
  BY <1>1, <1>9 DEF Deliver
<1>10. CASE Write
  BY <1>1, <1>10 DEF Write, Transmit, WriteError, Resume
<1>11. CASE Handle
  BY <1>1, <1>11 DEF Handle, Take, Reach, Finish
<1>12. CASE UNCHANGED vars
  BY <1>1, <1>12 DEF vars
<1>13. QED
  BY <1>2, <1>3, <1>4, <1>5, <1>6, <1>7, <1>8, <1>9, <1>10, <1>11, <1>12
     DEF Next, Server, Answer, Read

\* Whatever the client sends and however the handlers of its packets interleave, one
\* read at a time is outstanding on the socket, none while the launcher has a trigger of
\* the connection or a worker owns the socket (start_read_header, start_trigger).
THEOREM StreamHasOneReader == Spec => []OneReader
<1>1. Init => ReaderInv
  BY FS_EmptySet DEF Init, ReaderInv, OneReader
<1>2. ReaderInv /\ [Next]_vars => ReaderInv'
  BY ReaderStep
<1>3. ReaderInv => OneReader
  BY DEF ReaderInv
<1>4. QED
  BY <1>1, <1>2, <1>3, PTL DEF Spec

-----------------------------------------------------------------------------
(* Packets overtake fewer others than there are threads.                   *)

\* What the first part of the stream is, and what is left behind it.
LEMMA StreamTail ==
  ASSUME OrderTypes, inbound # <<>>
  PROVE  /\ Len(inbound) \in Nat \ {0} /\ Len(Tail(inbound)) = Len(inbound) - 1
         /\ Tail(inbound) \in Seq(Parts)
         /\ Head(inbound) = inbound[1] /\ inbound[1] \in Parts
         /\ inbound[1].packet \in Sent
         /\ \A i \in 1..(Len(inbound) - 1) : Tail(inbound)[i] = inbound[i + 1]
<1> USE DEF OrderTypes
<1>1. Len(inbound) \in Nat \ {0}
  BY EmptySeq
<1>2. 1 \in 1..Len(inbound)
  BY <1>1
<1>3. QED
  BY <1>1, <1>2, HeadTailProperties

\* A part that posts no handler leaves the stream.
LEMMA StreamSkip ==
  ASSUME OrderTypes, StreamInv, inbound # <<>>, inbound' = Tail(inbound),
         \A q \in Sent : IsPosted(q) => inbound[1] # LastPart(q),
         UNCHANGED <<kinds, peer>>, Accepted' = Accepted
  PROVE  StreamInv'
<1>1. /\ Len(inbound') = Len(inbound) - 1 /\ Len(inbound) \in Nat \ {0}
      /\ \A i \in 1..Len(inbound') : inbound'[i] = inbound[i + 1]
  BY StreamTail
<1>2. \A i \in 1..Len(inbound') : i + 1 \in 1..Len(inbound)
  BY <1>1
<1>3. Sent' = Sent /\ (\A q : IsPosted(q)' <=> IsPosted(q)) /\ (\A q : LastPart(q)' = LastPart(q))
  BY DEF Sent, IsPosted, LastPart
<1>4. \A i, j \in 1..Len(inbound') : i < j =>
        \/ inbound'[i].packet < inbound'[j].packet
        \/ /\ inbound'[i].packet = inbound'[j].packet
           /\ inbound'[i].part = "header" /\ kinds'[inbound'[i].packet] \in WithBody
  BY <1>1, <1>2 DEF StreamInv
<1>5. \A h \in Accepted : \A i \in 1..Len(inbound') : h < inbound'[i].packet
  BY <1>1, <1>2 DEF StreamInv
<1>6. ASSUME NEW q \in Sent \ Accepted, IsPosted(q)
      PROVE  /\ \A h \in Accepted : h < q
             /\ \A i \in 1..Len(inbound') :
                  q < inbound'[i].packet => \E j \in 1..(i - 1) : inbound'[j] = LastPart(q)
             /\ peer = "up" => \E j \in 1..Len(inbound') : inbound'[j] = LastPart(q)
  <2>1. \A j \in 1..Len(inbound) : inbound[j] = LastPart(q) => j - 1 \in 1..Len(inbound') /\ inbound'[j - 1] = LastPart(q)
    BY <1>1, <1>6
  <2>2. ASSUME NEW i \in 1..Len(inbound'), q < inbound'[i].packet
        PROVE  \E j \in 1..(i - 1) : inbound'[j] = LastPart(q)
    <3>1. PICK j \in 1..i : inbound[j] = LastPart(q)
      BY <1>1, <1>2, <1>6, <2>2 DEF StreamInv
    <3>2. j - 1 \in 1..(i - 1) /\ inbound'[j - 1] = LastPart(q)
      BY <1>1, <2>1, <3>1
    <3>3. QED
      BY <3>2
  <2>3. ASSUME peer = "up" PROVE \E j \in 1..Len(inbound') : inbound'[j] = LastPart(q)
    <3>1. PICK j \in 1..Len(inbound) : inbound[j] = LastPart(q)
      BY <1>6, <2>3 DEF StreamInv
    <3>2. QED
      BY <2>1, <3>1
  <2>4. QED
    BY <1>6, <2>2, <2>3 DEF StreamInv
<1>7. QED
  BY <1>3, <1>4, <1>5, <1>6 DEF StreamInv

\* The last part of a packet for a bucket leaves the stream, and its handler is posted.
LEMMA StreamAccept ==
  ASSUME OrderTypes, StreamInv, inbound # <<>>, inbound' = Tail(inbound),
         NEW p \in Sent, IsPosted(p), inbound[1] = LastPart(p),
         UNCHANGED <<kinds, peer>>, Accepted' = Accepted \cup {p}
  PROVE  StreamInv' /\ \A h \in Accepted : h < p
<1>1. /\ Len(inbound') = Len(inbound) - 1 /\ Len(inbound) \in Nat \ {0}
      /\ \A i \in 1..Len(inbound') : inbound'[i] = inbound[i + 1]
      /\ 1 \in 1..Len(inbound)
  BY StreamTail
<1>2. \A i \in 1..Len(inbound') : i + 1 \in 1..Len(inbound) /\ 1 < i + 1
  BY <1>1
<1>3. Sent' = Sent /\ (\A q : IsPosted(q)' <=> IsPosted(q)) /\ (\A q : LastPart(q)' = LastPart(q))
  BY DEF Sent, IsPosted, LastPart
<1>4. \A i, j \in 1..Len(inbound') : i < j =>
        \/ inbound'[i].packet < inbound'[j].packet
        \/ /\ inbound'[i].packet = inbound'[j].packet
           /\ inbound'[i].part = "header" /\ kinds'[inbound'[i].packet] \in WithBody
  BY <1>1, <1>2 DEF StreamInv
<1>5. /\ inbound[1].packet = p
      /\ ~(inbound[1].part = "header" /\ kinds[inbound[1].packet] \in WithBody)
  BY DEF LastPart, IsPosted, WithBody
<1>6. \A h \in Accepted : h < p
  BY <1>1, <1>5 DEF StreamInv
<1>7. \A h \in Accepted \cup {p} : \A i \in 1..Len(inbound') : h < inbound'[i].packet
  <2>1. \A i \in 1..Len(inbound') : p < inbound'[i].packet
    BY <1>1, <1>2, <1>5 DEF StreamInv
  <2>2. QED
    BY <1>1, <1>2, <2>1 DEF StreamInv
<1>8. ASSUME NEW q \in Sent \ (Accepted \cup {p}), IsPosted(q)
      PROVE  /\ \A h \in Accepted \cup {p} : h < q
             /\ \A i \in 1..Len(inbound') :
                  q < inbound'[i].packet => \E j \in 1..(i - 1) : inbound'[j] = LastPart(q)
             /\ peer = "up" => \E j \in 1..Len(inbound') : inbound'[j] = LastPart(q)
  <2>0. inbound[1] # LastPart(q)
    BY <1>5, <1>8 DEF LastPart
  <2>1. \A j \in 1..Len(inbound) : inbound[j] = LastPart(q) => j - 1 \in 1..Len(inbound') /\ inbound'[j - 1] = LastPart(q)
    BY <1>1, <2>0
  <2>2. ASSUME NEW i \in 1..Len(inbound'), q < inbound'[i].packet
        PROVE  \E j \in 1..(i - 1) : inbound'[j] = LastPart(q)
    <3>1. PICK j \in 1..i : inbound[j] = LastPart(q)
      BY <1>1, <1>2, <1>8, <2>2 DEF StreamInv
    <3>2. j - 1 \in 1..(i - 1) /\ inbound'[j - 1] = LastPart(q)
      BY <1>1, <2>1, <3>1
    <3>3. QED
      BY <3>2
  <2>3. ASSUME peer = "up" PROVE \E j \in 1..Len(inbound') : inbound'[j] = LastPart(q)
    <3>1. PICK j \in 1..Len(inbound) : inbound[j] = LastPart(q)
      BY <1>8, <2>3 DEF StreamInv
    <3>2. QED
      BY <2>1, <3>1
  <2>4. p < q
    <3>1. ~(q < p)
      BY <1>1, <1>5, <1>8 DEF StreamInv
    <3>2. p \in Nat /\ q \in Nat /\ p # q
      BY <1>8 DEF Sent
    <3>3. QED
      BY <3>1, <3>2
  <2>5. QED
    BY <1>8, <2>2, <2>3, <2>4 DEF StreamInv
<1>9. QED
  BY <1>3, <1>4, <1>6, <1>7, <1>8 DEF StreamInv

\* The stream is cut.
LEMMA StreamHangUp ==
  ASSUME OrderTypes, StreamInv, HangUp
  PROVE  StreamInv'
<1>1. PICK n \in 0..Len(inbound) : inbound' = SubSeq(inbound, 1, n)
  BY DEF HangUp
<1>2. /\ Len(inbound') = n /\ Len(inbound) \in Nat
      /\ \A i \in 1..n : inbound'[i] = inbound[i] /\ i \in 1..Len(inbound)
  BY <1>1 DEF OrderTypes
<1>3. /\ Sent' = Sent /\ (\A q : IsPosted(q)' <=> IsPosted(q)) /\ (\A q : LastPart(q)' = LastPart(q))
      /\ Accepted' = Accepted /\ kinds' = kinds /\ peer' # "up"
  BY DEF HangUp, Sent, IsPosted, LastPart, Accepted, queue
<1>4. ASSUME NEW q \in Sent \ Accepted, IsPosted(q)
      PROVE  \A i \in 1..n :
               q < inbound'[i].packet => \E j \in 1..(i - 1) : inbound'[j] = LastPart(q)
  <2> SUFFICES ASSUME NEW i \in 1..n, q < inbound'[i].packet
               PROVE  \E j \in 1..(i - 1) : inbound'[j] = LastPart(q)
    OBVIOUS
  <2>1. PICK j \in 1..(i - 1) : inbound[j] = LastPart(q)
    BY <1>2, <1>4 DEF StreamInv
  <2>2. j \in 1..n
    OBVIOUS
  <2>3. QED
    BY <1>2, <2>1, <2>2
<1>5. QED
  BY <1>2, <1>3, <1>4 DEF StreamInv

\* A packet is sent.
LEMMA StreamSend ==
  ASSUME OrderTypes, StreamInv, NEW kind \in Kinds, Send(kind)
  PROVE  StreamInv'
<1>0. PICK p, T : p = Len(kinds) + 1 /\ T = Tokens(p, kind)
  OBVIOUS
<1>1. /\ Len(kinds) \in Nat /\ p \in Ids /\ p \notin Sent
      /\ kinds' = Append(kinds, kind) /\ Len(kinds') = p /\ kinds'[p] = kind
      /\ \A q \in Sent : kinds'[q] = kinds[q] /\ q < p
      /\ Sent' = Sent \cup {p}
  <2>1. Len(kinds) \in Nat /\ Len(kinds) < MaxPackets /\ kinds' = Append(kinds, kind)
    BY DEF OrderTypes, Send
  <2>2. Len(kinds') = p /\ kinds'[p] = kind /\ \A q \in 1..Len(kinds) : kinds'[q] = kinds[q]
    BY <1>0, <2>1 DEF OrderTypes
  <2>3. QED
    BY <1>0, <2>1, <2>2, BoundsAssumption DEF Sent, Ids
<1>2. /\ T \in Seq(Parts) /\ Len(T) \in {1, 2}
      /\ \A i \in 1..Len(T) : T[i].packet = p
      /\ T[1].part = "header" /\ (kind \in WithBody => Len(T) = 2 /\ T[2].part = "body")
      /\ Len(T) = 2 => kind \in WithBody
  <2> DEFINE header == [packet |-> p, part |-> "header"]
             body == [packet |-> p, part |-> "body"]
  <2>1. header \in Parts /\ body \in Parts
    BY <1>1 DEF Parts
  <2>2. T = IF kind \in WithBody THEN <<header, body>> ELSE <<header>>
    BY <1>0 DEF Tokens
  <2>3. CASE kind \in WithBody
    BY <2>1, <2>2, <2>3
  <2>4. CASE kind \notin WithBody
    BY <2>1, <2>2, <2>4
  <2>5. QED
    BY <2>3, <2>4
<1>3. /\ inbound \in Seq(Parts) /\ inbound' = inbound \o T
      /\ peer = "up" /\ peer' = "up"
      /\ UNCHANGED <<posted, running, done>> /\ Accepted' = Accepted
      /\ Accepted \subseteq Sent /\ \A i \in 1..Len(inbound) : inbound[i].packet \in Sent
  BY <1>0 DEF Send, OrderTypes, queue, Accepted
<1>4. /\ Len(inbound) \in Nat /\ Len(inbound') = Len(inbound) + Len(T)
      /\ \A i \in 1..Len(inbound) : inbound'[i] = inbound[i]
      /\ \A i \in 1..Len(T) : inbound'[Len(inbound) + i] = T[i]
  BY <1>2, <1>3
<1>5. \A i \in 1..Len(inbound') :
        i \in 1..Len(inbound) \/ (i - Len(inbound) \in 1..Len(T) /\ inbound'[i] = T[i - Len(inbound)] /\ i > Len(inbound))
  <2> SUFFICES ASSUME NEW i \in 1..Len(inbound'), i \notin 1..Len(inbound)
               PROVE  i - Len(inbound) \in 1..Len(T) /\ inbound'[i] = T[i - Len(inbound)] /\ i > Len(inbound)
    OBVIOUS
  <2>1. i - Len(inbound) \in 1..Len(T) /\ i > Len(inbound)
    BY <1>2, <1>4
  <2>2. inbound'[Len(inbound) + (i - Len(inbound))] = T[i - Len(inbound)]
    BY <1>4, <2>1
  <2>3. Len(inbound) + (i - Len(inbound)) = i
    BY <1>4
  <2>4. QED
    BY <2>1, <2>2, <2>3
<1>5a. /\ p \in Nat /\ ~(p < p) /\ \A q \in Sent : q \in Nat /\ q < p /\ ~(p < q)
  BY <1>1 DEF Sent
<1>5b. \A i \in 1..Len(inbound') :
         IF i \in 1..Len(inbound) THEN inbound'[i].packet \in Sent ELSE inbound'[i].packet = p
  BY <1>2, <1>3, <1>4, <1>5
<1>6. \A q \in Sent : (IsPosted(q)' <=> IsPosted(q)) /\ LastPart(q)' = LastPart(q)
  BY <1>1 DEF IsPosted, LastPart
<1>7. \A i, j \in 1..Len(inbound') : i < j =>
        \/ inbound'[i].packet < inbound'[j].packet
        \/ /\ inbound'[i].packet = inbound'[j].packet
           /\ inbound'[i].part = "header" /\ kinds'[inbound'[i].packet] \in WithBody
  <2> SUFFICES ASSUME NEW i \in 1..Len(inbound'), NEW j \in 1..Len(inbound'), i < j
               PROVE  \/ inbound'[i].packet < inbound'[j].packet
                      \/ /\ inbound'[i].packet = inbound'[j].packet
                         /\ inbound'[i].part = "header" /\ kinds'[inbound'[i].packet] \in WithBody
    OBVIOUS
  <2>1. CASE j \in 1..Len(inbound)
    <3>1. i \in 1..Len(inbound)
      BY <2>1, <1>4
    <3>2. inbound'[i] = inbound[i] /\ inbound'[j] = inbound[j] /\ inbound[i].packet \in Sent
      BY <1>3, <1>4, <2>1, <3>1
    <3>3. kinds'[inbound[i].packet] = kinds[inbound[i].packet]
      BY <1>1, <3>2
    <3>4. \/ inbound[i].packet < inbound[j].packet
          \/ /\ inbound[i].packet = inbound[j].packet
             /\ inbound[i].part = "header" /\ kinds[inbound[i].packet] \in WithBody
      BY <2>1, <3>1 DEF StreamInv
    <3>5. QED
      BY <3>2, <3>3, <3>4
  <2>2. CASE j \notin 1..Len(inbound) /\ i \in 1..Len(inbound)
    BY <1>5a, <1>5b, <2>2
  <2>3. CASE j \notin 1..Len(inbound) /\ i \notin 1..Len(inbound)
    <3>1. PICK k \in 1..Len(T), l \in 1..Len(T) :
            /\ k = i - Len(inbound) /\ inbound'[i] = T[k]
            /\ l = j - Len(inbound) /\ inbound'[j] = T[l]
      BY <1>5, <2>3
    <3>2. k < l
      BY <1>4, <3>1
    <3>3. k = 1 /\ l = 2 /\ Len(T) = 2
      BY <1>2, <3>2
    <3>4. inbound'[i] = T[1] /\ inbound'[j] = T[2]
      BY <3>1, <3>3
    <3>5. T[1].packet = p /\ T[2].packet = p /\ T[1].part = "header" /\ kind \in WithBody
      BY <1>2, <3>1, <3>3
    <3>6. kinds'[T[1].packet] \in WithBody
      BY <1>1, <3>5
    <3>7. QED
      BY <3>4, <3>5, <3>6
  <2>4. QED
    BY <2>1, <2>2, <2>3
<1>8. \A h \in Accepted : \A i \in 1..Len(inbound') : h < inbound'[i].packet
  <2> SUFFICES ASSUME NEW h \in Accepted, NEW i \in 1..Len(inbound')
               PROVE  h < inbound'[i].packet
    OBVIOUS
  <2>1. CASE i \in 1..Len(inbound)
    BY <1>4, <2>1 DEF StreamInv
  <2>2. CASE i \notin 1..Len(inbound)
    BY <1>3, <1>5a, <1>5b, <2>2
  <2>3. QED
    BY <2>1, <2>2
<1>9. ASSUME NEW q \in Sent \ Accepted, IsPosted(q)
      PROVE  /\ \A h \in Accepted : h < q
             /\ \A i \in 1..Len(inbound') :
                  q < inbound'[i].packet => \E j \in 1..(i - 1) : inbound'[j] = LastPart(q)
             /\ \E j \in 1..Len(inbound') : inbound'[j] = LastPart(q)
  <2>1. PICK k \in 1..Len(inbound) : inbound[k] = LastPart(q)
    BY <1>3, <1>9 DEF StreamInv
  <2>2. ASSUME NEW i \in 1..Len(inbound'), q < inbound'[i].packet
        PROVE  \E j \in 1..(i - 1) : inbound'[j] = LastPart(q)
    <3>1. CASE i \in 1..Len(inbound)
      <4>1. PICK j \in 1..(i - 1) : inbound[j] = LastPart(q)
        BY <1>4, <1>9, <2>2, <3>1 DEF StreamInv
      <4>2. j \in 1..Len(inbound)
        BY <1>4, <3>1
      <4>3. QED
        BY <1>4, <4>1, <4>2
    <3>2. CASE i \notin 1..Len(inbound)
      <4>1. k \in 1..(i - 1)
        BY <1>4, <1>5, <3>2
      <4>2. QED
        BY <1>4, <2>1, <4>1
    <3>3. QED
      BY <3>1, <3>2
  <2>3. k \in 1..Len(inbound') /\ inbound'[k] = LastPart(q)
    BY <1>2, <1>4, <2>1
  <2>4. QED
    BY <1>9, <2>2, <2>3 DEF StreamInv
<1>10. ASSUME IsPosted(p)'
       PROVE  /\ \A h \in Accepted : h < p
              /\ \A i \in 1..Len(inbound') : ~(p < inbound'[i].packet)
              /\ \E j \in 1..Len(inbound') : inbound'[j] = LastPart(p)'
  <2>1. \A h \in Accepted : h < p
    BY <1>1, <1>3
  <2>2. \A i \in 1..Len(inbound') : ~(p < inbound'[i].packet)
    BY <1>5a, <1>5b
  <2>3. inbound'[Len(inbound) + Len(T)] = T[Len(T)] /\ Len(inbound) + Len(T) \in 1..Len(inbound')
    BY <1>2, <1>4
  <2>4. T[Len(T)] = LastPart(p)'
    <3>1. kind \in {"put", "get"} /\ kinds'[p] = kind
      BY <1>1, <1>10 DEF IsPosted
    <3>2. LastPart(p)' = [packet |-> p, part |-> IF kind = "put" THEN "body" ELSE "header"]
      BY <3>1 DEF LastPart
    <3>3. T[Len(T)] \in Parts /\ T[Len(T)].packet = p
      BY <1>2
    <3>4. T[Len(T)].part = IF kind = "put" THEN "body" ELSE "header"
      BY <1>2, <3>1 DEF WithBody
    <3>5. QED
      BY <3>2, <3>3, <3>4 DEF Parts
  <2>5. QED
    BY <2>1, <2>2, <2>3, <2>4
<1>11. ASSUME NEW q \in Sent' \ Accepted', IsPosted(q)'
       PROVE  /\ \A h \in Accepted' : h < q
              /\ \A i \in 1..Len(inbound') :
                   q < inbound'[i].packet => \E j \in 1..(i - 1) : inbound'[j] = LastPart(q)'
              /\ \E j \in 1..Len(inbound') : inbound'[j] = LastPart(q)'
  <2>1. CASE q = p
    BY <1>3, <1>10, <1>11, <2>1
  <2>2. CASE q \in Sent \ Accepted
    <3>1. IsPosted(q) /\ LastPart(q)' = LastPart(q)
      BY <1>6, <1>11, <2>2
    <3>2. QED
      BY <1>3, <1>9, <2>2, <3>1
  <2>3. QED
    BY <1>1, <1>3, <1>11, <2>1, <2>2
<1>12. QED
  BY <1>3, <1>7, <1>8, <1>11 DEF StreamInv

-----------------------------------------------------------------------------
(* The queue of posted handlers.                                           *)

\* A handler is posted behind those of all earlier packets.
LEMMA QueueAccept ==
  ASSUME OrderTypes, QueueInv, NEW p \in Ids, posted' = Append(posted, p),
         UNCHANGED <<running, done>>, \A h \in Accepted : h < p
  PROVE  QueueInv' /\ posted' \in Seq(Ids) /\ Accepted' = Accepted \cup {p}
<1>1. /\ posted \in Seq(Ids) /\ Len(posted) \in Nat
      /\ posted' \in Seq(Ids) /\ Len(posted') = Len(posted) + 1
      /\ \A i \in 1..Len(posted) : posted'[i] = posted[i]
      /\ posted'[Len(posted) + 1] = p
  BY DEF OrderTypes
<1>2. ToSet(posted') = ToSet(posted) \cup {p}
  BY <1>1, ToSetAppend
<1>3. Accepted' = Accepted \cup {p}
  BY <1>2 DEF Accepted
<1>4. \A i \in 1..Len(posted) : posted[i] < p
  BY <1>1, ToSetByIndex DEF Accepted
<1>5. \A i, j \in 1..Len(posted') : i < j => posted'[i] < posted'[j]
  <2> SUFFICES ASSUME NEW i \in 1..Len(posted'), NEW j \in 1..Len(posted'), i < j
               PROVE  posted'[i] < posted'[j]
    OBVIOUS
  <2>1. i \in 1..Len(posted) /\ (j \in 1..Len(posted) \/ j = Len(posted) + 1)
    BY <1>1
  <2>2. QED
    BY <1>1, <1>4, <2>1 DEF QueueInv
<1>6. \A q \in running \cup ToSet(done) : q < p
  BY DEF Accepted
<1>7. QED
  BY <1>1, <1>2, <1>3, <1>5, <1>6 DEF QueueInv

\* A thread takes the handler of the earliest packet.
LEMMA QueueTake ==
  ASSUME OrderTypes, QueueInv, Take
  PROVE  /\ QueueInv' /\ posted' \in Seq(Ids) /\ Accepted' = Accepted
         /\ running' \subseteq Ids /\ IsFiniteSet(running') /\ Cardinality(running') <= threads
<1>1. /\ posted \in Seq(Ids) /\ posted # <<>> /\ posted' = Tail(posted)
      /\ running' = running \cup {Head(posted)} /\ done' = done
      /\ IsFiniteSet(running) /\ Cardinality(running) < threads /\ threads \in Nat
  BY DEF OrderTypes, Take, FreeThread
<1>2. /\ Len(posted) \in Nat \ {0} /\ Head(posted) = posted[1] /\ Head(posted) \in Ids
      /\ posted' \in Seq(Ids) /\ Len(posted') = Len(posted) - 1
      /\ \A i \in 1..Len(posted') : posted'[i] = posted[i + 1]
  BY <1>1, HeadTailProperties, EmptySeq
<1>3. \A i \in 1..Len(posted') : 1 < i + 1 /\ i + 1 \in 1..Len(posted) /\ 1 \in 1..Len(posted)
  BY <1>2
<1>4. \A i \in 1..Len(posted') : posted[1] < posted'[i]
  BY <1>2, <1>3 DEF QueueInv
<1>5. \A q \in ToSet(posted') : Head(posted) < q
  BY <1>2, <1>4, ToSetByIndex
<1>6. ToSet(posted) = {Head(posted)} \cup ToSet(posted')
  BY <1>1, ToSetTail
<1>7. \A i, j \in 1..Len(posted') : i < j => posted'[i] < posted'[j]
  <2> SUFFICES ASSUME NEW i \in 1..Len(posted'), NEW j \in 1..Len(posted'), i < j
               PROVE  posted'[i] < posted'[j]
    OBVIOUS
  <2>1. i + 1 < j + 1
    BY <1>2
  <2>2. QED
    BY <1>2, <1>3, <2>1 DEF QueueInv
<1>8. QueueInv'
  BY <1>1, <1>5, <1>6, <1>7 DEF QueueInv
<1>9. Accepted' = Accepted
  BY <1>1, <1>6 DEF Accepted
<1>10. IsFiniteSet(running') /\ Cardinality(running') <= threads
  <2>1. Cardinality(running) \in Nat
    BY <1>1, FS_CardinalityType
  <2>2. /\ IsFiniteSet(running')
        /\ Cardinality(running') \in {Cardinality(running), Cardinality(running) + 1}
    BY <1>1, FS_AddElement
  <2>3. QED
    BY <1>1, <2>1, <2>2
<1>11. running' \subseteq Ids
  BY <1>1, <1>2 DEF OrderTypes
<1>12. QED
  BY <1>2, <1>8, <1>9, <1>10, <1>11

\* A packet reaches its bucket.
LEMMA QueueReach ==
  ASSUME OrderTypes, QueueInv, NEW p \in running, Reach(p)
  PROVE  /\ QueueInv' /\ done' \in Seq(Ids) /\ Accepted' = Accepted
         /\ ToSet(done') = ToSet(done) \cup {p}
<1>1. /\ done \in Seq(Ids) /\ p \in Ids /\ done' = Append(done, p)
      /\ UNCHANGED <<posted, running>>
  BY DEF OrderTypes, Reach
<1>2. ToSet(done') = ToSet(done) \cup {p} /\ done' \in Seq(Ids)
  BY <1>1, ToSetAppend
<1>3. QED
  BY <1>1, <1>2 DEF QueueInv, Accepted

\* A handler returns.
LEMMA QueueFinish ==
  ASSUME OrderTypes, QueueInv, NEW p \in running, Finish(p)
  PROVE  /\ QueueInv' /\ Accepted' = Accepted
         /\ running' \subseteq running /\ IsFiniteSet(running') /\ Cardinality(running') <= threads
<1>1. running' = running \ {p} /\ p \in ToSet(done) /\ UNCHANGED <<posted, done, threads>>
  BY DEF Finish, conf
<1>2. IsFiniteSet(running) /\ Cardinality(running) <= threads /\ threads \in Nat
  BY DEF OrderTypes
<1>3. IsFiniteSet(running') /\ Cardinality(running') <= Cardinality(running)
  BY <1>1, <1>2, FS_Subset
<1>4. Cardinality(running') \in Nat /\ Cardinality(running) \in Nat
  BY <1>2, <1>3, FS_CardinalityType
<1>5. QED
  BY <1>1, <1>2, <1>3, <1>4 DEF QueueInv, Accepted

-----------------------------------------------------------------------------
(* Replies.                                                                *)

\* Nothing is written, and what the launcher has can only shrink.
LEMMA ReplyFrame ==
  ASSUME ReplyInv, UNCHANGED <<turns, kinds, written>>, submitted' \subseteq submitted,
         ToSet(done) \subseteq ToSet(done')
  PROVE  ReplyInv'
  BY DEF ReplyInv, Sent, IsPosted, RepliesTo

\* start_write is called for a packet that has reached its bucket or needs none.
LEMMA ReplyWrite ==
  ASSUME ReplyInv, NEW p \in Sent, IsPosted(p) => p \in ToSet(done), StartWrite(p),
         UNCHANGED <<turns, kinds>>, submitted' \subseteq submitted,
         ToSet(done) \subseteq ToSet(done')
  PROVE  ReplyInv'
<1>1. PICK r : written' = written \cup {r} /\ r[1] = p
  BY DEF StartWrite
<1>2. Sent' = Sent /\ (\A q : IsPosted(q)' <=> IsPosted(q))
  BY DEF Sent, IsPosted
<1>3. \A x \in written' : x[1] \in Sent /\ (IsPosted(x[1]) => x[1] \in ToSet(done'))
  BY <1>1 DEF ReplyInv
<1>4. \A q : RepliesTo(q) \subseteq RepliesTo(q)'
  BY <1>1 DEF RepliesTo
<1>5. QED
  BY <1>2, <1>3, <1>4 DEF ReplyInv

\* A client that waits sends when all its packets have been answered.
LEMMA ReplySend ==
  ASSUME OrderTypes, ReplyInv, NEW kind \in Kinds, Send(kind)
  PROVE  ReplyInv'
<1>1. /\ Len(kinds) \in Nat /\ Len(kinds') = Len(kinds) + 1
      /\ \A q \in Sent : q \in Sent' /\ kinds'[q] = kinds[q]
  BY DEF Send, OrderTypes, Sent
<1>2. /\ UNCHANGED <<turns, written, submitted, done>>
      /\ turns => \A q \in Sent : Answered(q)
  BY DEF Send, conf, queue, output
<1>3. turns => \A q \in Sent' : q < Len(kinds') => RepliesTo(q)' # {}
  <2> SUFFICES ASSUME turns, NEW q \in Sent', q < Len(kinds')
               PROVE  RepliesTo(q)' # {}
    OBVIOUS
  <2>1. q \in Sent
    BY <1>1 DEF Sent
  <2>2. RepliesTo(q) # {} /\ RepliesTo(q)' = RepliesTo(q)
    BY <1>2, <2>1 DEF Answered, RepliesTo
  <2>3. QED
    BY <2>2
<1>4. QED
  BY <1>1, <1>2, <1>3 DEF ReplyInv, IsPosted

-----------------------------------------------------------------------------
(* Overtaking.                                                             *)

LEMMA OvertakingFrame ==
  ASSUME Overtaking, UNCHANGED <<turns, threads, kinds, done>>
  PROVE  Overtaking'
  BY DEF Overtaking, Sent, IsPosted

\* A packet just sent is overtaken by none of those that have reached their buckets.
LEMMA OvertakingSend ==
  ASSUME OrderTypes, Overtaking, NEW kind \in Kinds, Send(kind)
  PROVE  Overtaking'
<1>1. /\ Len(kinds) \in Nat /\ Sent' = Sent \cup {Len(kinds) + 1}
      /\ \A q \in Sent : IsPosted(q)' <=> IsPosted(q)
      /\ UNCHANGED <<turns, threads, done>>
  BY DEF Send, OrderTypes, Sent, IsPosted, conf, queue
<1>2. \A i \in 1..Len(done) : done[i] \in Sent
  <2>1. \A i \in 1..Len(done) : done[i] \in ToSet(done)
    BY ToSetByIndex DEF OrderTypes
  <2>2. QED
    BY <2>1 DEF OrderTypes, Accepted
<1>3. \A i \in 1..Len(done) : ~(Len(kinds) + 1 < done[i])
  BY <1>1, <1>2 DEF Sent
<1>4. \A i \in 1..Len(done) :
        {q \in Sent' : q < done[i] /\ IsPosted(q)' /\ \A j \in 1..i : done[j] # q}
          = {q \in Sent : q < done[i] /\ IsPosted(q) /\ \A j \in 1..i : done[j] # q}
  BY <1>1, <1>3
<1>5. QED
  BY <1>1, <1>4 DEF Overtaking

\* A packet overtakes those only whose handlers other threads have taken, and none that
\* has been answered.
LEMMA OvertakingReach ==
  ASSUME OrderTypes, StreamInv, QueueInv, ReplyInv, Overtaking, NEW p \in running, Reach(p)
  PROVE  Overtaking'
<1>1. /\ done \in Seq(Ids) /\ p \in Ids /\ p \notin ToSet(done) /\ done' = Append(done, p)
      /\ UNCHANGED <<turns, threads, kinds>>
  BY DEF OrderTypes, Reach, conf, client
<1>2. /\ Len(done) \in Nat /\ Len(done') = Len(done) + 1 /\ done'[Len(done) + 1] = p
      /\ \A i \in 1..Len(done) : done'[i] = done[i]
  BY <1>1
<1>3. /\ p \in Sent /\ p \in Accepted /\ Sent' = Sent /\ (\A q : IsPosted(q)' <=> IsPosted(q))
  BY <1>1 DEF OrderTypes, Accepted, Sent, IsPosted
<1> DEFINE Over(d, i) == {q \in Sent : q < d[i] /\ IsPosted(q) /\ \A j \in 1..i : d[j] # q}
<1>4. \A i \in 1..Len(done) : Over(done', i) = Over(done, i)
  <2> SUFFICES ASSUME NEW i \in 1..Len(done)
               PROVE  Over(done', i) = Over(done, i)
    OBVIOUS
  <2>1. \A j \in 1..i : j \in 1..Len(done)
    BY <1>2
  <2>2. QED
    BY <1>2, <2>1
<1>5. Over(done', Len(done) + 1) \subseteq running \ {p}
      /\ (turns => Over(done', Len(done) + 1) = {})
  <2> SUFFICES ASSUME NEW q \in Over(done', Len(done) + 1)
               PROVE  q \in running /\ q # p /\ ~turns
    OBVIOUS
  <2>1. q \in Sent /\ q < p /\ IsPosted(q)
    BY <1>2
  <2>2. q \notin ToSet(done)
    <3>1. \A j \in 1..Len(done) : done[j] # q
      BY <1>2
    <3>2. QED
      BY <1>1, <3>1, ToSetByIndex
  <2>3. p \in Nat /\ q \in Nat /\ ~(p < q) /\ p # q
    BY <1>3, <2>1 DEF Sent
  <2>4. q \in Accepted
    BY <1>3, <2>1, <2>3 DEF StreamInv
  <2>5. q \notin ToSet(posted)
    BY <2>3 DEF QueueInv
  <2>6. q \in running
    BY <2>2, <2>4, <2>5 DEF Accepted
  <2>7. ~turns
    <3>1. SUFFICES ASSUME turns PROVE FALSE
      OBVIOUS
    <3>2. q < Len(kinds)
      BY <1>3, <2>1, <2>3 DEF Sent, OrderTypes
    <3>3. PICK r \in written : r[1] = q
      BY <2>1, <3>1, <3>2 DEF ReplyInv, RepliesTo
    <3>4. QED
      BY <2>1, <2>2, <3>3 DEF ReplyInv
  <2>8. QED
    BY <2>3, <2>6, <2>7
<1>6. Cardinality(Over(done', Len(done) + 1)) < threads
  <2>1. /\ IsFiniteSet(running) /\ Cardinality(running) <= threads /\ threads \in Nat
        /\ Cardinality(running) \in Nat
    BY FS_CardinalityType DEF OrderTypes
  <2>2. IsFiniteSet(running \ {p}) /\ Cardinality(running \ {p}) = Cardinality(running) - 1
    BY <2>1, FS_RemoveElement
  <2>3. /\ IsFiniteSet(Over(done', Len(done) + 1))
        /\ Cardinality(Over(done', Len(done) + 1)) <= Cardinality(running \ {p})
    BY <1>5, <2>2, FS_Subset
  <2>4. Cardinality(Over(done', Len(done) + 1)) \in Nat
    BY <2>3, FS_CardinalityType
  <2>5. QED
    BY <2>1, <2>2, <2>3, <2>4
<1>7. \A i \in 1..Len(done) :
        IF turns THEN Over(done, i) = {} ELSE Cardinality(Over(done, i)) < threads
  BY DEF Overtaking
<1>8. \A i \in 1..Len(done') :
        IF turns THEN Over(done', i) = {} ELSE Cardinality(Over(done', i)) < threads
  <2> HIDE DEF Over
  <2>1. \A i \in 1..Len(done') : i \in 1..Len(done) \/ i = Len(done) + 1
    BY <1>2
  <2>2. QED
    BY <1>4, <1>5, <1>6, <1>7, <2>1
<1>9. QED
  BY <1>1, <1>3, <1>8 DEF Overtaking

-----------------------------------------------------------------------------
(* The invariant, action by action.                                        *)

\* Steps that touch neither stream, queue nor client.
LEMMA OrderFrame ==
  ASSUME IInv, UNCHANGED <<conf, client, inbound, queue>>, ReplyInv'
  PROVE  IInv'
<1> USE DEF conf, client, queue
<1>1. OrderTypes'
  BY DEF IInv, OrderTypes, Accepted, Sent
<1>2. StreamInv'
  BY DEF IInv, StreamInv, Accepted, Sent, IsPosted, LastPart
<1>3. QueueInv'
  BY DEF IInv, QueueInv
<1>4. Overtaking'
  BY OvertakingFrame DEF IInv
<1>5. QED
  BY <1>1, <1>2, <1>3, <1>4 DEF IInv

\* A read completes that posts no handler.
LEMMA OrderSkip ==
  ASSUME IInv, NEW part, NEW kind, Completes(part, kind), UNCHANGED posted, ReplyInv',
         kind = "put" => part = "header", kind # "get"
  PROVE  IInv'
<1> USE DEF IInv
<1>1. /\ inbound # <<>> /\ inbound' = Tail(inbound)
      /\ Head(inbound).part = part /\ kinds[Head(inbound).packet] = kind
      /\ UNCHANGED <<turns, threads, kinds, peer, posted, running, done>>
  BY DEF Completes, conf, client
<1>2. Accepted' = Accepted /\ Sent' = Sent
  BY <1>1 DEF Accepted, Sent
<1>3. \A q \in Sent : IsPosted(q) => inbound[1] # LastPart(q)
  BY <1>1, StreamTail DEF IsPosted, LastPart
<1>4. StreamInv'
  BY <1>1, <1>2, <1>3, StreamSkip
<1>5. /\ inbound' \in Seq(Parts)
      /\ \A i \in 1..Len(inbound') : inbound'[i].packet \in Sent
  <2>1. /\ Len(inbound) \in Nat \ {0} /\ Len(inbound') = Len(inbound) - 1
        /\ inbound' \in Seq(Parts)
        /\ \A i \in 1..(Len(inbound) - 1) : inbound'[i] = inbound[i + 1]
    BY <1>1, StreamTail
  <2>2. \A i \in 1..Len(inbound') : i + 1 \in 1..Len(inbound)
    BY <2>1
  <2>3. QED
    BY <2>1, <2>2 DEF OrderTypes
<1>6. OrderTypes'
  BY <1>1, <1>2, <1>5 DEF OrderTypes
<1>7. QueueInv' /\ Overtaking'
  BY <1>1, OvertakingFrame DEF QueueInv
<1>8. QED
  BY <1>4, <1>6, <1>7

\* A read completes that posts a handler.
LEMMA OrderAccept ==
  ASSUME IInv, NEW part, NEW kind, Completes(part, kind),
         posted' = Append(posted, Head(inbound).packet), ReplyInv',
         <<part, kind>> \in {<<"body", "put">>, <<"header", "get">>}
  PROVE  IInv'
<1> USE DEF IInv
<1>0. PICK p \in Sent : p = Head(inbound).packet
  BY StreamTail DEF Completes
<1>1. /\ inbound # <<>> /\ inbound' = Tail(inbound)
      /\ Head(inbound).part = part /\ kinds[p] = kind
      /\ UNCHANGED <<turns, threads, kinds, peer, running, done>>
      /\ posted' = Append(posted, p)
  BY <1>0 DEF Completes, conf, client
<1>2. IsPosted(p) /\ inbound[1] = LastPart(p)
  BY <1>0, <1>1, StreamTail DEF IsPosted, LastPart, Parts
<1>3. p \in Ids /\ Sent' = Sent
  <2>1. Len(kinds) \in Nat /\ Len(kinds) <= MaxPackets
    BY DEF OrderTypes
  <2>2. p \in Ids
    BY <2>1, BoundsAssumption DEF Sent, Ids
  <2>3. QED
    BY <1>1, <2>2 DEF Sent
<1>4. \A h \in Accepted : h < p
  BY <1>0, <1>1, StreamTail DEF StreamInv, OrderTypes
<1>5. QueueInv' /\ posted' \in Seq(Ids) /\ Accepted' = Accepted \cup {p}
  BY <1>1, <1>3, <1>4, QueueAccept
<1>6. StreamInv'
  BY <1>1, <1>2, <1>5, StreamAccept
<1>7. /\ inbound' \in Seq(Parts)
      /\ \A i \in 1..Len(inbound') : inbound'[i].packet \in Sent
  <2>1. /\ Len(inbound) \in Nat \ {0} /\ Len(inbound') = Len(inbound) - 1
        /\ inbound' \in Seq(Parts)
        /\ \A i \in 1..(Len(inbound) - 1) : inbound'[i] = inbound[i + 1]
    BY <1>1, StreamTail
  <2>2. \A i \in 1..Len(inbound') : i + 1 \in 1..Len(inbound)
    BY <2>1
  <2>3. QED
    BY <2>1, <2>2 DEF OrderTypes
<1>8. OrderTypes'
  BY <1>1, <1>3, <1>5, <1>7 DEF OrderTypes
<1>9. Overtaking'
  BY <1>1, OvertakingFrame
<1>10. QED
  BY <1>5, <1>6, <1>8, <1>9

\* Packets being sent, and the end of the stream.
LEMMA OrderClient ==
  ASSUME IInv, (\E kind \in Kinds : Send(kind)) \/ HangUp
  PROVE  IInv'
<1> USE DEF IInv
<1>1. ASSUME NEW kind \in Kinds, Send(kind) PROVE IInv'
  <2>1. StreamInv' /\ ReplyInv' /\ Overtaking'
    BY <1>1, StreamSend, ReplySend, OvertakingSend
  <2>2. QueueInv'
    BY <1>1 DEF Send, queue, QueueInv
  <2>3. /\ kinds' \in Seq(Kinds) /\ Len(kinds') <= MaxPackets /\ Sent \subseteq Sent'
        /\ Len(kinds) + 1 \in Sent' /\ Len(kinds) + 1 \in Ids
    BY <1>1, BoundsAssumption DEF Send, OrderTypes, Sent, Ids
  <2>4. /\ inbound' \in Seq(Parts) /\ \A i \in 1..Len(inbound') : inbound'[i].packet \in Sent'
    <3>1. PICK T : /\ T = Tokens(Len(kinds) + 1, kind) /\ inbound' = inbound \o T
      BY <1>1 DEF Send
    <3>2. T \in Seq(Parts) /\ \A i \in 1..Len(T) : T[i].packet = Len(kinds) + 1
      <4> DEFINE header == [packet |-> Len(kinds) + 1, part |-> "header"]
                 body == [packet |-> Len(kinds) + 1, part |-> "body"]
      <4>1. header \in Parts /\ body \in Parts
        BY <2>3 DEF Parts
      <4>2. CASE kind \in WithBody
        <5>1. T = <<header, body>>
          BY <3>1, <4>2 DEF Tokens
        <5>2. QED
          BY <4>1, <5>1
      <4>3. CASE kind \notin WithBody
        <5>1. T = <<header>>
          BY <3>1, <4>3 DEF Tokens
        <5>2. QED
          BY <4>1, <5>1
      <4>4. QED
        BY <4>2, <4>3
    <3>3. /\ inbound' \in Seq(Parts) /\ Len(inbound') = Len(inbound) + Len(T)
          /\ Len(inbound) \in Nat /\ Len(T) \in Nat
          /\ \A i \in 1..Len(inbound) : inbound'[i] = inbound[i]
          /\ \A i \in 1..Len(T) : inbound'[Len(inbound) + i] = T[i]
      BY <3>1, <3>2 DEF OrderTypes
    <3>4. ASSUME NEW i \in 1..Len(inbound') PROVE inbound'[i].packet \in Sent'
      <4>1. CASE i \in 1..Len(inbound)
        BY <2>3, <3>3, <4>1 DEF OrderTypes
      <4>2. CASE i \notin 1..Len(inbound)
        <5>1. PICK k \in 1..Len(T) : i = Len(inbound) + k
          <6>1. i - Len(inbound) \in 1..Len(T) /\ i = Len(inbound) + (i - Len(inbound))
            BY <3>3, <4>2
          <6>2. QED
            BY <6>1
        <5>2. QED
          BY <2>3, <3>2, <3>3, <5>1
      <4>3. QED
        BY <4>1, <4>2
    <3>5. QED
      BY <3>3, <3>4
  <2>5. UNCHANGED <<turns, threads, peer, posted, running, done>> /\ Accepted' = Accepted
    BY <1>1 DEF Send, conf, queue, Accepted
  <2>6. OrderTypes'
    BY <2>3, <2>4, <2>5 DEF OrderTypes
  <2>7. QED
    BY <2>1, <2>2, <2>6
<1>2. CASE HangUp
  <2>1. StreamInv'
    BY <1>2, StreamHangUp
  <2>2. /\ UNCHANGED <<turns, threads, kinds, posted, running, done, submitted, written>>
        /\ peer' = "gone"
    BY <1>2 DEF HangUp, conf, queue, output
  <2>3. QueueInv' /\ Overtaking' /\ ReplyInv'
    BY <2>2, OvertakingFrame, ReplyFrame DEF QueueInv
  <2>4. PICK n \in 0..Len(inbound) : inbound' = SubSeq(inbound, 1, n)
    BY <1>2 DEF HangUp
  <2>5. /\ inbound' \in Seq(Parts) /\ Len(inbound') = n
        /\ \A i \in 1..n : inbound'[i] = inbound[i] /\ i \in 1..Len(inbound)
    BY <2>4 DEF OrderTypes
  <2>6. OrderTypes'
    BY <2>2, <2>5 DEF OrderTypes, Accepted, Sent
  <2>7. QED
    BY <2>1, <2>3, <2>6
<1>3. QED
  BY <1>1, <1>2

\* The other steps: those of the launcher and the buckets, of the socket and of threads.
LEMMA OrderStep ==
  ASSUME IInv, [Next]_vars
  PROVE  IInv'
<1> USE DEF IInv
<1>1. CASE (\E kind \in Kinds : Send(kind)) \/ HangUp
  BY <1>1, OrderClient
<1>2. ASSUME NEW p \in Sent, Deliver(p) PROVE IInv'
  <2>1. /\ UNCHANGED <<conf, client, inbound, queue, submitted>> /\ StartWrite(p)
        /\ p \in ToSet(done)
    BY <1>2 DEF Deliver
  <2>2. ReplyInv'
    BY <2>1, ReplyWrite DEF conf, client, queue
  <2>3. QED
    BY <2>1, <2>2, OrderFrame
<1>3. ASSUME NEW p \in submitted, Complete(p) PROVE IInv'
  <2>1. /\ UNCHANGED <<conf, client, inbound, queue>> /\ StartWrite(p)
        /\ submitted' \subseteq submitted
        /\ p \in Sent /\ kinds[p] = "trigger"
    BY <1>3 DEF Complete, ReplyInv
  <2>2. ReplyInv'
    BY <2>1, ReplyWrite DEF conf, client, queue, IsPosted
  <2>3. QED
    BY <2>1, <2>2, OrderFrame
<1>4. CASE HeaderWithBody
  <2>1. PICK kind \in WithBody : Completes("header", kind)
    BY <1>4 DEF HeaderWithBody
  <2>2. /\ UNCHANGED <<turns, kinds, done, posted, submitted, written>>
        /\ kind # "get"
    BY <1>4, <2>1 DEF HeaderWithBody, Completes, conf, client, output, WithBody
  <2>3. ReplyInv'
    BY <2>2, ReplyFrame
  <2>4. QED
    BY <2>1, <2>2, <2>3, OrderSkip
<1>5. CASE HeaderGet
  <2>1. /\ Completes("header", "get") /\ posted' = Append(posted, Head(inbound).packet)
        /\ UNCHANGED <<turns, kinds, done, submitted, written>>
    BY <1>5 DEF HeaderGet, Completes, conf, client, output
  <2>2. ReplyInv'
    BY <2>1, ReplyFrame
  <2>3. QED
    BY <2>1, <2>2, OrderAccept
<1>6. CASE HeaderStray
  <2>1. PICK p \in Sent : p = Head(inbound).packet
    BY <1>6, StreamTail DEF HeaderStray, Completes
  <2>2. /\ Completes("header", "stray") /\ StartWrite(p) /\ kinds[p] = "stray"
        /\ UNCHANGED <<turns, kinds, done, posted, submitted>>
    BY <1>6, <2>1 DEF HeaderStray, Completes, conf, client
  <2>3. ReplyInv'
    BY <2>2, ReplyWrite DEF IsPosted
  <2>4. QED
    BY <2>2, <2>3, OrderSkip
<1>7. CASE HeaderWorker
  <2>1. /\ Completes("header", "worker_reg")
        /\ UNCHANGED <<turns, kinds, done, posted, submitted, written>>
    BY <1>7 DEF HeaderWorker, Completes, conf, client, output
  <2>2. ReplyInv'
    BY <2>1, ReplyFrame
  <2>3. QED
    BY <2>1, <2>2, OrderSkip
<1>8. CASE BodyPut
  <2>1. /\ Completes("body", "put") /\ posted' = Append(posted, Head(inbound).packet)
        /\ UNCHANGED <<turns, kinds, done, submitted, written>>
    BY <1>8 DEF BodyPut, Completes, conf, client, output
  <2>2. ReplyInv'
    BY <2>1, ReplyFrame
  <2>3. QED
    BY <2>1, <2>2, OrderAccept
<1>9. CASE BodyTrigger
  <2>1. PICK p \in Sent : p = Head(inbound).packet
    BY <1>9, StreamTail DEF BodyTrigger, Completes
  <2>2. /\ Completes("body", "trigger") /\ submitted' = submitted \cup {p}
        /\ kinds[p] = "trigger"
        /\ UNCHANGED <<turns, kinds, done, posted, written>>
    BY <1>9, <2>1 DEF BodyTrigger, Completes, conf, client, output
  <2>3. ReplyInv'
    BY <2>2 DEF ReplyInv, Sent, IsPosted, RepliesTo
  <2>4. QED
    BY <2>2, <2>3, OrderSkip
<1>10. CASE ReadError \/ Write
  <2>1. UNCHANGED <<conf, client, inbound, queue, submitted, written>>
    BY <1>10 DEF ReadError, Write, Transmit, WriteError, Resume, output
  <2>2. ReplyInv'
    BY <2>1, ReplyFrame DEF conf, client, queue
  <2>3. QED
    BY <2>1, <2>2, OrderFrame
<1>11. CASE Take
  <2>1. UNCHANGED <<turns, threads, kinds, peer, inbound, done, submitted, written>>
    BY <1>11 DEF Take, conf, client, output
  <2>2. /\ QueueInv' /\ posted' \in Seq(Ids) /\ Accepted' = Accepted
        /\ running' \subseteq Ids /\ IsFiniteSet(running') /\ Cardinality(running') <= threads
    BY <1>11, QueueTake
  <2>3. OrderTypes'
    BY <2>1, <2>2 DEF OrderTypes, Sent
  <2>4. StreamInv'
    BY <2>1, <2>2 DEF StreamInv, Sent, IsPosted, LastPart
  <2>5. ReplyInv' /\ Overtaking'
    BY <2>1, ReplyFrame, OvertakingFrame
  <2>6. QED
    BY <2>2, <2>3, <2>4, <2>5
<1>12. ASSUME NEW p \in running, Reach(p) PROVE IInv'
  <2>1. UNCHANGED <<turns, threads, kinds, peer, inbound, posted, running, submitted, written>>
    BY <1>12 DEF Reach, conf, client, output
  <2>2. /\ QueueInv' /\ done' \in Seq(Ids) /\ Accepted' = Accepted
        /\ ToSet(done') = ToSet(done) \cup {p}
    BY <1>12, QueueReach
  <2>3. OrderTypes'
    BY <2>1, <2>2 DEF OrderTypes, Sent
  <2>4. StreamInv'
    BY <2>1, <2>2 DEF StreamInv, Sent, IsPosted, LastPart
  <2>5. ReplyInv' /\ Overtaking'
    BY <1>12, <2>1, <2>2, ReplyFrame, OvertakingReach
  <2>6. QED
    BY <2>2, <2>3, <2>4, <2>5
<1>13. ASSUME NEW p \in running, Finish(p) PROVE IInv'
  <2>1. UNCHANGED <<turns, threads, kinds, peer, inbound, posted, done, submitted>>
    BY <1>13 DEF Finish, conf, client
  <2>2. /\ QueueInv' /\ Accepted' = Accepted
        /\ running' \subseteq running /\ IsFiniteSet(running') /\ Cardinality(running') <= threads
    BY <1>13, QueueFinish
  <2>3. OrderTypes'
    BY <2>1, <2>2 DEF OrderTypes, Sent
  <2>4. StreamInv'
    BY <2>1, <2>2 DEF StreamInv, Sent, IsPosted, LastPart
  <2>5. ReplyInv'
    <3>1. p \in Sent /\ p \in ToSet(done)
      BY <1>13 DEF Finish, OrderTypes, Accepted
    <3>2. StartWrite(p) \/ UNCHANGED written
      BY <1>13 DEF Finish, output
    <3>3. QED
      BY <2>1, <3>1, <3>2, ReplyWrite, ReplyFrame
  <2>6. Overtaking'
    BY <2>1, OvertakingFrame
  <2>7. QED
    BY <2>2, <2>3, <2>4, <2>5, <2>6
<1>14. CASE UNCHANGED vars
  <2>1. UNCHANGED <<conf, client, inbound, queue, submitted, written>>
    BY <1>14 DEF vars, output
  <2>2. ReplyInv'
    BY <2>1, ReplyFrame DEF conf, client, queue
  <2>3. QED
    BY <2>1, <2>2, OrderFrame
<1>15. QED
  BY <1>1, <1>2, <1>3, <1>4, <1>5, <1>6, <1>7, <1>8, <1>9, <1>10, <1>11, <1>12, <1>13, <1>14
     DEF Next, Server, Answer, Read, Handle

LEMMA OrderInit == Init => IInv
<1> SUFFICES ASSUME Init PROVE IInv
  OBVIOUS
<1>1. /\ <<>> \in Seq(Kinds) /\ <<>> \in Seq(Parts) /\ <<>> \in Seq(Ids) /\ Len(<<>>) = 0
      /\ IsFiniteSet({}) /\ Cardinality({}) = 0
  BY EmptySeq, FS_EmptySet
<1>2. ToSet(<<>>) = {}
  BY DEF ToSet
<1>3. Sent = {} /\ Accepted = {}
  BY <1>1, <1>2 DEF Init, Sent, Accepted
<1>4. OrderTypes
  BY <1>1, <1>3, BoundsAssumption, ThreadsAssumption DEF Init, OrderTypes
<1>5. StreamInv /\ QueueInv
  BY <1>1, <1>2, <1>3 DEF Init, StreamInv, QueueInv
<1>6. ReplyInv /\ Overtaking
  BY <1>1, <1>3 DEF Init, ReplyInv, Overtaking
<1>7. QED
  BY <1>4, <1>5, <1>6 DEF IInv

\* The strengthening: the stream, the queue and the replies of a connection are in order.
THEOREM Inductive == Spec => []IInv
  BY OrderInit, OrderStep, PTL DEF Spec

\* For any number of packets and threads: what is posted by start_store and start_load
\* overtakes fewer packets than there are threads, and none that the client knows of.
THEOREM FewOvertaken == Spec => []Overtaking
<1>1. IInv => Overtaking
  BY DEF IInv
<1>2. QED
  BY <1>1, Inductive, PTL

-----------------------------------------------------------------------------
(* Replies are neither lost nor torn.                                      *)

\* No reply before it is due: to a packet still on its way or at the launcher, or to a
\* PUT whose handler has not returned.
Coming == {inbound[i].packet : i \in 1..Len(inbound)}

FreshInv ==
  /\ \A p \in Coming : RepliesTo(p) = {} /\ p \notin submitted
  /\ \A p \in submitted : RepliesTo(p) = {}
  /\ \A p \in ToSet(posted) \cup running : kinds[p] = "put" => RepliesTo(p) = {}

\* worker_reg is the last packet, and has no reply.
WorkerInv ==
  /\ \A p \in Sent : kinds[p] = "worker_reg" => p = Len(kinds)
  /\ moved => \E p \in Sent : kinds[p] = "worker_reg"
  /\ \A r \in written : kinds[r[1]] # "worker_reg"

\* The replies to a packet are counted.
NumberInv ==
  \A p \in Ids : \E k \in 0..MaxDrained : RepliesTo(p) = {<<p, n>> : n \in 1..k}

OutputTypes ==
  /\ writes \in Seq(Entries) /\ resuming \subseteq Entries
  /\ written \subseteq Replies /\ mixed \subseteq Replies
  /\ arrived \in [Replies -> 0..Units]

\* A reply is under way once, with what has not arrived of it.
OutputInv ==
  /\ \A r \in Replies \ written : arrived[r] = 0
  /\ \A w \in ToSet(writes) \cup resuming : w.reply \in written /\ arrived[w.reply] + w.left = Units
  /\ \A i, j \in 1..Len(writes) : writes[i].reply = writes[j].reply => i = j
  /\ \A w \in ToSet(writes) : \A v \in resuming : w.reply # v.reply

\* A client that waits has all its packets but the last answered.
TurnInv == turns => \A p \in Sent : p < Len(kinds) => Answered(p)

OutInv ==
  /\ OutputTypes /\ WorkerInv /\ NumberInv /\ OutputInv /\ TurnInv
  /\ NothingLost /\ WholeReplies

WInv == OutInv /\ FreshInv

\* The replies to a packet, counted.
LEMMA CountReplies ==
  ASSUME NEW p, NEW k \in Nat
  PROVE  /\ IsFiniteSet({<<p, n>> : n \in 1..k})
         /\ Cardinality({<<p, n>> : n \in 1..k}) = k
<1>1. PICK f : f = [n \in 1..k |-> <<p, n>>]
  OBVIOUS
<1>2. f \in Bijection(1..k, {<<p, n>> : n \in 1..k})
  BY <1>1 DEF Bijection, Injection, Surjection, IsInjective
<1>3. ExistsBijection(1..k, {<<p, n>> : n \in 1..k})
  BY <1>2 DEF ExistsBijection
<1>4. IsFiniteSet(1..k) /\ Cardinality(1..k) = k
  BY FS_Interval
<1>5. QED
  BY <1>3, <1>4, FS_Bijection

\* start_write makes a reply that is new.
LEMMA NewReply ==
  ASSUME OutputTypes, NumberInv, NEW p \in Ids, StartWrite(p),
         RepliesTo(p) = {} \/ Cardinality(RepliesTo(p)) < MaxDrained
  PROVE  \E r \in Replies \ written :
           /\ written' = written \cup {r} /\ r[1] = p
           /\ writes' = IF moved THEN writes ELSE Append(writes, [reply |-> r, left |-> Units])
           /\ NumberInv'
           /\ \A q : q # p => RepliesTo(q)' = RepliesTo(q)
           /\ RepliesTo(p) # {} => Cardinality(RepliesTo(p)') > 1
           /\ \A q : Cardinality(RepliesTo(q)) > 1 => Cardinality(RepliesTo(q)') > 1
<1>1. PICK k \in 0..MaxDrained : RepliesTo(p) = {<<p, n>> : n \in 1..k}
  BY DEF NumberInv
<1>2. Cardinality(RepliesTo(p)) = k
  <2>1. k \in Nat
    BY BoundsAssumption
  <2>2. Cardinality({<<p, n>> : n \in 1..k}) = k
    BY <2>1, CountReplies
  <2>3. QED
    BY <1>1, <2>2
<1>3. k < MaxDrained /\ (RepliesTo(p) = {} <=> k = 0) /\ k \in Nat
  <2>1. RepliesTo(p) = {} => k = 0
    BY <1>2, FS_EmptySet
  <2>2. k = 0 => RepliesTo(p) = {}
    BY <1>1
  <2>3. QED
    BY <1>2, <2>1, <2>2, BoundsAssumption
<1>4. PICK r : r = <<p, k + 1>>
  OBVIOUS
<1>5. r \in Replies /\ r[1] = p
  BY <1>3, <1>4, BoundsAssumption DEF Replies
<1>6. r \notin written
  <2>1. r \notin RepliesTo(p)
    BY <1>1, <1>4
  <2>2. QED
    BY <1>5, <2>1 DEF RepliesTo
<1>7. /\ written' = written \cup {r}
      /\ writes' = IF moved THEN writes ELSE Append(writes, [reply |-> r, left |-> Units])
  BY <1>2, <1>4 DEF StartWrite
<1>8. \A q : q # p => RepliesTo(q)' = RepliesTo(q)
  BY <1>5, <1>7 DEF RepliesTo
<1>9. RepliesTo(p)' = RepliesTo(p) \cup {r}
  BY <1>5, <1>7 DEF RepliesTo
<1>10. RepliesTo(p)' = {<<p, n>> : n \in 1..(k + 1)} /\ k + 1 \in 0..MaxDrained
  <2>1. 1..(k + 1) = (1..k) \cup {k + 1} /\ k + 1 \in 0..MaxDrained
    BY <1>3, BoundsAssumption
  <2>2. QED
    BY <1>1, <1>4, <1>9, <2>1
<1>11. NumberInv'
  <2> SUFFICES ASSUME NEW q \in Ids
               PROVE  \E l \in 0..MaxDrained : RepliesTo(q)' = {<<q, n>> : n \in 1..l}
    BY DEF NumberInv
  <2>1. CASE q = p
    BY <1>10, <2>1
  <2>2. CASE q # p
    <3>1. RepliesTo(q)' = RepliesTo(q)
      BY <1>8, <2>2
    <3>2. QED
      BY <3>1 DEF NumberInv
  <2>3. QED
    BY <2>1, <2>2
<1>12. /\ RepliesTo(p) # {} => Cardinality(RepliesTo(p)') > 1
       /\ \A q : Cardinality(RepliesTo(q)) > 1 => Cardinality(RepliesTo(q)') > 1
  <2>1. Cardinality(RepliesTo(p)') = k + 1
    <3>1. k + 1 \in Nat
      BY <1>3
    <3>2. QED
      BY <1>10, <3>1, CountReplies
  <2>2. QED
    BY <1>2, <1>3, <1>8, <2>1
<1>13. QED
  BY <1>5, <1>6, <1>7, <1>8, <1>11, <1>12

\* A packet that has not been sent several replies has been sent one at most.
LEMMA OnlyReply ==
  ASSUME NumberInv, NEW p \in Ids, ~(Cardinality(RepliesTo(p)) > 1),
         NEW q \in RepliesTo(p), NEW r \in RepliesTo(p)
  PROVE  q = r
<1>1. PICK k \in 0..MaxDrained : RepliesTo(p) = {<<p, n>> : n \in 1..k}
  BY DEF NumberInv
<1>2. k \in Nat
  BY BoundsAssumption
<1>3. Cardinality({<<p, n>> : n \in 1..k}) = k
  BY <1>2, CountReplies
<1>4. ~(k > 1)
  BY <1>1, <1>3
<1>5. PICK m \in 1..k : q = <<p, m>>
  BY <1>1
<1>6. PICK n \in 1..k : r = <<p, n>>
  BY <1>1
<1>7. m = n
  BY <1>2, <1>4
<1>8. QED
  BY <1>5, <1>6, <1>7

\* What a client that waits has got: all but the last reply and what a GET was sent
\* besides, and a worker owns the socket only when it has sent nothing else since.
LEMMA WorkerDone ==
  ASSUME OrderTypes, OutputTypes, NumberInv, ReplyInv, WorkerInv, TurnInv, turns
  PROVE  /\ \A r \in written :
              r[1] < Len(kinds) /\ ~(Cardinality(RepliesTo(r[1])) > 1) => arrived[r] = Units
         /\ moved => \A p \in Sent : kinds[p] # "worker_reg" => p < Len(kinds) /\ Answered(p)
<1>0. Len(kinds) \in Nat
  BY DEF OrderTypes
<1>1. ASSUME NEW r \in written, r[1] < Len(kinds), ~(Cardinality(RepliesTo(r[1])) > 1)
      PROVE  arrived[r] = Units
  <2>1. r[1] \in Sent /\ r[1] \in Ids
    BY DEF ReplyInv, OutputTypes, Replies
  <2>2. PICK q \in RepliesTo(r[1]) : arrived[q] = Units
    BY <1>1, <2>1 DEF TurnInv, Answered
  <2>3. r \in RepliesTo(r[1])
    BY DEF RepliesTo
  <2>4. q = r
    BY <1>1, <2>1, <2>3, OnlyReply
  <2>5. QED
    BY <2>2, <2>4
<1>2. ASSUME moved, NEW p \in Sent, kinds[p] # "worker_reg"
      PROVE  p < Len(kinds) /\ Answered(p)
  <2>1. kinds[Len(kinds)] = "worker_reg"
    BY <1>2 DEF WorkerInv
  <2>2. p < Len(kinds)
    BY <1>0, <1>2, <2>1 DEF Sent
  <2>3. QED
    BY <2>2 DEF TurnInv
<1>3. QED
  BY <1>1, <1>2

\* Nothing is written, nothing is sent.
LEMMA OutFrame ==
  ASSUME OutInv, UNCHANGED <<turns, kinds, moved, output>>, peer' = peer \/ peer' = "gone"
  PROVE  OutInv'
<1> USE DEF OutInv, output
<1>1. OutputTypes' /\ NumberInv' /\ OutputInv' /\ WholeReplies'
  BY DEF OutputTypes, NumberInv, OutputInv, WholeReplies, RepliesTo
<1>2. WorkerInv' /\ TurnInv'
  BY DEF WorkerInv, TurnInv, Sent, Answered, RepliesTo
<1>3. NothingLost'
  BY DEF NothingLost, RepliesTo
<1>4. QED
  BY <1>1, <1>2, <1>3

\* start_write, for a packet whose first reply this is, or for another message to a GET.
LEMMA OutWrite ==
  ASSUME OrderTypes, ReplyInv, OutInv, NEW p \in Sent, StartWrite(p), kinds[p] # "worker_reg",
         RepliesTo(p) = {} \/ Cardinality(RepliesTo(p)) < MaxDrained,
         UNCHANGED <<turns, kinds, moved, peer>>
  PROVE  OutInv' /\ \A q : q # p => RepliesTo(q)' = RepliesTo(q)
<1> USE DEF OutInv
<1>0. p \in Ids
  BY BoundsAssumption DEF Sent, Ids, OrderTypes
<1>1. PICK r \in Replies \ written :
        /\ written' = written \cup {r} /\ r[1] = p
        /\ writes' = IF moved THEN writes ELSE Append(writes, [reply |-> r, left |-> Units])
        /\ NumberInv'
        /\ \A q : q # p => RepliesTo(q)' = RepliesTo(q)
        /\ RepliesTo(p) # {} => Cardinality(RepliesTo(p)') > 1
        /\ \A q : Cardinality(RepliesTo(q)) > 1 => Cardinality(RepliesTo(q)') > 1
  BY <1>0, NewReply
<1>2. UNCHANGED <<resuming, arrived, mixed, turns, kinds, moved, peer>> /\ Sent' = Sent
  BY DEF StartWrite, Sent
<1>3. PICK E, e : /\ E = Entries /\ e = [reply |-> r, left |-> Units] /\ e \in E
                  /\ writes \in Seq(E) /\ e.reply = r /\ e.left = Units
  <2>1. PICK e : e = [reply |-> r, left |-> Units]
    OBVIOUS
  <2>2. e \in Entries /\ e.reply = r /\ e.left = Units
    BY <2>1, BoundsAssumption DEF Entries
  <2>3. QED
    BY <2>1, <2>2 DEF OutputTypes
<1>4. /\ writes' \in Seq(E)
      /\ ToSet(writes') = IF moved THEN ToSet(writes) ELSE ToSet(writes) \cup {e}
  <2>1. Append(writes, e) \in Seq(E)
    BY <1>3
  <2>2. ToSet(Append(writes, e)) = ToSet(writes) \cup {e}
    BY <1>3, ToSetAppend
  <2>3. writes' = IF moved THEN writes ELSE Append(writes, e)
    BY <1>1, <1>3
  <2>4. QED
    BY <1>3, <2>1, <2>2, <2>3
<1>5. OutputTypes'
  BY <1>1, <1>2, <1>3, <1>4 DEF OutputTypes
<1>6. arrived[r] = 0 /\ Units \in Nat
  BY BoundsAssumption DEF OutputInv
<1>7. \A w \in ToSet(writes) \cup resuming : w.reply # r
  BY DEF OutputInv
<1>8. OutputInv'
  <2>1. \A x \in Replies \ written' : arrived'[x] = 0
    BY <1>1, <1>2 DEF OutputInv
  <2>2. \A w \in ToSet(writes') \cup resuming' :
          w.reply \in written' /\ arrived'[w.reply] + w.left = Units
    BY <1>1, <1>2, <1>3, <1>4, <1>6 DEF OutputInv
  <2>3. \A i, j \in 1..Len(writes') : writes'[i].reply = writes'[j].reply => i = j
    <3>1. CASE moved
      BY <1>1, <3>1 DEF OutputInv
    <3>2. CASE ~moved
      <4>1. /\ Len(writes') = Len(writes) + 1 /\ Len(writes) \in Nat
            /\ writes'[Len(writes) + 1] = e
            /\ \A i \in 1..Len(writes) : writes'[i] = writes[i]
        BY <1>1, <1>3, <3>2
      <4>2. \A i \in 1..Len(writes) : writes[i].reply # r
        BY <1>3, <1>7, ToSetByIndex
      <4>3. \A i \in 1..Len(writes') : i \in 1..Len(writes) \/ i = Len(writes) + 1
        BY <4>1
      <4>4. \A i \in 1..Len(writes') : i \in 1..Len(writes) <=> writes'[i].reply # r
        BY <1>3, <4>1, <4>2, <4>3
      <4>5. QED
        BY <4>1, <4>3, <4>4 DEF OutputInv
    <3>3. QED
      BY <3>1, <3>2
  <2>4. \A w \in ToSet(writes') : \A v \in resuming' : w.reply # v.reply
    BY <1>2, <1>3, <1>4, <1>7 DEF OutputInv
  <2>5. QED
    BY <2>1, <2>2, <2>3, <2>4 DEF OutputInv
<1>9. WorkerInv'
  <2>1. \A x \in written' : kinds[x[1]] # "worker_reg"
    BY <1>1 DEF WorkerInv
  <2>2. QED
    BY <1>2, <2>1 DEF WorkerInv
<1>10. TurnInv'
  <2>1. \A q : Answered(q) => Answered(q)'
    BY <1>1, <1>2 DEF Answered, RepliesTo
  <2>2. QED
    BY <1>2, <2>1 DEF TurnInv
<1>11. NothingLost'
  <2> SUFFICES ASSUME NEW x \in written', ~(peer' = "gone"),
                      ~(moved /\ (turns => Cardinality(RepliesTo(x[1])') > 1))
               PROVE  \/ arrived[x] = Units
                      \/ \E w \in ToSet(writes') \cup resuming : w.reply = x /\ arrived[x] + w.left = Units
    BY <1>2 DEF NothingLost
  <2>1. CASE x \in written
    <3>1. ~(moved /\ (turns => Cardinality(RepliesTo(x[1])) > 1))
      BY <1>1
    <3>2. \/ arrived[x] = Units
          \/ \E w \in ToSet(writes) \cup resuming : w.reply = x /\ arrived[x] + w.left = Units
      BY <1>2, <2>1, <3>1 DEF NothingLost
    <3>3. QED
      BY <1>2, <1>4, <3>2
  <2>2. CASE x = r
    <3>1. ~moved
      <4>1. SUFFICES ASSUME moved PROVE FALSE
        OBVIOUS
      <4>2. turns /\ ~(Cardinality(RepliesTo(p)') > 1)
        BY <1>1, <2>2, <4>1
      <4>3. Answered(p)
        BY <4>1, <4>2, WorkerDone
      <4>4. RepliesTo(p) # {}
        BY <4>3 DEF Answered
      <4>5. QED
        BY <1>1, <4>2, <4>4
    <3>2. e \in ToSet(writes')
      BY <1>4, <3>1
    <3>3. e.reply = x /\ arrived[x] + e.left = Units
      BY <1>3, <1>6, <2>2
    <3>4. QED
      BY <3>2, <3>3
  <2>3. QED
    BY <1>1, <2>1, <2>2
<1>12. WholeReplies'
  BY <1>1, <1>2 DEF WholeReplies
<1>13. QED
  BY <1>1, <1>5, <1>8, <1>9, <1>10, <1>11, <1>12

\* A client that waits sends when all is answered, and nothing after a worker_reg.
LEMMA OutSend ==
  ASSUME OrderTypes, ReplyInv, OutInv, NEW kind \in Kinds, Send(kind)
  PROVE  OutInv'
<1> USE DEF OutInv
<1>1. /\ Len(kinds) \in Nat /\ Len(kinds') = Len(kinds) + 1 /\ kinds' = Append(kinds, kind)
      /\ kinds \in Seq(Kinds)
      /\ \A q \in Sent : q \in Sent' /\ kinds'[q] = kinds[q]
      /\ Sent' = Sent \cup {Len(kinds) + 1}
  BY DEF Send, OrderTypes, Sent
<1>2. /\ UNCHANGED <<turns, peer, moved, writes, resuming, written, arrived, mixed>>
      /\ "worker_reg" \notin ToSet(kinds)
      /\ turns => \A q \in Sent : Answered(q)
  BY DEF Send, conf, output
<1>3. \A q \in Sent : kinds[q] # "worker_reg"
  BY <1>1, <1>2, ToSetByIndex DEF Sent
<1>4. OutputTypes' /\ NumberInv' /\ OutputInv' /\ WholeReplies' /\ NothingLost'
  BY <1>2 DEF OutputTypes, NumberInv, OutputInv, WholeReplies, RepliesTo, NothingLost
<1>5. WorkerInv'
  <2>1. ~moved
    BY <1>3 DEF WorkerInv
  <2>2. \A q \in Sent' : kinds'[q] = "worker_reg" => q = Len(kinds')
    BY <1>1, <1>3
  <2>3. \A r \in written : kinds'[r[1]] # "worker_reg"
    BY <1>1, <1>3 DEF ReplyInv
  <2>4. QED
    BY <1>2, <2>1, <2>2, <2>3 DEF WorkerInv
<1>6. TurnInv'
  <2>1. ASSUME turns, NEW q \in Sent', q < Len(kinds') PROVE Answered(q)'
    <3>1. Answered(q)
      BY <1>1, <1>2, <2>1
    <3>2. QED
      BY <1>2, <3>1 DEF Answered, RepliesTo
  <2>2. QED
    BY <1>2, <2>1 DEF TurnInv
<1>7. QED
  BY <1>4, <1>5, <1>6

\* The first write in the queue of the socket.
LEMMA FirstWrite ==
  ASSUME OutputTypes, OutputInv, writes # <<>>
  PROVE  \E w \in Entries :
           /\ w = Head(writes) /\ ToSet(writes) = {w} \cup ToSet(Tail(writes))
           /\ w.reply \in written /\ w.reply \in Replies /\ w.left \in 1..Units
           /\ arrived[w.reply] \in Nat /\ arrived[w.reply] + w.left = Units
           /\ Tail(writes) \in Seq(Entries)
           /\ \A v \in ToSet(Tail(writes)) \cup resuming : v.reply # w.reply
           /\ \A i, j \in 1..Len(Tail(writes)) : Tail(writes)[i].reply = Tail(writes)[j].reply => i = j
<1>1. PICK E : E = Entries /\ writes \in Seq(E)
  BY DEF OutputTypes
<1>2. PICK w \in E : w = Head(writes) /\ ToSet(writes) = {w} \cup ToSet(Tail(writes))
  BY <1>1, ToSetTail
<1>3. /\ Tail(writes) \in Seq(E) /\ Len(Tail(writes)) = Len(writes) - 1
      /\ Len(writes) \in Nat \ {0} /\ w = writes[1]
      /\ \A i \in 1..(Len(writes) - 1) : Tail(writes)[i] = writes[i + 1] /\ i + 1 \in 1..Len(writes)
      /\ 1 \in 1..Len(writes)
  BY <1>1, <1>2
<1>4. \A i \in 1..(Len(writes) - 1) : i + 1 # 1
  BY <1>3
<1>5. \A i \in 1..Len(Tail(writes)) : Tail(writes)[i].reply # w.reply
  BY <1>3, <1>4 DEF OutputInv
<1>6. \A v \in ToSet(Tail(writes)) : v.reply # w.reply
  <2>1. ToSet(Tail(writes)) = {Tail(writes)[i] : i \in 1..Len(Tail(writes))}
    BY <1>3, ToSetByIndex
  <2>2. QED
    BY <1>5, <2>1
<1>7. \A v \in resuming : v.reply # w.reply
  BY <1>2 DEF OutputInv
<1>8. \A i, j \in 1..Len(Tail(writes)) : Tail(writes)[i].reply = Tail(writes)[j].reply => i = j
  <2> SUFFICES ASSUME NEW i \in 1..Len(Tail(writes)), NEW j \in 1..Len(Tail(writes)),
                      Tail(writes)[i].reply = Tail(writes)[j].reply
               PROVE  i = j
    OBVIOUS
  <2>1. i + 1 = j + 1
    BY <1>3 DEF OutputInv
  <2>2. QED
    BY <2>1
<1>9. w.reply \in written /\ arrived[w.reply] + w.left = Units
  BY <1>2 DEF OutputInv
<1>10. w.reply \in Replies /\ w.left \in 1..Units
  BY <1>1, <1>2 DEF Entries
<1>11. arrived[w.reply] \in Nat
  BY <1>10, BoundsAssumption DEF OutputTypes
<1>12. QED
  BY <1>1, <1>2, <1>3, <1>6, <1>7, <1>8, <1>9, <1>10, <1>11

\* A write_some sends a piece of the one reply that a waiting client has not got.
LEMMA OutTransmit ==
  ASSUME OrderTypes, ReplyInv, OutInv, Transmit
  PROVE  OutInv'
<1> USE DEF OutInv
<1>1. PICK w \in Entries :
        /\ w = Head(writes) /\ ToSet(writes) = {w} \cup ToSet(Tail(writes))
        /\ w.reply \in written /\ w.reply \in Replies /\ w.left \in 1..Units
        /\ arrived[w.reply] \in Nat /\ arrived[w.reply] + w.left = Units
        /\ Tail(writes) \in Seq(Entries)
        /\ \A v \in ToSet(Tail(writes)) \cup resuming : v.reply # w.reply
        /\ \A i, j \in 1..Len(Tail(writes)) : Tail(writes)[i].reply = Tail(writes)[j].reply => i = j
  BY FirstWrite DEF Transmit
<1>2. PICK n \in 1..w.left :
        /\ arrived' = [arrived EXCEPT ![w.reply] = @ + n]
        /\ resuming' = resuming \cup IF n < w.left THEN {[reply |-> w.reply, left |-> w.left - n]} ELSE {}
  BY <1>1 DEF Transmit
<1>3. /\ UNCHANGED <<turns, kinds, peer, moved, written>> /\ writes' = Tail(writes)
      /\ mixed' = mixed \cup {q \in Replies \ {w.reply} : turns /\ arrived[q] \in 1..(Units - 1)}
  BY <1>1 DEF Transmit, conf, client
<1>4. PICK e : e = [reply |-> w.reply, left |-> w.left - n] /\ e.reply = w.reply /\ e.left = w.left - n
  <2>1. PICK e : e = [reply |-> w.reply, left |-> w.left - n]
    OBVIOUS
  <2>2. e.reply = w.reply /\ e.left = w.left - n
    BY <2>1
  <2>3. QED
    BY <2>1, <2>2
<1>5. Units \in Nat /\ w.left \in Nat /\ n \in Nat /\ n <= w.left /\ n >= 1
  BY <1>1, BoundsAssumption
<1>6. n < w.left => e \in Entries
  BY <1>1, <1>4, <1>5 DEF Entries
<1>7. /\ \A r \in Replies : r # w.reply => arrived'[r] = arrived[r]
      /\ arrived'[w.reply] = arrived[w.reply] + n
      /\ arrived[w.reply] + n \in 0..Units
      /\ arrived' \in [Replies -> 0..Units]
  <2>1. arrived[w.reply] + n \in 0..Units
    BY <1>1, <1>5
  <2>2. QED
    BY <1>1, <1>2, <2>1 DEF OutputTypes
<1>8. resuming' = resuming \cup IF n < w.left THEN {e} ELSE {}
  BY <1>2, <1>4
<1>9. OutputTypes'
  BY <1>1, <1>3, <1>6, <1>7, <1>8 DEF OutputTypes
<1>10. n < w.left => arrived'[e.reply] + e.left = Units
  <2>1. arrived'[e.reply] = arrived[w.reply] + n
    BY <1>4, <1>7
  <2>2. (arrived[w.reply] + n) + (w.left - n) = Units
    BY <1>1, <1>5
  <2>3. QED
    BY <1>4, <2>1, <2>2
<1>11. \A v \in ToSet(Tail(writes)) \cup resuming :
         v.reply \in Replies /\ v.reply # w.reply /\ arrived'[v.reply] = arrived[v.reply]
  <2>1. \A v \in ToSet(Tail(writes)) \cup resuming : v.reply \in written /\ v.reply # w.reply
    BY <1>1 DEF OutputInv
  <2>2. QED
    BY <1>7, <2>1 DEF OutputTypes
<1>12. OutputInv'
  <2>1. \A r \in Replies \ written' : arrived'[r] = 0
    BY <1>1, <1>3, <1>7 DEF OutputInv
  <2>2. \A v \in ToSet(Tail(writes)) \cup resuming : v.reply \in written /\ arrived'[v.reply] + v.left = Units
    BY <1>1, <1>11 DEF OutputInv
  <2>3. \A v \in ToSet(writes') \cup resuming' : v.reply \in written' /\ arrived'[v.reply] + v.left = Units
    BY <1>1, <1>3, <1>4, <1>8, <1>10, <2>2
  <2>4. \A i, j \in 1..Len(writes') : writes'[i].reply = writes'[j].reply => i = j
    BY <1>1, <1>3
  <2>5. \A u \in ToSet(writes') : \A v \in resuming' : u.reply # v.reply
    BY <1>1, <1>3, <1>4, <1>8 DEF OutputInv
  <2>6. QED
    BY <2>1, <2>3, <2>4, <2>5 DEF OutputInv
<1>13. NumberInv' /\ WorkerInv'
  BY <1>3 DEF NumberInv, WorkerInv, RepliesTo, Sent
<1>14. \A r \in written : arrived[r] = Units => r # w.reply /\ arrived'[r] = Units
  BY <1>1, <1>5, <1>7 DEF OutputTypes
<1>15. TurnInv'
  <2>1. \A q : Answered(q) => Answered(q)'
    BY <1>3, <1>14 DEF Answered, RepliesTo
  <2>2. QED
    BY <1>3, <2>1 DEF TurnInv, Sent
<1>16. NothingLost'
  <2> SUFFICES ASSUME NEW x \in written, ~(peer = "gone"),
                      ~(moved /\ (turns => Cardinality(RepliesTo(x[1])) > 1))
               PROVE  \/ arrived'[x] = Units
                      \/ \E v \in ToSet(writes') \cup resuming' : v.reply = x /\ arrived'[x] + v.left = Units
    BY <1>3 DEF NothingLost, RepliesTo
  <2>1. CASE x = w.reply
    <3>1. CASE n < w.left
      BY <1>4, <1>8, <1>10, <2>1, <3>1
    <3>2. CASE n = w.left
      BY <1>1, <1>7, <2>1, <3>2
    <3>3. QED
      BY <1>5, <3>1, <3>2
  <2>2. CASE x # w.reply /\ arrived[x] # Units
    <3>1. PICK v \in ToSet(writes) \cup resuming : v.reply = x /\ arrived[x] + v.left = Units
      BY <2>2 DEF NothingLost
    <3>2. v \in ToSet(writes') \cup resuming'
      BY <1>1, <1>3, <1>8, <2>2, <3>1
    <3>3. arrived'[x] = arrived[x]
      BY <1>7, <2>2 DEF OutputTypes
    <3>4. QED
      BY <3>1, <3>2, <3>3
  <2>3. QED
    BY <1>14, <2>1, <2>2
<1>17. WholeReplies'
  <2> DEFINE Several(p) == Cardinality(RepliesTo(p)) > 1
  <2>0. \A p : Several(p)' <=> Several(p)
    BY <1>3 DEF RepliesTo
  <2>1. ASSUME turns, NEW q \in Replies, q # w.reply, arrived[q] \in 1..(Units - 1)
        PROVE  \E p \in 1..q[1] : Several(p)
    <3>1. q \in written /\ arrived[q] # Units /\ arrived[w.reply] # Units
      BY <1>1, <1>5, <2>1 DEF OutputInv
    <3>2. /\ q[1] < Len(kinds) => Several(q[1])
          /\ w.reply[1] < Len(kinds) => Several(w.reply[1])
      BY <1>1, <2>1, <3>1, WorkerDone
    <3>3. q[1] \in Sent /\ w.reply[1] \in Sent /\ q[1] \in Ids /\ Len(kinds) \in Nat
      BY <1>1, <2>1, <3>1 DEF ReplyInv, OrderTypes, Replies
    <3>4. CASE q[1] = w.reply[1]
      <4>1. q \in RepliesTo(q[1]) /\ w.reply \in RepliesTo(q[1])
        BY <1>1, <3>1, <3>4 DEF RepliesTo
      <4>2. Several(q[1])
        BY <2>1, <3>3, <4>1, OnlyReply
      <4>3. QED
        BY <3>3, <4>2 DEF Sent
    <3>5. CASE q[1] < w.reply[1]
      BY <3>2, <3>3, <3>5 DEF Sent
    <3>6. CASE w.reply[1] < q[1]
      BY <3>2, <3>3, <3>6 DEF Sent
    <3>7. QED
      BY <3>3, <3>4, <3>5, <3>6 DEF Sent
  <2>2. turns => \A q \in mixed : \E p \in 1..q[1] : Several(p)
    BY DEF WholeReplies
  <2>3. turns => \A q \in mixed' : \E p \in 1..q[1] : Several(p)
    <3> HIDE DEF Several
    <3>1. QED
      BY <1>3, <2>1, <2>2
  <2>4. turns' => \A q \in mixed' : \E p \in 1..q[1] : Several(p)'
    BY <1>3, <2>0, <2>3
  <2>5. QED
    BY <2>4 DEF WholeReplies
<1>18. QED
  BY <1>9, <1>12, <1>13, <1>15, <1>16, <1>17

\* The client is gone, and a write fails.
LEMMA OutError ==
  ASSUME OutInv, WriteError
  PROVE  OutInv'
<1> USE DEF OutInv
<1>1. PICK w \in Entries :
        /\ w = Head(writes) /\ ToSet(writes) = {w} \cup ToSet(Tail(writes))
        /\ Tail(writes) \in Seq(Entries)
        /\ \A i, j \in 1..Len(Tail(writes)) : Tail(writes)[i].reply = Tail(writes)[j].reply => i = j
  BY FirstWrite DEF WriteError
<1>2. /\ UNCHANGED <<turns, kinds, moved, resuming, written, arrived, mixed>>
      /\ peer' = "gone" /\ writes' = Tail(writes)
  BY DEF WriteError, conf, client
<1>3. OutputTypes' /\ NumberInv' /\ WholeReplies' /\ NothingLost'
  BY <1>1, <1>2 DEF OutputTypes, NumberInv, WholeReplies, RepliesTo, NothingLost
<1>4. OutputInv'
  BY <1>1, <1>2 DEF OutputInv
<1>5. WorkerInv' /\ TurnInv'
  BY <1>2 DEF WorkerInv, TurnInv, Sent, Answered, RepliesTo
<1>6. QED
  BY <1>3, <1>4, <1>5

\* A write goes on; on a socket that was moved away it ends, which a client that waits
\* meets only with the messages of a GET that was sent several.
LEMMA OutResume ==
  ASSUME OrderTypes, ReplyInv, OutInv, NEW w \in resuming, Resume(w)
  PROVE  OutInv'
<1> USE DEF OutInv
<1>1. /\ UNCHANGED <<turns, kinds, moved, peer, written, arrived, mixed>>
      /\ resuming' = resuming \ {w}
      /\ writes' = IF moved THEN writes ELSE Append(writes, w)
  BY DEF Resume, conf, client
<1>2. PICK E : E = Entries /\ w \in E /\ writes \in Seq(E) /\ resuming \subseteq E
  BY DEF OutputTypes
<1>3. /\ w.reply \in written /\ w.reply \in Replies /\ w.left \in 1..Units
      /\ arrived[w.reply] \in 0..Units /\ arrived[w.reply] + w.left = Units
  <2>1. w.reply \in written /\ arrived[w.reply] + w.left = Units
    BY DEF OutputInv
  <2>2. w.reply \in Replies /\ w.left \in 1..Units
    BY <1>2 DEF Entries
  <2>3. QED
    BY <2>1, <2>2 DEF OutputTypes
<1>4. /\ writes' \in Seq(E)
      /\ ToSet(writes') = IF moved THEN ToSet(writes) ELSE ToSet(writes) \cup {w}
  <2>1. Append(writes, w) \in Seq(E)
    BY <1>2
  <2>2. ToSet(Append(writes, w)) = ToSet(writes) \cup {w}
    BY <1>2, ToSetAppend
  <2>3. QED
    BY <1>1, <1>2, <2>1, <2>2
<1>5. OutputTypes' /\ NumberInv' /\ WholeReplies' /\ WorkerInv' /\ TurnInv'
  <2>1. OutputTypes' /\ NumberInv' /\ WholeReplies'
    BY <1>1, <1>2, <1>4 DEF OutputTypes, NumberInv, WholeReplies, RepliesTo
  <2>2. WorkerInv' /\ TurnInv'
    BY <1>1 DEF WorkerInv, TurnInv, Sent, Answered, RepliesTo
  <2>3. QED
    BY <2>1, <2>2
<1>6. \A v \in resuming : v.reply = w.reply => v = w
  <2> SUFFICES ASSUME NEW v \in resuming, v.reply = w.reply PROVE v = w
    OBVIOUS
  <2>1. arrived[v.reply] + v.left = Units
    BY DEF OutputInv
  <2>2. v \in [reply : Replies, left : 1..Units] /\ w \in [reply : Replies, left : 1..Units]
    BY <1>2 DEF Entries
  <2>3. v.left \in Nat /\ w.left \in Nat /\ arrived[w.reply] \in Nat
    BY <1>3, <2>2, BoundsAssumption
  <2>4. v.left = w.left
    BY <1>3, <2>1, <2>3
  <2>5. QED
    BY <2>2, <2>4
<1>7. OutputInv'
  <2>1. \A v \in ToSet(writes') \cup resuming' : v.reply \in written' /\ arrived'[v.reply] + v.left = Units
    BY <1>1, <1>4 DEF OutputInv
  <2>2. \A i, j \in 1..Len(writes') : writes'[i].reply = writes'[j].reply => i = j
    <3>1. CASE moved
      BY <1>1, <3>1 DEF OutputInv
    <3>2. CASE ~moved
      <4>1. /\ Len(writes') = Len(writes) + 1 /\ Len(writes) \in Nat
            /\ writes'[Len(writes) + 1] = w
            /\ \A i \in 1..Len(writes) : writes'[i] = writes[i]
        BY <1>1, <1>2, <3>2
      <4>2. \A i \in 1..Len(writes) : writes[i].reply # w.reply
        BY <1>2, ToSetByIndex DEF OutputInv
      <4>3. \A i \in 1..Len(writes') : i \in 1..Len(writes) \/ i = Len(writes) + 1
        BY <4>1
      <4>4. \A i \in 1..Len(writes') : i \in 1..Len(writes) <=> writes'[i].reply # w.reply
        BY <4>1, <4>2, <4>3
      <4>5. QED
        BY <4>1, <4>3, <4>4 DEF OutputInv
    <3>3. QED
      BY <3>1, <3>2
  <2>3. \A u \in ToSet(writes') : \A v \in resuming' : u.reply # v.reply
    BY <1>1, <1>4, <1>6 DEF OutputInv
  <2>4. \A r \in Replies \ written' : arrived'[r] = 0
    BY <1>1 DEF OutputInv
  <2>5. QED
    BY <2>1, <2>2, <2>3, <2>4 DEF OutputInv
<1>8. NothingLost'
  <2> SUFFICES ASSUME NEW x \in written, ~(peer = "gone"), arrived[x] # Units,
                      ~(moved /\ (turns => Cardinality(RepliesTo(x[1])) > 1))
               PROVE  \E v \in ToSet(writes') \cup resuming' : v.reply = x /\ arrived[x] + v.left = Units
    BY <1>1 DEF NothingLost, RepliesTo
  <2>1. ~moved
    <3>1. SUFFICES ASSUME moved PROVE FALSE
      OBVIOUS
    <3>2. turns /\ ~(Cardinality(RepliesTo(x[1])) > 1)
      BY <3>1
    <3>3. x[1] \in Sent /\ kinds[x[1]] # "worker_reg"
      BY DEF ReplyInv, WorkerInv
    <3>4. x[1] < Len(kinds)
      BY <3>1, <3>2, <3>3, WorkerDone
    <3>5. QED
      BY <3>2, <3>4, WorkerDone
  <2>2. PICK v \in ToSet(writes) \cup resuming : v.reply = x /\ arrived[x] + v.left = Units
    BY DEF NothingLost
  <2>3. v \in ToSet(writes') \cup resuming'
    BY <1>1, <1>4, <2>1
  <2>4. QED
    BY <2>2, <2>3
<1>9. QED
  BY <1>5, <1>7, <1>8

\* A worker takes the socket.
LEMMA OutWorker ==
  ASSUME OrderTypes, OutInv, HeaderWorker
  PROVE  OutInv'
<1> USE DEF OutInv
<1>1. /\ UNCHANGED <<turns, kinds, peer, writes, resuming, written, arrived, mixed>>
      /\ moved' = TRUE
      /\ \E p \in Sent : kinds[p] = "worker_reg"
  BY StreamTail DEF HeaderWorker, Completes, conf, client, output
<1>2. OutputTypes' /\ NumberInv' /\ WholeReplies' /\ OutputInv'
  BY <1>1 DEF OutputTypes, NumberInv, WholeReplies, OutputInv, RepliesTo
<1>3. WorkerInv' /\ TurnInv'
  BY <1>1 DEF WorkerInv, TurnInv, Sent, Answered, RepliesTo
<1>4. NothingLost'
  BY <1>1 DEF NothingLost, RepliesTo
<1>5. QED
  BY <1>2, <1>3, <1>4

\* What comes after the first part of the stream.
LEMMA ComingTail ==
  ASSUME OrderTypes, StreamInv, inbound # <<>>, inbound' = Tail(inbound)
  PROVE  /\ Head(inbound).packet \in Coming /\ Coming' \subseteq Coming
         /\ ~(Head(inbound).part = "header" /\ kinds[Head(inbound).packet] \in WithBody)
              => Head(inbound).packet \notin Coming'
<1>1. /\ Len(inbound) \in Nat \ {0} /\ Len(inbound') = Len(inbound) - 1
      /\ Head(inbound) = inbound[1] /\ 1 \in 1..Len(inbound)
      /\ \A i \in 1..(Len(inbound) - 1) : inbound'[i] = inbound[i + 1]
  BY StreamTail
<1>2. \A i \in 1..Len(inbound') : i + 1 \in 1..Len(inbound) /\ 1 < i + 1
  BY <1>1
<1>3. Head(inbound).packet \in Coming /\ Coming' \subseteq Coming
  BY <1>1, <1>2 DEF Coming
<1>4. ASSUME ~(inbound[1].part = "header" /\ kinds[inbound[1].packet] \in WithBody),
             NEW i \in 1..Len(inbound'), inbound'[i].packet = inbound[1].packet
      PROVE  FALSE
  <2>1. inbound[1].packet < inbound'[i].packet
    BY <1>1, <1>2, <1>4 DEF StreamInv
  <2>2. inbound[1].packet \in Nat
    BY <1>1 DEF OrderTypes, Sent
  <2>3. QED
    BY <1>4, <2>1, <2>2
<1>5. QED
  BY <1>1, <1>3, <1>4 DEF Coming

\* Nothing is written, and only packets that were on their way are posted.
LEMMA FreshFrame ==
  ASSUME FreshInv, UNCHANGED <<written, kinds>>, Coming' \subseteq Coming,
         submitted' \subseteq submitted,
         ToSet(posted') \cup running' \subseteq ToSet(posted) \cup running \cup Coming
  PROVE  FreshInv'
<1>1. \A q : RepliesTo(q)' = RepliesTo(q)
  BY DEF RepliesTo
<1>2. QED
  BY <1>1 DEF FreshInv

\* start_write for a packet whose reply is due.
LEMMA FreshWrite ==
  ASSUME FreshInv, NEW p, \A q : q # p => RepliesTo(q)' = RepliesTo(q), UNCHANGED kinds,
         Coming' \subseteq Coming \ {p}, submitted' \subseteq submitted \ {p},
         ToSet(posted') \cup running' \subseteq ToSet(posted) \cup running,
         kinds[p] = "put" => p \notin ToSet(posted') \cup running'
  PROVE  FreshInv'
  BY DEF FreshInv

\* What has been posted is not on its way.
LEMMA AcceptedGone ==
  ASSUME OrderTypes, StreamInv, NEW p \in Accepted
  PROVE  p \notin Coming
<1>1. p \in Nat
  BY DEF OrderTypes, Sent
<1>2. \A i \in 1..Len(inbound) : p < inbound[i].packet
  BY DEF StreamInv
<1>3. QED
  BY <1>1, <1>2 DEF Coming

\* Packets being sent, and the end of the stream.
LEMMA FreshClient ==
  ASSUME IInv, WInv, (\E kind \in Kinds : Send(kind)) \/ HangUp
  PROVE  FreshInv'
<1> USE DEF IInv, WInv
<1>1. ASSUME NEW kind \in Kinds, Send(kind) PROVE FreshInv'
  <2>1. PICK p, T : p = Len(kinds) + 1 /\ T = Tokens(p, kind)
    OBVIOUS
  <2>2. /\ Len(kinds) \in Nat /\ kinds' = Append(kinds, kind) /\ inbound' = inbound \o T
        /\ UNCHANGED <<submitted, written, posted, running, done>> /\ kinds \in Seq(Kinds)
        /\ p \notin Sent /\ p \in Ids /\ \A q \in Sent : kinds'[q] = kinds[q]
    BY <1>1, <2>1, BoundsAssumption DEF Send, queue, output, OrderTypes, Sent, Ids
  <2>3. T \in Seq(Parts) /\ \A i \in 1..Len(T) : T[i].packet = p
    <3> DEFINE header == [packet |-> p, part |-> "header"]
               body == [packet |-> p, part |-> "body"]
    <3>1. header \in Parts /\ body \in Parts
      BY <2>2 DEF Parts
    <3>2. CASE kind \in WithBody
      <4>1. T = <<header, body>>
        BY <2>1, <3>2 DEF Tokens
      <4>2. QED
        BY <3>1, <4>1
    <3>3. CASE kind \notin WithBody
      <4>1. T = <<header>>
        BY <2>1, <3>3 DEF Tokens
      <4>2. QED
        BY <3>1, <4>1
    <3>4. QED
      BY <3>2, <3>3
  <2>4. ASSUME NEW i \in 1..Len(inbound') PROVE inbound'[i].packet \in Coming \cup {p}
    <3>1. /\ inbound \in Seq(Parts) /\ Len(inbound') = Len(inbound) + Len(T)
          /\ Len(inbound) \in Nat /\ Len(T) \in Nat
          /\ \A k \in 1..Len(inbound) : inbound'[k] = inbound[k]
          /\ \A k \in 1..Len(T) : inbound'[Len(inbound) + k] = T[k]
      BY <2>2, <2>3 DEF OrderTypes
    <3>2. CASE i \in 1..Len(inbound)
      BY <3>1, <3>2 DEF Coming
    <3>3. CASE i \notin 1..Len(inbound)
      <4>1. i - Len(inbound) \in 1..Len(T) /\ i = Len(inbound) + (i - Len(inbound))
        BY <3>1, <3>3
      <4>2. PICK k \in 1..Len(T) : i = Len(inbound) + k
        BY <4>1
      <4>3. QED
        BY <2>3, <3>1, <4>2
    <3>4. QED
      BY <3>2, <3>3
  <2>5. Coming' \subseteq Coming \cup {p}
    BY <2>4 DEF Coming
  <2>6. RepliesTo(p) = {} /\ p \notin submitted /\ \A q : RepliesTo(q)' = RepliesTo(q)
    BY <2>2 DEF ReplyInv, RepliesTo
  <2>7. ToSet(posted) \cup running \subseteq Sent
    BY DEF OrderTypes, Accepted
  <2>8. QED
    BY <2>2, <2>5, <2>6, <2>7 DEF FreshInv
<1>2. CASE HangUp
  <2>1. PICK n \in 0..Len(inbound) : inbound' = SubSeq(inbound, 1, n)
    BY <1>2 DEF HangUp
  <2>2. /\ Len(inbound') = n
        /\ \A i \in 1..n : inbound'[i] = inbound[i] /\ i \in 1..Len(inbound)
    BY <2>1 DEF OrderTypes
  <2>3. Coming' \subseteq Coming
    BY <2>2 DEF Coming
  <2>4. UNCHANGED <<written, kinds, submitted, posted, running>>
    BY <1>2 DEF HangUp, output, queue
  <2>5. QED
    BY <2>3, <2>4, FreshFrame
<1>3. QED
  BY <1>1, <1>2

\* start_write is called for replies that are due.
LEMMA WriteStep ==
  ASSUME IInv, WInv,
         \/ \E p \in Sent : Deliver(p)
         \/ \E p \in submitted : Complete(p)
         \/ HeaderStray
         \/ \E p \in running : Finish(p)
  PROVE  WInv'
<1> USE DEF IInv
<1>0. OutInv /\ FreshInv /\ NumberInv
  BY DEF WInv, OutInv
<1>1. ASSUME NEW p \in Sent, Deliver(p) PROVE WInv'
  <2>1. /\ UNCHANGED <<turns, kinds, moved, peer, inbound, posted, running, submitted>>
        /\ StartWrite(p) /\ p \in ToSet(done) /\ kinds[p] = "get"
        /\ Cardinality(RepliesTo(p)) < MaxDrained
    BY <1>1 DEF Deliver, conf, client, queue
  <2>3. OutInv' /\ \A q : q # p => RepliesTo(q)' = RepliesTo(q)
    BY <1>0, <2>1, OutWrite
  <2>4. p \notin Coming /\ p \notin submitted
    BY <2>1, AcceptedGone DEF Accepted, ReplyInv
  <2>5. FreshInv'
    BY <1>0, <2>1, <2>3, <2>4, FreshWrite DEF Coming
  <2>6. QED
    BY <2>3, <2>5 DEF WInv
<1>2. ASSUME NEW p \in submitted, Complete(p) PROVE WInv'
  <2>1. /\ UNCHANGED <<turns, kinds, moved, peer, inbound, posted, running>>
        /\ StartWrite(p) /\ submitted' = submitted \ {p}
    BY <1>2 DEF Complete, conf, client, queue
  <2>2. p \in Sent /\ kinds[p] = "trigger" /\ RepliesTo(p) = {} /\ p \notin Coming
    BY <1>0 DEF ReplyInv, FreshInv
  <2>3. OutInv' /\ \A q : q # p => RepliesTo(q)' = RepliesTo(q)
    BY <1>0, <2>1, <2>2, OutWrite
  <2>4. FreshInv'
    BY <1>0, <2>1, <2>2, <2>3, FreshWrite DEF Coming
  <2>5. QED
    BY <2>3, <2>4 DEF WInv
<1>3. CASE HeaderStray
  <2>1. PICK p \in Sent : p = Head(inbound).packet
    BY <1>3, StreamTail DEF HeaderStray, Completes
  <2>2. /\ UNCHANGED <<turns, kinds, moved, peer, posted, running, submitted>>
        /\ StartWrite(p) /\ inbound # <<>> /\ inbound' = Tail(inbound) /\ kinds[p] = "stray"
    BY <1>3, <2>1 DEF HeaderStray, Completes, conf, client
  <2>3. p \in Coming /\ Coming' \subseteq Coming \ {p}
    BY <2>1, <2>2, ComingTail DEF WithBody
  <2>4. RepliesTo(p) = {} /\ p \notin submitted
    BY <1>0, <2>3 DEF FreshInv
  <2>5. OutInv' /\ \A q : q # p => RepliesTo(q)' = RepliesTo(q)
    BY <1>0, <2>2, <2>4, OutWrite
  <2>6. FreshInv'
    BY <1>0, <2>2, <2>3, <2>4, <2>5, FreshWrite
  <2>7. QED
    BY <2>5, <2>6 DEF WInv
<1>4. ASSUME NEW p \in running, Finish(p) PROVE WInv'
  <2>1. /\ UNCHANGED <<turns, kinds, moved, peer, inbound, posted, submitted>>
        /\ running' = running \ {p}
        /\ IF kinds[p] = "put" THEN StartWrite(p) ELSE UNCHANGED output
    BY <1>4 DEF Finish, conf, client
  <2>2. p \in Sent /\ p \in Accepted /\ p \in Nat
    BY DEF OrderTypes, Accepted, Sent
  <2>3. CASE kinds[p] # "put"
    <3>1. OutInv'
      BY <1>0, <2>1, <2>3, OutFrame
    <3>2. UNCHANGED written
      BY <2>1, <2>3 DEF output
    <3>3. FreshInv'
      BY <1>0, <2>1, <3>2, FreshFrame DEF Coming
    <3>4. QED
      BY <3>1, <3>3 DEF WInv
  <2>4. CASE kinds[p] = "put"
    <3>1. RepliesTo(p) = {} /\ p \notin submitted /\ p \notin Coming /\ p \notin ToSet(posted)
      BY <1>0, <2>2, <2>4, AcceptedGone DEF FreshInv, ReplyInv, QueueInv
    <3>2. OutInv' /\ \A q : q # p => RepliesTo(q)' = RepliesTo(q)
      BY <1>0, <2>1, <2>2, <2>4, <3>1, OutWrite
    <3>3. FreshInv'
      BY <1>0, <2>1, <3>1, <3>2, FreshWrite DEF Coming
    <3>4. QED
      BY <3>2, <3>3 DEF WInv
  <2>5. QED
    BY <2>3, <2>4
<1>5. QED
  BY <1>1, <1>2, <1>3, <1>4

\* Reads and handlers that write nothing.
LEMMA QuietStep ==
  ASSUME IInv, WInv,
         HeaderWithBody \/ HeaderGet \/ BodyPut \/ BodyTrigger \/ ReadError \/ Take
           \/ \E p \in running : Reach(p)
  PROVE  WInv'
<1> USE DEF IInv
<1>0. OutInv /\ FreshInv
  BY DEF WInv
<1>1. UNCHANGED <<turns, kinds, moved, peer, output>>
  BY DEF HeaderWithBody, HeaderGet, BodyPut, BodyTrigger, ReadError, Take, Reach, Completes, conf, client
<1>2. OutInv' /\ UNCHANGED written
  BY <1>0, <1>1, OutFrame DEF output
<1>3. CASE HeaderWithBody
  <2>1. inbound # <<>> /\ inbound' = Tail(inbound) /\ UNCHANGED <<submitted, posted, running>>
    BY <1>3 DEF HeaderWithBody, Completes
  <2>2. FreshInv'
    BY <1>0, <1>1, <1>2, <2>1, ComingTail, FreshFrame
  <2>3. QED
    BY <1>2, <2>2 DEF WInv
<1>4. CASE HeaderGet \/ BodyPut
  <2>1. /\ inbound # <<>> /\ inbound' = Tail(inbound) /\ UNCHANGED <<submitted, running>>
        /\ posted' = Append(posted, Head(inbound).packet)
    BY <1>4 DEF HeaderGet, BodyPut, Completes
  <2>2. PICK p \in Ids : p = Head(inbound).packet
    BY <2>1, StreamTail DEF Parts
  <2>3. ToSet(posted') = ToSet(posted) \cup {p}
    BY <2>1, <2>2, ToSetAppend DEF OrderTypes
  <2>4. Coming' \subseteq Coming /\ p \in Coming
    BY <2>1, <2>2, ComingTail
  <2>5. FreshInv'
    BY <1>0, <1>1, <1>2, <2>1, <2>3, <2>4, FreshFrame
  <2>6. QED
    BY <1>2, <2>5 DEF WInv
<1>5. CASE BodyTrigger
  <2>1. PICK p : p = Head(inbound).packet
    OBVIOUS
  <2>2. /\ inbound # <<>> /\ inbound' = Tail(inbound) /\ UNCHANGED <<posted, running>>
        /\ submitted' = submitted \cup {p} /\ Head(inbound).part = "body"
    BY <1>5, <2>1 DEF BodyTrigger, Completes
  <2>3. p \in Coming /\ Coming' \subseteq Coming \ {p}
    BY <2>1, <2>2, ComingTail
  <2>4. \A q : RepliesTo(q)' = RepliesTo(q)
    BY <1>2 DEF RepliesTo
  <2>5. FreshInv'
    BY <1>0, <1>1, <2>2, <2>3, <2>4 DEF FreshInv
  <2>6. QED
    BY <1>2, <2>5 DEF WInv
<1>6. CASE ReadError \/ \E p \in running : Reach(p)
  <2>1. UNCHANGED <<inbound, submitted, posted, running>>
    BY <1>6 DEF ReadError, Reach, queue
  <2>2. FreshInv'
    BY <1>0, <1>1, <1>2, <2>1, FreshFrame DEF Coming
  <2>3. QED
    BY <1>2, <2>2 DEF WInv
<1>7. CASE Take
  <2>1. /\ UNCHANGED <<inbound, submitted>> /\ posted # <<>>
        /\ posted' = Tail(posted) /\ running' = running \cup {Head(posted)}
    BY <1>7 DEF Take
  <2>2. ToSet(posted) = {Head(posted)} \cup ToSet(Tail(posted))
    BY <2>1, ToSetTail DEF OrderTypes
  <2>3. FreshInv'
    BY <1>0, <1>1, <1>2, <2>1, <2>2, FreshFrame DEF Coming
  <2>4. QED
    BY <1>2, <2>3 DEF WInv
<1>8. QED
  BY <1>3, <1>4, <1>5, <1>6, <1>7

\* Every step of a connection keeps what is known of its replies.
LEMMA RepliesStep ==
  ASSUME IInv, WInv, [Next]_vars
  PROVE  WInv'
<1> USE DEF IInv
<1>0. OutInv /\ FreshInv
  BY DEF WInv
<1>1. CASE (\E kind \in Kinds : Send(kind)) \/ HangUp
  <2>1. ASSUME HangUp PROVE OutInv'
    <3>1. UNCHANGED <<turns, kinds, moved, output>> /\ peer' = "gone"
      BY <2>1 DEF HangUp, conf
    <3>2. QED
      BY <1>0, <3>1, OutFrame
  <2>2. OutInv'
    BY <1>0, <1>1, <2>1, OutSend
  <2>3. QED
    BY <1>1, <2>2, FreshClient DEF WInv
<1>2. CASE HeaderWorker
  <2>1. /\ inbound # <<>> /\ inbound' = Tail(inbound)
        /\ UNCHANGED <<submitted, posted, running, written, kinds>>
    BY <1>2 DEF HeaderWorker, Completes, output, client
  <2>2. FreshInv'
    BY <1>0, <2>1, ComingTail, FreshFrame
  <2>3. QED
    BY <1>0, <1>2, <2>2, OutWorker DEF WInv
<1>3. CASE Write
  <2>1. UNCHANGED <<inbound, submitted, posted, running, written, kinds>>
    BY <1>3 DEF Write, Transmit, WriteError, Resume, client, queue
  <2>2. FreshInv'
    BY <1>0, <2>1, FreshFrame DEF Coming
  <2>3. OutInv'
    BY <1>0, <1>3, OutTransmit, OutError, OutResume DEF Write
  <2>4. QED
    BY <2>2, <2>3 DEF WInv
<1>4. CASE UNCHANGED vars
  <2>1. UNCHANGED <<turns, kinds, moved, peer, output, inbound, submitted, posted, running, written>>
    BY <1>4 DEF vars, conf, client, queue, output
  <2>2. QED
    BY <1>0, <2>1, OutFrame, FreshFrame DEF WInv, Coming
<1>5. QED
  BY <1>1, <1>2, <1>3, <1>4, WriteStep, QuietStep DEF Next, Server, Answer, Read, Handle

\* At first there are none.
LEMMA RepliesInit == Init => WInv
<1> SUFFICES ASSUME Init PROVE WInv
  OBVIOUS
<1>1. ToSet(<<>>) = {}
  BY DEF ToSet
<1>2. Sent = {} /\ Coming = {} /\ \A p : RepliesTo(p) = {}
  BY DEF Init, Sent, Coming, RepliesTo
<1>3. OutputTypes
  <2>1. 0 \in 0..Units
    BY BoundsAssumption
  <2>2. <<>> \in Seq(Entries)
    OBVIOUS
  <2>3. QED
    BY <2>1, <2>2 DEF Init, OutputTypes
<1>4. FreshInv /\ WorkerInv
  BY <1>1, <1>2 DEF Init, FreshInv, WorkerInv
<1>5. NumberInv
  <2>1. 0 \in 0..MaxDrained /\ 1..0 = {}
    BY BoundsAssumption
  <2>2. \A p : {<<p, n>> : n \in 1..0} = {}
    BY <2>1
  <2>3. QED
    BY <1>2, <2>1, <2>2 DEF NumberInv
<1>6. OutputInv /\ TurnInv /\ NothingLost /\ WholeReplies
  BY <1>1, <1>2 DEF Init, OutputInv, TurnInv, NothingLost, WholeReplies
<1>7. QED
  BY <1>3, <1>4, <1>5, <1>6 DEF WInv, OutInv

\* Replies are made when they are due, and each is under way once.
THEOREM RepliesInOrder == Spec => [](IInv /\ WInv)
<1>1. IInv /\ WInv /\ [Next]_vars => WInv'
  BY RepliesStep
<1>2. QED
  BY <1>1, RepliesInit, Inductive, PTL DEF Spec

\* A reply that start_write was given arrives or is on its way, whatever the packets, the
\* threads and the pieces it is sent in, unless the client is gone or registered as a
\* worker; a client that waits for its replies loses to that no reply that was the only
\* one to its packet.
THEOREM NoReplyLost == Spec => []NothingLost
<1>1. WInv => NothingLost
  BY DEF WInv, OutInv
<1>2. QED
  BY <1>1, RepliesInOrder, PTL

\* A client that waits for its replies gets two of them mixed only when one of its GETs
\* was sent several messages, and none that it got for a packet ahead of the first such
\* GET, however many messages the buckets drain and in whatever pieces they leave.
THEOREM RepliesWhole == Spec => []WholeReplies
<1>1. WInv => WholeReplies
  BY DEF WInv, OutInv
<1>2. QED
  BY <1>1, RepliesInOrder, PTL

\* Every variable of a connection keeps its type.
THEOREM TypeCorrect == Spec => []TypeOK
<1>1. Spec => []ReaderInv
  <2>1. Init => ReaderInv
    BY FS_EmptySet DEF Init, ReaderInv, OneReader
  <2>2. QED
    BY <2>1, ReaderStep, PTL DEF Spec
<1>2. Spec => [](threads \in ThreadCounts /\ moved \in BOOLEAN)
  <2>1. Init => threads \in ThreadCounts /\ moved \in BOOLEAN
    BY DEF Init
  <2>2. /\ threads \in ThreadCounts /\ moved \in BOOLEAN
      /\ [Next]_vars
      => (threads \in ThreadCounts /\ moved \in BOOLEAN)'
    <3>1. [Next]_vars => UNCHANGED threads /\ (moved' = moved \/ moved' = TRUE)
      BY DEF Next, Send, HangUp, Deliver, Server, Answer, Read, Write, Handle, HeaderWithBody,
             HeaderGet, HeaderStray, HeaderWorker, BodyPut, BodyTrigger, ReadError, Transmit,
             WriteError, Resume, Take, Reach, Finish, Complete, Completes, conf, vars
    <3>2. QED
      BY <3>1
  <2>3. QED
    BY <2>1, <2>2, PTL DEF Spec
<1>3. IInv /\ WInv /\ ReaderInv /\ threads \in ThreadCounts /\ moved \in BOOLEAN => TypeOK
  <2> SUFFICES ASSUME IInv, WInv, ReaderInv, threads \in ThreadCounts, moved \in BOOLEAN
                PROVE  TypeOK
    OBVIOUS
  <2>1. /\ ToSet(posted) \subseteq Sent /\ running \subseteq Sent /\ ToSet(done) \subseteq Sent
        /\ posted \in Seq(Ids) /\ done \in Seq(Ids)
    BY DEF IInv, OrderTypes, Accepted
  <2>2. posted \in Seq(Sent) /\ done \in Seq(Sent)
    <3>1. ASSUME NEW s \in Seq(Ids), ToSet(s) \subseteq Sent PROVE s \in Seq(Sent)
      <4>1. \A i \in 1..Len(s) : s[i] \in Sent
        BY <3>1, ToSetByIndex
      <4>2. QED
        BY <4>1, SeqDef
    <3>2. QED
      BY <2>1, <3>1
  <2>3. OutputTypes /\ submitted \subseteq Sent
    BY DEF IInv, WInv, OutInv, ReplyInv
  <2>4. QED
    BY <2>1, <2>2, <2>3 DEF TypeOK, IInv, OrderTypes, OutputTypes, ReaderInv
<1>4. QED
  BY <1>1, <1>2, <1>3, RepliesInOrder, PTL

-----------------------------------------------------------------------------
(* The connection stops only when everybody has been answered.             *)

\* The last part of a packet: what was read of it when it is handled.
EndPart(p) == [packet |-> p, part |-> IF kinds[p] \in WithBody THEN "body" ELSE "header"]

\* What is due at each place of the stream: first what the read at hand waits for, then a
\* body behind the header of a packet that has one.
Due(i) ==
  IF i = 1 THEN IF reads = <<"body">> THEN "body" ELSE "header"
  ELSE IF inbound[i - 1].part = "header" /\ kinds[inbound[i - 1].packet] \in WithBody
       THEN "body" ELSE "header"

\* The reading loop expects what the stream holds, up to where the client hung up.
PartInv ==
  /\ \A i \in 1..Len(inbound) : inbound[i].part = Due(i)
  /\ peer = "up" => Due(Len(inbound) + 1) = "header"

\* Somebody keeps the reading going: a read, or the launcher.
LoopInv == peer = "up" /\ ~moved => reads # <<>> \/ submitted # {}

\* Where the packets are that are answered without being posted.
Direct == {"trigger", "stray"}
Known(p) ==
  \/ \E i \in 1..Len(inbound) : inbound[i] = EndPart(p)
  \/ p \in submitted
  \/ RepliesTo(p) # {}

KnownInv == peer = "up" => \A p \in Sent : kinds[p] \in Direct => Known(p)

\* The handler of a PUT does not return without the acknowledgement.
HandledInv == \A p \in ToSet(done) \ running : kinds[p] = "put" => RepliesTo(p) # {}

IdleInv == ReaderInv /\ PartInv /\ LoopInv /\ KnownInv /\ HandledInv

\* The first part leaves the stream and the next read is started.
LEMMA PartTail ==
  ASSUME OrderTypes, PartInv, inbound # <<>>, inbound' = Tail(inbound),
         UNCHANGED <<kinds, peer>>, Due(1)' = Due(2)
  PROVE  PartInv'
<1>1. /\ Len(inbound') = Len(inbound) - 1 /\ Len(inbound) \in Nat \ {0}
      /\ \A i \in 1..Len(inbound') : inbound'[i] = inbound[i + 1]
  BY StreamTail
<1>2. ASSUME NEW i \in 1..(Len(inbound') + 1) PROVE Due(i)' = Due(i + 1)
  <2>1. CASE i = 1
    BY <2>1
  <2>2. CASE i # 1
    <3>1. i - 1 \in 1..Len(inbound') /\ i + 1 # 1 /\ (i + 1) - 1 = i /\ (i - 1) + 1 = i
      BY <1>1, <2>2
    <3>2. inbound'[i - 1] = inbound[i]
      BY <1>1, <3>1
    <3>3. QED
      BY <2>2, <3>1, <3>2 DEF Due
  <2>3. QED
    BY <2>1, <2>2
<1>3. ASSUME NEW i \in 1..Len(inbound') PROVE inbound'[i].part = Due(i)'
  <2>1. i + 1 \in 1..Len(inbound) /\ i \in 1..(Len(inbound') + 1)
    BY <1>1
  <2>2. QED
    BY <1>1, <1>2, <2>1 DEF PartInv
<1>4. ASSUME peer' = "up" PROVE Due(Len(inbound) + 1)' = "header"
  <2>1. PICK k : k = Len(inbound') + 1
    OBVIOUS
  <2>2. k \in 1..(Len(inbound') + 1) /\ k = Len(inbound)
    BY <1>1, <2>1
  <2>3. Due(k)' = Due(k + 1) /\ Due(k + 1) = "header"
    BY <1>2, <1>4, <2>2 DEF PartInv
  <2>4. QED
    BY <2>1, <2>3
<1>5. QED
  BY <1>3, <1>4 DEF PartInv

\* What is sent stands behind the rest of the stream.
LEMMA PartSend ==
  ASSUME OrderTypes, NEW kind \in Kinds, Send(kind)
  PROVE  LET p == Len(kinds) + 1
             n == Len(inbound)
         IN  /\ n \in Nat /\ Len(kinds) \in Nat /\ p \notin Sent /\ Sent' = Sent \cup {p}
             /\ kinds'[p] = kind /\ \A q \in Sent : kinds'[q] = kinds[q]
             /\ \A i \in 1..n : inbound'[i] = inbound[i]
             /\ inbound'[n + 1] = [packet |-> p, part |-> "header"]
             /\ IF kind \in WithBody
                THEN Len(inbound') = n + 2 /\ inbound'[n + 2] = [packet |-> p, part |-> "body"]
                ELSE Len(inbound') = n + 1
<1> DEFINE p == Len(kinds) + 1
           n == Len(inbound)
           header == [packet |-> p, part |-> "header"]
           body == [packet |-> p, part |-> "body"]
<1>1. /\ Len(kinds) \in Nat /\ kinds \in Seq(Kinds) /\ kinds' = Append(kinds, kind)
      /\ n \in Nat /\ p \in Ids /\ inbound \in Seq(Parts)
      /\ inbound' = inbound \o Tokens(p, kind)
  BY BoundsAssumption DEF Send, OrderTypes, Ids
<1>2. p \notin Sent /\ Sent' = Sent \cup {p} /\ kinds'[p] = kind /\ \A q \in Sent : kinds'[q] = kinds[q]
  BY <1>1 DEF Sent
<1>3. header \in Parts /\ body \in Parts
  BY <1>1 DEF Parts
<1>4. CASE kind \in WithBody
  <2>1. inbound' = inbound \o <<header, body>>
    BY <1>1, <1>4 DEF Tokens
  <2>2. /\ Len(inbound') = n + 2 /\ \A i \in 1..n : inbound'[i] = inbound[i]
        /\ inbound'[n + 1] = header /\ inbound'[n + 2] = body
    BY <1>1, <1>3, <2>1
  <2>3. QED
    BY <1>1, <1>2, <1>4, <2>2
<1>5. CASE kind \notin WithBody
  <2>1. inbound' = inbound \o <<header>>
    BY <1>1, <1>5 DEF Tokens
  <2>2. /\ Len(inbound') = n + 1 /\ \A i \in 1..n : inbound'[i] = inbound[i]
        /\ inbound'[n + 1] = header
    BY <1>1, <1>3, <2>1
  <2>3. QED
    BY <1>1, <1>2, <1>5, <2>2
<1>6. QED
  BY <1>4, <1>5

\* A packet is sent.
LEMMA IdleSend ==
  ASSUME IInv, WInv, IdleInv, NEW kind \in Kinds, Send(kind)
  PROVE  PartInv' /\ LoopInv' /\ KnownInv' /\ HandledInv'
<1> USE DEF IInv, IdleInv
<1>0. PICK p, n : p = Len(kinds) + 1 /\ n = Len(inbound)
  OBVIOUS
<1>1. /\ n \in Nat /\ Len(kinds) \in Nat /\ p \notin Sent /\ Sent' = Sent \cup {p}
      /\ kinds'[p] = kind /\ \A q \in Sent : kinds'[q] = kinds[q]
      /\ \A i \in 1..n : inbound'[i] = inbound[i]
      /\ inbound'[n + 1] = [packet |-> p, part |-> "header"]
      /\ IF kind \in WithBody
         THEN Len(inbound') = n + 2 /\ inbound'[n + 2] = [packet |-> p, part |-> "body"]
         ELSE Len(inbound') = n + 1
  BY <1>0, PartSend
<1>2. /\ peer = "up" /\ UNCHANGED <<peer, reads, submitted, moved, done, running, written>>
      /\ \A q : RepliesTo(q)' = RepliesTo(q)
  BY DEF Send, queue, output, RepliesTo
<1>3. \A i \in 1..n : inbound[i].packet \in Sent
  BY <1>0 DEF OrderTypes
<1>4. ASSUME NEW i \in 1..(n + 1) PROVE Due(i)' = Due(i)
  <2>1. CASE i = 1
    BY <1>2, <2>1 DEF Due
  <2>2. CASE i # 1
    <3>1. i - 1 \in 1..n
      BY <1>1, <2>2
    <3>2. inbound'[i - 1] = inbound[i - 1] /\ kinds'[inbound[i - 1].packet] = kinds[inbound[i - 1].packet]
      BY <1>1, <1>3, <3>1
    <3>3. QED
      BY <2>2, <3>2 DEF Due
  <2>3. QED
    BY <2>1, <2>2
<1>5. Due(n + 1)' = "header"
  <2>1. Due(n + 1) = "header" /\ n + 1 \in 1..(n + 1)
    BY <1>0, <1>1, <1>2 DEF PartInv
  <2>2. QED
    BY <1>4, <2>1
<1>6. Due(n + 2)' = IF kind \in WithBody THEN "body" ELSE "header"
  <2>1. n + 2 # 1 /\ (n + 2) - 1 = n + 1
    BY <1>1
  <2>2. QED
    BY <1>1, <2>1 DEF Due
<1>7. kind \in WithBody => Due(n + 3)' = "header"
  <2>1. n + 3 # 1 /\ (n + 3) - 1 = n + 2
    BY <1>1
  <2>2. QED
    BY <1>1, <2>1 DEF Due
<1>8. PartInv'
  <2>1. ASSUME NEW i \in 1..Len(inbound') PROVE inbound'[i].part = Due(i)'
    <3>1. i \in 1..n \/ i = n + 1 \/ (i = n + 2 /\ kind \in WithBody)
      BY <1>1
    <3>2. i \in 1..n => i \in 1..(n + 1)
      BY <1>1
    <3>3. QED
      BY <1>0, <1>1, <1>4, <1>5, <1>6, <3>1, <3>2 DEF PartInv
  <2>2. Due(Len(inbound) + 1)' = "header"
    <3>1. PICK k : k = Len(inbound') + 1
      OBVIOUS
    <3>2. k = IF kind \in WithBody THEN n + 3 ELSE n + 2
      BY <1>1, <3>1
    <3>3. Due(k)' = "header"
      BY <1>6, <1>7, <3>2
    <3>4. QED
      BY <3>1, <3>3
  <2>3. QED
    BY <2>1, <2>2 DEF PartInv
<1>9. KnownInv'
  <2> SUFFICES ASSUME NEW q \in Sent', kinds'[q] \in Direct PROVE Known(q)'
    BY DEF KnownInv
  <2>1. CASE q \in Sent
    <3>1. Known(q) /\ EndPart(q)' = EndPart(q)
      BY <1>1, <1>2, <2>1 DEF KnownInv, EndPart
    <3>2. \A i \in 1..n : i \in 1..Len(inbound')
      BY <1>1
    <3>3. (\E i \in 1..Len(inbound) : inbound[i] = EndPart(q)) => \E i \in 1..Len(inbound') : inbound'[i] = EndPart(q)'
      BY <1>0, <1>1, <3>1, <3>2
    <3>4. QED
      BY <1>2, <3>1, <3>3 DEF Known
  <2>2. CASE q = p
    <3>1. EndPart(q)' = inbound'[Len(inbound')] /\ Len(inbound') \in 1..Len(inbound')
      BY <1>1, <2>2 DEF EndPart
    <3>2. QED
      BY <3>1 DEF Known
  <2>3. QED
    BY <1>1, <2>1, <2>2
<1>10. HandledInv'
  <2>1. ToSet(done) \subseteq Sent
    BY DEF OrderTypes, Accepted
  <2>2. QED
    BY <1>1, <1>2, <2>1 DEF HandledInv
<1>11. QED
  BY <1>2, <1>8, <1>9, <1>10 DEF LoopInv

\* The client hangs up.
LEMMA IdleHangUp ==
  ASSUME IInv, IdleInv, HangUp
  PROVE  PartInv' /\ LoopInv' /\ KnownInv' /\ HandledInv'
<1> USE DEF IInv, IdleInv
<1>1. PICK n \in 0..Len(inbound) : inbound' = SubSeq(inbound, 1, n)
  BY DEF HangUp
<1>2. /\ Len(inbound') = n /\ Len(inbound) \in Nat
      /\ \A i \in 1..n : inbound'[i] = inbound[i] /\ i \in 1..Len(inbound)
  BY <1>1 DEF OrderTypes
<1>3. peer' = "gone" /\ UNCHANGED <<kinds, reads, done, running, written>>
  BY DEF HangUp, queue, output
<1>4. ASSUME NEW i \in 1..n PROVE Due(i)' = Due(i)
  <2>1. i # 1 => i - 1 \in 1..n
    OBVIOUS
  <2>2. i # 1 => inbound'[i - 1] = inbound[i - 1]
    BY <1>2, <2>1
  <2>3. QED
    BY <1>3, <2>2 DEF Due
<1>5. PartInv'
  BY <1>2, <1>3, <1>4 DEF PartInv
<1>6. QED
  BY <1>3, <1>5 DEF LoopInv, KnownInv, HandledInv, RepliesTo

\* start_write makes a reply.
LEMMA ReplyMade ==
  ASSUME NEW p, StartWrite(p)
  PROVE  written \subseteq written' /\ RepliesTo(p)' # {}
<1>1. PICK r : r[1] = p /\ written' = written \cup {r}
  BY DEF StartWrite
<1>2. r \in RepliesTo(p)'
  BY <1>1 DEF RepliesTo
<1>3. QED
  BY <1>1, <1>2

\* The first part of the stream is read, and the packet is known elsewhere if it was the last.
LEMMA KnownTail ==
  ASSUME OrderTypes, KnownInv, inbound # <<>>, inbound' = Tail(inbound),
         UNCHANGED <<kinds, peer>>, submitted \subseteq submitted', written \subseteq written',
         \A p \in Sent : kinds[p] \in Direct /\ inbound[1] = EndPart(p)
                           => p \in submitted' \/ RepliesTo(p)' # {}
  PROVE  KnownInv'
<1>1. /\ Len(inbound') = Len(inbound) - 1 /\ Len(inbound) \in Nat \ {0}
      /\ \A i \in 1..Len(inbound') : inbound'[i] = inbound[i + 1]
  BY StreamTail
<1>2. SUFFICES ASSUME peer = "up", NEW p \in Sent, kinds[p] \in Direct PROVE Known(p)'
  BY DEF KnownInv, Sent
<1>3. Known(p) /\ EndPart(p)' = EndPart(p) /\ RepliesTo(p) \subseteq RepliesTo(p)'
  BY <1>2 DEF KnownInv, EndPart, RepliesTo
<1>4. ASSUME NEW i \in 1..Len(inbound), inbound[i] = EndPart(p) PROVE Known(p)'
  <2>1. CASE i = 1
    BY <1>2, <1>4, <2>1 DEF Known
  <2>2. CASE i # 1
    <3>1. i - 1 \in 1..Len(inbound') /\ inbound'[i - 1] = inbound[i]
      BY <1>1, <2>2
    <3>2. QED
      BY <1>3, <1>4, <3>1 DEF Known
  <2>3. QED
    BY <2>1, <2>2
<1>5. QED
  BY <1>3, <1>4 DEF Known

\* Nothing is read.
LEMMA KnownFrame ==
  ASSUME KnownInv, UNCHANGED <<kinds, peer, inbound>>, written \subseteq written',
         \A p \in submitted \ submitted' : RepliesTo(p)' # {}
  PROVE  KnownInv'
<1>1. SUFFICES ASSUME peer = "up", NEW p \in Sent, kinds[p] \in Direct PROVE Known(p)'
  BY DEF KnownInv, Sent
<1>2. Known(p) /\ EndPart(p)' = EndPart(p) /\ RepliesTo(p) \subseteq RepliesTo(p)'
  BY <1>1 DEF KnownInv, EndPart, RepliesTo
<1>3. QED
  BY <1>2 DEF Known

\* No handler returns, or the one of a PUT with its acknowledgement.
LEMMA HandledFrame ==
  ASSUME HandledInv, UNCHANGED kinds, written \subseteq written',
         \A p \in (ToSet(done') \ running') \ (ToSet(done) \ running) :
           kinds[p] = "put" => RepliesTo(p)' # {}
  PROVE  HandledInv'
<1>1. \A p : RepliesTo(p) \subseteq RepliesTo(p)'
  BY DEF RepliesTo
<1>2. QED
  BY <1>1 DEF HandledInv

\* The read at hand completes.
LEMMA IdleRead ==
  ASSUME IInv, WInv, IdleInv, Read
  PROVE  PartInv' /\ LoopInv' /\ KnownInv' /\ HandledInv'
<1> USE DEF IInv, IdleInv
<1>0. /\ Tail(reads) = <<>> /\ submitted = {} /\ ~moved /\ reads = <<Head(reads)>>
      /\ UNCHANGED <<kinds, peer, running, done>>
  <2>1. reads # <<>> /\ UNCHANGED <<kinds, peer, running, done>>
    BY DEF Read, HeaderWithBody, HeaderGet, HeaderStray, HeaderWorker, BodyPut, BodyTrigger,
           ReadError, Completes, client, queue
  <2>2. Len(reads) = 1 /\ Tail(reads) = <<>> /\ submitted = {} /\ ~moved
    BY <2>1, ReaderAlone
  <2>3. reads = <<Head(reads)>>
    BY <2>2 DEF ReaderInv
  <2>4. QED
    BY <2>1, <2>2, <2>3
<1>1. CASE ReadError
  <2>1. inbound = <<>> /\ UNCHANGED <<inbound, submitted, moved, written>> /\ peer = "gone"
    BY <1>1 DEF ReadError, output
  <2>2. PartInv' /\ LoopInv'
    BY <1>0, <2>1 DEF PartInv, LoopInv
  <2>3. QED
    BY <1>0, <2>1, <2>2, KnownFrame, HandledFrame
<1>2. ASSUME NEW part \in {"header", "body"}, NEW kind \in Kinds, NEW q,
             Completes(part, kind), q = Head(inbound).packet, written \subseteq written',
             submitted \subseteq submitted',
             \/ part = "header" /\ reads' = IF kind \in WithBody THEN <<"body">> ELSE <<"header">>
             \/ part = "body" /\ reads' = <<"header">>
             \/ (part = "body" \/ kind \notin WithBody) /\ reads' = <<>>,
             reads' = <<>> => moved' \/ submitted' # {},
             kind \in Direct /\ (part = "body" \/ kind \notin WithBody)
               => q \in submitted' \/ RepliesTo(q)' # {}
      PROVE  PartInv' /\ LoopInv' /\ KnownInv' /\ HandledInv'
  <2>1. /\ inbound # <<>> /\ inbound' = Tail(inbound) /\ inbound[1] = Head(inbound)
        /\ inbound[1].part = part /\ kinds[inbound[1].packet] = kind
    BY <1>2, StreamTail DEF Completes
  <2>2. Due(1)' = Due(2)
    <3>1. Due(2) = IF part = "header" /\ kind \in WithBody THEN "body" ELSE "header"
      BY <2>1 DEF Due
    <3>2. Due(1)' = IF reads' = <<"body">> THEN "body" ELSE "header"
      BY DEF Due
    <3>3. <<"header">> # <<"body">> /\ <<>> # <<"body">>
      OBVIOUS
    <3>4. QED
      BY <1>2, <3>1, <3>2, <3>3
  <2>3. PartInv'
    BY <1>0, <2>1, <2>2, PartTail
  <2>4. LoopInv'
    BY <1>2 DEF LoopInv
  <2>5. ASSUME NEW p \in Sent, kinds[p] \in Direct, inbound[1] = EndPart(p)
        PROVE  p \in submitted' \/ RepliesTo(p)' # {}
    <3>1. inbound[1].packet = p /\ kind = kinds[p]
      BY <2>1, <2>5 DEF EndPart
    <3>2. part = IF kind \in WithBody THEN "body" ELSE "header"
      BY <2>1, <2>5, <3>1 DEF EndPart
    <3>3. QED
      BY <1>2, <2>1, <2>5, <3>1, <3>2
  <2>6. KnownInv'
    BY <1>0, <1>2, <2>1, <2>5, KnownTail
  <2>7. HandledInv'
    BY <1>0, <1>2, HandledFrame
  <2>8. QED
    BY <2>3, <2>4, <2>6, <2>7
<1>3. \A part : NextRead(part) => reads' = <<part>>
  <2>1. \A part : Append(<<>>, part) = <<part>>
    OBVIOUS
  <2>2. QED
    BY <1>0, <2>1 DEF NextRead
<1>4. CASE HeaderWithBody
  <2>1. PICK kind \in WithBody : Completes("header", kind)
    BY <1>4 DEF HeaderWithBody
  <2>2. kind \in Kinds /\ reads' = <<"body">> /\ reads' # <<>> /\ UNCHANGED <<written, submitted>>
    BY <1>3, <1>4 DEF HeaderWithBody, WithBody, Kinds, output
  <2>3. QED
    BY <1>2, <2>1, <2>2
<1>5. CASE HeaderGet
  <2>1. /\ Completes("header", "get") /\ reads' = <<"header">> /\ reads' # <<>>
        /\ UNCHANGED <<written, submitted>>
        /\ "get" \in Kinds \ WithBody /\ "get" \notin Direct
    BY <1>3, <1>5 DEF HeaderGet, WithBody, Kinds, output, Direct
  <2>2. QED
    BY <1>2, <2>1
<1>6. CASE HeaderStray
  <2>1. /\ Completes("header", "stray") /\ reads' = <<"header">> /\ reads' # <<>>
        /\ UNCHANGED submitted /\ StartWrite(Head(inbound).packet)
        /\ "stray" \in Kinds \ WithBody
    BY <1>3, <1>6 DEF HeaderStray, WithBody, Kinds
  <2>2. PICK q : q = Head(inbound).packet
    OBVIOUS
  <2>3. written \subseteq written' /\ RepliesTo(q)' # {}
    BY <2>1, <2>2, ReplyMade
  <2>4. QED
    BY <1>2, <2>1, <2>2, <2>3
<1>7. CASE HeaderWorker
  <2>1. /\ Completes("header", "worker_reg") /\ reads' = <<>> /\ moved'
        /\ UNCHANGED <<submitted, written>>
        /\ "worker_reg" \in Kinds \ WithBody /\ "worker_reg" \notin Direct
    BY <1>0, <1>7 DEF HeaderWorker, WithBody, Kinds, output, Direct
  <2>2. QED
    BY <1>2, <2>1
<1>8. CASE BodyPut
  <2>0. "put" \in Kinds /\ "put" \notin Direct
    BY DEF Kinds, Direct
  <2>1. /\ Completes("body", "put") /\ reads' = <<"header">> /\ reads' # <<>>
        /\ UNCHANGED <<submitted, written>>
    <3>1. Completes("body", "put") /\ NextRead("header") /\ UNCHANGED <<submitted, output>>
      BY <1>8 DEF BodyPut
    <3>2. reads' = <<"header">> /\ reads' # <<>>
      BY <1>3, <3>1
    <3>3. QED
      BY <3>1, <3>2 DEF output
  <2>2. PICK q : q = Head(inbound).packet
    OBVIOUS
  <2>3. written \subseteq written' /\ submitted \subseteq submitted'
    BY <2>1
  <2>4. QED
    BY <1>2, <2>0, <2>1, <2>2, <2>3
<1>9. CASE BodyTrigger
  <2>1. /\ Completes("body", "trigger") /\ reads' = <<>>
        /\ submitted' = submitted \cup {Head(inbound).packet} /\ UNCHANGED written
        /\ "trigger" \in Kinds
    BY <1>0, <1>9 DEF BodyTrigger, Kinds, output
  <2>2. QED
    BY <1>2, <2>1
<1>10. QED
  BY <1>1, <1>4, <1>5, <1>6, <1>7, <1>8, <1>9 DEF Read

\* The launcher answers, a slot or a handler writes, the socket sends.
LEMMA IdleRest ==
  ASSUME IInv, WInv, IdleInv,
         (\E p \in Sent : Deliver(p)) \/ Write \/ Handle \/ Answer \/ UNCHANGED vars
  PROVE  PartInv' /\ LoopInv' /\ KnownInv' /\ HandledInv'
<1> USE DEF IInv, IdleInv
<1>1. ASSUME UNCHANGED <<kinds, peer, inbound, reads, submitted, moved>>, written \subseteq written',
             \A p \in (ToSet(done') \ running') \ (ToSet(done) \ running) :
               kinds[p] = "put" => RepliesTo(p)' # {}
      PROVE  PartInv' /\ LoopInv' /\ KnownInv' /\ HandledInv'
  <2>1. PartInv' /\ LoopInv'
    BY <1>1 DEF PartInv, LoopInv, Due
  <2>2. KnownInv' /\ HandledInv'
    BY <1>1, KnownFrame, HandledFrame
  <2>3. QED
    BY <2>1, <2>2
<1>2. ASSUME NEW p \in Sent, Deliver(p) PROVE PartInv' /\ LoopInv' /\ KnownInv' /\ HandledInv'
  <2>1. /\ UNCHANGED <<kinds, peer, inbound, reads, submitted, moved, done, running>>
        /\ StartWrite(p)
    BY <1>2 DEF Deliver, client, queue
  <2>2. QED
    BY <1>1, <2>1, ReplyMade
<1>3. CASE Write
  <2>1. UNCHANGED <<kinds, peer, inbound, reads, submitted, moved, done, running, written>>
    BY <1>3 DEF Write, Transmit, WriteError, Resume, client, queue
  <2>2. QED
    BY <1>1, <2>1
<1>4. CASE Take
  <2>1. /\ UNCHANGED <<kinds, peer, inbound, reads, submitted, moved, done, written>>
        /\ running \subseteq running'
    BY <1>4 DEF Take, client, output
  <2>2. QED
    BY <1>1, <2>1
<1>5. ASSUME NEW p \in running, Reach(p) PROVE PartInv' /\ LoopInv' /\ KnownInv' /\ HandledInv'
  <2>1. /\ UNCHANGED <<kinds, peer, inbound, reads, submitted, moved, running, written>>
        /\ done' = Append(done, p)
    BY <1>5 DEF Reach, client, output
  <2>2. ToSet(done') = ToSet(done) \cup {p}
    BY <2>1, ToSetAppend DEF OrderTypes
  <2>3. QED
    BY <1>1, <2>1, <2>2
<1>6. ASSUME NEW p \in running, Finish(p) PROVE PartInv' /\ LoopInv' /\ KnownInv' /\ HandledInv'
  <2>1. /\ UNCHANGED <<kinds, peer, inbound, reads, submitted, moved, done>>
        /\ running' = running \ {p}
        /\ IF kinds[p] = "put" THEN StartWrite(p) ELSE UNCHANGED written
    BY <1>6 DEF Finish, client, output
  <2>2. written \subseteq written' /\ (kinds[p] = "put" => RepliesTo(p)' # {})
    BY <2>1, ReplyMade
  <2>3. QED
    BY <1>1, <2>1, <2>2
<1>7. ASSUME NEW p \in submitted, Complete(p) PROVE PartInv' /\ LoopInv' /\ KnownInv' /\ HandledInv'
  <2>1. /\ UNCHANGED <<kinds, peer, inbound, done, running>>
        /\ reads' = Append(reads, "header") /\ submitted' = submitted \ {p} /\ StartWrite(p)
    BY <1>7 DEF Complete, client, queue
  <2>2. reads = <<>>
    BY <1>7, ReaderAlone
  <2>3. reads' = <<"header">>
    <3>1. Append(<<>>, "header") = <<"header">>
      OBVIOUS
    <3>2. QED
      BY <2>1, <2>2, <3>1
  <2>4. /\ (reads = <<"body">> <=> reads' = <<"body">>) /\ reads' # <<>>
    <3>1. <<"header">> # <<"body">> /\ <<"header">> # <<>> /\ <<>> # <<"body">>
      OBVIOUS
    <3>2. QED
      BY <2>2, <2>3, <3>1
  <2>5. PartInv' /\ LoopInv'
    BY <2>1, <2>4 DEF PartInv, LoopInv, Due
  <2>6. written \subseteq written' /\ RepliesTo(p)' # {}
    BY <2>1, ReplyMade
  <2>7. KnownInv' /\ HandledInv'
    BY <2>1, <2>6, KnownFrame, HandledFrame
  <2>8. QED
    BY <2>5, <2>7
<1>8. CASE UNCHANGED vars
  <2>1. UNCHANGED <<kinds, peer, inbound, reads, submitted, moved, done, running, written>>
    BY <1>8 DEF vars, client, queue, output
  <2>2. QED
    BY <1>1, <2>1
<1>9. QED
  BY <1>2, <1>3, <1>4, <1>5, <1>6, <1>7, <1>8 DEF Handle, Answer

\* Nothing is left to be done: no read can complete, no handler waits or runs, no write is
\* under way and the launcher has no trigger of the connection (no guard of Server and
\* Answer holds, but for the read that reports that the client is gone).
Idle ==
  /\ reads = <<>> \/ inbound = <<>> \/ Head(reads) # Head(inbound).part
  /\ posted = <<>> /\ running = {} /\ submitted = {}
  /\ writes = <<>> /\ resuming = {}

\* A connection that has nothing left to do has answered every PUT, trigger and
\* misdirected packet (see EveryPacketAnswered): its reading never stops early nor waits for
\* a body where a header comes, and no handler forgets its reply.
THEOREM IdleAnswered ==
  Spec => [](Idle => \A p \in Sent : \/ kinds[p] \in {"get", "worker_reg"}
                                     \/ Answered(p)
                                     \/ peer = "gone"
                                     \/ moved /\ ~turns)
<1> DEFINE Done == \A p \in Sent : \/ kinds[p] \in {"get", "worker_reg"}
                                   \/ Answered(p)
                                   \/ peer = "gone"
                                   \/ moved /\ ~turns
<1>1. Init => IdleInv
  <2> SUFFICES ASSUME Init PROVE IdleInv
    OBVIOUS
  <2>1. ReaderInv
    BY FS_EmptySet DEF Init, ReaderInv, OneReader
  <2>2. inbound = <<>> /\ Len(inbound) = 0 /\ reads = <<"header">> /\ <<"header">> # <<"body">>
        /\ <<"header">> # <<>>
    BY DEF Init
  <2>3. PartInv /\ LoopInv
    BY <2>2 DEF PartInv, LoopInv, Due
  <2>4. Sent = {} /\ ToSet(done) = {}
    BY DEF Init, Sent, ToSet
  <2>5. QED
    BY <2>1, <2>3, <2>4 DEF IdleInv, KnownInv, HandledInv
<1>2. (IInv /\ WInv) /\ IdleInv /\ [Next]_vars => IdleInv'
  <2> SUFFICES ASSUME IInv, WInv, IdleInv, [Next]_vars PROVE IdleInv'
    OBVIOUS
  <2>1. ReaderInv'
    BY ReaderStep DEF IdleInv
  <2>2. PartInv' /\ LoopInv' /\ KnownInv' /\ HandledInv'
    BY IdleSend, IdleHangUp, IdleRead, IdleRest DEF Next, Server
  <2>3. QED
    BY <2>1, <2>2 DEF IdleInv
<1>3. (IInv /\ WInv) /\ IdleInv => (Idle => Done)
  <2> SUFFICES ASSUME IInv, WInv, IdleInv, Idle, NEW p \in Sent,
                      kinds[p] \notin {"get", "worker_reg"}, peer = "up", moved => turns
               PROVE  Answered(p)
    BY DEF IInv, OrderTypes
  <2> USE DEF IInv, IdleInv
  <2>0. OutInv
    BY DEF WInv
  <2>1. kinds[p] = "put" \/ kinds[p] \in Direct
    BY DEF OrderTypes, Sent, Kinds, Direct
  <2>2. ASSUME ~moved PROVE inbound = <<>>
    <3>1. reads # <<>>
      BY <2>2 DEF Idle, LoopInv
    <3>2. Len(reads) = 1 /\ reads \in Seq({"header", "body"})
      BY <3>1, ReaderAlone DEF ReaderInv
    <3>3. reads = <<Head(reads)>> /\ Head(reads) \in {"header", "body"}
      BY <3>2
    <3>4. ASSUME inbound # <<>> PROVE Head(inbound).part = Head(reads)
      <4>1. Head(inbound) = inbound[1] /\ 1 \in 1..Len(inbound)
        BY <3>4, StreamTail
      <4>2. inbound[1].part = Due(1)
        BY <4>1 DEF PartInv
      <4>3. Due(1) = Head(reads)
        BY <3>3 DEF Due
      <4>4. QED
        BY <4>1, <4>2, <4>3
    <3>5. QED
      BY <3>1, <3>4 DEF Idle
  <2>3. CASE moved
    <3>1. kinds[p] # "worker_reg" /\ turns
      BY <2>3
    <3>2. QED
      BY <2>0, <2>3, <3>1, WorkerDone DEF OutInv
  <2>4. CASE ~moved
    <3>1. ASSUME kinds[p] \in Direct PROVE RepliesTo(p) # {}
      <4>1. Known(p) /\ inbound = <<>> /\ submitted = {}
        BY <2>2, <2>4, <3>1 DEF KnownInv, Idle
      <4>2. QED
        BY <4>1 DEF Known
    <3>2. ASSUME kinds[p] = "put" PROVE RepliesTo(p) # {}
      <4>1. inbound = <<>> /\ IsPosted(p)
        BY <2>2, <2>4, <3>2 DEF IsPosted
      <4>2. p \in Accepted
        BY <4>1 DEF StreamInv
      <4>3. ToSet(posted) = {} /\ running = {}
        BY DEF Idle, ToSet
      <4>4. QED
        BY <3>2, <4>2, <4>3 DEF Accepted, HandledInv
    <3>3. RepliesTo(p) # {}
      BY <2>1, <3>1, <3>2
    <3>4. PICK r \in RepliesTo(p) : r \in written
      BY <3>3 DEF RepliesTo
    <3>5. ToSet(writes) \cup resuming = {}
      BY DEF Idle, ToSet
    <3>6. arrived[r] = Units
      BY <2>0, <2>4, <3>4, <3>5 DEF OutInv, NothingLost
    <3>7. QED
      BY <3>4, <3>6 DEF Answered
  <2>5. QED
    BY <2>3, <2>4
<1>4. QED
  BY <1>1, <1>2, <1>3, RepliesInOrder, PTL DEF Spec
=============================================================================
