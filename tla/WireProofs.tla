----------------------------- MODULE WireProofs -----------------------------
(***************************************************************************)
(* Proofs about Wire for keys of any size and any packets: what is parsed  *)
(* is what was dumped, and the reader cuts the stream where it was joined. *)
(***************************************************************************)
EXTENDS Wire, Integers, SequenceTheorems, TLAPS

-----------------------------------------------------------------------------
(* Integers and headers.                                                   *)

\* Headers as serialize makes them.
Headers ==
  [type : Types, key : Bytes(KeySize), sequence : Bytes(4), salt : Bytes(4), datasize : Nat]

LEMMA TypesAreBytes == Types \subseteq Byte
  BY DEF Types, Byte, Base, msg_t

LEMMA BytesAreSequences ==
  ASSUME NEW n \in Nat, NEW b \in Bytes(n)
  PROVE  b \in Seq(Byte) /\ Len(b) = n
<1>1. b \in Seq(Byte)
  BY SeqDef DEF Bytes
<1>2. QED
  BY <1>1, LenProperties DEF Bytes

\* An integer in memory is four bytes, and read back as it was if four bytes hold it.
LEMMA MemoryIsBytes ==
  ASSUME NEW n \in Nat
  PROVE  Memory(n) \in Bytes(4)
<1>1. ASSUME NEW k \in 1..4 PROVE (n \div Weight[k]) % Base \in Byte
  <2>1. Weight[k] \in {1, 256, 65536, 16777216}
    BY DEF Weight, Base
  <2>2. n \div Weight[k] \in Nat
    BY <2>1
  <2>3. QED
    BY <2>2 DEF Byte, Base
<1>2. QED
  BY <1>1 DEF Memory, Bytes

LEMMA NumberOfMemory ==
  ASSUME NEW n \in Nat, n \div Weight[4] \in Byte
  PROVE  Number(Memory(n)) = n
<1> DEFINE m == Memory(n)
<1>1. /\ m[1] = n % 256 /\ m[2] = (n \div 256) % 256
      /\ m[3] = (n \div 65536) % 256 /\ m[4] = (n \div 16777216) % 256
  BY DEF Memory, Weight, Base
<1>2. n \div 16777216 \in 0..255
  BY DEF Weight, Base, Byte
<1>3. (n \div 16777216) % 256 = n \div 16777216
  BY <1>2
<1>4. /\ n = (n % 256) + 256 * (n \div 256)
      /\ n \div 256 = ((n \div 256) % 256) + 256 * (n \div 65536)
      /\ n \div 65536 = ((n \div 65536) % 256) + 256 * (n \div 16777216)
  OBVIOUS
<1>5. QED
  BY <1>1, <1>3, <1>4 DEF Number, Base

LEMMA NumberIsNat ==
  ASSUME NEW m \in Bytes(4)
  PROVE  Number(m) \in Nat
<1>1. m[1] \in Nat /\ m[2] \in Nat /\ m[3] \in Nat /\ m[4] \in Nat
  BY DEF Bytes, Byte, Base
<1>2. QED
  BY <1>1 DEF Number, Base

\* Integers of one, two and four bytes survive the way to the network and back.
LEMMA HtonInvolution ==
  ASSUME NEW w \in {1, 2, 4}, NEW m \in Bytes(w)
  PROVE  /\ hton(m) \in Bytes(w) /\ ntoh(m) \in Bytes(w)
         /\ ntoh(hton(m)) = m
<1>1. Len(m) = w /\ DOMAIN m = 1..w
  BY BytesAreSequences DEF Bytes
<1>2. CASE w = 1
  BY <1>1, <1>2 DEF hton, ntoh
<1>3. CASE w \in {2, 4}
  <2> DEFINE r == Reverse(m)
  <2>1. hton(m) = r /\ ntoh(m) = r
    BY <1>1, <1>3 DEF hton, ntoh
  <2>2. r = [i \in 1..w |-> m[(w - i) + 1]]
    BY <1>1 DEF Reverse
  <2> HIDE DEF r
  <2>3. r \in Bytes(w)
    BY <1>3, <2>2 DEF Bytes
  <2>4. Len(r) = w
    BY <2>3, <1>3, BytesAreSequences
  <2>5. ntoh(r) = [i \in 1..w |-> r[(w - i) + 1]]
    BY <2>4, <1>3 DEF ntoh, Reverse
  <2>6. \A i \in 1..w : r[(w - i) + 1] = m[i]
    BY <2>2, <1>3
  <2>7. ntoh(r) = m
    BY <2>5, <2>6 DEF Bytes
  <2>8. QED
    BY <2>1, <2>3, <2>7
<1>4. QED
  BY <1>2, <1>3

\* What follows a part of a sequence does not matter, and a part that is put behind
\* another is found there.
LEMMA InFront ==
  ASSUME NEW s \in Seq(Byte), NEW t \in Seq(Byte), NEW m \in Nat, NEW n \in Nat,
         1 <= m, n <= Len(s)
  PROVE  SubSeq(s \o t, m, n) = SubSeq(s, m, n)
<1>1. CASE m <= n
  BY <1>1, SubSeqOfConcat1, LenProperties
<1>2. CASE n < m
  BY <1>2, SubSeqEmpty
<1>3. QED
  BY <1>1, <1>2

LEMMA Behind ==
  ASSUME NEW s \in Seq(Byte), NEW t \in Seq(Byte)
  PROVE  SubSeq(s \o t, Len(s) + 1, Len(s) + Len(t)) = t
<1>1. Len(s) \in Nat /\ Len(t) \in Nat
  BY LenProperties
<1>2. CASE Len(t) = 0
  <2>1. t = <<>>
    BY <1>2, EmptySeq
  <2>2. SubSeq(s \o t, Len(s) + 1, Len(s) + Len(t)) = <<>>
    BY <1>1, <1>2, SubSeqEmpty
  <2>3. QED
    BY <2>1, <2>2
<1>3. CASE Len(t) > 0
  <2>1. SubSeq(s \o t, Len(s) + 1, Len(s) + Len(t)) = SubSeq(t, 1, Len(t))
    <3>1. /\ Len(s) + 1 \in Len(s)+1 .. Len(s)+Len(t)
          /\ Len(s) + Len(t) \in Len(s)+1 .. Len(s)+Len(t)
      BY <1>1, <1>3
    <3>2. SubSeq(s \o t, Len(s) + 1, Len(s) + Len(t))
            = SubSeq(t, (Len(s) + 1) - Len(s), (Len(s) + Len(t)) - Len(s))
      BY <3>1, SubSeqOfConcat2
    <3>3. QED
      BY <3>2, <1>1
  <2>2. QED
    BY <2>1, SubSeqFull
<1>4. QED
  BY <1>1, <1>2, <1>3

\* A header is put together from front to back.
Part1(h) == <<h.type>> \o h.key
Part2(h) == Part1(h) \o h.sequence
Part3(h) == Part2(h) \o h.salt
Size(h) == hton(Memory(h.datasize))

LEMMA Layout ==
  ASSUME NEW h \in Headers
  PROVE  /\ <<h.type>> \in Seq(Byte) /\ Len(<<h.type>>) = 1
         /\ h.key \in Seq(Byte) /\ Len(h.key) = KeySize
         /\ h.sequence \in Seq(Byte) /\ Len(h.sequence) = 4
         /\ h.salt \in Seq(Byte) /\ Len(h.salt) = 4
         /\ Size(h) \in Seq(Byte) /\ Len(Size(h)) = 4
         /\ Part1(h) \in Seq(Byte) /\ Len(Part1(h)) = 1 + KeySize
         /\ Part2(h) \in Seq(Byte) /\ Len(Part2(h)) = 5 + KeySize
         /\ Part3(h) \in Seq(Byte) /\ Len(Part3(h)) = 9 + KeySize
         /\ dump(h) = Part3(h) \o Size(h)
         /\ dump(h) \in Seq(Byte) /\ Len(dump(h)) = bytesize
         /\ bytesize = 13 + KeySize
<1>1. <<h.type>> \in Seq(Byte) /\ Len(<<h.type>>) = 1
  BY TypesAreBytes DEF Headers
<1>2. /\ h.key \in Seq(Byte) /\ Len(h.key) = KeySize
      /\ h.sequence \in Seq(Byte) /\ Len(h.sequence) = 4
      /\ h.salt \in Seq(Byte) /\ Len(h.salt) = 4
  BY BytesAreSequences, KeyAssumption DEF Headers
<1>3. Size(h) \in Seq(Byte) /\ Len(Size(h)) = 4
  BY MemoryIsBytes, HtonInvolution, BytesAreSequences DEF Headers, Size
<1>4. Part1(h) \in Seq(Byte) /\ Len(Part1(h)) = 1 + KeySize
  BY <1>1, <1>2, ConcatProperties DEF Part1
<1>5. Part2(h) \in Seq(Byte) /\ Len(Part2(h)) = 5 + KeySize
  <2>1. Part2(h) \in Seq(Byte) /\ Len(Part2(h)) = Len(Part1(h)) + Len(h.sequence)
    BY <1>4, <1>2, ConcatProperties DEF Part2
  <2>2. QED
    BY <2>1, <1>4, <1>2, KeyAssumption
<1>6. Part3(h) \in Seq(Byte) /\ Len(Part3(h)) = 9 + KeySize
  <2>1. Part3(h) \in Seq(Byte) /\ Len(Part3(h)) = Len(Part2(h)) + Len(h.salt)
    BY <1>5, <1>2, ConcatProperties DEF Part3
  <2>2. QED
    BY <2>1, <1>5, <1>2, KeyAssumption
<1>7. dump(h) = Part3(h) \o Size(h)
  BY DEF dump, Part1, Part2, Part3, Size
<1>8. bytesize = 13 + KeySize
  BY KeyAssumption DEF bytesize
<1>9. dump(h) \in Seq(Byte) /\ Len(dump(h)) = bytesize
  <2>1. dump(h) \in Seq(Byte) /\ Len(dump(h)) = Len(Part3(h)) + Len(Size(h))
    BY ZenonT(30), <1>3, <1>6, <1>7, ConcatProperties
  <2>2. QED
    BY <2>1, <1>3, <1>6, <1>8, KeyAssumption
<1>10. QED
  BY <1>1, <1>2, <1>3, <1>4, <1>5, <1>6, <1>7, <1>8, <1>9

\* parse reads what dump wrote: the layout is the same, and the size of the body is
\* turned round twice - if its four bytes hold it.
THEOREM ParseDump ==
  ASSUME NEW h \in Headers, h.datasize \div Weight[4] \in Byte
  PROVE  parse(dump(h)) = h
<1> DEFINE t == <<h.type>>
           d == Size(h)
           tk == Part1(h)
           tks == Part2(h)
           tkss == Part3(h)
<1>1. t \in Seq(Byte) /\ Len(t) = 1
  BY Layout
<1>2. /\ h.key \in Seq(Byte) /\ Len(h.key) = KeySize
      /\ h.sequence \in Seq(Byte) /\ Len(h.sequence) = 4
      /\ h.salt \in Seq(Byte) /\ Len(h.salt) = 4
  BY Layout
<1>3. d \in Seq(Byte) /\ Len(d) = 4
  BY Layout
<1>4. /\ tk \in Seq(Byte) /\ Len(tk) = 1 + KeySize
      /\ tks \in Seq(Byte) /\ Len(tks) = 5 + KeySize
      /\ tkss \in Seq(Byte) /\ Len(tkss) = 9 + KeySize
  BY Layout
<1>5. dump(h) = tkss \o d
  BY Layout
<1>a. tk = t \o h.key
  BY DEF Part1
<1>b. tks = tk \o h.sequence
  BY DEF Part2
<1>c. tkss = tks \o h.salt
  BY DEF Part3
<1> HIDE DEF t, d, tk, tks, tkss
<1>6. dump(h)[1] = h.type
  <2>1. tk[1] = t[1]
    BY <1>1, <1>2, <1>4, ConcatProperties, KeyAssumption, <1>a
  <2>2. tks[1] = tk[1]
    BY <1>2, <1>4, ConcatProperties, KeyAssumption, <1>b
  <2>3. tkss[1] = tks[1]
    BY <1>2, <1>4, ConcatProperties, KeyAssumption, <1>c
  <2>4. dump(h)[1] = tkss[1]
    BY <1>3, <1>4, <1>5, ConcatProperties, KeyAssumption
  <2>5. QED
    BY <2>1, <2>2, <2>3, <2>4 DEF t
<1>7. SubSeq(dump(h), 2, 1 + KeySize) = h.key
  <2>1. SubSeq(tk, 2, 1 + KeySize) = h.key
    <3>1. Len(t) + 1 = 2 /\ Len(t) + Len(h.key) = 1 + KeySize
      BY <1>1, <1>2
    <3>2. QED
      BY <3>1, <1>1, <1>2, Behind, <1>a
  <2>2. SubSeq(tks, 2, 1 + KeySize) = SubSeq(tk, 2, 1 + KeySize)
    BY <1>2, <1>4, InFront, KeyAssumption, <1>b
  <2>3. SubSeq(tkss, 2, 1 + KeySize) = SubSeq(tks, 2, 1 + KeySize)
    BY <1>2, <1>4, InFront, KeyAssumption, <1>c
  <2>4. SubSeq(tkss \o d, 2, 1 + KeySize) = SubSeq(tkss, 2, 1 + KeySize)
    BY <1>3, <1>4, InFront, KeyAssumption
  <2>5. QED
    BY <2>1, <2>2, <2>3, <2>4, <1>5
<1>8. SubSeq(dump(h), 2 + KeySize, 5 + KeySize) = h.sequence
  <2>1. SubSeq(tks, 2 + KeySize, 5 + KeySize) = h.sequence
    <3>1. Len(tk) + 1 = 2 + KeySize /\ Len(tk) + Len(h.sequence) = 5 + KeySize
      BY <1>2, <1>4, KeyAssumption
    <3>2. SubSeq(tks, Len(tk) + 1, Len(tk) + Len(h.sequence)) = h.sequence
      BY <1>2, <1>4, Behind, <1>b
    <3>3. QED
      BY <3>1, <3>2
  <2>2. SubSeq(tkss, 2 + KeySize, 5 + KeySize) = SubSeq(tks, 2 + KeySize, 5 + KeySize)
    BY <1>2, <1>4, InFront, KeyAssumption, <1>c
  <2>3. SubSeq(tkss \o d, 2 + KeySize, 5 + KeySize) = SubSeq(tkss, 2 + KeySize, 5 + KeySize)
    BY <1>3, <1>4, InFront, KeyAssumption
  <2>4. QED
    BY <2>1, <2>2, <2>3, <1>5
<1>9. SubSeq(dump(h), 6 + KeySize, 9 + KeySize) = h.salt
  <2>1. SubSeq(tkss, 6 + KeySize, 9 + KeySize) = h.salt
    <3>1. Len(tks) + 1 = 6 + KeySize /\ Len(tks) + Len(h.salt) = 9 + KeySize
      BY <1>2, <1>4, KeyAssumption
    <3>2. SubSeq(tkss, Len(tks) + 1, Len(tks) + Len(h.salt)) = h.salt
      BY <1>2, <1>4, Behind, <1>c
    <3>3. QED
      BY <3>1, <3>2
  <2>2. SubSeq(tkss \o d, 6 + KeySize, 9 + KeySize) = SubSeq(tkss, 6 + KeySize, 9 + KeySize)
    BY <1>3, <1>4, InFront, KeyAssumption
  <2>3. QED
    BY <2>1, <2>2, <1>5
<1>10. SubSeq(dump(h), 10 + KeySize, 13 + KeySize) = d
  <2>1. Len(tkss) + 1 = 10 + KeySize /\ Len(tkss) + Len(d) = 13 + KeySize
    BY <1>3, <1>4, KeyAssumption
  <2>2. QED
    BY <2>1, <1>3, <1>4, <1>5, Behind
<1>11. Number(ntoh(d)) = h.datasize
  <2>1. h.datasize \in Nat
    BY DEF Headers
  <2>2. ntoh(d) = Memory(h.datasize)
    BY <2>1, MemoryIsBytes, HtonInvolution DEF d, Size
  <2>3. QED
    BY <2>1, <2>2, NumberOfMemory
<1>12. parse(dump(h)) = [type |-> h.type, key |-> h.key, sequence |-> h.sequence,
                         salt |-> h.salt, datasize |-> h.datasize]
  <2>1. /\ 1 + 1 = 2 /\ (1 + KeySize) + 1 = 2 + KeySize /\ (1 + KeySize) + 4 = 5 + KeySize
        /\ (5 + KeySize) + 1 = 6 + KeySize /\ (5 + KeySize) + 4 = 9 + KeySize
        /\ (9 + KeySize) + 1 = 10 + KeySize /\ (9 + KeySize) + 4 = 13 + KeySize
    BY KeyAssumption
  <2>2. QED
    BY <2>1, <1>6, <1>7, <1>8, <1>9, <1>10, <1>11 DEF parse
<1>13. QED
  BY <1>12 DEF Headers

-----------------------------------------------------------------------------
(* Type correctness.                                                       *)

Records == [header : Headers, data : Seq(Byte), request : Requests \cup {NoRequest}]

\* With the types, what a reader of a body keeps.
TypeInv ==
  /\ TypeOK
  /\ sent \in Seq(Records)
  /\ \A i \in 1..Len(sent) : sent[i].header.datasize = Len(sent[i].data)
  /\ reading = "body" => pending.datasize \in Nat

\* hton makes 255 of every byte of an integer of eight.
LEMMA HtonLong ==
  ASSUME NEW m \in Bytes(8)
  PROVE  /\ hton(m) = [k \in 1..8 |-> 255] /\ ntoh(m) = [k \in 1..8 |-> 255]
         /\ hton(m) \in Bytes(8)
<1>1. Len(m) = 8
  BY BytesAreSequences
<1>2. hton(m) = [k \in 1..8 |-> 255] /\ ntoh(m) = [k \in 1..8 |-> 255]
  BY <1>1 DEF hton, ntoh, Base
<1>3. [k \in 1..8 |-> 255] \in [1..8 -> 0..255]
  OBVIOUS
<1>4. QED
  BY <1>2, <1>3 DEF Bytes, Byte, Base

\* What a client sends for a request is a packet.
LEMMA RequestIsPacket ==
  ASSUME NEW r \in Requests
  PROVE  RequestPacket(r) \in Fields
<1> DEFINE q == to_network_format(r)
<1>1. /\ r.type \in Byte /\ r.operation \in Byte /\ r.uuid \in Bytes(KeySize)
      /\ r.position \in Bytes(8) /\ r.size \in Bytes(8)
  BY RequestAssumption
<1>2. /\ q.type = r.type /\ q.operation = r.operation /\ q.uuid = r.uuid
      /\ q.position = hton(r.position) /\ q.size = hton(r.size)
  BY RequestAssumption DEF to_network_format
<1>3. q.position \in Bytes(8) /\ q.size \in Bytes(8)
  BY <1>1, <1>2, HtonLong
<1> HIDE DEF q
<1>4. /\ q.uuid \in Seq(Byte) /\ q.position \in Seq(Byte) /\ q.size \in Seq(Byte)
      /\ <<q.type, q.operation>> \in Seq(Byte)
  BY <1>1, <1>2, <1>3, BytesAreSequences, KeyAssumption
<1>5. <<q.type, q.operation>> \o q.uuid \in Seq(Byte)
  BY <1>4, ConcatProperties
<1>6. <<q.type, q.operation>> \o q.uuid \o q.position \in Seq(Byte)
  BY <1>4, <1>5, ConcatProperties
<1>7. RequestBytes(q) \in Seq(Byte)
  BY <1>4, <1>6, ConcatProperties DEF RequestBytes
<1>8. msg_t.trigger \in Types
  BY DEF Types, msg_t
<1>9. <<1, 1, 1, 1>> \in Bytes(4)
  BY DEF Bytes, Byte, Base
<1>10. QED
  BY <1>1, <1>7, <1>8, <1>9 DEF RequestPacket, Fields, q

LEMMA HeaderIsHeader ==
  ASSUME NEW p \in Fields
  PROVE  /\ Header(p) \in Headers /\ Header(p).datasize = Len(p.data)
         /\ Header(p).type = p.type
         /\ p.data \in Seq(Byte)
         /\ dump(Header(p)) \in Seq(Byte) /\ Len(dump(Header(p))) = bytesize
         /\ serialize(p) = dump(Header(p)) \o p.data
         /\ serialize(p) \in Seq(Byte) /\ Len(serialize(p)) = bytesize + Len(p.data)
<1>1. p.data \in Seq(Byte) /\ Len(p.data) \in Nat
  BY LenProperties DEF Fields
<1>2. /\ Header(p) \in Headers /\ Header(p).datasize = Len(p.data)
      /\ Header(p).type = p.type
  BY <1>1 DEF Header, Headers, Fields
<1>3. dump(Header(p)) \in Seq(Byte) /\ Len(dump(Header(p))) = bytesize
  BY <1>2, Layout
<1>4. serialize(p) = dump(Header(p)) \o p.data
  BY DEF serialize
<1>5. serialize(p) \in Seq(Byte) /\ Len(serialize(p)) = bytesize + Len(p.data)
  BY <1>1, <1>3, <1>4, ConcatProperties
<1>6. QED
  BY <1>1, <1>2, <1>3, <1>4, <1>5

\* A type whose body is read is a type, does not give the socket away, and is no err.
LEMMA BodyTypesApart ==
  ASSUME NEW type \in BodyTypes
  PROVE  type \in Types /\ ~GivesAwaySocket(type) /\ type # 0
<1>1. Types = {0, 1, 2, 4, 8, 9, 10, 11, 16}
  BY DEF Types, msg_t
<1>2. type \in {1, 16, 11}
  BY DEF BodyTypes, msg_t
<1>3. QED
  BY <1>1, <1>2 DEF GivesAwaySocket, msg_t

\* What is sent is a packet.
LEMMA SendEffect ==
  ASSUME TypeInv,
         \/ \E p \in Packets : Send(p, NoRequest)
         \/ reader = "connection" /\ \E r \in Requests : Send(RequestPacket(r), r)
  PROVE  /\ \E p \in Fields, r \in Requests \cup {NoRequest} : Send(p, r)
         /\ UNCHANGED <<reader, got, pending, reading>>
  BY PacketAssumption, RequestIsPacket DEF Send

LEMMA NatOfBytesize == bytesize \in Nat /\ bytesize > 0
  BY KeyAssumption DEF bytesize

\* The rest of a stream is a stream.
LEMMA Rest ==
  ASSUME NEW s \in Seq(Byte), NEW c \in Nat, c <= Len(s)
  PROVE  /\ SubSeq(s, c + 1, Len(s)) \in Seq(Byte)
         /\ Len(SubSeq(s, c + 1, Len(s))) = Len(s) - c
         /\ \A i \in 1..(Len(s) - c) : SubSeq(s, c + 1, Len(s))[i] = s[c + i]
<1>1. Len(s) \in Nat /\ \A i \in (c + 1)..Len(s) : s[i] \in Byte
  BY ElementOfSeq, LenProperties
<1>2. /\ SubSeq(s, c + 1, Len(s)) \in Seq(Byte)
      /\ Len(SubSeq(s, c + 1, Len(s)))
           = IF c + 1 <= Len(s) THEN Len(s) - (c + 1) + 1 ELSE 0
      /\ \A i \in 1..(Len(s) - (c + 1) + 1) : SubSeq(s, c + 1, Len(s))[i] = s[(c + 1) + i - 1]
  BY <1>1, SubSeqProperties
<1>3. QED
  BY <1>1, <1>2

LEMMA TypeStep == TypeInv /\ [Next]_vars => TypeInv'
<1> SUFFICES ASSUME TypeInv, [Next]_vars PROVE TypeInv'
  OBVIOUS
<1> USE DEF TypeInv, TypeOK
<1>1. CASE \E p \in Fields, r \in Requests \cup {NoRequest} : Send(p, r)
  <2>1. PICK p \in Fields, r \in Requests \cup {NoRequest} : Send(p, r)
    BY <1>1
  <2> DEFINE e == [header |-> Header(p), data |-> p.data, request |-> r]
  <2>2. e \in Records /\ e.header.datasize = Len(e.data)
    BY HeaderIsHeader DEF Records
  <2>3. stream' \in Seq(Byte)
    BY <2>1, HeaderIsHeader, ConcatProperties DEF Send
  <2>4. sent' = Append(sent, e) /\ Len(sent) < MaxSent
    BY <2>1 DEF Send
  <2> HIDE DEF e
  <2>5. /\ sent' \in Seq(Records) /\ Len(sent') = Len(sent) + 1
        /\ \A i \in 1..Len(sent) : sent'[i] = sent[i]
        /\ sent'[Len(sent) + 1] = e
    BY <2>2, <2>4, AppendProperties
  <2>6. Len(sent) \in Nat
    BY LenProperties
  <2>7. Len(sent') <= MaxSent
    BY <2>4, <2>5, <2>6, BoundAssumption
  <2>8. \A i \in 1..Len(sent') : sent'[i].header.datasize = Len(sent'[i].data)
    BY SMTT(30), <2>2, <2>5, <2>6
  <2>9. UNCHANGED <<reader, got, pending, reading>>
    BY <2>1 DEF Send
  <2>10. QED
    BY <2>3, <2>5, <2>7, <2>8, <2>9
<1>2. CASE ReadHeader
  <2> DEFINE h == parse(SubSeq(stream, 1, bytesize))
  <2>1. stream' \in Seq(Byte)
    BY <1>2, Rest, NatOfBytesize DEF ReadHeader
  <2>2. h.datasize \in Nat
    <3> DEFINE b == SubSeq(stream, 1, bytesize)
    <3>1. b \in Seq(Byte) /\ Len(b) = bytesize
      <4>1. \A i \in 1..bytesize : stream[i] \in Byte
        BY <1>2, ElementOfSeq, NatOfBytesize, LenProperties DEF ReadHeader
      <4>2. QED
        BY <4>1, NatOfBytesize, SubSeqProperties
    <3>2. bytesize = 13 + KeySize
      BY KeyAssumption DEF bytesize
    <3>3. \A i \in (10 + KeySize)..(13 + KeySize) : b[i] \in Byte
      BY <3>1, <3>2, ElementOfSeq, KeyAssumption
    <3> HIDE DEF b
    <3>4. /\ SubSeq(b, 10 + KeySize, 13 + KeySize) \in Seq(Byte)
          /\ Len(SubSeq(b, 10 + KeySize, 13 + KeySize)) = 4
      BY <3>3, SubSeqProperties, KeyAssumption
    <3>5. SubSeq(b, 10 + KeySize, 13 + KeySize) \in Bytes(4)
      BY <3>4, LenProperties DEF Bytes
    <3>6. ntoh(SubSeq(b, 10 + KeySize, 13 + KeySize)) \in Bytes(4)
      BY <3>5, HtonInvolution
    <3>7. parse(b).datasize = Number(ntoh(SubSeq(b, 10 + KeySize, 13 + KeySize)))
      <4>1. (9 + KeySize) + 1 = 10 + KeySize /\ (9 + KeySize) + 4 = 13 + KeySize
        BY KeyAssumption
      <4>2. QED
        BY <4>1 DEF parse
    <3>8. QED
      BY <3>6, <3>7, NumberIsNat DEF b
  <2>3. CASE h.type \in BodyTypes
    <3>1. pending' = h /\ reading' = "body"
      BY <1>2, <2>3, BodyTypesApart DEF ReadHeader
    <3>2. h # NoHeader
      BY <2>3, BodyTypesApart DEF NoHeader
    <3>3. UNCHANGED <<reader, sent>>
      BY <1>2 DEF ReadHeader
    <3>4. QED
      BY <2>1, <2>2, <3>1, <3>2, <3>3
  <2>4. CASE h.type \notin BodyTypes
    <3>1. pending' = pending /\ reading' \in {"stopped", "moved", "header"}
      BY <1>2, <2>4 DEF ReadHeader
    <3>2. UNCHANGED <<reader, sent>> /\ pending = NoHeader
      BY <1>2 DEF ReadHeader
    <3>3. QED
      BY <2>1, <3>1, <3>2
  <2>5. QED
    BY <2>3, <2>4
<1>3. CASE ReadBody
  <2>1. stream' \in Seq(Byte)
    BY <1>3, Rest DEF ReadBody
  <2>2. UNCHANGED <<reader, sent>> /\ reading' = "header" /\ pending' = NoHeader
    BY <1>3 DEF ReadBody
  <2>3. QED
    BY <2>1, <2>2
<1>4. CASE UNCHANGED vars
  BY <1>4 DEF vars
<1>5. QED
  BY <1>1, <1>2, <1>3, <1>4, SendEffect DEF Next

\* The type invariant of the stream and its reader.
THEOREM TypeCorrect == Spec => []TypeOK
<1>1. Init => TypeInv
  BY EmptySeq, BoundAssumption DEF Init, TypeInv, TypeOK
<1>2. TypeInv => TypeOK
  BY DEF TypeInv
<1>3. QED
  BY <1>1, <1>2, TypeStep, PTL DEF Spec

-----------------------------------------------------------------------------
(* Framing.                                                                *)

\* The bytes of the i-th packet sent.
Packed(packets, i) == dump(packets[i].header) \o packets[i].data
Extent(packets, i) == bytesize + Len(packets[i].data)

\* cut[i] is the place in the bytes where the i-th packet begins, from the n-th on,
\* which begins at a given place: before the bytes if its header has been read.
IsCut(cut, bytes, packets, n, at) ==
  /\ cut \in [1..(Len(packets) + 1) -> Int]
  /\ n \in 1..(Len(packets) + 1)
  /\ cut[n] = at
  /\ cut[Len(packets) + 1] = Len(bytes)
  /\ \A i \in n..Len(packets) :
       /\ cut[i + 1] = cut[i] + Extent(packets, i)
       /\ cut[i + 1] <= Len(bytes)
       /\ \A k \in 1..Extent(packets, i) :
            cut[i] + k >= 1 => bytes[cut[i] + k] = Packed(packets, i)[k]

At == IF reading = "body" THEN -bytesize ELSE 0

\* What the reader makes of a packet.
Pairs == [header : Headers, data : Seq(Byte)]
Taken(record) == [header |-> record.header, data |-> record.data]

\* Of regular packets the reader has what was sent first, and the bytes that are left
\* begin with the next packet or its body.
Frame ==
  /\ got \in Seq(Pairs) /\ Len(got) <= Len(sent)
  /\ \A i \in 1..Len(got) :
       got[i] = Taken(sent[i])
  /\ reading = "body" => /\ Len(got) < Len(sent)
                         /\ pending = sent[Len(got) + 1].header
  /\ reading # "stopped"
  /\ \E cut : IsCut(cut, stream, sent, Len(got) + 1, At)

FrameInv == Regular => Frame

\* When c bytes have been read from the front, every packet begins c bytes earlier.
LEMMA CutRest ==
  ASSUME NEW cut, NEW bytes \in Seq(Byte), NEW packets \in Seq(Records), NEW n, NEW at \in Int,
         IsCut(cut, bytes, packets, n, at),
         NEW c \in Nat, c <= Len(bytes),
         NEW m \in n..(Len(packets) + 1)
  PROVE  \E cut2 : IsCut(cut2, SubSeq(bytes, c + 1, Len(bytes)), packets, m, cut[m] - c)
<1> DEFINE cut2 == [i \in 1..(Len(packets) + 1) |-> cut[i] - c]
           rest == SubSeq(bytes, c + 1, Len(bytes))
<1>1. Len(bytes) \in Nat /\ Len(packets) \in Nat
  BY LenProperties
<1>2. /\ rest \in Seq(Byte) /\ Len(rest) = Len(bytes) - c
      /\ \A i \in 1..(Len(bytes) - c) : rest[i] = bytes[c + i]
  BY Rest
<1>3. \A i \in 1..Len(packets) : Len(packets[i].data) \in Nat
  BY LenProperties, ElementOfSeq DEF Records
<1> HIDE DEF rest
<1>a. /\ cut \in [1..(Len(packets) + 1) -> Int] /\ n \in 1..(Len(packets) + 1)
      /\ cut[Len(packets) + 1] = Len(bytes)
  BY DEF IsCut
<1>4. /\ cut2 \in [1..(Len(packets) + 1) -> Int]
      /\ m \in 1..(Len(packets) + 1) /\ cut2[m] = cut[m] - c
      /\ cut2[Len(packets) + 1] = Len(rest)
      /\ \A i \in 1..(Len(packets) + 1) : cut2[i] = cut[i] - c
  BY <1>1, <1>2, <1>a
<1> HIDE DEF cut2
<1>5. ASSUME NEW i \in m..Len(packets)
      PROVE  /\ cut2[i + 1] = cut2[i] + Extent(packets, i)
             /\ cut2[i + 1] <= Len(rest)
             /\ \A k \in 1..Extent(packets, i) :
                  cut2[i] + k >= 1 => rest[cut2[i] + k] = Packed(packets, i)[k]
  <2>1. /\ cut2[i] = cut[i] - c /\ cut2[i + 1] = cut[i + 1] - c
        /\ cut[i] \in Int /\ cut[i + 1] \in Int
        /\ i \in n..Len(packets)
    <3>1. i \in 1..(Len(packets) + 1) /\ i + 1 \in 1..(Len(packets) + 1) /\ i \in n..Len(packets)
      BY <1>1, <1>a
    <3>2. QED
      BY <3>1, <1>4, <1>a
  <2>2. Extent(packets, i) \in Nat
    BY <1>1, <1>3, NatOfBytesize DEF Extent
  <2>3. cut[i + 1] = cut[i] + Extent(packets, i) /\ cut[i + 1] <= Len(bytes)
    BY <2>1 DEF IsCut
  <2>4. ASSUME NEW k \in 1..Extent(packets, i), cut2[i] + k >= 1
        PROVE  rest[cut2[i] + k] = Packed(packets, i)[k]
    <3> DEFINE x == cut[i]
               y == cut2[i]
    <3>a. x \in Int /\ y = x - c /\ y + k >= 1
      BY <2>1, <2>4
    <3>b. k \in Nat /\ x + k <= Len(bytes)
      BY SMTT(30), <2>1, <2>2, <2>3, <1>1
    <3> HIDE DEF x, y
    <3>c. y + k \in 1..(Len(bytes) - c) /\ c + (y + k) = x + k /\ x + k >= 1
      BY <3>a, <3>b, <1>1
    <3>1. cut2[i] + k \in 1..(Len(bytes) - c)
      BY <3>c DEF y
    <3>2. rest[cut2[i] + k] = bytes[c + (cut2[i] + k)]
      BY <3>1, <1>2
    <3>3. c + (cut2[i] + k) = cut[i] + k /\ cut[i] + k >= 1
      BY <3>c DEF x, y
    <3>4. bytes[cut[i] + k] = Packed(packets, i)[k]
      BY <2>1, <3>3 DEF IsCut
    <3>5. QED
      BY <3>2, <3>3, <3>4
  <2>5. cut2[i + 1] = cut2[i] + Extent(packets, i) /\ cut2[i + 1] <= Len(rest)
    <3> DEFINE x == cut[i]
               y == cut[i + 1]
               z == Extent(packets, i)
    <3>1. x \in Int /\ y \in Int /\ z \in Nat /\ y = x + z /\ y <= Len(bytes)
      BY <2>1, <2>2, <2>3
    <3>2. cut2[i] = x - c /\ cut2[i + 1] = y - c /\ Len(rest) = Len(bytes) - c
      BY <2>1, <1>2
    <3> HIDE DEF x, y, z
    <3>3. y - c = (x - c) + z /\ y - c <= Len(bytes) - c
      BY <3>1, <1>1
    <3>4. QED
      BY <3>2, <3>3 DEF z
  <2>6. QED
    BY <2>4, <2>5
<1>6. IsCut(cut2, rest, packets, m, cut[m] - c)
  BY <1>4, <1>5 DEF IsCut
<1>7. QED
  BY <1>6 DEF rest

\* When a packet is sent, it begins where the bytes ended.
LEMMA CutSend ==
  ASSUME NEW cut, NEW bytes \in Seq(Byte), NEW packets \in Seq(Records), NEW n, NEW at \in Int,
         IsCut(cut, bytes, packets, n, at),
         NEW e \in Records
  PROVE  \E cut2 : IsCut(cut2, bytes \o (dump(e.header) \o e.data), Append(packets, e), n, at)
<1> DEFINE N == Len(packets)
           new == dump(e.header) \o e.data
           more == bytes \o new
           cut2 == [i \in 1..(N + 2) |-> IF i <= N + 1 THEN cut[i]
                                         ELSE cut[N + 1] + (bytesize + Len(e.data))]
           all == Append(packets, e)
<1>1. Len(bytes) \in Nat /\ N \in Nat
  BY LenProperties
<1>2. /\ e.header \in Headers /\ e.data \in Seq(Byte) /\ Len(e.data) \in Nat
  BY LenProperties DEF Records
<1>3. new \in Seq(Byte) /\ Len(new) = bytesize + Len(e.data) /\ Len(new) \in Nat
  <2>1. dump(e.header) \in Seq(Byte) /\ Len(dump(e.header)) = bytesize
    BY <1>2, Layout
  <2>2. QED
    BY <1>2, <2>1, ConcatProperties, LenProperties
<1>a. /\ cut \in [1..(N + 1) -> Int] /\ n \in 1..(N + 1) /\ cut[n] = at
      /\ cut[N + 1] = Len(bytes)
  BY DEF IsCut
<1>4. /\ all \in Seq(Records) /\ Len(all) = N + 1
      /\ \A i \in 1..N : all[i] = packets[i]
      /\ all[N + 1] = e
  BY AppendProperties
<1>5. /\ \A i \in 1..N : Extent(all, i) = Extent(packets, i) /\ Packed(all, i) = Packed(packets, i)
      /\ Extent(all, N + 1) = bytesize + Len(e.data) /\ Packed(all, N + 1) = new
  BY <1>4 DEF Extent, Packed
<1>6. \A i \in 1..N : Extent(packets, i) \in Nat
  BY LenProperties, ElementOfSeq, NatOfBytesize DEF Records, Extent
<1> HIDE DEF new, all
<1>7. /\ more \in Seq(Byte) /\ Len(more) = Len(bytes) + (bytesize + Len(e.data))
      /\ \A i \in 1..Len(bytes) : more[i] = bytes[i]
      /\ \A k \in 1..(bytesize + Len(e.data)) : more[Len(bytes) + k] = new[k]
  <2>1. /\ more \in Seq(Byte) /\ Len(more) = Len(bytes) + Len(new)
        /\ \A i \in 1..(Len(bytes) + Len(new)) :
             more[i] = IF i <= Len(bytes) THEN bytes[i] ELSE new[i - Len(bytes)]
    <3>1. more \in Seq(Byte) /\ Len(more) = Len(bytes) + Len(new)
      BY <1>3, ConcatProperties
    <3>2. ASSUME NEW i \in 1..(Len(bytes) + Len(new))
          PROVE  more[i] = IF i <= Len(bytes) THEN bytes[i] ELSE new[i - Len(bytes)]
      BY <1>3, ConcatProperties
    <3>3. QED
      BY <3>1, <3>2
  <2> HIDE DEF more
  <2>2. ASSUME NEW k \in 1..(bytesize + Len(e.data)) PROVE more[Len(bytes) + k] = new[k]
    <3>1. /\ Len(bytes) + k \in 1..(Len(bytes) + Len(new)) /\ ~(Len(bytes) + k <= Len(bytes))
          /\ (Len(bytes) + k) - Len(bytes) = k
      BY <1>1, <1>2, <1>3, NatOfBytesize
    <3>2. QED
      BY <3>1, <2>1
  <2>3. ASSUME NEW i \in 1..Len(bytes) PROVE more[i] = bytes[i]
    BY <2>1, <1>1, <1>3
  <2>4. QED
    BY <2>1, <2>2, <2>3, <1>3
<1> HIDE DEF more
<1>8. /\ cut2 \in [1..(Len(all) + 1) -> Int]
      /\ n \in 1..(Len(all) + 1) /\ cut2[n] = at
      /\ cut2[Len(all) + 1] = Len(more)
      /\ \A i \in 1..(N + 1) : cut2[i] = cut[i]
  <2>1. Len(all) + 1 = N + 2 /\ bytesize + Len(e.data) \in Nat
    BY <1>1, <1>2, <1>4, NatOfBytesize
  <2>2. QED
    BY SMTT(30), <2>1, <1>1, <1>7, <1>a
<1>9. ASSUME NEW i \in n..Len(all)
      PROVE  /\ cut2[i + 1] = cut2[i] + Extent(all, i)
             /\ cut2[i + 1] <= Len(more)
             /\ \A k \in 1..Extent(all, i) :
                  cut2[i] + k >= 1 => more[cut2[i] + k] = Packed(all, i)[k]
  <2>1. CASE i \in n..N
    <3>1. cut2[i] = cut[i] /\ cut2[i + 1] = cut[i + 1] /\ cut[i] \in Int /\ cut[i + 1] \in Int
      <4>1. i \in 1..(N + 1) /\ i + 1 \in 1..(N + 1)
        BY <2>1, <1>1, <1>a
      <4>2. QED
        BY <4>1, <1>8, <1>a
    <3>2. /\ Extent(all, i) = Extent(packets, i) /\ Packed(all, i) = Packed(packets, i)
          /\ Extent(packets, i) \in Nat
      <4>1. i \in 1..N
        BY <2>1, <1>1, <1>a
      <4>2. QED
        BY <4>1, <1>5, <1>6
    <3>3. cut[i + 1] = cut[i] + Extent(packets, i) /\ cut[i + 1] <= Len(bytes)
      BY <2>1 DEF IsCut
    <3>4. ASSUME NEW k \in 1..Extent(packets, i), cut[i] + k >= 1
          PROVE  more[cut[i] + k] = Packed(packets, i)[k]
      <4>1. bytes[cut[i] + k] = Packed(packets, i)[k]
        BY <2>1, <3>4 DEF IsCut
      <4> DEFINE at0 == cut[i]
                 at1 == cut[i + 1]
                 size == Extent(packets, i)
      <4>2. /\ at0 \in Int /\ at1 \in Int /\ size \in Nat
            /\ at1 = at0 + size /\ at1 <= Len(bytes) /\ k \in 1..size /\ at0 + k >= 1
        BY <3>1, <3>2, <3>3, <3>4
      <4> HIDE DEF at0, at1, size
      <4>3. at0 + k \in 1..Len(bytes)
        BY <4>2, <1>1
      <4>4. more[at0 + k] = bytes[at0 + k]
        BY <4>3, <1>7
      <4>5. QED
        BY <4>1, <4>4 DEF at0
    <3>5. cut2[i + 1] <= Len(more)
      <4> DEFINE at1 == cut[i + 1]
      <4>1. cut2[i + 1] = at1 /\ at1 \in Int /\ at1 <= Len(bytes)
        BY <3>1, <3>3
      <4> HIDE DEF at1
      <4>2. Len(more) = Len(bytes) + (bytesize + Len(e.data)) /\ bytesize \in Nat
        BY <1>7, NatOfBytesize
      <4>3. at1 <= Len(more)
        BY <4>1, <4>2, <1>1, <1>2
      <4>4. QED
        BY <4>1, <4>3
    <3> HIDE DEF cut2
    <3>6. QED
      BY <3>1, <3>2, <3>3, <3>4, <3>5
  <2>2. CASE i = N + 1
    <3>1. cut2[i] = Len(bytes) /\ cut2[i + 1] = Len(bytes) + (bytesize + Len(e.data))
      BY <2>2, <1>1, <1>a
    <3> HIDE DEF cut2
    <3>2. Extent(all, i) = bytesize + Len(e.data) /\ Packed(all, i) = new
      BY <2>2, <1>5
    <3>3. bytesize + Len(e.data) \in Nat
      BY <1>2, NatOfBytesize
    <3>4. QED
      BY <3>1, <3>2, <3>3, <1>1, <1>7
  <2>3. QED
    <3>1. n \in Nat /\ i \in n..(N + 1)
      BY <1>1, <1>4, <1>a
    <3>2. i \in n..N \/ i = N + 1
      BY <3>1, <1>1
    <3> HIDE DEF cut2
    <3>3. QED
      BY <2>1, <2>2, <3>2
<1>10. IsCut(cut2, more, all, n, at)
  BY <1>8, <1>9 DEF IsCut
<1>11. QED
  BY <1>10 DEF more, new, all

\* The packet that is read next: where it is, and what is in it.
LEMMA NextPacket ==
  ASSUME TypeInv, Regular, NEW n \in 1..Len(sent)
  PROVE  /\ sent[n].header \in Headers /\ sent[n].data \in Seq(Byte)
         /\ Len(sent[n].data) \in Nat
         /\ sent[n].header.type \in Types
         /\ sent[n].header.datasize = Len(sent[n].data)
         /\ parse(dump(sent[n].header)) = sent[n].header
         /\ Len(dump(sent[n].header)) = bytesize
         /\ dump(sent[n].header) \in Seq(Byte)
         /\ \A k \in 1..bytesize : Packed(sent, n)[k] = dump(sent[n].header)[k]
         /\ \A k \in 1..Len(sent[n].data) : Packed(sent, n)[bytesize + k] = sent[n].data[k]
         /\ sent[n].header.type \notin BodyTypes => sent[n].data = <<>>
<1> DEFINE h == sent[n].header
           b == sent[n].data
<1>1. h \in Headers /\ b \in Seq(Byte) /\ Len(b) \in Nat /\ h.datasize = Len(b)
  <2>1. sent[n] \in Records /\ h.datasize = Len(b)
    BY ElementOfSeq DEF TypeInv
  <2>2. h \in Headers /\ b \in Seq(Byte)
    BY <2>1 DEF Records
  <2>3. QED
    BY <2>1, <2>2, LenProperties
<1>2. b = <<>> \/ (MayCarry(h.type) /\ Announced(b))
  BY DEF Regular
<1>3. h.datasize \div Weight[4] \in Byte
  <2>1. CASE b = <<>>
    <3>1. Len(b) = 0
      BY <2>1
    <3>2. QED
      BY <1>1, <3>1 DEF Weight, Byte, Base
  <2>2. QED
    BY <1>1, <1>2, <2>1 DEF Announced
<1>4. parse(dump(h)) = h
  BY <1>1, <1>3, ParseDump
<1>5. dump(h) \in Seq(Byte) /\ Len(dump(h)) = bytesize
  BY <1>1, Layout
<1>6. h.type \in Types
  BY <1>1 DEF Headers
<1>7. Packed(sent, n) = dump(h) \o b
  BY DEF Packed
<1>8. h.type \notin BodyTypes => b = <<>>
  BY <1>2 DEF MayCarry, BodyTypes
<1> HIDE DEF h, b
<1>9. ASSUME NEW k \in 1..bytesize PROVE (dump(h) \o b)[k] = dump(h)[k]
  <2>1. k \in 1..(Len(dump(h)) + Len(b)) /\ k <= Len(dump(h))
    BY <1>1, <1>5, NatOfBytesize
  <2>2. QED
    BY <2>1, <1>1, <1>5, ConcatProperties
<1>10. ASSUME NEW k \in 1..Len(b) PROVE (dump(h) \o b)[bytesize + k] = b[k]
  <2>1. /\ bytesize + k \in 1..(Len(dump(h)) + Len(b)) /\ ~(bytesize + k <= Len(dump(h)))
        /\ (bytesize + k) - Len(dump(h)) = k
    BY <1>1, <1>5, NatOfBytesize
  <2>2. QED
    BY <2>1, <1>1, <1>5, ConcatProperties
<1>11. QED
  BY <1>1, <1>4, <1>5, <1>6, <1>7, <1>8, <1>9, <1>10 DEF h, b

\* The front of a sequence, element by element.
LEMMA SameFront ==
  ASSUME NEW S, NEW s \in Seq(S), NEW t \in Seq(S), Len(t) <= Len(s),
         \A k \in 1..Len(t) : s[k] = t[k]
  PROVE  SubSeq(s, 1, Len(t)) = t
<1>1. Len(t) \in Nat /\ Len(s) \in Nat
  BY LenProperties
<1>2. \A k \in 1..Len(t) : s[k] \in S
  BY ElementOfSeq, <1>1
<1>3. /\ SubSeq(s, 1, Len(t)) \in Seq(S) /\ Len(SubSeq(s, 1, Len(t))) = Len(t)
      /\ \A k \in 1..Len(t) : SubSeq(s, 1, Len(t))[k] = s[k]
  <2>1. /\ SubSeq(s, 1, Len(t)) \in Seq(S)
        /\ Len(SubSeq(s, 1, Len(t))) = IF 1 <= Len(t) THEN Len(t) - 1 + 1 ELSE 0
        /\ \A k \in 1..(Len(t) - 1 + 1) : SubSeq(s, 1, Len(t))[k] = s[1 + k - 1]
    BY <1>1, <1>2, SubSeqProperties
  <2>2. QED
    BY <2>1, <1>1
<1>4. QED
  BY <1>3, SeqEqual

\* A header can only be read while a packet is left.
LEMMA PacketLeft ==
  ASSUME TypeInv, Len(got) <= Len(sent), got \in Seq(Pairs),
         NEW cut, IsCut(cut, stream, sent, Len(got) + 1, 0)
  PROVE  /\ Len(stream) > 0 => Len(got) + 1 \in 1..Len(sent)
         /\ Len(got) < Len(sent) => Len(stream) >= bytesize
<1>1. Len(got) \in Nat /\ Len(sent) \in Nat /\ Len(stream) \in Nat
  BY LenProperties DEF TypeInv, TypeOK
<1>2. Len(got) = Len(sent) => Len(stream) = 0
  BY DEF IsCut
<1>3. ASSUME Len(got) < Len(sent) PROVE Len(stream) >= bytesize
  <2> DEFINE n == Len(got) + 1
  <2>1. n \in 1..Len(sent) /\ n \in n..Len(sent)
    BY <1>1, <1>3
  <2>2. cut[n] = 0 /\ cut[n + 1] = cut[n] + Extent(sent, n) /\ cut[n + 1] <= Len(stream)
    BY <2>1 DEF IsCut
  <2>3. Len(sent[n].data) \in Nat
    BY <2>1, ElementOfSeq, LenProperties DEF TypeInv, Records
  <2>4. QED
    BY <2>2, <2>3, <1>1, NatOfBytesize DEF Extent
<1>4. QED
  BY <1>1, <1>2, <1>3

LEMMA FrameSend ==
  ASSUME TypeInv, FrameInv, NEW p \in Fields, NEW r \in Requests \cup {NoRequest}, Send(p, r)
  PROVE  FrameInv'
<1> DEFINE e == [header |-> Header(p), data |-> p.data, request |-> r]
<1>1. e \in Records /\ e.header = Header(p) /\ e.data = p.data
  BY HeaderIsHeader DEF Records
<1>2. /\ stream' = stream \o (dump(e.header) \o e.data)
      /\ sent' = Append(sent, e) /\ UNCHANGED <<reader, got, pending, reading>>
  BY DEF Send, serialize
<1>3. sent \in Seq(Records) /\ stream \in Seq(Byte) /\ Len(sent) \in Nat
  BY LenProperties DEF TypeInv, TypeOK
<1> HIDE DEF e
<1>4. /\ Len(sent') = Len(sent) + 1
      /\ \A i \in 1..Len(sent) : sent'[i] = sent[i]
  BY <1>1, <1>2, <1>3, AppendProperties
<1>5. Regular' => Regular
  BY <1>2, <1>3, <1>4 DEF Regular, MayCarry, Announced
<1>6. SUFFICES ASSUME Regular' PROVE Frame'
  BY DEF FrameInv
<1>7. /\ got \in Seq(Pairs) /\ Len(got) <= Len(sent)
      /\ \A i \in 1..Len(got) : got[i] = Taken(sent[i])
      /\ reading = "body" => Len(got) < Len(sent) /\ pending = sent[Len(got) + 1].header
      /\ reading # "stopped"
      /\ \E cut : IsCut(cut, stream, sent, Len(got) + 1, At)
  BY <1>5, <1>6 DEF FrameInv, Frame
<1>8. Len(got) \in Nat /\ At \in Int
  BY <1>7, LenProperties, NatOfBytesize DEF At
<1>9. \E cut : IsCut(cut, stream', sent', Len(got) + 1, At)
  BY <1>1, <1>2, <1>3, <1>7, <1>8, CutSend
<1>10. At' = At
  BY <1>2 DEF At
<1>11. (\E cut : IsCut(cut, stream, sent, Len(got) + 1, At))'
  BY <1>2, <1>9, <1>10
<1>12. /\ \A i \in 1..Len(got) : sent'[i] = sent[i]
       /\ Len(got) < Len(sent) => sent'[Len(got) + 1] = sent[Len(got) + 1]
       /\ Len(got) <= Len(sent')
       /\ Len(got) < Len(sent) => Len(got) < Len(sent')
  BY <1>3, <1>4, <1>7, <1>8
<1>13. QED
  BY <1>2, <1>7, <1>11, <1>12 DEF Frame

LEMMA FrameHeader ==
  ASSUME TypeInv, FrameInv, ReadHeader
  PROVE  FrameInv'
<1> DEFINE n == Len(got) + 1
           h == sent[n].header
<1>1. UNCHANGED <<reader, sent>> /\ reading = "header" /\ Len(stream) >= bytesize
  BY DEF ReadHeader
<1>2. Regular' => Regular
  BY <1>1 DEF Regular, MayCarry, Announced
<1>3. SUFFICES ASSUME Regular PROVE Frame'
  BY <1>2 DEF FrameInv
<1>4. /\ got \in Seq(Pairs) /\ Len(got) <= Len(sent)
      /\ \A i \in 1..Len(got) : got[i] = Taken(sent[i])
      /\ \E cut : IsCut(cut, stream, sent, n, 0)
  BY <1>1, <1>3 DEF FrameInv, Frame, At
<1>5. PICK cut : IsCut(cut, stream, sent, n, 0)
  BY <1>4
<1>6. /\ sent \in Seq(Records) /\ stream \in Seq(Byte)
      /\ Len(sent) \in Nat /\ Len(got) \in Nat /\ Len(stream) \in Nat
  BY <1>4, LenProperties DEF TypeInv, TypeOK
<1>7. n \in 1..Len(sent)
  BY <1>1, <1>4, <1>5, <1>6, PacketLeft, NatOfBytesize
<1>8. /\ h \in Headers /\ h.type \in Types /\ parse(dump(h)) = h
      /\ dump(h) \in Seq(Byte) /\ Len(dump(h)) = bytesize
      /\ Len(sent[n].data) \in Nat
      /\ h.type \notin BodyTypes => sent[n].data = <<>>
      /\ \A k \in 1..bytesize : Packed(sent, n)[k] = dump(h)[k]
  BY <1>3, <1>7, NextPacket
<1>9. /\ cut[n] = 0 /\ cut[n + 1] = bytesize + Len(sent[n].data)
      /\ cut[n + 1] <= Len(stream)
      /\ \A k \in 1..bytesize : stream[k] = dump(h)[k]
  <2>1. n \in n..Len(sent)
    BY <1>7
  <2>2. /\ cut[n] = 0 /\ cut[n + 1] = cut[n] + Extent(sent, n) /\ cut[n + 1] <= Len(stream)
        /\ \A k \in 1..Extent(sent, n) :
             cut[n] + k >= 1 => stream[cut[n] + k] = Packed(sent, n)[k]
    BY <2>1, <1>5 DEF IsCut
  <2>3. Extent(sent, n) = bytesize + Len(sent[n].data)
    BY DEF Extent
  <2>4. ASSUME NEW k \in 1..bytesize PROVE stream[k] = dump(h)[k]
    <3>1. k \in 1..Extent(sent, n) /\ cut[n] + k = k /\ k >= 1
      BY <2>2, <2>3, <1>8, NatOfBytesize
    <3>2. QED
      BY <3>1, <2>2, <1>8
  <2>5. QED
    BY <2>2, <2>3, <2>4, <1>8, NatOfBytesize
<1>10. SubSeq(stream, 1, bytesize) = dump(h)
  <2>1. SubSeq(stream, 1, Len(dump(h))) = dump(h)
    <3> DEFINE d == dump(h)
    <3>1. d \in Seq(Byte) /\ Len(d) <= Len(stream) /\ \A k \in 1..Len(d) : stream[k] = d[k]
      BY <1>1, <1>8, <1>9
    <3> HIDE DEF d
    <3>2. stream \in Seq(Byte)
      BY <1>6
    <3>3. SubSeq(stream, 1, Len(d)) = d
      BY <3>1, <3>2, SameFront
    <3>4. QED
      BY <3>3 DEF d
  <2>2. QED
    BY <2>1, <1>8
<1>11. parse(SubSeq(stream, 1, bytesize)) = h
  BY <1>8, <1>10
<1>12. stream' = SubSeq(stream, bytesize + 1, Len(stream))
  BY DEF ReadHeader
<1>13. CASE h.type \in BodyTypes
  <2>1. pending' = h /\ reading' = "body" /\ got' = got
    BY <1>11, <1>13, BodyTypesApart DEF ReadHeader
  <2>2. \E cut2 : IsCut(cut2, stream', sent, n, cut[n] - bytesize)
    <3>1. n \in n..(Len(sent) + 1)
      BY <1>7
    <3>2. QED
      <4>1. bytesize \in Nat /\ 0 \in Int
        BY NatOfBytesize
      <4>2. QED
        BY <3>1, <4>1, <1>1, <1>5, <1>6, <1>12, CutRest
  <2>3. cut[n] - bytesize = At'
    BY <1>9, <2>1, NatOfBytesize DEF At
  <2>4. (\E cut2 : IsCut(cut2, stream, sent, Len(got) + 1, At))'
    BY <1>1, <2>1, <2>2, <2>3
  <2>5. Len(got') < Len(sent') /\ pending' = sent'[Len(got') + 1].header
    BY <1>1, <1>6, <1>7, <2>1
  <2>6. QED
    BY <1>1, <1>4, <2>1, <2>4, <2>5 DEF Frame
<1>14. CASE h.type \notin BodyTypes
  <2> DEFINE e == [header |-> h, data |-> <<>>]
  <2>1. reading' \in {"moved", "header"} /\ got' = Append(got, e)
    BY <1>8, <1>11, <1>14 DEF ReadHeader
  <2>2. e = Taken(sent[n])
    BY <1>8, <1>14 DEF Taken
  <2>3. e \in Pairs
    BY <1>8, EmptySeq DEF Pairs
  <2> HIDE DEF e
  <2>4. /\ got' \in Seq(Pairs) /\ Len(got') = n
        /\ \A i \in 1..Len(got) : got'[i] = got[i]
        /\ got'[n] = e
    BY <2>1, <2>3, <1>4, AppendProperties
  <2>5. \A i \in 1..Len(got') : got'[i] = Taken(sent'[i])
    BY <2>2, <2>4, <1>1, <1>4, <1>6
  <2>6. cut[n + 1] - bytesize = 0
    <3>1. Len(sent[n].data) = 0
      BY <1>8, <1>14, EmptySeq
    <3>2. QED
      BY <3>1, <1>9, NatOfBytesize
  <2>7. \E cut2 : IsCut(cut2, stream', sent, n + 1, cut[n + 1] - bytesize)
    <3>1. n + 1 \in n..(Len(sent) + 1)
      BY <1>7, <1>6
    <3>2. QED
      <4>1. bytesize \in Nat /\ 0 \in Int
        BY NatOfBytesize
      <4>2. QED
        BY <3>1, <4>1, <1>1, <1>5, <1>6, <1>12, CutRest
  <2>8. At' = 0
    BY <2>1 DEF At
  <2>9. (\E cut2 : IsCut(cut2, stream, sent, Len(got) + 1, At))'
    BY <1>1, <2>4, <2>6, <2>7, <2>8
  <2>10. Len(got') <= Len(sent')
    BY <1>1, <1>7, <2>4
  <2>11. QED
    BY <2>1, <2>4, <2>5, <2>9, <2>10 DEF Frame
<1>15. QED
  BY <1>13, <1>14

LEMMA FrameBody ==
  ASSUME TypeInv, FrameInv, ReadBody
  PROVE  FrameInv'
<1> DEFINE n == Len(got) + 1
           h == sent[n].header
           b == sent[n].data
<1>1. UNCHANGED <<reader, sent>> /\ reading = "body" /\ Len(stream) >= pending.datasize
  BY DEF ReadBody
<1>2. Regular' => Regular
  BY <1>1 DEF Regular, MayCarry, Announced
<1>3. SUFFICES ASSUME Regular PROVE Frame'
  BY <1>2 DEF FrameInv
<1>4. /\ got \in Seq(Pairs) /\ Len(got) <= Len(sent)
      /\ \A i \in 1..Len(got) : got[i] = Taken(sent[i])
      /\ Len(got) < Len(sent) /\ pending = h
      /\ \E cut : IsCut(cut, stream, sent, n, -bytesize)
  BY <1>1, <1>3 DEF FrameInv, Frame, At
<1>5. PICK cut : IsCut(cut, stream, sent, n, -bytesize)
  BY <1>4
<1>6. /\ sent \in Seq(Records) /\ stream \in Seq(Byte)
      /\ Len(sent) \in Nat /\ Len(got) \in Nat /\ Len(stream) \in Nat
  BY <1>4, LenProperties DEF TypeInv, TypeOK
<1>7. n \in 1..Len(sent)
  BY <1>4, <1>6
<1>8. /\ h \in Headers /\ b \in Seq(Byte) /\ Len(b) \in Nat /\ h.datasize = Len(b)
      /\ \A k \in 1..Len(b) : Packed(sent, n)[bytesize + k] = b[k]
  BY <1>3, <1>7, NextPacket
<1>9. pending.datasize = Len(b) /\ Len(b) <= Len(stream)
  BY <1>1, <1>4, <1>6, <1>8
<1>10. cut[n + 1] = Len(b) /\ \A k \in 1..Len(b) : stream[k] = b[k]
  <2>1. n \in n..Len(sent)
    BY <1>7
  <2>2. /\ cut[n] = -bytesize /\ cut[n + 1] = cut[n] + Extent(sent, n)
        /\ \A k \in 1..Extent(sent, n) :
             cut[n] + k >= 1 => stream[cut[n] + k] = Packed(sent, n)[k]
    BY <2>1, <1>5 DEF IsCut
  <2>3. Extent(sent, n) = bytesize + Len(b)
    BY DEF Extent
  <2>4. ASSUME NEW k \in 1..Len(b) PROVE stream[k] = b[k]
    <3>1. /\ bytesize + k \in 1..Extent(sent, n) /\ cut[n] + (bytesize + k) = k
          /\ cut[n] + (bytesize + k) >= 1
      BY <2>2, <2>3, <1>8, NatOfBytesize
    <3>2. QED
      BY <3>1, <2>2, <1>8
  <2>5. cut[n + 1] = Len(b)
    <3>1. cut[n + 1] = (-bytesize) + (bytesize + Len(b))
      BY <2>2, <2>3
    <3>2. Len(b) \in Nat /\ bytesize \in Nat
      BY <1>8, NatOfBytesize
    <3> HIDE DEF b
    <3>3. QED
      BY <3>1, <3>2
  <2>6. QED
    BY <2>4, <2>5
<1>11. SubSeq(stream, 1, pending.datasize) = b
  <2>1. /\ stream \in Seq(Byte) /\ b \in Seq(Byte) /\ Len(b) <= Len(stream)
        /\ \A k \in 1..Len(b) : stream[k] = b[k]
    BY <1>6, <1>8, <1>9, <1>10
  <2> HIDE DEF b
  <2>2. SubSeq(stream, 1, Len(b)) = b
    BY <2>1, SameFront
  <2>3. QED
    BY <2>2, <1>9
<1>12. stream' = SubSeq(stream, Len(b) + 1, Len(stream))
  BY <1>9 DEF ReadBody
<1> DEFINE e == [header |-> h, data |-> b]
<1>13. got' = Append(got, e) /\ reading' = "header"
  BY <1>4, <1>11 DEF ReadBody
<1>14. e \in Pairs
  BY <1>8 DEF Pairs
<1>15. e = Taken(sent[n])
  BY DEF Taken
<1> HIDE DEF e
<1>16. /\ got' \in Seq(Pairs) /\ Len(got') = n
       /\ \A i \in 1..Len(got) : got'[i] = got[i]
       /\ got'[n] = e
  BY <1>13, <1>14, <1>4, AppendProperties
<1>17. \A i \in 1..Len(got') : got'[i] = Taken(sent'[i])
  <2>1. ASSUME NEW i \in 1..n PROVE got'[i] = Taken(sent[i])
    <3>1. i \in 1..Len(got) \/ i = n
      BY <1>6
    <3>2. QED
      BY <3>1, <1>15, <1>16, <1>4
  <2>2. QED
    BY <2>1, <1>1, <1>16
<1>18. \E cut2 : IsCut(cut2, stream', sent, n + 1, cut[n + 1] - Len(b))
  <2>1. n + 1 \in n..(Len(sent) + 1) /\ -bytesize \in Int
    BY <1>7, <1>6, NatOfBytesize
  <2>2. QED
    BY <2>1, <1>5, <1>6, <1>8, <1>9, <1>12, CutRest
<1>19. At' = 0 /\ cut[n + 1] - Len(b) = 0
  BY <1>13, <1>10, <1>8 DEF At
<1>20. (\E cut2 : IsCut(cut2, stream, sent, Len(got) + 1, At))'
  BY <1>1, <1>16, <1>18, <1>19
<1>21. Len(got') <= Len(sent')
  BY <1>1, <1>7, <1>16
<1>22. QED
  BY <1>13, <1>16, <1>17, <1>20, <1>21 DEF Frame

LEMMA FrameStep == TypeInv /\ FrameInv /\ [Next]_vars => FrameInv'
<1> SUFFICES ASSUME TypeInv, FrameInv, [Next]_vars PROVE FrameInv'
  OBVIOUS
<1>1. CASE \E p \in Fields, r \in Requests \cup {NoRequest} : Send(p, r)
  BY <1>1, FrameSend
<1>2. CASE ReadHeader
  BY <1>2, FrameHeader
<1>3. CASE ReadBody
  BY <1>3, FrameBody
<1>4. CASE UNCHANGED vars
  BY <1>4 DEF vars, FrameInv, Frame, Regular, MayCarry, Announced, At
<1>5. QED
  BY <1>1, <1>2, <1>3, <1>4, SendEffect DEF Next

LEMMA FrameInit == Init => TypeInv /\ FrameInv
<1> SUFFICES ASSUME Init PROVE TypeInv /\ FrameInv
  OBVIOUS
<1>1. TypeInv
  BY EmptySeq, BoundAssumption DEF Init, TypeInv, TypeOK
<1>2. IsCut([i \in 1..1 |-> 0], <<>>, <<>>, 1, 0)
  BY DEF IsCut
<1>3. Len(<<>>) = 0 /\ <<>> \in Seq(Pairs)
  BY EmptySeq
<1>4. \E cut : IsCut(cut, stream, sent, Len(got) + 1, At)
  BY <1>2, <1>3 DEF Init, At
<1>5. Frame
  BY <1>3, <1>4 DEF Init, Frame
<1>6. QED
  BY <1>1, <1>5 DEF FrameInv

-----------------------------------------------------------------------------
(* The theorems.                                                           *)

\* Where every packet begins in the bytes that are left, for keys, packets and requests
\* of any number and size.
THEOREM Cut == Spec => [](TypeInv /\ FrameInv)
  BY FrameInit, TypeStep, FrameStep, PTL DEF Spec

\* Of regular packets the reader gets each one, unchanged and in order.
THEOREM StreamFramed == Spec => []Framed
<1>1. TypeInv /\ FrameInv => Framed
  <2> SUFFICES ASSUME TypeInv, FrameInv, Regular
               PROVE  /\ IsPrefix(got, Sent)
                      /\ reading = "header" /\ Len(stream) < bytesize => got = Sent
                      /\ reading = "body" => /\ Len(got) < Len(sent)
                                             /\ pending = Sent[Len(got) + 1].header
                      /\ reading # "stopped"
    BY DEF Framed
  <2>1. /\ got \in Seq(Pairs) /\ Len(got) <= Len(sent)
        /\ \A i \in 1..Len(got) : got[i] = Taken(sent[i])
        /\ reading = "body" => Len(got) < Len(sent) /\ pending = sent[Len(got) + 1].header
        /\ reading # "stopped"
        /\ \E cut : IsCut(cut, stream, sent, Len(got) + 1, At)
    BY DEF FrameInv, Frame
  <2>2. Len(got) \in Nat /\ Len(sent) \in Nat /\ Len(stream) \in Nat
    BY <2>1, LenProperties DEF TypeInv, TypeOK
  <2>3. /\ Sent \in Seq(Pairs) /\ Len(Sent) = Len(sent)
        /\ \A i \in 1..Len(sent) :
             Sent[i] = Taken(sent[i])
    <3>1. ASSUME NEW i \in 1..Len(sent)
          PROVE  Taken(sent[i]) \in Pairs
      <4>1. sent[i] \in Records
        BY ElementOfSeq DEF TypeInv
      <4>2. QED
        BY <4>1 DEF Records, Taken, Pairs
    <3>2. Sent \in [1..Len(sent) -> Pairs]
      BY <3>1 DEF Sent, Taken
    <3>3. Sent \in Seq(Pairs)
      <4> DEFINE N == Len(sent)
      <4>1. N \in Nat /\ Sent \in [1..N -> Pairs]
        BY <3>2, <2>2
      <4> HIDE DEF N
      <4>2. QED
        BY <4>1, SeqDef
    <3>4. Len(Sent) = Len(sent)
      BY <3>2, <3>3, <2>2, LenProperties
    <3>5. QED
      BY <3>3, <3>4 DEF Sent, Taken
  <2>4. IsPrefix(got, Sent)
    <3>1. \A k \in 1..Len(got) : got[k] = Sent[k]
      BY <2>1, <2>2, <2>3
    <3>2. SubSeq(Sent, 1, Len(got)) = got
      <4>1. got \in Seq(Pairs) /\ Sent \in Seq(Pairs) /\ Len(got) <= Len(Sent)
        BY <2>1, <2>3
      <4> DEFINE S == Sent
      <4>2. SubSeq(S, 1, Len(got)) = got
        <5>1. S \in Seq(Pairs) /\ Len(got) <= Len(S) /\ \A k \in 1..Len(got) : S[k] = got[k]
          BY <3>1, <4>1
        <5> HIDE DEF S
        <5>2. QED
          BY <4>1, <5>1, SameFront
      <4>3. QED
        BY <4>2
    <3>3. SubSeq(got, 1, Len(got)) = got
      BY <2>1, SubSeqFull
    <3>4. QED
      BY <2>1, <2>3, <3>2, <3>3 DEF IsPrefix
  <2>5. ASSUME reading = "header", Len(stream) < bytesize PROVE got = Sent
    <3>1. PICK cut : IsCut(cut, stream, sent, Len(got) + 1, 0)
      BY <2>1, <2>5 DEF At
    <3>2. Len(got) = Len(sent)
      BY <3>1, <2>1, <2>2, <2>5, PacketLeft, NatOfBytesize
    <3>3. \A k \in 1..Len(got) : got[k] = Sent[k]
      BY <2>1, <2>2, <2>3
    <3>4. QED
      BY <3>2, <3>3, <2>1, <2>3, SeqEqual
  <2>6. reading = "body" => Len(got) < Len(sent) /\ pending = Sent[Len(got) + 1].header
    <3>1. SUFFICES ASSUME reading = "body" PROVE pending = Sent[Len(got) + 1].header
      BY <2>1
    <3>2. Len(got) + 1 \in 1..Len(sent)
      BY <3>1, <2>1, <2>2
    <3>3. Sent[Len(got) + 1] = Taken(sent[Len(got) + 1])
      BY <3>2, <2>3
    <3>4. QED
      BY <3>1, <3>3, <2>1 DEF Taken
  <2>7. QED
    BY <2>1, <2>4, <2>5, <2>6
<1>2. QED
  BY <1>1, Cut, PTL

\* When nothing can be read, of regular packets none is held back.
Waiting ==
  /\ reading = "header" => Len(stream) < bytesize
  /\ reading = "body" => Len(stream) < pending.datasize

THEOREM NothingHeldBack == Spec => [](Regular /\ Waiting => got = Sent \/ reading = "moved")
<1>1. TypeInv /\ FrameInv /\ Framed => (Regular /\ Waiting => got = Sent \/ reading = "moved")
  <2> SUFFICES ASSUME TypeInv, FrameInv, Framed, Regular, Waiting, reading # "moved"
               PROVE  got = Sent
    OBVIOUS
  <2>1. reading \in {"header", "body"}
    BY DEF TypeInv, TypeOK, FrameInv, Frame
  <2>2. CASE reading = "header"
    BY <2>2 DEF Framed, Waiting
  <2>3. CASE reading = "body"
    <3> DEFINE n == Len(got) + 1
               b == sent[n].data
    <3>1. /\ got \in Seq(Pairs) /\ Len(got) < Len(sent) /\ pending = sent[n].header
          /\ \E cut : IsCut(cut, stream, sent, n, -bytesize)
      BY <2>3 DEF FrameInv, Frame, At
    <3>2. PICK cut : IsCut(cut, stream, sent, n, -bytesize)
      BY <3>1
    <3>3. Len(got) \in Nat /\ Len(sent) \in Nat /\ Len(stream) \in Nat
      BY <3>1, LenProperties DEF TypeInv, TypeOK
    <3>4. n \in 1..Len(sent) /\ n \in n..Len(sent)
      BY <3>1, <3>3
    <3>5. Len(b) \in Nat /\ pending.datasize = Len(b)
      BY <3>1, <3>4, NextPacket
    <3>6. cut[n] = -bytesize /\ cut[n + 1] = cut[n] + Extent(sent, n) /\ cut[n + 1] <= Len(stream)
      BY <3>2, <3>4 DEF IsCut
    <3>7. Extent(sent, n) = bytesize + Len(b)
      BY DEF Extent
    <3> HIDE DEF b
    <3>8. Len(b) <= Len(stream)
      BY <3>3, <3>5, <3>6, <3>7, NatOfBytesize
    <3>9. QED
      BY <2>3, <3>3, <3>5, <3>8 DEF Waiting
  <2>4. QED
    BY <2>1, <2>2, <2>3
<1>2. QED
  BY <1>1, Cut, StreamFramed, PTL

\* Whatever position and size a client asks for, the parser reads -1 for both: no branch
\* of hton and ntoh is for eight bytes.
Lost == [k \in 1..8 |-> 255]

THEOREM RequestsLost ==
  ASSUME NEW r \in Requests
  PROVE  request_parser(RequestPacket(r).data)
           = [type |-> r.type, operation |-> r.operation, uuid |-> r.uuid,
              position |-> Lost, size |-> Lost]
<1> DEFINE head == <<r.type, r.operation>>
           hu == head \o r.uuid
           hup == hu \o Lost
           all == hup \o Lost
<1>1. /\ r.type \in Byte /\ r.operation \in Byte /\ r.uuid \in Bytes(KeySize)
      /\ r.position \in Bytes(8) /\ r.size \in Bytes(8)
  BY RequestAssumption
<1>2. RequestPacket(r).data = all
  <2>1. hton(r.position) = Lost /\ hton(r.size) = Lost
    BY <1>1, HtonLong DEF Lost
  <2> DEFINE q == to_network_format(r)
  <2>2. /\ q.type = r.type /\ q.operation = r.operation /\ q.uuid = r.uuid
        /\ q.position = hton(r.position) /\ q.size = hton(r.size)
    BY RequestAssumption DEF to_network_format
  <2>3. RequestPacket(r).data = RequestBytes(q)
    BY DEF RequestPacket
  <2> HIDE DEF q
  <2>4. QED
    BY <2>1, <2>2, <2>3 DEF RequestBytes
<1>3. Lost \in Bytes(8) /\ Lost \in Seq(Byte) /\ Len(Lost) = 8
  <2>1. Lost \in Bytes(8)
    BY DEF Lost, Bytes, Byte, Base
  <2>2. QED
    BY <2>1, BytesAreSequences
<1>4. r.uuid \in Seq(Byte) /\ Len(r.uuid) = KeySize /\ head \in Seq(Byte) /\ Len(head) = 2
  BY <1>1, BytesAreSequences, KeyAssumption
<1>a. hu = head \o r.uuid
  OBVIOUS
<1>b. hup = hu \o Lost
  OBVIOUS
<1>c. all = hup \o Lost
  OBVIOUS
<1>d. head[1] = r.type /\ head[2] = r.operation
  OBVIOUS
<1> HIDE DEF head, hu, hup, all
<1>5. hu \in Seq(Byte) /\ Len(hu) = 2 + KeySize
  <2>1. hu \in Seq(Byte) /\ Len(hu) = Len(head) + Len(r.uuid)
    BY <1>4, <1>a, ConcatProperties
  <2>2. QED
    BY <2>1, <1>4
<1>6. hup \in Seq(Byte) /\ Len(hup) = 10 + KeySize
  <2>1. hup \in Seq(Byte) /\ Len(hup) = Len(hu) + Len(Lost)
    BY <1>3, <1>5, <1>b, ConcatProperties
  <2>2. QED
    BY <2>1, <1>3, <1>5, KeyAssumption
<1>7. ASSUME NEW k \in 1..2 PROVE all[k] = head[k]
  <2>1. hu[k] = head[k]
    BY <1>4, <1>a, ConcatProperties, KeyAssumption
  <2>2. hup[k] = hu[k]
    BY <1>3, <1>5, <1>b, ConcatProperties, KeyAssumption
  <2>3. all[k] = hup[k]
    BY <1>3, <1>6, <1>c, ConcatProperties, KeyAssumption
  <2>4. QED
    BY <2>1, <2>2, <2>3
<1>8. SubSeq(all, 3, 2 + KeySize) = r.uuid
  <2>1. SubSeq(hu, 3, 2 + KeySize) = r.uuid
    <3>1. Len(head) + 1 = 3 /\ Len(head) + Len(r.uuid) = 2 + KeySize
      BY <1>4
    <3>2. SubSeq(hu, Len(head) + 1, Len(head) + Len(r.uuid)) = r.uuid
      BY <1>4, <1>a, Behind
    <3>3. QED
      BY <3>1, <3>2
  <2>2. SubSeq(hup, 3, 2 + KeySize) = SubSeq(hu, 3, 2 + KeySize)
    BY <1>3, <1>5, <1>b, InFront, KeyAssumption
  <2>3. SubSeq(all, 3, 2 + KeySize) = SubSeq(hup, 3, 2 + KeySize)
    BY <1>3, <1>6, <1>c, InFront, KeyAssumption
  <2>4. QED
    BY <2>1, <2>2, <2>3
<1>9. SubSeq(all, 3 + KeySize, 10 + KeySize) = Lost
  <2>1. Len(hu) + 1 = 3 + KeySize /\ Len(hu) + Len(Lost) = 10 + KeySize
    BY <1>3, <1>5, KeyAssumption
  <2>2. SubSeq(hup, Len(hu) + 1, Len(hu) + Len(Lost)) = Lost
    BY <1>3, <1>5, <1>b, Behind
  <2>3. SubSeq(all, 3 + KeySize, 10 + KeySize) = SubSeq(hup, 3 + KeySize, 10 + KeySize)
    BY <1>3, <1>6, <1>c, InFront, KeyAssumption
  <2>4. QED
    BY <2>1, <2>2, <2>3
<1>10. SubSeq(all, 11 + KeySize, 18 + KeySize) = Lost
  <2>1. Len(hup) + 1 = 11 + KeySize /\ Len(hup) + Len(Lost) = 18 + KeySize
    BY <1>3, <1>6, KeyAssumption
  <2>2. SubSeq(all, Len(hup) + 1, Len(hup) + Len(Lost)) = Lost
    BY <1>3, <1>6, <1>c, Behind
  <2>3. QED
    BY <2>1, <2>2
<1>11. ntoh(Lost) = Lost
  <2>1. ntoh(Lost) = [k \in 1..8 |-> 255]
    BY <1>3, HtonLong
  <2>2. QED
    BY <2>1 DEF Lost
<1>12. request_parser(all) = [type |-> r.type, operation |-> r.operation, uuid |-> r.uuid,
                              position |-> Lost, size |-> Lost]
  <2>1. all[1] = r.type /\ all[2] = r.operation
    BY <1>7, <1>d
  <2>2. QED
    BY <2>1, <1>8, <1>9, <1>10, <1>11 DEF request_parser
<1>13. QED
  BY <1>2, <1>12
=============================================================================
