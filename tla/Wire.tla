-------------------------------- MODULE Wire --------------------------------
(***************************************************************************)
(* The byte stream of one direction of a connection: how packets are laid  *)
(* out (serializer.hpp), how the reading side cuts the stream into packets *)
(* again (class tcp_connection of main.cpp and class worker of worker.hpp) *)
(* and the request structure that clients put into the body of a trigger   *)
(* (json-replacement.hpp, slsfs-client.cpp).                               *)
(*                                                                         *)
(* A byte is a number, an integer in memory the sequence of its bytes,     *)
(* least significant first, as on the machines the transport is built for. *)
(***************************************************************************)
EXTENDS Naturals, Sequences, SequencesExt

CONSTANTS
  KeySize,   \* bytes of key_t
  Packets,   \* packets the sender may send, as [type, key, sequence, salt, data]
  Requests,  \* requests a client may send in triggers
  NoRequest, \* the request of a packet that carries none
  MaxSent    \* bound on the packets sent

ASSUME KeyAssumption == KeySize \in Nat
ASSUME BoundAssumption == MaxSent \in Nat

-----------------------------------------------------------------------------
(* Integers and headers.                                                   *)

Base == 256
Byte == 0..(Base - 1)

\* The enumerators of msg_t.
msg_t == [err |-> 0, put |-> 1, get |-> 2, ack |-> 4, worker_reg |-> 8, worker_dereg |-> 9,
          worker_push_request |-> 10, worker_response |-> 11, trigger |-> 16]
Types == {msg_t[name] : name \in DOMAIN msg_t}

Weight == <<1, Base, Base * Base, Base * Base * Base>>

\* Mutant: the bytes of an integer keep what is above them.
MemoryWide(n) == [k \in 1..4 |-> n \div Weight[k]]

\* An integer of four bytes (uint32_t) in memory, and back.
Memory(n) == [k \in 1..4 |-> (n \div Weight[k]) % Base]
Number(m) == m[1] + Base * (m[2] + Base * (m[3] + Base * m[4]))

\* Mutant: integers of four bytes are sent as they are.
HtonShort(m) == IF Len(m) = 2 THEN Reverse(m) ELSE m

\* hton and ntoh: the width decides; the assertion in the last branch is about a
\* string, so it always holds, and the value is -1.
hton(m) ==
  CASE Len(m) \in {2, 4} -> Reverse(m)
    [] Len(m) = 1 -> m
    [] OTHER -> [k \in 1..Len(m) |-> Base - 1]

ntoh(m) ==
  CASE Len(m) \in {2, 4} -> Reverse(m)
    [] Len(m) = 1 -> m
    [] OTHER -> [k \in 1..Len(m) |-> Base - 1]

bytesize == 1 + KeySize + 4 + 4 + 4

\* Mutant: the sequence is written after the salt.
DumpSwapped(h) == <<h.type>> \o h.key \o h.salt \o h.sequence \o hton(Memory(h.datasize))

dump(h) == <<h.type>> \o h.key \o h.sequence \o h.salt \o hton(Memory(h.datasize))

parse(b) ==
  LET field(pos, size) == SubSeq(b, pos + 1, pos + size)
  IN  [type |-> b[1], key |-> field(1, KeySize),
       sequence |-> field(1 + KeySize, 4), salt |-> field(5 + KeySize, 4),
       datasize |-> Number(ntoh(field(9 + KeySize, 4)))]

\* The header of a packet to be sent: serialize sets its datasize.
Header(p) ==
  [type |-> p.type, key |-> p.key, sequence |-> p.sequence, salt |-> p.salt,
   datasize |-> Len(p.data)]

serialize(p) == dump(Header(p)) \o p.data

Bytes(n) == [1..n -> Byte]
Fields ==
  [type : Types, key : Bytes(KeySize), sequence : Bytes(4), salt : Bytes(4), data : Seq(Byte)]
ASSUME PacketAssumption == Packets \subseteq Fields

-----------------------------------------------------------------------------
(* Requests in the body of a trigger.                                      *)

\* position and size are std::size_t, eight bytes.
to_network_format(r) == [r EXCEPT !.position = hton(@), !.size = hton(@)]

\* What is copied into the packet, and what request_parser reads from it.
RequestBytes(r) == <<r.type, r.operation>> \o r.uuid \o r.position \o r.size

request_parser(b) ==
  [type |-> b[1], operation |-> b[2], uuid |-> SubSeq(b, 3, 2 + KeySize),
   position |-> ntoh(SubSeq(b, 3 + KeySize, 10 + KeySize)),
   size |-> ntoh(SubSeq(b, 11 + KeySize, 18 + KeySize))]

ASSUME RequestAssumption ==
  Requests \subseteq [type : Byte, operation : Byte, uuid : Bytes(KeySize), position : Bytes(8),
                      size : Bytes(8)]

\* The packet that readtest and writetest make of a request.
RequestPacket(r) ==
  [type |-> msg_t.trigger, key |-> r.uuid, sequence |-> <<1, 1, 1, 1>>, salt |-> <<1, 1, 1, 1>>,
   data |-> RequestBytes(to_network_format(r))]

-----------------------------------------------------------------------------
(* The stream.                                                             *)

VARIABLES
  reader,   \* who reads, a connection or a worker, chosen at first
  stream,   \* bytes sent and not yet read
  sent,     \* history: the headers, bodies and requests sent
  got,      \* history: the headers and bodies given to the reader's handlers
  pending,  \* the header whose body is being read
  reading   \* what async_read waits for, or why none is started

vars == <<reader, stream, sent, got, pending, reading>>

NoHeader == [type |-> 0]

Init ==
  /\ reader \in {"connection", "worker"}
  /\ stream = <<>> /\ sent = <<>> /\ got = <<>>
  /\ pending = NoHeader
  /\ reading = "header"

Send(p, r) ==
  /\ Len(sent) < MaxSent
  /\ stream' = stream \o serialize(p)
  /\ sent' = Append(sent, [header |-> Header(p), data |-> p.data, request |-> r])
  /\ UNCHANGED <<reader, got, pending, reading>>

\* The types whose body is read.
BodyTypes ==
  IF reader = "connection" THEN {msg_t.put, msg_t.trigger} ELSE {msg_t.worker_response}

\* A worker that registers takes the socket with it.
GivesAwaySocket(type) == reader = "connection" /\ type = msg_t.worker_reg

\* start_read_header: no case of its switch is for an unknown type, after which
\* nothing is read any more.
ReadHeader ==
  /\ reading = "header" /\ Len(stream) >= bytesize
  /\ stream' = SubSeq(stream, bytesize + 1, Len(stream))
  /\ LET h == parse(SubSeq(stream, 1, bytesize))
     IN  /\ pending' = IF h.type \in BodyTypes THEN h ELSE pending
         /\ reading' = CASE h.type \in BodyTypes -> "body"
                         [] h.type \notin Types -> "stopped"
                         [] GivesAwaySocket(h.type) -> "moved"
                         [] OTHER -> "header"
         /\ got' = IF h.type \in Types \ BodyTypes
                   THEN Append(got, [header |-> h, data |-> <<>>]) ELSE got
  /\ UNCHANGED <<reader, sent>>

\* start_read_body and start_trigger.
ReadBody ==
  /\ reading = "body" /\ Len(stream) >= pending.datasize
  /\ stream' = SubSeq(stream, pending.datasize + 1, Len(stream))
  /\ got' = Append(got, [header |-> pending, data |-> SubSeq(stream, 1, pending.datasize)])
  /\ reading' = "header"
  /\ pending' = NoHeader
  /\ UNCHANGED <<reader, sent>>

Next ==
  \/ \E p \in Packets : Send(p, NoRequest)
  \/ reader = "connection" /\ \E r \in Requests : Send(RequestPacket(r), r)
  \/ ReadHeader
  \/ ReadBody

Spec == Init /\ [][Next]_vars /\ WF_vars(ReadHeader \/ ReadBody)

-----------------------------------------------------------------------------
(* Properties                                                              *)

TypeOK ==
  /\ reader \in {"connection", "worker"}
  /\ stream \in Seq(Byte)
  /\ Len(sent) <= MaxSent
  /\ reading \in {"header", "body", "stopped", "moved"}
  /\ reading = "body" <=> pending # NoHeader

Sent == [i \in 1..Len(sent) |-> [header |-> sent[i].header, data |-> sent[i].data]]

\* Clients give a body to puts and triggers only, workers to responses only.
MayCarry(type) ==
  IF reader = "connection" THEN type \in {msg_t.put, msg_t.trigger} ELSE type = msg_t.worker_response

\* datasize has four bytes: a longer body is not announced in full.
Announced(data) == Len(data) \div Weight[4] \in Byte

Regular ==
  \A i \in 1..Len(sent) :
    sent[i].data = <<>> \/ (MayCarry(sent[i].header.type) /\ Announced(sent[i].data))

\* The reader cuts the stream where the sender joined it: of regular packets it
\* gets each one, unchanged and in order, and has the rest of the bytes still to
\* read.  (dump and parse, hton and ntoh, and the choice of the types whose body is
\* read agree with each other.)
Framed ==
  Regular =>
    /\ IsPrefix(got, Sent)
    /\ reading = "header" /\ Len(stream) < bytesize => got = Sent
    /\ reading = "body" => Len(got) < Len(sent) /\ pending = Sent[Len(got) + 1].header
    /\ reading # "stopped"

\* A stream of regular packets is read to its end or to the packet that gives the
\* socket away.
ReadToTheEnd ==
  \A n \in 1..MaxSent :
    Len(sent) = n ~> (Len(got) >= n \/ ~Regular \/ reading = "moved")

\* "not supported conversion" is what an assertion of hton says of integers that are
\* neither one, two nor four bytes wide, so no request loses its position to one:
\* the parser reads the position and the size that the client wrote.
RequestsUnderstood ==
  \A i \in 1..Len(got) :
    Regular /\ sent[i].request # NoRequest =>
      request_parser(got[i].data) = sent[i].request
=============================================================================
