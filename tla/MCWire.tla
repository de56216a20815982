------------------------------- MODULE MCWire -------------------------------
(* Wire with a key of two bytes, packets of every type and some sizes that  *)
(* need the second byte of datasize.                                        *)
EXTENDS Wire, TLC

\* Bodies: none, short, one that looks like an unknown type, one of 256 bytes.
Bodies == {<<>>, <<7, 8, 9>>, <<99>>, [i \in 1..256 |-> 16]}

Packet(type, data) ==
  [type |-> type, key |-> <<7, 8>>, sequence |-> <<1, 2, 3, 255>>, salt |-> <<4, 3, 2, 1>>,
   data |-> data]

\* Every type without a body, and the types that may have one with some.
MCPackets ==
  {Packet(t, <<>>) : t \in Types}
    \cup {Packet(t, d) : t \in {msg_t.put, msg_t.get, msg_t.worker_response}, d \in Bodies}

\* A read and a write of four bytes at position 0 or 258.
MCRequests ==
  {[type |-> 0, operation |-> o, uuid |-> <<7, 9>>, position |-> position,
    size |-> <<4, 0, 0, 0, 0, 0, 0, 0>>] :
      o \in {0, 1}, position \in {<<0, 0, 0, 0, 0, 0, 0, 0>>, <<2, 1, 0, 0, 0, 0, 0, 0>>}}
=============================================================================
