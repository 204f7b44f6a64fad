---------------------------- MODULE MCRecvBuffer ----------------------------
(* One bit of length per byte: remaining lengths up to 15 take one to four    *)
(* bytes.  The packets have 2, 5, 6, 10, 13 (the whole buffer) and 14       *)
(* bytes (too many).  Payloads are bytes that could start a PUBLISH (48).      *)
EXTENDS RecvBuffer

Bytes(n) == [i \in 1..n |-> 48]

Publish(flags, pid, n) == Packet(PUBLISH, flags, pid, <<97>>, Bytes(n))

PacketSet == {
    Publish(0, 0, 0),                            \* 6 bytes, too short for the code
    Publish(2, 259, 1),                          \* 10 bytes
    Publish(4, 1, 3),                            \* 13 bytes
    Publish(1, 0, 6),                            \* 14 bytes
    Packet(PUBREL, 2, 258, <<>>, <<>>),          \* 5 bytes
    Packet(SUBACK, 0, 3, <<>>, <<0>>),
    Packet(UNSUBACK, 0, 4, <<>>, <<>>),
    Packet(PINGRESP, 0, 0, <<>>, <<>>) }
=============================================================================
