---------------------------- MODULE RecvBuffer ----------------------------
(***************************************************************************)
(* The receive side of an MQTT-C client: the packets of the broker as bytes *)
(* on a stream that the network cuts at any place, the receive buffer       *)
(* (client->recv_buffer), and __mqtt_recv, which reads, frames, unpacks and *)
(* moves what is left to the front.  Packing and unpacking are in MqttCodec.*)
(* What is done with an unpacked packet is in MqttClient, whose channel b2c *)
(* is the abstraction of this module.                                       *)
(***************************************************************************)
EXTENDS MqttCodec

CONSTANTS
    RecvSize,       \* bytes of the buffer (BUF_RECV_SIZE)
    Packets,        \* the packets the broker may send after its CONNACK
    MaxPackets,     \* bound on the number of them in the first connection; each
                    \* later connection has one less
    MaxConn,        \* bound on the connections
    MayClose,       \* the broker may close the connection
    MayFail         \* handling a packet may fail

\* The answer of the broker to the CONNECT.
Connack == Packet(CONNACK, 0, 0, <<>>, <<0, 0>>)

ASSUME RecvAssumption ==
    /\ RecvSize \in Nat \ {0}
    /\ {MaxPackets, MaxConn} \subseteq Nat
    /\ {MayClose, MayFail} \subseteq BOOLEAN
    /\ \A p \in Packets \cup {Connack} : SentByBroker(p)

VARIABLES
    sent,       \* the packets of this connection, in the order of the broker
    wire,       \* the bytes the network still has to bring
    sock,       \* the bytes in the socket, not yet read
    closed,     \* the broker has closed the connection
    buf,        \* the bytes of recv_buffer from mem_start to curr
    pc,         \* inside the loop of __mqtt_recv: "recv" or "parse"
    error,      \* client->error
    handled,    \* the packets unpacked and handed to the switch of __mqtt_recv
    conns       \* connections so far

vars == <<sent, wire, sock, closed, buf, pc, error, handled, conns>>

-----------------------------------------------------------------------------
(* The network and the broker (external).                                   *)

Arrive(n) ==
    /\ n \in 1..Len(wire)
    /\ sock' = sock \o SubSeq(wire, 1, n)
    /\ wire' = SubSeq(wire, n + 1, Len(wire))
    /\ UNCHANGED <<sent, closed, buf, pc, error, handled, conns>>

\* The broker answers the CONNECT, and sends what it likes after that.
Streams(n) == {<<Connack>> \o s : s \in SeqOf(Packets, n)}

BrokerSends ==
    /\ sent = <<>> /\ ~closed /\ error = "MQTT_OK"
    /\ sent' \in Streams(MaxPackets + 1 - conns) /\ wire' = PackAll(sent')
    /\ UNCHANGED <<sock, closed, buf, pc, error, handled, conns>>

\* The broker hangs up; any part of what is under way may be lost.
Close(n) ==
    /\ MayClose /\ ~closed /\ error = "MQTT_OK" /\ n \in 0..Len(wire)
    /\ closed' = TRUE
    /\ wire' = SubSeq(wire, 1, n)
    /\ UNCHANGED <<sent, sock, buf, pc, error, handled, conns>>

-----------------------------------------------------------------------------
(* __mqtt_recv, one turn of its loop at a time.                              *)

\* mqtt_sync is called (every MQTT_SYN_T, by ag_handle_clttraffic).
SyncStart ==
    /\ pc = "rest" /\ error = "MQTT_OK"
    /\ pc' = "recv"
    /\ UNCHANGED <<sent, wire, sock, closed, buf, error, handled, conns>>

\* It returns e, and the agent closes the connection (close_conn).
Fails(e) == /\ error' = e /\ pc' = "rest"
            /\ sock' = <<>> /\ wire' = <<>>
            /\ UNCHANGED <<sent, closed, conns>>

\* The bytes free in the buffer (curr_sz).
curr_sz == RecvSize - Len(buf)

\* The bytes mqtt_pal_recvall reads: until the buffer is full or the socket is
\* empty.  Mutant: a read of one byte is taken for no read (rv > 1).
Taken_many == IF Len(sock) <= 1 THEN 0 ELSE IF Len(sock) < curr_sz THEN Len(sock) ELSE curr_sz
Taken      == IF Len(sock) < curr_sz THEN Len(sock) ELSE curr_sz

recvall ==
    /\ pc = "recv" /\ curr_sz > 0
    /\ ~(closed /\ wire = <<>> /\ Len(sock) < curr_sz)
    /\ buf' = buf \o SubSeq(sock, 1, Taken) /\ sock' = SubSeq(sock, Taken + 1, Len(sock))
    /\ pc' = "parse"
    /\ UNCHANGED <<sent, wire, closed, error, handled, conns>>

\* It meets the end of the stream, or is called with no room; the bytes it has
\* read before that in the same call are lost, curr not having moved.
recvall_fails ==
    /\ pc = "recv"
    /\ curr_sz = 0 \/ (closed /\ wire = <<>> /\ Len(sock) < curr_sz)
    /\ Fails("SOCKET_ERROR") /\ UNCHANGED <<buf, handled>>

Parses == pc = "parse" /\ UNCHANGED <<sent, closed, conns>>
Keeps  == UNCHANGED <<wire, sock, error>>

Refuse ==
    /\ Parses
    /\ LET r == mqtt_unpack_response(buf) IN r.error # "MQTT_OK" /\ Fails(r.error)
    /\ UNCHANGED <<buf, handled>>

\* Mutant: the last byte of the buffer is thought to be out of reach.
TooSmall_early == curr_sz <= 1
TooSmall       == curr_sz = 0

\* The packet is not complete: __mqtt_recv returns, with an error if it never
\* will be.
AwaitMore ==
    /\ Parses /\ mqtt_unpack_response(buf) = Wait
    /\ IF TooSmall THEN Fails("RECV_BUFFER_TOO_SMALL") ELSE Keeps /\ pc' = "rest"
    /\ UNCHANGED <<buf, handled>>

\* A whole packet goes through the switch (MqttClient), which may fail, and what
\* follows it is moved to the front.
HandlePacket ==
    /\ Parses
    /\ LET r == mqtt_unpack_response(buf) IN
         /\ r.n > 0
         /\ buf' = SubSeq(buf, r.n + 1, Len(buf)) /\ handled' = Append(handled, r.packet)
    /\ \/ Keeps /\ pc' = "recv"
       \/ MayFail /\ Fails("HANDLER_ERROR")

__mqtt_recv == recvall \/ recvall_fails \/ Refuse \/ AwaitMore \/ HandlePacket

-----------------------------------------------------------------------------
(* Connecting.                                                              *)

\* Mutant: the buffer keeps what it held.
mqtt_init_keep == UNCHANGED buf /\ error' = "MQTT_OK"
mqtt_init      == buf' = <<>> /\ error' = "MQTT_OK"

Reconnect ==
    /\ error # "MQTT_OK" /\ conns < MaxConn
    /\ conns' = conns + 1
    /\ mqtt_init
    /\ sent' = <<>> /\ wire' = <<>> /\ sock' = <<>> /\ closed' = FALSE
    /\ handled' = <<>> /\ UNCHANGED pc

Init ==
    /\ sent = <<>> /\ wire = <<>> /\ sock = <<>> /\ closed = FALSE
    /\ buf = <<>> /\ pc = "rest" /\ error = "MQTT_OK" /\ handled = <<>> /\ conns = 1

Network == \E n \in 1..Len(wire) : Arrive(n)

Next == \/ BrokerSends \/ Network \/ \E n \in 0..Len(wire) : Close(n)
        \/ SyncStart \/ __mqtt_recv \/ Reconnect

Spec == Init /\ [][Next]_vars

\* The thread of the agent keeps calling mqtt_sync and goes through its loop:
\* each of these steps changes pc, and one can be taken whenever Runs can.
Runs == (pc # "rest" \/ error = "MQTT_OK") /\ pc' \in {"rest", "recv", "parse"}

\* TCP delivers what the broker has sent.
FairSpec == Spec /\ WF_wire(Network) /\ WF_pc(Runs)

-----------------------------------------------------------------------------
(* Properties.                                                              *)

NextPacket == sent[Len(handled) + 1]

\* However the stream is cut, __mqtt_recv hands over exactly the packets of the
\* broker, in order and with their fields, and while there is no error the bytes
\* in the buffer, the socket and the network are those of the packets to come (or
\* the first of them, when the broker has closed).  The buffer is never overrun.
InStep ==
    /\ Len(buf) <= RecvSize
    /\ Len(handled) <= Len(sent) /\ handled = SubSeq(sent, 1, Len(handled))
    /\ error = "MQTT_OK" =>
         LET coming == PackAll(SubSeq(sent, Len(handled) + 1, Len(sent)))
             there  == buf \o sock \o wire
         IN  IF closed THEN IsPrefix(there, coming) ELSE there = coming

\* __mqtt_recv gives up a connection only for a reason: the broker has closed it,
\* the next packet is larger than the whole buffer, it is a PUBLISH with a remaining
\* length below four (which the code takes for malformed: QoS 0, with one byte of
\* topic and message at the most), or handling a packet failed.
ErrorJustified ==
    \/ error \in {"MQTT_OK", "HANDLER_ERROR"}
    \/ error = "SOCKET_ERROR" /\ closed
    \/ error = "RECV_BUFFER_TOO_SMALL" /\ Len(Pack(NextPacket)) > RecvSize
    \/ /\ error = "MALFORMED_RESPONSE" /\ NextPacket.type = PUBLISH
       /\ QosOf(NextPacket.flags) = 0
       /\ Len(NextPacket.topic) + Len(NextPacket.data) < 2

\* Every packet of the broker is handled in the end, unless the connection fails.
Delivered == error = "MQTT_OK" ~> (handled = sent \/ error # "MQTT_OK")
=============================================================================
