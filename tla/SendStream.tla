----------------------------- MODULE SendStream -----------------------------
(***************************************************************************)
(* The send side of an MQTT-C client, byte by byte: requests are packed     *)
(* into the send buffer, __mqtt_send walks the queue, mqtt_pal_sendall      *)
(* pushes each packet through a socket that takes a few bytes at a time,    *)
(* and the broker reads the stream by the rules of MQTT 3.1.1.              *)
(*                                                                          *)
(* MqttClient, whose channel c2b this module justifies, says which answers  *)
(* the broker gives and what they do; MqttQueue says how packets and        *)
(* records share the buffer.  Here an answer only completes its message, a  *)
(* timeout is a choice, and a record has RecSize bytes.                     *)
(***************************************************************************)
EXTENDS MqttCodec

CONSTANTS
    SendSize,       \* bytes of the buffer (BUF_SEND_SIZE)
    RecSize,        \* bytes of a record (struct mqtt_queued_message)
    SockSize,       \* bytes the socket takes before a write would block
    Connections,    \* the CONNECT requests
    Requests,       \* the other requests an application or __mqtt_recv makes
    MaxRequests,    \* bound on the requests of the first connection; each later
                    \* connection has one less
    MaxResends,     \* bound on the retransmissions of one connection
    MaxConn         \* bound on the connections

\* The arguments of a request: strings of less than 65536 bytes, at least one topic,
\* and no DUP flag, which is the client's to set.
IsStrings(ss) == ss \in Seq(Seq(Byte)) /\ \A i \in 1..Len(ss) : IsString(ss[i])
Optional(ss)  == IsStrings(ss) /\ Len(ss) <= 1

IsConnect(c) ==
    /\ c.type = CONNECT /\ IsString(c.client_id)
    /\ Optional(c.will_topic) /\ Optional(c.will_message)
    /\ Optional(c.user_name) /\ Optional(c.password)
    /\ c.connect_flags \in Byte /\ IsWord(c.keep_alive)

IsRequest(r) ==
    \/ /\ r.type = PUBLISH /\ r = Packet(PUBLISH, r.flags, r.pid, r.topic, r.data)
       /\ r.flags \in 0..15 /\ (QosOf(r.flags) = 1 => r.flags < 8)
       /\ IsWord(r.pid) /\ IsString(r.topic) /\ r.data \in Seq(Byte)
    \/ r.type \in PUBXXX /\ IsWord(r.pid)
    \/ /\ r.type \in {SUBSCRIBE, UNSUBSCRIBE} /\ IsWord(r.pid)
       /\ IsStrings(r.topics) /\ r.topics # <<>>
       /\ r.type = SUBSCRIBE => r.max_qos \in Seq(Byte) /\ Len(r.max_qos) = Len(r.topics)
    \/ r.type \in {PINGREQ, DISCONNECT}

ASSUME SendAssumption ==
    /\ {SendSize, RecSize, SockSize} \subseteq Nat \ {0}
    /\ {MaxRequests, MaxResends, MaxConn} \subseteq Nat
    /\ \A r \in Requests : IsRequest(r)
    /\ \A c \in Connections : IsConnect(c)

VARIABLES
    queue,      \* client->mq: req, the packed bytes, state, and whether it was
                \* sent before
    error,      \* client->error
    pc,         \* at "rest", or in __mqtt_send at message i, off bytes written
    sock,       \* the bytes in the socket, not yet read by the broker
    got,        \* the bytes the broker has read and not yet understood
    received,   \* the packets the broker has understood
    sent,       \* the requests sent as a whole, in order
    link,       \* FALSE after the broker has hung up
    left        \* what may still happen in this connection, and connections

vars == <<queue, error, pc, sock, got, received, sent, link, left>>

-----------------------------------------------------------------------------
(* Staging a request.                                                       *)

\* What every request is packed into, and the size it announces.
Packed == [r \in Requests \cup Connections |->
              [error |-> PackError(r), bytes |-> Pack(r), size |-> PackedSize(r)]]

\* The bytes the messages of q and their records take.
Used(q) ==
    LET used[i \in 0..Len(q)] == IF i = 0 THEN 0 ELSE used[i - 1] + Len(q[i].bytes) + RecSize
    IN  used[Len(q)]

\* Room for the next packet (mqtt_mq_currsz).  Mutant: its record is forgotten.
curr_sz_norecord(q) == SendSize - Used(q)
curr_sz(q) == IF Used(q) + RecSize >= SendSize THEN 0 ELSE SendSize - Used(q) - RecSize

\* The messages from the first one that is not COMPLETE.
mqtt_mq_clean(q) ==
    LET open == {i \in DOMAIN q : q[i].state # "COMPLETE"} IN
      IF open = {} THEN <<>> ELSE SubSeq(q, Min(open), Len(q))

\* MQTT_CLIENT_TRY_PACK.
TryPack(q, r) ==
    LET msg     == [req |-> r, bytes |-> Packed[r].bytes, state |-> "UNSENT"]
        Fits(x) == Packed[r].size <= curr_sz(x)
        c       == IF Fits(q) THEN q ELSE mqtt_mq_clean(q)
    IN  IF Packed[r].error # "MQTT_OK" THEN [queue |-> q, error |-> Packed[r].error]
        ELSE IF Fits(c) THEN [queue |-> Append(c, msg), error |-> "MQTT_OK"]
        ELSE [queue |-> c, error |-> "SEND_BUFFER_IS_FULL"]

\* mqtt_publish, mqtt_subscribe, mqtt_unsubscribe, mqtt_disconnect, __mqtt_ping
\* and the answers of __mqtt_recv.  Identifiers are those of the requests, each
\* of which is made once in a connection.
Stage(r) ==
    /\ pc.at = "rest" /\ error = "MQTT_OK" /\ r \in left.requests
    /\ Cardinality(Requests \ left.requests) + (MaxConn - 1 - left.conns) < MaxRequests
    /\ LET t == TryPack(queue, r) IN queue' = t.queue /\ error' = t.error
    /\ left' = [left EXCEPT !.requests = @ \ {r}]
    /\ UNCHANGED <<pc, sock, got, received, sent, link>>

\* close_conn, check_mqrecv and check_mqupld: a new socket, mqtt_init and mqtt_connect.
Connect(c) ==
    /\ pc.at = "rest" /\ error # "MQTT_OK" /\ left.conns > 0
    /\ LET t == TryPack(<<>>, c) IN queue' = t.queue /\ error' = t.error
    /\ pc' = [at |-> "rest", i |-> 0, off |-> 0]
    /\ sock' = <<>> /\ got' = <<>> /\ received' = <<>> /\ sent' = <<>> /\ link' = TRUE
    /\ left' = [requests |-> Requests, resends |-> MaxResends, conns |-> left.conns - 1]

-----------------------------------------------------------------------------
(* __mqtt_send.                                                             *)

IsQos(m, q) == m.req.type = PUBLISH /\ QosOf(m.req.flags) = q

\* Held back: an older QoS 2 message is still open.
Held(i) == /\ IsQos(queue[i], 2)
           /\ \E j \in 1..(i - 1) : IsQos(queue[j], 2) /\ queue[j].state # "COMPLETE"

\* A full buffer does not keep __mqtt_send from sending what is queued.
Working == error \in {"MQTT_OK", "SEND_BUFFER_IS_FULL"}

SyncStart ==
    /\ pc.at = "rest" /\ Working /\ queue # <<>>
    /\ pc' = [at |-> "send", i |-> 1, off |-> 0]
    /\ UNCHANGED <<queue, error, sock, got, received, sent, link, left>>

\* After message i, or at the end of the queue.
Following(i) == IF i = Len(queue) THEN [at |-> "rest", i |-> 0, off |-> 0]
                ELSE [at |-> "send", i |-> i + 1, off |-> 0]

\* The message is not to be sent: COMPLETE, held back, or not timed out.
Skip ==
    /\ pc.at = "send" /\ pc.off = 0
    /\ queue[pc.i].state # "UNSENT" \/ Held(pc.i)
    /\ pc' = Following(pc.i)
    /\ UNCHANGED <<queue, error, sock, got, received, sent, link, left>>

\* UNSENT, or timed out; or the rest of a packet.
ToSend ==
    \/ pc.off > 0
    \/ /\ ~Held(pc.i)
       /\ \/ queue[pc.i].state = "UNSENT"
          \/ queue[pc.i].state = "AWAITING_ACK" /\ left.resends > 0

\* MQTT_PUBLISH_DUP set in the first byte of a packet.
WithDup(b) == [b EXCEPT ![1] = IF @ % 16 < 8 THEN @ + 8 ELSE @]

\* The state of a message that was sent as a whole; a QoS 1 PUBLISH gets its
\* DUP flag.  Mutant: it does not.
Sent_nodup(m) ==
    [m EXCEPT !.state = IF m.req.type \in {4, 7, DISCONNECT} \/ IsQos(m, 0)
                        THEN "COMPLETE" ELSE "AWAITING_ACK"]
Sent(m) ==
    [m EXCEPT !.state = IF m.req.type \in {4, 7, DISCONNECT} \/ IsQos(m, 0)
                        THEN "COMPLETE" ELSE "AWAITING_ACK",
              !.bytes = IF IsQos(m, 1) THEN WithDup(@) ELSE @]

\* The n bytes BIO_write takes.  Mutant: each call starts at the front.
Chunk_front(m, n) == SubSeq(m.bytes, 1, n)
Chunk(m, n) == SubSeq(m.bytes, pc.off + 1, pc.off + n)

Write(n) ==
    /\ pc.at = "send" /\ ToSend
    /\ LET m   == queue[pc.i]
           all == pc.off + n = Len(m.bytes)
       IN  /\ n <= Len(m.bytes) - pc.off /\ n <= SockSize - Len(sock)
           /\ sock' = sock \o Chunk(m, n)
           /\ left' = [left EXCEPT !.resends =
                           IF m.state = "UNSENT" \/ pc.off > 0 THEN @ ELSE @ - 1]
           /\ pc' = IF all THEN Following(pc.i) ELSE [pc EXCEPT !.off = @ + n]
           /\ queue' = IF all THEN [queue EXCEPT ![pc.i] = Sent(m)] ELSE queue
           /\ sent' = IF all THEN Append(sent, m.req) ELSE sent
    /\ UNCHANGED <<error, got, received, link>>

\* A write that fails for good: sendall and __mqtt_send return the error, and
\* the agent closes the connection.  While BIO_should_retry holds sendall only
\* tries again.  Mutant: it always tries again.
WriteFails_retries ==
    /\ pc.at = "send" /\ ToSend /\ ~link /\ pc.off = 0
    /\ error' = "SOCKET_ERROR" /\ pc' = [at |-> "rest", i |-> 0, off |-> 0]
    /\ UNCHANGED <<queue, sock, got, received, sent, link, left>>
WriteFails ==
    /\ pc.at = "send" /\ ToSend /\ ~link
    /\ error' = "SOCKET_ERROR" /\ pc' = [at |-> "rest", i |-> 0, off |-> 0]
    /\ UNCHANGED <<queue, sock, got, received, sent, link, left>>

\* __mqtt_recv handles the answer to a message, or finds that the broker has
\* hung up.
Answered(i) ==
    /\ pc.at = "rest" /\ Working /\ queue[i].state = "AWAITING_ACK"
    /\ \E k \in DOMAIN sent : k <= Len(received) /\ sent[k] = queue[i].req
    /\ queue' = [queue EXCEPT ![i].state = "COMPLETE"]
    /\ UNCHANGED <<error, pc, sock, got, received, sent, link, left>>

RecvFails ==
    /\ pc.at = "rest" /\ Working /\ ~link
    /\ error' = "SOCKET_ERROR"
    /\ UNCHANGED <<queue, pc, sock, got, received, sent, link, left>>

-----------------------------------------------------------------------------
(* The broker (external): it reads the stream by the rules of MQTT 3.1.1.   *)

\* The bytes of the fixed header and of the packet at the front of got, 0 while
\* they are not there.
HeaderLen ==
    LET ends == {k \in 2..(MaxLenBytes + 1) : k <= Len(got) /\ got[k] < Base}
    IN  IF ends = {} THEN 0 ELSE Min(ends)
FrameLen ==
    LET value[k \in 2..HeaderLen] ==
            (got[k] % Base) + (IF k = HeaderLen THEN 0 ELSE Base * value[k + 1])
    IN  HeaderLen + value[2]
Whole == HeaderLen > 0 /\ Len(got) >= FrameLen

\* The string at byte i of b, and the byte after it; the bit of n that counts v.
Bits16(b, i) == IF i + 1 <= Len(b) THEN 256 * b[i] + b[i + 1] ELSE 65536
After(b, i)  == i + 2 + Bits16(b, i)
StrAt(b, i)  == IF After(b, i) <= Len(b) + 1 THEN SubSeq(b, i + 2, After(b, i) - 1) ELSE <<>>
Bit(n, v)    == (n \div v) % 2 = 1

\* The places of the strings from byte i on, with gap bytes after each of them.
Places(b, first, gap) ==
    LET places[i \in Nat \ {0}] == IF i > Len(b) THEN <<i>> ELSE <<i>> \o places[After(b, i) + gap]
    IN  places[first]

Malformed == [type |-> 0]

BrokerConnect(b) ==
    LET f   == b[8]
        all == Places(b, 11, 0)
        n   == Len(all) - 1
        will == IF Bit(f, 4) THEN 2 ELSE 0
        user == IF Bit(f, 128) THEN 1 ELSE 0
        password == IF Bit(f, 64) THEN 1 ELSE 0
        Strs(i, k) == [j \in 1..k |-> StrAt(b, all[i + j])]
    IN  IF \/ all[n + 1] # Len(b) + 1 \/ n # 1 + will + user + password
           \/ SubSeq(b, 1, 7) # <<0, 4, 77, 81, 84, 84, 4>> \/ Bit(f, 1)
           \/ will = 0 /\ (f \div 8) % 8 # 0
        THEN Malformed
        ELSE [type |-> CONNECT, clean |-> Bit(f, 2), keep_alive |-> Bits16(b, 9),
              client_id |-> StrAt(b, 11), will |-> Strs(1, will),
              will_flags |-> (f \div 8) % 8,
              user_name |-> Strs(1 + will, user), password |-> Strs(1 + will + user, password)]

BrokerTopics(type, b, gap) ==
    LET all == Places(b, 3, gap)
        n   == Len(all) - 1
    IN  IF all[n + 1] # Len(b) + 1 \/ n = 0 THEN Malformed
        ELSE [type |-> type, pid |-> Bits16(b, 1), topics |-> [i \in 1..n |-> StrAt(b, all[i])],
              max_qos |-> [i \in 1..n |-> IF gap = 1 THEN b[all[i + 1] - 1] ELSE 0]]

BrokerPublish(flags, b) ==
    LET qos  == QosOf(flags)
        data == After(b, 1) + (IF qos > 0 THEN 2 ELSE 0)
    IN  IF data > Len(b) + 1 \/ qos = 3 \/ (qos = 0 /\ flags > 7) THEN Malformed
        ELSE [type |-> PUBLISH, flags |-> flags % 8, topic |-> StrAt(b, 1),
              pid |-> IF qos > 0 THEN Bits16(b, After(b, 1)) ELSE 0,
              data |-> SubSeq(b, data, Len(b))]

\* What the broker understands of a packet.
BrokerReadsAs(type, flags, b) ==
    CASE type = CONNECT /\ flags = 0 /\ Len(b) > 11 -> BrokerConnect(b)
      [] type = PUBLISH                              -> BrokerPublish(flags, b)
      [] type = SUBSCRIBE /\ flags = 2               -> BrokerTopics(type, b, 1)
      [] type = UNSUBSCRIBE /\ flags = 2             -> BrokerTopics(type, b, 0)
      [] type \in PUBXXX /\ flags = (IF type = PUBREL THEN 2 ELSE 0) /\ Len(b) = 2 ->
            [type |-> type, pid |-> Bits16(b, 1)]
      [] type \in {PINGREQ, DISCONNECT} /\ flags = 0 /\ b = <<>> -> [type |-> type]
      [] OTHER -> Malformed

BrokerReads ==
    /\ link /\ sock # <<>> /\ ~Whole
    /\ got' = got \o sock /\ sock' = <<>>
    /\ UNCHANGED <<queue, error, pc, received, sent, link, left>>

TakesFrame == link /\ Whole /\ got' = SubSeq(got, FrameLen + 1, Len(got))

BrokerTakes ==
    /\ link /\ Whole
    /\ received' = Append(received,
          [dup |-> got[1] \div 16 = PUBLISH /\ got[1] % 16 > 7,
           what |-> BrokerReadsAs(got[1] \div 16, got[1] % 16,
                                  SubSeq(got, HeaderLen + 1, FrameLen))])
    /\ TakesFrame
    /\ UNCHANGED <<queue, error, pc, sock, sent, link, left>>

\* What is under way is lost.  The client learns of it later, and may go on
\* writing until then.
HangUp ==
    /\ link /\ link' = FALSE /\ sock' = <<>> /\ got' = <<>>
    /\ UNCHANGED <<queue, error, pc, received, sent, left>>

-----------------------------------------------------------------------------

Init ==
    /\ queue = <<>> /\ error = "CONNECT_NOT_CALLED"
    /\ pc = [at |-> "rest", i |-> 0, off |-> 0]
    /\ sock = <<>> /\ got = <<>> /\ received = <<>> /\ sent = <<>> /\ link = FALSE
    /\ left = [requests |-> {}, resends |-> 0, conns |-> MaxConn]

__mqtt_send == Skip \/ WriteFails \/ \E n \in 1..SockSize : Write(n)

Broker == BrokerReads \/ BrokerTakes

Next ==
    \/ \E c \in Connections : Connect(c)
    \/ \E r \in Requests : Stage(r)
    \/ SyncStart \/ __mqtt_send \/ RecvFails
    \/ \E i \in DOMAIN queue : Answered(i)
    \/ Broker \/ HangUp

Spec == Init /\ [][Next]_vars

\* The thread of the agent runs, and the broker reads as long as it has not hung
\* up.
FairSpec == Spec /\ WF_pc(__mqtt_send) /\ WF_sock(BrokerReads) /\ WF_got(TakesFrame)

-----------------------------------------------------------------------------
(* Properties.                                                              *)

\* The values of the state; the packets and their records fit in the buffer, and
\* each packing function writes exactly the bytes it has announced in the fixed
\* header and for which it has checked the room.
TypeOK ==
    /\ \A i \in DOMAIN queue :
         /\ queue[i].req \in Requests \cup Connections /\ queue[i].bytes \in Seq(Byte)
         /\ queue[i].state \in {"UNSENT", "AWAITING_ACK", "COMPLETE"}
    /\ \A i \in DOMAIN queue : Len(queue[i].bytes) = Packed[queue[i].req].size
    /\ Used(queue) <= SendSize
    /\ pc.at \in {"rest", "send"} /\ pc.i \in 0..Len(queue)
    /\ sock \in Seq(Byte) /\ Len(sock) <= SockSize /\ got \in Seq(Byte)
    /\ link \in BOOLEAN /\ left.resends \in 0..MaxResends

\* What a request means, whatever bytes it is packed into.
Meaning(r) ==
    CASE r.type = CONNECT ->
            LET will == r.will_topic # <<>> IN
            [type |-> CONNECT, clean |-> Bit(r.connect_flags, 2), keep_alive |-> r.keep_alive,
             client_id |-> r.client_id,
             will |-> IF will THEN r.will_topic \o r.will_message ELSE <<>>,
             will_flags |-> IF will THEN (r.connect_flags \div 8) % 8 ELSE 0,
             user_name |-> r.user_name, password |-> r.password]
      [] r.type = SUBSCRIBE -> [type |-> r.type, pid |-> r.pid, topics |-> r.topics,
                                max_qos |-> r.max_qos]
      [] r.type = UNSUBSCRIBE -> [type |-> r.type, pid |-> r.pid, topics |-> r.topics,
                                  max_qos |-> [i \in DOMAIN r.topics |-> 0]]
      [] r.type = PUBLISH -> [type |-> PUBLISH, flags |-> r.flags % 8, topic |-> r.topic,
                              pid |-> IF QosOf(r.flags) > 0 THEN r.pid ELSE 0, data |-> r.data]
      [] r.type \in PUBXXX -> [type |-> r.type, pid |-> r.pid]
      [] OTHER -> [type |-> r.type]

\* However the socket cuts the packets, and wherever an earlier connection broke
\* off, the broker understands exactly the requests that were sent, in the order
\* and with the meaning the application gave them.
Understood ==
    /\ Len(received) <= Len(sent)
    /\ \A k \in DOMAIN received : received[k].what = Meaning(sent[k])

\* A QoS 1 PUBLISH carries the DUP flag in its second and later transmissions and
\* not in its first one (the flag is set in the queued bytes after each of them).
DupMarked ==
    \A k \in DOMAIN received :
        LET w == received[k].what IN
        w.type = PUBLISH /\ QosOf(w.flags) = 1 =>
            (received[k].dup <=> \E j \in 1..(k - 1) : received[j].what = w)

\* mqtt_pal_sendall gives up or is done in the end, even when the broker hangs up
\* in the middle of a packet, provided that a broker that is there reads.
SyncReturns == pc.at = "send" ~> pc.at = "rest"
=============================================================================
