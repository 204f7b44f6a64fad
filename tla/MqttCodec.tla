----------------------------- MODULE MqttCodec -----------------------------
(***************************************************************************)
(* The packets of MQTT 3.1.1 as the code packs and unpacks them.  Bytes are *)
(* integers of 8 bits; a string is the sequence of its bytes, and a pointer *)
(* that may be NULL is a sequence of at most one.                           *)
(*                                                                          *)
(* Base is 128 in the code: a byte of the remaining length has 7 bits of it, *)
(* and the next bit tells that another byte follows.  A smaller power of two *)
(* gives lengths of one to MaxLenBytes bytes to packets of a few bytes, with *)
(* the same control flow.                                                   *)
(***************************************************************************)
EXTENDS Integers, SequencesExt

CONSTANTS
    Base,           \* values of the bits of a remaining length in one byte (128)
    MaxLenBytes,    \* bytes of a remaining length (4: lshift == 28 is refused)
    MaxTopics       \* MQTT_(UN)SUBSCRIBE_REQUEST_MAX_NUM_TOPICS (8)

ASSUME CodecAssumption ==
    /\ Base \in {2, 4, 8, 16, 32, 64, 128}
    /\ {MaxLenBytes, MaxTopics} \subseteq Nat \ {0}

Byte == 0..255

CONNECT     == 1
CONNACK     == 2
PUBLISH     == 3
PUBXXX      == 4..7
PUBREL      == 6
SUBSCRIBE   == 8
SUBACK      == 9
UNSUBSCRIBE == 10
UNSUBACK    == 11
PINGREQ     == 12
PINGRESP    == 13
DISCONNECT  == 14

Packet(type, flags, pid, topic, data) ==
    [type |-> type, flags |-> flags, pid |-> pid, topic |-> topic, data |-> data]

QosOf(flags) == (flags \div 2) % 4

\* The types that exist, and the flags a type must have; PUBLISH may have any.
mqtt_fixed_header_rule_violation(type, flags) ==
    CASE type \notin 1..14                 -> "CONTROL_FORBIDDEN_TYPE"
      [] type \in {6, 8, 10} /\ flags # 2  -> "CONTROL_INVALID_FLAGS"
      [] type \notin {3, 6, 8, 10} /\ flags # 0 -> "CONTROL_INVALID_FLAGS"
      [] OTHER                             -> "MQTT_OK"

-----------------------------------------------------------------------------
(* Packing.  A packing function finds an error, or the flags and the        *)
(* remaining length rl of the fixed header and the bytes it writes after    *)
(* it.  The room in the buffer is checked with rl before they are written.  *)

Forbidden(e)           == [error |-> e, flags |-> 0, rl |-> 0, body |-> <<>>]
Parts(flags, rl, body) == [error |-> "MQTT_OK", flags |-> flags, rl |-> rl, body |-> body]

mqtt_pack_uint16(n) == <<(n \div 256) % 256, n % 256>>
mqtt_pack_str(s)    == mqtt_pack_uint16(Len(s)) \o SubSeq(s, 1, Len(s) % 65536)

mqtt_packed_cstrlen(s) == 2 + Len(s)

PackStrs(ss)   == FlattenSeq([i \in DOMAIN ss |-> mqtt_pack_str(ss[i])])
SizeOfStrs(ss) ==
    LET size[i \in 0..Len(ss)] ==
            IF i = 0 THEN 0 ELSE size[i - 1] + mqtt_packed_cstrlen(ss[i])
    IN  size[Len(ss)]

\* What one in byte j + 1 of a remaining length counts (lshift is 7 * j).
Weight[j \in Nat] == IF j = 0 THEN 1 ELSE Base * Weight[j - 1]

\* The remaining length, least significant part first, the high bit of a byte
\* telling that another one follows.
LengthBytes[n \in Nat] ==
    IF n < Base THEN <<n>> ELSE <<(n % Base) + Base>> \o LengthBytes[n \div Base]

mqtt_pack_fixed_header(type, flags, remaining_length) ==
    <<16 * type + flags>> \o LengthBytes[remaining_length]

\* CONNECT.  The bits given for a will count only if there is a will; the other
\* flags follow from what is given.
When(on, value) == IF on THEN value ELSE 0
ConnectFlags(c) ==
    LET f == c.connect_flags IN
      When(f % 4 > 1, 2)
        + When(c.will_topic # <<>>, 4 + 8 * ((f \div 8) % 4) + 32 * ((f \div 32) % 2))
        + When(c.password # <<>>, 64) + When(c.user_name # <<>>, 128)

mqtt_pack_connection_request(c) ==
    LET will    == c.will_topic # <<>>
        strings == <<c.client_id>> \o (IF will THEN c.will_topic \o c.will_message ELSE <<>>)
                     \o c.user_name \o c.password
    IN  CASE c.client_id = <<>> /\ c.connect_flags % 4 < 2 ->
                Forbidden("CLEAN_SESSION_IS_REQUIRED")
          [] will /\ c.will_message = <<>>         -> Forbidden("CONNECT_NULL_WILL_MESSAGE")
          [] will /\ (c.connect_flags \div 8) % 4 = 3 -> Forbidden("CONNECT_FORBIDDEN_WILL_QOS")
          [] OTHER -> Parts(0, 10 + SizeOfStrs(strings),
                            mqtt_pack_str(<<77, 81, 84, 84>>) \o <<4, ConnectFlags(c)>>
                              \o mqtt_pack_uint16(c.keep_alive) \o PackStrs(strings))

mqtt_pack_publish_request(p) ==
    LET qos == QosOf(p.flags)
        pid == IF qos > 0 THEN mqtt_pack_uint16(p.pid) ELSE <<>>
    IN  IF qos = 3 THEN Forbidden("PUBLISH_FORBIDDEN_QOS")
        ELSE Parts(IF qos = 0 THEN p.flags % 8 ELSE p.flags,
                   mqtt_packed_cstrlen(p.topic) + Len(pid) + Len(p.data),
                   mqtt_pack_str(p.topic) \o pid \o p.data)

mqtt_pack_pubxxx_request(p) ==
    Parts(IF p.type = PUBREL THEN 2 ELSE 0, 2, mqtt_pack_uint16(p.pid))

\* The list of topics ends with NULL; one of MaxTopics topics is refused already.
mqtt_pack_subscribe_request(p) ==
    IF Len(p.topics) >= MaxTopics THEN Forbidden("SUBSCRIBE_TOO_MANY_TOPICS")
    ELSE Parts(2, 2 + SizeOfStrs(p.topics) + Len(p.topics),
               mqtt_pack_uint16(p.pid)
                 \o FlattenSeq([i \in DOMAIN p.topics |->
                                   mqtt_pack_str(p.topics[i]) \o <<p.max_qos[i] % 256>>]))

mqtt_pack_unsubscribe_request(p) ==
    IF Len(p.topics) >= MaxTopics THEN Forbidden("UNSUBSCRIBE_TOO_MANY_TOPICS")
    ELSE Parts(2, 2 + SizeOfStrs(p.topics), mqtt_pack_uint16(p.pid) \o PackStrs(p.topics))

mqtt_pack_disconnect   == Parts(0, 0, <<>>)
mqtt_pack_ping_request == Parts(0, 0, <<>>)

\* The packets only a broker packs.
BrokerPack(p) ==
    LET body == (IF p.type \in {SUBACK, UNSUBACK} THEN mqtt_pack_uint16(p.pid) ELSE <<>>)
                  \o p.data
    IN  Parts(0, Len(body), body)

Packing(p) ==
    CASE p.type = CONNECT     -> mqtt_pack_connection_request(p)
      [] p.type = PUBLISH     -> mqtt_pack_publish_request(p)
      [] p.type \in PUBXXX    -> mqtt_pack_pubxxx_request(p)
      [] p.type = SUBSCRIBE   -> mqtt_pack_subscribe_request(p)
      [] p.type = UNSUBSCRIBE -> mqtt_pack_unsubscribe_request(p)
      [] p.type = PINGREQ     -> mqtt_pack_ping_request
      [] p.type = DISCONNECT  -> mqtt_pack_disconnect
      [] OTHER                -> BrokerPack(p)

\* The errors of the packing function and of its fixed header.
PackError(p) ==
    LET k == Packing(p) IN
      IF k.error # "MQTT_OK" THEN k.error
      ELSE IF k.rl >= Weight[MaxLenBytes] THEN "INVALID_REMAINING_LENGTH"
      ELSE "MQTT_OK"

\* The bytes of a packet that is packed, and the size that is announced.
Pack(p) ==
    LET k == Packing(p) IN mqtt_pack_fixed_header(p.type, k.flags, k.rl) \o k.body

PackedSize(p) == LET rl == Packing(p).rl IN 1 + Len(LengthBytes[rl]) + rl

PackAll(ps) == FlattenSeq([i \in DOMAIN ps |-> Pack(ps[i])])

\* A string, whose length takes 16 bits, and the packets a broker sends.
IsWord(n)   == n \in Nat /\ n < 65536
IsString(s) == s \in Seq(Byte) /\ IsWord(Len(s))

SentByBroker(p) ==
    /\ p = Packet(p.type, p.flags, p.pid, p.topic, p.data)
    /\ p.flags \in 0..15 /\ IsWord(p.pid) /\ IsString(p.topic) /\ p.data \in Seq(Byte)
    /\ p.type # PUBLISH => p.topic = <<>>
    /\ PackError(p) = "MQTT_OK"
    /\ \/ p.type = CONNACK /\ p.flags = 0 /\ p.pid = 0
          /\ Len(p.data) = 2 /\ p.data[1] <= 1 /\ p.data[2] <= 5
       \/ p.type = PUBLISH /\ (QosOf(p.flags) = 0 => p.flags < 8 /\ p.pid = 0)
       \/ p.type \in PUBXXX /\ p.flags = (IF p.type = PUBREL THEN 2 ELSE 0) /\ p.data = <<>>
       \/ p.type = SUBACK /\ p.flags = 0 /\ p.data # <<>>
       \/ p.type = UNSUBACK /\ p.flags = 0 /\ p.data = <<>>
       \/ p.type = PINGRESP /\ p.flags = 0 /\ p.pid = 0 /\ p.data = <<>>

-----------------------------------------------------------------------------
(* Unpacking.  A result has the error, or the number n of bytes consumed (0:  *)
(* wait for more), and what was unpacked.                                   *)

Nothing       == Packet(0, 0, 0, <<>>, <<>>)
Bad(e)        == [error |-> e, n |-> 0, packet |-> Nothing]
Wait          == [error |-> "MQTT_OK", n |-> 0, packet |-> Nothing]
Good(n, p)    == [error |-> "MQTT_OK", n |-> n, packet |-> p]

mqtt_unpack_uint16(b) == 256 * b[1] + b[2]

Continues(b) == (b \div Base) % 2 = 1

\* The value of the first k bytes of a remaining length.
LengthOf(b, k) ==
    LET value[j \in 0..k] ==
            IF j = 0 THEN 0 ELSE value[j - 1] + (b[j + 1] % Base) * Weight[j - 1]
    IN  value[k]

\* have bytes follow the fixed header of a packet with rl more bytes.
Incomplete(have, rl) == have < rl

\* The fixed header at the front of b: n is its length, 0 to wait for more, and
\* rl the remaining length.  A length ends with its first byte that has no high
\* bit; a type or a length that is not allowed is an error at once.
mqtt_unpack_fixed_header(b) ==
    LET ends == {k \in 1..MaxLenBytes :
                    /\ k < Len(b) /\ ~Continues(b[k + 1])
                    /\ \A j \in 1..(k - 1) : Continues(b[j + 1])}
        k    == CHOOSE i \in ends : TRUE
        rl   == LengthOf(b, k)
        rule == mqtt_fixed_header_rule_violation(b[1] \div 16, b[1] % 16)
        Result(e, n, l) == [error |-> e, n |-> n, rl |-> l]
    IN  IF ends = {}
        THEN Result(IF Len(b) > MaxLenBytes THEN "INVALID_REMAINING_LENGTH" ELSE "MQTT_OK", 0, 0)
        ELSE IF rule # "MQTT_OK" THEN Result(rule, 0, rl)
        ELSE Result("MQTT_OK", IF Incomplete(Len(b) - k - 1, rl) THEN 0 ELSE k + 1, rl)

\* The variable headers: b starts after the fixed header, whose remaining length
\* is rl.
mqtt_unpack_connack_response(b, rl) ==
    CASE rl # 2                     -> Bad("MALFORMED_RESPONSE")
      [] rl = 2 /\ b[1] > 1         -> Bad("CONNACK_FORBIDDEN_FLAGS")
      [] rl = 2 /\ b[1] <= 1 /\ b[2] > 5 -> Bad("CONNACK_FORBIDDEN_CODE")
      [] OTHER                      -> Good(2, Packet(CONNACK, 0, 0, <<>>, SubSeq(b, 1, 2)))

mqtt_unpack_publish_response(b, flags, rl) ==
    LET size == mqtt_unpack_uint16(b)
        head == size + (IF QosOf(flags) > 0 THEN 4 ELSE 2)
    IN  IF rl < 4 THEN Bad("MALFORMED_RESPONSE")
        ELSE Good(rl, Packet(PUBLISH, flags,
                IF QosOf(flags) > 0 THEN mqtt_unpack_uint16(SubSeq(b, size + 3, size + 4)) ELSE 0,
                SubSeq(b, 3, size + 2), SubSeq(b, head + 1, rl)))

mqtt_unpack_pubxxx_response(b, type, flags, rl) ==
    IF rl # 2 THEN Bad("MALFORMED_RESPONSE")
    ELSE Good(2, Packet(type, flags, mqtt_unpack_uint16(b), <<>>, <<>>))

mqtt_unpack_suback_response(b, rl) ==
    IF rl < 3 THEN Bad("MALFORMED_RESPONSE")
    ELSE Good(rl, Packet(SUBACK, 0, mqtt_unpack_uint16(b), <<>>, SubSeq(b, 3, rl)))

mqtt_unpack_unsuback_response(b, rl) ==
    IF rl # 2 THEN Bad("MALFORMED_RESPONSE")
    ELSE Good(2, Packet(UNSUBACK, 0, mqtt_unpack_uint16(b), <<>>, <<>>))

\* The packet at the front of b, with the bytes of its fixed header counted.
mqtt_unpack_response(b) ==
    LET h     == mqtt_unpack_fixed_header(b)
        type  == b[1] \div 16
        flags == b[1] % 16
        rest  == SubSeq(b, h.n + 1, Len(b))
        r     == CASE type = CONNACK   -> mqtt_unpack_connack_response(rest, h.rl)
                   [] type = PUBLISH   -> mqtt_unpack_publish_response(rest, flags, h.rl)
                   [] type \in PUBXXX  -> mqtt_unpack_pubxxx_response(rest, type, flags, h.rl)
                   [] type = SUBACK    -> mqtt_unpack_suback_response(rest, h.rl)
                   [] type = UNSUBACK  -> mqtt_unpack_unsuback_response(rest, h.rl)
                   [] type = PINGRESP  -> Good(0, Packet(PINGRESP, 0, 0, <<>>, <<>>))
                   [] OTHER            -> Bad("RESPONSE_INVALID_CONTROL_TYPE")
    IN  IF h.error # "MQTT_OK" THEN Bad(h.error)
        ELSE IF h.n = 0 THEN Wait
        ELSE IF r.error # "MQTT_OK" THEN r
        ELSE [r EXCEPT !.n = @ + h.n]
=============================================================================
