-------------------------- MODULE RecvBufferProofs --------------------------
(***************************************************************************)
(* Proofs about the receive side: for every size of the buffer and any      *)
(* packets of a broker, __mqtt_recv hands over what was sent, in order,     *)
(* however the network cuts it, and gives up for a reason only.             *)
(***************************************************************************)
EXTENDS RecvBuffer, MqttCodecProofs

-----------------------------------------------------------------------------
(* The invariant.                                                           *)

Sendable == Packets \cup {Connack}

\* The types of the variables.
Types ==
    /\ sent \in Seq(Sendable) /\ handled \in Seq(Sendable)
    /\ wire \in Seq(Byte) /\ sock \in Seq(Byte) /\ buf \in Seq(Byte)
    /\ closed \in BOOLEAN /\ pc \in {"rest", "recv", "parse"} /\ conns \in Nat

\* An error ends the loop, and a call that starts to read has room to read to.
Loop ==
    /\ Len(buf) <= RecvSize
    /\ error # "MQTT_OK" => pc = "rest"
    /\ error = "MQTT_OK" /\ pc \in {"rest", "recv"} => Len(buf) < RecvSize

\* The packets still to be handled, as bytes, and the bytes that are under way.
Coming == PackAll(SubSeq(sent, Len(handled) + 1, Len(sent)))
There  == buf \o (sock \o wire)

\* What is under way are the first bytes of the packets to come, and all of them
\* if the broker has not closed the connection.
Stream ==
    /\ Len(handled) <= Len(sent) /\ handled = SubSeq(sent, 1, Len(handled))
    /\ error = "MQTT_OK" =>
         /\ At(Coming, 0, There)
         /\ ~closed => Len(There) = Len(Coming)

IInv == Types /\ Loop /\ Stream /\ ErrorJustified

-----------------------------------------------------------------------------
(* What is in the buffer.                                                   *)

\* What the broker of this module sends is what a broker sends.
LEMMA SendableSent == \A p \in Sendable : SentByBroker(p)
  BY RecvAssumption DEF Sendable

\* The packets still to be handled are bytes.
LEMMA ComingType == ASSUME Types PROVE Coming \in Seq(Byte)
<1> DEFINE k == Len(handled)
           q == SubSeq(sent, k + 1, Len(sent))
<1>1. k \in Nat /\ Len(sent) \in Nat /\ sent \in Seq(Sendable)
  BY LenProperties DEF Types
<1>2. q \in Seq(Sendable)
  <2>1. CASE k <= Len(sent)
    <3> HIDE DEF k
    <3> QED BY <1>1, <2>1, Dropped
  <2>2. CASE ~(k <= Len(sent))
    <3>1. q = <<>>
      BY <1>1, <2>2, SubSeqEmpty
    <3> QED BY <3>1, EmptySeq
  <2> QED BY <2>1, <2>2
<1> HIDE DEF q
<1>3. PackAll(q) \in Seq(Byte)
  BY <1>2, SendableSent, PackAllType
<1> QED BY <1>3 DEF Coming, q

\* The bytes under way, of which those in the buffer are the first.
LEMMA ThereType ==
    ASSUME Types
    PROVE  /\ There \in Seq(Byte) /\ At(There, 0, buf)
           /\ Len(There) = Len(buf) + (Len(sock) + Len(wire))
<1> DEFINE x == sock \o wire
<1>1. x \in Seq(Byte) /\ Len(x) = Len(sock) + Len(wire) /\ buf \in Seq(Byte)
  BY AtConcat DEF Types
<1> HIDE DEF x
<1>2. At(buf \o x, 0, buf) /\ buf \o x \in Seq(Byte) /\ Len(buf \o x) = Len(buf) + Len(x)
  BY <1>1, AtConcat
<1> QED BY <1>1, <1>2 DEF There, x

\* While there are packets to come, Coming is the next of them and then the rest.
Rest == PackAll(SubSeq(sent, (Len(handled) + 1) + 1, Len(sent)))

\* The next packet to be handled is at the front of those to come.
LEMMA ComingNext ==
    ASSUME Types, Len(handled) < Len(sent)
    PROVE  /\ Coming = Pack(NextPacket) \o Rest /\ Rest \in Seq(Byte)
           /\ NextPacket \in Sendable /\ SentByBroker(NextPacket)
           /\ Pack(NextPacket) \in Seq(Byte)
           /\ Len(Pack(NextPacket)) \in Nat /\ Len(Pack(NextPacket)) > 0
<1> DEFINE k == Len(handled)
           q == SubSeq(sent, (k + 1) + 1, Len(sent))
<1>1. k \in Nat /\ Len(sent) \in Nat /\ sent \in Seq(Sendable) /\ k < Len(sent)
  BY LenProperties DEF Types
<1> HIDE DEF k
<1>2. PackAll(SubSeq(sent, k + 1, Len(sent))) = Pack(sent[k + 1]) \o PackAll(q)
  BY <1>1, SendableSent, PackAllNext
<1>3. k + 1 \in 1..Len(sent) /\ k + 1 \in Nat /\ k + 1 <= Len(sent)
  BY <1>1
<1>4. sent[k + 1] \in Sendable
  BY <1>1, <1>3, ElementOfSeq
<1>5. SentByBroker(sent[k + 1])
  BY <1>4, SendableSent
<1>6. q \in Seq(Sendable)
  BY <1>1, <1>3, Dropped
<1>7. PackAll(q) \in Seq(Byte)
  BY <1>6, SendableSent, PackAllType
<1>8. /\ Pack(sent[k + 1]) \in Seq(Byte)
      /\ Len(Pack(sent[k + 1])) \in Nat /\ Len(Pack(sent[k + 1])) > 0
  BY <1>5, PackShape
<1> QED BY <1>2, <1>4, <1>5, <1>7, <1>8 DEF Coming, Rest, NextPacket, k

\* When all is handled nothing is to come.
LEMMA ComingNone ==
    ASSUME Types, Len(handled) = Len(sent)
    PROVE  Coming = <<>>
<1>1. Len(sent) \in Nat
  BY LenProperties DEF Types
<1>2. SubSeq(sent, Len(handled) + 1, Len(sent)) = <<>>
  BY <1>1, SubSeqEmpty
<1> QED BY <1>2, PackAllNone DEF Coming

\* What mqtt_unpack_response finds at the front of the buffer, as long as there is
\* no error: nothing as long as the next packet is not there as a whole, and the next
\* packet when it is, unless it is a PUBLISH that is too short for the code.
Awaits ==
    /\ mqtt_unpack_response(buf) = Wait
    /\ \/ Len(handled) = Len(sent) /\ buf = <<>>
       \/ Len(handled) < Len(sent) /\ Len(buf) < Len(Pack(NextPacket))
Refuses ==
    /\ mqtt_unpack_response(buf) = Bad("MALFORMED_RESPONSE")
    /\ Len(handled) < Len(sent) /\ NextPacket.type = PUBLISH /\ PublishSize(NextPacket) < 4
Reads ==
    /\ mqtt_unpack_response(buf) = Good(Len(Pack(NextPacket)), NextPacket)
    /\ Len(handled) < Len(sent) /\ Len(Pack(NextPacket)) <= Len(buf)

\* What mqtt_unpack_response makes of the buffer: nothing yet, an error because of a short
\* PUBLISH, or the next packet.
LEMMA Parsed ==
    ASSUME Types, Stream, error = "MQTT_OK"
    PROVE  Awaits \/ Refuses \/ Reads
<1> DEFINE k == Len(handled)
           w == Pack(NextPacket)
<1>1. /\ k \in Nat /\ Len(sent) \in Nat /\ k <= Len(sent)
      /\ buf \in Seq(Byte) /\ Len(buf) \in Nat
  BY LenProperties DEF Types, Stream
<1>2. Coming \in Seq(Byte) /\ There \in Seq(Byte) /\ At(Coming, 0, There) /\ At(There, 0, buf)
  BY ComingType, ThereType DEF Stream
<1>3. At(Coming, 0, buf)
  <2>1. At(Coming, 0 + 0, buf)
    BY <1>1, <1>2, AtTrans
  <2> QED BY <2>1
<1>4. CASE k = Len(sent)
  <2>1. Coming = <<>>
    BY <1>4, ComingNone
  <2>2. Len(Coming) = 0
    BY <2>1, EmptySeq
  <2>3. 0 + Len(buf) <= Len(Coming)
    BY <1>3 DEF At
  <2>4. Len(buf) = 0
    BY <1>1, <2>2, <2>3
  <2>5. buf = <<>>
    BY <1>1, <2>4, EmptySeq
  <2> QED BY <1>4, <2>5, AwaitNothing DEF Awaits
<1>5. CASE k < Len(sent)
  <2>1. /\ Coming = w \o Rest /\ Rest \in Seq(Byte) /\ SentByBroker(NextPacket)
        /\ w \in Seq(Byte) /\ Len(w) \in Nat /\ Len(w) > 0
    BY <1>5, ComingNext
  <2> HIDE DEF k
  <2>2. At(w \o Rest, 0, w)
    <3> HIDE DEF w
    <3> QED BY <2>1, AtConcat
  <2>3. At(Coming, 0, w)
    BY <2>1, <2>2
  <2>4. CASE Len(buf) < Len(w)
    <3>1. At(w, 0, buf)
      <4>1. Len(buf) <= Len(w)
        BY <1>1, <2>1, <2>4
      <4> HIDE DEF w
      <4> QED BY <1>1, <1>2, <1>3, <2>1, <2>3, <4>1, PrefixOrder
    <3>2. mqtt_unpack_response(buf) = Wait
      BY <1>1, <2>1, <2>4, <3>1, AwaitPacket
    <3> QED BY <1>5, <2>4, <3>2 DEF Awaits, k
  <2>5. CASE ~(Len(buf) < Len(w))
    <3>1. Len(w) <= Len(buf)
      BY <1>1, <2>1, <2>5
    <3>2. At(buf, 0, w)
      <4> HIDE DEF w
      <4> QED BY <1>1, <1>2, <1>3, <2>1, <2>3, <3>1, PrefixOrder
    <3>3. mqtt_unpack_response(buf) =
              IF NextPacket.type = PUBLISH /\ PublishSize(NextPacket) < 4
              THEN Bad("MALFORMED_RESPONSE")
              ELSE Good(Len(Pack(NextPacket)), NextPacket)
      BY <1>1, <2>1, <3>2, ReadPacket
    <3> QED BY <1>5, <3>1, <3>3 DEF Refuses, Reads, k
  <2> QED BY <2>4, <2>5
<1> QED BY <1>1, <1>4, <1>5

-----------------------------------------------------------------------------
(* The steps.                                                               *)

\* A step that leaves the packets alone.
LEMMA ComingKept ==
    ASSUME UNCHANGED <<sent, handled>>
    PROVE  Coming' = Coming /\ NextPacket' = NextPacket
  BY DEF Coming, NextPacket

\* A step that changes neither the packets nor the error, nor the bytes under way, but
\* where they are.
LEMMA StreamKept ==
    ASSUME Types, Stream, UNCHANGED <<sent, handled, error, closed>>, There' = There
    PROVE  Stream'
  BY ComingKept DEF Stream

\* A step that touches neither the error nor what it is about.
LEMMA JustifiedKept ==
    ASSUME ErrorJustified, UNCHANGED <<sent, handled, error, closed>>
    PROVE  ErrorJustified'
  BY ComingKept DEF ErrorJustified

\* Bytes of y go to the end of x.
LEMMA Moved ==
    ASSUME NEW x \in Seq(Byte), NEW y \in Seq(Byte), NEW n \in Nat, n <= Len(y)
    PROVE  /\ x \o SubSeq(y, 1, n) \in Seq(Byte) /\ SubSeq(y, n + 1, Len(y)) \in Seq(Byte)
           /\ Len(x \o SubSeq(y, 1, n)) = Len(x) + n
           /\ (x \o SubSeq(y, 1, n)) \o SubSeq(y, n + 1, Len(y)) = x \o y
<1> DEFINE f == SubSeq(y, 1, n)
           r == SubSeq(y, n + 1, Len(y))
<1>1. f \in Seq(Byte) /\ Len(f) = n /\ r \in Seq(Byte) /\ f \o r = y
  BY Split
<1> HIDE DEF f, r
<1>2. x \o f \in Seq(Byte) /\ Len(x \o f) = Len(x) + Len(f)
  BY <1>1, AtConcat
<1>3. (x \o f) \o r = x \o (f \o r)
  BY <1>1, ByteAssoc
<1> QED BY <1>1, <1>2, <1>3 DEF f, r

\* Bytes arrive in the socket, in any portions.
LEMMA ArriveKeeps ==
    ASSUME IInv, NEW n \in 1..Len(wire), Arrive(n)
    PROVE  IInv'
<1>1. Types /\ Loop /\ Stream /\ ErrorJustified
  BY DEF IInv
<1>2. /\ sock \in Seq(Byte) /\ wire \in Seq(Byte) /\ buf \in Seq(Byte) /\ Len(wire) \in Nat
      /\ n \in Nat /\ n <= Len(wire)
  BY <1>1, LenProperties DEF Types
<1>3. /\ sock' = sock \o SubSeq(wire, 1, n) /\ wire' = SubSeq(wire, n + 1, Len(wire))
      /\ UNCHANGED <<sent, closed, buf, pc, error, handled, conns>>
  BY DEF Arrive
<1>4. sock' \in Seq(Byte) /\ wire' \in Seq(Byte) /\ sock' \o wire' = sock \o wire
  BY <1>2, <1>3, Moved
<1>5. Types'
  BY <1>1, <1>3, <1>4 DEF Types
<1>6. Loop'
  BY <1>1, <1>3 DEF Loop
<1>7. There' = There
  BY <1>3, <1>4 DEF There
<1>8. Stream' /\ ErrorJustified'
  BY <1>1, <1>3, <1>7, StreamKept, JustifiedKept
<1> QED BY <1>5, <1>6, <1>8 DEF IInv

\* The broker sends a packet.
LEMMA BrokerSendsKeeps ==
    ASSUME IInv, BrokerSends
    PROVE  IInv'
<1>1. Types /\ Loop /\ Stream /\ ErrorJustified
  BY DEF IInv
<1>2. /\ sent = <<>> /\ closed = FALSE /\ error = "MQTT_OK" /\ wire' = PackAll(sent')
      /\ UNCHANGED <<sock, closed, buf, pc, error, handled, conns>>
  BY <1>1 DEF BrokerSends, Types
<1>3. sent' \in Seq(Sendable)
  <2> DEFINE m == MaxPackets + 1 - conns
  <2>1. PICK s \in SeqOf(Packets, m) : sent' = <<Connack>> \o s
    BY DEF BrokerSends, Streams
  <2>2. m \in Int
    BY <1>1, RecvAssumption DEF Types
  <2> HIDE DEF m
  <2>3. PICK k \in 0..m : s \in [1..k -> Packets]
    BY <2>1 DEF SeqOf
  <2>4. k \in Nat
    BY <2>2
  <2>5. s \in [1..k -> Sendable]
    BY <2>3 DEF Sendable
  <2>6. s \in Seq(Sendable)
    BY <2>4, <2>5, SeqDef
  <2>7. Connack \in Sendable
    BY DEF Sendable
  <2> QED BY <2>1, <2>6, <2>7, ConsByte
<1>4. wire' \in Seq(Byte)
  BY <1>2, <1>3, SendableSent, PackAllType
<1>5. Types'
  BY <1>1, <1>2, <1>3, <1>4 DEF Types
<1>6. Loop'
  BY <1>1, <1>2 DEF Loop
<1>7. Len(handled) = 0 /\ Len(sent) = 0 /\ handled = <<>>
  <2>1. Len(sent) = 0
    BY <1>2, EmptySeq
  <2>2. Len(handled) \in Nat /\ Len(handled) <= Len(sent) /\ handled \in Seq(Sendable)
    BY <1>1, LenProperties DEF Types, Stream
  <2>3. Len(handled) = 0
    BY <2>1, <2>2
  <2> QED BY <2>1, <2>2, <2>3, EmptySeq
<1>8. Coming' = wire'
  <2>1. SubSeq(sent', 1, Len(sent')) = sent'
    BY <1>3, SubSeqFull
  <2>2. Len(handled') + 1 = 1
    BY <1>2, <1>7
  <2> QED BY <1>2, <2>1, <2>2 DEF Coming
<1>9. buf = <<>> /\ sock = <<>>
  <2>1. Coming = <<>>
    BY <1>1, <1>7, ComingNone
  <2>2. Len(Coming) = 0
    BY <2>1, EmptySeq
  <2>3. Len(There) = 0
    BY <1>1, <1>2, <2>2 DEF Stream
  <2>4. /\ Len(buf) \in Nat /\ Len(sock) \in Nat /\ Len(wire) \in Nat
        /\ buf \in Seq(Byte) /\ sock \in Seq(Byte)
    BY <1>1, LenProperties DEF Types
  <2>5. Len(There) = Len(buf) + (Len(sock) + Len(wire))
    BY <1>1, ThereType
  <2>6. Len(buf) = 0 /\ Len(sock) = 0
    <3>1. \A i, j, k \in Nat : i + (j + k) = 0 => i = 0 /\ j = 0
      OBVIOUS
    <3>2. Len(buf) + (Len(sock) + Len(wire)) = 0
      BY <2>3, <2>5
    <3> QED BY ONLY <2>4, <3>1, <3>2
  <2> QED BY <2>4, <2>6, EmptySeq
<1>10. There' = wire'
  <2>1. <<>> \o wire' = wire'
    BY <1>4, ConcatEmptySeq
  <2> QED BY <1>2, <1>9, <2>1 DEF There
<1>11. Stream'
  <2>1. Len(handled') <= Len(sent')
    BY <1>2, <1>3, <1>7, LenProperties
  <2>2. handled' = SubSeq(sent', 1, Len(handled'))
    <3>1. SubSeq(sent', 1, 0) = <<>>
      BY SubSeqEmpty
    <3> QED BY <1>2, <1>7, <3>1
  <2>3. At(Coming', 0, There')
    BY <1>4, <1>8, <1>10, PrefixSelf
  <2> QED BY <1>8, <1>10, <2>1, <2>2, <2>3 DEF Stream
<1>12. ErrorJustified'
  BY <1>2 DEF ErrorJustified
<1> QED BY <1>5, <1>6, <1>11, <1>12 DEF IInv

\* The broker closes the connection, and what has not arrived is lost.
LEMMA CloseKeeps ==
    ASSUME IInv, NEW n \in 0..Len(wire), Close(n)
    PROVE  IInv'
<1>1. Types /\ Loop /\ Stream /\ ErrorJustified
  BY DEF IInv
<1>2. /\ error = "MQTT_OK" /\ closed' = TRUE /\ wire' = SubSeq(wire, 1, n)
      /\ UNCHANGED <<sent, sock, buf, pc, error, handled, conns>>
  BY DEF Close
<1>3. /\ sock \in Seq(Byte) /\ wire \in Seq(Byte) /\ buf \in Seq(Byte) /\ Len(wire) \in Nat
      /\ n \in Nat /\ n <= Len(wire)
  BY <1>1, LenProperties DEF Types
<1> DEFINE f == SubSeq(wire, 1, n)
           r == SubSeq(wire, n + 1, Len(wire))
<1>4. f \in Seq(Byte) /\ r \in Seq(Byte) /\ f \o r = wire
  BY <1>3, Split
<1>5. wire' = f
  BY <1>2
<1> HIDE DEF f, r
<1>6. Types'
  BY <1>1, <1>2, <1>4, <1>5 DEF Types
<1>7. Loop'
  BY <1>1, <1>2 DEF Loop
<1>8. There = There' \o r /\ There' \in Seq(Byte)
  <2> DEFINE x == sock \o f
  <2>1. x \in Seq(Byte) /\ buf \o x \in Seq(Byte)
    BY <1>3, <1>4, ConcatProperties
  <2>2. x \o r = sock \o (f \o r)
    BY <1>3, <1>4, ByteAssoc
  <2>3. There' = buf \o x
    BY <1>2, <1>5 DEF There
  <2> HIDE DEF x
  <2>4. (buf \o x) \o r = buf \o (x \o r)
    BY <1>3, <1>4, <2>1, ByteAssoc
  <2> QED BY <1>4, <2>1, <2>2, <2>3, <2>4 DEF There
<1>9. At(There, 0, There')
  BY <1>4, <1>8, AtConcat
<1>10. At(Coming, 0 + 0, There')
  BY <1>1, <1>2, <1>8, <1>9, ComingType, ThereType, AtTrans DEF Stream
<1>11. At(Coming', 0, There')
  BY <1>2, <1>10, ComingKept
<1>12. Stream'
  BY <1>1, <1>2, <1>11 DEF Stream
<1>13. ErrorJustified'
  BY <1>2 DEF ErrorJustified
<1> QED BY <1>6, <1>7, <1>12, <1>13 DEF IInv

\* mqtt_sync starts.
LEMMA SyncStartKeeps ==
    ASSUME IInv, SyncStart
    PROVE  IInv'
<1>1. Types /\ Loop /\ Stream /\ ErrorJustified
  BY DEF IInv
<1>2. /\ pc = "rest" /\ error = "MQTT_OK" /\ pc' = "recv"
      /\ UNCHANGED <<sent, wire, sock, closed, buf, error, handled, conns>>
  BY DEF SyncStart
<1>3. Types'
  BY <1>1, <1>2 DEF Types
<1>4. Loop'
  BY <1>1, <1>2 DEF Loop
<1>5. There' = There
  BY <1>2 DEF There
<1> QED BY <1>1, <1>2, <1>3, <1>4, <1>5, StreamKept, JustifiedKept DEF IInv

\* A call that ends with an error.
LEMMA GivesUp ==
    ASSUME IInv, NEW e, e # "MQTT_OK", Fails(e),
           handled' \in Seq(Sendable), buf' \in Seq(Byte), Len(buf') <= RecvSize,
           Len(handled') <= Len(sent), handled' = SubSeq(sent, 1, Len(handled')),
           ErrorJustified'
    PROVE  IInv'
<1>1. Types /\ Loop /\ Stream
  BY DEF IInv
<1>2. /\ error' = e /\ pc' = "rest" /\ sock' = <<>> /\ wire' = <<>>
      /\ UNCHANGED <<sent, closed, conns>>
  BY DEF Fails
<1>3. Types'
  BY <1>1, <1>2, EmptySeq DEF Types
<1>4. Loop'
  BY <1>2 DEF Loop
<1>5. Stream'
  BY <1>2 DEF Stream
<1> QED BY <1>3, <1>4, <1>5 DEF IInv

\* mqtt_pal_recvall reads what is there and there is room for.
LEMMA recvallKeeps ==
    ASSUME IInv, recvall
    PROVE  IInv'
<1>1. Types /\ Loop /\ Stream /\ ErrorJustified
  BY DEF IInv
<1>2. /\ pc = "recv" /\ curr_sz > 0
      /\ buf' = buf \o SubSeq(sock, 1, Taken) /\ sock' = SubSeq(sock, Taken + 1, Len(sock))
      /\ pc' = "parse" /\ UNCHANGED <<sent, wire, closed, error, handled, conns>>
  BY DEF recvall
<1>3. /\ buf \in Seq(Byte) /\ sock \in Seq(Byte) /\ wire \in Seq(Byte)
      /\ Len(buf) \in Nat /\ Len(sock) \in Nat /\ RecvSize \in Nat /\ Len(buf) <= RecvSize
  BY <1>1, LenProperties, RecvAssumption DEF Types, Loop
<1>4. Taken \in Nat /\ Taken <= Len(sock) /\ Len(buf) + Taken <= RecvSize
  BY <1>2, <1>3 DEF Taken, curr_sz
<1>5. /\ buf' \in Seq(Byte) /\ sock' \in Seq(Byte) /\ Len(buf') = Len(buf) + Taken
      /\ buf' \o sock' = buf \o sock
  <2> DEFINE n == Taken
  <2>1. n \in Nat /\ n <= Len(sock)
    BY <1>4
  <2>2. buf' = buf \o SubSeq(sock, 1, n) /\ sock' = SubSeq(sock, n + 1, Len(sock))
    BY <1>2
  <2> HIDE DEF n
  <2>3. /\ buf \o SubSeq(sock, 1, n) \in Seq(Byte) /\ SubSeq(sock, n + 1, Len(sock)) \in Seq(Byte)
        /\ Len(buf \o SubSeq(sock, 1, n)) = Len(buf) + n
        /\ (buf \o SubSeq(sock, 1, n)) \o SubSeq(sock, n + 1, Len(sock)) = buf \o sock
    BY <1>3, <2>1, Moved
  <2> QED BY <2>2, <2>3 DEF n
<1>6. There' = There
  <2>1. buf' \o (sock' \o wire) = buf \o (sock \o wire)
    <3>1. /\ buf' \in Seq(Byte) /\ sock' \in Seq(Byte) /\ buf \in Seq(Byte)
          /\ sock \in Seq(Byte) /\ wire \in Seq(Byte) /\ buf' \o sock' = buf \o sock
      BY <1>3, <1>5
    <3>2. buf' \in Seq(Byte) /\ sock' \in Seq(Byte) /\ wire \in Seq(Byte)
      BY <3>1
    <3>3. (buf' \o sock') \o wire = buf' \o (sock' \o wire)
      BY ONLY <3>2, ByteAssoc
    <3>4. (buf \o sock) \o wire = buf \o (sock \o wire)
      BY <1>3, ByteAssoc
    <3> QED BY <3>1, <3>3, <3>4
  <2> QED BY <1>2, <2>1 DEF There
<1>7. Types'
  BY <1>1, <1>2, <1>5 DEF Types
<1>8. Loop'
  BY <1>1, <1>2, <1>4, <1>5 DEF Loop
<1> QED BY <1>1, <1>2, <1>6, <1>7, <1>8, StreamKept, JustifiedKept DEF IInv

\* A step that changes neither the packets nor the buffer, and fails with e.
LEMMA FailsKeeps ==
    ASSUME IInv, NEW e, e # "MQTT_OK", Fails(e), UNCHANGED <<buf, handled>>, ErrorJustified'
    PROVE  IInv'
<1>1. /\ handled \in Seq(Sendable) /\ buf \in Seq(Byte) /\ Len(buf) <= RecvSize
      /\ Len(handled) <= Len(sent) /\ handled = SubSeq(sent, 1, Len(handled))
  BY DEF IInv, Types, Loop, Stream
<1> QED BY <1>1, GivesUp

\* A read finds the connection closed.
LEMMA recvall_failsKeeps ==
    ASSUME IInv, recvall_fails
    PROVE  IInv'
<1>1. Types /\ Loop /\ Stream /\ ErrorJustified
  BY DEF IInv
<1>2. pc = "recv" /\ Fails("SOCKET_ERROR") /\ UNCHANGED <<buf, handled>>
  BY DEF recvall_fails
<1>3. closed
  <2>1. error = "MQTT_OK"
    BY <1>1, <1>2 DEF Loop
  <2>2. Len(buf) < RecvSize /\ Len(buf) \in Nat /\ RecvSize \in Nat
    BY <1>1, <1>2, <2>1, LenProperties, RecvAssumption DEF Loop, Types
  <2>3. curr_sz # 0
    BY <2>2 DEF curr_sz
  <2> QED BY <2>3 DEF recvall_fails
<1>4. ErrorJustified'
  BY <1>2, <1>3 DEF ErrorJustified, Fails
<1> QED BY <1>2, <1>4, FailsKeeps

\* The packet in the buffer is refused.
LEMMA RefuseKeeps ==
    ASSUME IInv, Refuse
    PROVE  IInv'
<1>1. Types /\ Loop /\ Stream /\ ErrorJustified
  BY DEF IInv
<1>2. /\ pc = "parse" /\ UNCHANGED <<buf, handled, sent>>
      /\ mqtt_unpack_response(buf).error # "MQTT_OK"
      /\ Fails(mqtt_unpack_response(buf).error)
  BY DEF Refuse, Parses
<1>3. error = "MQTT_OK"
  BY <1>1, <1>2 DEF Loop
<1>4. Awaits \/ Refuses \/ Reads
  BY <1>1, <1>3, Parsed
<1>5. Refuses
  BY <1>2, <1>4 DEF Awaits, Reads, Wait, Good
<1>6. mqtt_unpack_response(buf).error = "MALFORMED_RESPONSE"
  BY <1>5 DEF Refuses, Bad
<1>7. /\ NextPacket.type = PUBLISH /\ QosOf(NextPacket.flags) = 0
      /\ Len(NextPacket.topic) + Len(NextPacket.data) < 2
  <2>1. SentByBroker(NextPacket)
    BY <1>1, <1>5, ComingNext DEF Refuses
  <2>2. Len(NextPacket.topic) \in Nat /\ Len(NextPacket.data) \in Nat
    BY <2>1, LenProperties DEF SentByBroker, IsString
  <2>3. PublishSize(NextPacket) < 4
    BY <1>5 DEF Refuses
  <2>4. \/ PublishSize(NextPacket) = 2 + Len(NextPacket.topic) + 2 + Len(NextPacket.data)
        \/ PublishSize(NextPacket) = 2 + Len(NextPacket.topic) + 0 + Len(NextPacket.data)
    BY DEF PublishSize
  <2>5. Len(NextPacket.topic) + Len(NextPacket.data) < 2
    <3>1. /\ \A i, j \in Nat : 2 + i + 2 + j < 4 => i + j < 2
          /\ \A i, j \in Nat : 2 + i + 0 + j < 4 => i + j < 2
      OBVIOUS
    <3> QED BY ONLY <2>2, <2>3, <2>4, <3>1
  <2>6. QosOf(NextPacket.flags) \in Nat
    <3>1. NextPacket.flags \in Nat
      BY <2>1 DEF SentByBroker
    <3>2. \A f \in Nat : (f \div 2) % 4 \in Nat
      OBVIOUS
    <3> QED BY <3>1, <3>2 DEF QosOf
  <2>7. QosOf(NextPacket.flags) = 0
    <3>1. CASE QosOf(NextPacket.flags) > 0
      <4>1. PublishSize(NextPacket) = 2 + Len(NextPacket.topic) + 2 + Len(NextPacket.data)
        BY <3>1 DEF PublishSize
      <4>2. \A i, j \in Nat : ~(2 + i + 2 + j < 4)
        OBVIOUS
      <4> QED BY ONLY <2>2, <2>3, <4>1, <4>2
    <3> QED BY <2>6, <3>1
  <2> QED BY <1>5, <2>5, <2>7 DEF Refuses
<1>8. ErrorJustified'
  <2>1. error' = "MALFORMED_RESPONSE"
    BY <1>2, <1>6 DEF Fails
  <2>2. NextPacket' = NextPacket
    BY <1>2, ComingKept
  <2> QED BY <1>7, <2>1, <2>2 DEF ErrorJustified
<1> DEFINE e == mqtt_unpack_response(buf).error
<1>9. e # "MQTT_OK" /\ Fails(e)
  BY <1>2
<1> HIDE DEF e
<1> QED BY <1>2, <1>8, <1>9, FailsKeeps

\* The packet in the buffer is not complete: the loop ends, or the buffer is full.
LEMMA AwaitMoreKeeps ==
    ASSUME IInv, AwaitMore
    PROVE  IInv'
<1>1. Types /\ Loop /\ Stream /\ ErrorJustified
  BY DEF IInv
<1>2. /\ pc = "parse" /\ UNCHANGED <<buf, handled, sent, closed, conns>>
      /\ mqtt_unpack_response(buf) = Wait
  BY DEF AwaitMore, Parses
<1>3. error = "MQTT_OK"
  BY <1>1, <1>2 DEF Loop
<1>4. /\ buf \in Seq(Byte) /\ Len(buf) \in Nat /\ RecvSize \in Nat \ {0}
      /\ Len(buf) <= RecvSize
  BY <1>1, LenProperties, RecvAssumption DEF Types, Loop
<1>5. CASE TooSmall
  <2>1. Fails("RECV_BUFFER_TOO_SMALL")
    BY <1>5 DEF AwaitMore
  <2>2. Len(buf) = RecvSize
    BY <1>4, <1>5 DEF TooSmall, curr_sz
  <2>3. Awaits
    <3>1. Awaits \/ Refuses \/ Reads
      BY <1>1, <1>3, Parsed
    <3>2. ~Refuses
      BY <1>2 DEF Refuses, Wait, Bad
    <3>3. ~Reads
      <4> SUFFICES ASSUME Reads PROVE FALSE
        OBVIOUS
      <4>1. Len(Pack(NextPacket)) > 0 /\ Len(Pack(NextPacket)) \in Nat
        BY <1>1, ComingNext DEF Reads
      <4>2. Len(Pack(NextPacket)) = 0
        BY <1>2 DEF Reads, Wait, Good
      <4> QED BY <4>1, <4>2
    <3> QED BY <3>1, <3>2, <3>3
  <2>4. Len(handled) < Len(sent) /\ Len(buf) < Len(Pack(NextPacket))
    <3>1. buf # <<>>
      BY <1>4, <2>2, EmptySeq
    <3> QED BY <2>3, <3>1 DEF Awaits
  <2>5. Len(Pack(NextPacket)) > RecvSize
    <3>1. Len(Pack(NextPacket)) \in Nat
      BY <1>1, <2>4, ComingNext
    <3> QED BY <1>4, <2>2, <2>4, <3>1
  <2>6. ErrorJustified'
    <3>1. NextPacket' = NextPacket
      BY <1>2, ComingKept
    <3>2. error' = "RECV_BUFFER_TOO_SMALL"
      BY <2>1 DEF Fails
    <3>3. Pack(NextPacket') = Pack(NextPacket)
      BY <3>1
    <3> QED BY <2>5, <3>2, <3>3 DEF ErrorJustified
  <2> QED BY <1>2, <2>1, <2>6, FailsKeeps
<1>6. CASE ~TooSmall
  <2>1. UNCHANGED <<wire, sock, error>> /\ pc' = "rest"
    BY <1>6 DEF AwaitMore, Keeps
  <2>2. Len(buf) < RecvSize
    BY <1>4, <1>6 DEF TooSmall, curr_sz
  <2>3. Types'
    BY <1>1, <1>2, <2>1 DEF Types
  <2>4. Loop'
    BY <1>1, <1>2, <2>1, <2>2 DEF Loop
  <2>5. There' = There
    BY <1>2, <2>1 DEF There
  <2> QED BY <1>1, <1>2, <2>1, <2>3, <2>4, <2>5, StreamKept, JustifiedKept DEF IInv
<1> QED BY <1>5, <1>6

\* The packet in the buffer is handled and the rest moves to the front.
LEMMA HandlePacketKeeps ==
    ASSUME IInv, HandlePacket
    PROVE  IInv'
<1> DEFINE k == Len(handled)
           w == Pack(NextPacket)
           n == Len(w)
           x == sock \o wire
<1>1. Types /\ Loop /\ Stream /\ ErrorJustified
  BY DEF IInv
<1>2. /\ pc = "parse" /\ UNCHANGED <<sent, closed, conns>>
      /\ mqtt_unpack_response(buf).n > 0
      /\ buf' = SubSeq(buf, mqtt_unpack_response(buf).n + 1, Len(buf))
      /\ handled' = Append(handled, mqtt_unpack_response(buf).packet)
  BY DEF HandlePacket, Parses
<1>3. error = "MQTT_OK"
  BY <1>1, <1>2 DEF Loop
<1>4. Reads
  <2>1. Awaits \/ Refuses \/ Reads
    BY <1>1, <1>3, Parsed
  <2>2. mqtt_unpack_response(buf).n # 0
    BY <1>2
  <2> QED BY <2>1, <2>2 DEF Awaits, Refuses, Wait, Bad
<1>5. /\ buf' = SubSeq(buf, n + 1, Len(buf)) /\ handled' = Append(handled, NextPacket)
      /\ Len(handled) < Len(sent) /\ n <= Len(buf)
  BY <1>2, <1>4 DEF Reads, Good
<1>6. /\ Coming = w \o Rest /\ Rest \in Seq(Byte) /\ NextPacket \in Sendable
      /\ w \in Seq(Byte) /\ n \in Nat /\ n > 0
  BY <1>1, <1>5, ComingNext
<1> HIDE DEF w
<1>7. /\ k \in Nat /\ Len(sent) \in Nat /\ sent \in Seq(Sendable) /\ handled \in Seq(Sendable)
      /\ buf \in Seq(Byte) /\ Len(buf) \in Nat /\ sock \in Seq(Byte) /\ wire \in Seq(Byte)
      /\ k < Len(sent) /\ RecvSize \in Nat /\ Len(buf) <= RecvSize
      /\ handled = SubSeq(sent, 1, k)
  BY <1>1, <1>5, LenProperties, RecvAssumption DEF Types, Loop, Stream
<1>8. /\ handled' \in Seq(Sendable) /\ Len(handled') = k + 1
  BY <1>5, <1>6, <1>7, AppendProperties
<1>9. buf' \in Seq(Byte) /\ Len(buf') = Len(buf) - n
  BY <1>5, <1>6, <1>7, Dropped
<1>10. Len(buf') < RecvSize
  BY <1>5, <1>6, <1>7, <1>9
<1>11. Len(handled') <= Len(sent)
  BY <1>7, <1>8
<1>12. handled' = SubSeq(sent, 1, Len(handled'))
  <2> HIDE DEF k
  <2> DEFINE m == k + 1
  <2>1. m \in 1..Len(sent) /\ 1 \in 1..Len(sent) /\ m - 1 = k
    BY <1>7
  <2>2. SubSeq(sent, 1, m) = SubSeq(sent, 1, m - 1) \o <<sent[m]>>
    <3> HIDE DEF m
    <3> QED BY <1>7, <2>1, SubSeqRecursiveSecond
  <2>3. handled' = handled \o <<NextPacket>>
    BY <1>5, <1>6, <1>7, AppendIsConcat
  <2>4. NextPacket = sent[m]
    BY DEF NextPacket, k
  <2> QED BY <1>7, <1>8, <2>1, <2>2, <2>3, <2>4
<1>13. x \in Seq(Byte)
  BY <1>7, ConcatProperties
<1>14. CASE UNCHANGED <<wire, sock, error>> /\ pc' = "recv"
  <2>1. Types'
    BY <1>1, <1>2, <1>8, <1>9, <1>14 DEF Types
  <2>2. Loop'
    <3>1. Len(buf') <= RecvSize
      BY <1>7, <1>9, <1>10, LenProperties
    <3> QED BY <1>3, <1>10, <1>14, <3>1 DEF Loop
  <2>3. Coming' = Rest
    BY <1>2, <1>8 DEF Coming, Rest
  <2>4. There' = SubSeq(buf, n + 1, Len(buf)) \o x
    BY <1>5, <1>14 DEF There
  <2>5. At(w \o Rest, 0, buf \o x)
    BY <1>1, <1>3, <1>6 DEF Stream, There
  <2> HIDE DEF x
  <2>6. /\ At(Rest, 0, SubSeq(buf, Len(w) + 1, Len(buf)) \o x)
        /\ Len(SubSeq(buf, Len(w) + 1, Len(buf)) \o x) = Len(buf \o x) - Len(w)
        /\ Len(Rest) = Len(w \o Rest) - Len(w)
    BY <1>5, <1>6, <1>7, <1>13, <2>5, Advance
  <2>7. At(Coming', 0, There')
    BY <2>3, <2>4, <2>6
  <2>8. ~closed => Len(There') = Len(Coming')
    <3>1. ~closed => Len(There) = Len(Coming)
      BY <1>1, <1>3 DEF Stream
    <3>2. There = buf \o x
      BY DEF There, x
    <3> QED BY <1>6, <2>3, <2>4, <2>6, <3>1, <3>2
  <2>9. Stream'
    BY <1>2, <1>11, <1>12, <2>7, <2>8 DEF Stream
  <2>10. ErrorJustified'
    BY <1>3, <1>14 DEF ErrorJustified
  <2> QED BY <2>1, <2>2, <2>9, <2>10 DEF IInv
<1>15. CASE Fails("HANDLER_ERROR")
  <2>1. ErrorJustified'
    BY <1>15 DEF Fails, ErrorJustified
  <2>2. Len(buf') <= RecvSize
    BY <1>7, <1>9, <1>10, LenProperties
  <2> QED BY <1>8, <1>9, <1>11, <1>12, <1>15, <2>1, <2>2, GivesUp
<1> QED BY <1>14, <1>15 DEF HandlePacket, Keeps

\* A connection that has just been made.
Fresh ==
    /\ sent = <<>> /\ wire = <<>> /\ sock = <<>> /\ closed = FALSE /\ handled = <<>>
    /\ buf = <<>> /\ error = "MQTT_OK" /\ pc \in {"rest", "recv", "parse"} /\ conns \in Nat

\* A new connection starts from nothing.
LEMMA Started == Fresh => IInv
<1> SUFFICES ASSUME Fresh PROVE IInv
  OBVIOUS
<1> DEFINE e == <<>>
<1>1. /\ e \in Seq(Byte) /\ e \in Seq(Sendable) /\ Len(e) = 0 /\ e \o (e \o e) = e
      /\ SubSeq(e, 1, 0) = e /\ SubSeq(e, 0 + 1, 0) = e
  BY EmptySeq
<1>2. sent = e /\ wire = e /\ sock = e /\ handled = e /\ buf = e /\ PackAll(e) = e
  BY PackAllNone DEF Fresh
<1> HIDE DEF e
<1>3. Types
  BY <1>1, <1>2 DEF Types, Fresh
<1>4. Loop
  BY <1>1, <1>2, RecvAssumption DEF Loop, Fresh
<1>5. Coming = e /\ There = e
  BY <1>1, <1>2 DEF Coming, There
<1>6. Stream
  <2>1. At(e, 0, e)
    BY <1>1, PrefixSelf
  <2> QED BY <1>1, <1>2, <1>5, <2>1 DEF Stream
<1>7. ErrorJustified
  BY DEF Fresh, ErrorJustified
<1> QED BY <1>3, <1>4, <1>6, <1>7 DEF IInv

\* The client connects anew.
LEMMA ReconnectKeeps ==
    ASSUME IInv, Reconnect
    PROVE  IInv'
<1>1. Types /\ Loop
  BY DEF IInv
<1>2. /\ error # "MQTT_OK" /\ conns' = conns + 1 /\ buf' = <<>> /\ error' = "MQTT_OK"
      /\ sent' = <<>> /\ wire' = <<>> /\ sock' = <<>> /\ closed' = FALSE
      /\ handled' = <<>> /\ pc' = pc
  BY DEF Reconnect, mqtt_init
<1>3. Fresh'
  BY <1>1, <1>2 DEF Fresh, Types
<1>4. Fresh' => IInv'
  BY Started, PTL
<1> QED BY <1>3, <1>4

\* The invariant holds at the start.
LEMMA InitKeeps == Init => IInv
<1>1. Init => Fresh
  BY DEF Init, Fresh
<1> QED BY <1>1, Started

\* Every step keeps the invariant.
LEMMA NextKeeps == IInv /\ [Next]_vars => IInv'
<1> SUFFICES ASSUME IInv, [Next]_vars PROVE IInv'
  OBVIOUS
<1>1. CASE Next
  <2>1. __mqtt_recv => IInv'
    BY recvallKeeps, recvall_failsKeeps, RefuseKeeps, AwaitMoreKeeps, HandlePacketKeeps
       DEF __mqtt_recv
  <2> QED BY <1>1, <2>1, BrokerSendsKeeps, ArriveKeeps, CloseKeeps, SyncStartKeeps,
             ReconnectKeeps DEF Next, Network
<1>2. CASE UNCHANGED vars
  BY <1>2 DEF vars, IInv, Types, Loop, Stream, ErrorJustified, Coming, There, NextPacket
<1> QED BY <1>1, <1>2

\* The invariant gives the two properties.
LEMMA StreamInStep == IInv => InStep
<1> SUFFICES ASSUME IInv PROVE InStep
  OBVIOUS
<1>1. Types /\ Loop /\ Stream
  BY DEF IInv
<1>2. CASE error = "MQTT_OK"
  <2>1. Coming \in Seq(Byte) /\ There \in Seq(Byte) /\ At(Coming, 0, There)
    BY <1>1, <1>2, ComingType, ThereType DEF Stream
  <2>2. (buf \o sock) \o wire = There
    BY <1>1, ByteAssoc DEF Types, There
  <2>3. CASE closed
    <3>1. IsPrefix(There, Coming)
      BY <2>1, PrefixIs
    <3> QED BY <1>1, <2>2, <2>3, <3>1 DEF InStep, Loop, Stream, Coming
  <2>4. CASE ~closed
    <3>1. There = Coming
      BY <1>1, <1>2, <2>1, <2>4, PrefixEqual DEF Stream
    <3> QED BY <1>1, <2>2, <2>4, <3>1 DEF InStep, Loop, Stream, Coming
  <2> QED BY <2>3, <2>4
<1>3. CASE error # "MQTT_OK"
  BY <1>1, <1>3 DEF InStep, Loop, Stream
<1> QED BY <1>2, <1>3

\* The inductive invariant: the bytes in the buffer, in the socket and on the wire are
\* always the front of the packets that were sent and are not handled yet, and __mqtt_recv
\* stops with an error or has room to read.
THEOREM RecvInductive == Spec => []IInv
  BY InitKeeps, NextKeeps, PTL DEF Spec

\* __mqtt_recv hands over exactly the packets the broker has sent, in order and whole,
\* however the network cuts them.
THEOREM HandedOverInStep == Spec => []InStep
<1>1. Spec => []IInv
  BY RecvInductive
<1> QED BY <1>1, StreamInStep, PTL

\* __mqtt_recv gives up for a reason only: the connection is closed, the next packet does not
\* fit in the buffer, or it is a PUBLISH of less than four bytes.
THEOREM ErrorsJustified == Spec => []ErrorJustified
<1>1. IInv => ErrorJustified
  BY DEF IInv
<1> QED BY <1>1, RecvInductive, PTL
=============================================================================
