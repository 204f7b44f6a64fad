-------------------------- MODULE MqttClientProofs --------------------------
(***************************************************************************)
(* Proofs about one client and its broker, for every size of the buffer and *)
(* of the channels, every number of packet identifiers (they may wrap), any *)
(* timeout, and any number of connections: the callback sees a QoS 2        *)
(* message once, and messages of one QoS reach the broker in order; where   *)
(* messages get unused identifiers, a QoS 2 message is accepted once and no *)
(* message is given up unanswered.                                          *)
(***************************************************************************)
EXTENDS MqttClient, FiniteSetTheorems, SequenceTheorems, WellFoundedInduction, TLAPS

Message  == [type : Types, pid : 0..NPid, qos : QoS, id : Nat, dup : BOOLEAN,
             state : States, age : 0..(ResponseTimeout + 1)]
ToBroker == [type : Types, pid : 0..NPid, qos : QoS, id : Nat, dup : BOOLEAN]
ToClient == [type : {"CONNACK", "SUBACK", "UNSUBACK", "PINGRESP", "PUBLISH", "PUBACK",
                     "PUBREC", "PUBREL", "PUBCOMP"},
             pid : 0..NPid, ok : BOOLEAN, qos : QoS, id : Nat]
Push     == [id : Nat, qos : QoS, rel : BOOLEAN, pid : Pids]
Place    == [at : {"rest", "recv", "send", "failed"}, i : 0..(QueueCap + 1), qos2 : BOOLEAN]
Session  == [seen2 : SUBSET (0..NPid), out : SUBSET Push, resends : Nat,
             up : {"new", "accepted", "refused"}]

\* The state of the client and what surrounds it has the shape that its steps rely on.
QueueShape  == queue \in Seq(Message) /\ Len(queue) <= QueueCap
ClientShape == /\ error \in Errors /\ lfsr \in 0..NPid /\ idle \in 0..(KeepAlive + 1)
               /\ pc \in Place /\ (pc.at = "send" => pc.i >= 1)
NetShape    == /\ c2b \in Seq(ToBroker) /\ Len(c2b) <= plan.chan
               /\ b2c \in Seq(ToClient) /\ Len(b2c) <= plan.chan
               /\ link \in BOOLEAN /\ conns \in 1..MaxConn
BrokerShape == broker \in Session /\ plan \in Plans
HistShape   == /\ staged \in Seq(QoS) /\ pushed \in Seq(QoS)
               /\ delivered \in Seq(Nat) /\ called \in Seq(Nat)

Shape == QueueShape /\ ClientShape /\ NetShape /\ BrokerShape /\ HistShape

-----------------------------------------------------------------------------
(* Why the callback sees a QoS 2 message once.                              *)

IsPub(p, k)   == p.type = "PUBLISH" /\ p.id = k
IsRel(p, pid) == p.type = "PUBREL" /\ p.pid = pid
Member(s, x)  == \E i \in DOMAIN s : s[i] = x

\* A PUBREC that the broker has not released.
Rec(m, pid)  == m.type = "PUBREC" /\ m.pid = pid
Open(q, pid) == \E i \in DOMAIN q : Rec(q[i], pid) /\ q[i].state # "COMPLETE"

\* One PUBREC per identifier: __mqtt_recv looks for it before it adds another.
OneRec(q) == \A i, j \in DOMAIN q :
    q[i].type = "PUBREC" /\ q[j].type = "PUBREC" /\ q[i].pid = q[j].pid => i = j

\* What the broker pushes has the QoS of its number ...
Numbered(b, out, ps, cl) ==
    /\ \A i \in DOMAIN b : b[i].type = "PUBLISH" =>
          b[i].id \in DOMAIN ps /\ b[i].qos = ps[b[i].id]
    /\ \A o \in out : o.id \in DOMAIN ps /\ o.qos = ps[o.id] /\ o.qos > 0
    /\ \A i \in DOMAIN cl : cl[i] \in DOMAIN ps

\* ... and keeps its identifier, which no other open message has.
Identified(b, out) ==
    /\ \A o, u \in out : o.id = u.id \/ o.pid = u.pid => o = u
    /\ \A o \in out, i \in DOMAIN b : IsPub(b[i], o.id) => b[i].pid = o.pid
    /\ \A i, j \in DOMAIN b :
          IsPub(b[i], b[j].id) /\ IsPub(b[j], b[j].id) => b[i].pid = b[j].pid

\* A PUBREL never stands between two copies of a PUBLISH of its identifier, nor
\* behind one that the broker may still transmit again.
RelAfterPubs(b, out) ==
    /\ \A i, m, j \in DOMAIN b :
          i < m /\ m < j /\ IsPub(b[i], b[j].id) /\ IsPub(b[j], b[j].id)
             => ~IsRel(b[m], b[j].pid)
    /\ \A o \in out, i, m \in DOMAIN b :
          ~o.rel /\ i < m /\ IsPub(b[i], o.id) => ~IsRel(b[m], o.pid)

\* As long as another copy of a message that was called may come, its PUBREC is
\* in the queue and no PUBREL comes before the copy.
Guarded(q, b, out, cl) ==
    /\ \A j \in DOMAIN b :
          b[j].type = "PUBLISH" /\ b[j].qos = 2 /\ Member(cl, b[j].id) =>
             /\ Open(q, b[j].pid)
             /\ \A m \in DOMAIN b : m < j => ~IsRel(b[m], b[j].pid)
    /\ \A o \in out :
          o.qos = 2 /\ ~o.rel /\ Member(cl, o.id) =>
             /\ Open(q, o.pid)
             /\ \A m \in DOMAIN b : ~IsRel(b[m], o.pid)

\* CalledAtMostOnce without counting.
NoRepeat(cl, ps) == \A i, j \in DOMAIN cl :
    cl[i] = cl[j] /\ ps[cl[i]] = 2 => i = j

CallOK(q, b, out, ps, cl) ==
    /\ OneRec(q) /\ Numbered(b, out, ps, cl) /\ Identified(b, out)
    /\ RelAfterPubs(b, out) /\ Guarded(q, b, out, cl) /\ NoRepeat(cl, ps)

CallInv == CallOK(queue, b2c, broker.out, pushed, called)

-----------------------------------------------------------------------------
(* Why the messages of one QoS arrive in order.                             *)

IsPublish(m) == m.type = "PUBLISH"

\* Messages are queued in the order they were staged.
QueueInOrder(q, st) ==
    /\ \A i \in DOMAIN q : IsPublish(q[i]) =>
          q[i].id \in DOMAIN st /\ q[i].qos = st[q[i].id]
    /\ \A i, j \in DOMAIN q : i < j /\ IsPublish(q[i]) /\ IsPublish(q[j]) => q[i].id < q[j].id

\* Message k has reached the broker or is on its way.
Under(k, c, dl) == Member(dl, k) \/ \E h \in DOMAIN c : IsPub(c[h], k)

\* A younger message is sent only when this one, of the same QoS, was sent (QoS 0
\* and 1) or is complete (QoS 2).  QoS 0 is complete when it is sent.
Passed(m, st, c, dl) ==
    /\ \A k \in DOMAIN st :
          k > m.id /\ st[k] = m.qos /\ Under(k, c, dl) =>
             m.state # "UNSENT" /\ (m.qos = 2 => m.state = "COMPLETE")
    /\ m.qos = 0 => m.state # "AWAITING_ACK"

SentInOrder(q, st, c, dl) ==
    \A i \in DOMAIN q : IsPublish(q[i]) => Passed(q[i], st, c, dl)

\* A QoS 1 message that waits for its answer was sent in this connection.
Awaited(q, c, dl) == \A i \in DOMAIN q :
    IsPublish(q[i]) /\ q[i].qos = 1 /\ q[i].state = "AWAITING_ACK" => Under(q[i].id, c, dl)

\* Packets and deliveries are staged messages.
Known(st, c, dl) ==
    /\ \A i \in DOMAIN c : IsPublish(c[i]) =>
          c[i].id \in DOMAIN st /\ c[i].qos = st[c[i].id]
    /\ \A i \in DOMAIN dl : dl[i] \in DOMAIN st

\* An older message behind a younger one is a copy of one that was before it.
WireInOrder(st, c, dl) ==
    /\ \A i, j \in DOMAIN c :
          i < j /\ IsPublish(c[i]) /\ IsPublish(c[j]) /\ c[i].qos = c[j].qos
            /\ c[i].id > c[j].id
          => c[j].qos = 1 /\ (Member(dl, c[j].id)
                              \/ \E h \in DOMAIN c : h < i /\ IsPub(c[h], c[j].id))
    /\ \A i \in DOMAIN dl, j \in DOMAIN c :
          IsPublish(c[j]) /\ st[dl[i]] = c[j].qos /\ dl[i] > c[j].id
          => c[j].qos = 1 /\ Member(dl, c[j].id)

\* OrderedPerQoS for the deliveries dl.
Ordered(st, dl) == \A i, j \in DOMAIN dl : i < j /\ st[dl[i]] = st[dl[j]] => dl[i] <= dl[j]

\* What the walk of __mqtt_send has passed.
Walked(q, n)    == \A i \in DOMAIN q : i < n /\ IsPublish(q[i]) /\ q[i].qos # 2 =>
                       q[i].state # "UNSENT"
WalkedTwo(q, n) == \A i \in DOMAIN q : i < n /\ IsPublish(q[i]) /\ q[i].qos = 2 =>
                       q[i].state = "COMPLETE"

Walk == pc.at = "send" => Walked(queue, pc.i) /\ (~pc.qos2 => WalkedTwo(queue, pc.i))

OrderOK(q, st, c, dl) ==
    /\ QueueInOrder(q, st) /\ SentInOrder(q, st, c, dl)
    /\ Known(st, c, dl) /\ WireInOrder(st, c, dl) /\ Ordered(st, dl)

OrderInv == /\ OrderOK(queue, staged, c2b, delivered)
            /\ link => Awaited(queue, c2b, delivered)
            /\ Walk

IInv == Shape /\ CallInv /\ OrderInv

-----------------------------------------------------------------------------
(* The queue.                                                               *)

\* The fields of a message that never change.
Same(m, n) == n.type = m.type /\ n.pid = m.pid /\ n.qos = m.qos /\ n.id = m.id

\* r is q without its d oldest messages and with ms at the end.
Moved(q, r, d, ms) ==
    /\ d \in 0..Len(q) /\ Len(r) = Len(q) - d + Len(ms)
    /\ \A i \in 1..(Len(q) - d) : Same(q[d + i], r[i])
    /\ \A i \in 1..Len(ms) : r[Len(q) - d + i] = ms[i]

\* What was dropped was COMPLETE, and no message but those of C changed its state.
Forward(q, r, d, C) ==
    /\ \A i \in 1..d : i \in C \/ q[i].state = "COMPLETE"
    /\ \A i \in 1..(Len(q) - d) :
          IF d + i \in C THEN r[i].state = "COMPLETE" ELSE r[i].state = q[d + i].state

\* A step on queue q inside its buffer.
QStep(q, r, C, ms) ==
    /\ r \in Seq(Message) /\ Len(r) <= QueueCap
    /\ \E d \in 0..Len(q) : Moved(q, r, d, ms) /\ Forward(q, r, d, C)

\* Every set of natural numbers has a least one (the oldest message found).
LEMMA LeastExists ==
    ASSUME NEW T, T \subseteq Nat, T # {}
    PROVE  \E k \in T : \A j \in T : k <= j
<1>1. PICK k \in T : \A j \in T : ~(<<j, k>> \in OpToRel(<, Nat))
  BY WFMin, NatLessThanWellFounded
<1>2. \A j \in T : ~(j < k)
  BY <1>1 DEF OpToRel
<1> QED BY <1>2

\* A new record is a message.
LEMMA NewMessage ==
    ASSUME NEW t \in Types, NEW p \in 0..NPid, NEW s \in QoS, NEW k \in Nat
    PROVE  /\ Msg(t, p, s, k) \in Message
           /\ Msg(t, p, s, k).type = t /\ Msg(t, p, s, k).pid = p
           /\ Msg(t, p, s, k).qos = s /\ Msg(t, p, s, k).id = k
           /\ Msg(t, p, s, k).state = "UNSENT"
<1>1. ResponseTimeout \in Nat
  BY ClientAssumption
<1> QED BY <1>1 DEF Msg, Message, States

\* The fields of a message.
LEMMA MessageFields ==
    ASSUME NEW m \in Message
    PROVE  /\ m.type \in Types /\ m.pid \in 0..NPid /\ m.qos \in QoS /\ m.id \in Nat
           /\ m.dup \in BOOLEAN /\ m.state \in States
BY DEF Message

\* A queue that does not change.
LEMMA NoStep ==
    ASSUME NEW q \in Seq(Message), Len(q) <= QueueCap
    PROVE  QStep(q, q, {}, <<>>)
<1>1. Len(q) \in Nat
  BY LenProperties
<1>2. Moved(q, q, 0, <<>>) /\ Forward(q, q, 0, {})
  BY <1>1 DEF Moved, Forward, Same
<1> QED BY <1>1, <1>2 DEF QStep

\* mqtt_mq_clean drops the oldest messages, all of them COMPLETE.
LEMMA CleanSteps ==
    ASSUME NEW q \in Seq(Message), Len(q) <= QueueCap
    PROVE  QStep(q, mqtt_mq_clean(q), {}, <<>>)
<1> DEFINE waits == {i \in 1..Len(q) : q[i].state # "COMPLETE"}
           keep  == {i \in DOMAIN q : \E j \in 1..i : q[j].state # "COMPLETE"}
<1>1. Len(q) \in Nat /\ DOMAIN q = 1..Len(q)
  BY LenProperties
<1>2. \E d \in 0..Len(q) : keep = (d + 1)..Len(q) /\ \A i \in 1..d : q[i].state = "COMPLETE"
  <2>1. CASE waits = {}
    <3>1. \A i \in 1..Len(q) : q[i].state = "COMPLETE"
      BY <2>1
    <3>2. keep = {}
      BY <3>1, <1>1
    <3>3. (Len(q) + 1)..Len(q) = {}
      BY <1>1
    <3> QED BY <3>1, <3>2, <3>3, <1>1
  <2>2. CASE waits # {}
    <3>1. PICK k \in waits : \A j \in waits : k <= j
      <4>1. waits \subseteq Nat
        BY <1>1
      <4> QED BY <2>2, <4>1, LeastExists
    <3>2. k \in 1..Len(q) /\ q[k].state # "COMPLETE"
      OBVIOUS
    <3>3. \A i \in 1..(k - 1) : q[i].state = "COMPLETE"
      BY <3>1, <3>2, <1>1
    <3>4. ASSUME NEW i \in 1..Len(q) PROVE i \in keep <=> k <= i
      <4>1. i \in keep <=> \E j \in 1..i : q[j].state # "COMPLETE"
        BY <1>1
      <4>2. CASE k <= i
        BY <4>1, <4>2, <3>2, <1>1
      <4>3. CASE i < k
        BY <4>1, <4>3, <3>2, <3>3, <1>1
      <4> QED BY <4>2, <4>3, <3>2, <1>1
    <3>5. keep = ((k - 1) + 1)..Len(q)
      BY <3>4, <3>2, <1>1
    <3>6. k - 1 \in 0..Len(q)
      BY <3>2, <1>1
    <3> HIDE DEF keep
    <3> QED BY <3>3, <3>5, <3>6
  <2> QED BY <2>1, <2>2
<1>3. PICK d \in 0..Len(q) :
        keep = (d + 1)..Len(q) /\ \A i \in 1..d : q[i].state = "COMPLETE"
  BY <1>2
<1> HIDE DEF keep
<1>4. Cardinality(keep) = Len(q) - d
  <2>1. d + 1 \in Int /\ Len(q) \in Int
    BY <1>1
  <2>2. Cardinality((d + 1)..Len(q)) = IF d + 1 > Len(q) THEN 0 ELSE Len(q) - (d + 1) + 1
    BY <2>1, FS_Interval
  <2> QED BY <2>2, <1>1, <1>3
<1>5. mqtt_mq_clean(q) = SubSeq(q, d + 1, Len(q))
  <2>1. mqtt_mq_clean(q) = SubSeq(q, Len(q) - Cardinality(keep) + 1, Len(q))
    BY DEF mqtt_mq_clean, keep
  <2>2. Len(q) - Cardinality(keep) + 1 = d + 1
    BY <1>4, <1>1
  <2> QED BY <2>1, <2>2
<1> DEFINE r == SubSeq(q, d + 1, Len(q))
<1>6. /\ r \in Seq(Message)
      /\ Len(r) = Len(q) - d
      /\ \A i \in 1..(Len(q) - d) : r[i] = q[d + i]
  <2>1. d + 1 \in Int /\ Len(q) \in Int
    BY <1>1
  <2>2. \A i \in (d + 1)..Len(q) : q[i] \in Message
    BY <1>1, ElementOfSeq
  <2>3. /\ r \in Seq(Message)
        /\ Len(r) = IF d + 1 <= Len(q) THEN Len(q) - (d + 1) + 1 ELSE 0
        /\ \A i \in 1..(Len(q) - (d + 1) + 1) : r[i] = q[(d + 1) + i - 1]
    BY <2>1, <2>2, SubSeqProperties
  <2> HIDE DEF r
  <2>4. Len(r) = Len(q) - d
    <3>1. Len(r) = IF d + 1 <= Len(q) THEN Len(q) - (d + 1) + 1 ELSE 0
      BY <2>3
    <3>2. Len(q) \in Nat /\ d \in 0..Len(q)
      BY <1>1
    <3> QED BY <3>1, <3>2
  <2>5. ASSUME NEW i \in 1..(Len(q) - d) PROVE r[i] = q[d + i]
    <3>1. i \in 1..(Len(q) - (d + 1) + 1) /\ (d + 1) + i - 1 = d + i
      BY <1>1
    <3> QED BY <3>1, <2>3
  <2> QED BY <2>3, <2>4, <2>5
<1> HIDE DEF r
<1>7. Moved(q, r, d, <<>>)
  BY <1>1, <1>6 DEF Moved, Same
<1>8. Forward(q, r, d, {})
  BY <1>1, <1>3, <1>6 DEF Forward
<1>9. Len(r) <= QueueCap
  BY <1>1, <1>6, ClientAssumption
<1>10. mqtt_mq_clean(q) = r
  BY <1>5 DEF r
<1> QED BY <1>6, <1>7, <1>8, <1>9, <1>10 DEF QStep

\* A step that drops, then a message behind the rest.
LEMMA AppendSteps ==
    ASSUME NEW q \in Seq(Message), NEW c \in Seq(Message), NEW C, NEW m \in Message,
           QStep(q, c, C, <<>>), Len(c) < QueueCap
    PROVE  QStep(q, Append(c, m), C, <<m>>)
<1> DEFINE r == Append(c, m)
<1>1. Len(q) \in Nat /\ Len(c) \in Nat
  BY LenProperties
<1>2. PICK d \in 0..Len(q) : Moved(q, c, d, <<>>) /\ Forward(q, c, d, C)
  BY DEF QStep
<1>3. Len(c) = Len(q) - d /\ \A i \in 1..(Len(q) - d) : Same(q[d + i], c[i])
  BY <1>2, <1>1 DEF Moved
<1>4. /\ r \in Seq(Message) /\ Len(r) = Len(c) + 1
      /\ \A i \in 1..Len(c) : r[i] = c[i]
      /\ r[Len(c) + 1] = m
  BY AppendProperties
<1> HIDE DEF r
<1>5. Moved(q, r, d, <<m>>)
  BY <1>1, <1>3, <1>4 DEF Moved
<1>6. Forward(q, r, d, C)
  BY <1>1, <1>2, <1>3, <1>4 DEF Forward
<1>7. Len(r) <= QueueCap
  BY <1>1, <1>4, ClientAssumption
<1>8. QStep(q, r, C, <<m>>)
  BY <1>4, <1>5, <1>6, <1>7 DEF QStep
<1> QED BY <1>8 DEF r

\* MQTT_CLIENT_TRY_PACK puts the message behind the others, or reports a full
\* buffer; either way it may have dropped COMPLETE messages.
LEMMA TryPackSteps ==
    ASSUME NEW q \in Seq(Message), Len(q) <= QueueCap, NEW m \in Message
    PROVE  LET r == TryPack(q, m) IN
           \/ r.error = "OK" /\ QStep(q, r.queue, {}, <<m>>)
           \/ r.error = "SEND_BUFFER_IS_FULL" /\ QStep(q, r.queue, {}, <<>>)
<1> DEFINE c == IF Len(q) < QueueCap THEN q ELSE mqtt_mq_clean(q)
<1>1. QStep(q, c, {}, <<>>)
  BY NoStep, CleanSteps
<1>2. c \in Seq(Message)
  BY <1>1 DEF QStep
<1>3. TryPack(q, m) = IF Len(c) < QueueCap THEN [queue |-> Append(c, m), error |-> "OK"]
                      ELSE [queue |-> c, error |-> "SEND_BUFFER_IS_FULL"]
  BY DEF TryPack
<1> HIDE DEF c
<1>4. CASE Len(c) < QueueCap
  <2>1. QStep(q, Append(c, m), {}, <<m>>)
    BY <1>1, <1>2, <1>4, AppendSteps
  <2> QED BY <2>1, <1>3, <1>4
<1>5. CASE ~(Len(c) < QueueCap)
  BY <1>1, <1>3, <1>5
<1> QED BY <1>4, <1>5

\* An answer completes its message.
LEMMA CompleteSteps ==
    ASSUME NEW q \in Seq(Message), Len(q) <= QueueCap, NEW i \in 1..Len(q)
    PROVE  QStep(q, Complete(q, i), {i}, <<>>)
<1> DEFINE n == [q[i] EXCEPT !.state = "COMPLETE"]
           r == [q EXCEPT ![i] = n]
<1>1. Len(q) \in Nat /\ DOMAIN q = 1..Len(q) /\ q[i] \in Message
  BY LenProperties, ElementOfSeq
<1>2. n \in Message /\ n.state = "COMPLETE" /\ Same(q[i], n)
  BY <1>1 DEF Message, States, Same
<1>3. Complete(q, i) = r
  BY DEF Complete
<1> HIDE DEF n
<1>4. /\ r \in Seq(Message) /\ Len(r) = Len(q)
      /\ \A j \in 1..Len(q) : r[j] = IF j = i THEN n ELSE q[j]
  BY <1>2, ExceptSeq
<1> HIDE DEF r
<1>5. Moved(q, r, 0, <<>>)
  BY <1>1, <1>2, <1>4 DEF Moved, Same
<1>6. Forward(q, r, 0, {i})
  BY <1>1, <1>2, <1>4 DEF Forward
<1> QED BY <1>1, <1>3, <1>4, <1>5, <1>6 DEF QStep

\* A message is completed, then another one is staged.
LEMMA ComposeSteps ==
    ASSUME NEW q \in Seq(Message), NEW p \in Seq(Message), NEW r, NEW i \in 1..Len(q),
           NEW ms \in Seq(Message),
           QStep(q, p, {i}, <<>>), Len(p) = Len(q), QStep(p, r, {}, ms)
    PROVE  QStep(q, r, {i}, ms)
<1>1. Len(q) \in Nat /\ Len(p) \in Nat /\ Len(ms) \in Nat
  BY LenProperties
<1>2. PICK e \in 0..Len(q) : Moved(q, p, e, <<>>) /\ Forward(q, p, e, {i})
  BY DEF QStep
<1>3. e = 0
  BY <1>1, <1>2 DEF Moved
<1>4. \A j \in 1..Len(q) : Same(q[j], p[j])
                           /\ IF j = i THEN p[j].state = "COMPLETE" ELSE p[j].state = q[j].state
  BY <1>1, <1>2, <1>3 DEF Moved, Forward
<1>5. PICK d \in 0..Len(p) : Moved(p, r, d, ms) /\ Forward(p, r, d, {})
  BY DEF QStep
<1>6. Moved(q, r, d, ms)
  <2>1. \A j \in 1..(Len(q) - d) : d + j \in 1..Len(q)
    BY <1>1
  <2>2. ASSUME NEW j \in 1..(Len(q) - d) PROVE Same(q[d + j], r[j])
    BY <2>1, <1>1, <1>4, <1>5 DEF Moved, Same
  <2> QED BY <2>2, <1>1, <1>5 DEF Moved
<1>7. Forward(q, r, d, {i})
  <2>1. ASSUME NEW j \in 1..d PROVE j \in {i} \/ q[j].state = "COMPLETE"
    <3>1. j \in 1..Len(q) /\ p[j].state = "COMPLETE"
      BY <1>1, <1>5 DEF Forward
    <3> QED BY <3>1, <1>4
  <2>2. ASSUME NEW j \in 1..(Len(q) - d)
        PROVE  IF d + j \in {i} THEN r[j].state = "COMPLETE" ELSE r[j].state = q[d + j].state
    <3>1. d + j \in 1..Len(q) /\ r[j].state = p[d + j].state
      BY <1>1, <1>5 DEF Forward
    <3> QED BY <3>1, <1>4
  <2> QED BY <2>1, <2>2 DEF Forward
<1>8. r \in Seq(Message) /\ Len(r) <= QueueCap
  BY DEF QStep
<1> QED BY <1>1, <1>5, <1>6, <1>7, <1>8 DEF QStep

-----------------------------------------------------------------------------
(* A QoS 2 message is called once: the steps of the queue and of the packets. *)

\* The identifiers whose PUBREC is open stay open, but for those of X.
RecKept(q, r, X) == OneRec(r) /\ \A pid : Open(q, pid) /\ pid \notin X => Open(r, pid)

\* t is b without its first packet, or with packet x at the end.
Behind(b, t)   == /\ Len(b) >= 1 /\ Len(t) = Len(b) - 1
                  /\ \A i \in 1..Len(t) : t[i] = b[i + 1]
Added(b, x, t) == /\ Len(t) = Len(b) + 1 /\ t[Len(b) + 1] = x
                  /\ \A i \in 1..Len(b) : t[i] = b[i]

\* A PUBREC is forgotten only when it is COMPLETE.
LEMMA StepKeepsOpen ==
    ASSUME NEW q \in Seq(Message), NEW r, NEW C, NEW ms \in Seq(Message), NEW pid,
           QStep(q, r, C, ms), Open(q, pid),
           \A i \in C : i \in 1..Len(q) => ~Rec(q[i], pid)
    PROVE  Open(r, pid)
<1>1. Len(q) \in Nat /\ DOMAIN q = 1..Len(q) /\ Len(ms) \in Nat
  BY LenProperties
<1>2. PICK d \in 0..Len(q) : Moved(q, r, d, ms) /\ Forward(q, r, d, C)
  BY DEF QStep
<1>3. r \in Seq(Message) /\ DOMAIN r = 1..Len(r)
  BY LenProperties DEF QStep
<1>4. PICK i \in 1..Len(q) : Rec(q[i], pid) /\ q[i].state # "COMPLETE"
  BY <1>1 DEF Open
<1>5. i \notin C
  BY <1>4
<1>6. i > d
  BY <1>1, <1>2, <1>4, <1>5 DEF Forward
<1> DEFINE j == i - d
<1>7. j \in 1..(Len(q) - d) /\ d + j = i
  BY <1>1, <1>2, <1>4, <1>6
<1>8. Same(q[i], r[j]) /\ r[j].state = q[i].state
  BY <1>2, <1>5, <1>7 DEF Moved, Forward
<1>9. j \in DOMAIN r
  BY <1>1, <1>2, <1>3, <1>7 DEF Moved
<1> QED BY <1>4, <1>8, <1>9 DEF Open, Same, Rec

\* A new record does not repeat a PUBREC.
LEMMA StepKeepsOneRec ==
    ASSUME NEW q \in Seq(Message), NEW r, NEW C, NEW ms \in Seq(Message),
           QStep(q, r, C, ms), OneRec(q), Len(ms) \in {0, 1},
           \A k \in 1..Len(ms), i \in 1..Len(q) :
               ms[k].type = "PUBREC" => ~Rec(q[i], ms[k].pid)
    PROVE  OneRec(r)
<1>1. Len(q) \in Nat /\ DOMAIN q = 1..Len(q) /\ Len(ms) \in Nat
  BY LenProperties
<1>2. PICK d \in 0..Len(q) : Moved(q, r, d, ms) /\ Forward(q, r, d, C)
  BY DEF QStep
<1>3. r \in Seq(Message) /\ DOMAIN r = 1..Len(r)
  BY LenProperties DEF QStep
<1> DEFINE n == Len(q) - d
<1>4. n \in Nat /\ Len(r) = n + Len(ms)
  BY <1>1, <1>2 DEF Moved
<1>5. \A i \in 1..n : d + i \in 1..Len(q) /\ Same(q[d + i], r[i])
  BY <1>1, <1>2 DEF Moved
<1>6. \A i \in 1..Len(ms) : r[n + i] = ms[i]
  BY <1>2 DEF Moved
<1> HIDE DEF n
<1>7. \A i \in DOMAIN r : i \in 1..n \/ (i = n + 1 /\ Len(ms) = 1)
  <2>1. Len(ms) = 0 \/ Len(ms) = 1
    OBVIOUS
  <2>2. DOMAIN r = 1..(n + Len(ms))
    BY <1>3, <1>4
  <2>3. n \in Nat
    BY <1>4
  <2>4. CASE Len(ms) = 0
    BY <2>2, <2>3, <2>4
  <2>5. CASE Len(ms) = 1
    BY <2>2, <2>3, <2>5
  <2> QED BY <2>1, <2>4, <2>5
<1>8. ASSUME NEW i \in 1..n, Len(ms) = 1, r[i].type = "PUBREC", r[n + 1].type = "PUBREC"
      PROVE  r[i].pid # r[n + 1].pid
  <2>1. 1 \in 1..Len(ms) /\ r[n + 1] = ms[1]
    BY <1>8, <1>6
  <2>2. ~Rec(q[d + i], ms[1].pid) /\ Same(q[d + i], r[i])
    BY <1>8, <2>1, <1>5
  <2> QED BY <1>8, <2>1, <2>2 DEF Same, Rec
<1>9. ASSUME NEW i \in 1..n, NEW j \in 1..n,
             r[i].type = "PUBREC", r[j].type = "PUBREC", r[i].pid = r[j].pid
      PROVE  i = j
  <2>1. /\ q[d + i].type = "PUBREC" /\ q[d + j].type = "PUBREC"
        /\ q[d + i].pid = q[d + j].pid
    BY <1>9, <1>5 DEF Same
  <2>2. d + i = d + j
    BY <2>1, <1>1, <1>5 DEF OneRec
  <2>3. i \in Int /\ j \in Int /\ d \in Int
    BY <1>1, <1>2, <1>4
  <2> QED BY <2>2, <2>3
<1> QED BY <1>7, <1>8, <1>9 DEF OneRec

\* A step completes no PUBREC but those of X, and adds at most one message, which is
\* not a PUBREC that is there already.
Fresh(q, C, ms, X) ==
    /\ ms \in Seq(Message) /\ Len(ms) \in {0, 1}
    /\ Len(ms) = 1 /\ ms[1].type = "PUBREC" => \A i \in 1..Len(q) : ~Rec(q[i], ms[1].pid)
    /\ \A i \in C : i \in 1..Len(q) /\ q[i].type = "PUBREC" => q[i].pid \in X

\* A step of the queue that completes no PUBREC but those of X.
LEMMA StepKeepsRec ==
    ASSUME NEW q \in Seq(Message), NEW r, NEW C, NEW ms, NEW X,
           QStep(q, r, C, ms), OneRec(q), Fresh(q, C, ms, X)
    PROVE  RecKept(q, r, X)
<1>1. OneRec(r)
  <2>1. ms \in Seq(Message) /\ Len(ms) \in {0, 1}
    BY DEF Fresh
  <2>2. \A k \in 1..Len(ms) : k = 1 /\ Len(ms) = 1
    <3>1. CASE Len(ms) = 0
      BY <3>1
    <3>2. CASE Len(ms) = 1
      BY <3>2
    <3> QED BY <2>1, <3>1, <3>2
  <2>3. \A k \in 1..Len(ms), i \in 1..Len(q) :
           ms[k].type = "PUBREC" => ~Rec(q[i], ms[k].pid)
    BY <2>2 DEF Fresh
  <2> QED BY <2>1, <2>3, StepKeepsOneRec
<1>2. ASSUME NEW pid, Open(q, pid), pid \notin X PROVE Open(r, pid)
  <2>1. \A i \in C : i \in 1..Len(q) => ~Rec(q[i], pid)
    BY <1>2 DEF Rec, Fresh
  <2>2. ms \in Seq(Message)
    BY DEF Fresh
  <2> QED BY <2>1, <2>2, <1>2, StepKeepsOpen
<1> QED BY <1>1, <1>2 DEF RecKept

\* The queue moves, the packets stay.
LEMMA CallLocal ==
    ASSUME NEW q, NEW r, NEW b, NEW out, NEW ps, NEW cl,
           CallOK(q, b, out, ps, cl), RecKept(q, r, {})
    PROVE  CallOK(r, b, out, ps, cl)
BY DEF CallOK, RecKept, Guarded

\* A packet is received and nothing is called.
LEMMA CallReceived ==
    ASSUME NEW q, NEW r, NEW b \in Seq(ToClient), NEW t \in Seq(ToClient), NEW out,
           NEW ps, NEW cl, NEW X,
           Behind(b, t), CallOK(q, b, out, ps, cl),
           RecKept(q, r, X), \A pid \in X : IsRel(b[1], pid)
    PROVE  CallOK(r, t, out, ps, cl)
<1>1. Len(b) \in Nat /\ DOMAIN b = 1..Len(b) /\ DOMAIN t = 1..Len(t) /\ Len(t) \in Nat
  BY LenProperties
<1>2. \A i \in DOMAIN t : i + 1 \in DOMAIN b /\ t[i] = b[i + 1] /\ i \in Int /\ 1 < i + 1
  BY <1>1 DEF Behind
<1>3. 1 \in DOMAIN b
  BY <1>1 DEF Behind
<1>4. \A i, j \in DOMAIN t : i < j => i + 1 < j + 1
  BY <1>1
<1>5. Numbered(t, out, ps, cl)
  BY <1>2 DEF CallOK, Numbered
<1>6. Identified(t, out)
  <2>1. Identified(b, out)
    BY DEF CallOK
  <2>2. \A o \in out, i \in DOMAIN t : IsPub(t[i], o.id) => t[i].pid = o.pid
    BY <2>1, <1>2 DEF Identified
  <2>3. ASSUME NEW i \in DOMAIN t, NEW j \in DOMAIN t,
               IsPub(t[i], t[j].id), IsPub(t[j], t[j].id)
        PROVE  t[i].pid = t[j].pid
    <3>1. /\ i + 1 \in DOMAIN b /\ t[i] = b[i + 1]
          /\ j + 1 \in DOMAIN b /\ t[j] = b[j + 1]
      BY ONLY <1>2, <2>3
    <3>2. IsPub(b[i + 1], b[j + 1].id) /\ IsPub(b[j + 1], b[j + 1].id)
      BY ONLY <2>3, <3>1
    <3>3. \A k, m \in DOMAIN b :
             IsPub(b[k], b[m].id) /\ IsPub(b[m], b[m].id) => b[k].pid = b[m].pid
      BY ONLY <2>1 DEF Identified
    <3>4. b[i + 1].pid = b[j + 1].pid
      BY ONLY <3>1, <3>2, <3>3
    <3> QED BY ONLY <3>1, <3>4
  <2> QED BY <2>1, <2>2, <2>3 DEF Identified
<1>7. RelAfterPubs(t, out)
  <2>1. RelAfterPubs(b, out)
    BY DEF CallOK
  <2>2. ASSUME NEW i \in DOMAIN t, NEW m \in DOMAIN t, NEW j \in DOMAIN t, i < m, m < j,
               IsPub(t[i], t[j].id), IsPub(t[j], t[j].id)
        PROVE  ~IsRel(t[m], t[j].pid)
    BY <2>1, <2>2, <1>2, <1>4 DEF RelAfterPubs
  <2>3. ASSUME NEW o \in out, NEW i \in DOMAIN t, NEW m \in DOMAIN t, ~o.rel, i < m,
               IsPub(t[i], o.id)
        PROVE  ~IsRel(t[m], o.pid)
    BY <2>1, <2>3, <1>2, <1>4 DEF RelAfterPubs
  <2> QED BY <2>2, <2>3 DEF RelAfterPubs
<1>8. Guarded(r, t, out, cl)
  <2>1. ASSUME NEW j \in DOMAIN t, t[j].type = "PUBLISH", t[j].qos = 2, Member(cl, t[j].id)
        PROVE  /\ Open(r, t[j].pid)
               /\ \A m \in DOMAIN t : m < j => ~IsRel(t[m], t[j].pid)
    <3>1. /\ Open(q, t[j].pid)
          /\ \A m \in DOMAIN b : m < j + 1 => ~IsRel(b[m], t[j].pid)
      BY <2>1, <1>2 DEF CallOK, Guarded
    <3>2. ~IsRel(b[1], t[j].pid)
      BY <3>1, <1>2, <1>3
    <3>3. Open(r, t[j].pid)
      BY <3>1, <3>2 DEF RecKept
    <3> QED BY <3>1, <3>3, <1>2, <1>4
  <2>2. ASSUME NEW o \in out, o.qos = 2, ~o.rel, Member(cl, o.id)
        PROVE  Open(r, o.pid) /\ \A m \in DOMAIN t : ~IsRel(t[m], o.pid)
    <3>1. Open(q, o.pid) /\ \A m \in DOMAIN b : ~IsRel(b[m], o.pid)
      BY <2>2 DEF CallOK, Guarded
    <3>2. Open(r, o.pid)
      BY <3>1, <1>3 DEF RecKept
    <3> QED BY <3>1, <3>2, <1>2
  <2> QED BY <2>1, <2>2 DEF Guarded
<1> QED BY <1>5, <1>6, <1>7, <1>8 DEF CallOK, RecKept

\* A message is called.  When its QoS is 2 it had no PUBREC in the queue, and now
\* it has one.
LEMMA CallCalled ==
    ASSUME NEW q, NEW r, NEW b \in Seq(ToClient), NEW t \in Seq(ToClient), NEW out,
           NEW ps \in Seq(QoS), NEW cl \in Seq(Nat), NEW cm \in Seq(Nat),
           Behind(b, t), CallOK(q, b, out, ps, cl), RecKept(q, r, {}),
           b[1].type = "PUBLISH", Added(cl, b[1].id, cm),
           b[1].qos = 2 => ~Open(q, b[1].pid) /\ Open(r, b[1].pid)
    PROVE  CallOK(r, t, out, ps, cm)
<1> DEFINE p == b[1]
<1>1. CallOK(r, t, out, ps, cl)
  <2>1. \A pid \in {} : IsRel(b[1], pid)
    OBVIOUS
  <2> QED BY <2>1, CallReceived
<1>2. /\ DOMAIN b = 1..Len(b) /\ DOMAIN t = 1..Len(t) /\ Len(t) \in Nat /\ Len(b) \in Nat
      /\ DOMAIN cl = 1..Len(cl) /\ DOMAIN cm = 1..Len(cm) /\ Len(cl) \in Nat
      /\ Len(cm) \in Nat
  BY LenProperties
<1>3. 1 \in DOMAIN b
  BY <1>2 DEF Behind
<1>4. \A i \in DOMAIN t : i + 1 \in DOMAIN b /\ t[i] = b[i + 1] /\ i \in Int /\ 1 < i + 1
  BY <1>2 DEF Behind
<1>5. p.id \in DOMAIN ps /\ p.qos = ps[p.id]
  BY <1>3 DEF CallOK, Numbered
<1>6. DOMAIN cm = DOMAIN cl \cup {Len(cl) + 1} /\ cm[Len(cl) + 1] = p.id
  BY <1>2 DEF Added
<1>7. \A i \in DOMAIN cl : cm[i] = cl[i]
  BY <1>2 DEF Added
<1>8. \A x : Member(cm, x) => Member(cl, x) \/ x = p.id
  BY <1>6, <1>7 DEF Member
<1>9. Numbered(t, out, ps, cm)
  BY <1>1, <1>5, <1>6, <1>7 DEF CallOK, Numbered
<1>10. p.qos = 2 => ~Member(cl, p.id)
  BY <1>3 DEF CallOK, Guarded
<1>11. NoRepeat(cm, ps)
  <2> SUFFICES ASSUME NEW i \in DOMAIN cm, NEW j \in DOMAIN cm,
                      cm[i] = cm[j], ps[cm[i]] = 2
               PROVE  i = j
    BY DEF NoRepeat
  <2>1. CASE i \in DOMAIN cl /\ j \in DOMAIN cl
    BY <2>1, <1>1, <1>7 DEF CallOK, NoRepeat
  <2>2. CASE i \in DOMAIN cl /\ j = Len(cl) + 1
    BY <2>2, <1>5, <1>6, <1>7, <1>10 DEF Member
  <2>3. CASE j \in DOMAIN cl /\ i = Len(cl) + 1
    BY <2>3, <1>5, <1>6, <1>7, <1>10 DEF Member
  <2> QED BY <2>1, <2>2, <2>3, <1>6
<1>12. Guarded(r, t, out, cm)
  <2>1. ASSUME NEW j \in DOMAIN t, t[j].type = "PUBLISH", t[j].qos = 2, t[j].id = p.id
        PROVE  /\ Open(r, t[j].pid)
               /\ \A m \in DOMAIN t : m < j => ~IsRel(t[m], t[j].pid)
    <3>1. IsPub(b[1], b[j + 1].id) /\ IsPub(b[j + 1], b[j + 1].id) /\ b[j + 1] = t[j]
      BY <2>1, <1>4 DEF IsPub
    <3>2. t[j].pid = p.pid
      <4>1. j + 1 \in DOMAIN b /\ Identified(b, out)
        BY <1>4 DEF CallOK
      <4>2. b[1].pid = b[j + 1].pid
        BY <3>1, <4>1, <1>3 DEF Identified
      <4> QED BY <4>2, <3>1
    <3>3. p.qos = 2
      BY <2>1, <1>1, <1>5 DEF CallOK, Numbered
    <3>4. ASSUME NEW m \in DOMAIN t, m < j PROVE ~IsRel(t[m], t[j].pid)
      <4>1. m + 1 < j + 1 /\ 1 < m + 1 /\ m + 1 \in DOMAIN b /\ t[m] = b[m + 1]
        BY <3>4, <1>2, <1>4
      <4> QED BY <4>1, <3>1, <1>3, <1>4 DEF CallOK, RelAfterPubs
    <3> QED BY <3>2, <3>3, <3>4
  <2>2. ASSUME NEW o \in out, o.qos = 2, ~o.rel, o.id = p.id
        PROVE  Open(r, o.pid) /\ \A m \in DOMAIN t : ~IsRel(t[m], o.pid)
    <3>1. IsPub(b[1], o.id)
      BY <2>2 DEF IsPub
    <3>2. o.pid = p.pid
      BY <3>1, <1>3 DEF CallOK, Identified
    <3>3. p.qos = 2
      BY <2>2, <1>5 DEF CallOK, Numbered
    <3>4. ASSUME NEW m \in DOMAIN t PROVE ~IsRel(t[m], o.pid)
      BY <2>2, <3>1, <1>3, <1>4 DEF CallOK, RelAfterPubs
    <3> QED BY <3>2, <3>3, <3>4
  <2> QED BY <2>1, <2>2, <1>1, <1>8 DEF Guarded, CallOK
<1> QED BY <1>1, <1>9, <1>11, <1>12 DEF CallOK

\* The packets after one more.
LEMMA AddedPackets ==
    ASSUME NEW S, NEW b \in Seq(S), NEW t \in Seq(S), NEW x, Added(b, x, t)
    PROVE  /\ DOMAIN t = DOMAIN b \cup {Len(b) + 1} /\ t[Len(b) + 1] = x
           /\ \A i \in DOMAIN b : t[i] = b[i] /\ i < Len(b) + 1
           /\ \A i \in DOMAIN b : i \in Int
<1>1. Len(b) \in Nat /\ DOMAIN b = 1..Len(b) /\ DOMAIN t = 1..Len(t)
  BY LenProperties
<1> QED BY <1>1 DEF Added

\* The broker sends anything but a PUBLISH or a PUBREL, and forgets nothing or
\* more of what it has pushed.
LEMMA CallAnswered ==
    ASSUME NEW q, NEW b \in Seq(ToClient), NEW t \in Seq(ToClient), NEW x, NEW out,
           NEW left \in SUBSET out, NEW ps, NEW cl,
           CallOK(q, b, out, ps, cl), Added(b, x, t), x.type \notin {"PUBLISH", "PUBREL"}
    PROVE  CallOK(q, t, left, ps, cl)
<1> DEFINE n == Len(b) + 1
<1>1. /\ DOMAIN t = DOMAIN b \cup {n} /\ t[n] = x
      /\ \A i \in DOMAIN b : t[i] = b[i] /\ i < n
      /\ \A i \in DOMAIN b : i \in Int
  BY AddedPackets
<1>2. ~IsPublish(t[n]) /\ \A k : ~IsPub(t[n], k) /\ ~IsRel(t[n], k)
  BY <1>1 DEF IsPub, IsRel, IsPublish
<1> HIDE DEF n
<1>3. Numbered(t, left, ps, cl)
  BY <1>1, <1>2 DEF CallOK, Numbered, IsPublish
<1>4. Identified(t, left)
  BY <1>1, <1>2 DEF CallOK, Identified
<1>5. RelAfterPubs(t, left)
  <2>0. RelAfterPubs(b, out)
    BY DEF CallOK
  <2>1. ASSUME NEW i \in DOMAIN t, NEW m \in DOMAIN t, NEW j \in DOMAIN t, i < m, m < j,
               IsPub(t[i], t[j].id), IsPub(t[j], t[j].id)
        PROVE  ~IsRel(t[m], t[j].pid)
    BY <2>0, <2>1, <1>1, <1>2 DEF RelAfterPubs
  <2>2. ASSUME NEW o \in left, NEW i \in DOMAIN t, NEW m \in DOMAIN t, ~o.rel, i < m,
               IsPub(t[i], o.id)
        PROVE  ~IsRel(t[m], o.pid)
    BY <2>0, <2>2, <1>1, <1>2 DEF RelAfterPubs
  <2> QED BY <2>1, <2>2 DEF RelAfterPubs
<1>6. Guarded(q, t, left, cl)
  <2>0. Guarded(q, b, out, cl)
    BY DEF CallOK
  <2>1. ASSUME NEW j \in DOMAIN t, t[j].type = "PUBLISH", t[j].qos = 2, Member(cl, t[j].id)
        PROVE  /\ Open(q, t[j].pid)
               /\ \A m \in DOMAIN t : m < j => ~IsRel(t[m], t[j].pid)
    BY <2>0, <2>1, <1>1, <1>2 DEF Guarded, IsPublish
  <2>2. ASSUME NEW o \in left, o.qos = 2, ~o.rel, Member(cl, o.id)
        PROVE  Open(q, o.pid) /\ \A m \in DOMAIN t : ~IsRel(t[m], o.pid)
    BY <2>0, <2>2, <1>1, <1>2 DEF Guarded
  <2> QED BY <2>1, <2>2 DEF Guarded
<1> QED BY <1>3, <1>4, <1>5, <1>6 DEF CallOK

\* The broker forgets some of what it pushed and sends nothing.
LEMMA CallForgotten ==
    ASSUME NEW q, NEW b, NEW out, NEW left \in SUBSET out, NEW ps, NEW cl,
           CallOK(q, b, out, ps, cl)
    PROVE  CallOK(q, b, left, ps, cl)
BY DEF CallOK, Numbered, Identified, RelAfterPubs, Guarded

\* The broker sends a PUBREL: no message with this identifier waits any more for
\* its PUBREC, or the PUBREL is sent again.
LEMMA CallReleased ==
    ASSUME NEW q, NEW b \in Seq(ToClient), NEW t \in Seq(ToClient), NEW x, NEW out,
           NEW ps, NEW cl,
           CallOK(q, b, out, ps, cl), Added(b, x, t), x.type = "PUBREL",
           \A o \in out : o.pid = x.pid => o.rel
    PROVE  CallOK(q, t, out, ps, cl)
<1> DEFINE n == Len(b) + 1
<1>1. /\ DOMAIN t = DOMAIN b \cup {n} /\ t[n] = x
      /\ \A i \in DOMAIN b : t[i] = b[i] /\ i < n
      /\ \A i \in DOMAIN b : i \in Int
  BY AddedPackets
<1>2. ~IsPublish(t[n]) /\ \A k : ~IsPub(t[n], k)
  BY <1>1 DEF IsPub, IsPublish
<1> HIDE DEF n
<1>3. Numbered(t, out, ps, cl)
  BY <1>1, <1>2 DEF CallOK, Numbered, IsPublish
<1>4. Identified(t, out)
  BY <1>1, <1>2 DEF CallOK, Identified
<1>5. \A o \in out : ~o.rel => ~IsRel(t[n], o.pid)
  BY <1>1 DEF IsRel
<1>6. n \notin DOMAIN b /\ \A m \in DOMAIN b : ~(n < m)
  BY <1>1 DEF n
<1>7. RelAfterPubs(t, out)
  <2>0. RelAfterPubs(b, out)
    BY DEF CallOK
  <2>1. ASSUME NEW i \in DOMAIN t, NEW m \in DOMAIN t, NEW j \in DOMAIN t, i < m, m < j,
               IsPub(t[i], t[j].id), IsPub(t[j], t[j].id)
        PROVE  ~IsRel(t[m], t[j].pid)
    <3>1. i \in DOMAIN b /\ j \in DOMAIN b
      BY <2>1, <1>1, <1>2
    <3>2. m \in DOMAIN b
      BY <2>1, <3>1, <1>1, <1>6
    <3> QED BY <2>0, <2>1, <3>1, <3>2, <1>1 DEF RelAfterPubs
  <2>2. ASSUME NEW o \in out, NEW i \in DOMAIN t, NEW m \in DOMAIN t, ~o.rel, i < m,
               IsPub(t[i], o.id)
        PROVE  ~IsRel(t[m], o.pid)
    BY <2>0, <2>2, <1>1, <1>2, <1>5 DEF RelAfterPubs
  <2> QED BY <2>1, <2>2 DEF RelAfterPubs
<1>8. Guarded(q, t, out, cl)
  <2>0. Guarded(q, b, out, cl)
    BY DEF CallOK
  <2>1. ASSUME NEW j \in DOMAIN t, t[j].type = "PUBLISH", t[j].qos = 2, Member(cl, t[j].id)
        PROVE  /\ Open(q, t[j].pid)
               /\ \A m \in DOMAIN t : m < j => ~IsRel(t[m], t[j].pid)
    <3>1. j \in DOMAIN b
      BY <2>1, <1>1, <1>2 DEF IsPublish
    <3> QED BY <2>0, <2>1, <3>1, <1>1, <1>6 DEF Guarded
  <2>2. ASSUME NEW o \in out, o.qos = 2, ~o.rel, Member(cl, o.id)
        PROVE  Open(q, o.pid) /\ \A m \in DOMAIN t : ~IsRel(t[m], o.pid)
    BY <2>0, <2>2, <1>1, <1>5 DEF Guarded
  <2> QED BY <2>1, <2>2 DEF Guarded
<1> QED BY <1>3, <1>4, <1>7, <1>8 DEF CallOK

\* What the broker has pushed after the PUBREC for pid reached it.
WithId(out, pid)   == {o \in out : o.pid = pid /\ o.qos > 0}
Released(out, pid) == (out \ WithId(out, pid))
                        \cup {[o EXCEPT !.rel = TRUE] : o \in WithId(out, pid)}

\* The message of a PUBREC is released.
LEMMA CallRel ==
    ASSUME NEW q, NEW b, NEW out \in SUBSET Push, NEW pid, NEW ps, NEW cl,
           CallOK(q, b, out, ps, cl)
    PROVE  /\ CallOK(q, b, Released(out, pid), ps, cl)
           /\ \A o \in Released(out, pid) : o.pid = pid => o.rel
<1> DEFINE w == {o \in out : o.pid = pid /\ o.qos > 0}
           u == (out \ w) \cup {[o EXCEPT !.rel = TRUE] : o \in w}
<1>1. \A o \in out : o.qos > 0
  BY DEF CallOK, Numbered
<1>2. ASSUME NEW v \in u
      PROVE  \E o \in out : /\ v.id = o.id /\ v.pid = o.pid /\ v.qos = o.qos
                            /\ IF o.pid = pid THEN v = [o EXCEPT !.rel = TRUE] /\ v.rel
                               ELSE v = o
  <2>1. CASE v \in out \ w
    BY <2>1, <1>1
  <2>2. CASE v \in {[o EXCEPT !.rel = TRUE] : o \in w}
    <3>1. PICK o \in w : v = [o EXCEPT !.rel = TRUE]
      BY <2>2
    <3>2. o \in out /\ o \in Push /\ o.pid = pid
      OBVIOUS
    <3>3. v.id = o.id /\ v.pid = o.pid /\ v.qos = o.qos /\ v.rel
      BY <3>1, <3>2 DEF Push
    <3> QED BY <3>1, <3>2, <3>3
  <2> QED BY <2>1, <2>2
<1> HIDE DEF u, w
<1>3. Numbered(b, u, ps, cl)
  BY <1>2 DEF CallOK, Numbered
<1>4. Identified(b, u)
  <2>1. Identified(b, out)
    BY DEF CallOK
  <2>2. ASSUME NEW v \in u, NEW y \in u, v.id = y.id \/ v.pid = y.pid PROVE v = y
    <3>1. PICK o \in out : /\ v.id = o.id /\ v.pid = o.pid
                           /\ IF o.pid = pid THEN v = [o EXCEPT !.rel = TRUE] ELSE v = o
      BY <1>2
    <3>2. PICK z \in out : /\ y.id = z.id /\ y.pid = z.pid
                           /\ IF z.pid = pid THEN y = [z EXCEPT !.rel = TRUE] ELSE y = z
      BY <1>2
    <3>3. o = z
      BY <2>1, <2>2, <3>1, <3>2 DEF Identified
    <3>4. CASE o.pid = pid
      BY <3>1, <3>2, <3>3, <3>4
    <3>5. CASE o.pid # pid
      BY <3>1, <3>2, <3>3, <3>5
    <3> QED BY <3>4, <3>5
  <2>3. \A v \in u, i \in DOMAIN b : IsPub(b[i], v.id) => b[i].pid = v.pid
    BY <2>1, <1>2 DEF Identified
  <2> QED BY <2>1, <2>2, <2>3 DEF Identified
<1>5. \A v \in u : ~v.rel => v \in out
  BY <1>2
<1>6. RelAfterPubs(b, u)
  BY <1>5 DEF CallOK, RelAfterPubs
<1>7. Guarded(q, b, u, cl)
  BY <1>5 DEF CallOK, Guarded
<1>8. \A o \in u : o.pid = pid => o.rel
  BY <1>2
<1>9. CallOK(q, b, u, ps, cl)
  BY <1>3, <1>4, <1>6, <1>7 DEF CallOK
<1> QED BY <1>8, <1>9 DEF u, w, Released, WithId

\* The broker pushes a new message.
LEMMA CallPushed ==
    ASSUME NEW q, NEW b \in Seq(ToClient), NEW t \in Seq(ToClient), NEW x \in ToClient,
           NEW o \in Push, NEW out, NEW more \in SUBSET {o}, NEW cl,
           NEW ps \in Seq(QoS), NEW pt \in Seq(QoS),
           CallOK(q, b, out, ps, cl), Added(b, x, t), Added(ps, o.qos, pt),
           o.id = Len(ps) + 1, more # {} => o.qos > 0,
           \A u \in out : more # {} => u.pid # o.pid,
           x.type = "PUBLISH", x.id = o.id, x.qos = o.qos, more # {} => x.pid = o.pid
    PROVE  CallOK(q, t, out \cup more, pt, cl)
<1> DEFINE n == Len(b) + 1
           k == Len(ps) + 1
<1>1. /\ DOMAIN t = DOMAIN b \cup {n} /\ t[n] = x
      /\ \A i \in DOMAIN b : t[i] = b[i] /\ i < n
      /\ \A i \in DOMAIN b : i \in Int
  BY AddedPackets
<1>2. /\ DOMAIN pt = DOMAIN ps \cup {k} /\ pt[k] = o.qos
      /\ \A i \in DOMAIN ps : pt[i] = ps[i] /\ i < k
      /\ \A i \in DOMAIN ps : i \in Int
  BY AddedPackets
<1>3. k \notin DOMAIN ps
  BY <1>2
<1>4. n \notin DOMAIN b /\ \A m \in DOMAIN b : ~(n < m)
  BY <1>1
<1>5. o.id = k
  OBVIOUS
<1> HIDE DEF n, k
<1>6. Numbered(b, out, ps, cl) /\ Identified(b, out)
  BY DEF CallOK
<1>7. /\ \A i \in DOMAIN b : ~IsPub(b[i], k)
      /\ \A u \in out : u.id # k
      /\ ~Member(cl, k)
  BY <1>3, <1>6 DEF Numbered, IsPub, Member
<1>8. Numbered(t, out \cup more, pt, cl)
  <2>1. \A i \in DOMAIN t : t[i].type = "PUBLISH" =>
          t[i].id \in DOMAIN pt /\ t[i].qos = pt[t[i].id]
    BY <1>1, <1>2, <1>5, <1>6 DEF Numbered
  <2>2. \A u \in out \cup more : u.id \in DOMAIN pt /\ u.qos = pt[u.id] /\ u.qos > 0
    BY <1>2, <1>5, <1>6 DEF Numbered
  <2>3. \A i \in DOMAIN cl : cl[i] \in DOMAIN pt
    BY <1>2, <1>6 DEF Numbered
  <2> QED BY <2>1, <2>2, <2>3 DEF Numbered
<1>9. Identified(t, out \cup more)
  <2>1. \A u, v \in out \cup more : u.id = v.id \/ u.pid = v.pid => u = v
    BY <1>5, <1>6, <1>7 DEF Identified
  <2>2. ASSUME NEW u \in out \cup more, NEW i \in DOMAIN t, IsPub(t[i], u.id)
        PROVE  t[i].pid = u.pid
    <3>1. CASE u \in out
      <4>1. i \in DOMAIN b
        BY <2>2, <3>1, <1>1, <1>5, <1>7 DEF IsPub
      <4> QED BY <2>2, <3>1, <4>1, <1>1, <1>6 DEF Identified
    <3>2. CASE u \in more
      <4>1. u = o /\ x.pid = o.pid
        BY <3>2
      <4>2. i = n
        BY <2>2, <4>1, <1>1, <1>5, <1>7
      <4> QED BY <4>1, <4>2, <1>1
    <3> QED BY <3>1, <3>2
  <2>3. ASSUME NEW i \in DOMAIN t, NEW j \in DOMAIN t,
               IsPub(t[i], t[j].id), IsPub(t[j], t[j].id)
        PROVE  t[i].pid = t[j].pid
    <3>1. CASE i \in DOMAIN b
      <4>1. j \in DOMAIN b
        BY <2>3, <3>1, <1>1, <1>5, <1>7 DEF IsPub
      <4> QED BY <2>3, <3>1, <4>1, <1>1, <1>6 DEF Identified
    <3>2. CASE i = n
      <4>1. j = n
        BY <2>3, <3>2, <1>1, <1>5, <1>7 DEF IsPub
      <4> QED BY <3>2, <4>1
    <3> QED BY <3>1, <3>2, <1>1
  <2> QED BY <2>1, <2>2, <2>3 DEF Identified
<1>10. RelAfterPubs(t, out \cup more)
  <2>0. RelAfterPubs(b, out)
    BY DEF CallOK
  <2>1. ASSUME NEW i \in DOMAIN t, NEW m \in DOMAIN t, NEW j \in DOMAIN t, i < m, m < j,
               IsPub(t[i], t[j].id), IsPub(t[j], t[j].id)
        PROVE  ~IsRel(t[m], t[j].pid)
    <3>1. i \in DOMAIN b
      BY <2>1, <1>1, <1>4
    <3>2. m \in DOMAIN b
      BY <2>1, <3>1, <1>1, <1>4
    <3>3. j \in DOMAIN b
      BY <2>1, <3>1, <1>1, <1>5, <1>7
    <3> QED BY <2>0, <2>1, <3>1, <3>2, <3>3, <1>1 DEF RelAfterPubs
  <2>2. ASSUME NEW u \in out \cup more, NEW i \in DOMAIN t, NEW m \in DOMAIN t, ~u.rel,
               i < m, IsPub(t[i], u.id)
        PROVE  ~IsRel(t[m], u.pid)
    <3>1. i \in DOMAIN b
      BY <2>2, <1>1, <1>4
    <3>2. u \in out
      BY <2>2, <3>1, <1>1, <1>5, <1>7
    <3>3. CASE m \in DOMAIN b
      BY <2>0, <2>2, <3>1, <3>2, <3>3, <1>1 DEF RelAfterPubs
    <3>4. CASE m = n
      BY <3>4, <1>1 DEF IsRel
    <3> QED BY <3>3, <3>4, <1>1
  <2> QED BY <2>1, <2>2 DEF RelAfterPubs
<1>11. Guarded(q, t, out \cup more, cl)
  <2>0. Guarded(q, b, out, cl)
    BY DEF CallOK
  <2>1. ASSUME NEW j \in DOMAIN t, t[j].type = "PUBLISH", t[j].qos = 2, Member(cl, t[j].id)
        PROVE  /\ Open(q, t[j].pid)
               /\ \A m \in DOMAIN t : m < j => ~IsRel(t[m], t[j].pid)
    <3>1. j \in DOMAIN b
      BY <2>1, <1>1, <1>5, <1>7
    <3> QED BY <2>0, <2>1, <3>1, <1>1, <1>4 DEF Guarded
  <2>2. ASSUME NEW u \in out \cup more, u.qos = 2, ~u.rel, Member(cl, u.id)
        PROVE  Open(q, u.pid) /\ \A m \in DOMAIN t : ~IsRel(t[m], u.pid)
    <3>1. u \in out
      BY <2>2, <1>5, <1>7
    <3>2. ~IsRel(t[n], u.pid)
      BY <1>1 DEF IsRel
    <3> QED BY <2>0, <2>2, <3>1, <3>2, <1>1 DEF Guarded
  <2> QED BY <2>1, <2>2 DEF Guarded
<1>12. NoRepeat(cl, pt)
  BY <1>2, <1>6 DEF CallOK, NoRepeat, Numbered
<1> QED BY <1>8, <1>9, <1>10, <1>11, <1>12 DEF CallOK

\* The broker transmits a message again.
LEMMA CallResent ==
    ASSUME NEW q, NEW b \in Seq(ToClient), NEW t \in Seq(ToClient), NEW x,
           NEW out, NEW o \in out, NEW ps, NEW cl,
           CallOK(q, b, out, ps, cl), Added(b, x, t), ~o.rel,
           x.type = "PUBLISH", x.id = o.id, x.qos = o.qos, x.pid = o.pid
    PROVE  CallOK(q, t, out, ps, cl)
<1> DEFINE n == Len(b) + 1
<1>1. /\ DOMAIN t = DOMAIN b \cup {n} /\ t[n] = x
      /\ \A i \in DOMAIN b : t[i] = b[i] /\ i < n
      /\ \A i \in DOMAIN b : i \in Int
  BY AddedPackets
<1>2. n \notin DOMAIN b /\ \A m \in DOMAIN b : ~(n < m)
  BY <1>1
<1>3. n \in Int
  <2>1. Len(b) \in Nat
    BY LenProperties
  <2> QED BY <2>1
<1> HIDE DEF n
<1>4. ~IsRel(t[n], o.pid) /\ \A pid : ~IsRel(t[n], pid)
  BY <1>1 DEF IsRel
<1>5. Numbered(t, out, ps, cl)
  BY <1>1 DEF CallOK, Numbered
<1>6. Identified(t, out)
  <2>0. Identified(b, out)
    BY DEF CallOK
  <2>1. \A u \in out, i \in DOMAIN t : IsPub(t[i], u.id) => t[i].pid = u.pid
    BY <2>0, <1>1 DEF Identified, IsPub
  <2>2. \A i, j \in DOMAIN t :
           IsPub(t[i], t[j].id) /\ IsPub(t[j], t[j].id) => t[i].pid = t[j].pid
    BY <2>0, <1>1 DEF Identified, IsPub
  <2> QED BY <2>0, <2>1, <2>2 DEF Identified
<1>7. RelAfterPubs(t, out)
  <2>0. RelAfterPubs(b, out)
    BY DEF CallOK
  <2>1. ASSUME NEW i \in DOMAIN t, NEW m \in DOMAIN t, NEW j \in DOMAIN t, i < m, m < j,
               IsPub(t[i], t[j].id), IsPub(t[j], t[j].id)
        PROVE  ~IsRel(t[m], t[j].pid)
    <3>1. i \in DOMAIN b
      BY <2>1, <1>1, <1>2
    <3>2. m \in DOMAIN b
      BY <2>1, <3>1, <1>1, <1>2
    <3>3. CASE j \in DOMAIN b
      BY <2>0, <2>1, <3>1, <3>2, <3>3, <1>1 DEF RelAfterPubs
    <3>4. CASE j = n
      <4>1. IsPub(b[i], o.id) /\ t[j].pid = o.pid
        BY <2>1, <3>1, <3>4, <1>1
      <4> QED BY <2>0, <2>1, <3>1, <3>2, <4>1, <1>1 DEF RelAfterPubs
    <3> QED BY <3>3, <3>4, <1>1
  <2>2. ASSUME NEW u \in out, NEW i \in DOMAIN t, NEW m \in DOMAIN t, ~u.rel,
               i < m, IsPub(t[i], u.id)
        PROVE  ~IsRel(t[m], u.pid)
    <3>1. i \in DOMAIN b
      BY <2>2, <1>1, <1>2, <1>3
    <3>2. CASE m \in DOMAIN b
      BY <2>0, <2>2, <3>1, <3>2, <1>1 DEF RelAfterPubs
    <3>3. CASE m = n
      BY <3>3, <1>4
    <3> QED BY <3>2, <3>3, <1>1
  <2> QED BY <2>1, <2>2 DEF RelAfterPubs
<1>8. Guarded(q, t, out, cl)
  <2>0. Guarded(q, b, out, cl)
    BY DEF CallOK
  <2>1. ASSUME NEW j \in DOMAIN t, t[j].type = "PUBLISH", t[j].qos = 2, Member(cl, t[j].id)
        PROVE  /\ Open(q, t[j].pid)
               /\ \A m \in DOMAIN t : m < j => ~IsRel(t[m], t[j].pid)
    <3>1. CASE j \in DOMAIN b
      BY <2>0, <2>1, <3>1, <1>1, <1>2 DEF Guarded
    <3>2. CASE j = n
      <4>1. Open(q, o.pid) /\ \A m \in DOMAIN b : ~IsRel(b[m], o.pid)
        BY <2>0, <2>1, <3>2, <1>1 DEF Guarded
      <4> QED BY <4>1, <3>2, <1>1, <1>4
    <3> QED BY <3>1, <3>2, <1>1
  <2>2. ASSUME NEW u \in out, u.qos = 2, ~u.rel, Member(cl, u.id)
        PROVE  Open(q, u.pid) /\ \A m \in DOMAIN t : ~IsRel(t[m], u.pid)
    BY <2>0, <2>2, <1>1, <1>4 DEF Guarded
  <2> QED BY <2>1, <2>2 DEF Guarded
<1> QED BY <1>5, <1>6, <1>7, <1>8 DEF CallOK

\* Nothing is under way.
LEMMA CallSilent ==
    ASSUME NEW q, NEW r, NEW b, NEW out, NEW left \in SUBSET out, NEW ps, NEW cl,
           CallOK(q, b, out, ps, cl), RecKept(q, r, {}) \/ (OneRec(r) /\ left = {})
    PROVE  CallOK(r, <<>>, left, ps, cl)
<1>1. DOMAIN <<>> = {}
  OBVIOUS
<1>2. OneRec(r)
  BY DEF RecKept
<1>3. Numbered(<<>>, left, ps, cl)
  BY <1>1 DEF CallOK, Numbered
<1>4. Identified(<<>>, left)
  BY <1>1 DEF CallOK, Identified
<1>5. RelAfterPubs(<<>>, left)
  BY <1>1 DEF RelAfterPubs
<1>6. Guarded(r, <<>>, left, cl)
  BY <1>1 DEF CallOK, Guarded, RecKept
<1> QED BY <1>2, <1>3, <1>4, <1>5, <1>6 DEF CallOK

-----------------------------------------------------------------------------
(* Messages arrive in order: the steps of the queue and of the packets.     *)

\* Where a message of the queue was before a step.
Origin(q, r, d, ms, i) ==
    \/ /\ d + i \in DOMAIN q /\ Same(q[d + i], r[i])
       /\ r[i].state = q[d + i].state \/ r[i].state = "COMPLETE"
    \/ i = Len(r) /\ Len(ms) = 1 /\ r[i] = ms[1]

\* Where the messages of the queue after a step come from.
LEMMA StepOrigin ==
    ASSUME NEW q \in Seq(Message), NEW r, NEW C, NEW ms \in Seq(Message),
           QStep(q, r, C, ms), Len(ms) \in {0, 1}
    PROVE  \E d \in Nat : \A i \in DOMAIN r : Origin(q, r, d, ms, i)
<1>1. Len(q) \in Nat /\ DOMAIN q = 1..Len(q)
  BY LenProperties
<1>2. PICK d \in 0..Len(q) : Moved(q, r, d, ms) /\ Forward(q, r, d, C)
  BY DEF QStep
<1>3. DOMAIN r = 1..Len(r)
  BY LenProperties DEF QStep
<1> DEFINE n == Len(q) - d
<1>4. n \in Nat /\ Len(r) = n + Len(ms)
  BY <1>1, <1>2 DEF Moved
<1>5. \A i \in 1..n : d + i \in 1..Len(q) /\ Same(q[d + i], r[i])
                      /\ (r[i].state = q[d + i].state \/ r[i].state = "COMPLETE")
  BY <1>1, <1>2 DEF Moved, Forward
<1>6. \A i \in 1..Len(ms) : r[n + i] = ms[i]
  BY <1>2 DEF Moved
<1> HIDE DEF n
<1>7. \A i \in DOMAIN r : i \in 1..n \/ (i = n + 1 /\ Len(ms) = 1)
  <2>1. Len(ms) = 0 \/ Len(ms) = 1
    OBVIOUS
  <2>2. DOMAIN r = 1..(n + Len(ms))
    BY <1>3, <1>4
  <2>3. n \in Nat
    BY <1>4
  <2>4. CASE Len(ms) = 0
    BY <2>2, <2>3, <2>4
  <2>5. CASE Len(ms) = 1
    BY <2>2, <2>3, <2>5
  <2> QED BY <2>1, <2>4, <2>5
<1>8. ASSUME NEW i \in DOMAIN r PROVE Origin(q, r, d, ms, i)
  <2>1. CASE i \in 1..n
    BY <2>1, <1>1, <1>5 DEF Origin
  <2>2. CASE i = n + 1 /\ Len(ms) = 1
    <3>1. 1 \in 1..Len(ms) /\ i = Len(r) /\ r[i] = ms[1]
      BY <2>2, <1>4, <1>6
    <3> QED BY <3>1, <2>2 DEF Origin
  <2> QED BY <2>1, <2>2, <1>7
<1> QED BY <1>8, <1>1, <1>2

\* A message that has only moved on keeps its place in the order.
LEMMA StillPassed ==
    ASSUME NEW m, NEW n, NEW st, NEW c, NEW dl,
           Same(m, n), n.state = m.state \/ n.state = "COMPLETE", Passed(m, st, c, dl)
    PROVE  Passed(n, st, c, dl)
BY DEF Passed, Same

\* A step of the queue that stages no PUBLISH.
LEMMA OrderLocal ==
    ASSUME NEW q \in Seq(Message), NEW r, NEW C, NEW ms \in Seq(Message),
           NEW st, NEW c, NEW dl,
           QStep(q, r, C, ms), Len(ms) \in {0, 1}, Len(ms) = 1 => ~IsPublish(ms[1]),
           OrderOK(q, st, c, dl)
    PROVE  OrderOK(r, st, c, dl) /\ (Awaited(q, c, dl) => Awaited(r, c, dl))
<1>1. PICK d \in Nat : \A i \in DOMAIN r : Origin(q, r, d, ms, i)
  BY StepOrigin
<1>2. ASSUME NEW i \in DOMAIN r, IsPublish(r[i])
      PROVE  /\ d + i \in DOMAIN q /\ Same(q[d + i], r[i]) /\ IsPublish(q[d + i])
             /\ r[i].state = q[d + i].state \/ r[i].state = "COMPLETE"
  BY <1>1, <1>2 DEF Origin, Same, IsPublish
<1>3. DOMAIN r \subseteq Nat
  <2>1. DOMAIN r = 1..Len(r)
    BY LenProperties DEF QStep
  <2>2. 1..Len(r) \subseteq Nat
    BY LenProperties DEF QStep
  <2> QED BY <2>1, <2>2
<1>4. QueueInOrder(r, st)
  <2>1. QueueInOrder(q, st)
    BY DEF OrderOK
  <2>2. \A i \in DOMAIN r : IsPublish(r[i]) =>
           r[i].id \in DOMAIN st /\ r[i].qos = st[r[i].id]
    BY <2>1, <1>2 DEF QueueInOrder, Same
  <2>3. ASSUME NEW i \in DOMAIN r, NEW j \in DOMAIN r, i < j,
               IsPublish(r[i]), IsPublish(r[j])
        PROVE  r[i].id < r[j].id
    <3>1. d + i < d + j
      BY <2>3, <1>3
    <3> QED BY <2>1, <2>3, <3>1, <1>2 DEF QueueInOrder, Same
  <2> QED BY <2>2, <2>3 DEF QueueInOrder
<1>5. SentInOrder(r, st, c, dl)
  <2>1. ASSUME NEW i \in DOMAIN r, IsPublish(r[i]) PROVE Passed(r[i], st, c, dl)
    <3>1. Passed(q[d + i], st, c, dl)
      BY <1>2, <2>1 DEF OrderOK, SentInOrder
    <3> QED BY <3>1, <1>2, <2>1, StillPassed
  <2> QED BY <2>1 DEF SentInOrder
<1>6. Awaited(q, c, dl) => Awaited(r, c, dl)
  BY <1>2 DEF Awaited, Same
<1> QED BY <1>4, <1>5, <1>6 DEF OrderOK

\* A PUBLISH is staged.
LEMMA OrderStaged ==
    ASSUME NEW q \in Seq(Message), NEW r, NEW C, NEW m \in Message,
           NEW st \in Seq(QoS), NEW su \in Seq(QoS),
           NEW c, NEW dl,
           QStep(q, r, C, <<m>>), OrderOK(q, st, c, dl),
           m.id = Len(st) + 1, m.state = "UNSENT", Added(st, m.qos, su)
    PROVE  OrderOK(r, su, c, dl) /\ (Awaited(q, c, dl) => Awaited(r, c, dl))
<1> DEFINE n == Len(st) + 1
<1>0. <<m>> \in Seq(Message) /\ Len(<<m>>) = 1 /\ <<m>>[1] = m
  OBVIOUS
<1>1. PICK d \in Nat : \A i \in DOMAIN r : Origin(q, r, d, <<m>>, i)
  BY <1>0, StepOrigin
<1>2. \A i \in DOMAIN r :
        \/ /\ d + i \in DOMAIN q /\ Same(q[d + i], r[i])
           /\ r[i].state = q[d + i].state \/ r[i].state = "COMPLETE"
        \/ i = Len(r) /\ r[i] = m
  BY <1>0, <1>1 DEF Origin
<1>3. /\ DOMAIN r \subseteq Nat /\ Len(r) \in Nat
      /\ \A i \in DOMAIN r : i <= Len(r)
  <2>1. DOMAIN r = 1..Len(r) /\ Len(r) \in Nat
    BY LenProperties DEF QStep
  <2> QED BY <2>1
<1>4. /\ DOMAIN su = DOMAIN st \cup {n} /\ su[n] = m.qos
      /\ \A k \in DOMAIN st : su[k] = st[k] /\ k < n
      /\ \A k \in DOMAIN st : k \in Int
  BY AddedPackets
<1>5. n \notin DOMAIN st
  BY <1>4
<1>6. n \in Nat
  <2>1. Len(st) \in Nat
    BY LenProperties
  <2> QED BY <2>1
<1>7. m.id = n
  OBVIOUS
<1> HIDE DEF n
<1>8. QueueInOrder(q, st) /\ Known(st, c, dl) /\ WireInOrder(st, c, dl) /\ Ordered(st, dl)
  BY DEF OrderOK
<1>9. ~Under(n, c, dl)
  BY <1>5, <1>8 DEF Under, Known, IsPub, IsPublish, Member
<1>10. QueueInOrder(r, su)
  <2>2. ASSUME NEW i \in DOMAIN r, IsPublish(r[i])
        PROVE  r[i].id \in DOMAIN su /\ r[i].qos = su[r[i].id]
    <3>1. CASE d + i \in DOMAIN q /\ Same(q[d + i], r[i])
      BY <2>2, <3>1, <1>4, <1>8 DEF QueueInOrder, Same, IsPublish
    <3>2. CASE r[i] = m
      BY <3>2, <1>4, <1>7
    <3> QED BY <3>1, <3>2, <1>2
  <2>3. ASSUME NEW i \in DOMAIN r, NEW j \in DOMAIN r, i < j,
               IsPublish(r[i]), IsPublish(r[j])
        PROVE  r[i].id < r[j].id
    <3>1. d + i < d + j /\ i # Len(r)
      BY <2>3, <1>3
    <3>2. d + i \in DOMAIN q /\ Same(q[d + i], r[i])
      BY <3>1, <1>2
    <3>3. CASE d + j \in DOMAIN q /\ Same(q[d + j], r[j])
      BY <2>3, <3>1, <3>2, <3>3, <1>8 DEF QueueInOrder, Same, IsPublish
    <3>4. CASE r[j] = m
      <4>1. r[i].id \in DOMAIN st
        BY <2>3, <3>2, <1>8 DEF QueueInOrder, Same, IsPublish
      <4> QED BY <4>1, <3>4, <1>4, <1>7
    <3> QED BY <3>3, <3>4, <1>2
  <2> QED BY <2>2, <2>3 DEF QueueInOrder
<1>11. ASSUME NEW w, Passed(w, st, c, dl) PROVE Passed(w, su, c, dl)
  BY <1>4, <1>9, <1>11 DEF Passed
<1>12. SentInOrder(r, su, c, dl)
  <2>1. ASSUME NEW i \in DOMAIN r, IsPublish(r[i]) PROVE Passed(r[i], su, c, dl)
    <3>1. CASE /\ d + i \in DOMAIN q /\ Same(q[d + i], r[i])
               /\ r[i].state = q[d + i].state \/ r[i].state = "COMPLETE"
      <4>1. IsPublish(q[d + i])
        BY <2>1, <3>1 DEF Same, IsPublish
      <4>2. Passed(q[d + i], su, c, dl)
        BY <4>1, <3>1, <1>11 DEF OrderOK, SentInOrder
      <4> QED BY <4>2, <3>1, StillPassed
    <3>2. CASE r[i] = m
      <4>1. \A k \in DOMAIN su : ~(k > m.id)
        BY <1>4, <1>6, <1>7
      <4> QED BY <4>1, <3>2 DEF Passed
    <3> QED BY <3>1, <3>2, <1>2
  <2> QED BY <2>1 DEF SentInOrder
<1>13. Awaited(q, c, dl) => Awaited(r, c, dl)
  BY <1>2 DEF Awaited, Same, IsPublish
<1>14. Known(su, c, dl)
  BY <1>4, <1>8 DEF Known
<1>15. WireInOrder(su, c, dl) /\ Ordered(su, dl)
  <2>1. \A i \in DOMAIN dl : su[dl[i]] = st[dl[i]]
    BY <1>4, <1>8 DEF Known
  <2> QED BY <2>1, <1>8 DEF WireInOrder, Ordered
<1> QED BY <1>10, <1>12, <1>13, <1>14, <1>15 DEF OrderOK

\* Message n of the queue is sent as packet x, for the first time or again: what
\* the walk has passed was sent before, and a QoS 2 message is sent only when the
\* QoS 2 messages before it are complete.
LEMMA OrderSent ==
    ASSUME NEW q \in Seq(Message), NEW r \in Seq(Message), NEW n \in 1..Len(q),
           NEW st, NEW c \in Seq(ToBroker), NEW t \in Seq(ToBroker), NEW x, NEW dl,
           Len(r) = Len(q), \A i \in 1..Len(q) : Same(q[i], r[i]),
           \A i \in 1..Len(q) : i # n => r[i].state = q[i].state,
           q[n].state # "COMPLETE", r[n].state # "UNSENT",
           IsPublish(q[n]) /\ q[n].qos = 0 => r[n].state = "COMPLETE",
           Added(c, x, t), x.type = q[n].type, x.qos = q[n].qos, x.id = q[n].id,
           OrderOK(q, st, c, dl), Awaited(q, c, dl), Walked(q, n),
           IsPublish(q[n]) /\ q[n].qos = 2 => WalkedTwo(q, n)
    PROVE  OrderOK(r, st, t, dl) /\ Awaited(r, t, dl)
<1> DEFINE z == Len(c) + 1
<1>1. Len(q) \in Nat /\ DOMAIN q = 1..Len(q) /\ DOMAIN r = 1..Len(q)
  BY LenProperties
<1>2. /\ DOMAIN t = DOMAIN c \cup {z} /\ t[z] = x
      /\ \A i \in DOMAIN c : t[i] = c[i] /\ i < z
      /\ \A i \in DOMAIN c : i \in Int
  BY AddedPackets
<1>3. z \notin DOMAIN c /\ z \in Int
  <2>1. Len(c) \in Nat
    BY LenProperties
  <2> QED BY <2>1, <1>2
<1> HIDE DEF z
<1>4. /\ QueueInOrder(q, st) /\ SentInOrder(q, st, c, dl)
      /\ Known(st, c, dl) /\ WireInOrder(st, c, dl) /\ Ordered(st, dl)
  BY DEF OrderOK
<1>5. \A i \in 1..Len(q) : IsPublish(r[i]) <=> IsPublish(q[i])
  BY DEF Same, IsPublish
<1>6. \A i \in 1..Len(q) : r[i].id = q[i].id /\ r[i].qos = q[i].qos
  BY DEF Same
<1>7. QueueInOrder(r, st)
  BY <1>1, <1>4, <1>5, <1>6 DEF QueueInOrder
<1>8. \A k : Under(k, t, dl) <=> (Under(k, c, dl) \/ IsPub(x, k))
  BY <1>2 DEF Under
<1>9. \A k : IsPub(x, k) <=> IsPublish(q[n]) /\ q[n].id = k
  BY DEF IsPub, IsPublish
<1>10. \A i \in 1..Len(q) : q[i].id \in Nat /\ q[i].qos \in QoS /\ q[i].state \in States
  BY ElementOfSeq, MessageFields
<1>11. SentInOrder(r, st, t, dl)
  <2> SUFFICES ASSUME NEW i \in 1..Len(q), IsPublish(q[i]) PROVE Passed(r[i], st, t, dl)
    BY <1>1, <1>5 DEF SentInOrder
  <2>1. Passed(q[i], st, c, dl)
    BY <1>1, <1>4 DEF SentInOrder
  <2>2. CASE i = n
    <3>1. \A k : k > q[n].id /\ Under(k, t, dl) => Under(k, c, dl)
      BY <1>8, <1>9, <1>10
    <3> QED BY <2>1, <2>2, <3>1, <1>6 DEF Passed
  <2>3. CASE i # n
    <3>1. ASSUME NEW k \in DOMAIN st, k > q[i].id, st[k] = q[i].qos, IsPub(x, k)
          PROVE  q[i].state # "UNSENT" /\ (q[i].qos = 2 => q[i].state = "COMPLETE")
      <4>1. IsPublish(q[n]) /\ q[n].id = k /\ q[n].qos = q[i].qos
        BY <3>1, <1>1, <1>4, <1>9 DEF QueueInOrder
      <4>2. ~(n < i)
        <5>1. ~(q[n].id < q[i].id)
          BY <3>1, <4>1, <1>10
        <5> QED BY <4>1, <5>1, <1>1, <1>4 DEF QueueInOrder
      <4>3. i < n
        BY <4>2, <2>3, <1>1
      <4>4. CASE q[i].qos = 2
        BY <4>1, <4>3, <4>4, <1>1 DEF WalkedTwo
      <4>5. CASE q[i].qos # 2
        BY <4>1, <4>3, <4>5, <1>1 DEF Walked
      <4> QED BY <4>4, <4>5
    <3>2. r[i].state = q[i].state
      BY <2>3
    <3> QED BY <2>1, <3>1, <3>2, <1>6, <1>8 DEF Passed
  <2> QED BY <2>2, <2>3
<1>12. Awaited(r, t, dl)
  <2> SUFFICES ASSUME NEW i \in 1..Len(q), IsPublish(q[i]), q[i].qos = 1,
                      r[i].state = "AWAITING_ACK"
               PROVE  Under(q[i].id, t, dl)
    BY <1>1, <1>5, <1>6 DEF Awaited
  <2>1. CASE i = n
    BY <2>1, <1>8, <1>9
  <2>2. CASE i # n
    BY <2>2, <1>1, <1>8 DEF Awaited
  <2> QED BY <2>1, <2>2
<1>13. Known(st, t, dl)
  <2>1. IsPublish(x) => x.id \in DOMAIN st /\ x.qos = st[x.id]
    BY <1>1, <1>4 DEF QueueInOrder, IsPublish
  <2> QED BY <2>1, <1>2, <1>4 DEF Known
<1>14. ASSUME NEW k \in DOMAIN st, Under(k, c, dl), IsPublish(q[n]), k > q[n].id,
              st[k] = q[n].qos
       PROVE  q[n].qos = 1 /\ Under(q[n].id, c, dl)
  <2>1. Passed(q[n], st, c, dl)
    BY <1>14, <1>1, <1>4 DEF SentInOrder
  <2>2. q[n].state = "AWAITING_ACK"
    BY <2>1, <1>14, <1>10 DEF Passed, States
  <2>3. q[n].qos = 1
    BY <2>1, <2>2, <1>14, <1>10 DEF Passed, QoS
  <2> QED BY <2>2, <2>3, <1>14, <1>1 DEF Awaited
<1>15. WireInOrder(st, t, dl)
  <2>1. ASSUME NEW i \in DOMAIN t, NEW j \in DOMAIN t, i < j, IsPublish(t[i]),
               IsPublish(t[j]), t[i].qos = t[j].qos, t[i].id > t[j].id
        PROVE  t[j].qos = 1 /\ (Member(dl, t[j].id)
                                \/ \E h \in DOMAIN t : h < i /\ IsPub(t[h], t[j].id))
    <3>1. i \in DOMAIN c
      BY <2>1, <1>2, <1>3
    <3>2. CASE j \in DOMAIN c
      BY <2>1, <3>1, <3>2, <1>2, <1>4 DEF WireInOrder
    <3>3. CASE j = z
      <4>1. t[i] = c[i] /\ t[j] = x
        BY <3>1, <3>3, <1>2
      <4>2. c[i].id \in DOMAIN st /\ st[c[i].id] = c[i].qos
        BY <2>1, <3>1, <4>1, <1>4 DEF Known
      <4>3. Under(c[i].id, c, dl)
        BY <2>1, <3>1, <4>1 DEF Under, IsPub, IsPublish
      <4>4. IsPublish(q[n])
        BY <2>1, <4>1 DEF IsPublish
      <4>5. x.qos = 1 /\ Under(x.id, c, dl)
        BY <2>1, <4>1, <4>2, <4>3, <4>4, <1>14
      <4>6. CASE Member(dl, x.id)
        BY <4>1, <4>5, <4>6
      <4>7. CASE \E h \in DOMAIN c : IsPub(c[h], x.id)
        <5>1. PICK h \in DOMAIN c : IsPub(c[h], x.id)
          BY <4>7
        <5>2. CASE h < i
          BY <4>1, <4>5, <5>1, <5>2, <1>2
        <5>3. CASE ~(h < i)
          <6>1. i # h
            BY <2>1, <4>1, <5>1, <1>10 DEF IsPub
          <6>2. i < h
            BY <5>3, <6>1, <3>1, <1>2
          <6>3. IsPublish(c[h]) /\ c[h].id = x.id /\ c[h].qos = x.qos
            <7>1. IsPublish(c[h]) /\ c[h].id = x.id
              BY <5>1 DEF IsPub, IsPublish
            <7>2. c[h].qos = st[x.id]
              BY <7>1, <1>4 DEF Known
            <7>3. x.qos = st[x.id]
              BY <4>4, <1>1, <1>4 DEF QueueInOrder
            <7> QED BY <7>1, <7>2, <7>3
          <6>4. Member(dl, x.id) \/ \E g \in DOMAIN c : g < i /\ IsPub(c[g], x.id)
            BY <2>1, <3>1, <4>1, <6>2, <6>3, <1>4 DEF WireInOrder
          <6> QED BY <4>1, <4>5, <6>4, <1>2
        <5> QED BY <5>2, <5>3
      <4> QED BY <4>5, <4>6, <4>7 DEF Under
    <3> QED BY <3>2, <3>3, <1>2
  <2>2. ASSUME NEW i \in DOMAIN dl, NEW j \in DOMAIN t, IsPublish(t[j]),
               st[dl[i]] = t[j].qos, dl[i] > t[j].id
        PROVE  t[j].qos = 1 /\ Member(dl, t[j].id)
    <3>1. CASE j \in DOMAIN c
      BY <2>2, <3>1, <1>2, <1>4 DEF WireInOrder
    <3>2. CASE j = z
      <4>1. t[j] = x /\ IsPublish(q[n])
        BY <2>2, <3>2, <1>2 DEF IsPublish
      <4>2. dl[i] \in DOMAIN st /\ Under(dl[i], c, dl)
        BY <1>4 DEF Known, Under, Member
      <4>3. x.qos = 1 /\ Under(x.id, c, dl)
        BY <2>2, <4>1, <4>2, <1>14
      <4>4. CASE \E h \in DOMAIN c : IsPub(c[h], x.id)
        <5>1. PICK h \in DOMAIN c : IsPub(c[h], x.id)
          BY <4>4
        <5>2. IsPublish(c[h]) /\ c[h].id = x.id /\ c[h].qos = x.qos
          <6>1. IsPublish(c[h]) /\ c[h].id = x.id
            BY <5>1 DEF IsPub, IsPublish
          <6>2. c[h].qos = st[x.id]
            BY <6>1, <1>4 DEF Known
          <6>3. x.qos = st[x.id]
            BY <4>1, <1>1, <1>4 DEF QueueInOrder
          <6> QED BY <6>1, <6>2, <6>3
        <5> QED BY <2>2, <4>1, <4>3, <5>2, <1>4 DEF WireInOrder
      <4> QED BY <4>1, <4>3, <4>4 DEF Under
    <3> QED BY <3>1, <3>2, <1>2
  <2> QED BY <2>1, <2>2 DEF WireInOrder
<1> QED BY <1>4, <1>7, <1>11, <1>12, <1>13, <1>15 DEF OrderOK

\* The broker takes a packet.  It accepts a QoS 1 message unless it did before, and
\* may leave out a QoS 2 message.
LEMMA OrderAccepted ==
    ASSUME NEW q \in Seq(Message), NEW st \in Seq(QoS),
           NEW c \in Seq(ToBroker), NEW t \in Seq(ToBroker),
           NEW dl \in Seq(Nat), NEW dk \in Seq(Nat),
           Behind(c, t), OrderOK(q, st, c, dl),
           \/ dk = dl /\ (IsPublish(c[1]) => c[1].qos = 2 \/ Member(dl, c[1].id))
           \/ IsPublish(c[1]) /\ Added(dl, c[1].id, dk) /\ (c[1].qos = 1 => ~Member(dl, c[1].id))
    PROVE  OrderOK(q, st, t, dk) /\ (Awaited(q, c, dl) => Awaited(q, t, dk))
<1> DEFINE p == c[1]
           z == Len(dl) + 1
<1>1. /\ DOMAIN c = 1..Len(c) /\ DOMAIN t = 1..Len(t) /\ Len(c) \in Nat /\ Len(t) \in Nat
  BY LenProperties
<1>2. 1 \in DOMAIN c /\ \A h \in DOMAIN c : h \in Int /\ ~(h < 1)
  BY <1>1 DEF Behind
<1>3. \A i \in DOMAIN t : i + 1 \in DOMAIN c /\ t[i] = c[i + 1] /\ i \in Int /\ 1 < i + 1
  BY <1>1 DEF Behind
<1>4. \A h \in DOMAIN c : h = 1 \/ (h - 1 \in DOMAIN t /\ t[h - 1] = c[h])
  BY <1>1 DEF Behind
<1>5. /\ QueueInOrder(q, st) /\ SentInOrder(q, st, c, dl)
      /\ Known(st, c, dl) /\ WireInOrder(st, c, dl) /\ Ordered(st, dl)
  BY DEF OrderOK
<1>6. \A i \in DOMAIN dl : dl[i] \in Nat
  BY ElementOfSeq, LenProperties
<1>7. IsPublish(p) => p.id \in DOMAIN st /\ p.qos = st[p.id]
  BY <1>2, <1>5 DEF Known
<1>18. ASSUME Added(dl, p.id, dk)
       PROVE  /\ DOMAIN dk = DOMAIN dl \cup {z} /\ dk[z] = p.id
              /\ \A i \in DOMAIN dl : dk[i] = dl[i] /\ i < z
              /\ \A i \in DOMAIN dl : i \in Int
  <2> DEFINE x == p.id
  <2>1. Added(dl, x, dk)
    BY <1>18
  <2> HIDE DEF x
  <2>2. /\ DOMAIN dk = DOMAIN dl \cup {z} /\ dk[z] = x
        /\ \A i \in DOMAIN dl : dk[i] = dl[i] /\ i < z
        /\ \A i \in DOMAIN dl : i \in Int
    BY <2>1, AddedPackets
  <2> QED BY <2>2 DEF x
<1>19. \/ dk = dl /\ (IsPublish(p) => p.qos = 2 \/ Member(dl, p.id))
       \/ IsPublish(p) /\ Added(dl, p.id, dk) /\ (p.qos = 1 => ~Member(dl, p.id))
  OBVIOUS
<1>20. c[1] = p
  OBVIOUS
<1> HIDE DEF z, p
\* What is delivered now was, or is the packet taken.
<1>8. \A k : Member(dk, k) => Member(dl, k) \/ (IsPublish(p) /\ k = p.id)
  <2>1. CASE dk = dl
    BY <2>1
  <2>2. CASE Added(dl, p.id, dk) /\ IsPublish(p)
    <3>1. /\ DOMAIN dk = DOMAIN dl \cup {z} /\ dk[z] = p.id
          /\ \A i \in DOMAIN dl : dk[i] = dl[i]
      BY <2>2, <1>18
    <3> QED BY <2>2, <3>1 DEF Member
  <2> QED BY <2>1, <2>2, <1>19
<1>9. \A k : Member(dl, k) => Member(dk, k)
  <2>1. CASE dk = dl
    BY <2>1
  <2>2. CASE Added(dl, p.id, dk)
    <3>1. DOMAIN dk = DOMAIN dl \cup {z} /\ \A i \in DOMAIN dl : dk[i] = dl[i]
      BY <2>2, <1>18
    <3> QED BY <3>1 DEF Member
  <2> QED BY <2>1, <2>2, <1>19
<1>10. IsPublish(p) /\ p.qos = 1 => Member(dk, p.id)
  <2>1. CASE dk = dl /\ (IsPublish(p) => p.qos = 2 \/ Member(dl, p.id))
    BY <2>1
  <2>2. CASE Added(dl, p.id, dk)
    <3>1. DOMAIN dk = DOMAIN dl \cup {z} /\ dk[z] = p.id
      BY <2>2, <1>18
    <3> QED BY <3>1 DEF Member
  <2> QED BY <2>1, <2>2, <1>19
<1>11. \A k : Under(k, t, dk) => Under(k, c, dl)
  <2> SUFFICES ASSUME NEW k, Under(k, t, dk) PROVE Under(k, c, dl)
    OBVIOUS
  <2>1. CASE Member(dk, k)
    BY <2>1, <1>2, <1>8, <1>20 DEF Under, IsPub, IsPublish
  <2>2. CASE \E h \in DOMAIN t : IsPub(t[h], k)
    BY <2>2, <1>3 DEF Under
  <2> QED BY <2>1, <2>2 DEF Under
<1>12. SentInOrder(q, st, t, dk)
  BY <1>5, <1>11 DEF SentInOrder, Passed
<1>13. Awaited(q, c, dl) => Awaited(q, t, dk)
  <2> SUFFICES ASSUME Awaited(q, c, dl), NEW i \in DOMAIN q, IsPublish(q[i]),
                      q[i].qos = 1, q[i].state = "AWAITING_ACK"
               PROVE  Under(q[i].id, t, dk)
    BY DEF Awaited
  <2>1. Under(q[i].id, c, dl)
    BY DEF Awaited
  <2>2. CASE Member(dl, q[i].id)
    BY <2>2, <1>9 DEF Under
  <2>3. CASE \E h \in DOMAIN c : IsPub(c[h], q[i].id)
    <3>1. PICK h \in DOMAIN c : IsPub(c[h], q[i].id)
      BY <2>3
    <3>2. CASE h = 1
      <4>1. IsPublish(p) /\ p.id = q[i].id
        BY <3>1, <3>2, <1>20 DEF IsPub, IsPublish
      <4>2. p.qos = 1
        BY <4>1, <1>5, <1>7 DEF QueueInOrder
      <4> QED BY <4>1, <4>2, <1>10 DEF Under
    <3>3. CASE h # 1
      BY <3>1, <3>3, <1>4 DEF Under
    <3> QED BY <3>2, <3>3
  <2> QED BY <2>1, <2>2, <2>3 DEF Under
<1>14. \A i \in DOMAIN dk : dk[i] \in DOMAIN st
  <2>1. \A i \in DOMAIN dk : Member(dk, dk[i])
    BY DEF Member
  <2>2. \A k : Member(dl, k) => k \in DOMAIN st
    BY <1>5 DEF Known, Member
  <2> QED BY <2>1, <2>2, <1>7, <1>8
<1>15. Known(st, t, dk)
  BY <1>3, <1>5, <1>14 DEF Known
<1>16. WireInOrder(st, t, dk)
  <2>1. ASSUME NEW i \in DOMAIN t, NEW j \in DOMAIN t, i < j, IsPublish(t[i]),
               IsPublish(t[j]), t[i].qos = t[j].qos, t[i].id > t[j].id
        PROVE  t[j].qos = 1 /\ (Member(dk, t[j].id)
                                \/ \E h \in DOMAIN t : h < i /\ IsPub(t[h], t[j].id))
    <3>1. /\ i + 1 < j + 1 /\ i + 1 \in DOMAIN c /\ j + 1 \in DOMAIN c
          /\ t[i] = c[i + 1] /\ t[j] = c[j + 1] /\ i \in Int
      BY <2>1, <1>3
    <3>2. /\ t[j].qos = 1
          /\ \/ Member(dl, t[j].id)
             \/ \E h \in DOMAIN c : h < i + 1 /\ IsPub(c[h], t[j].id)
      <4>1. WireInOrder(st, c, dl)
        BY <1>5
      <4> QED BY <2>1, <3>1, <4>1 DEF WireInOrder
    <3>3. CASE Member(dl, t[j].id)
      BY <3>2, <3>3, <1>9
    <3>4. CASE \E h \in DOMAIN c : h < i + 1 /\ IsPub(c[h], t[j].id)
      <4>1. PICK h \in DOMAIN c : h < i + 1 /\ IsPub(c[h], t[j].id)
        BY <3>4
      <4>2. CASE h = 1
        <5>1. IsPublish(p) /\ p.id = t[j].id
          BY <4>1, <4>2, <1>20 DEF IsPub, IsPublish
        <5>2. p.qos = t[j].qos
          BY <2>1, <5>1, <1>3, <1>5, <1>7 DEF Known
        <5> QED BY <3>2, <5>1, <5>2, <1>10
      <4>3. CASE h # 1
        <5>1. h - 1 \in DOMAIN t /\ t[h - 1] = c[h] /\ h - 1 < i
          <6>1. h \in Int /\ i \in Int /\ h < i + 1
            BY <4>1, <3>1, <1>2
          <6>2. h - 1 \in DOMAIN t /\ t[h - 1] = c[h]
            BY <4>3, <1>4
          <6> QED BY <6>1, <6>2
        <5> QED BY <3>2, <4>1, <5>1
      <4> QED BY <4>2, <4>3
    <3> QED BY <3>2, <3>3, <3>4
  <2>2. ASSUME NEW k, Member(dk, k), NEW j \in DOMAIN t, IsPublish(t[j]),
               st[k] = t[j].qos, k > t[j].id
        PROVE  t[j].qos = 1 /\ Member(dk, t[j].id)
    <3>1. CASE Member(dl, k)
      <4>1. PICK i \in DOMAIN dl : dl[i] = k
        BY <3>1 DEF Member
      <4>2. t[j].qos = 1 /\ Member(dl, t[j].id)
        BY <2>2, <4>1, <1>3, <1>5 DEF WireInOrder
      <4> QED BY <4>2, <1>9
    <3>2. CASE IsPublish(p) /\ k = p.id
      <4>1. p.qos = t[j].qos
        BY <2>2, <3>2, <1>7
      <4>2. t[j].qos = 1 /\ Member(dl, t[j].id)
        <5>1. 1 < j + 1 /\ j + 1 \in DOMAIN c /\ t[j] = c[j + 1] /\ 1 \in DOMAIN c
          BY <1>2, <1>3
        <5>2. WireInOrder(st, c, dl) /\ c[1] = p
          BY <1>5 DEF p
        <5>3. \A h \in DOMAIN c : ~(h < 1)
          BY <1>2
        <5> QED BY <2>2, <3>2, <4>1, <5>1, <5>2, <5>3 DEF WireInOrder
      <4> QED BY <4>2, <1>9
    <3> QED BY <2>2, <3>1, <3>2, <1>8
  <2>3. \A i \in DOMAIN dk : Member(dk, dk[i])
    BY DEF Member
  <2> QED BY <2>1, <2>2, <2>3 DEF WireInOrder
<1>17. Ordered(st, dk)
  <2>1. CASE dk = dl
    BY <2>1, <1>5
  <2>2. CASE IsPublish(p) /\ Added(dl, p.id, dk) /\ (p.qos = 1 => ~Member(dl, p.id))
    <3>1. /\ DOMAIN dk = DOMAIN dl \cup {z} /\ dk[z] = p.id
          /\ \A i \in DOMAIN dl : dk[i] = dl[i] /\ i < z
          /\ \A i \in DOMAIN dl : i \in Int
      BY <2>2, <1>18
    <3>2. z \in Int
      <4>1. Len(dl) \in Nat
        BY LenProperties
      <4> QED BY <4>1 DEF z
    <3> HIDE DEF z
    <3>3. ASSUME NEW i \in DOMAIN dl, st[dl[i]] = p.qos PROVE ~(dl[i] > p.id)
      BY <2>2, <3>3, <1>2, <1>5, <1>20 DEF WireInOrder
    <3>4. p.id \in Nat
      <4>1. p \in ToBroker
        BY <1>1, <1>2, ElementOfSeq DEF p
      <4> QED BY <4>1 DEF ToBroker
    <3>5. ASSUME NEW i \in DOMAIN dk, NEW j \in DOMAIN dk, i < j, st[dk[i]] = st[dk[j]]
          PROVE  dk[i] <= dk[j]
      <4>1. i \in DOMAIN dl
        BY <3>1, <3>2, <3>5
      <4>2. CASE j \in DOMAIN dl
        BY <3>1, <3>5, <4>1, <4>2, <1>5 DEF Ordered
      <4>3. CASE j = z
        <5>1. st[dl[i]] = p.qos /\ dk[i] = dl[i] /\ dk[j] = p.id
          BY <2>2, <3>1, <3>5, <4>1, <4>3, <1>7
        <5>2. ~(dl[i] > p.id) /\ dl[i] \in Nat
          BY <3>3, <4>1, <5>1, <1>6
        <5> QED BY <3>4, <5>1, <5>2
      <4> QED BY <3>1, <4>2, <4>3
    <3> QED BY <3>5 DEF Ordered
  <2> QED BY <2>1, <2>2, <1>19
<1> QED BY <1>5, <1>12, <1>13, <1>15, <1>16, <1>17 DEF OrderOK

\* The connection is gone with all that was under way.
LEMMA OrderSilent ==
    ASSUME NEW q, NEW st, NEW c, NEW dl, OrderOK(q, st, c, dl)
    PROVE  OrderOK(q, st, <<>>, dl)
<1>1. DOMAIN <<>> = {}
  OBVIOUS
<1>2. \A k : Under(k, <<>>, dl) => Under(k, c, dl)
  BY <1>1 DEF Under
<1>3. SentInOrder(q, st, <<>>, dl)
  BY <1>2 DEF OrderOK, SentInOrder, Passed
<1>4. Known(st, <<>>, dl)
  BY <1>1 DEF OrderOK, Known
<1>5. WireInOrder(st, <<>>, dl)
  BY <1>1 DEF WireInOrder
<1> QED BY <1>3, <1>4, <1>5 DEF OrderOK

\* Nothing but a CONNECT is queued.
LEMMA OrderNew ==
    ASSUME NEW q, NEW st, NEW dl, OrderOK(q, st, <<>>, dl),
           NEW m, ~IsPublish(m)
    PROVE  OrderOK(<<m>>, st, <<>>, dl) /\ Awaited(<<m>>, <<>>, dl)
<1>1. DOMAIN <<m>> = {1} /\ <<m>>[1] = m
  OBVIOUS
<1>2. QueueInOrder(<<m>>, st) /\ SentInOrder(<<m>>, st, <<>>, dl) /\ Awaited(<<m>>, <<>>, dl)
  BY <1>1 DEF QueueInOrder, SentInOrder, Awaited
<1> QED BY <1>2 DEF OrderOK

-----------------------------------------------------------------------------

-----------------------------------------------------------------------------
(* What the steps of the client have in common.                             *)

\* A step completes no PUBREC and adds neither a PUBLISH nor a PUBREC.
Plain(q, C, ms) ==
    /\ Fresh(q, C, ms, {})
    /\ Len(ms) = 1 => ms[1].type \notin {"PUBLISH", "PUBREC"}

\* Nothing is completed or staged.
LEMMA PlainNothing ==
    ASSUME NEW q
    PROVE  Plain(q, {}, <<>>)
<1>1. <<>> \in Seq(Message) /\ Len(<<>>) = 0
  BY EmptySeq
<1> QED BY <1>1 DEF Plain, Fresh

\* One message is staged.
LEMMA PlainMessage ==
    ASSUME NEW q, NEW m \in Message, m.type \notin {"PUBLISH", "PUBREC"}
    PROVE  Plain(q, {}, <<m>>)
<1>1. <<m>> \in Seq(Message) /\ Len(<<m>>) = 1 /\ <<m>>[1] = m
  OBVIOUS
<1> QED BY <1>1 DEF Plain, Fresh

\* The invariant after a step that moves only the client.
LEMMA ClientMoves ==
    ASSUME IInv, UNCHANGED <<plan, net, conns, broker, staged, delivered, pushed, called>>,
           ClientShape', Walk', NEW C, NEW ms,
           QStep(queue, queue', C, ms), Plain(queue, C, ms)
    PROVE  IInv'
<1>1. queue \in Seq(Message) /\ Len(queue) <= QueueCap
  BY DEF IInv, Shape, QueueShape
<1>2. QueueShape'
  BY DEF QStep, QueueShape
<1>3. NetShape' /\ BrokerShape' /\ HistShape'
  BY DEF IInv, Shape, NetShape, BrokerShape, HistShape, net
<1>4. CallInv'
  <2>1. CallOK(queue, b2c, broker.out, pushed, called)
    BY DEF IInv, CallInv
  <2>2. OneRec(queue)
    BY <2>1 DEF CallOK
  <2>3. RecKept(queue, queue', {})
    BY <1>1, <2>2, StepKeepsRec DEF Plain
  <2>4. CallOK(queue', b2c, broker.out, pushed, called)
    BY <2>1, <2>3, CallLocal
  <2> QED BY <2>4 DEF CallInv, net
<1>5. OrderInv'
  <2>1. OrderOK(queue, staged, c2b, delivered)
        /\ (link => Awaited(queue, c2b, delivered))
    BY DEF IInv, OrderInv
  <2>2. /\ Len(ms) = 1 => ~IsPublish(ms[1])
        /\ ms \in Seq(Message) /\ Len(ms) \in {0, 1}
    BY DEF IsPublish, Plain, Fresh
  <2>3. OrderOK(queue', staged, c2b, delivered)
        /\ (Awaited(queue, c2b, delivered) => Awaited(queue', c2b, delivered))
    BY <1>1, <2>1, <2>2, OrderLocal
  <2> QED BY <2>1, <2>3 DEF OrderInv, net
<1> QED BY <1>2, <1>3, <1>4, <1>5 DEF IInv, Shape

\* A step of the client that leaves the queue alone.
LEMMA ClientRests ==
    ASSUME IInv, UNCHANGED <<plan, queue, net, conns, broker, history>>, ClientShape', Walk'
    PROVE  IInv'
<1>1. QStep(queue, queue', {}, <<>>)
  BY NoStep DEF IInv, Shape, QueueShape
<1>2. UNCHANGED <<plan, net, conns, broker, staged, delivered, pushed, called>>
  BY DEF history
<1> QED BY <1>1, <1>2, PlainNothing, ClientMoves

\* Staging a request outside mqtt_sync.
LEMMA StageSteps ==
    ASSUME IInv, NEW m \in Message, Stage(m)
    PROVE  \/ error' = "OK" /\ QStep(queue, queue', {}, <<m>>)
           \/ error' = "SEND_BUFFER_IS_FULL" /\ QStep(queue, queue', {}, <<>>)
<1>1. queue \in Seq(Message) /\ Len(queue) <= QueueCap
  BY DEF IInv, Shape, QueueShape
<1> QED BY <1>1, TryPackSteps DEF Stage

\* A request that is neither a PUBLISH nor a PUBREC is staged at rest.
LEMMA RequestStaged ==
    ASSUME IInv, NEW m \in Message, m.type \notin {"PUBLISH", "PUBREC"}, Stage(m), AtRest,
           lfsr' \in 0..NPid,
           UNCHANGED <<plan, idle, pc, net, conns, broker, staged, delivered, pushed, called>>
    PROVE  IInv'
<1>1. ClientShape'
  BY StageSteps DEF IInv, Shape, ClientShape, Errors
<1>2. Walk'
  BY DEF AtRest, Walk
<1>3. CASE QStep(queue, queue', {}, <<m>>)
  BY <1>1, <1>2, <1>3, PlainMessage, ClientMoves
<1>4. CASE QStep(queue, queue', {}, <<>>)
  BY <1>1, <1>2, <1>4, PlainNothing, ClientMoves
<1> QED BY <1>3, <1>4, StageSteps

\* mqtt_subscribe and mqtt_unsubscribe.
LEMMA SubscribeKeeps ==
    ASSUME IInv, UNCHANGED plan, NEW type \in plan.requests, mqtt_subscribe(type)
    PROVE  IInv'
<1>1. PICK p \in __mqtt_next_pid : lfsr' = p /\ Stage(Msg(type, p, 0, 0))
  BY DEF mqtt_subscribe
<1>2. p \in 0..NPid
  BY ClientAssumption DEF __mqtt_next_pid, Pids
<1>3. type \in {"SUBSCRIBE", "UNSUBSCRIBE"}
  <2>1. plan \in PlanType
    BY ClientAssumption DEF IInv, Shape, BrokerShape
  <2> QED BY <2>1 DEF PlanType
<1> DEFINE m == Msg(type, p, 0, 0)
<1>4. m \in Message /\ m.type = type
  <2>1. type \in Types /\ 0 \in QoS /\ 0 \in Nat
    BY <1>3 DEF Types, QoS
  <2> QED BY <1>2, <2>1, NewMessage
<1>5. Stage(m) /\ AtRest
  BY <1>1 DEF mqtt_subscribe
<1>6. UNCHANGED <<plan, idle, pc, net, conns, broker, staged, delivered, pushed, called>>
  BY DEF mqtt_subscribe
<1>7. lfsr' \in 0..NPid
  BY <1>1, <1>2
<1> HIDE DEF m
<1> QED BY <1>3, <1>4, <1>5, <1>6, <1>7, RequestStaged

\* mqtt_disconnect.
LEMMA DisconnectKeeps ==
    ASSUME IInv, UNCHANGED plan, mqtt_disconnect
    PROVE  IInv'
<1> DEFINE m == Msg("DISCONNECT", 0, 0, 0)
<1>1. m \in Message /\ m.type = "DISCONNECT"
  <2>1. "DISCONNECT" \in Types /\ 0 \in QoS /\ 0 \in Nat /\ 0 \in 0..NPid
    BY ClientAssumption DEF Types, Unidentified, QoS
  <2> QED BY <2>1, NewMessage
<1>2. Stage(m) /\ AtRest
  BY DEF mqtt_disconnect
<1>3. UNCHANGED <<plan, idle, pc, net, conns, broker, staged, delivered, pushed, called>>
  BY DEF mqtt_disconnect
<1>4. lfsr' \in 0..NPid
  BY DEF mqtt_disconnect, IInv, Shape, ClientShape
<1> HIDE DEF m
<1> QED BY <1>1, <1>2, <1>3, <1>4, RequestStaged

\* mqtt_publish.
LEMMA PublishKeeps ==
    ASSUME IInv, UNCHANGED plan, NEW qos \in QoS, mqtt_publish(qos)
    PROVE  IInv'
<1>1. PICK p \in __mqtt_next_pid :
        lfsr' = p /\ Stage(Msg("PUBLISH", p, qos, Len(staged) + 1))
  BY DEF mqtt_publish
<1>2. p \in 0..NPid
  BY ClientAssumption DEF __mqtt_next_pid, Pids
<1>3. queue \in Seq(Message) /\ staged \in Seq(QoS) /\ Len(staged) \in Nat
  BY LenProperties DEF IInv, Shape, QueueShape, HistShape
<1> DEFINE m == Msg("PUBLISH", p, qos, Len(staged) + 1)
<1>4. /\ m \in Message /\ m.type = "PUBLISH" /\ m.qos = qos /\ m.id = Len(staged) + 1
      /\ m.state = "UNSENT"
  <2>1. "PUBLISH" \in Types /\ Len(staged) + 1 \in Nat
    BY <1>3 DEF Types
  <2> QED BY <1>2, <2>1, NewMessage
<1>5. Stage(m)
  BY <1>1
<1> HIDE DEF m
<1>6. /\ UNCHANGED <<plan, idle, pc, net, conns, broker, delivered, pushed, called>>
      /\ staged' = IF error' = "OK" THEN Append(staged, qos) ELSE staged
      /\ pc.at = "rest"
  BY DEF mqtt_publish, AtRest
<1>7. lfsr' \in 0..NPid
  BY <1>1, <1>2
<1>8. ClientShape'
  BY <1>5, <1>4, <1>6, <1>7, StageSteps DEF IInv, Shape, ClientShape, Errors
<1>9. Walk'
  BY <1>6 DEF Walk
<1>10. CASE error' = "OK" /\ QStep(queue, queue', {}, <<m>>)
  <2>1. staged' = Append(staged, qos)
    BY <1>6, <1>10
  <2>2. staged' \in Seq(QoS) /\ Added(staged, qos, staged')
    BY <1>3, <2>1, AppendProperties DEF Added
  <2>3. QueueShape'
    BY <1>10 DEF QStep, QueueShape
  <2>4. NetShape' /\ BrokerShape' /\ HistShape'
    BY <1>6, <2>2 DEF IInv, Shape, NetShape, BrokerShape, HistShape, net
  <2>5. <<m>> \in Seq(Message) /\ Len(<<m>>) = 1 /\ <<m>>[1] = m
    BY <1>4
  <2>6. CallInv'
    <3>1. CallOK(queue, b2c, broker.out, pushed, called) /\ OneRec(queue)
      BY DEF IInv, CallInv, CallOK
    <3>2. Fresh(queue, {}, <<m>>, {})
      BY <1>4, <2>5 DEF Fresh
    <3>4. RecKept(queue, queue', {})
      BY <1>3, <1>10, <3>1, <3>2, StepKeepsRec
    <3>5. CallOK(queue', b2c, broker.out, pushed, called)
      BY <3>1, <3>4, CallLocal
    <3> QED BY <1>6, <3>5 DEF CallInv, net
  <2>7. OrderInv'
    <3>1. OrderOK(queue, staged, c2b, delivered)
          /\ (link => Awaited(queue, c2b, delivered))
      BY DEF IInv, OrderInv
    <3>2. OrderOK(queue', staged', c2b, delivered)
          /\ (Awaited(queue, c2b, delivered) => Awaited(queue', c2b, delivered))
      BY <1>3, <1>4, <1>10, <2>2, <3>1, OrderStaged
    <3> QED BY <1>6, <1>9, <3>1, <3>2 DEF OrderInv, net
  <2> QED BY <1>8, <2>3, <2>4, <2>6, <2>7 DEF IInv, Shape
<1>11. CASE error' = "SEND_BUFFER_IS_FULL" /\ QStep(queue, queue', {}, <<>>)
  <2>1. UNCHANGED <<plan, net, conns, broker, staged, delivered, pushed, called>>
    BY <1>6, <1>11
  <2> QED BY <1>8, <1>9, <1>11, <2>1, PlainNothing, ClientMoves
<1> QED BY <1>4, <1>5, <1>10, <1>11, StageSteps

-----------------------------------------------------------------------------
(* mqtt_sync but for the packets it receives, and time.                     *)

\* The places of mqtt_sync.
LEMMA Places ==
    ASSUME NEW p \in Place, NEW a \in {"rest", "recv", "send", "failed"}
    PROVE  [p EXCEPT !.at = a] \in Place /\ [p EXCEPT !.at = a].at = a
           /\ p.i \in 0..(QueueCap + 1) /\ p.qos2 \in BOOLEAN
           /\ [p EXCEPT !.at = a].i = p.i
BY DEF Place

\* mqtt_sync starts.
LEMMA SyncStartKeeps ==
    ASSUME IInv, UNCHANGED plan, SyncStart
    PROVE  IInv'
<1>1. ClientShape'
  BY ClientAssumption DEF SyncStart, IInv, Shape, ClientShape, Place
<1>2. Walk'
  BY DEF SyncStart, Walk
<1> QED BY <1>1, <1>2, ClientRests DEF SyncStart

\* mqtt_sync ends in an error.
LEMMA FailShape ==
    ASSUME ClientShape, NEW e \in Errors, Fail(e), UNCHANGED <<lfsr, idle>>
    PROVE  ClientShape' /\ Walk'
<1>1. pc' \in Place /\ pc'.at = "failed"
  BY Places DEF Fail, ClientShape
<1> QED BY <1>1 DEF ClientShape, Fail, Walk

\* The socket is closed before or while mqtt_sync receives.
LEMMA RecvErrorKeeps ==
    ASSUME IInv, UNCHANGED plan, RecvError
    PROVE  IInv'
<1>1. Fail("SOCKET_ERROR") /\ UNCHANGED <<queue, lfsr, idle, net, conns, broker, history>>
  BY DEF RecvError
<1>2. "SOCKET_ERROR" \in Errors /\ ClientShape
  BY DEF Errors, IInv, Shape
<1>3. ClientShape' /\ Walk'
  BY <1>1, <1>2, FailShape
<1> QED BY <1>1, <1>3, ClientRests

\* The socket is closed while mqtt_sync sends.
LEMMA SendErrorKeeps ==
    ASSUME IInv, UNCHANGED plan, SendError
    PROVE  IInv'
<1>1. Fail("SOCKET_ERROR") /\ UNCHANGED <<queue, lfsr, idle, net, conns, broker, history>>
  BY DEF SendError
<1>2. "SOCKET_ERROR" \in Errors /\ ClientShape
  BY DEF Errors, IInv, Shape
<1>3. ClientShape' /\ Walk'
  BY <1>1, <1>2, FailShape
<1> QED BY <1>1, <1>3, ClientRests

\* From receiving to sending.
LEMMA RecvDoneKeeps ==
    ASSUME IInv, UNCHANGED plan, RecvDone
    PROVE  IInv'
<1>1. UNCHANGED <<queue, error, lfsr, idle, net, conns, broker, history>>
  BY DEF RecvDone
<1>2. pc \in Place /\ queue \in Seq(Message)
  BY DEF IInv, Shape, ClientShape, QueueShape
<1>3. CASE pc' = [at |-> "send", i |-> 1, qos2 |-> FALSE]
  <2>1. ClientShape'
    BY <1>1, <1>3, ClientAssumption DEF IInv, Shape, ClientShape, Place
  <2>2. \A i \in DOMAIN queue : ~(i < 1)
    BY <1>2, LenProperties
  <2>3. Walk'
    BY <1>1, <1>3, <2>2 DEF Walk, Walked, WalkedTwo
  <2> QED BY <1>1, <2>1, <2>3, ClientRests
<1>4. CASE pc' = [pc EXCEPT !.at = "failed"]
  <2>1. pc' \in Place /\ pc'.at = "failed"
    BY <1>2, <1>4, Places
  <2>2. ClientShape' /\ Walk'
    BY <1>1, <2>1 DEF IInv, Shape, ClientShape, Walk
  <2> QED BY <1>1, <2>2, ClientRests
<1> QED BY <1>3, <1>4 DEF RecvDone

\* The walk after message m at its place: what it passed keeps Walk.
LEMMA WalkOn ==
    ASSUME QueueShape, ClientShape, Walk, Sending, NEW m, m = queue[pc.i], NextMessage(m)
    PROVE  /\ pc.i \in 1..Len(queue) /\ m \in Message
           /\ pc' \in Place /\ pc'.at = "send" /\ pc'.i = pc.i + 1
           /\ Walked(queue, pc.i)
           /\ ~pc.qos2 => WalkedTwo(queue, pc.i)
           /\ ~pc'.qos2 => ~pc.qos2 /\ ~Qos2Open(m)
<1>1. queue \in Seq(Message) /\ Len(queue) \in Nat /\ Len(queue) <= QueueCap
  BY LenProperties DEF QueueShape
<1>2. pc \in Place /\ pc.at = "send" /\ pc.i >= 1 /\ pc.i <= Len(queue)
  BY DEF ClientShape, Sending
<1>3. pc.i \in Nat /\ pc.qos2 \in BOOLEAN
  BY <1>2 DEF Place
<1>4. pc.i \in 1..Len(queue)
  BY <1>1, <1>2, <1>3
<1>5. m \in Message
  BY <1>1, <1>4, ElementOfSeq
<1>6. (pc.qos2 \/ Qos2Open(m)) \in BOOLEAN
  OBVIOUS
<1>7. pc' = [pc EXCEPT !.i = pc.i + 1, !.qos2 = pc.qos2 \/ Qos2Open(m)]
  BY DEF NextMessage
<1>8. pc.i + 1 \in 0..(QueueCap + 1)
  BY <1>1, <1>4, ClientAssumption
<1>9. /\ pc' \in Place /\ pc'.at = "send" /\ pc'.i = pc.i + 1
      /\ pc'.qos2 = (pc.qos2 \/ Qos2Open(m))
  BY <1>2, <1>6, <1>7, <1>8 DEF Place
<1> QED BY <1>2, <1>4, <1>5, <1>9 DEF Walk

\* A message that needs no sending is passed.
LEMMA SendSkipKeeps ==
    ASSUME IInv, UNCHANGED plan, SendSkip
    PROVE  IInv'
<1> DEFINE m == queue[pc.i]
<1>1. /\ Sending /\ ~NeedsSend(m) /\ NextMessage(m)
      /\ UNCHANGED <<queue, error, lfsr, idle, net, conns, broker, history>>
  BY DEF SendSkip
<1>2. QueueShape /\ ClientShape /\ Walk
  BY DEF IInv, Shape, OrderInv
<1> HIDE DEF m
<1>0. m = queue[pc.i]
  BY DEF m
<1>3. /\ pc.i \in 1..Len(queue) /\ m \in Message
      /\ pc' \in Place /\ pc'.at = "send" /\ pc'.i = pc.i + 1
      /\ Walked(queue, pc.i)
      /\ ~pc.qos2 => WalkedTwo(queue, pc.i)
      /\ ~pc'.qos2 => ~pc.qos2 /\ ~Qos2Open(m)
  BY <1>0, <1>1, <1>2, WalkOn
<1>4. pc.i \in Nat /\ queue \in Seq(Message) /\ DOMAIN queue = 1..Len(queue) /\ Len(queue) \in Nat
  BY <1>2, <1>3, LenProperties DEF QueueShape
<1>5. ClientShape'
  BY <1>1, <1>2, <1>3, <1>4 DEF ClientShape
<1>6. \A i \in DOMAIN queue : i < pc.i + 1 => i < pc.i \/ queue[i] = m
  BY <1>0, <1>4
<1>7. IsPublish(m) /\ m.qos # 2 => m.state # "UNSENT"
  BY <1>1 DEF NeedsSend, Qos2Open, IsPublish
<1>8. IsPublish(m) /\ m.qos = 2 /\ ~pc'.qos2 => m.state = "COMPLETE"
  BY <1>3 DEF Qos2Open, IsPublish
<1>9. Walked(queue, pc.i + 1)
  BY <1>3, <1>6, <1>7 DEF Walked
<1>10. ~pc'.qos2 => WalkedTwo(queue, pc.i + 1)
  BY <1>3, <1>6, <1>8 DEF WalkedTwo
<1>11. Walk'
  BY <1>1, <1>3, <1>9, <1>10 DEF Walk
<1> QED BY <1>1, <1>5, <1>11, ClientRests

\* What the end of the walk does to the queue.
LEMMA KeepAliveSteps ==
    ASSUME IInv, KeepAliveCheck
    PROVE  /\ error' \in Errors
           /\ \E ms \in Seq(Message) :
                 /\ QStep(queue, queue', {}, ms)
                 /\ Len(ms) \in {0, 1} /\ (Len(ms) = 1 => ms[1].type = "PINGREQ")
<1> DEFINE m == Msg("PINGREQ", 0, 0, 0)
<1>1. m \in Message /\ m.type = "PINGREQ"
  <2>1. "PINGREQ" \in Types /\ 0 \in QoS /\ 0 \in Nat /\ 0 \in 0..NPid
    BY ClientAssumption DEF Types, Unidentified, QoS
  <2> QED BY <2>1, NewMessage
<1>2. queue \in Seq(Message) /\ Len(queue) <= QueueCap /\ error \in Errors
  BY DEF IInv, Shape, ClientShape, QueueShape
<1>3. \/ error' \in Errors /\ QStep(queue, queue', {}, <<m>>)
      \/ error' \in Errors /\ QStep(queue, queue', {}, <<>>)
  <2>1. QStep(queue, queue, {}, <<>>)
    BY <1>2, NoStep
  <2>2. CASE UNCHANGED <<queue, error>>
    BY <2>1, <2>2, <1>2
  <2>3. CASE error = "OK" /\ queue' = TryPack(queue, m).queue /\ error' = TryPack(queue, m).error
    <3>1. \/ TryPack(queue, m).error = "OK" /\ QStep(queue, TryPack(queue, m).queue, {}, <<m>>)
          \/ /\ TryPack(queue, m).error = "SEND_BUFFER_IS_FULL"
             /\ QStep(queue, TryPack(queue, m).queue, {}, <<>>)
      BY <1>1, <1>2, TryPackSteps
    <3> QED BY <2>3, <3>1 DEF Errors
  <2> QED BY <2>2, <2>3 DEF KeepAliveCheck
<1> HIDE DEF m
<1>4. <<m>> \in Seq(Message) /\ Len(<<m>>) = 1 /\ <<m>>[1] = m
  BY <1>1
<1>5. <<>> \in Seq(Message) /\ Len(<<>>) = 0
  BY EmptySeq
<1>6. CASE QStep(queue, queue', {}, <<m>>)
  BY <1>1, <1>3, <1>4, <1>6
<1>7. CASE QStep(queue, queue', {}, <<>>)
  <2> DEFINE ms == <<>>
  <2>1. ms \in Seq(Message) /\ Len(ms) = 0 /\ QStep(queue, queue', {}, ms)
    BY <1>5, <1>7
  <2> HIDE DEF ms
  <2>2. Len(ms) \in {0, 1} /\ Len(ms) # 1
    BY <2>1
  <2> QED BY <1>3, <2>1, <2>2
<1> QED BY <1>3, <1>6, <1>7

\* The end of the walk.
LEMMA KeepAliveCheckKeeps ==
    ASSUME IInv, UNCHANGED plan, KeepAliveCheck
    PROVE  IInv'
<1>1. UNCHANGED <<plan, lfsr, idle, net, conns, broker, history>>
  BY DEF KeepAliveCheck
<1>2. pc \in Place /\ lfsr \in 0..NPid /\ idle \in 0..(KeepAlive + 1)
  BY DEF IInv, Shape, ClientShape
<1>3. pc' \in Place /\ pc'.at \in {"rest", "failed"}
  <2>1. \E a \in {"rest", "failed"} : pc' = [pc EXCEPT !.at = a]
    BY DEF KeepAliveCheck
  <2>2. PICK a \in {"rest", "failed"} : pc' = [pc EXCEPT !.at = a]
    BY <2>1
  <2> QED BY <1>2, <2>2, Places
<1>4. error' \in Errors
  BY KeepAliveSteps
<1>5. PICK ms \in Seq(Message) :
         /\ QStep(queue, queue', {}, ms)
         /\ Len(ms) \in {0, 1} /\ (Len(ms) = 1 => ms[1].type = "PINGREQ")
  BY KeepAliveSteps
<1>6. ClientShape' /\ Walk'
  BY <1>1, <1>2, <1>3, <1>4 DEF ClientShape, Walk
<1>7. UNCHANGED <<plan, net, conns, broker, staged, delivered, pushed, called>>
  BY <1>1 DEF history
<1>8. Plain(queue, {}, ms)
  BY <1>5 DEF Plain, Fresh
<1> QED BY <1>5, <1>6, <1>7, <1>8, ClientMoves

\* Time makes the messages older, and nothing else.
LEMMA TickSteps ==
    ASSUME IInv, Tick
    PROVE  /\ QStep(queue, queue', {}, <<>>) /\ DOMAIN queue' = DOMAIN queue
           /\ \A i \in DOMAIN queue : /\ Same(queue[i], queue'[i])
                                     /\ queue'[i].state = queue[i].state
<1>1. /\ queue \in Seq(Message) /\ Len(queue) <= QueueCap /\ Len(queue) \in Nat
      /\ DOMAIN queue = 1..Len(queue)
  BY LenProperties DEF IInv, Shape, QueueShape
<1> DEFINE n(i) == IF queue[i].state # "AWAITING_ACK" THEN queue[i]
                   ELSE [queue[i] EXCEPT !.age = Older(@, ResponseTimeout)]
<1>2. queue' = [i \in 1..Len(queue) |-> n(i)]
  BY <1>1 DEF Tick
<1>3. ASSUME NEW i \in 1..Len(queue)
      PROVE  n(i) \in Message /\ Same(queue[i], n(i)) /\ n(i).state = queue[i].state
  <2>1. queue[i] \in Message
    BY <1>1, ElementOfSeq
  <2>2. Older(queue[i].age, ResponseTimeout) \in 0..(ResponseTimeout + 1)
    BY <2>1, ClientAssumption DEF Older, Message
  <2> QED BY <2>1, <2>2 DEF Message, Same
<1> HIDE DEF n
<1>4. queue' \in Seq(Message) /\ Len(queue') = Len(queue)
  <2>1. queue' \in [1..Len(queue) -> Message]
    BY <1>2, <1>3
  <2>2. queue' \in Seq(Message)
    BY <1>1, <2>1, SeqDef
  <2> QED BY <1>1, <1>2, <2>2, LenProperties
<1>5. \A i \in 1..Len(queue) : queue'[i] = n(i)
  BY <1>2
<1>6. Moved(queue, queue', 0, <<>>)
  BY <1>1, <1>3, <1>4, <1>5 DEF Moved
<1>7. Forward(queue, queue', 0, {})
  BY <1>1, <1>3, <1>4, <1>5 DEF Forward
<1>8. QStep(queue, queue', {}, <<>>)
  BY <1>1, <1>4, <1>6, <1>7 DEF QStep
<1>9. DOMAIN queue' = 1..Len(queue)
  BY <1>2
<1> QED BY <1>1, <1>3, <1>5, <1>8, <1>9

\* Time passes.
LEMMA TickKeeps ==
    ASSUME IInv, UNCHANGED plan, Tick
    PROVE  IInv'
<1>1. /\ idle' = Older(idle, KeepAlive) /\ idle \in 0..(KeepAlive + 1)
      /\ UNCHANGED <<error, lfsr, pc, net, conns, broker, history>>
  BY DEF Tick, IInv, Shape, ClientShape
<1>2. QStep(queue, queue', {}, <<>>)
  BY TickSteps
<1>3. ClientShape'
  BY <1>1, ClientAssumption DEF IInv, Shape, ClientShape, Older
<1>4. Walk'
  <2>1. DOMAIN queue' = DOMAIN queue
    BY TickSteps
  <2>2. \A i \in DOMAIN queue : /\ IsPublish(queue'[i]) <=> IsPublish(queue[i])
                               /\ queue'[i].qos = queue[i].qos
                               /\ queue'[i].state = queue[i].state
    BY TickSteps DEF Same, IsPublish
  <2>3. Walk
    BY DEF IInv, OrderInv
  <2>4. \A k : Walked(queue, k) => Walked(queue', k)
    BY <2>1, <2>2 DEF Walked
  <2>5. \A k : WalkedTwo(queue, k) => WalkedTwo(queue', k)
    BY <2>1, <2>2 DEF WalkedTwo
  <2> QED BY <1>1, <2>3, <2>4, <2>5 DEF Walk
<1>5. UNCHANGED <<plan, net, conns, broker, staged, delivered, pushed, called>>
  BY <1>1 DEF history
<1> QED BY <1>2, <1>3, <1>4, <1>5, PlainNothing, ClientMoves

\* The record of a message that was sent.
LEMMA SentRecord ==
    ASSUME NEW m \in Message, NEW dup \in BOOLEAN, NEW w,
           w = [m EXCEPT !.state = StateAfterSend(m), !.age = 0, !.dup = dup]
    PROVE  w \in Message /\ w.state = StateAfterSend(m) /\ Same(m, w)
<1>1. StateAfterSend(m) \in States
  BY DEF StateAfterSend, States
<1>2. 0 \in 0..(ResponseTimeout + 1)
  BY ClientAssumption
<1> QED BY <1>1, <1>2 DEF Message, Same

\* The packet of a message.
PacketOf(m) == [type |-> m.type, pid |-> m.pid, qos |-> m.qos, id |-> m.id, dup |-> m.dup]

\* What sending message m, at place n of the queue, does to the queue and the packets.
LEMMA SendSteps ==
    ASSUME IInv, SendMessage, NEW n, n = pc.i, NEW m, m = queue[n]
    PROVE  /\ n \in 1..Len(queue) /\ m \in Message
           /\ queue' \in Seq(Message) /\ Len(queue') = Len(queue)
           /\ DOMAIN queue = 1..Len(queue) /\ DOMAIN queue' = 1..Len(queue)
           /\ \A i \in 1..Len(queue) : Same(queue[i], queue'[i])
           /\ \A i \in 1..Len(queue) : i # n => queue'[i].state = queue[i].state
           /\ queue'[n].state = StateAfterSend(m)
           /\ m.state # "COMPLETE"
           /\ PacketOf(m) \in ToBroker /\ c2b \in Seq(ToBroker) /\ c2b' \in Seq(ToBroker)
           /\ Added(c2b, PacketOf(m), c2b') /\ Len(c2b') = Len(c2b) + 1
<1> DEFINE x == PacketOf(m)
<1>1. /\ Sending /\ NeedsSend(m) /\ NextMessage(m)
      /\ c2b' = Append(c2b, x)
      /\ queue' = [queue EXCEPT ![n] =
                     [m EXCEPT !.state = StateAfterSend(m), !.age = 0,
                               !.dup = m.dup \/ (m.type = "PUBLISH" /\ m.qos = 1)]]
  BY DEF SendMessage, PacketOf
<1>2. QueueShape /\ ClientShape /\ Walk /\ c2b \in Seq(ToBroker)
  BY DEF IInv, Shape, OrderInv, NetShape
<1>3. m = queue[pc.i]
  OBVIOUS
<1>4. n \in 1..Len(queue) /\ m \in Message
  BY <1>1, <1>2, <1>3, WalkOn
<1>5. x \in ToBroker
  BY <1>4 DEF Message, ToBroker, PacketOf
<1> HIDE DEF x
<1>6. queue \in Seq(Message) /\ DOMAIN queue = 1..Len(queue)
  BY <1>2, LenProperties DEF QueueShape
<1> DEFINE dup == m.dup \/ (m.type = "PUBLISH" /\ m.qos = 1)
           w   == [m EXCEPT !.state = StateAfterSend(m), !.age = 0, !.dup = dup]
<1>7. queue' = [queue EXCEPT ![n] = w]
  BY <1>1
<1>8. dup \in BOOLEAN
  OBVIOUS
<1>9. w = [m EXCEPT !.state = StateAfterSend(m), !.age = 0, !.dup = dup]
  OBVIOUS
<1> HIDE DEF dup, w
<1>10. w \in Message /\ w.state = StateAfterSend(m) /\ Same(m, w)
  BY <1>4, <1>8, <1>9, SentRecord
<1>11. queue' \in Seq(Message) /\ Len(queue') = Len(queue)
  BY <1>4, <1>6, <1>7, <1>10, ExceptSeq
<1>12. \A i \in 1..Len(queue) : queue'[i] = IF i = n THEN w ELSE queue[i]
  BY <1>4, <1>6, <1>7, <1>10, ExceptSeq
<1>13. DOMAIN queue' = 1..Len(queue)
  BY <1>11, LenProperties
<1>14. m.state # "COMPLETE"
  BY <1>1 DEF NeedsSend
<1>15. c2b' \in Seq(ToBroker) /\ Added(c2b, x, c2b') /\ Len(c2b') = Len(c2b) + 1
  BY <1>1, <1>2, <1>5, AppendProperties DEF Added
<1>16. /\ \A i \in 1..Len(queue) : Same(queue[i], queue'[i])
       /\ \A i \in 1..Len(queue) : i # n => queue'[i].state = queue[i].state
       /\ queue'[n].state = StateAfterSend(m)
  BY <1>4, <1>10, <1>12 DEF Same
<1> QED BY <1>2, <1>4, <1>5, <1>6, <1>11, <1>13, <1>14, <1>15, <1>16 DEF x

\* A message is sent, for the first time or after its timeout.
LEMMA SendMessageKeeps ==
    ASSUME IInv, UNCHANGED plan, SendMessage
    PROVE  IInv'
<1> DEFINE m == queue[pc.i]
           x == PacketOf(m)
           n == pc.i
<1>1. /\ Sending /\ link /\ Len(c2b) < plan.chan /\ NeedsSend(m) /\ NextMessage(m)
      /\ idle' = 0
      /\ UNCHANGED <<plan, error, lfsr, b2c, link, conns, broker, history>>
  BY DEF SendMessage
<1>2. QueueShape /\ ClientShape /\ NetShape /\ BrokerShape /\ HistShape /\ Walk
  BY DEF IInv, Shape, OrderInv
<1>3. m = queue[pc.i]
  OBVIOUS
<1>4. x.type = m.type /\ x.qos = m.qos /\ x.id = m.id
  BY DEF PacketOf
<1>5. n = pc.i /\ m = queue[n] /\ x = PacketOf(m)
  OBVIOUS
<1> HIDE DEF m, x
<1>6. /\ n \in 1..Len(queue) /\ m \in Message
      /\ pc' \in Place /\ pc'.at = "send" /\ pc'.i = n + 1
      /\ Walked(queue, n)
      /\ ~pc.qos2 => WalkedTwo(queue, n)
      /\ ~pc'.qos2 => ~pc.qos2 /\ ~Qos2Open(m)
  BY <1>1, <1>2, <1>3, WalkOn
<1>7. m = queue[n]
  BY <1>3
<1> HIDE DEF n
<1>8. /\ queue \in Seq(Message) /\ Len(queue) <= QueueCap /\ DOMAIN queue = 1..Len(queue)
      /\ Len(queue) \in Nat
  BY <1>2, LenProperties DEF QueueShape
<1>10. /\ queue' \in Seq(Message) /\ Len(queue') = Len(queue) /\ DOMAIN queue' = 1..Len(queue)
       /\ \A i \in 1..Len(queue) : Same(queue[i], queue'[i])
       /\ \A i \in 1..Len(queue) : i # n => queue'[i].state = queue[i].state
       /\ queue'[n].state = StateAfterSend(m)
  BY <1>5, SendSteps
<1>11. m.state # "COMPLETE" /\ (m.type = "PUBLISH" /\ m.qos = 2 => ~pc.qos2)
  BY <1>1 DEF NeedsSend, Qos2Open
<1>12. /\ StateAfterSend(m) # "UNSENT"
       /\ m.type = "PUBREC" => StateAfterSend(m) # "COMPLETE"
       /\ m.type = "PUBLISH" /\ m.qos = 0 => StateAfterSend(m) = "COMPLETE"
  BY DEF StateAfterSend
<1>13. c2b \in Seq(ToBroker) /\ x \in ToBroker
  BY <1>5, SendSteps
<1>14. c2b' \in Seq(ToBroker) /\ Added(c2b, x, c2b') /\ Len(c2b') = Len(c2b) + 1
  BY <1>5, SendSteps
<1>15. QueueShape'
  BY <1>8, <1>10 DEF QueueShape
<1>16. ClientShape'
  <2>1. 0 \in 0..(KeepAlive + 1)
    BY ClientAssumption
  <2>2. pc'.i >= 1
    BY <1>6, <1>8
  <2> QED BY <1>1, <1>2, <1>6, <2>1, <2>2 DEF ClientShape
<1>17. NetShape'
  <2>1. plan.chan \in Nat /\ Len(c2b) \in Nat
    BY <1>2, <1>13, ClientAssumption, LenProperties DEF BrokerShape, PlanType
  <2>2. Len(c2b') <= plan.chan
    BY <1>1, <1>14, <2>1
  <2> QED BY <1>1, <1>2, <1>14, <2>2 DEF NetShape
<1>18. BrokerShape' /\ HistShape'
  BY <1>1, <1>2 DEF BrokerShape, HistShape, history
<1>19. CallInv'
  <2>1. CallOK(queue, b2c, broker.out, pushed, called) /\ OneRec(queue)
    BY DEF IInv, CallInv, CallOK
  <2>2. OneRec(queue')
    BY <2>1, <1>8, <1>10 DEF OneRec, Same
  <2>3. ASSUME NEW pid, Open(queue, pid) PROVE Open(queue', pid)
    <3>1. PICK i \in 1..Len(queue) : Rec(queue[i], pid) /\ queue[i].state # "COMPLETE"
      BY <2>3, <1>8 DEF Open
    <3>2. Rec(queue'[i], pid)
      BY <3>1, <1>10 DEF Rec, Same
    <3>3. queue'[i].state # "COMPLETE"
      BY <3>1, <1>7, <1>10, <1>12 DEF Rec
    <3> QED BY <3>2, <3>3, <1>10 DEF Open
  <2>4. RecKept(queue, queue', {})
    BY <2>2, <2>3 DEF RecKept
  <2>5. CallOK(queue', b2c, broker.out, pushed, called)
    BY <2>1, <2>4, CallLocal
  <2> QED BY <1>1, <2>5 DEF CallInv, history
<1>20. OrderInv'
  <2>1. OrderOK(queue, staged, c2b, delivered) /\ Awaited(queue, c2b, delivered)
    BY <1>1 DEF IInv, OrderInv
  <2>2. IsPublish(queue[n]) /\ queue[n].qos = 0 => queue'[n].state = "COMPLETE"
    BY <1>7, <1>10, <1>12 DEF IsPublish
  <2>3. IsPublish(queue[n]) /\ queue[n].qos = 2 => WalkedTwo(queue, n)
    BY <1>6, <1>7, <1>11 DEF IsPublish
  <2>4. /\ queue[n].state # "COMPLETE" /\ queue'[n].state # "UNSENT"
        /\ x.type = queue[n].type /\ x.qos = queue[n].qos /\ x.id = queue[n].id
    BY <1>4, <1>7, <1>10, <1>11, <1>12
  <2>5. OrderOK(queue', staged, c2b', delivered) /\ Awaited(queue', c2b', delivered)
    BY <2>1, <2>2, <2>3, <2>4, <1>6, <1>8, <1>10, <1>13, <1>14, OrderSent
  <2>6. \A i \in 1..Len(queue) : IsPublish(queue'[i]) <=> IsPublish(queue[i])
    BY <1>10 DEF Same, IsPublish
  <2>7. \A i \in 1..Len(queue) : i < n + 1 => i < n \/ i = n
    BY <1>6, <1>8
  <2>8. Walked(queue', n + 1)
    BY <2>6, <2>7, <1>6, <1>8, <1>10, <1>12 DEF Walked, Same
  <2>9. ~pc'.qos2 => WalkedTwo(queue', n + 1)
    <3>1. ~pc'.qos2 => WalkedTwo(queue, n) /\ ~(IsPublish(m) /\ m.qos = 2)
      BY <1>6, <1>11 DEF Qos2Open, IsPublish
    <3> QED BY <3>1, <2>6, <2>7, <1>7, <1>8, <1>10 DEF WalkedTwo, Same
  <2>10. Walk'
    BY <2>8, <2>9, <1>6 DEF Walk
  <2> QED BY <1>1, <2>5, <2>10 DEF OrderInv, history
<1> QED BY <1>15, <1>16, <1>17, <1>18, <1>19, <1>20 DEF IInv, Shape

-----------------------------------------------------------------------------
(* What mqtt_sync receives.                                                 *)

\* The packet at the head.
LEMMA Received ==
    ASSUME IInv, NEW type, Receives(type)
    PROVE  /\ pc.at = "recv" /\ link /\ b2c # <<>> /\ Head(b2c) = b2c[1]
           /\ b2c[1] \in ToClient /\ b2c[1].type = type
           /\ b2c \in Seq(ToClient) /\ b2c' \in Seq(ToClient) /\ Behind(b2c, b2c')
           /\ UNCHANGED <<lfsr, idle, c2b, link, conns, broker, asked, staged,
                          delivered, pushed>>
<1>1. b2c \in Seq(ToClient) /\ b2c # <<>> /\ b2c' = Tail(b2c)
  BY DEF IInv, Shape, NetShape, Receives
<1>2. Len(b2c) \in Nat /\ Len(b2c) # 0
  <2>1. Len(b2c) \in Nat \ {0}
    BY <1>1, EmptySeq
  <2> QED BY <2>1
<1>3. Head(b2c) = b2c[1]
  BY <1>1
<1>4. /\ b2c' \in Seq(ToClient) /\ Len(b2c') = Len(b2c) - 1
      /\ \A i \in 1..Len(b2c') : b2c'[i] = b2c[i + 1]
  BY <1>1, HeadTailProperties
<1>5. Behind(b2c, b2c')
  BY <1>2, <1>4 DEF Behind
<1>6. b2c[1] \in ToClient
  BY <1>1, <1>3, HeadTailProperties
<1> QED BY <1>1, <1>3, <1>4, <1>5, <1>6 DEF Receives

\* The invariant after a packet that passes nothing to the callback.
LEMMA PacketHandled ==
    ASSUME IInv, UNCHANGED plan, NEW type, Receives(type), UNCHANGED called,
           error' \in Errors, pc' \in Place, pc'.at # "send",
           NEW C, NEW ms, NEW X,
           QStep(queue, queue', C, ms), Fresh(queue, C, ms, X),
           Len(ms) = 1 => ~IsPublish(ms[1]),
           \A pid \in X : IsRel(Head(b2c), pid)
    PROVE  IInv'
<1>1. /\ Head(b2c) = b2c[1] /\ b2c \in Seq(ToClient) /\ b2c' \in Seq(ToClient)
      /\ Behind(b2c, b2c')
      /\ UNCHANGED <<lfsr, idle, c2b, link, conns, broker, staged, delivered, pushed>>
  BY Received
<1>2. queue \in Seq(Message) /\ Len(queue) <= QueueCap
  BY DEF IInv, Shape, QueueShape
<1>3. QueueShape'
  BY DEF QStep, QueueShape
<1>4. ClientShape'
  BY <1>1 DEF IInv, Shape, ClientShape
<1>5. NetShape'
  <2>1. plan.chan \in Nat /\ Len(b2c) \in Nat /\ Len(b2c) <= plan.chan
    BY <1>1, ClientAssumption, LenProperties DEF IInv, Shape, NetShape, BrokerShape, PlanType
  <2>2. Len(b2c') <= plan.chan
    BY <1>1, <2>1 DEF Behind
  <2> QED BY <1>1, <2>2 DEF IInv, Shape, NetShape
<1>6. BrokerShape' /\ HistShape'
  BY <1>1 DEF IInv, Shape, BrokerShape, HistShape
<1>7. CallInv'
  <2>1. CallOK(queue, b2c, broker.out, pushed, called) /\ OneRec(queue)
    BY DEF IInv, CallInv, CallOK
  <2>2. RecKept(queue, queue', X)
    BY <1>2, <2>1, StepKeepsRec
  <2>3. \A pid \in X : IsRel(b2c[1], pid)
    BY <1>1
  <2>4. CallOK(queue', b2c', broker.out, pushed, called)
    BY <1>1, <2>1, <2>2, <2>3, CallReceived
  <2> QED BY <1>1, <2>4 DEF CallInv
<1>8. OrderInv'
  <2>1. OrderOK(queue, staged, c2b, delivered)
        /\ (link => Awaited(queue, c2b, delivered))
    BY DEF IInv, OrderInv
  <2>2. ms \in Seq(Message) /\ Len(ms) \in {0, 1}
    BY DEF Fresh
  <2>3. OrderOK(queue', staged, c2b, delivered)
        /\ (Awaited(queue, c2b, delivered) => Awaited(queue', c2b, delivered))
    BY <1>2, <2>1, <2>2, OrderLocal
  <2>4. Walk'
    BY DEF Walk
  <2> QED BY <1>1, <2>1, <2>3, <2>4 DEF OrderInv
<1> QED BY <1>3, <1>4, <1>5, <1>6, <1>7, <1>8 DEF IInv, Shape

\* mqtt_sync goes on.
LEMMA GoesOn ==
    ASSUME IInv, pc.at = "recv", Goes
    PROVE  error' \in Errors /\ pc' \in Place /\ pc'.at = "recv"
BY DEF IInv, Shape, ClientShape, Goes

\* mqtt_sync fails with error e.
LEMMA Fails ==
    ASSUME IInv, NEW e \in Errors, Fail(e)
    PROVE  error' \in Errors /\ pc' \in Place /\ pc'.at = "failed"
<1>1. pc \in Place
  BY DEF IInv, Shape, ClientShape
<1> QED BY <1>1, Places DEF Fail

\* A packet is taken that changes nothing in the queue.
LEMMA NothingHandled ==
    ASSUME IInv, UNCHANGED plan, NEW type, Receives(type), UNCHANGED <<queue, called>>,
           error' \in Errors, pc' \in Place, pc'.at # "send"
    PROVE  IInv'
<1>1. QStep(queue, queue', {}, <<>>)
  BY NoStep DEF IInv, Shape, QueueShape
<1>2. <<>> \in Seq(Message) /\ Len(<<>>) = 0
  BY EmptySeq
<1>3. Fresh(queue, {}, <<>>, {})
  BY <1>2 DEF Fresh
<1>4. \A pid \in {} : IsRel(Head(b2c), pid)
  OBVIOUS
<1>5. Len(<<>>) = 1 => ~IsPublish(<<>>[1])
  BY <1>2
<1> QED BY <1>1, <1>3, <1>4, <1>5, PacketHandled

\* An answer that no message waits for.
LEMMA UnknownKeeps ==
    ASSUME IInv, UNCHANGED plan, NEW type, Receives(type), UNCHANGED called, Unknown
    PROVE  IInv'
<1>1. Fail("ACK_OF_UNKNOWN") /\ UNCHANGED <<queue, called>>
  BY DEF Unknown
<1>2. "ACK_OF_UNKNOWN" \in Errors
  BY DEF Errors
<1>3. error' \in Errors /\ pc' \in Place /\ pc'.at # "send"
  BY <1>1, <1>2, Fails
<1> QED BY <1>1, <1>3, NothingHandled

\* An answer completes message i, which is not a PUBREC.
LEMMA CompletionKeeps ==
    ASSUME IInv, UNCHANGED plan, NEW type, Receives(type), UNCHANGED called,
           NEW i \in DOMAIN queue, queue[i].type # "PUBREC", queue' = Complete(queue, i),
           error' \in Errors, pc' \in Place, pc'.at # "send"
    PROVE  IInv'
<1>1. /\ queue \in Seq(Message) /\ Len(queue) <= QueueCap
      /\ DOMAIN queue = 1..Len(queue)
  BY LenProperties DEF IInv, Shape, QueueShape
<1>2. QStep(queue, queue', {i}, <<>>)
  BY <1>1, CompleteSteps
<1>3. <<>> \in Seq(Message) /\ Len(<<>>) = 0
  BY EmptySeq
<1>4. Fresh(queue, {i}, <<>>, {})
  BY <1>3 DEF Fresh
<1>5. \A pid \in {} : IsRel(Head(b2c), pid)
  OBVIOUS
<1>6. Len(<<>>) = 1 => ~IsPublish(<<>>[1])
  BY <1>3
<1> QED BY <1>2, <1>4, <1>5, <1>6, PacketHandled

\* Messages of a type, when it is not PUBREC, can be completed.
Found(found, type) == \A i \in found : i \in DOMAIN queue /\ queue[i].type = type

\* mqtt_mq_find yields a message of its type.
LEMMA FindsType ==
    ASSUME NEW type, NEW pid
    PROVE  Found(FindPid(type, pid), type) /\ Found(FindOpen(type), type)
BY DEF FindPid, FindOpen, Found

\* An answer that only releases its message.
LEMMA ReleaseKeeps ==
    ASSUME IInv, UNCHANGED plan, NEW type, Receives(type), UNCHANGED called,
           NEW found, NEW t, Found(found, t), t # "PUBREC", Release(found)
    PROVE  IInv'
<1>1. pc.at = "recv"
  BY DEF Receives
<1>2. CASE found = {}
  BY <1>2, UnknownKeeps DEF Release
<1>3. CASE found # {}
  <2>1. PICK i \in found : queue' = Complete(queue, i)
    BY <1>3 DEF Release
  <2>2. Goes
    BY <1>3 DEF Release
  <2>3. i \in DOMAIN queue /\ queue[i].type # "PUBREC"
    BY DEF Found
  <2>4. error' \in Errors /\ pc' \in Place /\ pc'.at # "send"
    BY <1>1, <2>2, GoesOn
  <2> QED BY <2>1, <2>3, <2>4, CompletionKeeps
<1> QED BY <1>2, <1>3

\* A CONNACK completes the CONNECT and may refuse it.
LEMMA RecvConnackKeeps ==
    ASSUME IInv, UNCHANGED plan, RecvConnack
    PROVE  IInv'
<1> DEFINE found == FindOpen("CONNECT")
<1>1. Receives("CONNACK") /\ UNCHANGED called /\ pc.at = "recv"
  BY DEF RecvConnack, Receives
<1>2. Found(found, "CONNECT")
  BY FindsType
<1>3. CASE found = {}
  BY <1>1, <1>3, UnknownKeeps DEF RecvConnack
<1>4. CASE found # {}
  <2>1. PICK i \in found : queue' = Complete(queue, i)
    BY <1>4 DEF RecvConnack
  <2>2. Goes \/ Fail("CONNECTION_REFUSED")
    BY <1>4 DEF RecvConnack
  <2> HIDE DEF found
  <2>3. i \in DOMAIN queue /\ queue[i].type # "PUBREC"
    BY <1>2 DEF Found
  <2>4. "CONNECTION_REFUSED" \in Errors
    BY DEF Errors
  <2>5. error' \in Errors /\ pc' \in Place /\ pc'.at # "send"
    BY <1>1, <2>2, <2>4, GoesOn, Fails
  <2> QED BY <1>1, <2>1, <2>3, <2>5, CompletionKeeps
<1> QED BY <1>3, <1>4

\* A SUBACK completes its SUBSCRIBE and may refuse it.
LEMMA RecvSubackKeeps ==
    ASSUME IInv, UNCHANGED plan, RecvSuback
    PROVE  IInv'
<1> DEFINE found == FindPid("SUBSCRIBE", Head(b2c).pid)
<1>1. Receives("SUBACK") /\ UNCHANGED called /\ pc.at = "recv"
  BY DEF RecvSuback, Receives
<1>2. Found(found, "SUBSCRIBE")
  BY FindsType
<1>3. CASE found = {}
  BY <1>1, <1>3, UnknownKeeps DEF RecvSuback
<1>4. CASE found # {}
  <2>1. PICK i \in found : queue' = Complete(queue, i)
    BY <1>4 DEF RecvSuback
  <2>2. Goes \/ Fail("SUBSCRIBE_FAILED")
    BY <1>4 DEF RecvSuback
  <2> HIDE DEF found
  <2>3. i \in DOMAIN queue /\ queue[i].type # "PUBREC"
    BY <1>2 DEF Found
  <2>4. "SUBSCRIBE_FAILED" \in Errors
    BY DEF Errors
  <2>5. error' \in Errors /\ pc' \in Place /\ pc'.at # "send"
    BY <1>1, <2>2, <2>4, GoesOn, Fails
  <2> QED BY <1>1, <2>1, <2>3, <2>5, CompletionKeeps
<1> QED BY <1>3, <1>4

\* PUBACK, PUBCOMP, UNSUBACK and PINGRESP release their message.
LEMMA RecvReleaseKeeps ==
    ASSUME IInv, UNCHANGED plan, RecvPuback \/ RecvPubcomp \/ RecvUnsuback \/ RecvPingresp
    PROVE  IInv'
<1>1. CASE RecvPuback
  <2>1. Found(FindPid("PUBLISH", Head(b2c).pid), "PUBLISH")
    BY FindsType
  <2> QED BY <1>1, <2>1, ReleaseKeeps DEF RecvPuback
<1>2. CASE RecvPubcomp
  <2>1. Found(FindPid("PUBREL", Head(b2c).pid), "PUBREL")
    BY FindsType
  <2> QED BY <1>2, <2>1, ReleaseKeeps DEF RecvPubcomp
<1>3. CASE RecvUnsuback
  <2>1. Found(FindPid("UNSUBSCRIBE", Head(b2c).pid), "UNSUBSCRIBE")
    BY FindsType
  <2> QED BY <1>3, <2>1, ReleaseKeeps DEF RecvUnsuback
<1>4. CASE RecvPingresp
  <2>1. Found(FindOpen("PINGREQ"), "PINGREQ")
    BY FindsType
  <2> QED BY <1>4, <2>1, ReleaseKeeps DEF RecvPingresp
<1> QED BY <1>1, <1>2, <1>3, <1>4

\* Staging an answer inside mqtt_sync, on queue q.
LEMMA AnswerSteps ==
    ASSUME IInv, pc.at = "recv", NEW q \in Seq(Message), Len(q) <= QueueCap,
           NEW m \in Message, Answer(q, m)
    PROVE  /\ error' \in Errors /\ pc' \in Place /\ pc'.at # "send"
           /\ \/ pc'.at = "recv" /\ QStep(q, queue', {}, <<m>>)
              \/ pc'.at # "recv" /\ QStep(q, queue', {}, <<>>)
<1>0. error \in Errors
  BY DEF IInv, Shape, ClientShape
<1>1. CASE error # "OK"
  <2>1. queue' = q /\ Fail(error)
    BY <1>1 DEF Answer
  <2>2. error' \in Errors /\ pc' \in Place /\ pc'.at = "failed"
    BY <1>0, <2>1, Fails
  <2> QED BY <2>1, <2>2, NoStep
<1>2. CASE error = "OK"
  <2> DEFINE r == TryPack(q, m)
  <2>1. queue' = r.queue /\ IF r.error = "OK" THEN Goes ELSE Fail(r.error)
    BY <1>2 DEF Answer
  <2>2. \/ r.error = "OK" /\ QStep(q, r.queue, {}, <<m>>)
        \/ r.error = "SEND_BUFFER_IS_FULL" /\ QStep(q, r.queue, {}, <<>>)
    BY TryPackSteps
  <2> HIDE DEF r
  <2>3. CASE r.error = "OK" /\ QStep(q, r.queue, {}, <<m>>)
    BY <2>1, <2>3, GoesOn
  <2>4. CASE r.error = "SEND_BUFFER_IS_FULL" /\ QStep(q, r.queue, {}, <<>>)
    <3>1. Fail(r.error) /\ r.error \in Errors
      BY <2>1, <2>4 DEF Errors
    <3>2. error' \in Errors /\ pc' \in Place /\ pc'.at = "failed"
      BY <3>1, Fails
    <3> QED BY <2>1, <2>4, <3>2
  <2> QED BY <2>2, <2>3, <2>4
<1> QED BY <1>1, <1>2

\* Message i is completed and its answer m staged.
LEMMA CompletedAndAnswered ==
    ASSUME IInv, pc.at = "recv", NEW i \in DOMAIN queue, NEW m \in Message,
           Answer(Complete(queue, i), m)
    PROVE  /\ error' \in Errors /\ pc' \in Place /\ pc'.at # "send"
           /\ QStep(queue, queue', {i}, <<m>>) \/ QStep(queue, queue', {i}, <<>>)
<1> DEFINE q == Complete(queue, i)
<1>1. /\ queue \in Seq(Message) /\ Len(queue) <= QueueCap
      /\ DOMAIN queue = 1..Len(queue)
  BY LenProperties DEF IInv, Shape, QueueShape
<1>2. QStep(queue, q, {i}, <<>>)
  BY <1>1, CompleteSteps
<1>3. q \in Seq(Message) /\ Len(q) <= QueueCap
  BY <1>2 DEF QStep
<1>4. Len(q) = Len(queue)
  BY <1>1, <1>3, LenProperties DEF Complete
<1>5. Answer(q, m)
  OBVIOUS
<1> HIDE DEF q
<1>6. /\ error' \in Errors /\ pc' \in Place /\ pc'.at # "send"
      /\ QStep(q, queue', {}, <<m>>) \/ QStep(q, queue', {}, <<>>)
  BY <1>3, <1>5, AnswerSteps
<1>7. <<m>> \in Seq(Message) /\ <<>> \in Seq(Message)
  BY EmptySeq
<1>8. CASE QStep(q, queue', {}, <<m>>)
  BY <1>1, <1>2, <1>3, <1>4, <1>6, <1>7, <1>8, ComposeSteps
<1>9. CASE QStep(q, queue', {}, <<>>)
  BY <1>1, <1>2, <1>3, <1>4, <1>6, <1>7, <1>9, ComposeSteps
<1> QED BY <1>6, <1>8, <1>9

\* An answer m, neither a PUBLISH nor a PUBREC, is staged or not.
LEMMA AnswerHandled ==
    ASSUME IInv, UNCHANGED plan, NEW type, Receives(type), UNCHANGED called,
           error' \in Errors, pc' \in Place, pc'.at # "send",
           NEW i \in DOMAIN queue, NEW m \in Message, m.type \notin {"PUBLISH", "PUBREC"},
           QStep(queue, queue', {i}, <<m>>) \/ QStep(queue, queue', {i}, <<>>),
           queue[i].type = "PUBREC" => IsRel(Head(b2c), queue[i].pid)
    PROVE  IInv'
<1> DEFINE X == IF queue[i].type = "PUBREC" THEN {queue[i].pid} ELSE {}
<1>1. \A pid \in X : IsRel(Head(b2c), pid)
  OBVIOUS
<1>2. \A j \in {i} : j \in 1..Len(queue) /\ queue[j].type = "PUBREC" => queue[j].pid \in X
  OBVIOUS
<1> HIDE DEF X
<1>3. Fresh(queue, {i}, <<m>>, X) /\ ~IsPublish(<<m>>[1])
  BY <1>2 DEF Fresh, IsPublish
<1>4. <<>> \in Seq(Message) /\ Len(<<>>) = 0
  BY EmptySeq
<1>5. Fresh(queue, {i}, <<>>, X) /\ (Len(<<>>) = 1 => ~IsPublish(<<>>[1]))
  BY <1>2, <1>4 DEF Fresh
<1>6. CASE QStep(queue, queue', {i}, <<m>>)
  BY <1>1, <1>3, <1>6, PacketHandled
<1>7. CASE QStep(queue, queue', {i}, <<>>)
  BY <1>1, <1>5, <1>7, PacketHandled
<1> QED BY <1>6, <1>7

\* A PUBREC of the broker completes its PUBLISH and is answered with a PUBREL.
LEMMA RecvPubrecKeeps ==
    ASSUME IInv, UNCHANGED plan, RecvPubrec
    PROVE  IInv'
<1> DEFINE pid   == Head(b2c).pid
           found == FindPid("PUBLISH", pid)
<1>1. Receives("PUBREC") /\ UNCHANGED called /\ pc.at = "recv"
  BY DEF RecvPubrec, Receives
<1>2. Found(found, "PUBLISH")
  BY FindsType
<1>3. pid \in 0..NPid
  BY <1>1, Received DEF ToClient
<1>4. CASE Goes /\ UNCHANGED queue
  <2>1. error' \in Errors /\ pc' \in Place /\ pc'.at # "send"
    BY <1>1, <1>4, GoesOn
  <2> QED BY <1>1, <1>4, <2>1, NothingHandled
<1>5. CASE Unknown
  BY <1>1, <1>5, UnknownKeeps
<1>6. CASE \E i \in found : Answer(Complete(queue, i), Msg("PUBREL", pid, 0, queue[i].id))
  <2>1. PICK i \in found : Answer(Complete(queue, i), Msg("PUBREL", pid, 0, queue[i].id))
    BY <1>6
  <2> HIDE DEF found, pid
  <2>2. i \in DOMAIN queue /\ queue[i].type = "PUBLISH"
    BY <1>2 DEF Found
  <2>3. queue[i].id \in Nat
    BY <2>2, ElementOfSeq, LenProperties, MessageFields DEF IInv, Shape, QueueShape
  <2> DEFINE m == Msg("PUBREL", pid, 0, queue[i].id)
  <2>4. m \in Message /\ m.type = "PUBREL"
    <3>1. "PUBREL" \in Types /\ 0 \in QoS
      BY DEF Types, QoS
    <3> QED BY <1>3, <2>3, <3>1, NewMessage
  <2>5. Answer(Complete(queue, i), m)
    BY <2>1
  <2> HIDE DEF m
  <2>6. /\ error' \in Errors /\ pc' \in Place /\ pc'.at # "send"
        /\ QStep(queue, queue', {i}, <<m>>) \/ QStep(queue, queue', {i}, <<>>)
    BY <1>1, <2>2, <2>4, <2>5, CompletedAndAnswered
  <2> QED BY <1>1, <2>2, <2>4, <2>6, AnswerHandled
<1> QED BY <1>4, <1>5, <1>6 DEF RecvPubrec

\* A PUBREL completes its PUBREC and is answered with a PUBCOMP.
LEMMA RecvPubrelKeeps ==
    ASSUME IInv, UNCHANGED plan, RecvPubrel
    PROVE  IInv'
<1> DEFINE pid   == Head(b2c).pid
           found == FindPid("PUBREC", pid)
           m     == Msg("PUBCOMP", pid, 0, 0)
<1>1. Receives("PUBREL") /\ UNCHANGED called /\ pc.at = "recv"
  BY DEF RecvPubrel, Receives
<1>2. \A i \in found : i \in DOMAIN queue /\ queue[i].type = "PUBREC" /\ queue[i].pid = pid
  BY DEF FindPid
<1>3. pid \in 0..NPid /\ IsRel(Head(b2c), pid)
  BY <1>1, Received DEF ToClient, IsRel
<1>4. CASE Unknown
  BY <1>1, <1>4, UnknownKeeps
<1>5. CASE \E i \in found : Answer(Complete(queue, i), m)
  <2>1. PICK i \in found : Answer(Complete(queue, i), m)
    BY <1>5
  <2> HIDE DEF found, pid
  <2>2. m \in Message /\ m.type = "PUBCOMP"
    <3>1. "PUBCOMP" \in Types /\ 0 \in QoS /\ 0 \in Nat
      BY DEF Types, QoS
    <3> QED BY <1>3, <3>1, NewMessage
  <2> HIDE DEF m
  <2>3. i \in DOMAIN queue /\ queue[i].type = "PUBREC" /\ queue[i].pid = pid
    BY <1>2
  <2>4. /\ error' \in Errors /\ pc' \in Place /\ pc'.at # "send"
        /\ QStep(queue, queue', {i}, <<m>>) \/ QStep(queue, queue', {i}, <<>>)
    BY <1>1, <2>1, <2>2, <2>3, CompletedAndAnswered
  <2> QED BY <1>1, <1>3, <2>2, <2>3, <2>4, AnswerHandled
<1> QED BY <1>4, <1>5 DEF RecvPubrel


\* The invariant after a PUBLISH that is passed to the callback.
LEMMA PacketCalled ==
    ASSUME IInv, UNCHANGED plan, Receives("PUBLISH"), Call(Head(b2c)),
           error' \in Errors, pc' \in Place, pc'.at # "send", NEW ms,
           QStep(queue, queue', {}, ms), Fresh(queue, {}, ms, {}),
           Len(ms) = 1 => ~IsPublish(ms[1]),
           Head(b2c).qos = 2 => ~Open(queue, Head(b2c).pid) /\ Open(queue', Head(b2c).pid)
    PROVE  IInv'
<1>1. /\ Head(b2c) = b2c[1] /\ b2c[1] \in ToClient /\ b2c[1].type = "PUBLISH"
      /\ b2c \in Seq(ToClient) /\ b2c' \in Seq(ToClient) /\ Behind(b2c, b2c')
      /\ UNCHANGED <<lfsr, idle, c2b, link, conns, broker, staged, delivered, pushed>>
  BY Received
<1>2. \A pid \in {} : IsRel(Head(b2c), pid)
  OBVIOUS
<1>3. CASE UNCHANGED called
  BY <1>2, <1>3, PacketHandled
<1>4. CASE called' = Append(called, b2c[1].id)
  <2>1. queue \in Seq(Message) /\ Len(queue) <= QueueCap
    BY DEF IInv, Shape, QueueShape
  <2>2. called \in Seq(Nat) /\ pushed \in Seq(QoS) /\ b2c[1].id \in Nat
    BY <1>1 DEF IInv, Shape, HistShape, ToClient
  <2>3. called' \in Seq(Nat) /\ Added(called, b2c[1].id, called')
    BY <2>2, <1>4, AppendProperties DEF Added
  <2>4. QueueShape'
    BY DEF QStep, QueueShape
  <2>5. ClientShape'
    BY <1>1 DEF IInv, Shape, ClientShape
  <2>6. NetShape'
    <3>1. plan.chan \in Nat /\ Len(b2c) \in Nat /\ Len(b2c) <= plan.chan
      BY <1>1, ClientAssumption, LenProperties DEF IInv, Shape, NetShape, BrokerShape, PlanType
    <3>2. Len(b2c') <= plan.chan
      BY <1>1, <3>1 DEF Behind
    <3> QED BY <1>1, <3>2 DEF IInv, Shape, NetShape
  <2>7. BrokerShape' /\ HistShape'
    BY <1>1, <2>3 DEF IInv, Shape, BrokerShape, HistShape
  <2>8. CallInv'
    <3>1. CallOK(queue, b2c, broker.out, pushed, called) /\ OneRec(queue)
      BY DEF IInv, CallInv, CallOK
    <3>2. RecKept(queue, queue', {})
      BY <2>1, <3>1, StepKeepsRec
    <3>3. b2c[1].qos = 2 => ~Open(queue, b2c[1].pid) /\ Open(queue', b2c[1].pid)
      BY <1>1
    <3>4. CallOK(queue', b2c', broker.out, pushed, called')
      BY <1>1, <2>2, <2>3, <3>1, <3>2, <3>3, CallCalled
    <3> QED BY <1>1, <3>4 DEF CallInv
  <2>9. OrderInv'
    <3>1. OrderOK(queue, staged, c2b, delivered)
          /\ (link => Awaited(queue, c2b, delivered))
      BY DEF IInv, OrderInv
    <3>2. ms \in Seq(Message) /\ Len(ms) \in {0, 1}
      BY DEF Fresh
    <3>3. OrderOK(queue', staged, c2b, delivered)
          /\ (Awaited(queue, c2b, delivered) => Awaited(queue', c2b, delivered))
      BY <2>1, <3>1, <3>2, OrderLocal
    <3>4. Walk'
      BY DEF Walk
    <3> QED BY <1>1, <3>1, <3>3, <3>4 DEF OrderInv
  <2> QED BY <2>4, <2>5, <2>6, <2>7, <2>8, <2>9 DEF IInv, Shape
<1> QED BY <1>1, <1>3, <1>4 DEF Call

\* FindPid misses no PUBREC.
LEMMA NotFound ==
    ASSUME queue \in Seq(Message), NEW pid, FindPid("PUBREC", pid) = {}
    PROVE  \A i \in DOMAIN queue : ~Rec(queue[i], pid)
<1> DEFINE T == {i \in DOMAIN queue : Rec(queue[i], pid)}
<1>1. DOMAIN queue = 1..Len(queue) /\ Len(queue) \in Nat
  BY LenProperties
<1>2. ASSUME T # {} PROVE FALSE
  <2>1. T \subseteq Nat
    BY <1>1
  <2> HIDE DEF T
  <2>2. PICK k \in T : \A j \in T : k <= j
    BY <1>2, <2>1, LeastExists
  <2> USE DEF T
  <2>3. k \in DOMAIN queue /\ Rec(queue[k], pid)
    OBVIOUS
  <2>4. ASSUME NEW j \in 1..(k - 1) PROVE ~Rec(queue[j], pid)
    <3>1. j \in DOMAIN queue /\ ~(k <= j)
      BY <1>1, <2>3
    <3> QED BY <2>2, <3>1
  <2>5. k \in FindPid("PUBREC", pid)
    BY <2>3, <2>4 DEF FindPid, Rec
  <2> QED BY <2>5
<1> QED BY <1>2

\* The new PUBREC is in the queue.
LEMMA StagedIsOpen ==
    ASSUME NEW q \in Seq(Message), NEW r, NEW m \in Message, QStep(q, r, {}, <<m>>),
           NEW pid, Rec(m, pid), m.state = "UNSENT"
    PROVE  Open(r, pid)
<1>1. Len(q) \in Nat
  BY LenProperties
<1>2. PICK d \in 0..Len(q) : Moved(q, r, d, <<m>>)
  BY DEF QStep
<1>3. DOMAIN r = 1..Len(r)
  BY LenProperties DEF QStep
<1>4. Len(<<m>>) = 1 /\ <<m>>[1] = m
  OBVIOUS
<1>5. Len(r) = Len(q) - d + 1 /\ r[Len(q) - d + 1] = m
  BY <1>1, <1>2, <1>4 DEF Moved
<1>6. Len(q) - d + 1 \in DOMAIN r
  BY <1>1, <1>3, <1>5
<1> QED BY <1>5, <1>6 DEF Open

\* A PUBLISH of the broker: QoS 0 is passed on, QoS 1 and 2 when their answer could
\* be staged, and a QoS 2 message only when no PUBREC for it is in the queue.
LEMMA RecvPublishKeeps ==
    ASSUME IInv, UNCHANGED plan, RecvPublish
    PROVE  IInv'
<1> DEFINE p == Head(b2c)
<1>1. Receives("PUBLISH")
  BY DEF RecvPublish
<1>2. pc.at = "recv" /\ p \in ToClient
  BY <1>1, Received
<1>3. queue \in Seq(Message) /\ Len(queue) <= QueueCap /\ DOMAIN queue = 1..Len(queue)
  BY LenProperties DEF IInv, Shape, QueueShape
<1>4. p.pid \in 0..NPid
  BY <1>2 DEF ToClient
<1>5. <<>> \in Seq(Message) /\ Len(<<>>) = 0
  BY EmptySeq
<1>6. Fresh(queue, {}, <<>>, {}) /\ (Len(<<>>) = 1 => ~IsPublish(<<>>[1]))
  BY <1>5 DEF Fresh
<1>7. \A pid \in {} : IsRel(Head(b2c), pid)
  OBVIOUS
<1>8. p = Head(b2c)
  OBVIOUS
<1> HIDE DEF p
<1>9. CASE p.qos = 0 /\ UNCHANGED queue /\ Goes /\ Call(p)
  <2>1. QStep(queue, queue', {}, <<>>)
    BY <1>3, <1>9, NoStep
  <2>2. error' \in Errors /\ pc' \in Place /\ pc'.at # "send"
    BY <1>2, <1>9, GoesOn
  <2>3. Head(b2c).qos # 2 /\ Call(Head(b2c))
    BY <1>8, <1>9
  <2> QED BY <1>1, <1>6, <2>1, <2>2, <2>3, PacketCalled
<1>10. CASE p.qos = 2 /\ UNCHANGED <<queue, called>> /\ Goes
  <2>1. error' \in Errors /\ pc' \in Place /\ pc'.at # "send"
    BY <1>2, <1>10, GoesOn
  <2> QED BY <1>1, <1>10, <2>1, NothingHandled
<1>11. ASSUME NEW m \in Message, m.type \in {"PUBACK", "PUBREC"}, m.pid = p.pid,
              m.state = "UNSENT", Answer(queue, m),
              m.type = "PUBREC" => \A i \in DOMAIN queue : ~Rec(queue[i], p.pid),
              p.qos = 2 => m.type = "PUBREC",
              IF pc'.at = "recv" THEN Call(p) ELSE UNCHANGED called
       PROVE  IInv'
  <2>1. /\ error' \in Errors /\ pc' \in Place /\ pc'.at # "send"
        /\ \/ pc'.at = "recv" /\ QStep(queue, queue', {}, <<m>>)
           \/ pc'.at # "recv" /\ QStep(queue, queue', {}, <<>>)
    BY <1>2, <1>3, <1>11, AnswerSteps
  <2>2. <<m>> \in Seq(Message) /\ Len(<<m>>) = 1 /\ <<m>>[1] = m
    OBVIOUS
  <2>3. Fresh(queue, {}, <<m>>, {}) /\ (Len(<<m>>) = 1 => ~IsPublish(<<m>>[1]))
    BY <1>3, <1>11, <2>2 DEF Fresh, IsPublish
  <2>4. CASE pc'.at = "recv" /\ QStep(queue, queue', {}, <<m>>)
    <3>1. Call(Head(b2c))
      BY <1>8, <1>11, <2>4
    <3>2. ASSUME Head(b2c).qos = 2
          PROVE  ~Open(queue, Head(b2c).pid) /\ Open(queue', Head(b2c).pid)
      <4>1. m.type = "PUBREC" /\ Rec(m, p.pid)
        BY <3>2, <1>8, <1>11 DEF Rec
      <4>2. ~Open(queue, p.pid)
        BY <4>1, <1>11 DEF Open
      <4>3. Open(queue', p.pid)
        BY <4>1, <1>3, <1>11, <2>4, StagedIsOpen
      <4> QED BY <4>2, <4>3, <1>8
    <3> QED BY <1>1, <2>1, <2>3, <2>4, <3>1, <3>2, PacketCalled
  <2>5. CASE pc'.at # "recv" /\ QStep(queue, queue', {}, <<>>)
    <3>1. UNCHANGED called
      BY <1>11, <2>5
    <3> QED BY <1>1, <1>6, <1>7, <2>1, <2>5, <3>1, PacketHandled
  <2> QED BY <2>1, <2>4, <2>5
<1>12. "PUBACK" \in Types /\ "PUBREC" \in Types /\ 0 \in QoS /\ 0 \in Nat
  BY DEF Types, QoS
<1>13. CASE /\ p.qos = 1 /\ Answer(queue, Msg("PUBACK", p.pid, 0, 0))
            /\ IF pc'.at = "recv" THEN Call(p) ELSE UNCHANGED called
  <2> DEFINE m == Msg("PUBACK", p.pid, 0, 0)
  <2>1. m \in Message /\ m.type = "PUBACK" /\ m.pid = p.pid /\ m.state = "UNSENT"
    BY <1>4, <1>12, NewMessage
  <2>2. Answer(queue, m) /\ IF pc'.at = "recv" THEN Call(p) ELSE UNCHANGED called
    BY <1>13
  <2> HIDE DEF m
  <2> QED BY <1>11, <1>13, <2>1, <2>2
<1>14. CASE /\ p.qos = 2 /\ FindPid("PUBREC", p.pid) = {}
            /\ Answer(queue, Msg("PUBREC", p.pid, 0, 0))
            /\ IF pc'.at = "recv" THEN Call(p) ELSE UNCHANGED called
  <2> DEFINE m == Msg("PUBREC", p.pid, 0, 0)
  <2>1. m \in Message /\ m.type = "PUBREC" /\ m.pid = p.pid /\ m.state = "UNSENT"
    BY <1>4, <1>12, NewMessage
  <2>2. Answer(queue, m) /\ IF pc'.at = "recv" THEN Call(p) ELSE UNCHANGED called
    BY <1>14
  <2>3. \A i \in DOMAIN queue : ~Rec(queue[i], p.pid)
    BY <1>3, <1>14, NotFound
  <2> HIDE DEF m
  <2> QED BY <1>11, <2>1, <2>2, <2>3
<1> QED BY <1>8, <1>9, <1>10, <1>13, <1>14 DEF RecvPublish

-----------------------------------------------------------------------------
(* The broker.                                                              *)

\* The broker sends packet x.
LEMMA Replied ==
    ASSUME IInv, UNCHANGED plan, Len(b2c) < plan.chan, NEW x \in ToClient, Replies(<<x>>)
    PROVE  b2c \in Seq(ToClient) /\ b2c' \in Seq(ToClient) /\ Added(b2c, x, b2c')
           /\ Len(b2c') <= plan'.chan
<1>1. b2c \in Seq(ToClient) /\ <<x>> \in Seq(ToClient) /\ b2c' = b2c \o <<x>>
  BY DEF IInv, Shape, NetShape, Replies
<1>2. Len(b2c) \in Nat /\ plan.chan \in Nat
  BY <1>1, ClientAssumption, LenProperties DEF IInv, Shape, BrokerShape, PlanType
<1>3. b2c' = Append(b2c, x)
  BY <1>1, AppendIsConcat
<1>4. b2c' \in Seq(ToClient) /\ Added(b2c, x, b2c') /\ Len(b2c') = Len(b2c) + 1
  BY <1>1, <1>3, AppendProperties DEF Added
<1> QED BY <1>1, <1>2, <1>4

\* The packets of the broker.
LEMMA BrokerPackets ==
    ASSUME NEW pid \in 0..NPid, NEW ok \in BOOLEAN,
           NEW type \in {"CONNACK", "SUBACK", "UNSUBACK", "PINGRESP", "PUBACK", "PUBREC",
                         "PUBREL", "PUBCOMP"}
    PROVE  Pkt(type, pid, ok) \in ToClient /\ Pkt(type, pid, ok).type = type
           /\ Pkt(type, pid, ok).pid = pid
<1>1. 0 \in QoS /\ 0 \in Nat
  BY DEF QoS
<1> QED BY <1>1 DEF Pkt, ToClient

\* The broker sends nothing, or an answer that is no PUBREL.
Silent  == UNCHANGED b2c
Answers == \E x \in ToClient : x.type \notin {"PUBLISH", "PUBREL"} /\ Replies(<<x>>)

\* What the broker has accepted after it took packet p.
Accepts(p) == \/ delivered' = delivered /\ (IsPublish(p) => p.qos = 2)
              \/ IsPublish(p) /\ Accept(p)

\* The broker has taken the packet at the head.
Takes == /\ link /\ c2b # <<>> /\ Len(b2c) < plan.chan /\ c2b' = Tail(c2b)
         /\ UNCHANGED <<client, conns, asked, staged, pushed, called>>

\* The invariant after a packet that the broker takes.
LEMMA PacketTaken ==
    ASSUME IInv, UNCHANGED plan, Takes, link' \in BOOLEAN, broker' \in Session,
           b2c' \in Seq(ToClient), Len(b2c') <= plan.chan, CallInv', Accepts(Head(c2b))
    PROVE  IInv'
<1>1. /\ link /\ c2b # <<>> /\ c2b' = Tail(c2b)
      /\ UNCHANGED <<queue, error, lfsr, idle, pc, conns, staged, pushed, called>>
  BY DEF Takes, client
<1>2. /\ c2b \in Seq(ToBroker) /\ Len(c2b) <= plan.chan /\ plan.chan \in Nat
      /\ staged \in Seq(QoS) /\ delivered \in Seq(Nat) /\ queue \in Seq(Message)
  BY ClientAssumption
     DEF IInv, Shape, NetShape, HistShape, QueueShape, BrokerShape, PlanType
<1>3. Len(c2b) \in Nat /\ Len(c2b) # 0
  <2>1. Len(c2b) \in Nat \ {0}
    BY <1>1, <1>2, EmptySeq
  <2> QED BY <2>1
<1>4. Head(c2b) = c2b[1] /\ c2b[1] \in ToBroker
  BY <1>1, <1>2, HeadTailProperties
<1>5. c2b' \in Seq(ToBroker) /\ Behind(c2b, c2b') /\ Len(c2b') = Len(c2b) - 1
  <2>1. /\ c2b' \in Seq(ToBroker) /\ Len(c2b') = Len(c2b) - 1
        /\ \A i \in 1..Len(c2b') : c2b'[i] = c2b[i + 1]
    BY <1>1, <1>2, HeadTailProperties
  <2> QED BY <2>1, <1>3 DEF Behind
<1>6. c2b[1].id \in Nat
  BY <1>4 DEF ToBroker
<1>7. /\ delivered' \in Seq(Nat)
      /\ \/ /\ delivered' = delivered
            /\ IsPublish(c2b[1]) => c2b[1].qos = 2 \/ Member(delivered, c2b[1].id)
         \/ /\ IsPublish(c2b[1]) /\ Added(delivered, c2b[1].id, delivered')
            /\ c2b[1].qos = 1 => ~Member(delivered, c2b[1].id)
  <2>1. CASE delivered' = delivered /\ (IsPublish(c2b[1]) => c2b[1].qos = 2)
    BY <2>1, <1>2
  <2>2. CASE IsPublish(c2b[1]) /\ Accept(c2b[1])
    <3>1. CASE c2b[1].qos = 1 /\ Member(delivered, c2b[1].id)
      <4>1. delivered' = delivered
        BY <2>2, <3>1 DEF Accept, Member
      <4> QED BY <4>1, <3>1, <1>2
    <3>2. CASE ~(c2b[1].qos = 1 /\ Member(delivered, c2b[1].id))
      <4>1. delivered' = Append(delivered, c2b[1].id)
        BY <2>2, <3>2 DEF Accept, Member
      <4>2. delivered' \in Seq(Nat) /\ Added(delivered, c2b[1].id, delivered')
        BY <4>1, <1>2, <1>6, AppendProperties DEF Added
      <4> QED BY <4>2, <2>2, <3>2
    <3> QED BY <3>1, <3>2
  <2> QED BY <2>1, <2>2, <1>4 DEF Accepts
<1>8. QueueShape' /\ ClientShape'
  BY <1>1 DEF IInv, Shape, QueueShape, ClientShape
<1>9. NetShape'
  BY <1>1, <1>2, <1>3, <1>5 DEF IInv, Shape, NetShape
<1>10. BrokerShape' /\ HistShape'
  BY <1>1, <1>7 DEF IInv, Shape, BrokerShape, HistShape
<1>11. OrderInv'
  <2>1. /\ OrderOK(queue, staged, c2b, delivered)
        /\ Awaited(queue, c2b, delivered)
        /\ Walk
    BY <1>1 DEF IInv, OrderInv
  <2>2. /\ OrderOK(queue, staged, c2b', delivered')
        /\ (Awaited(queue, c2b, delivered) => Awaited(queue, c2b', delivered'))
    BY <2>1, <1>2, <1>5, <1>7, OrderAccepted
  <2>3. Walk'
    BY <2>1, <1>1 DEF Walk
  <2> QED BY <2>1, <2>2, <2>3, <1>1 DEF OrderInv
<1> QED BY <1>8, <1>9, <1>10, <1>11 DEF IInv, Shape

\* A packet is taken that the broker answers with anything but a PUBREL, or not at
\* all, and after which it may have forgotten some of what it has pushed.
LEMMA PacketAnswered ==
    ASSUME IInv, UNCHANGED plan, Takes, link' \in BOOLEAN, broker' \in Session,
           broker'.out \subseteq broker.out, Silent \/ Answers, Accepts(Head(c2b))
    PROVE  IInv'
<1>1. /\ CallOK(queue, b2c, broker.out, pushed, called) /\ b2c \in Seq(ToClient)
      /\ Len(b2c) <= plan.chan
  BY DEF IInv, CallInv, Shape, NetShape
<1>2. UNCHANGED <<queue, pushed, called>> /\ Len(b2c) < plan.chan
  BY DEF Takes, client
<1>3. CASE Silent
  <2>1. CallOK(queue, b2c, broker'.out, pushed, called)
    BY <1>1, CallForgotten
  <2>2. CallInv'
    BY <2>1, <1>2, <1>3 DEF CallInv, Silent
  <2> QED BY <2>2, <1>1, <1>3, PacketTaken DEF Silent
<1>4. CASE Answers
  <2>1. PICK x \in ToClient : x.type \notin {"PUBLISH", "PUBREL"} /\ Replies(<<x>>)
    BY <1>4 DEF Answers
  <2>2. b2c' \in Seq(ToClient) /\ Added(b2c, x, b2c') /\ Len(b2c') <= plan.chan
    BY <2>1, <1>2, Replied
  <2>3. CallOK(queue, b2c', broker'.out, pushed, called)
    BY <1>1, <2>1, <2>2, CallAnswered
  <2>4. CallInv'
    BY <2>3, <1>2 DEF CallInv
  <2> QED BY <2>2, <2>4, PacketTaken
<1> QED BY <1>3, <1>4

\* A PUBREC releases the message with its identifier, and the broker answers with a
\* PUBREL.
LEMMA PubrecTaken ==
    ASSUME IInv, UNCHANGED plan, Takes, UNCHANGED <<link, delivered>>,
           Head(c2b).type = "PUBREC", NEW pid \in 0..NPid,
           broker' = [broker EXCEPT !.out =
                (@ \ OutWith(pid)) \cup {[o EXCEPT !.rel = TRUE] : o \in OutWith(pid)}],
           Replies(<<Pkt("PUBREL", pid, TRUE)>>)
    PROVE  IInv'
<1> DEFINE u == Released(broker.out, pid)
           x == Pkt("PUBREL", pid, TRUE)
<1>1. /\ CallOK(queue, b2c, broker.out, pushed, called) /\ broker \in Session
      /\ broker.out \in SUBSET Push
  BY DEF IInv, CallInv, Shape, BrokerShape, Session
<1>2. UNCHANGED <<queue, pushed, called>> /\ Len(b2c) < plan.chan
  BY DEF Takes, client
<1>3. CallOK(queue, b2c, u, pushed, called) /\ \A o \in u : o.pid = pid => o.rel
  BY <1>1, CallRel
<1>4. broker' = [broker EXCEPT !.out = u]
  BY DEF OutWith, Released, WithId
<1>5. u \subseteq Push
  <2>1. ASSUME NEW o \in WithId(broker.out, pid) PROVE [o EXCEPT !.rel = TRUE] \in Push
    <3>1. o \in Push
      BY <1>1 DEF WithId
    <3> QED BY <3>1 DEF Push
  <2> QED BY <2>1, <1>1 DEF Released
<1>6. x \in ToClient /\ x.type = "PUBREL" /\ x.pid = pid
  BY BrokerPackets
<1>7. Replies(<<x>>)
  OBVIOUS
<1> HIDE DEF u, x
<1>8. broker' \in Session /\ broker'.out = u
  BY <1>1, <1>4, <1>5 DEF Session
<1>9. /\ b2c \in Seq(ToClient) /\ b2c' \in Seq(ToClient) /\ Added(b2c, x, b2c')
      /\ Len(b2c') <= plan.chan
  BY <1>2, <1>6, <1>7, Replied
<1>10. CallOK(queue, b2c', u, pushed, called)
  BY <1>3, <1>6, <1>9, CallReleased
<1>11. CallInv'
  BY <1>2, <1>8, <1>10 DEF CallInv
<1>12. link' \in BOOLEAN
  BY DEF IInv, Shape, NetShape
<1>13. Accepts(Head(c2b))
  BY DEF Accepts, IsPublish
<1> QED BY <1>8, <1>9, <1>11, <1>12, <1>13, PacketTaken

\* The broker takes a packet.
LEMMA BrokerRecvKeeps ==
    ASSUME IInv, UNCHANGED plan, BrokerRecv
    PROVE  IInv'
<1> DEFINE p == Head(c2b)
<1>1. Takes
  BY DEF BrokerRecv, Takes
<1>2. p \in ToBroker
  BY <1>1, HeadTailProperties DEF IInv, Shape, NetShape, Takes
<1>3. p.pid \in 0..NPid /\ 0 \in 0..NPid
  BY <1>2, ClientAssumption DEF ToBroker
<1>4. broker \in Session /\ link \in BOOLEAN /\ plan.refuse \in BOOLEAN
  BY ClientAssumption DEF IInv, Shape, BrokerShape, NetShape, PlanType
<1>5. UNCHANGED broker => broker' \in Session /\ broker'.out \subseteq broker.out
  BY <1>4
<1>6. p = Head(c2b)
  OBVIOUS
<1> HIDE DEF p
<1>7. ASSUME NEW type \in {"CONNACK", "SUBACK", "UNSUBACK", "PINGRESP", "PUBACK", "PUBREC",
                           "PUBCOMP"},
             NEW pid \in 0..NPid, NEW ok \in BOOLEAN, Replies(<<Pkt(type, pid, ok)>>)
      PROVE  Answers
  <2> DEFINE x == Pkt(type, pid, ok)
  <2>1. x \in ToClient /\ x.type = type
    BY BrokerPackets
  <2>2. Replies(<<x>>)
    BY <1>7
  <2> HIDE DEF x
  <2> QED BY <2>1, <2>2 DEF Answers
<1>8. UNCHANGED delivered /\ p.type # "PUBLISH" => Accepts(p)
  BY DEF Accepts, IsPublish
<1>9. p.type = "PUBLISH" /\ Accept(p) => Accepts(p)
  BY DEF Accepts, IsPublish
<1>10. CASE /\ p.type = "CONNECT" /\ broker.up = "new"
            /\ \E ok \in {TRUE} \cup {~plan.refuse} :
                  /\ Replies(<<Pkt("CONNACK", p.pid, ok)>>)
                  /\ broker' = [broker EXCEPT !.up = IF ok THEN "accepted" ELSE "refused"]
            /\ UNCHANGED <<delivered, link>>
  <2>1. PICK ok \in BOOLEAN :
           /\ Replies(<<Pkt("CONNACK", p.pid, ok)>>)
           /\ broker' = [broker EXCEPT !.up = IF ok THEN "accepted" ELSE "refused"]
    BY <1>4, <1>10
  <2>2. broker' \in Session /\ broker'.out \subseteq broker.out
    BY <1>4, <2>1 DEF Session
  <2> QED BY <1>1, <1>3, <1>4, <1>6, <1>7, <1>8, <1>10, <2>1, <2>2, PacketAnswered
<1>11. CASE /\ p.type = "SUBSCRIBE"
            /\ \E ok \in {TRUE} \cup {~plan.refuse} : Replies(<<Pkt("SUBACK", p.pid, ok)>>)
            /\ UNCHANGED <<broker, delivered, link>>
  <2>1. PICK ok \in BOOLEAN : Replies(<<Pkt("SUBACK", p.pid, ok)>>)
    BY <1>11
  <2> QED BY <1>1, <1>3, <1>4, <1>5, <1>6, <1>7, <1>8, <1>11, <2>1, PacketAnswered
<1>12. CASE /\ p.type = "UNSUBSCRIBE"
            /\ Replies(<<Pkt("UNSUBACK", p.pid, TRUE)>>)
            /\ UNCHANGED <<broker, delivered, link>>
  BY <1>1, <1>3, <1>4, <1>5, <1>6, <1>7, <1>8, <1>12, PacketAnswered
<1>13. CASE /\ p.type = "PINGREQ"
            /\ Replies(<<Pkt("PINGRESP", 0, TRUE)>>)
            /\ UNCHANGED <<broker, delivered, link>>
  BY <1>1, <1>3, <1>4, <1>5, <1>6, <1>7, <1>8, <1>13, PacketAnswered
<1>14. CASE p.type = "PUBLISH" /\ p.qos = 0 /\ Accept(p) /\ UNCHANGED <<b2c, broker, link>>
  BY <1>1, <1>4, <1>5, <1>6, <1>9, <1>14, PacketAnswered DEF Silent
<1>15. CASE /\ p.type = "PUBLISH" /\ p.qos = 1
            /\ Accept(p) /\ Replies(<<Pkt("PUBACK", p.pid, TRUE)>>)
            /\ UNCHANGED <<broker, link>>
  BY <1>1, <1>3, <1>4, <1>5, <1>6, <1>7, <1>9, <1>15, PacketAnswered
<1>16. CASE /\ p.type = "PUBLISH" /\ p.qos = 2
            /\ IF p.pid \in broker.seen2 THEN UNCHANGED delivered ELSE Accept(p)
            /\ broker' = [broker EXCEPT !.seen2 = @ \cup {p.pid}]
            /\ Replies(<<Pkt("PUBREC", p.pid, TRUE)>>)
            /\ UNCHANGED link
  <2>1. broker' \in Session /\ broker'.out \subseteq broker.out
    BY <1>3, <1>4, <1>16 DEF Session
  <2>2. Accepts(p)
    BY <1>9, <1>16 DEF Accepts
  <2> QED BY <1>1, <1>3, <1>4, <1>6, <1>7, <1>16, <2>1, <2>2, PacketAnswered
<1>17. CASE /\ p.type = "PUBREL"
            /\ broker' = [broker EXCEPT !.seen2 = @ \ {p.pid}]
            /\ Replies(<<Pkt("PUBCOMP", p.pid, TRUE)>>)
            /\ UNCHANGED <<delivered, link>>
  <2>1. broker' \in Session /\ broker'.out \subseteq broker.out
    BY <1>3, <1>4, <1>17 DEF Session
  <2> QED BY <1>1, <1>3, <1>4, <1>6, <1>7, <1>8, <1>17, <2>1, PacketAnswered
<1>18. CASE /\ p.type \in {"PUBACK", "PUBCOMP"}
            /\ broker' = [broker EXCEPT !.out = @ \ OutWith(p.pid)]
            /\ UNCHANGED <<b2c, delivered, link>>
  <2> DEFINE left == broker.out \ OutWith(p.pid)
  <2>1. broker' = [broker EXCEPT !.out = left] /\ left \subseteq broker.out
    BY <1>18
  <2>2. left \subseteq Push
    BY <1>4, <2>1 DEF Session
  <2> HIDE DEF left
  <2>3. broker' \in Session /\ broker'.out \subseteq broker.out
    BY <1>4, <2>1, <2>2 DEF Session
  <2>4. p.type # "PUBLISH"
    BY <1>18
  <2> QED BY <1>1, <1>4, <1>6, <1>8, <1>18, <2>3, <2>4, PacketAnswered DEF Silent
<1>19. CASE /\ p.type = "PUBREC"
            /\ broker' = [broker EXCEPT !.out =
                  (@ \ OutWith(p.pid)) \cup {[o EXCEPT !.rel = TRUE] : o \in OutWith(p.pid)}]
            /\ Replies(<<Pkt("PUBREL", p.pid, TRUE)>>)
            /\ UNCHANGED <<delivered, link>>
  BY <1>1, <1>3, <1>6, <1>19, PubrecTaken
<1>20. CASE p.type = "DISCONNECT" /\ link' = FALSE /\ UNCHANGED <<b2c, broker, delivered>>
  BY <1>1, <1>5, <1>6, <1>8, <1>20, PacketAnswered DEF Silent
<1> QED BY <1>6, <1>10, <1>11, <1>12, <1>13, <1>14, <1>15, <1>16, <1>17, <1>18, <1>19, <1>20
        DEF BrokerRecv

\* The invariant after the broker has pushed packet x.
LEMMA PushedKeeps ==
    ASSUME IInv, UNCHANGED plan, Len(b2c) < plan.chan, NEW x \in ToClient, Replies(<<x>>),
           UNCHANGED <<client, c2b, link, conns, staged, delivered, called>>,
           broker' \in Session, pushed' \in Seq(QoS),
           CallOK(queue, b2c', broker'.out, pushed', called)
    PROVE  IInv'
<1>1. UNCHANGED <<queue, error, lfsr, idle, pc, c2b, link, conns, staged, delivered, called>>
  BY DEF client
<1>2. b2c' \in Seq(ToClient) /\ Len(b2c') <= plan.chan
  BY Replied
<1>3. QueueShape' /\ ClientShape' /\ NetShape' /\ BrokerShape' /\ HistShape'
  BY <1>1, <1>2
     DEF IInv, Shape, QueueShape, ClientShape, NetShape, BrokerShape, HistShape
<1>4. CallInv'
  BY <1>1 DEF CallInv
<1>5. OrderInv'
  BY <1>1 DEF IInv, OrderInv, Walk
<1> QED BY <1>3, <1>4, <1>5 DEF IInv, Shape

\* The broker pushes a new message.
LEMMA BrokerPublishKeeps ==
    ASSUME IInv, UNCHANGED plan, NEW qos \in QoS, BrokerPublish(qos)
    PROVE  IInv'
<1> DEFINE free == {p \in Pids : OutWith(p) = {}}
           least == CHOOSE p \in free : \A r \in free : p <= r
           k == Len(pushed) + 1
           o == [id |-> k, qos |-> qos, rel |-> FALSE, pid |-> IF qos = 0 THEN 0 ELSE least]
           x == PubPkt(o)
<1>1. /\ Len(b2c) < plan.chan /\ pushed' = Append(pushed, qos)
      /\ qos > 0 => free # {}
      /\ Replies(<<x>>)
      /\ broker' = IF qos = 0 THEN broker ELSE [broker EXCEPT !.out = @ \cup {o}]
      /\ UNCHANGED <<client, c2b, link, conns, asked, staged, delivered, called>>
  BY DEF BrokerPublish
<1>2. /\ CallOK(queue, b2c, broker.out, pushed, called) /\ broker \in Session
      /\ broker.out \in SUBSET Push /\ pushed \in Seq(QoS) /\ UNCHANGED <<queue, called>>
  BY <1>1 DEF IInv, CallInv, Shape, BrokerShape, HistShape, Session, client
<1>3. qos > 0 => least \in free
  <2>1. free \subseteq Nat
    BY DEF Pids
  <2>2. qos > 0 => \E p \in free : \A r \in free : p <= r
    BY <1>1, <2>1, LeastExists
  <2> QED BY <2>2
<1>4. qos > 0 => least \in Pids /\ \A u \in broker.out : u.pid # least
  <2>1. \A u \in broker.out : u.qos > 0
    BY <1>2 DEF CallOK, Numbered
  <2> HIDE DEF least
  <2>2. qos > 0 => least \in Pids /\ OutWith(least) = {}
    BY <1>3
  <2> QED BY <2>1, <2>2 DEF OutWith
<1>5. k \in Nat \ {0} /\ NPid \in Nat /\ NPid >= 1
  BY <1>2, LenProperties, ClientAssumption
<1>6. qos \in Nat /\ (qos # 0 => qos > 0)
  BY DEF QoS
<1> HIDE DEF free, least, k
<1>7. /\ pushed' \in Seq(QoS) /\ Added(pushed, qos, pushed')
  BY <1>1, <1>2, AppendProperties DEF Added
<1>8. x.type = "PUBLISH" /\ x.id = k /\ x.qos = qos /\ x.pid = IF qos = 0 THEN 0 ELSE least
  BY DEF PubPkt
<1>9. x \in ToClient
  <2>1. (IF qos = 0 THEN 0 ELSE least) \in 0..NPid
    BY <1>4, <1>5, <1>6 DEF Pids
  <2> QED BY <2>1, <1>5 DEF PubPkt, ToClient
<1> HIDE DEF x
<1>10. b2c \in Seq(ToClient) /\ b2c' \in Seq(ToClient) /\ Added(b2c, x, b2c')
  BY <1>1, <1>9, Replied
<1>11. CASE qos = 0
  <2> DEFINE v == [id |-> k, qos |-> qos, rel |-> FALSE, pid |-> 1]
  <2>1. v \in Push /\ v.id = k /\ v.qos = qos
    BY <1>5 DEF Push, Pids
  <2> HIDE DEF v
  <2>2. {} \in SUBSET {v}
    OBVIOUS
  <2>3. CallOK(queue, b2c', broker.out \cup {}, pushed', called)
    BY <1>2, <1>7, <1>8, <1>9, <1>10, <2>1, <2>2, CallPushed DEF k
  <2>4. broker.out \cup {} = broker.out /\ broker' = broker
    BY <1>1, <1>11
  <2>5. CallOK(queue, b2c', broker'.out, pushed', called)
    BY <2>3, <2>4
  <2> QED BY <1>1, <1>2, <1>7, <1>9, <2>4, <2>5, PushedKeeps
<1>12. CASE qos # 0
  <2>1. o \in Push /\ o.id = k /\ o.qos = qos /\ o.pid = least
    BY <1>4, <1>5, <1>6, <1>12 DEF Push
  <2>2. broker' = [broker EXCEPT !.out = broker.out \cup {o}]
    BY <1>1, <1>12
  <2> HIDE DEF o
  <2>3. broker' \in Session /\ broker'.out = broker.out \cup {o}
    BY <1>2, <2>1, <2>2 DEF Session
  <2>4. \A u \in broker.out : u.pid # o.pid
    BY <1>4, <1>6, <1>12, <2>1
  <2>5. o.qos > 0 /\ x.pid = o.pid /\ x.id = o.id /\ x.qos = o.qos /\ Added(pushed, o.qos, pushed')
    BY <1>6, <1>7, <1>8, <1>12, <2>1
  <2>6. CallOK(queue, b2c', broker.out \cup {o}, pushed', called)
    BY <1>2, <1>7, <1>8, <1>9, <1>10, <2>1, <2>4, <2>5, CallPushed DEF k
  <2>7. CallOK(queue, b2c', broker'.out, pushed', called)
    BY <2>3, <2>6
  <2> QED BY <1>1, <1>7, <1>9, <2>3, <2>7, PushedKeeps
<1> QED BY <1>11, <1>12

\* The broker transmits a PUBLISH or a PUBREL again.
LEMMA BrokerResendKeeps ==
    ASSUME IInv, UNCHANGED plan, NEW o \in broker.out, BrokerResend(o)
    PROVE  IInv'
<1> DEFINE x == IF o.rel THEN Pkt("PUBREL", o.pid, TRUE) ELSE PubPkt(o)
<1>1. /\ Len(b2c) < plan.chan /\ broker.resends > 0 /\ Replies(<<x>>)
      /\ broker' = [broker EXCEPT !.resends = @ - 1]
      /\ UNCHANGED <<client, c2b, link, conns, history>>
  BY DEF BrokerResend
<1>2. /\ CallOK(queue, b2c, broker.out, pushed, called) /\ broker \in Session
      /\ o \in Push /\ pushed \in Seq(QoS)
      /\ UNCHANGED <<queue, staged, delivered, pushed, called>>
  BY <1>1 DEF IInv, CallInv, Shape, BrokerShape, HistShape, Session, client, history
<1>3. broker' \in Session /\ broker'.out = broker.out
  <2>1. broker.resends - 1 \in Nat
    BY <1>1, <1>2 DEF Session
  <2> QED BY <2>1, <1>1, <1>2 DEF Session
<1>4. o.pid \in 0..NPid /\ o.pid \in Pids /\ o.id \in Nat /\ o.qos \in QoS /\ o.rel \in BOOLEAN
  BY <1>2, ClientAssumption DEF Push, Pids
<1>5. /\ o.rel => x.type = "PUBREL" /\ x.pid = o.pid
      /\ ~o.rel => x.type = "PUBLISH" /\ x.id = o.id /\ x.qos = o.qos /\ x.pid = o.pid
  BY DEF Pkt, PubPkt
<1>6. x \in ToClient
  <2>1. CASE o.rel
    <3>1. Pkt("PUBREL", o.pid, TRUE) \in ToClient
      BY <1>4, BrokerPackets
    <3> QED BY <2>1, <3>1
  <2>2. CASE ~o.rel
    BY <2>2, <1>4 DEF PubPkt, ToClient
  <2> QED BY <2>1, <2>2
<1> HIDE DEF x
<1>7. b2c \in Seq(ToClient) /\ b2c' \in Seq(ToClient) /\ Added(b2c, x, b2c')
  BY <1>1, <1>6, Replied
<1>8. CallOK(queue, b2c', broker.out, pushed, called)
  <2>1. CASE o.rel
    <3>1. \A u \in broker.out : u.pid = x.pid => u.rel
      BY <1>2, <1>5, <2>1 DEF CallOK, Identified
    <3> QED BY <1>2, <1>5, <1>7, <2>1, <3>1, CallReleased
  <2>2. CASE ~o.rel
    BY <1>2, <1>5, <1>7, <2>2, CallResent
  <2> QED BY <2>1, <2>2
<1>9. CallOK(queue, b2c', broker'.out, pushed', called) /\ pushed' \in Seq(QoS)
  BY <1>2, <1>3, <1>8
<1> QED BY <1>1, <1>2, <1>3, <1>6, <1>9, PushedKeeps

-----------------------------------------------------------------------------
(* The socket.                                                              *)

\* The broker or the network hangs up.
LEMMA ClosesKeeps ==
    ASSUME IInv, UNCHANGED plan, Closes
    PROVE  IInv'
<1>1. /\ link' = FALSE /\ c2b' = <<>> /\ b2c' = <<>>
      /\ UNCHANGED <<queue, error, lfsr, idle, pc, conns, broker, staged, delivered,
                     pushed, called>>
  BY DEF Closes, client, history
<1>2. /\ <<>> \in Seq(ToBroker) /\ <<>> \in Seq(ToClient) /\ Len(<<>>) = 0
      /\ plan.chan \in Nat
  BY EmptySeq, ClientAssumption DEF IInv, Shape, BrokerShape, PlanType
<1>3. QueueShape' /\ ClientShape' /\ NetShape' /\ BrokerShape' /\ HistShape'
  <2>1. 0 <= plan.chan /\ plan' = plan
    BY <1>2
  <2>2. NetShape'
    BY <1>1, <1>2, <2>1 DEF IInv, Shape, NetShape
  <2> QED BY <1>1, <2>2 DEF IInv, Shape, QueueShape, ClientShape, BrokerShape, HistShape
<1>4. CallInv'
  <2>1. CallOK(queue, b2c, broker.out, pushed, called) /\ OneRec(queue)
    BY DEF IInv, CallInv, CallOK
  <2>2. RecKept(queue, queue, {}) /\ broker.out \in SUBSET broker.out
    BY <2>1 DEF RecKept
  <2>3. CallOK(queue, <<>>, broker.out, pushed, called)
    BY <2>1, <2>2, CallSilent
  <2> QED BY <1>1, <2>3 DEF CallInv
<1>5. OrderInv'
  <2>1. OrderOK(queue, staged, c2b, delivered) /\ Walk
    BY DEF IInv, OrderInv
  <2>2. OrderOK(queue, staged, <<>>, delivered)
    BY <2>1, OrderSilent
  <2> QED BY <1>1, <2>1, <2>2 DEF OrderInv, Walk
<1> QED BY <1>3, <1>4, <1>5 DEF IInv, Shape

\* The queue of a new connection holds the CONNECT.
LEMMA NewQueue ==
    /\ <<Msg("CONNECT", 0, 0, 0)>> \in Seq(Message)
    /\ Len(<<Msg("CONNECT", 0, 0, 0)>>) <= QueueCap
    /\ OneRec(<<Msg("CONNECT", 0, 0, 0)>>)
    /\ ~IsPublish(Msg("CONNECT", 0, 0, 0))
<1> DEFINE m == Msg("CONNECT", 0, 0, 0)
<1>1. m \in Message /\ m.type = "CONNECT"
  <2>1. "CONNECT" \in Types /\ 0 \in QoS /\ 0 \in Nat /\ 0 \in 0..NPid
    BY ClientAssumption DEF Types, Unidentified, QoS
  <2> QED BY <2>1, NewMessage
<1> HIDE DEF m
<1>2. <<m>> \in Seq(Message) /\ Len(<<m>>) = 1 /\ DOMAIN <<m>> = {1} /\ <<m>>[1] = m
  BY <1>1
<1>3. Len(<<m>>) <= QueueCap
  BY <1>2, ClientAssumption
<1>4. OneRec(<<m>>) /\ ~IsPublish(m)
  BY <1>1, <1>2 DEF OneRec, IsPublish
<1> QED BY <1>2, <1>3, <1>4 DEF m

\* The agent connects again.
LEMMA ReconnectKeeps ==
    ASSUME IInv, UNCHANGED plan, Reconnect
    PROVE  IInv'
<1> DEFINE m == Msg("CONNECT", 0, 0, 0)
<1>1. /\ conns < MaxConn /\ conns' = conns + 1 /\ queue' = <<m>>
      /\ error' = "OK" /\ lfsr' = 0 /\ pc' = [pc EXCEPT !.at = "rest"]
      /\ link' = TRUE /\ c2b' = <<>> /\ b2c' = <<>>
      /\ broker' = [broker EXCEPT !.seen2 = {}, !.out = {}, !.up = "new"]
      /\ UNCHANGED <<idle, staged, delivered, pushed, called>>
  BY DEF Reconnect, history
<1>2. <<m>> \in Seq(Message) /\ Len(<<m>>) <= QueueCap /\ OneRec(<<m>>) /\ ~IsPublish(m)
  BY NewQueue
<1> HIDE DEF m
<1>3. /\ <<>> \in Seq(ToBroker) /\ <<>> \in Seq(ToClient) /\ Len(<<>>) = 0
      /\ plan.chan \in Nat
  BY EmptySeq, ClientAssumption DEF IInv, Shape, BrokerShape, PlanType
<1>4. pc' \in Place /\ pc'.at = "rest"
  BY <1>1, Places DEF IInv, Shape, ClientShape
<1>5. QueueShape'
  BY <1>1, <1>2 DEF QueueShape
<1>6. ClientShape'
  BY <1>1, <1>4, ClientAssumption DEF IInv, Shape, ClientShape, Errors
<1>7. NetShape'
  <2>1. conns' \in 1..MaxConn
    BY <1>1, ClientAssumption DEF IInv, Shape, NetShape
  <2> QED BY <2>1, <1>1, <1>3 DEF NetShape
<1>8. broker' \in Session /\ broker'.out = {}
  BY <1>1 DEF IInv, Shape, BrokerShape, Session
<1>9. BrokerShape' /\ HistShape'
  BY <1>1, <1>8 DEF IInv, Shape, BrokerShape, HistShape
<1>10. CallInv'
  <2>1. CallOK(queue, b2c, broker.out, pushed, called) /\ {} \in SUBSET broker.out
    BY DEF IInv, CallInv
  <2>2. CallOK(<<m>>, <<>>, {}, pushed, called)
    BY <1>2, <2>1, CallSilent
  <2> QED BY <1>1, <1>8, <2>2 DEF CallInv
<1>11. OrderInv'
  <2>1. OrderOK(queue, staged, c2b, delivered)
    BY DEF IInv, OrderInv
  <2>2. OrderOK(queue, staged, <<>>, delivered)
    BY <2>1, OrderSilent
  <2>3. OrderOK(<<m>>, staged, <<>>, delivered) /\ Awaited(<<m>>, <<>>, delivered)
    BY <1>2, <2>2, OrderNew
  <2>4. Walk'
    BY <1>4 DEF Walk
  <2> QED BY <1>1, <2>3, <2>4 DEF OrderInv
<1> QED BY <1>5, <1>6, <1>7, <1>9, <1>10, <1>11 DEF IInv, Shape

-----------------------------------------------------------------------------
(* The theorems.                                                            *)

\* The invariant holds when the agent has connected.
LEMMA InitIInv ==
    ASSUME Init
    PROVE  IInv
<1> DEFINE m == Msg("CONNECT", 0, 0, 0)
<1>1. /\ plan \in Plans /\ queue = <<m>>
      /\ error = "OK" /\ lfsr = 0 /\ idle = KeepAlive + 1
      /\ pc = [at |-> "rest", i |-> 0, qos2 |-> FALSE]
      /\ c2b = <<>> /\ b2c = <<>> /\ link = TRUE /\ conns = 1
      /\ broker = BrokerInit
      /\ staged = <<>> /\ delivered = <<>> /\ pushed = <<>> /\ called = <<>>
  BY DEF Init
<1>2. <<m>> \in Seq(Message) /\ Len(<<m>>) <= QueueCap /\ OneRec(<<m>>) /\ ~IsPublish(m)
  BY NewQueue
<1> HIDE DEF m
<1>3. DOMAIN <<>> = {} /\ Len(<<>>) = 0 /\ \A S : <<>> \in Seq(S)
  BY EmptySeq
<1>4. plan.chan \in Nat /\ plan.resends \in Nat
  BY <1>1, ClientAssumption DEF PlanType
<1>5. QueueShape
  BY <1>1, <1>2 DEF QueueShape
<1>6. ClientShape
  <2>1. pc \in Place /\ pc.at = "rest"
    BY <1>1, ClientAssumption DEF Place
  <2>2. lfsr \in 0..NPid /\ idle \in 0..(KeepAlive + 1)
    BY <1>1, ClientAssumption
  <2> QED BY <1>1, <2>1, <2>2 DEF ClientShape, Errors
<1>7. NetShape
  <2>1. conns \in 1..MaxConn
    BY <1>1, ClientAssumption
  <2> QED BY <1>1, <1>3, <1>4, <2>1 DEF NetShape
<1>8. broker \in Session /\ broker.out = {}
  BY <1>1, <1>4 DEF BrokerInit, Session
<1>9. BrokerShape /\ HistShape
  BY <1>1, <1>3, <1>8 DEF BrokerShape, HistShape
<1>10. CallInv
  <2>1. Numbered(<<>>, {}, <<>>, <<>>)
    BY <1>3 DEF Numbered
  <2>2. Identified(<<>>, {})
    BY <1>3 DEF Identified
  <2>3. RelAfterPubs(<<>>, {})
    BY <1>3 DEF RelAfterPubs
  <2>4. Guarded(<<m>>, <<>>, {}, <<>>)
    BY <1>3 DEF Guarded
  <2>5. NoRepeat(<<>>, <<>>)
    BY <1>3 DEF NoRepeat
  <2> QED BY <1>1, <1>2, <1>8, <2>1, <2>2, <2>3, <2>4, <2>5 DEF CallInv, CallOK
<1>11. OrderInv
  <2>1. DOMAIN <<m>> = {1} /\ <<m>>[1] = m
    OBVIOUS
  <2>2. QueueInOrder(<<m>>, <<>>) /\ SentInOrder(<<m>>, <<>>, <<>>, <<>>)
        /\ Awaited(<<m>>, <<>>, <<>>)
    BY <1>2, <2>1 DEF QueueInOrder, SentInOrder, Awaited
  <2>3. Known(<<>>, <<>>, <<>>) /\ WireInOrder(<<>>, <<>>, <<>>) /\ Ordered(<<>>, <<>>)
    BY <1>3 DEF Known, WireInOrder, Ordered
  <2>4. Walk
    BY <1>1 DEF Walk
  <2> QED BY <1>1, <2>2, <2>3, <2>4 DEF OrderInv, OrderOK
<1> QED BY <1>5, <1>6, <1>7, <1>9, <1>10, <1>11 DEF IInv, Shape

\* Every step keeps the invariant.
LEMMA NextIInv ==
    ASSUME IInv, [Next /\ UNCHANGED plan]_<<vars, plan>>
    PROVE  IInv'
<1>1. CASE Next /\ UNCHANGED plan
  <2>1. ASSUME NEW qos \in QoS, mqtt_publish(qos) PROVE IInv'
    BY <1>1, <2>1, PublishKeeps
  <2>2. ASSUME NEW qos \in QoS, BrokerPublish(qos) PROVE IInv'
    BY <1>1, <2>2, BrokerPublishKeeps
  <2>3. ASSUME NEW type \in plan.requests, mqtt_subscribe(type) PROVE IInv'
    BY <1>1, <2>3, SubscribeKeeps
  <2>4. CASE mqtt_disconnect
    BY <1>1, <2>4, DisconnectKeeps
  <2>5. CASE SyncStart
    BY <1>1, <2>5, SyncStartKeeps
  <2>6. CASE Recv
    <3>1. CASE RecvConnack
      BY <1>1, <3>1, RecvConnackKeeps
    <3>2. CASE RecvPublish
      BY <1>1, <3>2, RecvPublishKeeps
    <3>3. CASE RecvPuback \/ RecvPubcomp \/ RecvUnsuback \/ RecvPingresp
      BY <1>1, <3>3, RecvReleaseKeeps
    <3>4. CASE RecvPubrec
      BY <1>1, <3>4, RecvPubrecKeeps
    <3>5. CASE RecvPubrel
      BY <1>1, <3>5, RecvPubrelKeeps
    <3>6. CASE RecvSuback
      BY <1>1, <3>6, RecvSubackKeeps
    <3>7. CASE RecvError
      BY <1>1, <3>7, RecvErrorKeeps
    <3>8. CASE RecvDone
      BY <1>1, <3>8, RecvDoneKeeps
    <3> QED BY <2>6, <3>1, <3>2, <3>3, <3>4, <3>5, <3>6, <3>7, <3>8 DEF Recv
  <2>7. CASE Send
    <3>1. CASE SendSkip
      BY <1>1, <3>1, SendSkipKeeps
    <3>2. CASE SendMessage
      BY <1>1, <3>2, SendMessageKeeps
    <3>3. CASE SendError
      BY <1>1, <3>3, SendErrorKeeps
    <3>4. CASE KeepAliveCheck
      BY <1>1, <3>4, KeepAliveCheckKeeps
    <3> QED BY <2>7, <3>1, <3>2, <3>3, <3>4 DEF Send
  <2>8. CASE BrokerRecv
    BY <1>1, <2>8, BrokerRecvKeeps
  <2>9. ASSUME NEW o \in broker.out, BrokerResend(o) PROVE IInv'
    BY <1>1, <2>9, BrokerResendKeeps
  <2>10. CASE Tick
    BY <1>1, <2>10, TickKeeps
  <2>11. CASE HangUp \/ BrokerCloses
    BY <1>1, <2>11, ClosesKeeps DEF HangUp, BrokerCloses
  <2>12. CASE Reconnect
    BY <1>1, <2>12, ReconnectKeeps
  <2> QED BY <1>1, <2>1, <2>2, <2>3, <2>4, <2>5, <2>6, <2>7, <2>8, <2>9, <2>10, <2>11, <2>12
          DEF Next, mqtt_sync
<1>2. CASE UNCHANGED <<vars, plan>>
  <2>1. UNCHANGED <<plan, queue, error, lfsr, idle, pc, c2b, b2c, link, conns, broker,
                    staged, delivered, pushed, called>>
    BY <1>2 DEF vars, client, net, history
  <2>2. QueueShape' /\ ClientShape' /\ NetShape' /\ BrokerShape' /\ HistShape'
    BY <2>1 DEF IInv, Shape, QueueShape, ClientShape, NetShape, BrokerShape, HistShape
  <2>3. CallInv' /\ OrderInv'
    BY <2>1 DEF IInv, CallInv, OrderInv, Walk
  <2> QED BY <2>2, <2>3 DEF IInv, Shape
<1> QED BY <1>1, <1>2

\* The invariant holds always.
THEOREM Invariant == Spec => []IInv
<1>1. Init => IInv
  BY InitIInv
<1>2. IInv /\ [Next /\ UNCHANGED plan]_<<vars, plan>> => IInv'
  BY NextIInv
<1> QED BY <1>1, <1>2, PTL DEF Spec

\* The fields of the client have the values the code gives them, the queue stays
\* within the send buffer and the packets under way within the channels.
THEOREM TypeCorrect == Spec => []TypeOK
<1>1. IInv => TypeOK
  BY DEF IInv, Shape, QueueShape, ClientShape, NetShape, TypeOK, Message, Place
<1> QED BY <1>1, Invariant, PTL

\* No message is called twice when NoRepeat holds.
LEMMA CountedOnce ==
    ASSUME IInv
    PROVE  CalledAtMostOnce
<1> SUFFICES ASSUME NEW k \in DOMAIN pushed, pushed[k] = 2
             PROVE  Times(called, k) <= 1
  BY DEF CalledAtMostOnce
<1> DEFINE T == {i \in DOMAIN called : called[i] = k}
<1>1. \A i, j \in T : i = j
  BY DEF IInv, CallInv, CallOK, NoRepeat
<1>2. Times(called, k) = Cardinality(T)
  BY DEF Times
<1> HIDE DEF T
<1>3. CASE T = {}
  BY <1>2, <1>3, FS_EmptySet
<1>4. CASE T # {}
  <2>1. PICK i \in T : TRUE
    BY <1>4
  <2>2. T = {i}
    BY <2>1, <1>1
  <2> QED BY <2>2, <1>2, FS_Singleton
<1> QED BY <1>3, <1>4

\* __mqtt_recv passes a QoS 2 message of the broker to publish_response_callback at
\* most once, however often the broker transmits it.
THEOREM CalledOnce == Spec => []CalledAtMostOnce
<1>1. IInv => CalledAtMostOnce
  BY CountedOnce
<1> QED BY <1>1, Invariant, PTL

\* The broker accepts the messages of one QoS in the order mqtt_publish staged them,
\* whatever __mqtt_send holds back or transmits again.
THEOREM OrderKept == Spec => []OrderedPerQoS
<1>1. IInv => OrderedPerQoS
  BY DEF IInv, OrderInv, OrderOK, Ordered, OrderedPerQoS
<1> QED BY <1>1, Invariant, PTL
-----------------------------------------------------------------------------
(* The second part: a QoS 2 message is accepted once and no message is given *)
(* up unanswered.  Neither need hold when an identifier is given to a new    *)
(* message while a packet of its last one is under way (__mqtt_next_pid      *)
(* looks in the queue only), so both are proved of the behaviours where that *)
(* does not happen.                                                          *)

\* A PUBLISH that has an identifier in the packet.
HasPid(m) == IsPublish(m) /\ m.qos > 0

\* Of a message with identifier pid the broker keeps nothing, and nothing is under way
\* that a new message, or its answer, could be taken for.
Untouched(b, c, seen, pid) ==
    /\ pid \notin seen
    /\ \A i \in DOMAIN c : HasPid(c[i]) \/ c[i].type = "PUBREL" => c[i].pid # pid
    /\ \A i \in DOMAIN b : b[i].type \in {"PUBACK", "PUBREC"} => b[i].pid # pid

Unused(pid) == Untouched(b2c, c2b, broker.seen2, pid)

\* Messages get unused identifiers.
FreshStep == \A qos \in QoS : mqtt_publish(qos) => Unused(lfsr')
FreshIds  == [][FreshStep]_<<vars, plan>>

-----------------------------------------------------------------------------
(* The inductive invariant, for a queue q, packets b and c under way to the *)
(* client and to the broker, the accepted messages dl and the identifiers   *)
(* seen that the broker keeps.                                              *)

\* An identifier is that of one message.
OneHolder(q, c) ==
    /\ \A i, j \in DOMAIN q : IsPublish(q[i]) /\ IsPublish(q[j]) /\ q[i].pid = q[j].pid => i = j
    /\ \A i \in DOMAIN q, j \in DOMAIN c :
          IsPublish(q[i]) /\ HasPid(c[j]) => (q[i].pid = c[j].pid <=> q[i].id = c[j].id)
    /\ \A i, j \in DOMAIN c :
          HasPid(c[i]) /\ HasPid(c[j]) => (c[i].pid = c[j].pid <=> c[i].id = c[j].id)

\* A PUBREL follows every copy of its PUBLISH, which is COMPLETE then.
RelBehind(q, c) ==
    /\ \A i, j \in DOMAIN c : HasPid(c[j]) /\ IsRel(c[i], c[j].pid) => j < i
    /\ \A i \in DOMAIN q : IsPublish(q[i]) /\ q[i].state # "COMPLETE" =>
          /\ \A j \in DOMAIN q : ~IsRel(q[j], q[i].pid)
          /\ \A j \in DOMAIN c : ~IsRel(c[j], q[i].pid)

\* The broker keeps the identifier of a QoS 2 message, as long as copies of it may
\* arrive, exactly if it has accepted the message.
SeenRight(m, dl, seen) == m.pid \in seen <=> Member(dl, m.id)
AllSeen(q, c, dl, seen) ==
    /\ \A j \in DOMAIN c : IsPublish(c[j]) /\ c[j].qos = 2 => SeenRight(c[j], dl, seen)
    /\ \A i \in DOMAIN q : IsPublish(q[i]) /\ q[i].qos = 2 /\ q[i].state # "COMPLETE" =>
          SeenRight(q[i], dl, seen)

\* An answer is meant for the message that it completes.
Meant(q, b, dl) == \A i \in DOMAIN q, j \in DOMAIN b :
    IsPublish(q[i]) /\ b[j].type \in {"PUBACK", "PUBREC"} /\ b[j].pid = q[i].pid =>
        Member(dl, q[i].id)

\* A message that is COMPLETE was accepted.
Finished(q, dl) == \A i \in DOMAIN q :
    HasPid(q[i]) /\ q[i].state = "COMPLETE" => Member(dl, q[i].id)

OnceOK(q, b, c, dl, seen) ==
    OneHolder(q, c) /\ RelBehind(q, c) /\ AllSeen(q, c, dl, seen) /\ Meant(q, b, dl)
    /\ Finished(q, dl)

\* ExactlyOnce and NeverLost without counting.
NoTwice(st, dl) == \A i, j \in DOMAIN dl : dl[i] = dl[j] /\ st[dl[i]] = 2 => i = j
Kept(q, st, dl) == \A k \in DOMAIN st :
    st[k] > 0 /\ ~Member(dl, k) => \E i \in DOMAIN q : IsPub(q[i], k) /\ q[i].state # "COMPLETE"

OnceInv == /\ OnceOK(queue, b2c, c2b, delivered, broker.seen2)
           /\ NoTwice(staged, delivered)
           /\ conns = 1 => Kept(queue, staged, delivered)

\* No identifier of a message of the client, wherever it is, is greater than n.
Owned(m) == m.type \in {"PUBLISH", "PUBREL"}
BelowOK(q, b, c, seen, n) ==
    /\ \A i \in DOMAIN q : Owned(q[i]) => q[i].pid <= n
    /\ \A i \in DOMAIN c : Owned(c[i]) => c[i].pid <= n
    /\ \A i \in DOMAIN b : b[i].type \in {"PUBACK", "PUBREC"} => b[i].pid <= n
    /\ \A pid \in seen : pid <= n

Below(n) == BelowOK(queue, b2c, c2b, broker.seen2, n)

-----------------------------------------------------------------------------
(* The steps of the queue.                                                  *)

\* Message i of the queue r after a step was message d + i of q, or it is new.
Traced(q, r, d, C, ms, i) ==
    \/ /\ d + i \in DOMAIN q /\ Same(q[d + i], r[i])
       /\ IF d + i \in C THEN r[i].state = "COMPLETE" ELSE r[i].state = q[d + i].state
    \/ i = Len(r) /\ Len(ms) = 1 /\ r[i] = ms[1]

\* Message i of q, when it is not completed, is in r after a step.
Stays(q, r, d, C, i) ==
    \/ i \in C \/ q[i].state = "COMPLETE"
    \/ \E j \in DOMAIN r : j + d = i /\ Same(q[i], r[j]) /\ r[j].state = q[i].state

\* Where every message comes from and goes to.
LEMMA StepTraced ==
    ASSUME NEW q \in Seq(Message), NEW r, NEW C, NEW ms \in Seq(Message),
           QStep(q, r, C, ms), Len(ms) \in {0, 1}
    PROVE  \E d \in Nat : /\ \A i \in DOMAIN r : Traced(q, r, d, C, ms, i)
                          /\ \A i \in DOMAIN q : Stays(q, r, d, C, i)
<1>1. Len(q) \in Nat /\ DOMAIN q = 1..Len(q)
  BY LenProperties
<1>2. PICK d \in 0..Len(q) : Moved(q, r, d, ms) /\ Forward(q, r, d, C)
  BY DEF QStep
<1>3. DOMAIN r = 1..Len(r)
  BY LenProperties DEF QStep
<1> DEFINE n == Len(q) - d
<1>4. n \in Nat /\ Len(r) = n + Len(ms) /\ d \in Nat
  BY <1>1, <1>2 DEF Moved
<1>5. \A i \in 1..n : d + i \in 1..Len(q) /\ Same(q[d + i], r[i])
  BY <1>1, <1>2 DEF Moved
<1>6. \A i \in 1..n : IF d + i \in C THEN r[i].state = "COMPLETE" ELSE r[i].state = q[d + i].state
  BY <1>2 DEF Forward
<1>7. \A i \in 1..d : i \in C \/ q[i].state = "COMPLETE"
  BY <1>2 DEF Forward
<1>8. Len(ms) = 1 => r[n + 1] = ms[1]
  BY <1>2 DEF Moved
<1>9. ASSUME NEW i \in DOMAIN r PROVE Traced(q, r, d, C, ms, i)
  <2>1. CASE i \in 1..n
    BY <2>1, <1>1, <1>5, <1>6 DEF Traced
  <2>2. CASE i \notin 1..n
    <3>1. Len(ms) = 1 /\ i = n + 1 /\ i = Len(r)
      <4>1. i \in 1..Len(r)
        BY <1>3
      <4> HIDE DEF n
      <4>2. CASE Len(ms) = 0
        <5>1. Len(r) = n
          BY <4>2, <1>4
        <5> QED BY <5>1, <4>1, <2>2
      <4>3. CASE Len(ms) = 1
        <5>1. Len(r) = n + 1 /\ n \in Nat
          BY <4>3, <1>4
        <5>2. i \in 1..(n + 1)
          BY <5>1, <4>1
        <5> QED BY <5>1, <5>2, <4>3, <2>2
      <4> QED BY <4>2, <4>3
    <3> QED BY <3>1, <1>8 DEF Traced
  <2> QED BY <2>1, <2>2
<1>10. ASSUME NEW i \in DOMAIN q PROVE Stays(q, r, d, C, i)
  <2>1. CASE i \in 1..d
    BY <2>1, <1>7 DEF Stays
  <2>2. CASE i \notin 1..d
    <3>1. i - d \in 1..n /\ (i - d) + d = i /\ d + (i - d) = i
      BY <2>2, <1>1, <1>4
    <3>2. i - d \in DOMAIN r
      <4> HIDE DEF n
      <4>1. Len(ms) \in Nat
        OBVIOUS
      <4> QED BY <3>1, <4>1, <1>3, <1>4
    <3>3. Same(q[i], r[i - d])
      BY <3>1, <1>5
    <3>4. i \in C \/ r[i - d].state = q[i].state
      BY <3>1, <1>6
    <3> QED BY <3>1, <3>2, <3>3, <3>4 DEF Stays
  <2> QED BY <2>1, <2>2
<1> QED BY <1>4, <1>9, <1>10

\* A step stages no PUBLISH, and a PUBREL only for a message that is COMPLETE; what
\* it completes was accepted.
Harmless(q, C, ms, dl) ==
    /\ ms \in Seq(Message) /\ Len(ms) \in {0, 1}
    /\ Len(ms) = 1 =>
          /\ ~IsPublish(ms[1])
          /\ \A i \in DOMAIN q : IsPublish(q[i]) /\ IsRel(ms[1], q[i].pid) =>
                i \in C \/ q[i].state = "COMPLETE"
          /\ Owned(ms[1]) => \E i \in DOMAIN q : Owned(q[i]) /\ q[i].pid = ms[1].pid
    /\ \A i \in C : i \in DOMAIN q /\ IsPublish(q[i]) => Member(dl, q[i].id)

\* A harmless step.
LEMMA OnceLocal ==
    ASSUME NEW q \in Seq(Message), NEW r, NEW C, NEW ms, NEW b, NEW c, NEW dl, NEW seen,
           NEW st, QStep(q, r, C, ms), Harmless(q, C, ms, dl), OnceOK(q, b, c, dl, seen)
    PROVE  OnceOK(r, b, c, dl, seen) /\ (Kept(q, st, dl) => Kept(r, st, dl))
<1>1. ms \in Seq(Message) /\ Len(ms) \in {0, 1}
  BY DEF Harmless
<1>2. PICK d \in Nat : /\ \A i \in DOMAIN r : Traced(q, r, d, C, ms, i)
                       /\ \A i \in DOMAIN q : Stays(q, r, d, C, i)
  BY <1>1, StepTraced
<1>3. ASSUME NEW i \in DOMAIN r, IsPublish(r[i])
      PROVE  /\ d + i \in DOMAIN q /\ Same(q[d + i], r[i]) /\ IsPublish(q[d + i])
             /\ IF d + i \in C THEN r[i].state = "COMPLETE" ELSE r[i].state = q[d + i].state
  BY <1>2, <1>3 DEF Traced, Same, IsPublish, Harmless
<1>4. \A i, j \in DOMAIN r : d + i = d + j => i = j
  <2>1. DOMAIN r = 1..Len(r)
    BY LenProperties DEF QStep
  <2> QED BY <2>1
<1>5. OneHolder(r, c)
  <2>1. OneHolder(q, c)
    BY DEF OnceOK
  <2>2. \A i, j \in DOMAIN r : IsPublish(r[i]) /\ IsPublish(r[j]) /\ r[i].pid = r[j].pid => i = j
    BY <2>1, <1>3, <1>4 DEF OneHolder, Same
  <2>3. \A i \in DOMAIN r, j \in DOMAIN c :
          IsPublish(r[i]) /\ HasPid(c[j]) => (r[i].pid = c[j].pid <=> r[i].id = c[j].id)
    BY <2>1, <1>3 DEF OneHolder, Same
  <2> QED BY <2>1, <2>2, <2>3 DEF OneHolder
<1>6. RelBehind(r, c)
  <2>1. RelBehind(q, c)
    BY DEF OnceOK
  <2>2. ASSUME NEW i \in DOMAIN r, IsPublish(r[i]), r[i].state # "COMPLETE"
        PROVE  /\ \A j \in DOMAIN r : ~IsRel(r[j], r[i].pid)
               /\ \A j \in DOMAIN c : ~IsRel(c[j], r[i].pid)
    <3>1. /\ d + i \in DOMAIN q /\ IsPublish(q[d + i]) /\ q[d + i].state # "COMPLETE"
          /\ q[d + i].pid = r[i].pid /\ d + i \notin C
      BY <2>2, <1>3 DEF Same
    <3>2. \A j \in DOMAIN c : ~IsRel(c[j], r[i].pid)
      BY <2>1, <3>1 DEF RelBehind
    <3>3. ASSUME NEW j \in DOMAIN r PROVE ~IsRel(r[j], r[i].pid)
      <4>1. CASE d + j \in DOMAIN q /\ Same(q[d + j], r[j])
        BY <4>1, <2>1, <3>1 DEF RelBehind, Same, IsRel
      <4>2. CASE Len(ms) = 1 /\ r[j] = ms[1]
        BY <4>2, <3>1 DEF Harmless
      <4> QED BY <4>1, <4>2, <1>2 DEF Traced
    <3> QED BY <3>2, <3>3
  <2> QED BY <2>1, <2>2 DEF RelBehind
<1>7. AllSeen(r, c, dl, seen)
  <2>1. AllSeen(q, c, dl, seen)
    BY DEF OnceOK
  <2>2. ASSUME NEW i \in DOMAIN r, IsPublish(r[i]), r[i].qos = 2, r[i].state # "COMPLETE"
        PROVE  SeenRight(r[i], dl, seen)
    BY <2>1, <2>2, <1>3 DEF AllSeen, Same, SeenRight
  <2> QED BY <2>1, <2>2 DEF AllSeen
<1>8. Meant(r, b, dl)
  BY <1>3 DEF OnceOK, Meant, Same
<1>9. Finished(r, dl)
  <2>1. ASSUME NEW i \in DOMAIN r, HasPid(r[i]), r[i].state = "COMPLETE"
        PROVE  Member(dl, r[i].id)
    <3>1. /\ d + i \in DOMAIN q /\ HasPid(q[d + i]) /\ q[d + i].id = r[i].id
          /\ d + i \in C \/ q[d + i].state = "COMPLETE"
      BY <2>1, <1>3 DEF HasPid, Same
    <3> QED BY <3>1 DEF OnceOK, Finished, Harmless, HasPid
  <2> QED BY <2>1 DEF Finished
<1>10. ASSUME Kept(q, st, dl) PROVE Kept(r, st, dl)
  <2> SUFFICES ASSUME NEW k \in DOMAIN st, st[k] > 0, ~Member(dl, k)
               PROVE  \E i \in DOMAIN r : IsPub(r[i], k) /\ r[i].state # "COMPLETE"
    BY DEF Kept
  <2>1. PICK i \in DOMAIN q : IsPub(q[i], k) /\ q[i].state # "COMPLETE"
    BY <1>10 DEF Kept
  <2>2. i \notin C
    BY <2>1 DEF Harmless, IsPub, IsPublish
  <2>3. PICK j \in DOMAIN r : Same(q[i], r[j]) /\ r[j].state = q[i].state
    BY <2>1, <2>2, <1>2 DEF Stays
  <2> QED BY <2>1, <2>3 DEF Same, IsPub
<1> QED BY <1>5, <1>6, <1>7, <1>8, <1>9, <1>10 DEF OnceOK

\* No identifier becomes greater in a harmless step.
LEMMA BelowLocal ==
    ASSUME NEW q \in Seq(Message), NEW r, NEW C, NEW ms, NEW b, NEW c, NEW dl, NEW seen,
           NEW n, QStep(q, r, C, ms), Harmless(q, C, ms, dl), BelowOK(q, b, c, seen, n)
    PROVE  BelowOK(r, b, c, seen, n)
<1>1. ms \in Seq(Message) /\ Len(ms) \in {0, 1}
  BY DEF Harmless
<1>2. PICK d \in Nat : \A i \in DOMAIN r : Traced(q, r, d, C, ms, i)
  BY <1>1, StepTraced
<1>3. ASSUME NEW i \in DOMAIN r, Owned(r[i]) PROVE r[i].pid <= n
  <2>1. CASE d + i \in DOMAIN q /\ Same(q[d + i], r[i])
    BY <2>1, <1>3 DEF BelowOK, Same, Owned
  <2>2. CASE Len(ms) = 1 /\ r[i] = ms[1]
    BY <2>2, <1>3 DEF BelowOK, Harmless
  <2> QED BY <2>1, <2>2, <1>2 DEF Traced
<1> QED BY <1>3 DEF BelowOK

\* A message that is staged is in the queue after that.
LEMMA StagedIsThere ==
    ASSUME NEW q \in Seq(Message), NEW r, NEW C, NEW m \in Message, QStep(q, r, C, <<m>>)
    PROVE  \E i \in DOMAIN r : r[i] = m
<1>1. Len(q) \in Nat
  BY LenProperties
<1>2. PICK d \in 0..Len(q) : Moved(q, r, d, <<m>>)
  BY DEF QStep
<1>3. DOMAIN r = 1..Len(r)
  BY LenProperties DEF QStep
<1>4. Len(<<m>>) = 1 /\ <<m>>[1] = m
  OBVIOUS
<1>5. Len(r) = Len(q) - d + 1 /\ r[Len(q) - d + 1] = m
  BY <1>1, <1>2, <1>4 DEF Moved
<1>6. Len(q) - d + 1 \in DOMAIN r
  BY <1>1, <1>3, <1>5
<1> QED BY <1>5, <1>6

\* A message is staged with an identifier up to n.
LEMMA BelowStaged ==
    ASSUME NEW q \in Seq(Message), NEW r, NEW m \in Message, NEW b, NEW c, NEW seen, NEW n,
           QStep(q, r, {}, <<m>>), BelowOK(q, b, c, seen, n), m.pid <= n
    PROVE  BelowOK(r, b, c, seen, n)
<1>1. <<m>> \in Seq(Message) /\ Len(<<m>>) = 1 /\ <<m>>[1] = m
  OBVIOUS
<1>2. PICK d \in Nat : \A i \in DOMAIN r : Traced(q, r, d, {}, <<m>>, i)
  BY <1>1, StepTraced
<1>3. \A i \in DOMAIN r : (d + i \in DOMAIN q /\ Same(q[d + i], r[i])) \/ r[i] = m
  BY <1>1, <1>2 DEF Traced
<1> QED BY <1>3 DEF BelowOK, Same, Owned

\* A message is staged with an identifier that is not in use.
LEMMA OnceStaged ==
    ASSUME NEW q \in Seq(Message), NEW r, NEW m \in Message, NEW b, NEW c, NEW dl, NEW seen,
           NEW st \in Seq(QoS), NEW su \in Seq(QoS),
           QStep(q, r, {}, <<m>>), OrderOK(q, st, c, dl), OnceOK(q, b, c, dl, seen),
           IsPublish(m), m.state = "UNSENT", m.id = Len(st) + 1, Added(st, m.qos, su),
           Untouched(b, c, seen, m.pid), \A i \in DOMAIN q : q[i].pid # m.pid
    PROVE  /\ OnceOK(r, b, c, dl, seen)
           /\ NoTwice(st, dl) => NoTwice(su, dl)
           /\ Kept(q, st, dl) => Kept(r, su, dl)
<1> DEFINE n == Len(st) + 1
<1>0. <<m>> \in Seq(Message) /\ Len(<<m>>) = 1 /\ <<m>>[1] = m
  OBVIOUS
<1>1. PICK d \in Nat : /\ \A i \in DOMAIN r : Traced(q, r, d, {}, <<m>>, i)
                       /\ \A i \in DOMAIN q : Stays(q, r, d, {}, i)
  BY <1>0, StepTraced
<1>2. \A i \in DOMAIN r :
        \/ /\ d + i \in DOMAIN q /\ Same(q[d + i], r[i]) /\ r[i].state = q[d + i].state
        \/ i = Len(r) /\ r[i] = m
  BY <1>0, <1>1 DEF Traced
<1>3. /\ DOMAIN su = DOMAIN st \cup {n} /\ su[n] = m.qos
      /\ \A k \in DOMAIN st : su[k] = st[k] /\ k < n
      /\ \A k \in DOMAIN st : k \in Int
  BY AddedPackets
<1>4. n \notin DOMAIN st
  BY <1>3
<1>5. m.id = n
  OBVIOUS
<1> HIDE DEF n
<1>6. QueueInOrder(q, st) /\ Known(st, c, dl)
  BY DEF OrderOK
<1>7. ~Member(dl, n)
  BY <1>4, <1>6 DEF Known, Member
<1>8. \A j \in DOMAIN c : IsPublish(c[j]) => c[j].id # n
  BY <1>4, <1>6 DEF Known
<1>9. \A i, j \in DOMAIN r : d + i = d + j => i = j
  <2>1. DOMAIN r = 1..Len(r)
    BY LenProperties DEF QStep
  <2> QED BY <2>1
<1>10. \A j \in DOMAIN c : HasPid(c[j]) \/ c[j].type = "PUBREL" => c[j].pid # m.pid
  BY DEF Untouched
<1>11. m.type = "PUBLISH"
  BY DEF IsPublish
<1>12. OneHolder(r, c)
  <2>1. OneHolder(q, c)
    BY DEF OnceOK
  <2>2. ASSUME NEW i \in DOMAIN r, NEW j \in DOMAIN r, IsPublish(r[i]), IsPublish(r[j]),
               r[i].pid = r[j].pid
        PROVE  i = j
    <3>1. CASE r[i] = m /\ i = Len(r)
      BY <3>1, <2>2, <1>2 DEF Same
    <3>2. CASE r[j] = m /\ j = Len(r)
      BY <3>2, <2>2, <1>2 DEF Same
    <3>3. CASE d + i \in DOMAIN q /\ Same(q[d + i], r[i]) /\ d + j \in DOMAIN q /\ Same(q[d + j], r[j])
      BY <3>3, <2>1, <2>2, <1>9 DEF OneHolder, Same, IsPublish
    <3> QED BY <3>1, <3>2, <3>3, <1>2
  <2>3. ASSUME NEW i \in DOMAIN r, NEW j \in DOMAIN c, IsPublish(r[i]), HasPid(c[j])
        PROVE  r[i].pid = c[j].pid <=> r[i].id = c[j].id
    <3>1. CASE r[i] = m
      BY <3>1, <2>3, <1>5, <1>8, <1>10 DEF HasPid
    <3>2. CASE d + i \in DOMAIN q /\ Same(q[d + i], r[i])
      BY <3>2, <2>1, <2>3 DEF OneHolder, Same, IsPublish
    <3> QED BY <3>1, <3>2, <1>2
  <2> QED BY <2>1, <2>2, <2>3 DEF OneHolder
<1>13. RelBehind(r, c)
  <2>1. RelBehind(q, c)
    BY DEF OnceOK
  <2>2. ASSUME NEW i \in DOMAIN r, IsPublish(r[i]), r[i].state # "COMPLETE", NEW j \in DOMAIN r
        PROVE  ~IsRel(r[j], r[i].pid)
    <3>1. CASE r[j] = m
      BY <3>1, <1>11 DEF IsRel
    <3>2. CASE d + j \in DOMAIN q /\ Same(q[d + j], r[j]) /\ r[i] = m
      BY <3>2 DEF IsRel, Same
    <3>3. CASE /\ d + j \in DOMAIN q /\ Same(q[d + j], r[j]) /\ d + i \in DOMAIN q
               /\ Same(q[d + i], r[i]) /\ r[i].state = q[d + i].state
      BY <3>3, <2>1, <2>2 DEF RelBehind, Same, IsRel, IsPublish
    <3> QED BY <3>1, <3>2, <3>3, <1>2
  <2>3. ASSUME NEW i \in DOMAIN r, IsPublish(r[i]), r[i].state # "COMPLETE", NEW j \in DOMAIN c
        PROVE  ~IsRel(c[j], r[i].pid)
    <3>1. CASE r[i] = m
      BY <3>1, <1>10 DEF IsRel
    <3>2. CASE d + i \in DOMAIN q /\ Same(q[d + i], r[i]) /\ r[i].state = q[d + i].state
      BY <3>2, <2>1, <2>3 DEF RelBehind, Same, IsPublish
    <3> QED BY <3>1, <3>2, <1>2
  <2> QED BY <2>1, <2>2, <2>3 DEF RelBehind
<1>14. AllSeen(r, c, dl, seen)
  <2>1. AllSeen(q, c, dl, seen)
    BY DEF OnceOK
  <2>2. ASSUME NEW i \in DOMAIN r, IsPublish(r[i]), r[i].qos = 2, r[i].state # "COMPLETE"
        PROVE  SeenRight(r[i], dl, seen)
    <3>1. CASE r[i] = m
      BY <3>1, <1>5, <1>7 DEF SeenRight, Untouched
    <3>2. CASE d + i \in DOMAIN q /\ Same(q[d + i], r[i]) /\ r[i].state = q[d + i].state
      BY <3>2, <2>1, <2>2 DEF AllSeen, Same, SeenRight, IsPublish
    <3> QED BY <3>1, <3>2, <1>2
  <2> QED BY <2>1, <2>2 DEF AllSeen
<1>15. Meant(r, b, dl)
  <2>1. ASSUME NEW i \in DOMAIN r, NEW j \in DOMAIN b, IsPublish(r[i]),
               b[j].type \in {"PUBACK", "PUBREC"}, b[j].pid = r[i].pid
        PROVE  Member(dl, r[i].id)
    <3>1. r[i] # m
      BY <2>1 DEF Untouched
    <3>2. d + i \in DOMAIN q /\ Same(q[d + i], r[i])
      BY <3>1, <1>2
    <3> QED BY <3>2, <2>1 DEF OnceOK, Meant, Same, IsPublish
  <2> QED BY <2>1 DEF Meant
<1>16. Finished(r, dl)
  <2>1. ASSUME NEW i \in DOMAIN r, HasPid(r[i]), r[i].state = "COMPLETE"
        PROVE  Member(dl, r[i].id)
    <3>1. d + i \in DOMAIN q /\ Same(q[d + i], r[i]) /\ r[i].state = q[d + i].state
      BY <2>1, <1>2
    <3> QED BY <3>1, <2>1 DEF OnceOK, Finished, Same, HasPid, IsPublish
  <2> QED BY <2>1 DEF Finished
<1>17. ASSUME NoTwice(st, dl) PROVE NoTwice(su, dl)
  BY <1>17, <1>3, <1>6 DEF NoTwice, Known
<1>18. ASSUME Kept(q, st, dl) PROVE Kept(r, su, dl)
  <2> SUFFICES ASSUME NEW k \in DOMAIN su, su[k] > 0, ~Member(dl, k)
               PROVE  \E i \in DOMAIN r : IsPub(r[i], k) /\ r[i].state # "COMPLETE"
    BY DEF Kept
  <2>1. CASE k = n
    <3>1. PICK i \in DOMAIN r : r[i] = m
      BY StagedIsThere
    <3> QED BY <3>1, <2>1, <1>5, <1>11 DEF IsPub
  <2>2. CASE k \in DOMAIN st
    <3>1. PICK i \in DOMAIN q : IsPub(q[i], k) /\ q[i].state # "COMPLETE"
      BY <2>2, <1>3, <1>18 DEF Kept
    <3>2. PICK j \in DOMAIN r : Same(q[i], r[j]) /\ r[j].state = q[i].state
      BY <3>1, <1>1 DEF Stays
    <3> QED BY <3>1, <3>2 DEF Same, IsPub
  <2> QED BY <2>1, <2>2, <1>3
<1> QED BY <1>12, <1>13, <1>14, <1>15, <1>16, <1>17, <1>18 DEF OnceOK

\* Message n of the queue is sent.
LEMMA OnceSent ==
    ASSUME NEW q \in Seq(Message), NEW r \in Seq(Message), NEW n \in 1..Len(q),
           NEW c \in Seq(ToBroker), NEW t \in Seq(ToBroker), NEW b, NEW dl, NEW seen, NEW st,
           Len(r) = Len(q), \A i \in 1..Len(q) : Same(q[i], r[i]),
           \A i \in 1..Len(q) : i # n => r[i].state = q[i].state,
           q[n].state # "COMPLETE", HasPid(q[n]) => r[n].state # "COMPLETE",
           Added(c, PacketOf(q[n]), t), QueueInOrder(q, st), OnceOK(q, b, c, dl, seen)
    PROVE  OnceOK(r, b, t, dl, seen) /\ (Kept(q, st, dl) => Kept(r, st, dl))
<1> DEFINE z == Len(c) + 1
           x == PacketOf(q[n])
<1>1. Len(q) \in Nat /\ DOMAIN q = 1..Len(q) /\ DOMAIN r = 1..Len(q)
  BY LenProperties
<1>2. /\ DOMAIN t = DOMAIN c \cup {z} /\ t[z] = x
      /\ \A i \in DOMAIN c : t[i] = c[i] /\ i < z
      /\ \A i \in DOMAIN c : i \in Int
  BY AddedPackets
<1>3. x.type = q[n].type /\ x.pid = q[n].pid /\ x.qos = q[n].qos /\ x.id = q[n].id
  BY DEF PacketOf
<1> HIDE DEF z, x
<1>4. /\ OneHolder(q, c) /\ RelBehind(q, c) /\ AllSeen(q, c, dl, seen)
      /\ Meant(q, b, dl) /\ Finished(q, dl)
  BY DEF OnceOK
<1>5. \A i \in 1..Len(q) : /\ IsPublish(r[i]) <=> IsPublish(q[i])
                           /\ r[i].pid = q[i].pid /\ r[i].qos = q[i].qos /\ r[i].id = q[i].id
                           /\ r[i].type = q[i].type
  BY DEF Same, IsPublish
<1>6. \A i \in 1..Len(q) : r[i].state # "COMPLETE" => q[i].state # "COMPLETE"
  OBVIOUS
<1>7. (HasPid(x) <=> HasPid(q[n])) /\ (IsPublish(x) <=> IsPublish(q[n]))
  BY <1>3 DEF HasPid, IsPublish
<1>8. ASSUME NEW i \in 1..Len(q), IsPublish(q[i]), IsPublish(q[n])
      PROVE  q[i].pid = q[n].pid <=> q[i].id = q[n].id
  <2>1. q[i].pid = q[n].pid => i = n
    BY <1>8, <1>1, <1>4 DEF OneHolder
  <2>2. i # n => q[i].id # q[n].id
    <3>1. q[i].id \in Nat /\ q[n].id \in Nat
      BY ElementOfSeq, MessageFields
    <3>2. i < n => q[i].id < q[n].id
      BY <1>1, <1>8 DEF QueueInOrder
    <3>3. n < i => q[n].id < q[i].id
      BY <1>1, <1>8 DEF QueueInOrder
    <3> QED BY <3>1, <3>2, <3>3, <1>1
  <2> QED BY <2>1, <2>2
<1>9. OneHolder(r, t)
  <2>1. \A i, j \in DOMAIN r : IsPublish(r[i]) /\ IsPublish(r[j]) /\ r[i].pid = r[j].pid => i = j
    BY <1>1, <1>4, <1>5 DEF OneHolder
  <2>2. ASSUME NEW i \in DOMAIN r, NEW j \in DOMAIN t, IsPublish(r[i]), HasPid(t[j])
        PROVE  r[i].pid = t[j].pid <=> r[i].id = t[j].id
    <3>1. CASE j \in DOMAIN c
      BY <3>1, <2>2, <1>1, <1>2, <1>4, <1>5 DEF OneHolder
    <3>2. CASE j = z
      BY <3>2, <2>2, <1>1, <1>2, <1>3, <1>5, <1>7, <1>8 DEF HasPid
    <3> QED BY <3>1, <3>2, <1>2
  <2>3. ASSUME NEW i \in DOMAIN c, HasPid(c[i]), HasPid(x)
        PROVE  c[i].pid = x.pid <=> c[i].id = x.id
    <3>1. IsPublish(q[n]) /\ n \in DOMAIN q
      BY <2>3, <1>1, <1>7 DEF HasPid
    <3>2. q[n].pid = c[i].pid <=> q[n].id = c[i].id
      BY <3>1, <2>3, <1>4 DEF OneHolder
    <3> QED BY <3>2, <1>3
  <2>4. ASSUME NEW i \in DOMAIN t, NEW j \in DOMAIN t, HasPid(t[i]), HasPid(t[j])
        PROVE  t[i].pid = t[j].pid <=> t[i].id = t[j].id
    <3>1. CASE i \in DOMAIN c /\ j \in DOMAIN c
      BY <3>1, <2>4, <1>2, <1>4 DEF OneHolder
    <3>2. CASE i \in DOMAIN c /\ j = z
      BY <3>2, <2>3, <2>4, <1>2
    <3>3. CASE i = z /\ j \in DOMAIN c
      BY <3>3, <2>3, <2>4, <1>2
    <3>4. CASE i = z /\ j = z
      BY <3>4
    <3> QED BY <3>1, <3>2, <3>3, <3>4, <1>2
  <2> QED BY <2>1, <2>2, <2>4 DEF OneHolder
<1>10. RelBehind(r, t)
  <2>1. ASSUME NEW i \in DOMAIN t, NEW j \in DOMAIN t, HasPid(t[j]), IsRel(t[i], t[j].pid)
        PROVE  j < i
    <3>1. CASE i \in DOMAIN c /\ j \in DOMAIN c
      BY <3>1, <2>1, <1>2, <1>4 DEF RelBehind
    <3>2. CASE i = z /\ j \in DOMAIN c
      BY <3>2, <1>2
    <3>3. CASE i \in DOMAIN c /\ j = z
      <4>1. IsPublish(q[n]) /\ IsRel(c[i], q[n].pid)
        BY <3>3, <2>1, <1>2, <1>3, <1>7 DEF HasPid
      <4> QED BY <4>1, <3>3, <1>1, <1>4 DEF RelBehind
    <3>4. CASE i = z /\ j = z
      BY <3>4, <2>1 DEF HasPid, IsPublish, IsRel
    <3> QED BY <3>1, <3>2, <3>3, <3>4, <1>2
  <2>2. ASSUME NEW i \in DOMAIN r, IsPublish(r[i]), r[i].state # "COMPLETE"
        PROVE  /\ \A j \in DOMAIN r : ~IsRel(r[j], r[i].pid)
               /\ \A j \in DOMAIN t : ~IsRel(t[j], r[i].pid)
    <3>1. IsPublish(q[i]) /\ q[i].state # "COMPLETE" /\ q[i].pid = r[i].pid
      BY <2>2, <1>1, <1>5, <1>6
    <3>2. \A j \in DOMAIN q : ~IsRel(q[j], r[i].pid)
      BY <3>1, <1>1, <1>4 DEF RelBehind
    <3>3. \A j \in DOMAIN c : ~IsRel(c[j], r[i].pid)
      BY <3>1, <1>1, <1>4 DEF RelBehind
    <3>4. \A j \in DOMAIN r : ~IsRel(r[j], r[i].pid)
      BY <3>2, <1>1, <1>5 DEF IsRel
    <3>5. ~IsRel(x, r[i].pid)
      BY <3>2, <1>1, <1>3 DEF IsRel
    <3> QED BY <3>3, <3>4, <3>5, <1>2
  <2> QED BY <2>1, <2>2 DEF RelBehind
<1>11. AllSeen(r, t, dl, seen)
  <2>1. ASSUME NEW i \in 1..Len(q), IsPublish(q[i]), q[i].qos = 2, q[i].state # "COMPLETE"
        PROVE  SeenRight(q[i], dl, seen)
    BY <2>1, <1>1, <1>4 DEF AllSeen
  <2>2. ASSUME NEW i \in DOMAIN r, IsPublish(r[i]), r[i].qos = 2, r[i].state # "COMPLETE"
        PROVE  SeenRight(r[i], dl, seen)
    BY <2>1, <2>2, <1>1, <1>5, <1>6 DEF SeenRight
  <2>3. ASSUME NEW j \in DOMAIN t, IsPublish(t[j]), t[j].qos = 2
        PROVE  SeenRight(t[j], dl, seen)
    <3>1. CASE j \in DOMAIN c
      BY <3>1, <2>3, <1>2, <1>4 DEF AllSeen
    <3>2. CASE j = z
      BY <3>2, <2>1, <2>3, <1>2, <1>3, <1>7 DEF SeenRight
    <3> QED BY <3>1, <3>2, <1>2
  <2> QED BY <2>2, <2>3 DEF AllSeen
<1>12. Meant(r, b, dl)
  BY <1>1, <1>4, <1>5 DEF Meant
<1>13. Finished(r, dl)
  <2>1. ASSUME NEW i \in DOMAIN r, HasPid(r[i]), r[i].state = "COMPLETE"
        PROVE  Member(dl, r[i].id)
    <3>1. HasPid(q[i]) /\ i # n
      BY <2>1, <1>1, <1>5 DEF HasPid
    <3> QED BY <3>1, <2>1, <1>1, <1>4, <1>5 DEF Finished
  <2> QED BY <2>1 DEF Finished
<1>14. ASSUME Kept(q, st, dl) PROVE Kept(r, st, dl)
  <2> SUFFICES ASSUME NEW k \in DOMAIN st, st[k] > 0, ~Member(dl, k)
               PROVE  \E i \in DOMAIN r : IsPub(r[i], k) /\ r[i].state # "COMPLETE"
    BY DEF Kept
  <2>1. PICK i \in DOMAIN q : IsPub(q[i], k) /\ q[i].state # "COMPLETE"
    BY <1>14 DEF Kept
  <2>2. HasPid(q[i])
    BY <2>1 DEF HasPid, IsPublish, IsPub, QueueInOrder
  <2>3. r[i].state # "COMPLETE"
    BY <2>1, <2>2, <1>1
  <2>4. IsPub(r[i], k)
    BY <2>1, <1>1, <1>5 DEF IsPub
  <2> QED BY <2>3, <2>4, <1>1
<1> QED BY <1>9, <1>10, <1>11, <1>12, <1>13, <1>14 DEF OnceOK

\* What the broker has accepted after it took packet p.
Taken(p, dl, dk) ==
    \/ dk = dl /\ (IsPublish(p) => Member(dl, p.id))
    \/ IsPublish(p) /\ Added(dl, p.id, dk) /\ (p.qos = 2 => ~Member(dl, p.id))

\* The identifiers it keeps after that.
Marked(p, seen, sn) == \A pid :
    pid \in sn <=> \/ pid \in seen /\ ~IsRel(p, pid)
                   \/ IsPublish(p) /\ p.qos = 2 /\ pid = p.pid

\* The answers under way after that.
Credited(p, b, t) == \A j \in DOMAIN t : t[j].type \in {"PUBACK", "PUBREC"} =>
    \/ \E i \in DOMAIN b : b[i] = t[j]
    \/ HasPid(p) /\ t[j].pid = p.pid

\* A message of which copies may arrive stays right about the identifiers.
LEMMA StaysRight ==
    ASSUME NEW m, NEW p, NEW dl, NEW dk, NEW seen, NEW sn,
           SeenRight(m, dl, seen), Marked(p, seen, sn), ~IsRel(p, m.pid),
           \A k : Member(dk, k) <=> Member(dl, k) \/ (IsPublish(p) /\ k = p.id),
           HasPid(p) => (p.pid = m.pid <=> p.id = m.id),
           IsPublish(p) /\ p.id = m.id => p.qos = 2
    PROVE  SeenRight(m, dk, sn)
<1>1. Member(dk, m.id) <=> Member(dl, m.id) \/ (IsPublish(p) /\ m.id = p.id)
  OBVIOUS
<1>2. m.pid \in sn <=> m.pid \in seen \/ (IsPublish(p) /\ p.qos = 2 /\ m.pid = p.pid)
  BY DEF Marked
<1>3. IsPublish(p) /\ p.qos = 2 => (p.pid = m.pid <=> p.id = m.id)
  BY DEF HasPid
<1> QED BY <1>1, <1>2, <1>3 DEF SeenRight

\* The broker takes a packet.
LEMMA OnceTaken ==
    ASSUME NEW q, NEW b, NEW d, NEW c \in Seq(ToBroker), NEW t \in Seq(ToBroker),
           NEW dl \in Seq(Nat), NEW dk \in Seq(Nat), NEW seen, NEW sn, NEW st, NEW p,
           OrderOK(q, st, c, dl), OnceOK(q, b, c, dl, seen), Behind(c, t), p = c[1],
           Taken(p, dl, dk), Marked(p, seen, sn), Credited(p, b, d)
    PROVE  /\ OnceOK(q, d, t, dk, sn)
           /\ NoTwice(st, dl) => NoTwice(st, dk)
           /\ Kept(q, st, dl) => Kept(q, st, dk)
<1>1. Len(c) \in Nat /\ DOMAIN c = 1..Len(c) /\ DOMAIN t = 1..Len(t) /\ Len(t) \in Nat
  BY LenProperties
<1>2. \A j \in DOMAIN t : j + 1 \in DOMAIN c /\ t[j] = c[j + 1] /\ j \in Nat /\ j >= 1
  BY <1>1 DEF Behind
<1>3. 1 \in DOMAIN c
  BY <1>1 DEF Behind
<1>4. \A k : Member(dk, k) <=> Member(dl, k) \/ (IsPublish(p) /\ k = p.id)
  <2>1. CASE dk = dl /\ (IsPublish(p) => Member(dl, p.id))
    BY <2>1
  <2>2. CASE IsPublish(p) /\ Added(dl, p.id, dk)
    <3> DEFINE z == Len(dl) + 1
    <3>1. /\ DOMAIN dk = DOMAIN dl \cup {z} /\ dk[z] = p.id
          /\ \A i \in DOMAIN dl : dk[i] = dl[i]
      <4>1. Added(dl, p.id, dk)
        BY <2>2
      <4>2. /\ DOMAIN dk = DOMAIN dl \cup {Len(dl) + 1} /\ dk[Len(dl) + 1] = p.id
            /\ \A i \in DOMAIN dl : dk[i] = dl[i] /\ i < Len(dl) + 1
            /\ \A i \in DOMAIN dl : i \in Int
        BY <4>1, AddedPackets
      <4> QED BY <4>2
    <3> HIDE DEF z
    <3> QED BY <3>1, <2>2 DEF Member
  <2> QED BY <2>1, <2>2 DEF Taken
<1>5. /\ OneHolder(q, c) /\ RelBehind(q, c) /\ AllSeen(q, c, dl, seen)
      /\ Meant(q, b, dl) /\ Finished(q, dl)
  BY DEF OnceOK
<1>6. QueueInOrder(q, st) /\ Known(st, c, dl)
  BY DEF OrderOK
<1>7. OneHolder(q, t)
  <2>1. \A i \in DOMAIN q, j \in DOMAIN t :
          IsPublish(q[i]) /\ HasPid(t[j]) => (q[i].pid = t[j].pid <=> q[i].id = t[j].id)
    BY <1>2, <1>5 DEF OneHolder
  <2>2. \A i, j \in DOMAIN t :
          HasPid(t[i]) /\ HasPid(t[j]) => (t[i].pid = t[j].pid <=> t[i].id = t[j].id)
    BY <1>2, <1>5 DEF OneHolder
  <2> QED BY <2>1, <2>2, <1>5 DEF OneHolder
<1>8. RelBehind(q, t)
  <2>1. ASSUME NEW i \in DOMAIN t, NEW j \in DOMAIN t, HasPid(t[j]), IsRel(t[i], t[j].pid)
        PROVE  j < i
    <3>1. j + 1 < i + 1
      BY <2>1, <1>2, <1>5 DEF RelBehind
    <3> QED BY <3>1, <1>2
  <2>2. ASSUME NEW i \in DOMAIN q, IsPublish(q[i]), q[i].state # "COMPLETE"
        PROVE  /\ \A j \in DOMAIN q : ~IsRel(q[j], q[i].pid)
               /\ \A j \in DOMAIN t : ~IsRel(t[j], q[i].pid)
    BY <2>2, <1>2, <1>5 DEF RelBehind
  <2> QED BY <2>1, <2>2 DEF RelBehind
<1>9. AllSeen(q, t, dk, sn)
  <2>1. ASSUME NEW j \in DOMAIN t, IsPublish(t[j]), t[j].qos = 2
        PROVE  SeenRight(t[j], dk, sn)
    <3>1. j + 1 \in DOMAIN c /\ t[j] = c[j + 1] /\ HasPid(t[j])
      BY <2>1, <1>2 DEF HasPid
    <3>2. SeenRight(t[j], dl, seen)
      BY <3>1, <2>1, <1>5 DEF AllSeen
    <3>3. ~IsRel(p, t[j].pid)
      <4>1. IsRel(p, t[j].pid) => j + 1 < 1
        BY <3>1, <1>3, <1>5 DEF RelBehind
      <4> QED BY <4>1, <1>2
    <3>4. HasPid(p) => (p.pid = t[j].pid <=> p.id = t[j].id)
      BY <3>1, <1>3, <1>5 DEF OneHolder
    <3>5. IsPublish(p) /\ p.id = t[j].id => p.qos = 2
      BY <3>1, <2>1, <1>3, <1>6 DEF Known
    <3> QED BY <3>2, <3>3, <3>4, <3>5, <1>4, StaysRight
  <2>2. ASSUME NEW i \in DOMAIN q, IsPublish(q[i]), q[i].qos = 2, q[i].state # "COMPLETE"
        PROVE  SeenRight(q[i], dk, sn)
    <3>1. SeenRight(q[i], dl, seen)
      BY <2>2, <1>5 DEF AllSeen
    <3>2. ~IsRel(p, q[i].pid)
      BY <2>2, <1>3, <1>5 DEF RelBehind
    <3>3. HasPid(p) => (p.pid = q[i].pid <=> p.id = q[i].id)
      BY <2>2, <1>3, <1>5 DEF OneHolder
    <3>4. IsPublish(p) /\ p.id = q[i].id => p.qos = 2
      BY <2>2, <1>3, <1>6 DEF Known, QueueInOrder
    <3> QED BY <3>1, <3>2, <3>3, <3>4, <1>4, StaysRight
  <2> QED BY <2>1, <2>2 DEF AllSeen
<1>10. Meant(q, d, dk)
  <2>1. ASSUME NEW i \in DOMAIN q, NEW j \in DOMAIN d, IsPublish(q[i]),
               d[j].type \in {"PUBACK", "PUBREC"}, d[j].pid = q[i].pid
        PROVE  Member(dk, q[i].id)
    <3>1. CASE \E h \in DOMAIN b : b[h] = d[j]
      BY <3>1, <2>1, <1>4, <1>5 DEF Meant
    <3>2. CASE HasPid(p) /\ d[j].pid = p.pid
      <4>1. q[i].id = p.id
        <5>1. HasPid(c[1]) /\ q[i].pid = c[1].pid
          BY <3>2, <2>1
        <5>2. q[i].pid = c[1].pid <=> q[i].id = c[1].id
          BY <5>1, <2>1, <1>3, <1>5 DEF OneHolder
        <5> QED BY <5>1, <5>2
      <4> QED BY <4>1, <3>2, <1>4 DEF HasPid
    <3> QED BY <3>1, <3>2, <2>1 DEF Credited
  <2> QED BY <2>1 DEF Meant
<1>11. Finished(q, dk)
  BY <1>4, <1>5 DEF Finished
<1>12. ASSUME NoTwice(st, dl) PROVE NoTwice(st, dk)
  <2>1. CASE dk = dl
    BY <2>1, <1>12
  <2>2. CASE IsPublish(p) /\ Added(dl, p.id, dk) /\ (p.qos = 2 => ~Member(dl, p.id))
    <3> DEFINE z == Len(dl) + 1
    <3>1. /\ DOMAIN dk = DOMAIN dl \cup {z} /\ dk[z] = p.id
          /\ \A i \in DOMAIN dl : dk[i] = dl[i]
      <4>1. Added(dl, p.id, dk)
        BY <2>2
      <4>2. /\ DOMAIN dk = DOMAIN dl \cup {Len(dl) + 1} /\ dk[Len(dl) + 1] = p.id
            /\ \A i \in DOMAIN dl : dk[i] = dl[i] /\ i < Len(dl) + 1
            /\ \A i \in DOMAIN dl : i \in Int
        BY <4>1, AddedPackets
      <4> QED BY <4>2
    <3> HIDE DEF z
    <3>2. st[p.id] = 2 => ~Member(dl, p.id)
      BY <2>2, <1>3, <1>6 DEF Known
    <3> QED BY <3>1, <3>2, <1>12 DEF NoTwice, Member
  <2> QED BY <2>1, <2>2 DEF Taken
<1>13. Kept(q, st, dl) => Kept(q, st, dk)
  BY <1>4 DEF Kept
<1> QED BY <1>7, <1>8, <1>9, <1>10, <1>11, <1>12, <1>13 DEF OnceOK

\* Other answers on the way to the client.
LEMMA OnceFewer ==
    ASSUME NEW q, NEW b, NEW d, NEW c, NEW dl, NEW seen, OnceOK(q, b, c, dl, seen),
           \A j \in DOMAIN d : d[j].type \in {"PUBACK", "PUBREC"} => \E i \in DOMAIN b : b[i] = d[j]
    PROVE  OnceOK(q, d, c, dl, seen)
<1>1. Meant(q, d, dl)
  BY DEF OnceOK, Meant
<1> QED BY <1>1 DEF OnceOK

\* Nothing is under way any more.
LEMMA OnceSilent ==
    ASSUME NEW q, NEW b, NEW c, NEW dl, NEW seen, OnceOK(q, b, c, dl, seen)
    PROVE  OnceOK(q, <<>>, <<>>, dl, seen)
BY DEF OnceOK, OneHolder, RelBehind, AllSeen, Meant, Finished

\* A new connection.
LEMMA OnceNew ==
    ASSUME NEW m, ~IsPublish(m), NEW dl, NEW seen
    PROVE  OnceOK(<<m>>, <<>>, <<>>, dl, seen)
<1>1. \A i \in DOMAIN <<m>> : ~IsPublish(<<m>>[i])
  OBVIOUS
<1>2. DOMAIN <<>> = {}
  OBVIOUS
<1> DEFINE q == <<m>>
<1> HIDE DEF q
<1>3. \A i \in DOMAIN q : ~IsPublish(q[i])
  BY <1>1 DEF q
<1>4. OnceOK(q, <<>>, <<>>, dl, seen)
  BY <1>2, <1>3 DEF OnceOK, OneHolder, RelBehind, AllSeen, Meant, Finished, HasPid
<1> QED BY <1>4 DEF q

-----------------------------------------------------------------------------
(* The steps of the client.                                                 *)

\* The invariant holds after a step, and every bound on the identifiers that covers
\* the new one still holds.
OnceStep == OnceInv' /\ \A n : Below(n) /\ lfsr' <= n => Below(n)'

\* Every PUBACK and PUBREC of t is in b.
Fewer(b, t) == \A j \in DOMAIN t :
    t[j].type \in {"PUBACK", "PUBREC"} => \E i \in DOMAIN b : b[i] = t[j]

\* After a harmless step of the queue, with no new answers for the client.
LEMMA OnceMoves ==
    ASSUME IInv, OnceInv, UNCHANGED <<c2b, conns, staged, delivered>>,
           broker'.seen2 = broker.seen2, Fewer(b2c, b2c'), NEW C, NEW ms,
           QStep(queue, queue', C, ms), Harmless(queue, C, ms, delivered)
    PROVE  OnceStep
<1>1. queue \in Seq(Message)
  BY DEF IInv, Shape, QueueShape
<1>2. OnceOK(queue, b2c, c2b, delivered, broker.seen2)
  BY DEF OnceInv
<1>3. /\ OnceOK(queue', b2c, c2b, delivered, broker.seen2)
      /\ Kept(queue, staged, delivered) => Kept(queue', staged, delivered)
  BY <1>1, <1>2, OnceLocal
<1>4. OnceOK(queue', b2c', c2b, delivered, broker.seen2)
  BY <1>3, OnceFewer DEF Fewer
<1>5. OnceInv'
  BY <1>3, <1>4 DEF OnceInv
<1>6. ASSUME NEW n, Below(n) PROVE Below(n)'
  <2>1. BelowOK(queue', b2c, c2b, broker.seen2, n)
    BY <1>1, <1>6, BelowLocal DEF Below
  <2>2. BelowOK(queue', b2c', c2b, broker.seen2, n)
    BY <2>1 DEF BelowOK, Fewer
  <2> QED BY <2>2 DEF Below
<1> QED BY <1>5, <1>6 DEF OnceStep

\* The same packets for the client, or all but the first.
LEMMA FewerThen ==
    /\ UNCHANGED b2c => Fewer(b2c, b2c')
    /\ Behind(b2c, b2c') /\ b2c \in Seq(ToClient) /\ b2c' \in Seq(ToClient) => Fewer(b2c, b2c')
<1>1. UNCHANGED b2c => Fewer(b2c, b2c')
  BY DEF Fewer
<1>2. ASSUME Behind(b2c, b2c'), b2c \in Seq(ToClient), b2c' \in Seq(ToClient)
      PROVE  Fewer(b2c, b2c')
  <2>1. /\ DOMAIN b2c = 1..Len(b2c) /\ Len(b2c) \in Nat
        /\ DOMAIN b2c' = 1..Len(b2c') /\ Len(b2c') \in Nat
    BY <1>2, LenProperties
  <2>2. \A j \in DOMAIN b2c' : j + 1 \in DOMAIN b2c /\ b2c'[j] = b2c[j + 1]
    BY <1>2, <2>1 DEF Behind
  <2> QED BY <2>2 DEF Fewer
<1> QED BY <1>1, <1>2

\* Nothing is completed, and nothing or a message that is neither PUBLISH nor PUBREL
\* is staged.
LEMMA HarmlessStaging ==
    ASSUME NEW q, NEW dl
    PROVE  /\ Harmless(q, {}, <<>>, dl)
           /\ \A ms \in Seq(Message) :
                 Len(ms) \in {0, 1} /\ (Len(ms) = 1 => ms[1].type \notin {"PUBLISH", "PUBREL"})
                    => Harmless(q, {}, ms, dl)
<1>1. <<>> \in Seq(Message) /\ Len(<<>>) = 0
  BY EmptySeq
<1>2. Harmless(q, {}, <<>>, dl)
  BY <1>1 DEF Harmless
<1>3. ASSUME NEW ms \in Seq(Message), Len(ms) \in {0, 1},
             Len(ms) = 1 => ms[1].type \notin {"PUBLISH", "PUBREL"}
      PROVE  Harmless(q, {}, ms, dl)
  BY <1>3 DEF Harmless, IsPublish, IsRel, Owned
<1> QED BY <1>2, <1>3

\* A step that leaves the queue alone.
LEMMA OnceRests ==
    ASSUME IInv, OnceInv, UNCHANGED <<queue, c2b, conns, staged, delivered>>,
           broker'.seen2 = broker.seen2, Fewer(b2c, b2c')
    PROVE  OnceStep
<1>1. QStep(queue, queue', {}, <<>>)
  BY NoStep DEF IInv, Shape, QueueShape
<1> QED BY <1>1, HarmlessStaging, OnceMoves

\* A request that is neither a PUBLISH nor a PUBREL is staged.
LEMMA OnceRequested ==
    ASSUME IInv, OnceInv, NEW m \in Message, m.type \notin {"PUBLISH", "PUBREL"}, Stage(m),
           UNCHANGED <<net, conns, broker, staged, delivered>>
    PROVE  OnceStep
<1>1. UNCHANGED <<c2b, b2c>> /\ Fewer(b2c, b2c')
  BY FewerThen DEF net
<1>2. <<m>> \in Seq(Message) /\ Len(<<m>>) = 1 /\ <<m>>[1] = m
  OBVIOUS
<1>3. Harmless(queue, {}, <<m>>, delivered)
  BY <1>2, HarmlessStaging
<1>4. CASE QStep(queue, queue', {}, <<m>>)
  BY <1>1, <1>3, <1>4, OnceMoves
<1>5. CASE QStep(queue, queue', {}, <<>>)
  BY <1>1, <1>5, HarmlessStaging, OnceMoves
<1> QED BY <1>4, <1>5, StageSteps

\* mqtt_subscribe, mqtt_unsubscribe and mqtt_disconnect.
LEMMA OnceRequests ==
    ASSUME IInv, OnceInv,
           mqtt_disconnect \/ \E type \in plan.requests : mqtt_subscribe(type)
    PROVE  OnceStep
<1>1. CASE mqtt_disconnect
  <2> DEFINE m == Msg("DISCONNECT", 0, 0, 0)
  <2>1. m \in Message /\ m.type = "DISCONNECT"
    <3>1. "DISCONNECT" \in Types /\ 0 \in QoS /\ 0 \in Nat /\ 0 \in 0..NPid
      BY ClientAssumption DEF Types, Unidentified, QoS
    <3> QED BY <3>1, NewMessage
  <2>2. Stage(m) /\ UNCHANGED <<net, conns, broker, staged, delivered>>
    BY <1>1 DEF mqtt_disconnect
  <2> HIDE DEF m
  <2> QED BY <2>1, <2>2, OnceRequested
<1>2. ASSUME NEW type \in plan.requests, mqtt_subscribe(type) PROVE OnceStep
  <2>1. PICK p \in __mqtt_next_pid : Stage(Msg(type, p, 0, 0))
    BY <1>2 DEF mqtt_subscribe
  <2>2. p \in 0..NPid
    BY ClientAssumption DEF __mqtt_next_pid, Pids
  <2>3. type \in {"SUBSCRIBE", "UNSUBSCRIBE"}
    <3>1. plan \in PlanType
      BY ClientAssumption DEF IInv, Shape, BrokerShape
    <3> QED BY <3>1 DEF PlanType
  <2> DEFINE m == Msg(type, p, 0, 0)
  <2>4. m \in Message /\ m.type = type
    <3>1. type \in Types /\ 0 \in QoS /\ 0 \in Nat
      BY <2>3 DEF Types, QoS
    <3> QED BY <2>2, <3>1, NewMessage
  <2>5. Stage(m) /\ UNCHANGED <<net, conns, broker, staged, delivered>>
    BY <1>2, <2>1 DEF mqtt_subscribe
  <2> HIDE DEF m
  <2> QED BY <2>3, <2>4, <2>5, OnceRequested
<1> QED BY <1>1, <1>2

\* mqtt_publish, with an identifier that is not in use.
LEMMA OncePublishes ==
    ASSUME IInv, OnceInv, NEW qos \in QoS, mqtt_publish(qos), Unused(lfsr')
    PROVE  OnceStep
<1>1. PICK p \in __mqtt_next_pid :
        lfsr' = p /\ Stage(Msg("PUBLISH", p, qos, Len(staged) + 1))
  BY DEF mqtt_publish
<1>2. p \in 0..NPid /\ \A i \in DOMAIN queue : queue[i].pid # p
  BY ClientAssumption DEF __mqtt_next_pid, Pids, UsedPids
<1>3. queue \in Seq(Message) /\ staged \in Seq(QoS) /\ Len(staged) \in Nat
  BY LenProperties DEF IInv, Shape, QueueShape, HistShape
<1> DEFINE m == Msg("PUBLISH", p, qos, Len(staged) + 1)
<1>4. /\ m \in Message /\ m.type = "PUBLISH" /\ m.qos = qos /\ m.id = Len(staged) + 1
      /\ m.state = "UNSENT" /\ m.pid = p
  <2>1. "PUBLISH" \in Types /\ Len(staged) + 1 \in Nat
    BY <1>3 DEF Types
  <2> QED BY <1>2, <2>1, NewMessage
<1>5. Stage(m)
  BY <1>1
<1> HIDE DEF m
<1>6. /\ UNCHANGED <<c2b, b2c, conns, broker, delivered>>
      /\ staged' = IF error' = "OK" THEN Append(staged, qos) ELSE staged
  BY DEF mqtt_publish, net
<1>7. CASE error' = "OK" /\ QStep(queue, queue', {}, <<m>>)
  <2>1. staged' \in Seq(QoS) /\ Added(staged, m.qos, staged')
    BY <1>3, <1>4, <1>6, <1>7, AppendProperties DEF Added
  <2>2. Untouched(b2c, c2b, broker.seen2, m.pid) /\ IsPublish(m)
    BY <1>1, <1>4 DEF Unused, IsPublish
  <2>3. OrderOK(queue, staged, c2b, delivered)
    BY DEF IInv, OrderInv
  <2>4. OnceOK(queue, b2c, c2b, delivered, broker.seen2)
    BY DEF OnceInv
  <2>5. \A i \in DOMAIN queue : queue[i].pid # m.pid
    BY <1>2, <1>4
  <2>6. /\ OnceOK(queue', b2c, c2b, delivered, broker.seen2)
        /\ NoTwice(staged, delivered) => NoTwice(staged', delivered)
        /\ Kept(queue, staged, delivered) => Kept(queue', staged', delivered)
    BY <1>3, <1>4, <1>7, <2>1, <2>2, <2>3, <2>4, <2>5, OnceStaged
  <2>7. OnceInv'
    BY <1>6, <2>6 DEF OnceInv
  <2>8. ASSUME NEW n, Below(n), lfsr' <= n PROVE Below(n)'
    <3>1. m.pid <= n
      BY <1>1, <1>4, <2>8
    <3>2. BelowOK(queue', b2c, c2b, broker.seen2, n)
      BY <1>3, <1>4, <1>7, <2>8, <3>1, BelowStaged DEF Below
    <3> QED BY <1>6, <3>2 DEF Below
  <2> QED BY <2>7, <2>8 DEF OnceStep
<1>8. CASE error' = "SEND_BUFFER_IS_FULL" /\ QStep(queue, queue', {}, <<>>)
  <2>1. UNCHANGED <<c2b, conns, staged, delivered>> /\ broker'.seen2 = broker.seen2
    BY <1>6, <1>8
  <2>2. Fewer(b2c, b2c')
    BY <1>6, FewerThen
  <2> QED BY <1>8, <2>1, <2>2, HarmlessStaging, OnceMoves
<1> QED BY <1>4, <1>5, <1>7, <1>8, StageSteps

\* The steps of mqtt_sync that change no message, and time.
LEMMA OnceSyncs ==
    ASSUME IInv, OnceInv,
           SyncStart \/ RecvError \/ RecvDone \/ SendSkip \/ SendError \/ KeepAliveCheck \/ Tick
    PROVE  OnceStep
<1>1. /\ UNCHANGED <<c2b, b2c, conns, staged, delivered>> /\ broker'.seen2 = broker.seen2
      /\ Fewer(b2c, b2c')
  <2>1. UNCHANGED <<net, conns, broker, history>>
    BY DEF SyncStart, RecvError, RecvDone, SendSkip, SendError, KeepAliveCheck, Tick
  <2> QED BY <2>1, FewerThen DEF net, history
<1>2. CASE SyncStart \/ RecvError \/ RecvDone \/ SendSkip \/ SendError
  <2>1. UNCHANGED queue
    BY <1>2 DEF SyncStart, RecvError, RecvDone, SendSkip, SendError
  <2> QED BY <1>1, <2>1, OnceRests
<1>3. CASE KeepAliveCheck
  <2>1. PICK ms \in Seq(Message) :
          /\ QStep(queue, queue', {}, ms)
          /\ Len(ms) \in {0, 1} /\ (Len(ms) = 1 => ms[1].type = "PINGREQ")
    BY <1>3, KeepAliveSteps
  <2>2. Harmless(queue, {}, ms, delivered)
    BY <2>1, HarmlessStaging
  <2> QED BY <1>1, <2>1, <2>2, OnceMoves
<1>4. CASE Tick
  <2>1. QStep(queue, queue', {}, <<>>)
    BY <1>4, TickSteps
  <2> QED BY <1>1, <2>1, HarmlessStaging, OnceMoves
<1> QED BY <1>2, <1>3, <1>4

\* __mqtt_send sends a message.
LEMMA OnceSends ==
    ASSUME IInv, OnceInv, SendMessage
    PROVE  OnceStep
<1> DEFINE n == pc.i
           m == queue[n]
<1>1. /\ n \in 1..Len(queue) /\ m \in Message
      /\ queue' \in Seq(Message) /\ Len(queue') = Len(queue)
      /\ \A i \in 1..Len(queue) : Same(queue[i], queue'[i])
      /\ \A i \in 1..Len(queue) : i # n => queue'[i].state = queue[i].state
      /\ queue'[n].state = StateAfterSend(m)
      /\ m.state # "COMPLETE"
      /\ c2b \in Seq(ToBroker) /\ c2b' \in Seq(ToBroker)
      /\ Added(c2b, PacketOf(m), c2b')
  BY SendSteps
<1>2. UNCHANGED <<b2c, conns, broker, staged, delivered>>
  BY DEF SendMessage, history
<1>3. queue \in Seq(Message) /\ QueueInOrder(queue, staged)
  BY DEF IInv, Shape, QueueShape, OrderInv, OrderOK
<1>4. OnceOK(queue, b2c, c2b, delivered, broker.seen2)
  BY DEF OnceInv
<1>5. m = queue[n]
  OBVIOUS
<1> HIDE DEF n, m
<1>6. HasPid(m) => queue'[n].state # "COMPLETE"
  BY <1>1 DEF HasPid, IsPublish, StateAfterSend
<1>7. /\ OnceOK(queue', b2c, c2b', delivered, broker.seen2)
      /\ Kept(queue, staged, delivered) => Kept(queue', staged, delivered)
  BY <1>1, <1>3, <1>4, <1>5, <1>6, OnceSent
<1>8. OnceInv'
  BY <1>2, <1>7 DEF OnceInv
<1>9. ASSUME NEW k, Below(k) PROVE Below(k)'
  <2> DEFINE z == Len(c2b) + 1
  <2>1. /\ DOMAIN c2b' = DOMAIN c2b \cup {z} /\ c2b'[z] = PacketOf(m)
        /\ \A i \in DOMAIN c2b : c2b'[i] = c2b[i]
    <3>1. c2b \in Seq(ToBroker) /\ c2b' \in Seq(ToBroker) /\ Added(c2b, PacketOf(m), c2b')
      BY <1>1
    <3>2. /\ DOMAIN c2b' = DOMAIN c2b \cup {Len(c2b) + 1} /\ c2b'[Len(c2b) + 1] = PacketOf(m)
          /\ \A i \in DOMAIN c2b : c2b'[i] = c2b[i] /\ i < Len(c2b) + 1
          /\ \A i \in DOMAIN c2b : i \in Int
      BY <3>1, AddedPackets
    <3> QED BY <3>2
  <2> HIDE DEF z
  <2>2. Owned(PacketOf(m)) => PacketOf(m).pid <= k
    <3>1. n \in DOMAIN queue
      BY <1>1, <1>3, LenProperties
    <3> QED BY <3>1, <1>5, <1>9 DEF Below, BelowOK, Owned, PacketOf
  <2>3. \A i \in DOMAIN c2b' : Owned(c2b'[i]) => c2b'[i].pid <= k
    BY <2>1, <2>2, <1>9 DEF Below, BelowOK
  <2>4. \A i \in DOMAIN queue' : Owned(queue'[i]) => queue'[i].pid <= k
    <3>1. DOMAIN queue' = 1..Len(queue) /\ DOMAIN queue = 1..Len(queue)
      BY <1>1, <1>3, LenProperties
    <3> QED BY <3>1, <1>1, <1>9 DEF Below, BelowOK, Owned, Same
  <2> QED BY <2>3, <2>4, <1>2, <1>9 DEF Below, BelowOK
<1> QED BY <1>8, <1>9 DEF OnceStep

-----------------------------------------------------------------------------
(* What mqtt_sync receives.                                                 *)

\* After a packet that makes a harmless step of the queue.
LEMMA OnceHandled ==
    ASSUME IInv, OnceInv, NEW type, Receives(type), NEW C, NEW ms,
           QStep(queue, queue', C, ms), Harmless(queue, C, ms, delivered)
    PROVE  OnceStep
<1>1. /\ b2c \in Seq(ToClient) /\ b2c' \in Seq(ToClient) /\ Behind(b2c, b2c')
      /\ UNCHANGED <<c2b, conns, broker, staged, delivered>>
  BY Received
<1>2. Fewer(b2c, b2c')
  BY <1>1, FewerThen
<1> QED BY <1>1, <1>2, OnceMoves

\* After a packet that leaves the queue alone.
LEMMA OnceIgnored ==
    ASSUME IInv, OnceInv, NEW type, Receives(type), UNCHANGED queue
    PROVE  OnceStep
<1>1. QStep(queue, queue', {}, <<>>)
  BY NoStep DEF IInv, Shape, QueueShape
<1> QED BY <1>1, HarmlessStaging, OnceHandled

\* After a packet that completes message i, which was accepted if it is a PUBLISH.
LEMMA OnceCompleted ==
    ASSUME IInv, OnceInv, NEW type, Receives(type), NEW i \in DOMAIN queue,
           queue' = Complete(queue, i), IsPublish(queue[i]) => Member(delivered, queue[i].id)
    PROVE  OnceStep
<1>1. /\ queue \in Seq(Message) /\ Len(queue) <= QueueCap
      /\ DOMAIN queue = 1..Len(queue)
  BY LenProperties DEF IInv, Shape, QueueShape
<1>2. QStep(queue, queue', {i}, <<>>)
  BY <1>1, CompleteSteps
<1>3. <<>> \in Seq(Message) /\ Len(<<>>) = 0
  BY EmptySeq
<1>4. Harmless(queue, {i}, <<>>, delivered)
  BY <1>3 DEF Harmless
<1> QED BY <1>2, <1>4, OnceHandled

\* The messages that an answer with identifier pid may complete were accepted.
LEMMA AnswerIsMeant ==
    ASSUME IInv, OnceInv, NEW type \in {"PUBACK", "PUBREC"}, Receives(type),
           NEW i \in DOMAIN queue, IsPublish(queue[i]), queue[i].pid = Head(b2c).pid
    PROVE  Member(delivered, queue[i].id)
<1>1. Head(b2c) = b2c[1] /\ b2c[1].type = type /\ b2c \in Seq(ToClient) /\ Behind(b2c, b2c')
  BY Received
<1>2. 1 \in DOMAIN b2c
  <2>1. DOMAIN b2c = 1..Len(b2c) /\ Len(b2c) \in Nat
    BY <1>1, LenProperties
  <2> QED BY <2>1, <1>1 DEF Behind
<1> QED BY <1>1, <1>2 DEF OnceInv, OnceOK, Meant

\* After an answer that releases message i of found, when it releases one.
LEMMA OnceReleased ==
    ASSUME IInv, OnceInv, NEW type, Receives(type), NEW found, Release(found),
           \A i \in found : /\ i \in DOMAIN queue
                            /\ IsPublish(queue[i]) => Member(delivered, queue[i].id)
    PROVE  OnceStep
<1>1. CASE UNCHANGED queue
  BY <1>1, OnceIgnored
<1>2. CASE \E i \in found : queue' = Complete(queue, i)
  BY <1>2, OnceCompleted
<1> QED BY <1>1, <1>2 DEF Release, Unknown

\* CONNACK, SUBACK, UNSUBACK, PINGRESP, PUBACK and PUBCOMP.
LEMMA OnceReceives ==
    ASSUME IInv, OnceInv,
           \/ RecvConnack \/ RecvSuback \/ RecvUnsuback \/ RecvPingresp
           \/ RecvPuback \/ RecvPubcomp
    PROVE  OnceStep
<1>1. ASSUME NEW found, NEW t, Found(found, t), t # "PUBLISH"
      PROVE  \A i \in found : /\ i \in DOMAIN queue
                              /\ IsPublish(queue[i]) => Member(delivered, queue[i].id)
  BY <1>1 DEF Found, IsPublish
<1>2. \A t : t # "PUBLISH" => \A pid : \A i \in FindPid(t, pid) :
        i \in DOMAIN queue /\ (IsPublish(queue[i]) => Member(delivered, queue[i].id))
  BY <1>1, FindsType
<1>3. \A t : t # "PUBLISH" => \A i \in FindOpen(t) :
        i \in DOMAIN queue /\ (IsPublish(queue[i]) => Member(delivered, queue[i].id))
  BY <1>1, FindsType
<1>4. CASE RecvConnack
  <2>1. Receives("CONNACK") /\ (UNCHANGED queue \/ \E i \in FindOpen("CONNECT") : queue' = Complete(queue, i))
    BY <1>4 DEF RecvConnack, Unknown
  <2>2. CASE UNCHANGED queue
    BY <2>1, <2>2, OnceIgnored
  <2>3. CASE \E i \in FindOpen("CONNECT") : queue' = Complete(queue, i)
    BY <2>1, <2>3, <1>3, OnceCompleted
  <2> QED BY <2>1, <2>2, <2>3
<1>5. CASE RecvSuback
  <2> DEFINE found == FindPid("SUBSCRIBE", Head(b2c).pid)
  <2>1. Receives("SUBACK") /\ (UNCHANGED queue \/ \E i \in found : queue' = Complete(queue, i))
    BY <1>5 DEF RecvSuback, Unknown
  <2>2. CASE UNCHANGED queue
    BY <2>1, <2>2, OnceIgnored
  <2>3. CASE \E i \in found : queue' = Complete(queue, i)
    BY <2>1, <2>3, <1>2, OnceCompleted
  <2> QED BY <2>1, <2>2, <2>3
<1>6. CASE RecvUnsuback
  BY <1>2, <1>6, OnceReleased DEF RecvUnsuback
<1>7. CASE RecvPingresp
  BY <1>3, <1>7, OnceReleased DEF RecvPingresp
<1>8. CASE RecvPubcomp
  BY <1>2, <1>8, OnceReleased DEF RecvPubcomp
<1>9. CASE RecvPuback
  <2> DEFINE found == FindPid("PUBLISH", Head(b2c).pid)
  <2>1. Receives("PUBACK") /\ Release(found)
    BY <1>9 DEF RecvPuback
  <2>2. \A i \in found : /\ i \in DOMAIN queue /\ IsPublish(queue[i])
                         /\ queue[i].pid = Head(b2c).pid
    BY DEF FindPid, IsPublish
  <2> HIDE DEF found
  <2>3. \A i \in found : i \in DOMAIN queue /\ Member(delivered, queue[i].id)
    BY <2>1, <2>2, AnswerIsMeant
  <2> QED BY <2>1, <2>3, OnceReleased
<1> QED BY <1>4, <1>5, <1>6, <1>7, <1>8, <1>9

\* After a packet that completes message i and is answered with m, or is not.
LEMMA OnceAnswered ==
    ASSUME IInv, OnceInv, NEW type, Receives(type), NEW i \in DOMAIN queue, NEW m \in Message,
           Answer(Complete(queue, i), m), ~IsPublish(m),
           IsPublish(queue[i]) => Member(delivered, queue[i].id),
           \A j \in DOMAIN queue : IsPublish(queue[j]) /\ IsRel(m, queue[j].pid) => j = i,
           Owned(m) => Owned(queue[i]) /\ queue[i].pid = m.pid
    PROVE  OnceStep
<1>1. pc.at = "recv"
  BY DEF Receives
<1>2. QStep(queue, queue', {i}, <<m>>) \/ QStep(queue, queue', {i}, <<>>)
  BY <1>1, CompletedAndAnswered
<1>3. <<m>> \in Seq(Message) /\ Len(<<m>>) = 1 /\ <<m>>[1] = m
  OBVIOUS
<1>4. <<>> \in Seq(Message) /\ Len(<<>>) = 0
  BY EmptySeq
<1>5. Harmless(queue, {i}, <<m>>, delivered)
  BY <1>3 DEF Harmless
<1>6. Harmless(queue, {i}, <<>>, delivered)
  BY <1>4 DEF Harmless
<1> QED BY <1>2, <1>5, <1>6, OnceHandled

\* A PUBREC completes the PUBLISH it is meant for, and the PUBREL releases that
\* message only.
LEMMA OncePubrec ==
    ASSUME IInv, OnceInv, RecvPubrec
    PROVE  OnceStep
<1> DEFINE pid   == Head(b2c).pid
           found == FindPid("PUBLISH", pid)
<1>1. Receives("PUBREC")
  BY DEF RecvPubrec
<1>2. pid \in 0..NPid
  BY <1>1, Received DEF ToClient
<1>3. CASE UNCHANGED queue
  BY <1>1, <1>3, OnceIgnored
<1>4. CASE \E i \in found : Answer(Complete(queue, i), Msg("PUBREL", pid, 0, queue[i].id))
  <2>1. PICK i \in found : Answer(Complete(queue, i), Msg("PUBREL", pid, 0, queue[i].id))
    BY <1>4
  <2>2. i \in DOMAIN queue /\ IsPublish(queue[i]) /\ queue[i].pid = pid
    BY DEF FindPid, IsPublish
  <2>3. Member(delivered, queue[i].id)
    BY <1>1, <2>2, AnswerIsMeant
  <2> HIDE DEF found, pid
  <2>4. queue[i].id \in Nat
    BY <2>2, ElementOfSeq, LenProperties, MessageFields DEF IInv, Shape, QueueShape
  <2> DEFINE m == Msg("PUBREL", pid, 0, queue[i].id)
  <2>5. m \in Message /\ m.type = "PUBREL" /\ m.pid = pid
    <3>1. "PUBREL" \in Types /\ 0 \in QoS
      BY DEF Types, QoS
    <3> QED BY <1>2, <2>4, <3>1, NewMessage
  <2>6. Answer(Complete(queue, i), m)
    BY <2>1
  <2> HIDE DEF m
  <2>7. \A j \in DOMAIN queue : IsPublish(queue[j]) /\ IsRel(m, queue[j].pid) => j = i
    BY <2>2, <2>5 DEF OnceInv, OnceOK, OneHolder, IsRel
  <2>8. ~IsPublish(m) /\ Owned(queue[i]) /\ queue[i].pid = m.pid
    BY <2>2, <2>5 DEF IsPublish, Owned
  <2> QED BY <1>1, <2>2, <2>3, <2>5, <2>6, <2>7, <2>8, OnceAnswered
<1> QED BY <1>3, <1>4 DEF RecvPubrec, Unknown

\* A PUBREL completes a PUBREC.
LEMMA OncePubrel ==
    ASSUME IInv, OnceInv, RecvPubrel
    PROVE  OnceStep
<1> DEFINE pid   == Head(b2c).pid
           found == FindPid("PUBREC", pid)
           m     == Msg("PUBCOMP", pid, 0, 0)
<1>1. Receives("PUBREL")
  BY DEF RecvPubrel
<1>2. pid \in 0..NPid
  BY <1>1, Received DEF ToClient
<1>3. CASE UNCHANGED queue
  BY <1>1, <1>3, OnceIgnored
<1>4. CASE \E i \in found : Answer(Complete(queue, i), m)
  <2>1. PICK i \in found : Answer(Complete(queue, i), m)
    BY <1>4
  <2>2. i \in DOMAIN queue /\ ~IsPublish(queue[i])
    BY DEF FindPid, IsPublish
  <2> HIDE DEF found, pid
  <2>3. m \in Message /\ m.type = "PUBCOMP"
    <3>1. "PUBCOMP" \in Types /\ 0 \in QoS /\ 0 \in Nat
      BY DEF Types, QoS
    <3> QED BY <1>2, <3>1, NewMessage
  <2> HIDE DEF m
  <2>4. ~IsPublish(m) /\ ~Owned(m) /\ \A p : ~IsRel(m, p)
    BY <2>3 DEF IsPublish, IsRel, Owned
  <2> QED BY <1>1, <2>1, <2>2, <2>3, <2>4, OnceAnswered
<1> QED BY <1>3, <1>4 DEF RecvPubrel, Unknown

\* A PUBLISH stages its PUBACK or PUBREC, or nothing.
LEMMA OncePublished ==
    ASSUME IInv, OnceInv, RecvPublish
    PROVE  OnceStep
<1> DEFINE p == Head(b2c)
<1>1. Receives("PUBLISH") /\ pc.at = "recv"
  BY DEF RecvPublish, Receives
<1>2. p.pid \in 0..NPid
  BY <1>1, Received DEF ToClient
<1>3. CASE UNCHANGED queue
  BY <1>1, <1>3, OnceIgnored
<1>4. ASSUME NEW type \in {"PUBACK", "PUBREC"}, Answer(queue, Msg(type, p.pid, 0, 0))
      PROVE  OnceStep
  <2> DEFINE m == Msg(type, p.pid, 0, 0)
  <2> HIDE DEF p
  <2>1. m \in Message /\ m.type \notin {"PUBLISH", "PUBREL"}
    <3>1. type \in Types /\ 0 \in QoS /\ 0 \in Nat
      BY DEF Types, QoS
    <3>2. m \in Message /\ m.type = type
      BY <1>2, <3>1, NewMessage
    <3> QED BY <3>2
  <2>2. Answer(queue, m)
    BY <1>4
  <2> HIDE DEF m
  <2>3. queue \in Seq(Message) /\ Len(queue) <= QueueCap
    BY DEF IInv, Shape, QueueShape
  <2>4. QStep(queue, queue', {}, <<m>>) \/ QStep(queue, queue', {}, <<>>)
    BY <1>1, <2>1, <2>2, <2>3, AnswerSteps
  <2>5. <<m>> \in Seq(Message) /\ Len(<<m>>) = 1 /\ <<m>>[1] = m
    BY <2>1
  <2>6. Harmless(queue, {}, <<m>>, delivered) /\ Harmless(queue, {}, <<>>, delivered)
    BY <2>1, <2>5, HarmlessStaging
  <2> QED BY <1>1, <2>4, <2>6, OnceHandled
<1>5. \/ UNCHANGED queue
      \/ \E type \in {"PUBACK", "PUBREC"} : Answer(queue, Msg(type, p.pid, 0, 0))
  BY DEF RecvPublish
<1> QED BY <1>3, <1>4, <1>5

-----------------------------------------------------------------------------
(* The broker and the socket.                                               *)

\* What a packet behind the others adds.
LEMMA OneMore ==
    ASSUME NEW S, NEW b \in Seq(S), NEW x, NEW j \in DOMAIN (b \o <<x>>)
    PROVE  (b \o <<x>>)[j] = x \/ \E i \in DOMAIN b : b[i] = (b \o <<x>>)[j]
<1> DEFINE T == S \cup {x}
           t == Append(b, x)
<1>1. b \in Seq(T) /\ x \in T
  OBVIOUS
<1>2. b \o <<x>> = t
  BY AppendIsConcat
<1>3. t \in Seq(T) /\ Len(t) = Len(b) + 1 /\ t[Len(b) + 1] = x /\ \A i \in 1..Len(b) : t[i] = b[i]
  BY <1>1, AppendProperties
<1>4. DOMAIN t = 1..Len(t) /\ DOMAIN b = 1..Len(b) /\ Len(b) \in Nat
  BY <1>1, <1>3, LenProperties
<1>5. j \in DOMAIN t
  BY <1>2
<1> HIDE DEF t
<1>6. j \in 1..Len(b) \/ j = Len(b) + 1
  BY <1>3, <1>4, <1>5
<1> QED BY <1>2, <1>3, <1>4, <1>6

\* What the broker sends is a PUBACK or PUBREC only for the packet p that it takes.
LEMMA RepliesCredited ==
    ASSUME IInv, NEW x, Replies(<<x>>), NEW p,
           x.type \in {"PUBACK", "PUBREC"} => HasPid(p) /\ x.pid = p.pid
    PROVE  Credited(p, b2c, b2c')
<1>1. b2c \in Seq(ToClient) /\ b2c' = b2c \o <<x>>
  BY DEF IInv, Shape, NetShape, Replies
<1>2. \A j \in DOMAIN b2c' : b2c'[j] = x \/ \E i \in DOMAIN b2c : b2c[i] = b2c'[j]
  BY <1>1, OneMore
<1> QED BY <1>2 DEF Credited

\* After a packet that the broker takes.
LEMMA OnceTakes ==
    ASSUME IInv, OnceInv, Takes, NEW p, p = Head(c2b), Taken(p, delivered, delivered'),
           delivered' \in Seq(Nat), Marked(p, broker.seen2, broker'.seen2), Credited(p, b2c, b2c')
    PROVE  OnceStep
<1>1. c2b # <<>> /\ c2b' = Tail(c2b) /\ UNCHANGED <<queue, conns, staged>>
  BY DEF Takes, client
<1>2. c2b \in Seq(ToBroker) /\ delivered \in Seq(Nat)
  BY DEF IInv, Shape, NetShape, HistShape
<1>3. Len(c2b) \in Nat /\ Len(c2b) # 0
  <2>1. Len(c2b) \in Nat \ {0}
    BY <1>1, <1>2, EmptySeq
  <2> QED BY <2>1
<1>4. p = c2b[1] /\ c2b[1] \in ToBroker
  BY <1>1, <1>2, HeadTailProperties
<1>5. c2b' \in Seq(ToBroker) /\ Behind(c2b, c2b')
  <2>1. /\ c2b' \in Seq(ToBroker) /\ Len(c2b') = Len(c2b) - 1
        /\ \A i \in 1..Len(c2b') : c2b'[i] = c2b[i + 1]
    BY <1>1, <1>2, HeadTailProperties
  <2> QED BY <2>1, <1>3 DEF Behind
<1>6. /\ OrderOK(queue, staged, c2b, delivered)
      /\ OnceOK(queue, b2c, c2b, delivered, broker.seen2)
  BY DEF IInv, OrderInv, OnceInv
<1>7. /\ OnceOK(queue, b2c', c2b', delivered', broker'.seen2)
      /\ NoTwice(staged, delivered) => NoTwice(staged, delivered')
      /\ Kept(queue, staged, delivered) => Kept(queue, staged, delivered')
  BY <1>2, <1>4, <1>5, <1>6, OnceTaken
<1>8. OnceInv'
  BY <1>1, <1>7 DEF OnceInv
<1>9. ASSUME NEW n, Below(n) PROVE Below(n)'
  <2>1. BelowOK(queue, b2c, c2b, broker.seen2, n)
    BY <1>9 DEF Below
  <2>2. /\ 1 \in DOMAIN c2b
        /\ \A j \in DOMAIN c2b' : j + 1 \in DOMAIN c2b /\ c2b'[j] = c2b[j + 1]
    <3>1. /\ DOMAIN c2b = 1..Len(c2b) /\ DOMAIN c2b' = 1..Len(c2b')
          /\ Len(c2b) \in Nat /\ Len(c2b') \in Nat
      BY <1>2, <1>5, LenProperties
    <3> QED BY <3>1, <1>5 DEF Behind
  <2>3. IsPublish(p) => p.pid <= n
    BY <1>4, <2>1, <2>2 DEF BelowOK, IsPublish, Owned
  <2>4. \A pid \in broker'.seen2 : pid <= n
    BY <2>1, <2>3 DEF BelowOK, Marked
  <2>5. \A j \in DOMAIN b2c' : b2c'[j].type \in {"PUBACK", "PUBREC"} => b2c'[j].pid <= n
    BY <2>1, <2>3 DEF BelowOK, Credited, HasPid
  <2>6. \A j \in DOMAIN c2b' : Owned(c2b'[j]) => c2b'[j].pid <= n
    BY <2>1, <2>2 DEF BelowOK
  <2>7. BelowOK(queue, b2c', c2b', broker'.seen2, n)
    BY <2>1, <2>4, <2>5, <2>6 DEF BelowOK
  <2> QED BY <1>1, <2>7 DEF Below
<1> QED BY <1>8, <1>9 DEF OnceStep

\* What the broker has accepted after a PUBLISH that it accepts.
LEMMA Accepting ==
    ASSUME IInv, NEW p \in ToBroker, IsPublish(p), Accept(p),
           p.qos = 2 => ~Member(delivered, p.id)
    PROVE  delivered' \in Seq(Nat) /\ Taken(p, delivered, delivered')
<1>1. delivered \in Seq(Nat) /\ p.id \in Nat
  BY DEF IInv, Shape, HistShape, ToBroker
<1>2. CASE p.qos = 1 /\ Member(delivered, p.id)
  <2>1. delivered' = delivered
    BY <1>2 DEF Accept, Member
  <2> QED BY <2>1, <1>1, <1>2 DEF Taken
<1>3. CASE ~(p.qos = 1 /\ Member(delivered, p.id))
  <2>1. delivered' = Append(delivered, p.id)
    BY <1>3 DEF Accept, Member
  <2>2. delivered' \in Seq(Nat) /\ Added(delivered, p.id, delivered')
    BY <2>1, <1>1, AppendProperties DEF Added
  <2> QED BY <2>2 DEF Taken
<1> QED BY <1>2, <1>3

\* The broker takes a packet.
LEMMA OnceBroker ==
    ASSUME IInv, OnceInv, BrokerRecv
    PROVE  OnceStep
<1> DEFINE p == Head(c2b)
<1>1. Takes
  BY DEF BrokerRecv, Takes
<1>2. /\ c2b \in Seq(ToBroker) /\ c2b # <<>> /\ p \in ToBroker /\ p = c2b[1]
      /\ 1 \in DOMAIN c2b
  BY <1>1, HeadTailProperties DEF IInv, Shape, NetShape, Takes
<1>3. broker \in Session /\ delivered \in Seq(Nat)
  BY DEF IInv, Shape, BrokerShape, HistShape
<1>4. p = Head(c2b)
  OBVIOUS
<1> HIDE DEF p
<1>5. UNCHANGED delivered /\ ~IsPublish(p) =>
        delivered' \in Seq(Nat) /\ Taken(p, delivered, delivered')
  BY <1>3 DEF Taken
<1>6. broker'.seen2 = broker.seen2 /\ p.type # "PUBREL" /\ ~(IsPublish(p) /\ p.qos = 2) =>
        Marked(p, broker.seen2, broker'.seen2)
  BY DEF Marked, IsRel
<1>7. UNCHANGED b2c => Credited(p, b2c, b2c')
  BY DEF Credited
<1>8. ASSUME NEW type, type \notin {"PUBACK", "PUBREC"}, NEW pid, NEW ok,
             Replies(<<Pkt(type, pid, ok)>>)
      PROVE  Credited(p, b2c, b2c')
  <2> DEFINE x == Pkt(type, pid, ok)
  <2>1. x.type \notin {"PUBACK", "PUBREC"}
    BY <1>8 DEF Pkt
  <2>2. Replies(<<x>>)
    BY <1>8
  <2> HIDE DEF x
  <2> QED BY <2>1, <2>2, RepliesCredited
<1>9. ASSUME NEW type, HasPid(p), Replies(<<Pkt(type, p.pid, TRUE)>>)
      PROVE  Credited(p, b2c, b2c')
  <2> DEFINE x == Pkt(type, p.pid, TRUE)
  <2>1. x.pid = p.pid
    BY DEF Pkt
  <2>2. Replies(<<x>>)
    BY <1>9
  <2> HIDE DEF x
  <2> QED BY <2>1, <2>2, <1>9, RepliesCredited
<1>10. CASE /\ p.type = "CONNECT" /\ broker.up = "new"
            /\ \E ok \in {TRUE} \cup {~plan.refuse} :
                  /\ Replies(<<Pkt("CONNACK", p.pid, ok)>>)
                  /\ broker' = [broker EXCEPT !.up = IF ok THEN "accepted" ELSE "refused"]
            /\ UNCHANGED <<delivered, link>>
  <2>1. PICK ok : /\ Replies(<<Pkt("CONNACK", p.pid, ok)>>)
                  /\ broker' = [broker EXCEPT !.up = IF ok THEN "accepted" ELSE "refused"]
    BY <1>10
  <2>2. broker'.seen2 = broker.seen2
    BY <1>3, <2>1 DEF Session
  <2>3. ~IsPublish(p)
    BY <1>10 DEF IsPublish
  <2> QED BY <1>1, <1>4, <1>5, <1>6, <1>8, <1>10, <2>1, <2>2, <2>3, OnceTakes
<1>11. CASE /\ p.type = "SUBSCRIBE"
            /\ \E ok \in {TRUE} \cup {~plan.refuse} : Replies(<<Pkt("SUBACK", p.pid, ok)>>)
            /\ UNCHANGED <<broker, delivered, link>>
  <2>1. ~IsPublish(p)
    BY <1>11 DEF IsPublish
  <2>2. Credited(p, b2c, b2c')
    BY <1>8, <1>11
  <2> QED BY <1>1, <1>4, <1>5, <1>6, <1>11, <2>1, <2>2, OnceTakes
<1>12. CASE /\ p.type = "UNSUBSCRIBE"
            /\ Replies(<<Pkt("UNSUBACK", p.pid, TRUE)>>)
            /\ UNCHANGED <<broker, delivered, link>>
  <2>1. ~IsPublish(p)
    BY <1>12 DEF IsPublish
  <2>2. Credited(p, b2c, b2c')
    BY <1>8, <1>12
  <2> QED BY <1>1, <1>4, <1>5, <1>6, <1>12, <2>1, <2>2, OnceTakes
<1>13. CASE /\ p.type = "PINGREQ"
            /\ Replies(<<Pkt("PINGRESP", 0, TRUE)>>)
            /\ UNCHANGED <<broker, delivered, link>>
  <2>1. ~IsPublish(p)
    BY <1>13 DEF IsPublish
  <2>2. Credited(p, b2c, b2c')
    BY <1>8, <1>13
  <2> QED BY <1>1, <1>4, <1>5, <1>6, <1>13, <2>1, <2>2, OnceTakes
<1>14. CASE p.type = "PUBLISH" /\ p.qos = 0 /\ Accept(p) /\ UNCHANGED <<b2c, broker, link>>
  <2>1. IsPublish(p)
    BY <1>14 DEF IsPublish
  <2>2. delivered' \in Seq(Nat) /\ Taken(p, delivered, delivered')
    BY <1>2, <1>14, <2>1, Accepting
  <2> QED BY <1>1, <1>4, <1>6, <1>7, <1>14, <2>2, OnceTakes
<1>15. CASE /\ p.type = "PUBLISH" /\ p.qos = 1
            /\ Accept(p) /\ Replies(<<Pkt("PUBACK", p.pid, TRUE)>>)
            /\ UNCHANGED <<broker, link>>
  <2>1. IsPublish(p) /\ HasPid(p)
    BY <1>15 DEF IsPublish, HasPid
  <2>2. delivered' \in Seq(Nat) /\ Taken(p, delivered, delivered')
    BY <1>2, <1>15, <2>1, Accepting
  <2>3. Credited(p, b2c, b2c')
    BY <1>9, <1>15, <2>1
  <2> QED BY <1>1, <1>4, <1>6, <1>15, <2>2, <2>3, OnceTakes
<1>16. CASE /\ p.type = "PUBLISH" /\ p.qos = 2
            /\ IF p.pid \in broker.seen2 THEN UNCHANGED delivered ELSE Accept(p)
            /\ broker' = [broker EXCEPT !.seen2 = @ \cup {p.pid}]
            /\ Replies(<<Pkt("PUBREC", p.pid, TRUE)>>)
            /\ UNCHANGED link
  <2>1. IsPublish(p) /\ HasPid(p)
    BY <1>16 DEF IsPublish, HasPid
  <2>2. SeenRight(p, delivered, broker.seen2)
    BY <1>2, <1>16, <2>1 DEF OnceInv, OnceOK, AllSeen
  <2>3. delivered' \in Seq(Nat) /\ Taken(p, delivered, delivered')
    <3>1. CASE p.pid \in broker.seen2
      BY <3>1, <1>3, <1>16, <2>2 DEF SeenRight, Taken
    <3>2. CASE p.pid \notin broker.seen2
      <4>1. Accept(p) /\ ~Member(delivered, p.id)
        BY <3>2, <1>16, <2>2 DEF SeenRight
      <4> QED BY <4>1, <1>2, <2>1, Accepting
    <3> QED BY <3>1, <3>2
  <2>4. broker'.seen2 = broker.seen2 \cup {p.pid}
    BY <1>3, <1>16 DEF Session
  <2>5. Marked(p, broker.seen2, broker'.seen2)
    BY <1>16, <2>1, <2>4 DEF Marked, IsRel
  <2>6. Credited(p, b2c, b2c')
    BY <1>9, <1>16, <2>1
  <2> QED BY <1>1, <1>4, <2>3, <2>5, <2>6, OnceTakes
<1>17. CASE /\ p.type = "PUBREL"
            /\ broker' = [broker EXCEPT !.seen2 = @ \ {p.pid}]
            /\ Replies(<<Pkt("PUBCOMP", p.pid, TRUE)>>)
            /\ UNCHANGED <<delivered, link>>
  <2>1. ~IsPublish(p)
    BY <1>17 DEF IsPublish
  <2>2. broker'.seen2 = broker.seen2 \ {p.pid}
    BY <1>3, <1>17 DEF Session
  <2>3. Marked(p, broker.seen2, broker'.seen2)
    BY <1>17, <2>1, <2>2 DEF Marked, IsRel
  <2>4. Credited(p, b2c, b2c')
    BY <1>8, <1>17
  <2> QED BY <1>1, <1>4, <1>5, <1>17, <2>1, <2>3, <2>4, OnceTakes
<1>18. CASE /\ p.type \in {"PUBACK", "PUBCOMP"}
            /\ broker' = [broker EXCEPT !.out = @ \ OutWith(p.pid)]
            /\ UNCHANGED <<b2c, delivered, link>>
  <2>1. ~IsPublish(p) /\ p.type # "PUBREL"
    BY <1>18 DEF IsPublish
  <2>2. broker'.seen2 = broker.seen2
    BY <1>3, <1>18 DEF Session
  <2> QED BY <1>1, <1>4, <1>5, <1>6, <1>7, <1>18, <2>1, <2>2, OnceTakes
<1>19. CASE /\ p.type = "PUBREC"
            /\ broker' = [broker EXCEPT !.out =
                  (@ \ OutWith(p.pid)) \cup {[o EXCEPT !.rel = TRUE] : o \in OutWith(p.pid)}]
            /\ Replies(<<Pkt("PUBREL", p.pid, TRUE)>>)
            /\ UNCHANGED <<delivered, link>>
  <2>1. ~IsPublish(p)
    BY <1>19 DEF IsPublish
  <2> DEFINE u == (broker.out \ OutWith(p.pid)) \cup {[o EXCEPT !.rel = TRUE] : o \in OutWith(p.pid)}
  <2>2. broker' = [broker EXCEPT !.out = u]
    BY <1>19
  <2> HIDE DEF u
  <2>3. broker'.seen2 = broker.seen2
    BY <1>3, <2>2 DEF Session
  <2>4. Credited(p, b2c, b2c')
    BY <1>8, <1>19
  <2> QED BY <1>1, <1>4, <1>5, <1>6, <1>19, <2>1, <2>3, <2>4, OnceTakes
<1>20. CASE p.type = "DISCONNECT" /\ link' = FALSE /\ UNCHANGED <<b2c, broker, delivered>>
  <2>1. ~IsPublish(p)
    BY <1>20 DEF IsPublish
  <2> QED BY <1>1, <1>4, <1>5, <1>6, <1>7, <1>20, <2>1, OnceTakes
<1> QED BY <1>4, <1>10, <1>11, <1>12, <1>13, <1>14, <1>15, <1>16, <1>17, <1>18, <1>19, <1>20
        DEF BrokerRecv

\* A message that the broker pushes, or transmits again, answers nothing.
LEMMA OncePushes ==
    ASSUME IInv, OnceInv,
           (\E qos \in QoS : BrokerPublish(qos)) \/ (\E o \in broker.out : BrokerResend(o))
    PROVE  OnceStep
<1>1. ASSUME NEW x, x.type \notin {"PUBACK", "PUBREC"}, Replies(<<x>>),
             UNCHANGED <<client, c2b, conns, staged, delivered>>,
             broker'.seen2 = broker.seen2
      PROVE  OnceStep
  <2>1. b2c \in Seq(ToClient) /\ b2c' = b2c \o <<x>>
    BY <1>1 DEF IInv, Shape, NetShape, Replies
  <2>2. Fewer(b2c, b2c')
    BY <1>1, <2>1, OneMore DEF Fewer
  <2> QED BY <1>1, <2>2, OnceRests DEF client
<1>2. broker \in Session
  BY DEF IInv, Shape, BrokerShape
<1>3. ASSUME NEW o, NEW qos, Replies(<<PubPkt(o)>>), BrokerPublish(qos),
             broker' = broker \/ broker' = [broker EXCEPT !.out = @ \cup {o}]
      PROVE  OnceStep
  <2> DEFINE x == PubPkt(o)
  <2>1. x.type \notin {"PUBACK", "PUBREC"}
    BY DEF PubPkt
  <2>2. Replies(<<x>>)
    BY <1>3
  <2> HIDE DEF x
  <2>3. broker'.seen2 = broker.seen2
    BY <1>2, <1>3 DEF Session
  <2>4. UNCHANGED <<client, c2b, conns, staged, delivered>>
    BY <1>3 DEF BrokerPublish
  <2> QED BY <1>1, <2>1, <2>2, <2>3, <2>4
<1>4. ASSUME NEW qos \in QoS, BrokerPublish(qos) PROVE OnceStep
  <2> DEFINE free == {p \in Pids : OutWith(p) = {}}
             o == [id |-> Len(pushed) + 1, qos |-> qos, rel |-> FALSE,
                   pid |-> IF qos = 0 THEN 0 ELSE CHOOSE p \in free : \A r \in free : p <= r]
  <2>1. /\ Replies(<<PubPkt(o)>>)
        /\ broker' = IF qos = 0 THEN broker ELSE [broker EXCEPT !.out = @ \cup {o}]
    BY <1>4 DEF BrokerPublish
  <2> HIDE DEF o
  <2> QED BY <1>3, <1>4, <2>1
<1>5. ASSUME NEW o \in broker.out, BrokerResend(o) PROVE OnceStep
  <2> DEFINE x == IF o.rel THEN Pkt("PUBREL", o.pid, TRUE) ELSE PubPkt(o)
  <2>1. x.type \notin {"PUBACK", "PUBREC"}
    BY DEF Pkt, PubPkt
  <2>2. /\ Replies(<<x>>) /\ UNCHANGED <<client, c2b, conns, staged, delivered>>
        /\ broker' = [broker EXCEPT !.resends = @ - 1]
    BY <1>5 DEF BrokerResend, history
  <2> HIDE DEF x
  <2>3. broker'.seen2 = broker.seen2
    BY <1>2, <2>2 DEF Session
  <2> QED BY <1>1, <2>1, <2>2, <2>3
<1> QED BY <1>4, <1>5

\* The socket is closed: what was under way is lost.
LEMMA OnceCloses ==
    ASSUME OnceInv, Closes
    PROVE  OnceStep
<1>1. /\ c2b' = <<>> /\ b2c' = <<>>
      /\ UNCHANGED <<queue, conns, broker, staged, delivered>>
  BY DEF Closes, client, history
<1>2. OnceOK(queue, <<>>, <<>>, delivered, broker.seen2)
  BY OnceSilent DEF OnceInv
<1>3. OnceInv'
  BY <1>1, <1>2 DEF OnceInv
<1>4. ASSUME NEW n, Below(n) PROVE Below(n)'
  <2>1. DOMAIN <<>> = {}
    OBVIOUS
  <2>2. BelowOK(queue, <<>>, <<>>, broker.seen2, n)
    BY <1>4, <2>1 DEF Below, BelowOK
  <2> QED BY <1>1, <2>2 DEF Below
<1> QED BY <1>3, <1>4 DEF OnceStep

\* A new queue holds no identifier.
LEMMA NothingBelow ==
    ASSUME NEW m, ~Owned(m), NEW n
    PROVE  BelowOK(<<m>>, <<>>, <<>>, {}, n)
<1> DEFINE q == <<m>>
<1>1. DOMAIN q = {1} /\ q[1] = m /\ DOMAIN <<>> = {}
  OBVIOUS
<1> HIDE DEF q
<1>2. BelowOK(q, <<>>, <<>>, {}, n)
  BY <1>1 DEF BelowOK
<1> QED BY <1>2 DEF q

\* The agent connects again: no identifier is in use.
LEMMA OnceReconnects ==
    ASSUME IInv, OnceInv, Reconnect
    PROVE  OnceInv' /\ \A n : Below(n)'
<1> DEFINE m == Msg("CONNECT", 0, 0, 0)
<1>1. /\ conns' = conns + 1 /\ queue' = <<m>> /\ c2b' = <<>> /\ b2c' = <<>>
      /\ broker' = [broker EXCEPT !.seen2 = {}, !.out = {}, !.up = "new"]
      /\ UNCHANGED <<staged, delivered>>
  BY DEF Reconnect, history
<1>2. ~IsPublish(m) /\ ~Owned(m)
  BY DEF Msg, IsPublish, Owned
<1> HIDE DEF m
<1>3. conns' # 1
  BY <1>1, ClientAssumption DEF IInv, Shape, NetShape
<1>4. OnceOK(<<m>>, <<>>, <<>>, delivered, broker'.seen2)
  BY <1>2, OnceNew
<1>5. OnceInv'
  BY <1>1, <1>3, <1>4 DEF OnceInv
<1>6. broker'.seen2 = {}
  BY <1>1 DEF IInv, Shape, BrokerShape, Session
<1>7. ASSUME NEW n PROVE Below(n)'
  BY <1>1, <1>2, NothingBelow, <1>6 DEF Below
<1> QED BY <1>5, <1>7

-----------------------------------------------------------------------------
(* The theorems.                                                            *)

\* The invariant holds when the agent has connected.
LEMMA InitOnce ==
    ASSUME Init
    PROVE  OnceInv
<1> DEFINE m == Msg("CONNECT", 0, 0, 0)
<1>1. queue = <<m>> /\ c2b = <<>> /\ b2c = <<>> /\ staged = <<>> /\ delivered = <<>>
  BY DEF Init
<1>2. ~IsPublish(m)
  BY NewQueue
<1> HIDE DEF m
<1>3. DOMAIN <<>> = {}
  OBVIOUS
<1>4. OnceOK(<<m>>, <<>>, <<>>, <<>>, broker.seen2)
  BY <1>2, OnceNew
<1>5. NoTwice(<<>>, <<>>) /\ Kept(<<m>>, <<>>, <<>>)
  BY <1>3 DEF NoTwice, Kept
<1> QED BY <1>1, <1>4, <1>5 DEF OnceInv

\* Every step but a reconnect.
LEMMA OnceSteps ==
    ASSUME IInv, OnceInv, Next, ~Reconnect, \A qos \in QoS : mqtt_publish(qos) => Unused(lfsr')
    PROVE  OnceStep
<1>1. ASSUME NEW qos \in QoS, mqtt_publish(qos) PROVE OnceStep
  BY <1>1, OncePublishes
<1>2. CASE mqtt_disconnect \/ \E type \in plan.requests : mqtt_subscribe(type)
  BY <1>2, OnceRequests
<1>3. CASE SyncStart \/ RecvError \/ RecvDone \/ SendSkip \/ SendError \/ KeepAliveCheck \/ Tick
  BY <1>3, OnceSyncs
<1>4. CASE RecvConnack \/ RecvSuback \/ RecvUnsuback \/ RecvPingresp \/ RecvPuback \/ RecvPubcomp
  BY <1>4, OnceReceives
<1>5. CASE RecvPublish
  BY <1>5, OncePublished
<1>6. CASE RecvPubrec
  BY <1>6, OncePubrec
<1>7. CASE RecvPubrel
  BY <1>7, OncePubrel
<1>8. CASE SendMessage
  BY <1>8, OnceSends
<1>9. CASE BrokerRecv
  BY <1>9, OnceBroker
<1>10. CASE (\E qos \in QoS : BrokerPublish(qos)) \/ (\E o \in broker.out : BrokerResend(o))
  BY <1>10, OncePushes
<1>11. CASE HangUp \/ BrokerCloses
  BY <1>11, OnceCloses DEF HangUp, BrokerCloses
<1> QED BY <1>1, <1>2, <1>3, <1>4, <1>5, <1>6, <1>7, <1>8, <1>9, <1>10, <1>11
        DEF Next, mqtt_sync, Recv, Send

\* Every step keeps the invariant.
LEMMA NextOnce ==
    ASSUME IInv, OnceInv, [Next /\ UNCHANGED plan]_<<vars, plan>>, [FreshStep]_<<vars, plan>>
    PROVE  OnceInv'
<1>1. CASE Next /\ FreshStep /\ ~Reconnect
  BY <1>1, OnceSteps DEF FreshStep, OnceStep
<1>2. CASE Reconnect
  BY <1>2, OnceReconnects
<1>3. CASE UNCHANGED <<vars, plan>>
  <2>1. UNCHANGED <<queue, c2b, b2c, conns, broker, staged, delivered>>
    BY <1>3 DEF vars, client, net, history
  <2> QED BY <2>1 DEF OnceInv
<1> QED BY <1>1, <1>2, <1>3

\* Counting what the broker has accepted.
LEMMA Counted ==
    ASSUME NEW s \in Seq(Nat), NEW k
    PROVE  /\ Member(s, k) => Times(s, k) >= 1
           /\ (\A i, j \in DOMAIN s : s[i] = k /\ s[j] = k => i = j) => Times(s, k) \in {0, 1}
           /\ Times(s, k) \in Nat
<1> DEFINE T == {i \in DOMAIN s : s[i] = k}
<1>1. IsFiniteSet(T)
  <2>1. DOMAIN s = 1..Len(s) /\ Len(s) \in Nat
    BY LenProperties
  <2>2. IsFiniteSet(1..Len(s))
    BY <2>1, FS_Interval
  <2> QED BY <2>1, <2>2, FS_Subset
<1>2. Times(s, k) = Cardinality(T)
  BY DEF Times
<1>3. Member(s, k) <=> T # {}
  BY DEF Member
<1>4. (\A i, j \in DOMAIN s : s[i] = k /\ s[j] = k => i = j) => \A i, j \in T : i = j
  OBVIOUS
<1> HIDE DEF T
<1>5. Cardinality(T) \in Nat /\ (Cardinality(T) = 0 <=> T = {})
  BY <1>1, FS_CardinalityType, FS_EmptySet
<1>6. ASSUME \A i, j \in T : i = j PROVE Cardinality(T) \in {0, 1}
  <2>1. CASE T = {}
    BY <2>1, <1>5
  <2>2. CASE T # {}
    <3>1. PICK i \in T : TRUE
      BY <2>2
    <3>2. T = {i}
      BY <3>1, <1>6
    <3> QED BY <3>2, FS_Singleton
  <2> QED BY <2>1, <2>2
<1> QED BY <1>2, <1>3, <1>4, <1>5, <1>6

\* ExactlyOnce and NeverLost follow.
LEMMA OnceCounted ==
    ASSUME IInv, OnceInv
    PROVE  ExactlyOnce /\ NeverLost
<1>1. /\ delivered \in Seq(Nat) /\ QueueInOrder(queue, staged)
      /\ NoTwice(staged, delivered) /\ Finished(queue, delivered)
      /\ conns = 1 => Kept(queue, staged, delivered)
  BY DEF IInv, Shape, HistShape, OrderInv, OrderOK, OnceInv, OnceOK
<1>2. ASSUME NEW k, staged[k] = 2 PROVE Times(delivered, k) \in {0, 1}
  <2>1. \A i, j \in DOMAIN delivered : delivered[i] = k /\ delivered[j] = k => i = j
    BY <1>1, <1>2 DEF NoTwice
  <2> QED BY <2>1, <1>1, Counted
<1>3. ASSUME NEW i \in DOMAIN queue, queue[i].type = "PUBLISH", queue[i].qos = 2,
             queue[i].state = "COMPLETE"
      PROVE  Times(delivered, queue[i].id) = 1
  <2>1. staged[queue[i].id] = 2
    BY <1>1, <1>3 DEF QueueInOrder, IsPublish
  <2>2. Member(delivered, queue[i].id)
    BY <1>1, <1>3 DEF Finished, HasPid, IsPublish
  <2>3. Times(delivered, queue[i].id) >= 1
    BY <2>2, <1>1, Counted
  <2> QED BY <2>1, <2>3, <1>2
<1>4. ExactlyOnce
  BY <1>2, <1>3 DEF ExactlyOnce
<1>5. NeverLost
  <2> SUFFICES ASSUME NEW k \in DOMAIN staged, staged[k] > 0, conns = 1
               PROVE  \/ Times(delivered, k) >= 1
                      \/ \E i \in DOMAIN queue : /\ queue[i].type = "PUBLISH" /\ queue[i].id = k
                                                 /\ queue[i].state # "COMPLETE"
    BY DEF NeverLost
  <2>1. CASE Member(delivered, k)
    BY <2>1, <1>1, Counted
  <2>2. CASE ~Member(delivered, k)
    BY <2>2, <1>1 DEF Kept, IsPub
  <2> QED BY <2>1, <2>2
<1> QED BY <1>4, <1>5

\* OneQos2AtATime follows, too: a message that was not accepted is still queued and
\* open, and one that is open was not passed by a younger QoS 2 message.
LEMMA OneAtATimeCounted ==
    ASSUME IInv, OnceInv
    PROVE  OneQos2AtATime
<1>1. /\ delivered \in Seq(Nat) /\ staged \in Seq(QoS)
      /\ QueueInOrder(queue, staged) /\ SentInOrder(queue, staged, c2b, delivered)
      /\ Known(staged, c2b, delivered) /\ NoTwice(staged, delivered)
      /\ conns = 1 => Kept(queue, staged, delivered)
  BY DEF IInv, Shape, HistShape, OrderInv, OrderOK, OnceInv
<1> SUFFICES ASSUME conns = 1, NEW i \in DOMAIN c2b, c2b[i].type = "PUBLISH", c2b[i].qos = 2,
                    NEW k \in 1..(c2b[i].id - 1), staged[k] = 2
             PROVE  Times(delivered, k) = 1
  BY DEF OneQos2AtATime
<1>2. c2b[i].id \in DOMAIN staged /\ staged[c2b[i].id] = 2
  BY <1>1 DEF Known, IsPublish
<1>3. k \in DOMAIN staged /\ c2b[i].id > k
  <2>1. PICK n \in Nat : n = c2b[i].id /\ n \in 1..Len(staged)
    BY <1>1, <1>2, LenProperties
  <2>2. Len(staged) \in Nat /\ DOMAIN staged = 1..Len(staged)
    BY <1>1, LenProperties
  <2>3. k \in 1..(n - 1)
    BY <2>1
  <2> QED BY ONLY <2>1, <2>2, <2>3
<1>4. Under(c2b[i].id, c2b, delivered)
  BY DEF Under, IsPub
<1>5. Member(delivered, k)
  <2> SUFFICES ASSUME ~Member(delivered, k) PROVE FALSE
    OBVIOUS
  <2>1. PICK j \in DOMAIN queue : IsPub(queue[j], k) /\ queue[j].state # "COMPLETE"
    BY <1>1, <1>3 DEF Kept
  <2>2. queue[j].id = k /\ queue[j].qos = 2 /\ Passed(queue[j], staged, c2b, delivered)
    BY <1>1, <2>1 DEF IsPub, IsPublish, QueueInOrder, SentInOrder
  <2> QED BY <1>2, <1>3, <1>4, <2>1, <2>2 DEF Passed
<1>6. \A a, b \in DOMAIN delivered : delivered[a] = k /\ delivered[b] = k => a = b
  BY <1>1 DEF NoTwice
<1>7. Times(delivered, k) >= 1 /\ Times(delivered, k) \in {0, 1}
  BY <1>1, <1>5, <1>6, Counted
<1> QED BY <1>7

\* The invariant holds as long as messages get unused identifiers.
THEOREM OnceInvariant == Spec /\ FreshIds => []OnceInv
<1>1. Init => OnceInv
  BY InitOnce
<1>2. /\ IInv /\ OnceInv /\ [Next /\ UNCHANGED plan]_<<vars, plan>> /\ [FreshStep]_<<vars, plan>>
      => OnceInv'
  BY NextOnce
<1> QED BY <1>1, <1>2, Invariant, PTL DEF Spec, FreshIds

\* A QoS 2 message that mqtt_publish staged is accepted at most once, and exactly once
\* when the client regards it as COMPLETE, as long as messages get unused identifiers.
THEOREM AcceptedOnce == Spec /\ FreshIds => []ExactlyOnce
<1>1. IInv /\ OnceInv => ExactlyOnce
  BY OnceCounted
<1> QED BY <1>1, Invariant, OnceInvariant, PTL

\* mqtt_mq_clean drops no QoS 1 or 2 message that the broker has not accepted, as long
\* as messages get unused identifiers.
THEOREM NoneLost == Spec /\ FreshIds => []NeverLost
<1>1. IInv /\ OnceInv => NeverLost
  BY OnceCounted
<1> QED BY <1>1, Invariant, OnceInvariant, PTL

\* A QoS 2 message is not sent before the broker has accepted those staged before it,
\* as long as messages get unused identifiers.
THEOREM OneAtATime == Spec /\ FreshIds => []OneQos2AtATime
<1>1. IInv /\ OnceInv => OneQos2AtATime
  BY OneAtATimeCounted
<1> QED BY <1>1, Invariant, OnceInvariant, PTL

-----------------------------------------------------------------------------
(* Identifiers are unused before they wrap.                                 *)

\* pid_lfsr passes no identifier of this connection a second time.
NoWrapStep ==
    (\E qos \in QoS : mqtt_publish(qos)) \/ (\E type \in plan.requests : mqtt_subscribe(type))
        => lfsr' > lfsr
NoWrap == [][NoWrapStep]_<<vars, plan>>

\* An identifier above all those in use is unused.
LEMMA AboveIsUnused ==
    ASSUME IInv, Below(lfsr), NEW qos \in QoS, mqtt_publish(qos), lfsr' > lfsr
    PROVE  Unused(lfsr')
<1> DEFINE p == lfsr'
<1>1. p \in Nat /\ lfsr \in Nat
  <2>1. PICK k \in __mqtt_next_pid : lfsr' = k
    BY DEF mqtt_publish
  <2> QED BY <2>1 DEF __mqtt_next_pid, Pids, IInv, Shape, ClientShape
<1>2. p > lfsr
  OBVIOUS
<1> HIDE DEF p
<1>3. \A x \in Nat : x <= lfsr => x # p
  BY <1>1, <1>2
<1>4. BelowOK(queue, b2c, c2b, broker.seen2, lfsr)
  BY DEF Below
<1>5. p \notin broker.seen2
  BY <1>1, <1>2, <1>4 DEF BelowOK
<1>6. \A i \in DOMAIN c2b : HasPid(c2b[i]) \/ c2b[i].type = "PUBREL" => c2b[i].pid # p
  BY <1>1, <1>2, <1>4 DEF BelowOK, HasPid, IsPublish, Owned
<1>7. \A i \in DOMAIN b2c : b2c[i].type \in {"PUBACK", "PUBREC"} => b2c[i].pid # p
  BY <1>1, <1>2, <1>4 DEF BelowOK
<1>8. Untouched(b2c, c2b, broker.seen2, p)
  BY <1>5, <1>6, <1>7 DEF Untouched
<1> QED BY <1>8 DEF Unused, p

\* A bound on the identifiers in use may be raised.
LEMMA BelowMore ==
    ASSUME IInv, NEW n \in Nat, NEW k \in Nat, n <= k, Below(n)
    PROVE  Below(k)
<1>1. \A x \in Nat : x <= n => x <= k
  OBVIOUS
<1>2. /\ \A i \in DOMAIN queue : queue[i].pid \in Nat
      /\ \A i \in DOMAIN c2b : c2b[i].pid \in Nat
      /\ \A i \in DOMAIN b2c : b2c[i].pid \in Nat
      /\ \A x \in broker.seen2 : x \in Nat
  <2>1. \A i \in DOMAIN queue : queue[i].pid \in Nat
    BY ElementOfSeq, LenProperties, MessageFields DEF IInv, Shape, QueueShape
  <2>2. \A i \in DOMAIN c2b : c2b[i].pid \in Nat
    <3>1. c2b \in Seq(ToBroker) /\ DOMAIN c2b = 1..Len(c2b)
      BY LenProperties DEF IInv, Shape, NetShape
    <3>2. \A p \in ToBroker : p.pid \in Nat
      BY ClientAssumption DEF ToBroker
    <3> QED BY <3>1, <3>2, ElementOfSeq
  <2>3. \A i \in DOMAIN b2c : b2c[i].pid \in Nat
    <3>1. b2c \in Seq(ToClient) /\ DOMAIN b2c = 1..Len(b2c)
      BY LenProperties DEF IInv, Shape, NetShape
    <3>2. \A p \in ToClient : p.pid \in Nat
      BY ClientAssumption DEF ToClient
    <3> QED BY <3>1, <3>2, ElementOfSeq
  <2>4. \A x \in broker.seen2 : x \in Nat
    BY DEF IInv, Shape, BrokerShape, Session
  <2> QED BY <2>1, <2>2, <2>3, <2>4
<1> QED BY <1>1, <1>2 DEF Below, BelowOK

\* Only requests move pid_lfsr, and a reconnect.
LEMMA RegisterMoves ==
    ASSUME Next, ~Reconnect, UNCHANGED plan
    PROVE  \/ UNCHANGED lfsr
           \/ \E qos \in QoS : mqtt_publish(qos)
           \/ \E type \in plan.requests : mqtt_subscribe(type)
BY DEF Next, mqtt_sync, Recv, Send, mqtt_disconnect, SyncStart, RecvConnack, RecvPublish,
       RecvPuback, RecvPubrec, RecvPubrel, RecvPubcomp, RecvSuback, RecvUnsuback,
       RecvPingresp, RecvError, RecvDone, Receives, SendSkip, SendMessage, SendError,
       KeepAliveCheck, BrokerRecv, BrokerPublish, BrokerResend, Tick, HangUp,
       BrokerCloses, Closes, client

\* As long as pid_lfsr does not wrap, a step takes an unused identifier and stays
\* above those in use.
LEMMA NextBelow ==
    ASSUME IInv, OnceInv, Below(lfsr),
           [Next /\ UNCHANGED plan]_<<vars, plan>>, [NoWrapStep]_<<vars, plan>>
    PROVE  [FreshStep]_<<vars, plan>> /\ OnceInv' /\ Below(lfsr)'
<1>1. IInv' /\ lfsr \in Nat /\ lfsr' \in Nat
  BY NextIInv DEF IInv, Shape, ClientShape
<1>2. CASE Next /\ UNCHANGED plan /\ NoWrapStep
  <2>1. ASSUME NEW qos \in QoS, mqtt_publish(qos) PROVE Unused(lfsr')
    <3>1. lfsr' > lfsr
      BY <1>2, <2>1 DEF NoWrapStep
    <3> QED BY <2>1, <3>1, AboveIsUnused
  <2>2. FreshStep
    BY <2>1 DEF FreshStep
  <2>3. CASE Reconnect
    <3>1. OnceInv' /\ \A n : Below(n)'
      BY <2>3, OnceReconnects
    <3>2. Below(lfsr)'
      BY <3>1 DEF Below
    <3> QED BY <2>2, <3>1, <3>2
  <2>4. CASE ~Reconnect
    <3>1. OnceStep
      BY <1>2, <2>1, <2>4, OnceSteps
    <3>2. lfsr <= lfsr'
      BY <1>1, <1>2, <2>4, RegisterMoves DEF NoWrapStep
    <3>3. PICK k \in Nat : k = lfsr'
      BY <1>1
    <3>4. lfsr <= k /\ lfsr' <= k
      BY <1>1, <3>2, <3>3
    <3>5. Below(k)
      BY <1>1, <3>3, <3>4, BelowMore
    <3>6. Below(k)'
      BY <3>1, <3>4, <3>5 DEF OnceStep
    <3>7. Below(lfsr)'
      BY <3>3, <3>6 DEF Below
    <3> QED BY <2>2, <3>1, <3>7 DEF OnceStep
  <2> QED BY <2>3, <2>4
<1>3. CASE UNCHANGED <<vars, plan>>
  <2>1. UNCHANGED <<queue, c2b, b2c, conns, broker, staged, delivered, lfsr>>
    BY <1>3 DEF vars, client, net, history
  <2> QED BY <1>3, <2>1 DEF OnceInv, Below
<1> QED BY <1>2, <1>3

\* Until pid_lfsr wraps in a connection, messages get unused identifiers.
THEOREM FreshBeforeWrap == Spec /\ NoWrap => FreshIds
<1>1. Init => OnceInv /\ Below(lfsr)
  <2>1. ASSUME Init PROVE Below(lfsr)
    <3> DEFINE m == Msg("CONNECT", 0, 0, 0)
    <3>1. queue = <<m>> /\ c2b = <<>> /\ b2c = <<>> /\ broker.seen2 = {}
      BY <2>1 DEF Init, BrokerInit
    <3>2. ~Owned(m)
      BY DEF Msg, Owned
    <3> HIDE DEF m
    <3> QED BY <3>1, <3>2, NothingBelow DEF Below
  <2> QED BY <2>1, InitOnce
<1>2. /\ IInv /\ OnceInv /\ Below(lfsr)
      /\ [Next /\ UNCHANGED plan]_<<vars, plan>> /\ [NoWrapStep]_<<vars, plan>>
      => [FreshStep]_<<vars, plan>> /\ OnceInv' /\ Below(lfsr)'
  BY NextBelow
<1> DEFINE Inv == OnceInv /\ Below(lfsr)
<1>3. Init => Inv
  BY <1>1
<1>4. /\ IInv /\ Inv
      /\ [Next /\ UNCHANGED plan]_<<vars, plan>> /\ [NoWrapStep]_<<vars, plan>>
      => [FreshStep]_<<vars, plan>> /\ Inv'
  BY <1>2
<1> HIDE DEF Inv
<1> QED BY <1>3, <1>4, Invariant, PTL DEF Spec, NoWrap, FreshIds

-----------------------------------------------------------------------------
(* When identifiers do not wrap.                                            *)

\* A record without an identifier, as the model counts it, and queues of such records.
PidOK(m)   == m.type \in Unidentified => m.pid = 0
NoPid(q)   == \A i \in DOMAIN q : PidOK(q[i])

\* A request moves pid_lfsr past the records in the queue, at most.
Stride == QueueCap + 1

\* The requests that a plan allows, and as many identifiers as they may take.
Requested(pl) == pl.pub[0] + pl.pub[1] + pl.pub[2] + Cardinality(pl.requests)
EnoughPids    == \A pl \in Plans : Requested(pl) * Stride <= NPid

\* The requests made so far; the one that meets a full buffer leaves an error behind.
Asked(a, r) == Cardinality(a \cap r)
Spent       == Times(staged, 0) + Times(staged, 1) + Times(staged, 2) + Asked(asked, plan.requests)
Refused     == IF error = "OK" THEN 0 ELSE 1

FewInv ==
    /\ NoPid(queue)
    /\ \A k \in QoS : Times(staged, k) <= plan.pub[k]
    /\ lfsr <= (Spent + Refused) * Stride

\* A queue keeps its records without identifiers when a step adds none with one.
LEMMA NoPidMoves ==
    ASSUME NEW q \in Seq(Message), NoPid(q), NEW r, NEW C, NEW ms, QStep(q, r, C, ms),
           ms = <<>> \/ \E m \in Message : ms = <<m>> /\ PidOK(m)
    PROVE  NoPid(r)
<1>1. Len(q) \in Nat /\ DOMAIN q = 1..Len(q) /\ r \in Seq(Message) /\ Len(r) \in Nat
      /\ DOMAIN r = 1..Len(r)
  BY LenProperties DEF QStep
<1>2. PICK d \in 0..Len(q) : Moved(q, r, d, ms)
  BY DEF QStep
<1>3. /\ Len(r) = Len(q) - d + Len(ms)
      /\ \A i \in 1..(Len(q) - d) : Same(q[d + i], r[i])
      /\ \A i \in 1..Len(ms) : r[Len(q) - d + i] = ms[i]
  BY <1>2 DEF Moved
<1>4. ASSUME NEW i \in 1..(Len(q) - d) PROVE PidOK(r[i])
  <2>1. d + i \in 1..Len(q) /\ Same(q[d + i], r[i])
    BY <1>1, <1>3
  <2> QED BY <1>1, <2>1 DEF NoPid, PidOK, Same
<1>5. CASE ms = <<>>
  <2>1. Len(r) = Len(q) - d
    BY <1>1, <1>3, <1>5
  <2> QED BY <1>1, <1>4, <2>1 DEF NoPid
<1>6. ASSUME NEW m \in Message, ms = <<m>>, PidOK(m) PROVE NoPid(r)
  <2>1. Len(ms) = 1 /\ ms[1] = m
    BY <1>6
  <2>2. Len(r) = Len(q) - d + 1 /\ r[Len(q) - d + 1] = m
    BY <1>1, <1>3, <2>1
  <2>3. \A i \in 1..Len(r) : i \in 1..(Len(q) - d) \/ i = Len(q) - d + 1
    BY <1>1, <2>2
  <2> QED BY <1>1, <1>4, <1>6, <2>2, <2>3 DEF NoPid
<1> QED BY <1>5, <1>6

\* MQTT_CLIENT_TRY_PACK.
LEMMA NoPidPacks ==
    ASSUME NEW q \in Seq(Message), Len(q) <= QueueCap, NoPid(q), NEW m \in Message, PidOK(m)
    PROVE  NoPid(TryPack(q, m).queue)
<1>1. PICK r : r = TryPack(q, m).queue
  OBVIOUS
<1>2. QStep(q, r, {}, <<m>>) \/ QStep(q, r, {}, <<>>)
  BY <1>1, TryPackSteps
<1> QED BY <1>1, <1>2, NoPidMoves

\* A message becomes COMPLETE.
LEMMA NoPidCompletes ==
    ASSUME NEW q \in Seq(Message), Len(q) <= QueueCap, NoPid(q), NEW i \in DOMAIN q
    PROVE  /\ NoPid(Complete(q, i)) /\ Complete(q, i) \in Seq(Message)
           /\ Len(Complete(q, i)) <= QueueCap
<1>1. QStep(q, Complete(q, i), {i}, <<>>)
  BY CompleteSteps
<1> QED BY <1>1, NoPidMoves DEF QStep

\* The messages of the client.
LEMMA MadeMessages ==
    /\ \A t \in Unidentified : Msg(t, 0, 0, 0) \in Message /\ PidOK(Msg(t, 0, 0, 0))
    /\ \A t \in Types \ Unidentified, p \in 0..NPid, k \in QoS, n \in Nat :
          Msg(t, p, k, n) \in Message /\ PidOK(Msg(t, p, k, n))
<1>1. Unidentified \subseteq Types /\ 0 \in 0..NPid /\ 0 \in QoS /\ 0 \in Nat
  BY ClientAssumption DEF Types, QoS
<1> QED BY <1>1, NewMessage DEF PidOK

\* Every step keeps the records without identifiers.
LEMMA NextNoPid ==
    ASSUME IInv, NoPid(queue), Next
    PROVE  NoPid(queue')
<1>1. /\ queue \in Seq(Message) /\ Len(queue) <= QueueCap /\ Len(queue) \in Nat
      /\ DOMAIN queue = 1..Len(queue) /\ b2c \in Seq(ToClient) /\ staged \in Seq(QoS)
      /\ Len(staged) \in Nat /\ 0 \in QoS /\ 0 \in Nat
  BY LenProperties DEF IInv, Shape, QueueShape, NetShape, HistShape, QoS
<1>2. ASSUME NEW m \in Message, PidOK(m), Stage(m) PROVE NoPid(queue')
  BY <1>1, <1>2, NoPidPacks DEF Stage
<1>3. ASSUME NEW q \in Seq(Message), Len(q) <= QueueCap, NoPid(q), NEW m \in Message, PidOK(m),
             Answer(q, m)
      PROVE  NoPid(queue')
  <2>1. queue' = TryPack(q, m).queue \/ queue' = q
    BY <1>3 DEF Answer
  <2> QED BY <1>3, <2>1, NoPidPacks
<1>4. ASSUME NEW i \in DOMAIN queue PROVE NoPid(Complete(queue, i))
  BY <1>1, <1>4, NoPidCompletes
<1>5. \A type, pid : FindPid(type, pid) \subseteq DOMAIN queue /\ FindOpen(type) \subseteq DOMAIN queue
  BY DEF FindPid, FindOpen
<1>6. ASSUME NEW type, Receives(type) PROVE Head(b2c) \in ToClient /\ Head(b2c).pid \in 0..NPid
  <2>1. Head(b2c) \in ToClient
    BY <1>1, <1>6, HeadTailProperties DEF Receives
  <2> QED BY <2>1 DEF ToClient
<1>7. ASSUME NEW qos \in QoS, mqtt_publish(qos) PROVE NoPid(queue')
  <2>1. PICK p \in __mqtt_next_pid : Stage(Msg("PUBLISH", p, qos, Len(staged) + 1))
    BY <1>7 DEF mqtt_publish
  <2>2. p \in 0..NPid /\ Len(staged) + 1 \in Nat /\ "PUBLISH" \in Types \ Unidentified
    BY <1>1, <2>1 DEF __mqtt_next_pid, Pids, Types, Unidentified
  <2> QED BY <1>2, <2>1, <2>2, MadeMessages
<1>8. ASSUME NEW type \in plan.requests, mqtt_subscribe(type) PROVE NoPid(queue')
  <2>1. PICK p \in __mqtt_next_pid : Stage(Msg(type, p, 0, 0))
    BY <1>8 DEF mqtt_subscribe
  <2>2. type \in {"SUBSCRIBE", "UNSUBSCRIBE"}
    BY ClientAssumption DEF IInv, Shape, BrokerShape, PlanType
  <2>3. p \in 0..NPid /\ type \in Types \ Unidentified
    BY <2>1, <2>2 DEF __mqtt_next_pid, Pids, Types, Unidentified
  <2> QED BY <1>1, <1>2, <2>1, <2>3, MadeMessages
<1>9. ASSUME mqtt_disconnect PROVE NoPid(queue')
  <2>1. Stage(Msg("DISCONNECT", 0, 0, 0)) /\ "DISCONNECT" \in Unidentified
    BY <1>9 DEF mqtt_disconnect, Unidentified
  <2> QED BY <1>2, <2>1, MadeMessages
<1>10. ASSUME RecvConnack \/ RecvSuback \/ RecvPuback \/ RecvPubcomp \/ RecvUnsuback \/ RecvPingresp
       PROVE  NoPid(queue')
  <2>1. queue' = queue \/ \E i \in DOMAIN queue : queue' = Complete(queue, i)
    BY <1>5, <1>10 DEF RecvConnack, RecvSuback, RecvPuback, RecvPubcomp, RecvUnsuback,
                       RecvPingresp, Release, Unknown
  <2> QED BY <1>4, <2>1
<1>11. ASSUME RecvPublish PROVE NoPid(queue')
  <2> DEFINE p == Head(b2c)
  <2>1. p.pid \in 0..NPid
    BY <1>6, <1>11 DEF RecvPublish
  <2> HIDE DEF p
  <2>2. \/ UNCHANGED queue \/ Answer(queue, Msg("PUBACK", p.pid, 0, 0))
        \/ Answer(queue, Msg("PUBREC", p.pid, 0, 0))
    BY <1>11 DEF RecvPublish, p
  <2>3. {"PUBACK", "PUBREC"} \subseteq Types \ Unidentified
    BY DEF Types, Unidentified
  <2> QED BY <1>1, <1>3, <2>1, <2>2, <2>3, MadeMessages
<1>12. ASSUME RecvPubrec PROVE NoPid(queue')
  <2> DEFINE pid == Head(b2c).pid
  <2>1. pid \in 0..NPid
    BY <1>6, <1>12 DEF RecvPubrec
  <2> HIDE DEF pid
  <2>2. \/ UNCHANGED queue
        \/ \E i \in FindPid("PUBLISH", pid) :
              Answer(Complete(queue, i), Msg("PUBREL", pid, 0, queue[i].id))
    BY <1>12 DEF RecvPubrec, pid, Unknown
  <2>3. ASSUME NEW i \in FindPid("PUBLISH", pid),
               Answer(Complete(queue, i), Msg("PUBREL", pid, 0, queue[i].id))
        PROVE  NoPid(queue')
    <3>1. i \in DOMAIN queue /\ queue[i].id \in Nat
      BY <1>1, <1>5, ElementOfSeq, MessageFields
    <3>2. /\ NoPid(Complete(queue, i)) /\ Complete(queue, i) \in Seq(Message)
          /\ Len(Complete(queue, i)) <= QueueCap
      BY <1>1, <3>1, NoPidCompletes
    <3>3. "PUBREL" \in Types \ Unidentified
      BY DEF Types, Unidentified
    <3>4. /\ Msg("PUBREL", pid, 0, queue[i].id) \in Message
          /\ PidOK(Msg("PUBREL", pid, 0, queue[i].id))
      BY <1>1, <2>1, <3>1, <3>3, MadeMessages
    <3> QED BY <1>3, <2>3, <3>2, <3>4
  <2> QED BY <2>2, <2>3
<1>13. ASSUME RecvPubrel PROVE NoPid(queue')
  <2> DEFINE pid == Head(b2c).pid
  <2>1. pid \in 0..NPid
    BY <1>6, <1>13 DEF RecvPubrel
  <2> HIDE DEF pid
  <2>2. \/ UNCHANGED queue
        \/ \E i \in FindPid("PUBREC", pid) :
              Answer(Complete(queue, i), Msg("PUBCOMP", pid, 0, 0))
    BY <1>13 DEF RecvPubrel, pid, Unknown
  <2>3. ASSUME NEW i \in FindPid("PUBREC", pid),
               Answer(Complete(queue, i), Msg("PUBCOMP", pid, 0, 0))
        PROVE  NoPid(queue')
    <3>1. i \in DOMAIN queue
      BY <1>5
    <3>2. /\ NoPid(Complete(queue, i)) /\ Complete(queue, i) \in Seq(Message)
          /\ Len(Complete(queue, i)) <= QueueCap
      BY <1>1, <3>1, NoPidCompletes
    <3>3. "PUBCOMP" \in Types \ Unidentified
      BY DEF Types, Unidentified
    <3>4. Msg("PUBCOMP", pid, 0, 0) \in Message /\ PidOK(Msg("PUBCOMP", pid, 0, 0))
      BY <1>1, <2>1, <3>3, MadeMessages
    <3> QED BY <1>3, <2>3, <3>2, <3>4
  <2> QED BY <2>2, <2>3
<1>14. ASSUME SendMessage PROVE NoPid(queue')
  <2> DEFINE m == queue[pc.i]
             n == [m EXCEPT !.state = StateAfterSend(m), !.age = 0,
                            !.dup = m.dup \/ (m.type = "PUBLISH" /\ m.qos = 1)]
  <2>1. queue' = [queue EXCEPT ![pc.i] = n]
    BY <1>14 DEF SendMessage
  <2>2. pc.i \in DOMAIN queue
    BY <1>1, <1>14 DEF SendMessage, Sending, IInv, Shape, ClientShape, Place
  <2>3. m \in Message
    BY <1>1, <2>2, ElementOfSeq
  <2>4. n.type = m.type /\ n.pid = m.pid
    BY <2>3 DEF Message
  <2> HIDE DEF n
  <2>5. DOMAIN queue' = DOMAIN queue /\ \A i \in DOMAIN queue : queue'[i] = IF i = pc.i THEN n ELSE queue[i]
    BY <2>1
  <2> QED BY <2>4, <2>5 DEF NoPid, PidOK
<1>15. ASSUME KeepAliveCheck PROVE NoPid(queue')
  <2>1. UNCHANGED queue \/ queue' = TryPack(queue, Msg("PINGREQ", 0, 0, 0)).queue
    BY <1>15 DEF KeepAliveCheck
  <2>2. "PINGREQ" \in Unidentified
    BY DEF Unidentified
  <2> QED BY <1>1, <2>1, <2>2, MadeMessages, NoPidPacks
<1>16. ASSUME Tick PROVE NoPid(queue')
  BY <1>1, <1>16, TickSteps, NoPidMoves
<1>17. ASSUME Reconnect PROVE NoPid(queue')
  <2> DEFINE m == Msg("CONNECT", 0, 0, 0)
  <2>1. queue' = <<m>> /\ PidOK(m)
    BY <1>17, MadeMessages DEF Reconnect, Unidentified
  <2> HIDE DEF m
  <2>2. \A i \in DOMAIN queue' : queue'[i] = m
    BY <2>1
  <2> QED BY <2>1, <2>2 DEF NoPid
<1>18. ASSUME SyncStart \/ RecvError \/ RecvDone \/ SendSkip \/ SendError \/ HangUp
              \/ BrokerCloses \/ BrokerRecv \/ (\E qos \in QoS : BrokerPublish(qos))
              \/ (\E o \in broker.out : BrokerResend(o))
       PROVE  UNCHANGED queue
  BY <1>18 DEF SyncStart, RecvError, RecvDone, SendSkip, SendError, HangUp, BrokerRecv,
               BrokerPublish, BrokerResend, BrokerCloses, Closes, client
<1> QED
  BY <1>7, <1>8, <1>9, <1>10, <1>11, <1>12, <1>13, <1>14, <1>15, <1>16, <1>17, <1>18
     DEF Next, mqtt_sync, Recv, Send

\* Only a request of the application moves pid_lfsr and counts, or a reconnect; and an
\* error is there until the reconnect.
LEMMA OthersSpendNothing ==
    ASSUME Next, ~Reconnect, IInv, UNCHANGED plan
    PROVE  /\ error # "OK" => error' # "OK" /\ UNCHANGED <<lfsr, staged>>
                                            /\ Asked(asked', plan.requests) = Asked(asked, plan.requests)
           /\ \/ /\ UNCHANGED <<lfsr, staged>>
                 /\ Asked(asked', plan.requests) = Asked(asked, plan.requests)
              \/ \E qos \in QoS : mqtt_publish(qos)
              \/ \E type \in plan.requests : mqtt_subscribe(type)
<1>1. CASE mqtt_disconnect
  <2>1. "DISCONNECT" \notin plan.requests
    BY ClientAssumption DEF IInv, Shape, BrokerShape, PlanType
  <2>2. asked' \cap plan.requests = asked \cap plan.requests
    BY <1>1, <2>1 DEF mqtt_disconnect
  <2> QED BY <1>1, <2>2 DEF mqtt_disconnect, Asked
<1>2. CASE \E qos \in QoS : mqtt_publish(qos)
  BY <1>2 DEF mqtt_publish
<1>3. CASE \E type \in plan.requests : mqtt_subscribe(type)
  BY <1>3 DEF mqtt_subscribe
<1>4. CASE \/ mqtt_sync \/ BrokerRecv \/ Tick \/ HangUp \/ BrokerCloses
           \/ \E qos \in QoS : BrokerPublish(qos)
           \/ \E o \in broker.out : BrokerResend(o)
  <2>1. UNCHANGED <<lfsr, staged, asked>>
    BY <1>4 DEF mqtt_sync, Recv, Send, SyncStart, RecvConnack, RecvPublish,
       RecvPuback, RecvPubrec, RecvPubrel, RecvPubcomp, RecvSuback, RecvUnsuback,
       RecvPingresp, RecvError, RecvDone, Receives, SendSkip, SendMessage, SendError,
       KeepAliveCheck, BrokerRecv, BrokerPublish, BrokerResend, Tick, HangUp,
       BrokerCloses, Closes, client, history
  <2>2. error # "OK" => error' # "OK"
    <3>1. CASE Recv
      BY <3>1 DEF Recv, RecvConnack, RecvPublish, RecvPuback, RecvPubrec, RecvPubrel,
                  RecvPubcomp, RecvSuback, RecvUnsuback, RecvPingresp, RecvError, RecvDone,
                  Release, Unknown, Goes, Fail, Answer
    <3>2. CASE Send \/ SyncStart
      BY <3>2 DEF Send, SyncStart, SendSkip, SendMessage, SendError, KeepAliveCheck, Fail
    <3>3. CASE \/ BrokerRecv \/ Tick \/ HangUp \/ BrokerCloses
               \/ \E qos \in QoS : BrokerPublish(qos)
               \/ \E o \in broker.out : BrokerResend(o)
      BY <3>3 DEF BrokerRecv, BrokerPublish, BrokerResend, Tick, HangUp, BrokerCloses, Closes,
                  client
    <3> QED BY <1>4, <3>1, <3>2, <3>3 DEF mqtt_sync
  <2> QED BY <2>1, <2>2
<1> QED BY <1>1, <1>2, <1>3, <1>4 DEF Next

\* Counting the records of a queue of which some have an identifier.
LEMMA PidsInUse ==
    ASSUME NEW q \in Seq(Message), NoPid(q)
    PROVE  \E T : /\ \A i \in DOMAIN q : q[i].pid # 0 => q[i].pid \in T
                  /\ IsFiniteSet(T) /\ Cardinality(T) \in Nat
                  /\ LET n == Cardinality({i \in DOMAIN q : q[i].type \in Unidentified})
                     IN  n \in Nat /\ Cardinality(T) + n <= Len(q)
<1> DEFINE D == DOMAIN q
           J == {i \in D : q[i].type \in Unidentified}
           I == D \ J
           T == {q[i].pid : i \in I}
           f == [i \in I |-> q[i].pid]
<1>1. Len(q) \in Nat /\ D = 1..Len(q)
  BY LenProperties
<1>2. IsFiniteSet(D) /\ Cardinality(D) = Len(q)
  <2>1. Cardinality(1..Len(q)) = IF 1 > Len(q) THEN 0 ELSE Len(q) - 1 + 1
    BY <1>1, FS_Interval
  <2>2. IsFiniteSet(1..Len(q))
    BY <1>1, FS_Interval
  <2> QED BY <1>1, <2>1, <2>2
<1>3. J \in SUBSET D
  OBVIOUS
<1>4. IsFiniteSet(J) /\ Cardinality(J) \in Nat
  BY <1>2, <1>3, FS_Subset, FS_CardinalityType
<1>5. IsFiniteSet(I) /\ Cardinality(I) = Len(q) - Cardinality(J)
  <2>1. IsFiniteSet(I) /\ Cardinality(I) = Cardinality(D) - Cardinality(D \cap J)
    BY <1>2, FS_Difference
  <2>2. D \cap J = J
    BY <1>3
  <2> QED BY <1>2, <2>1, <2>2
<1>6. f \in Surjection(I, T)
  BY DEF Surjection
<1>7. IsFiniteSet(T) /\ Cardinality(T) <= Cardinality(I)
  BY <1>5, <1>6, FS_Surjection
<1>8. Cardinality(T) \in Nat
  BY <1>7, FS_CardinalityType
<1>9. \A i \in D : q[i].pid # 0 => q[i].pid \in T
  BY DEF NoPid, PidOK
<1> HIDE DEF J, I, T
<1>10. Cardinality(T) + Cardinality(J) <= Len(q)
  BY <1>1, <1>4, <1>5, <1>7, <1>8
<1> QED BY <1>4, <1>7, <1>8, <1>9, <1>10 DEF J

\* Before the end of the cycle __mqtt_next_pid takes a larger identifier, and not one far
\* away.
LEMMA NextInStride ==
    ASSUME queue \in Seq(Message), Len(queue) <= QueueCap, NoPid(queue), lfsr \in Nat,
           lfsr + Stride <= NPid, NEW p \in __mqtt_next_pid
    PROVE  lfsr < p /\ p <= lfsr + Stride
<1> DEFINE A == (lfsr + 1)..(lfsr + Stride)
           R == {r \in Pids \ UsedPids : Distance(r) < Distance(p)}
<1>1. /\ NPid \in Nat /\ QueueCap \in Nat /\ Stride = QueueCap + 1 /\ Len(queue) \in Nat
      /\ p \in Nat /\ p >= 1 /\ p <= NPid
  BY ClientAssumption, LenProperties DEF Stride, __mqtt_next_pid, Pids
<1>2. Cardinality(R) <= Skips
  BY DEF __mqtt_next_pid
<1>3. PICK T : /\ \A i \in DOMAIN queue : queue[i].pid # 0 => queue[i].pid \in T
               /\ IsFiniteSet(T) /\ Cardinality(T) \in Nat
               /\ Skips \in Nat /\ Cardinality(T) + Skips <= Len(queue)
  BY PidsInUse DEF Skips
<1> SUFFICES ASSUME ~(lfsr < p /\ p <= lfsr + Stride) PROVE FALSE
  OBVIOUS
<1>4. Distance(p) > Stride
  BY <1>1 DEF Distance
<1>5. IsFiniteSet(A) /\ Cardinality(A) = Stride
  <2>1. lfsr + 1 \in Int /\ lfsr + Stride \in Int
    BY <1>1
  <2>2. /\ IsFiniteSet(A)
        /\ Cardinality(A) = IF lfsr + 1 > lfsr + Stride THEN 0
                            ELSE (lfsr + Stride) - (lfsr + 1) + 1
    BY <2>1, FS_Interval
  <2> QED BY <1>1, <2>2
<1>6. A \ T \subseteq R
  <2> SUFFICES ASSUME NEW r \in A, r \notin T PROVE r \in R
    OBVIOUS
  <2>1. r \in Nat /\ r > lfsr /\ r <= lfsr + Stride /\ r # 0
    BY <1>1
  <2>2. r \in Pids
    BY <1>1, <2>1 DEF Pids
  <2>3. r \notin UsedPids
    BY <1>3, <2>1 DEF UsedPids
  <2>4. Distance(r) <= Stride
    BY <1>1, <2>1 DEF Distance
  <2>5. Distance(r) \in Int /\ Distance(p) \in Int
    BY <1>1, <2>1 DEF Distance
  <2>6. Distance(r) < Distance(p)
    BY <1>1, <1>4, <2>4, <2>5
  <2> QED BY <2>2, <2>3, <2>6
<1>7. IsFiniteSet(R)
  <2>1. IsFiniteSet(Pids)
    BY <1>1, FS_Interval DEF Pids
  <2>2. R \in SUBSET Pids
    OBVIOUS
  <2> QED BY <2>1, <2>2, FS_Subset
<1> HIDE DEF A, R
<1>8. IsFiniteSet(A \ T) /\ Cardinality(A \ T) <= Cardinality(R)
  BY <1>6, <1>7, FS_Subset
<1>9. Cardinality(A \ T) = Cardinality(A) - Cardinality(A \cap T)
  BY <1>5, FS_Difference
<1>10. Cardinality(A \cap T) <= Cardinality(T)
  BY <1>3, FS_Intersection
<1>11. Cardinality(A \cap T) \in Nat /\ Cardinality(R) \in Nat
  BY <1>3, <1>7, FS_Intersection, FS_CardinalityType
<1> QED BY <1>1, <1>2, <1>3, <1>5, <1>8, <1>9, <1>10, <1>11

\* One message more.
LEMMA TimesAppend ==
    ASSUME NEW s \in Seq(Nat), NEW k \in Nat, NEW x \in Nat
    PROVE  Times(Append(s, k), x) = IF x = k THEN Times(s, x) + 1 ELSE Times(s, x)
<1> DEFINE t == Append(s, k)
           A == {i \in DOMAIN s : s[i] = x}
           B == {i \in DOMAIN t : t[i] = x}
           n == Len(s) + 1
<1>1. /\ Len(s) \in Nat /\ DOMAIN s = 1..Len(s) /\ DOMAIN t = 1..n /\ t[n] = k
      /\ \A i \in 1..Len(s) : t[i] = s[i]
  BY LenProperties, AppendProperties
<1>2. IsFiniteSet(A)
  <2>1. IsFiniteSet(1..Len(s))
    BY <1>1, FS_Interval
  <2> QED BY <1>1, <2>1, FS_Subset
<1>3. n \notin A
  BY <1>1
<1>4. B = IF x = k THEN A \cup {n} ELSE A
  BY <1>1
<1> HIDE DEF A, B, n
<1>5. Cardinality(A \cup {n}) = Cardinality(A) + 1
  BY <1>2, <1>3, FS_AddElement
<1> QED BY <1>4, <1>5 DEF Times, A, B, t

\* One request more.
LEMMA AskedMore ==
    ASSUME NEW a, NEW r, IsFiniteSet(r), NEW x \in r \ a
    PROVE  /\ Asked(a, r) \in Nat /\ Asked(a \cup {x}, r) = Asked(a, r) + 1
           /\ Asked(a, r) + 1 <= Cardinality(r)
<1> DEFINE S == a \cap r
<1>1. IsFiniteSet(S)
  BY FS_Intersection
<1>2. (a \cup {x}) \cap r = S \cup {x} /\ x \notin S /\ S \cup {x} \in SUBSET r
  OBVIOUS
<1> HIDE DEF S
<1>3. Cardinality(S \cup {x}) = Cardinality(S) + 1
  BY <1>1, <1>2, FS_AddElement
<1>4. Cardinality(S \cup {x}) <= Cardinality(r)
  BY <1>2, FS_Subset
<1>5. Cardinality(S) \in Nat
  BY <1>1, FS_CardinalityType
<1> QED BY <1>2, <1>3, <1>4, <1>5 DEF Asked, S

\* Multiples of a number.
LEMMA Multiples ==
    ASSUME NEW n \in Nat, NEW m \in Nat, NEW w \in Nat, n <= m
    PROVE  n * w \in Nat /\ m * w \in Nat /\ n * w <= m * w /\ (n + 1) * w = n * w + w
<1>1. n * w \in Nat /\ m * w \in Nat /\ (n + 1) * w = n * w + w
  OBVIOUS
<1>2. PICK d \in Nat : m = n + d
  <2>1. m - n \in Nat /\ m = n + (m - n)
    OBVIOUS
  <2> QED BY <2>1
<1>3. (n + d) * w = n * w + d * w /\ d * w \in Nat
  OBVIOUS
<1> QED BY <1>1, <1>2, <1>3

\* The types of what is counted.
LEMMA SpentTypes ==
    ASSUME IInv
    PROVE  /\ plan \in Plans /\ plan.pub \in [QoS -> Nat] /\ IsFiniteSet(plan.requests)
           /\ Cardinality(plan.requests) \in Nat /\ staged \in Seq(Nat)
           /\ \A k \in QoS : Times(staged, k) \in Nat
           /\ Asked(asked, plan.requests) \in Nat
           /\ Asked(asked, plan.requests) <= Cardinality(plan.requests)
           /\ Requested(plan) \in Nat /\ Spent \in Nat /\ Stride \in Nat
<1>1. plan \in Plans /\ plan \in PlanType
  BY ClientAssumption DEF IInv, Shape, BrokerShape
<1>2. plan.pub \in [QoS -> Nat] /\ plan.requests \subseteq {"SUBSCRIBE", "UNSUBSCRIBE"}
  BY <1>1 DEF PlanType
<1>3. IsFiniteSet(plan.requests)
  <2>1. IsFiniteSet({"SUBSCRIBE"})
    BY FS_Singleton
  <2>2. IsFiniteSet({"SUBSCRIBE"} \cup {"UNSUBSCRIBE"})
    BY <2>1, FS_AddElement
  <2>3. plan.requests \in SUBSET ({"SUBSCRIBE"} \cup {"UNSUBSCRIBE"})
    BY <1>2
  <2> QED BY <2>2, <2>3, FS_Subset
<1>4. Cardinality(plan.requests) \in Nat
  BY <1>3, FS_CardinalityType
<1>5. staged \in Seq(Nat)
  <2>1. staged \in Seq(QoS)
    BY DEF IInv, Shape, HistShape
  <2>2. QoS \subseteq Nat
    BY DEF QoS
  <2>3. \A i \in 1..Len(staged) : staged[i] \in Nat
    BY <2>1, <2>2, ElementOfSeq
  <2> QED BY <2>1, <2>3, LenProperties
<1>6. \A k \in QoS : Times(staged, k) \in Nat
  BY <1>5, Counted
<1>7. /\ Asked(asked, plan.requests) \in Nat
      /\ Asked(asked, plan.requests) <= Cardinality(plan.requests)
  BY <1>3, FS_Intersection, FS_CardinalityType DEF Asked
<1>8. 0 \in QoS /\ 1 \in QoS /\ 2 \in QoS
  BY DEF QoS
<1>9. Requested(plan) \in Nat
  BY <1>2, <1>4, <1>8 DEF Requested
<1>10. Spent \in Nat
  BY <1>6, <1>7, <1>8 DEF Spent
<1> QED BY <1>1, <1>2, <1>3, <1>4, <1>5, <1>6, <1>7, <1>9, <1>10, ClientAssumption DEF Stride

\* A request finds an identifier further on in the cycle.
LEMMA RequestMoves ==
    ASSUME EnoughPids, IInv, FewInv, error = "OK", Spent + 1 <= Requested(plan),
           NEW p \in __mqtt_next_pid
    PROVE  lfsr < p /\ p <= (Spent + 1) * Stride
<1>1. /\ Requested(plan) \in Nat /\ Spent \in Nat /\ Stride \in Nat /\ plan \in Plans
  BY SpentTypes
<1>2. lfsr \in Nat /\ queue \in Seq(Message) /\ Len(queue) <= QueueCap /\ NPid \in Nat
  BY ClientAssumption DEF IInv, Shape, ClientShape, QueueShape
<1>3. NoPid(queue) /\ lfsr <= (Spent + 0) * Stride
  BY DEF FewInv, Refused
<1>4. Requested(plan) * Stride <= NPid
  BY <1>1 DEF EnoughPids
<1>5. PICK n \in Nat, r \in Nat, w \in Nat : n = Spent /\ r = Requested(plan) /\ w = Stride
  BY <1>1
<1>6. n + 1 \in Nat /\ n + 1 <= r /\ n + 0 = n
  BY <1>5
<1>7. (n + 1) * w <= r * w /\ (n + 1) * w = n * w + w /\ r * w \in Nat /\ n * w \in Nat
  BY ONLY <1>6, Multiples, n \in Nat, r \in Nat, w \in Nat
<1>8. lfsr <= n * w /\ r * w <= NPid
  BY <1>3, <1>4, <1>5, <1>6
<1>9. lfsr + w <= NPid /\ lfsr + w <= (n + 1) * w
  BY ONLY <1>2, <1>7, <1>8, w \in Nat
<1>10. lfsr < p /\ p <= lfsr + Stride
  BY <1>2, <1>3, <1>5, <1>9, NextInStride
<1>11. p \in Nat
  BY <1>2 DEF __mqtt_next_pid, Pids
<1> QED BY <1>2, <1>5, <1>7, <1>9, <1>10, <1>11

\* mqtt_publish.
LEMMA FewPublishes ==
    ASSUME EnoughPids, IInv, FewInv, UNCHANGED plan, NEW qos \in QoS, mqtt_publish(qos)
    PROVE  /\ lfsr' > lfsr /\ lfsr' <= (Spent' + Refused') * Stride
           /\ \A k \in QoS : Times(staged', k) <= plan.pub[k]
<1>1. PICK p \in __mqtt_next_pid : lfsr' = p
  BY DEF mqtt_publish
<1>2. /\ error = "OK" /\ Times(staged, qos) < plan.pub[qos] /\ UNCHANGED asked
      /\ staged' = IF error' = "OK" THEN Append(staged, qos) ELSE staged
  BY DEF mqtt_publish, Times
<1>3. /\ plan.pub \in [QoS -> Nat] /\ staged \in Seq(Nat) /\ qos \in Nat
      /\ \A k \in QoS : Times(staged, k) \in Nat /\ Times(staged, k) <= plan.pub[k]
      /\ Asked(asked, plan.requests) \in Nat
      /\ Asked(asked, plan.requests) <= Cardinality(plan.requests)
      /\ Cardinality(plan.requests) \in Nat /\ Spent \in Nat
  BY SpentTypes DEF FewInv, QoS
<1>4. \A k \in QoS : Times(Append(staged, qos), k)
                        = IF k = qos THEN Times(staged, k) + 1 ELSE Times(staged, k)
  BY <1>3, TimesAppend DEF QoS
<1> DEFINE x(k) == Times(staged, k)
           y(k) == Times(Append(staged, qos), k)
           z    == Asked(asked, plan.requests)
<1>5. qos = 0 \/ qos = 1 \/ qos = 2
  BY DEF QoS
<1>6. /\ x(0) \in Nat /\ x(0) <= plan.pub[0] /\ plan.pub[0] \in Nat
      /\ x(1) \in Nat /\ x(1) <= plan.pub[1] /\ plan.pub[1] \in Nat
      /\ x(2) \in Nat /\ x(2) <= plan.pub[2] /\ plan.pub[2] \in Nat
      /\ y(0) = IF qos = 0 THEN x(0) + 1 ELSE x(0)
      /\ y(1) = IF qos = 1 THEN x(1) + 1 ELSE x(1)
      /\ y(2) = IF qos = 2 THEN x(2) + 1 ELSE x(2)
  <2>1. 0 \in QoS /\ 1 \in QoS /\ 2 \in QoS
    BY DEF QoS
  <2> HIDE DEF x, y
  <2>2. /\ \A k \in QoS : x(k) \in Nat /\ x(k) <= plan.pub[k] /\ plan.pub[k] \in Nat
        /\ \A k \in QoS : y(k) = IF k = qos THEN x(k) + 1 ELSE x(k)
    BY <1>3, <1>4 DEF x, y
  <2> QED BY ONLY <2>1, <2>2
<1>7. x(0) + x(1) + x(2) + z + 1 <= plan.pub[0] + plan.pub[1] + plan.pub[2]
                                        + Cardinality(plan.requests)
  <2>1. x(qos) < plan.pub[qos]
    BY <1>2
  <2>2. z \in Nat /\ z <= Cardinality(plan.requests) /\ Cardinality(plan.requests) \in Nat
    BY <1>3
  <2> HIDE DEF x, z
  <2> QED BY ONLY <1>5, <1>6, <2>1, <2>2
<1>8. Spent + 1 <= Requested(plan)
  BY <1>7 DEF Spent, Requested
<1>9. y(0) + y(1) + y(2) + z = x(0) + x(1) + x(2) + z + 1
  <2>1. z \in Nat
    BY <1>3
  <2> HIDE DEF x, y, z
  <2> QED BY ONLY <1>5, <1>6, <2>1
<1>10. Spent' + Refused' = Spent + 1
  <2>1. CASE error' = "OK"
    <3>1. Refused' = 0
      BY <2>1 DEF Refused
    <3>2. staged' = Append(staged, qos)
      BY <1>2, <2>1
    <3>3. Spent' = y(0) + y(1) + y(2) + z
      BY <1>2, <3>2 DEF Spent
    <3>4. Spent' = Spent + 1
      BY <1>9, <3>3 DEF Spent
    <3> QED BY <1>3, <3>1, <3>4
  <2>2. CASE error' # "OK"
    <3>1. Refused' = 1
      BY <2>2 DEF Refused
    <3>2. Spent' = Spent
      BY <1>2, <2>2 DEF Spent
    <3> QED BY <3>1, <3>2
  <2> QED BY <2>1, <2>2
<1>11. \A k \in QoS : Times(staged', k) <= plan.pub[k]
  BY <1>2, <1>3, <1>4
<1>12. lfsr < p /\ p <= (Spent + 1) * Stride
  BY <1>2, <1>8, RequestMoves
<1>13. lfsr \in Int /\ p \in Int
  BY ClientAssumption DEF IInv, Shape, ClientShape, __mqtt_next_pid, Pids
<1> QED BY <1>1, <1>10, <1>11, <1>12, <1>13

\* mqtt_subscribe and mqtt_unsubscribe.
LEMMA FewSubscribes ==
    ASSUME EnoughPids, IInv, FewInv, UNCHANGED plan, NEW type \in plan.requests,
           mqtt_subscribe(type)
    PROVE  lfsr' > lfsr /\ lfsr' <= (Spent' + Refused') * Stride /\ UNCHANGED staged
<1>1. PICK p \in __mqtt_next_pid : lfsr' = p
  BY DEF mqtt_subscribe
<1>2. /\ error = "OK" /\ type \in plan.requests \ asked
      /\ asked' = asked \cup {type} /\ UNCHANGED staged
  BY DEF mqtt_subscribe
<1>3. /\ plan.pub \in [QoS -> Nat] /\ IsFiniteSet(plan.requests)
      /\ \A k \in QoS : Times(staged, k) \in Nat /\ Times(staged, k) <= plan.pub[k]
      /\ Cardinality(plan.requests) \in Nat /\ Spent \in Nat /\ Stride \in Nat
  BY SpentTypes DEF FewInv
<1>4. /\ Asked(asked, plan.requests) \in Nat
      /\ Asked(asked', plan.requests) = Asked(asked, plan.requests) + 1
      /\ Asked(asked, plan.requests) + 1 <= Cardinality(plan.requests)
  BY <1>2, <1>3, AskedMore
<1>5. QoS = {0, 1, 2}
  BY DEF QoS
<1>6. Spent + 1 <= Requested(plan)
  <2>1. /\ plan.pub[0] \in Nat /\ plan.pub[1] \in Nat /\ plan.pub[2] \in Nat
    BY <1>3, <1>5
  <2> QED BY <1>3, <1>4, <1>5, <2>1 DEF Spent, Requested
<1>7. Spent' = Spent + 1
  BY <1>2, <1>3, <1>4, <1>5 DEF Spent
<1>8. Refused' \in {0, 1}
  BY DEF Refused
<1>9. lfsr < p /\ p <= (Spent + 1) * Stride
  BY <1>2, <1>6, RequestMoves
<1>10. PICK n \in Nat, w \in Nat : n = Spent + 1 /\ w = Stride
  BY <1>3
<1>11. n + Refused' \in Nat /\ n <= n + Refused'
  BY <1>8
<1>12. n * w <= (n + Refused') * w /\ n * w \in Nat /\ (n + Refused') * w \in Nat
  BY ONLY <1>11, Multiples, n \in Nat, w \in Nat
<1>13. lfsr \in Int /\ p \in Int
  BY ClientAssumption DEF IInv, Shape, ClientShape, __mqtt_next_pid, Pids
<1>14. lfsr' <= (n + Refused') * w
  BY <1>1, <1>9, <1>10, <1>12, <1>13
<1>15. n = Spent'
  BY <1>7, <1>10
<1> QED BY <1>1, <1>2, <1>9, <1>10, <1>14, <1>15

\* Where there are enough identifiers, every step stays before the end of the cycle.
LEMMA NextFew ==
    ASSUME EnoughPids, IInv, FewInv, [Next /\ UNCHANGED plan]_<<vars, plan>>
    PROVE  FewInv' /\ [NoWrapStep]_<<vars, plan>>
<1>1. CASE Next /\ UNCHANGED plan
  <2>1. NoPid(queue)'
    BY <1>1, NextNoPid DEF FewInv
  <2>2. NoWrapStep
    BY <1>1, FewPublishes, FewSubscribes DEF NoWrapStep
  <2>3. FewInv'
    <3>1. CASE \E qos \in QoS : mqtt_publish(qos)
      BY <1>1, <2>1, <3>1, FewPublishes DEF FewInv
    <3>2. CASE \E type \in plan.requests : mqtt_subscribe(type)
      BY <1>1, <2>1, <3>2, FewSubscribes DEF FewInv
    <3>3. CASE Reconnect
      <4>1. lfsr' = 0 /\ UNCHANGED <<staged, asked>>
        BY <3>3 DEF Reconnect, history
      <4>2. Spent' = Spent
        BY <1>1, <4>1 DEF Spent
      <4>3. PICK n \in Nat, w \in Nat : n = Spent' + Refused' /\ w = Stride
        BY <4>2, SpentTypes DEF Refused
      <4>4. n * w \in Nat
        OBVIOUS
      <4>5. lfsr' <= (Spent' + Refused') * Stride
        BY <4>1, <4>3, <4>4
      <4> QED BY <1>1, <2>1, <4>1, <4>5 DEF FewInv
    <3>4. CASE /\ ~Reconnect /\ UNCHANGED <<lfsr, staged>>
               /\ Asked(asked', plan.requests) = Asked(asked, plan.requests)
      <4>1. Spent' = Spent
        BY <1>1, <3>4 DEF Spent
      <4>2. Refused \in Nat /\ Refused' \in Nat /\ Refused <= Refused'
        BY <1>1, <3>4, OthersSpendNothing DEF Refused
      <4>3. PICK n \in Nat, m \in Nat, w \in Nat :
              n = Spent + Refused /\ m = Spent' + Refused' /\ w = Stride /\ n <= m
        <5>1. Spent \in Nat /\ Stride \in Nat
          BY SpentTypes
        <5>2. PICK k \in Nat, c \in Nat, d \in Nat : k = Spent /\ c = Refused /\ d = Refused'
          BY <4>2, <5>1
        <5>3. c <= d
          BY <4>2, <5>2
        <5>4. k + c \in Nat /\ k + d \in Nat /\ k + c <= k + d
          BY ONLY <5>3, k \in Nat, c \in Nat, d \in Nat
        <5>5. Spent + Refused = k + c /\ Spent' + Refused' = k + d
          BY <4>1, <5>2
        <5> QED BY <5>1, <5>4, <5>5
      <4>4. n * w <= m * w /\ n * w \in Nat /\ m * w \in Nat
        BY ONLY <4>3, Multiples
      <4>5. lfsr <= n * w /\ lfsr \in Int
        BY <4>3 DEF FewInv, IInv, Shape, ClientShape
      <4>6. lfsr' <= (Spent' + Refused') * Stride
        BY <3>4, <4>3, <4>4, <4>5
      <4> QED BY <1>1, <2>1, <3>4, <4>6 DEF FewInv
    <3> QED BY <1>1, <3>1, <3>2, <3>3, <3>4, OthersSpendNothing
  <2> QED BY <2>2, <2>3
<1>2. CASE UNCHANGED <<vars, plan>>
  BY <1>2 DEF vars, client, history, FewInv, Spent, Refused
<1> QED BY <1>1, <1>2

\* The invariant holds at the start.
LEMMA InitFew == ASSUME Init PROVE FewInv
<1> DEFINE m == Msg("CONNECT", 0, 0, 0)
<1>1. queue = <<m>> /\ staged = <<>> /\ lfsr = 0 /\ plan \in Plans
  BY DEF Init
<1>2. PidOK(m)
  BY MadeMessages DEF Unidentified
<1>3. IInv
  BY InitIInv
<1> HIDE DEF m
<1>4. NoPid(queue)
  BY <1>1, <1>2 DEF NoPid
<1>5. \A k \in QoS : Times(staged, k) = 0
  <2>1. \A k \in QoS : {i \in DOMAIN staged : staged[i] = k} = {}
    BY <1>1
  <2> QED BY <2>1, FS_EmptySet DEF Times
<1>6. \A k \in QoS : plan.pub[k] \in Nat
  BY <1>3, SpentTypes
<1>7. PICK n \in Nat, w \in Nat : n = Spent + Refused /\ w = Stride
  BY <1>3, SpentTypes DEF Refused
<1>8. n * w \in Nat
  OBVIOUS
<1> QED BY <1>1, <1>4, <1>5, <1>6, <1>7, <1>8 DEF FewInv

\* When the cycle of identifiers has QueueCap + 1 for every request the application makes,
\* pid_lfsr does not wrap in a connection.
THEOREM FewRequests == ASSUME EnoughPids PROVE Spec => NoWrap
<1>1. Init => FewInv
  BY InitFew
<1>2. IInv /\ FewInv /\ [Next /\ UNCHANGED plan]_<<vars, plan>>
      => FewInv' /\ [NoWrapStep]_<<vars, plan>>
  BY NextFew
<1> QED BY <1>1, <1>2, Invariant, PTL DEF Spec, NoWrap

\* Then QoS 2 messages are accepted once and one at a time, and none of QoS 1 or 2 is
\* given up unanswered, whatever the network, the broker and the clock do.
THEOREM FewRequestsAreSafe ==
    ASSUME EnoughPids PROVE Spec => []ExactlyOnce /\ []OneQos2AtATime /\ []NeverLost
<1>1. Spec => FreshIds
  BY FewRequests, FreshBeforeWrap
<1> QED BY <1>1, AcceptedOnce, OneAtATime, NoneLost
=============================================================================
