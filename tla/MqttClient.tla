----------------------------- MODULE MqttClient -----------------------------
(***************************************************************************)
(* One MQTT session of an MQTT-C client (mqtt.c) with its broker.           *)
(*                                                                          *)
(* The client is single-threaded: the application stages requests between   *)
(* two calls of mqtt_sync, and mqtt_sync receives everything there is, then *)
(* walks the queue and sends, then considers a PINGREQ.  The broker and the *)
(* clock move between any two of those steps.  The send buffer is the queue *)
(* of module SendQueue with room for QueueCap messages (MqttQueue is the    *)
(* same queue with its bytes).                                              *)
(*                                                                          *)
(* Messages of the application are numbered in the order they are staged;   *)
(* so are the ones the broker pushes.  Time is kept as the age of each      *)
(* transmission.  The broker is external: it obeys MQTT 3.1.1, answers in   *)
(* order and as late as it likes, and may transmit a PUBLISH again.         *)
(***************************************************************************)
EXTENDS Integers, Sequences, FiniteSets

CONSTANTS
    QueueCap,           \* messages the send buffer has room for
    NPid,               \* packet identifiers (65535 in the code)
    ResponseTimeout,    \* client->response_timeout
    KeepAlive,          \* 3/4 of client->keep_alive, when a ping is due
    Plans,              \* what the application, the broker and the socket may do, one
                        \* plan per behaviour: see PlanType
    MaxPushes,          \* bound on the broker's publishes of every QoS together
    MaxRequests,        \* bound on the subscribes and unsubscribes together
    MaxConn             \* connections the agent makes

QoS    == 0..2
Pids   == 1..NPid

\* pub[q], push[q]: publishes with QoS q by the application and by the broker.
\* requests: the subscribes and unsubscribes to be made.  resends:
\* retransmissions of the broker.  refuse: the broker may refuse requests.
\* chan: packets a socket buffers before a write blocks.  drop: the connection
\* may end, by a DISCONNECT or by the network or the broker hanging up.
PlanType == [pub : [QoS -> Nat], push : [QoS -> Nat],
             requests : SUBSET {"SUBSCRIBE", "UNSUBSCRIBE"}, resends : Nat,
             refuse : BOOLEAN, chan : Nat \ {0}, drop : BOOLEAN]

ASSUME ClientAssumption ==
    /\ QueueCap \in Nat \ {0} /\ Plans \subseteq PlanType
    /\ NPid \in Nat /\ NPid > QueueCap
    /\ ResponseTimeout \in Nat /\ KeepAlive \in Nat
    /\ MaxPushes \in Nat /\ MaxRequests \in Nat
    /\ MaxConn \in Nat \ {0}

VARIABLES
    plan,       \* the plan of this behaviour
    queue,      \* client->mq: records of the queued messages, oldest first
    error,      \* client->error
    lfsr,       \* client->pid_lfsr, as a position in the cycle of identifiers
    idle,       \* age of client->time_of_last_send
    pc,         \* where mqtt_sync is
    c2b, b2c,   \* packets under way to the broker and to the client
    link,       \* TRUE while the socket is open
    conns,      \* connections made so far
    broker,     \* state of the broker: see BrokerInit
    asked,      \* requests made by the application and not possible again
    staged,     \* QoS of the messages the application staged with success
    delivered,  \* messages the broker accepted from the client
    pushed,     \* QoS of the messages the broker published to the client
    called      \* messages passed to publish_response_callback

client  == <<queue, error, lfsr, idle, pc>>
net     == <<c2b, b2c, link>>
history == <<asked, staged, delivered, pushed, called>>
vars    == <<client, net, conns, broker, history>>

-----------------------------------------------------------------------------
(* The queue.                                                               *)

States == {"UNSENT", "AWAITING_ACK", "COMPLETE"}

\* Requests whose record has no packet identifier: the field keeps whatever
\* bytes were there.
Unidentified == {"CONNECT", "PINGREQ", "DISCONNECT"}

Msg(type, pid, qos, id) ==
    [type |-> type, pid |-> pid, qos |-> qos, id |-> id, dup |-> FALSE,
     state |-> "UNSENT", age |-> 0]

\* Mutant: messages that await their answer are dropped as well.
mqtt_mq_clean_awaiting(q) ==
    LET keep == {i \in DOMAIN q : \E j \in 1..i : q[j].state = "UNSENT"}
    IN  SubSeq(q, Len(q) - Cardinality(keep) + 1, Len(q))

mqtt_mq_clean(q) ==
    LET keep == {i \in DOMAIN q : \E j \in 1..i : q[j].state # "COMPLETE"}
    IN  SubSeq(q, Len(q) - Cardinality(keep) + 1, Len(q))

\* Mutants: the second failure to pack is not noticed; the new record is put
\* before those not yet sent.
TryPack_unchecked(q, m) ==
    LET c == IF Len(q) < QueueCap THEN q ELSE mqtt_mq_clean(q)
    IN  [queue |-> Append(c, m), error |-> "OK"]
TryPack_infront(q, m) ==
    LET c == IF Len(q) < QueueCap THEN q ELSE mqtt_mq_clean(q)
        n == Cardinality({i \in DOMAIN c : c[i].state # "UNSENT"})
    IN  IF Len(c) < QueueCap
        THEN [queue |-> SubSeq(c, 1, n) \o <<m>> \o SubSeq(c, n + 1, Len(c)), error |-> "OK"]
        ELSE [queue |-> c, error |-> "SEND_BUFFER_IS_FULL"]

\* MQTT_CLIENT_TRY_PACK: pack, or clean and pack, or report a full buffer.
\* The result is the queue and the error.
TryPack(q, m) ==
    LET c == IF Len(q) < QueueCap THEN q ELSE mqtt_mq_clean(q)
    IN  IF Len(c) < QueueCap THEN [queue |-> Append(c, m), error |-> "OK"]
        ELSE [queue |-> c, error |-> "SEND_BUFFER_IS_FULL"]

\* Mutant: a message is found only before it is sent.
FindPid_unsent(type, pid) == {i \in DOMAIN queue :
    queue[i].type = type /\ queue[i].pid = pid /\ queue[i].state = "UNSENT"}

\* The oldest message of the type with identifier pid, in whatever state.
FindPid(type, pid) == {i \in DOMAIN queue :
    /\ queue[i].type = type /\ queue[i].pid = pid
    /\ \A j \in 1..(i - 1) : ~(queue[j].type = type /\ queue[j].pid = pid)}

\* The oldest message of the type that is not COMPLETE.
FindOpen(type) == {i \in DOMAIN queue :
    /\ queue[i].type = type /\ queue[i].state # "COMPLETE"
    /\ \A j \in 1..(i - 1) :
          ~(queue[j].type = type /\ queue[j].state # "COMPLETE")}

Complete(q, i) == [q EXCEPT ![i].state = "COMPLETE"]

\* The identifiers __mqtt_next_pid may return: the next one in the cycle that
\* no queued message has.  An unidentified record may by accident hold an
\* identifier too and make the search skip it.
UsedPids == {queue[i].pid : i \in DOMAIN queue}
Skips    == Cardinality({i \in DOMAIN queue : queue[i].type \in Unidentified})
Distance(p) == IF p > lfsr THEN p - lfsr ELSE p - lfsr + NPid

\* Mutant: the register is not shifted and uniqueness is not tested.
__mqtt_next_pid_stuck == {1}

__mqtt_next_pid ==
    {p \in Pids \ UsedPids :
        Cardinality({r \in Pids \ UsedPids : Distance(r) < Distance(p)}) <= Skips}

-----------------------------------------------------------------------------
(* The application.  It stages when mqtt_sync is not running.               *)

AtRest == pc.at = "rest"

\* A request is staged.  A full buffer leaves the error in the client.
Stage(m) == LET r == TryPack(queue, m)
            IN  queue' = r.queue /\ error' = r.error

mqtt_publish(qos) ==
    /\ AtRest /\ error = "OK"
    /\ Cardinality({i \in DOMAIN staged : staged[i] = qos}) < plan.pub[qos]
    /\ \E p \in __mqtt_next_pid :
          /\ lfsr' = p
          /\ Stage(Msg("PUBLISH", p, qos, Len(staged) + 1))
    /\ staged' = IF error' = "OK" THEN Append(staged, qos) ELSE staged
    /\ UNCHANGED <<idle, pc, net, conns, broker, asked, delivered, pushed, called>>

\* mqtt_subscribe and mqtt_unsubscribe differ in the packet only.
mqtt_subscribe(type) ==
    /\ AtRest /\ error = "OK" /\ type \in plan.requests \ asked
    /\ Cardinality(asked \cap plan.requests) < MaxRequests
    /\ asked' = asked \cup {type}
    /\ \E p \in __mqtt_next_pid : lfsr' = p /\ Stage(Msg(type, p, 0, 0))
    /\ UNCHANGED <<idle, pc, net, conns, broker, staged, delivered, pushed, called>>

mqtt_disconnect ==
    /\ AtRest /\ error = "OK" /\ plan.drop /\ "DISCONNECT" \notin asked
    /\ asked' = asked \cup {"DISCONNECT"}
    /\ Stage(Msg("DISCONNECT", 0, 0, 0))
    /\ UNCHANGED <<lfsr, idle, pc, net, conns, broker, staged, delivered, pushed,
                   called>>

-----------------------------------------------------------------------------
(* mqtt_sync: __mqtt_recv.                                                  *)

SyncStart ==
    /\ AtRest
    /\ pc' = [at |-> "recv", i |-> 0, qos2 |-> FALSE]
    /\ UNCHANGED <<queue, error, lfsr, idle, net, conns, broker, history>>

\* The packet p handled now has been taken from the socket.
Receives(type) == /\ pc.at = "recv" /\ link /\ b2c # <<>>
                  /\ Head(b2c).type = type
                  /\ b2c' = Tail(b2c)
                  /\ UNCHANGED <<lfsr, idle, c2b, link, conns, broker, asked, staged,
                                 delivered, pushed>>

\* mqtt_sync returns e; the agent closes the connection.
Fail(e) == error' = e /\ pc' = [pc EXCEPT !.at = "failed"]
Goes    == UNCHANGED <<error, pc>>

\* The outcome of staging an answer inside __mqtt_recv, on queue q.
Answer(q, m) ==
    LET r == IF error = "OK" THEN TryPack(q, m) ELSE [queue |-> q, error |-> error]
    IN  /\ queue' = r.queue
        /\ IF r.error = "OK" THEN Goes ELSE Fail(r.error)

Unknown == Fail("ACK_OF_UNKNOWN") /\ UNCHANGED queue

\* A packet that only releases the message found.
Release(found) ==
    IF found = {} THEN Unknown
    ELSE /\ \E i \in found : queue' = Complete(queue, i)
         /\ Goes

RecvConnack ==
    /\ Receives("CONNACK")
    /\ LET found == FindOpen("CONNECT") IN
       IF found = {} THEN Unknown
       ELSE /\ \E i \in found : queue' = Complete(queue, i)
            /\ IF Head(b2c).ok THEN Goes ELSE Fail("CONNECTION_REFUSED")
    /\ UNCHANGED called

\* Pass a message to the callback (a second copy of a QoS 1 message is not
\* recorded: at-least-once allows it).
Call(p) == called' = IF p.qos = 1 /\ \E i \in DOMAIN called : called[i] = p.id
                     THEN called ELSE Append(called, p.id)

\* A duplicate of a QoS 2 PUBLISH is recognised by its PUBREC in the queue.
RecvPublish ==
    /\ Receives("PUBLISH")
    /\ LET p == Head(b2c) IN
       \/ p.qos = 0 /\ UNCHANGED queue /\ Goes /\ Call(p)
       \/ /\ p.qos = 1
          /\ Answer(queue, Msg("PUBACK", p.pid, 0, 0))
          /\ IF pc'.at = "recv" THEN Call(p) ELSE UNCHANGED called
       \/ /\ p.qos = 2 /\ FindPid("PUBREC", p.pid) # {}
          /\ UNCHANGED <<queue, called>> /\ Goes
       \/ /\ p.qos = 2 /\ FindPid("PUBREC", p.pid) = {}
          /\ Answer(queue, Msg("PUBREC", p.pid, 0, 0))
          /\ IF pc'.at = "recv" THEN Call(p) ELSE UNCHANGED called

RecvPuback ==
    /\ Receives("PUBACK") /\ Release(FindPid("PUBLISH", Head(b2c).pid))
    /\ UNCHANGED called

RecvPubrec ==
    /\ Receives("PUBREC")
    /\ LET pid   == Head(b2c).pid
           found == FindPid("PUBLISH", pid) IN
       IF FindPid("PUBREL", pid) # {} THEN Goes /\ UNCHANGED queue
       ELSE IF found = {} THEN Unknown
       ELSE \E i \in found :
              Answer(Complete(queue, i), Msg("PUBREL", pid, 0, queue[i].id))
    /\ UNCHANGED called

RecvPubrel ==
    /\ Receives("PUBREL")
    /\ LET pid   == Head(b2c).pid
           found == FindPid("PUBREC", pid) IN
       IF found = {} THEN Unknown
       ELSE \E i \in found :
              Answer(Complete(queue, i), Msg("PUBCOMP", pid, 0, 0))
    /\ UNCHANGED called

\* Mutant: the answer releases nothing.
RecvPubcomp_dropped ==
    /\ Receives("PUBCOMP") /\ Goes
    /\ UNCHANGED <<queue, called>>

RecvPubcomp ==
    /\ Receives("PUBCOMP") /\ Release(FindPid("PUBREL", Head(b2c).pid))
    /\ UNCHANGED called

RecvSuback ==
    /\ Receives("SUBACK")
    /\ LET found == FindPid("SUBSCRIBE", Head(b2c).pid) IN
       IF found = {} THEN Unknown
       ELSE /\ \E i \in found : queue' = Complete(queue, i)
            /\ IF Head(b2c).ok THEN Goes ELSE Fail("SUBSCRIBE_FAILED")
    /\ UNCHANGED called

RecvUnsuback ==
    /\ Receives("UNSUBACK") /\ Release(FindPid("UNSUBSCRIBE", Head(b2c).pid))
    /\ UNCHANGED called

RecvPingresp ==
    /\ Receives("PINGRESP") /\ Release(FindOpen("PINGREQ"))
    /\ UNCHANGED called

\* Mutant: the failure of mqtt_pal_recvall is taken for nothing to read.
RecvError_ignored ==
    /\ pc.at = "recv" /\ ~link
    /\ pc' = [pc EXCEPT !.at = "rest"]
    /\ UNCHANGED <<queue, error, lfsr, idle, net, conns, broker, history>>

\* mqtt_pal_recvall fails on a closed socket.
RecvError ==
    /\ pc.at = "recv" /\ ~link
    /\ Fail("SOCKET_ERROR")
    /\ UNCHANGED <<queue, lfsr, idle, net, conns, broker, history>>

\* Nothing more to read: on to __mqtt_send, which gives up at once on an error
\* other than a full buffer.
RecvDone ==
    /\ pc.at = "recv" /\ link /\ b2c = <<>>
    /\ IF error \in {"OK", "SEND_BUFFER_IS_FULL"}
       THEN pc' = [at |-> "send", i |-> 1, qos2 |-> FALSE]
       ELSE pc' = [pc EXCEPT !.at = "failed"]
    /\ UNCHANGED <<queue, error, lfsr, idle, net, conns, broker, history>>

-----------------------------------------------------------------------------
(* mqtt_sync: __mqtt_send, one message of the queue at a time.              *)

Sending == pc.at = "send" /\ pc.i <= Len(queue)

Qos2Open(m) == m.type = "PUBLISH" /\ m.qos = 2 /\ m.state # "COMPLETE"

NeedsSend(m) ==
    /\ \/ m.state = "UNSENT"
       \/ m.state = "AWAITING_ACK" /\ m.age > ResponseTimeout
    /\ ~(Qos2Open(m) /\ pc.qos2)

StateAfterSend(m) ==
    IF \/ m.type \in {"PUBACK", "PUBCOMP", "DISCONNECT"}
       \/ m.type = "PUBLISH" /\ m.qos = 0
    THEN "COMPLETE" ELSE "AWAITING_ACK"

\* Mutant: QoS 2 messages are not held back.
NextMessage_nohold(m) == pc' = [pc EXCEPT !.i = @ + 1]

NextMessage(m) == pc' = [pc EXCEPT !.i = @ + 1, !.qos2 = @ \/ Qos2Open(m)]

SendSkip ==
    /\ Sending
    /\ ~NeedsSend(queue[pc.i])
    /\ NextMessage(queue[pc.i])
    /\ UNCHANGED <<queue, error, lfsr, idle, net, conns, broker, history>>

\* The DUP flag of a QoS 1 PUBLISH is set for the transmissions to come.
SendMessage ==
    /\ Sending /\ link /\ Len(c2b) < plan.chan
    /\ LET m == queue[pc.i] IN
       /\ NeedsSend(m)
       /\ c2b' = Append(c2b, [type |-> m.type, pid |-> m.pid, qos |-> m.qos,
                              id |-> m.id, dup |-> m.dup])
       /\ queue' = [queue EXCEPT ![pc.i] =
                      [m EXCEPT !.state = StateAfterSend(m), !.age = 0,
                                !.dup = @ \/ (m.type = "PUBLISH" /\ m.qos = 1)]]
       /\ NextMessage(m)
    /\ idle' = 0
    /\ UNCHANGED <<error, lfsr, b2c, link, conns, broker, history>>

SendError ==
    /\ Sending /\ ~link /\ NeedsSend(queue[pc.i])
    /\ Fail("SOCKET_ERROR")
    /\ UNCHANGED <<queue, lfsr, idle, net, conns, broker, history>>

\* The end of __mqtt_send: stage a PINGREQ when nothing was sent for long.
KeepAliveCheck ==
    /\ pc.at = "send" /\ pc.i > Len(queue)
    /\ IF idle > KeepAlive
       THEN LET r == IF error = "OK" THEN TryPack(queue, Msg("PINGREQ", 0, 0, 0))
                     ELSE [queue |-> queue, error |-> error]
            IN  /\ queue' = r.queue
                /\ error' = r.error
                /\ pc' = [pc EXCEPT !.at = IF r.error = "OK" THEN "rest" ELSE "failed"]
       ELSE /\ UNCHANGED <<queue, error>>
            /\ pc' = [pc EXCEPT !.at = "rest"]
    /\ UNCHANGED <<lfsr, idle, net, conns, broker, history>>

-----------------------------------------------------------------------------
(* The broker (external).                                                   *)

\* seen2: identifiers of QoS 2 messages received and not yet released.
\* out: messages pushed to the client whose handshake is not over.
\* up: what the broker said to the CONNECT of this connection.
BrokerInit == [seen2 |-> {}, out |-> {}, resends |-> plan.resends, up |-> "new"]

Pkt(type, pid, ok) == [type |-> type, pid |-> pid, ok |-> ok, qos |-> 0, id |-> 0]
PubPkt(o) == [type |-> "PUBLISH", pid |-> o.pid, ok |-> TRUE, qos |-> o.qos, id |-> o.id]

Accept(p) == delivered' =
    IF p.qos = 1 /\ \E i \in DOMAIN delivered : delivered[i] = p.id
    THEN delivered ELSE Append(delivered, p.id)

Replies(ps) == b2c' = b2c \o ps

OutWith(pid) == {o \in broker.out : o.pid = pid /\ o.qos > 0}

\* The broker takes the next packet of the client and answers it.
BrokerRecv ==
    /\ link /\ c2b # <<>> /\ Len(b2c) < plan.chan /\ broker.up # "refused"
    /\ c2b' = Tail(c2b)
    /\ LET p == Head(c2b) IN
       \/ /\ p.type = "CONNECT" /\ broker.up = "new"
          /\ \E ok \in {TRUE} \cup {~plan.refuse} :
                /\ Replies(<<Pkt("CONNACK", p.pid, ok)>>)
                /\ broker' = [broker EXCEPT !.up = IF ok THEN "accepted" ELSE "refused"]
          /\ UNCHANGED <<delivered, link>>
       \/ /\ p.type = "SUBSCRIBE"
          /\ \E ok \in {TRUE} \cup {~plan.refuse} : Replies(<<Pkt("SUBACK", p.pid, ok)>>)
          /\ UNCHANGED <<broker, delivered, link>>
       \/ /\ p.type = "UNSUBSCRIBE"
          /\ Replies(<<Pkt("UNSUBACK", p.pid, TRUE)>>)
          /\ UNCHANGED <<broker, delivered, link>>
       \/ /\ p.type = "PINGREQ"
          /\ Replies(<<Pkt("PINGRESP", 0, TRUE)>>)
          /\ UNCHANGED <<broker, delivered, link>>
       \/ /\ p.type = "PUBLISH" /\ p.qos = 0
          /\ Accept(p)
          /\ UNCHANGED <<b2c, broker, link>>
       \/ /\ p.type = "PUBLISH" /\ p.qos = 1
          /\ Accept(p) /\ Replies(<<Pkt("PUBACK", p.pid, TRUE)>>)
          /\ UNCHANGED <<broker, link>>
       \/ /\ p.type = "PUBLISH" /\ p.qos = 2
          /\ IF p.pid \in broker.seen2 THEN UNCHANGED delivered ELSE Accept(p)
          /\ broker' = [broker EXCEPT !.seen2 = @ \cup {p.pid}]
          /\ Replies(<<Pkt("PUBREC", p.pid, TRUE)>>)
          /\ UNCHANGED link
       \/ /\ p.type = "PUBREL"
          /\ broker' = [broker EXCEPT !.seen2 = @ \ {p.pid}]
          /\ Replies(<<Pkt("PUBCOMP", p.pid, TRUE)>>)
          /\ UNCHANGED <<delivered, link>>
       \/ /\ p.type \in {"PUBACK", "PUBCOMP"}
          /\ broker' = [broker EXCEPT !.out = @ \ OutWith(p.pid)]
          /\ UNCHANGED <<b2c, delivered, link>>
       \/ /\ p.type = "PUBREC"
          /\ broker' = [broker EXCEPT !.out =
                (@ \ OutWith(p.pid)) \cup {[o EXCEPT !.rel = TRUE] : o \in OutWith(p.pid)}]
          /\ Replies(<<Pkt("PUBREL", p.pid, TRUE)>>)
          /\ UNCHANGED <<delivered, link>>
       \/ /\ p.type = "DISCONNECT"
          /\ link' = FALSE
          /\ UNCHANGED <<b2c, broker, delivered>>
    /\ UNCHANGED <<client, conns, asked, staged, pushed, called>>

\* The connection ends, with what is under way on it.
Closes == /\ link
          /\ link' = FALSE /\ c2b' = <<>> /\ b2c' = <<>>
          /\ UNCHANGED <<client, conns, broker, history>>

\* A broker closes a connection it has refused, and one on which a second CONNECT
\* arrives.
BrokerCloses ==
    /\ \/ broker.up = "refused"
       \/ broker.up = "accepted" /\ c2b # <<>> /\ Head(c2b).type = "CONNECT"
    /\ Closes

\* A new message for the client, with an identifier that is free at the broker.
BrokerPublish(qos) ==
    /\ link /\ broker.up = "accepted" /\ Len(b2c) < plan.chan
    /\ Len(pushed) < MaxPushes
    /\ Cardinality({i \in DOMAIN pushed : pushed[i] = qos}) < plan.push[qos]
    /\ pushed' = Append(pushed, qos)
    /\ LET free == {p \in Pids : OutWith(p) = {}}
           o == [id |-> Len(pushed) + 1, qos |-> qos, rel |-> FALSE,
                 pid |-> IF qos = 0 THEN 0 ELSE CHOOSE p \in free : \A r \in free : p <= r]
       IN  /\ qos > 0 => free # {}
           /\ Replies(<<PubPkt(o)>>)
           /\ broker' = IF qos = 0 THEN broker ELSE [broker EXCEPT !.out = @ \cup {o}]
    /\ UNCHANGED <<client, c2b, link, conns, asked, staged, delivered, called>>

\* The broker transmits an unanswered PUBLISH, or the PUBREL, again.
BrokerResend(o) ==
    /\ link /\ Len(b2c) < plan.chan /\ broker.resends > 0
    /\ broker' = [broker EXCEPT !.resends = @ - 1]
    /\ Replies(<<IF o.rel THEN Pkt("PUBREL", o.pid, TRUE) ELSE PubPkt(o)>>)
    /\ UNCHANGED <<client, c2b, link, conns, history>>

-----------------------------------------------------------------------------
(* The environment: time, hang-ups, and the agent connecting again.         *)

Older(n, limit) == IF n > limit THEN n ELSE n + 1

Tick ==
    /\ idle' = Older(idle, KeepAlive)
    /\ queue' = [i \in DOMAIN queue |->
                   IF queue[i].state # "AWAITING_ACK" THEN queue[i]
                   ELSE [queue[i] EXCEPT !.age = Older(@, ResponseTimeout)]]
    /\ <<idle', queue'>> # <<idle, queue>>
    /\ UNCHANGED <<error, lfsr, pc, net, conns, broker, history>>

HangUp == plan.drop /\ Closes

\* mqtt_init and mqtt_connect on a new socket, with a clean session: the queue
\* and the state the broker kept are forgotten.
Reconnect ==
    /\ pc.at = "failed" /\ conns < MaxConn
    /\ conns' = conns + 1
    /\ queue' = <<Msg("CONNECT", 0, 0, 0)>>
    /\ error' = "OK" /\ lfsr' = 0
    /\ pc' = [pc EXCEPT !.at = "rest"]
    /\ link' = TRUE /\ c2b' = <<>> /\ b2c' = <<>>
    /\ broker' = [broker EXCEPT !.seen2 = {}, !.out = {}, !.up = "new"]
    /\ UNCHANGED <<idle, history>>

Init ==
    /\ plan \in Plans
    /\ queue = <<Msg("CONNECT", 0, 0, 0)>>
    /\ error = "OK" /\ lfsr = 0 /\ idle = KeepAlive + 1
    /\ pc = [at |-> "rest", i |-> 0, qos2 |-> FALSE]
    /\ c2b = <<>> /\ b2c = <<>> /\ link = TRUE /\ conns = 1
    /\ broker = BrokerInit
    /\ asked = {} /\ staged = <<>> /\ delivered = <<>> /\ pushed = <<>> /\ called = <<>>

Recv == \/ RecvConnack \/ RecvPublish \/ RecvPuback \/ RecvPubrec \/ RecvPubrel
        \/ RecvPubcomp \/ RecvSuback \/ RecvUnsuback \/ RecvPingresp
        \/ RecvError \/ RecvDone

Send == SendSkip \/ SendMessage \/ SendError \/ KeepAliveCheck

mqtt_sync == SyncStart \/ Recv \/ Send

Next == \/ \E qos \in QoS : mqtt_publish(qos) \/ BrokerPublish(qos)
        \/ \E type \in plan.requests : mqtt_subscribe(type)
        \/ mqtt_disconnect
        \/ mqtt_sync
        \/ BrokerRecv \/ BrokerCloses
        \/ \E o \in broker.out : BrokerResend(o)
        \/ Tick \/ HangUp \/ Reconnect

Spec == Init /\ [][Next /\ UNCHANGED plan]_<<vars, plan>>

\* The agent keeps calling mqtt_sync (ag_handle_clttraffic registers itself
\* again), and the broker keeps reading and closes what it must close.
Fairness == WF_vars(mqtt_sync) /\ WF_vars(BrokerRecv) /\ WF_vars(BrokerCloses)

FairSpec == Spec /\ Fairness

-----------------------------------------------------------------------------
(* Properties.                                                              *)

Types  == Unidentified \cup {"PUBLISH", "PUBACK", "PUBREC", "PUBREL", "PUBCOMP",
                             "SUBSCRIBE", "UNSUBSCRIBE"}
Errors == {"OK", "SEND_BUFFER_IS_FULL", "ACK_OF_UNKNOWN", "CONNECTION_REFUSED",
           "SUBSCRIBE_FAILED", "SOCKET_ERROR"}

\* The fields of the client have the values the code gives them, the queue never
\* holds more than the send buffer has room for, and neither side writes more
\* than the socket takes.
TypeOK ==
    /\ queue \in Seq([type : Types, pid : 0..NPid, qos : QoS, id : Nat,
                      dup : BOOLEAN, state : States, age : 0..(ResponseTimeout + 1)])
    /\ Len(queue) <= QueueCap
    /\ error \in Errors
    /\ lfsr \in 0..NPid /\ idle \in 0..(KeepAlive + 1)
    /\ pc \in [at : {"rest", "recv", "send", "failed"}, i : 0..(QueueCap + 1),
               qos2 : BOOLEAN]
    /\ link \in BOOLEAN /\ conns \in 1..MaxConn
    /\ Len(c2b) <= plan.chan /\ Len(b2c) <= plan.chan

Times(s, x) == Cardinality({i \in DOMAIN s : s[i] = x})

\* A QoS 2 message reaches the subscribers behind the broker at most once and,
\* when the client regards it as COMPLETE, exactly once, although the client
\* transmits PUBLISH and PUBREL again after a timeout.  Like NeverLost, it needs
\* identifiers that do not wrap while a packet of their last message is under way.
ExactlyOnce ==
    /\ \A k \in DOMAIN staged : staged[k] = 2 => Times(delivered, k) <= 1
    /\ \A i \in DOMAIN queue :
          queue[i].type = "PUBLISH" /\ queue[i].qos = 2 /\ queue[i].state = "COMPLETE"
             => Times(delivered, queue[i].id) = 1

\* Until the session ends, a QoS 1 or 2 message is accepted by the broker or
\* still queued as unanswered: no answer is credited to another message than
\* its own, and cleaning the buffer removes no message too early.
NeverLost ==
    \A k \in DOMAIN staged :
        staged[k] > 0 /\ conns = 1 =>
           \/ Times(delivered, k) >= 1
           \/ \E i \in DOMAIN queue : /\ queue[i].type = "PUBLISH" /\ queue[i].id = k
                                      /\ queue[i].state # "COMPLETE"

\* Messages of one QoS reach the broker in the order they were staged,
\* retransmissions and held-back QoS 2 messages notwithstanding.
OrderedPerQoS ==
    \A i, j \in DOMAIN delivered :
        i < j /\ staged[delivered[i]] = staged[delivered[j]]
           => delivered[i] <= delivered[j]

\* Up to the first reconnect, which forgets what is queued, a QoS 2 PUBLISH leaves only
\* after the broker has accepted all QoS 2 messages staged before it: in every pass over
\* the queue, retransmissions included, the hold-back lets one of them through and keeps
\* those behind it.
OneQos2AtATime ==
    conns = 1 =>
        \A i \in DOMAIN c2b :
            c2b[i].type = "PUBLISH" /\ c2b[i].qos = 2 =>
               \A k \in 1..(c2b[i].id - 1) : staged[k] = 2 => Times(delivered, k) = 1

\* The callback sees a QoS 2 message of the broker at most once, although the
\* broker may transmit it again.
CalledAtMostOnce ==
    \A k \in DOMAIN pushed : pushed[k] = 2 => Times(called, k) <= 1

\* The handshake of message k of the application is not over.
Unanswered(k) ==
    \E i \in DOMAIN queue : /\ queue[i].type \in {"PUBLISH", "PUBREL"}
                            /\ queue[i].id = k /\ queue[i].state # "COMPLETE"

\* Every queued message of the application is answered to the end of its
\* handshake, or the client reports an error: none waits for ever behind a QoS 2
\* message that holds it back, and no answer is dropped.
Acknowledged ==
    \A k \in UNION {1..(p.pub[0] + p.pub[1] + p.pub[2]) : p \in Plans} :
        Unanswered(k) ~> (~Unanswered(k) \/ error # "OK")

\* A connection that is gone is noticed: mqtt_sync fails, whatever it was doing
\* when the peer hung up, so that the agent can connect again.
LossNoticed == ~link ~> pc.at = "failed"

-----------------------------------------------------------------------------
(* What the documentation says and the code does not do.                    *)

\* mqtt.h on client->error: MQTT_OK for the entirety of the connection.  Said
\* of a broker that answers every packet exactly once, however late.
NoSpuriousError == error # "ACK_OF_UNKNOWN"

\* mqtt.h on publish_response_callback: all the publishes received from the
\* broker are passed to it.
AllPassed ==
    \A k \in DOMAIN pushed :
        \/ Times(called, k) >= 1
        \/ error # "OK"
        \/ \E i \in DOMAIN b2c : b2c[i].id = k
=============================================================================
