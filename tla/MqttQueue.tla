----------------------------- MODULE MqttQueue -----------------------------
(***************************************************************************)
(* The send buffer of an MQTT-C client (struct mqtt_message_queue), byte by *)
(* byte.  One array of BufSize bytes holds two structures growing towards   *)
(* each other: packed packets from mem_start upwards, and one record of     *)
(* RecSize bytes (struct mqtt_queued_message) per packet from mem_end       *)
(* downwards.  mq is the queue:                                             *)
(*                                                                          *)
(*   queue    the records, oldest first (mqtt_mq_get(mq, i - 1))            *)
(*   curr     offset of the first byte not used by a packet                 *)
(*   curr_sz  the number of bytes a packing function may write at curr      *)
(*   mem      the label of what was last written in every byte: a message,  *)
(*            Rec for a record, Junk for what no packet owns                *)
(*                                                                          *)
(* refused is 0 while client->error is MQTT_OK, and the size of the packet  *)
(* that did not fit once it is MQTT_ERROR_SEND_BUFFER_IS_FULL.              *)
(***************************************************************************)
EXTENDS Integers, Sequences

CONSTANTS
    BufSize,        \* bytes of the buffer (sizeof(p->sendbuf))
    RecSize,        \* sizeof(struct mqtt_queued_message)
    HdrLen,         \* bytes of a fixed header, written before the size check
    Sizes,          \* sizes of the packets
    Ids,            \* the messages
    Rec, Junk       \* labels of bytes that belong to no packet

ASSUME MqAssumption ==
    /\ BufSize \in Nat
    /\ RecSize \in Nat \ {0}
    /\ HdrLen \in Nat \ {0}
    /\ Sizes \subseteq {n \in Nat : n >= HdrLen}
    /\ Rec \notin Ids
    /\ Junk \notin Ids
    /\ Rec # Junk

VARIABLES mq, refused

vars == <<mq, refused>>

States == {"UNSENT", "AWAITING_ACK", "COMPLETE"}
Addr   == 0..(BufSize - 1)

-----------------------------------------------------------------------------
(* Operators on a queue q, with the names of the code.                      *)

\* Offset of queue_tail when the queue holds len records.
queue_tail(len) == BufSize - RecSize * len

\* Mutants: no test that curr is past the limit; no room kept for the record.
mqtt_mq_currsz_wraps(curr, len) == queue_tail(len) - RecSize - curr
mqtt_mq_currsz_norecord(curr, len) ==
    IF curr >= queue_tail(len) THEN 0 ELSE queue_tail(len) - curr

\* The bytes from curr up to where the next record would start.
mqtt_mq_currsz(curr, len) ==
    LET limit == queue_tail(len) - RecSize
    IN  IF curr >= limit THEN 0 ELSE limit - curr

\* Bytes from..to-1 of m overwritten with label x.
Write(m, from, to, x) == [a \in Addr |-> IF from <= a /\ a < to THEN x ELSE m[a]]

\* memmove(dst, src, n) inside the buffer.
Move(m, dst, src, n) ==
    [a \in Addr |-> IF dst <= a /\ a < dst + n THEN m[a - dst + src] ELSE m[a]]

\* An empty queue over memory m; the bytes keep what they held.
mqtt_mq_init(m) ==
    [queue |-> <<>>, curr |-> 0, curr_sz |-> mqtt_mq_currsz(0, 0), mem |-> m]

\* A packing function that has room: the n bytes of message id at curr.
Pack(q, n, id) == [q EXCEPT !.mem = Write(q.mem, q.curr, q.curr + n, id)]

\* A packing function that returns 0 has already written header bytes.
FailedPack(q) ==
    LET n == IF q.curr_sz < HdrLen THEN q.curr_sz ELSE HdrLen
    IN  [q EXCEPT !.mem = Write(q.mem, q.curr, q.curr + n, Junk)]

\* A new record for the n bytes just packed at curr.
mqtt_mq_register(q, n, id) ==
    LET len == Len(q.queue) IN
    [queue   |-> Append(q.queue, [id |-> id, start |-> q.curr, size |-> n,
                                  state |-> "UNSENT"]),
     curr    |-> q.curr + n,
     curr_sz |-> mqtt_mq_currsz(q.curr + n, len + 1),
     mem     |-> Write(q.mem, queue_tail(len) - RecSize, queue_tail(len), Rec)]

\* Mutant: the scan passes over messages that still await their answer.
IsNewHead_skips(q, h) ==
    /\ h \in 1..(Len(q.queue) + 1)
    /\ \A i \in 1..(h - 1) : q.queue[i].state # "UNSENT"
    /\ h <= Len(q.queue) => q.queue[h].state = "UNSENT"

\* h is the index at which the scan for the new head stops.
IsNewHead(q, h) ==
    /\ h \in 1..(Len(q.queue) + 1)
    /\ \A i \in 1..(h - 1) : q.queue[i].state = "COMPLETE"
    /\ h <= Len(q.queue) => q.queue[h].state # "COMPLETE"

\* Mutant: one byte too few is moved.
DropBefore_short(q, h) ==
    LET removing == q.queue[h].start
        n        == q.curr - removing
        len      == Len(q.queue)
        keep     == len - h + 1
        packets  == Move(q.mem, 0, removing, n - 1)
    IN  [queue   |-> [i \in 1..keep |->
                        [q.queue[i + h - 1] EXCEPT !.start = @ - removing]],
         curr    |-> n,
         curr_sz |-> mqtt_mq_currsz(n, keep),
         mem     |-> Move(packets, queue_tail(keep), queue_tail(len),
                          RecSize * keep)]

\* Everything before message h is dropped: packets move to mem_start, then
\* records move to mem_end, then the starts are bumped back.
DropBefore(q, h) ==
    LET removing == q.queue[h].start
        n        == q.curr - removing
        len      == Len(q.queue)
        keep     == len - h + 1
        packets  == Move(q.mem, 0, removing, n)
    IN  [queue   |-> [i \in 1..keep |->
                        [q.queue[i + h - 1] EXCEPT !.start = @ - removing]],
         curr    |-> n,
         curr_sz |-> mqtt_mq_currsz(n, keep),
         mem     |-> Move(packets, queue_tail(keep), queue_tail(len),
                          RecSize * keep)]

\* Mutant: the queue is emptied when all is COMPLETE, and never shortened.
mqtt_mq_clean_allornothing(q) ==
    IF \A i \in DOMAIN q.queue : q.queue[i].state = "COMPLETE"
    THEN mqtt_mq_init(q.mem) ELSE q

mqtt_mq_clean(q) ==
    LET h == CHOOSE k \in 1..(Len(q.queue) + 1) : IsNewHead(q, k)
    IN  IF h = Len(q.queue) + 1 THEN mqtt_mq_init(q.mem)
        ELSE IF h = 1 THEN q
        ELSE DropBefore(q, h)

-----------------------------------------------------------------------------
(* Steps.                                                                   *)

Init == /\ mq = mqtt_mq_init([a \in Addr |-> Junk])
        /\ refused = 0

\* MQTT_CLIENT_TRY_PACK of an n-byte packet, by any function that stages one.
\* Once the client is in error it returns at once.
MQTT_CLIENT_TRY_PACK(n, id) ==
    /\ refused = 0
    /\ \A i \in DOMAIN mq.queue : mq.queue[i].id # id
    /\ IF n <= mq.curr_sz
       THEN /\ mq' = mqtt_mq_register(Pack(mq, n, id), n, id)
            /\ UNCHANGED refused
       ELSE LET c == mqtt_mq_clean(FailedPack(mq)) IN
            IF n <= c.curr_sz
            THEN /\ mq' = mqtt_mq_register(Pack(c, n, id), n, id)
                 /\ UNCHANGED refused
            ELSE /\ mq' = FailedPack(c)
                 /\ refused' = n

\* __mqtt_send has written message i to the socket; whether it then waits for
\* an answer depends on its control type and QoS.
Sent(i) ==
    /\ mq.queue[i].state # "COMPLETE"
    /\ \E s \in {"AWAITING_ACK", "COMPLETE"} :
          mq' = [mq EXCEPT !.queue[i].state = s]
    /\ UNCHANGED refused

\* __mqtt_recv has matched an answer of the broker with message i.
Acked(i) ==
    /\ mq.queue[i].state = "AWAITING_ACK"
    /\ mq' = [mq EXCEPT !.queue[i].state = "COMPLETE"]
    /\ UNCHANGED refused

\* mqtt_init for a new connection, on the same buffer.
mqtt_init == mq' = mqtt_mq_init(mq.mem) /\ refused' = 0

Next == \/ \E n \in Sizes, id \in Ids : MQTT_CLIENT_TRY_PACK(n, id)
        \/ \E i \in DOMAIN mq.queue : Sent(i) \/ Acked(i)
        \/ mqtt_init

Spec == Init /\ [][Next]_vars

-----------------------------------------------------------------------------
(* Properties.                                                              *)

Message == [id : Ids, start : Nat, size : Sizes, state : States]
Queue   == [queue : Seq(Message), curr : Nat, curr_sz : Nat,
            mem : [Addr -> Ids \cup {Rec, Junk}]]

\* Types.  curr_sz and the offsets are natural numbers: no subtraction of the
\* code (curr - start, start -= removing, the currsz macro) ever wraps.
TypeOK ==
    /\ mq \in Queue
    /\ refused \in Sizes \cup {0}

\* Packets lie one after the other with no hole between them, the first at
\* mem_start and the last up to curr, and curr never passes the records.  curr_sz
\* is what the currsz macro gives for the present curr and queue_tail: no path of
\* register or clean leaves it stale.
LayoutOf(q) ==
    /\ \A i \in DOMAIN q.queue :
          /\ i = 1 => q.queue[i].start = 0
          /\ i > 1 => q.queue[i].start = q.queue[i - 1].start + q.queue[i - 1].size
          /\ q.queue[i].start + q.queue[i].size <= q.curr
          /\ i = Len(q.queue) => q.queue[i].start + q.queue[i].size = q.curr
          /\ \A j \in DOMAIN q.queue : i < j =>
                q.queue[i].start + q.queue[i].size <= q.queue[j].start
    /\ q.queue = <<>> => q.curr = 0
    /\ q.curr <= queue_tail(Len(q.queue))
    /\ q.curr_sz = mqtt_mq_currsz(q.curr, Len(q.queue))

Layout == LayoutOf(mq)

\* No packing, registering or moving ever touches a byte of another queued
\* packet or of a record: every queued packet is sent with its own bytes.
IntactOf(q) ==
    /\ \A i \in DOMAIN q.queue, a \in Addr :
          (q.queue[i].start <= a /\ a < q.queue[i].start + q.queue[i].size)
             => q.mem[a] = q.queue[i].id
    /\ \A a \in Addr : queue_tail(Len(q.queue)) <= a => q.mem[a] = Rec

NoCorruption == IntactOf(mq)

\* MQTT_ERROR_SEND_BUFFER_IS_FULL is reported only when the packet really does
\* not fit behind the packets that cannot be forgotten yet.
RefusalJustified ==
    [][ refused = 0 /\ refused' # 0 =>
          /\ mq'.queue = <<>> \/ mq'.queue[1].state # "COMPLETE"
          /\ mq'.curr + refused' > queue_tail(Len(mq'.queue) + 1) ]_vars

\* The buffer implements the abstract queue.
SQ == INSTANCE SendQueue WITH
        pending  <- [i \in DOMAIN mq.queue |->
                        [id |-> mq.queue[i].id, state |-> mq.queue[i].state]],
        refusing <- refused # 0

\* Whatever the layout does, a user of the queue sees messages leave it only
\* from the front and only when COMPLETE, keep their order, and never go back
\* to an earlier state.
Implements == SQ!Spec
=============================================================================
