-------------------------- MODULE MqttQueueProofs --------------------------
(***************************************************************************)
(* Proofs about MqttQueue, for every buffer size, record size, set of       *)
(* packet sizes and set of messages.  The inductive invariant is Good(mq):  *)
(* types, layout and intact bytes together.  None of the three is inductive *)
(* alone: that packing leaves the other packets intact needs the layout,    *)
(* and the layout needs curr_sz to be what the currsz macro gives.          *)
(***************************************************************************)
EXTENDS MqttQueue, SequenceTheorems, WellFoundedInduction, TLAPS

Labels  == Ids \cup {Rec, Junk}
Good(q) == q \in Queue /\ LayoutOf(q) /\ IntactOf(q)

-----------------------------------------------------------------------------
\* Where the records start: one record lower for each message, and never
\* lower for fewer messages.
LEMMA TailStep ==
    ASSUME NEW len \in Nat
    PROVE  /\ queue_tail(len) \in Int
           /\ queue_tail(len + 1) \in Int
           /\ queue_tail(len + 1) = queue_tail(len) - RecSize
           /\ queue_tail(0) = BufSize
BY MqAssumption DEF queue_tail

\* The records of a longer queue start lower in the buffer.
LEMMA TailMonotonic ==
    ASSUME NEW len \in Nat, NEW k \in 0..len
    PROVE  /\ queue_tail(k) \in Int
           /\ queue_tail(len) <= queue_tail(k)
           /\ RecSize * k \in Nat
           /\ queue_tail(k) + RecSize * k = BufSize
           /\ queue_tail(len) + RecSize * k <= BufSize
<1> DEFINE d == len - k
<1>1. d \in Nat /\ len = k + d /\ k \in Nat
  OBVIOUS
<1>2. RecSize * d \in Nat /\ RecSize * k \in Nat
  BY <1>1, MqAssumption
<1>3. RecSize * (k + d) = RecSize * k + RecSize * d
  BY <1>1, MqAssumption
<1> QED
  BY <1>1, <1>2, <1>3, MqAssumption DEF queue_tail

\* The number of bytes offered to a packing function leaves room for the
\* record of the packet.
LEMMA CurrszBound ==
    ASSUME NEW c \in Nat, NEW len \in Nat
    PROVE  /\ mqtt_mq_currsz(c, len) \in Nat
           /\ mqtt_mq_currsz(c, len) > 0 =>
                 c + mqtt_mq_currsz(c, len) = queue_tail(len + 1)
BY TailStep, MqAssumption DEF mqtt_mq_currsz

\* What is left of c bytes after the first s of them, when s + z of them are
\* used.
LEMMA Remainder ==
    ASSUME NEW c \in Nat, NEW s \in Nat, NEW z \in Nat, s + z <= c
    PROVE  c - s \in Nat /\ s + (c - s) = c /\ c - s <= c
OBVIOUS

\* A packet that ends where r + n bytes end, ends where n bytes end once it has
\* been moved down by r.
LEMMA ShiftEnd ==
    ASSUME NEW s \in Nat, NEW z \in Nat, NEW r \in Nat, NEW n \in Nat
    PROVE  /\ s + z <= r + n => (s - r) + z <= n
           /\ s + z = r + n  => (s - r) + z = n
OBVIOUS

\* Packing at most the bytes that are offered keeps below the next record.
LEMMA BelowTail ==
    ASSUME NEW c \in Nat, NEW z \in Nat, NEW n \in Nat, NEW t \in Int,
           NEW r \in Nat, c <= t, n <= z, z > 0 => c + z = t - r
    PROVE  c + n <= t
<1>1. CASE z = 0
  BY <1>1
<1>2. CASE z > 0
  BY <1>2
<1> QED BY <1>1, <1>2

\* An interval from 1 determines its end.
LEMMA SameInterval ==
    ASSUME NEW m \in Nat, NEW k \in Nat, 1..m = 1..k
    PROVE  m = k
<1>1. m \in 1..k \/ m = 0
  OBVIOUS
<1>2. k \in 1..m \/ k = 0
  OBVIOUS
<1> QED BY <1>1, <1>2

\* A function on 1..n is a sequence.
LEMMA FunctionIsSeq ==
    ASSUME NEW S, NEW n \in Nat, NEW f \in [1..n -> S]
    PROVE  f \in Seq(S)
BY SeqDef

\* The scan of mqtt_mq_clean stops at exactly one place.
LEMMA NewHeadExists ==
    ASSUME NEW q \in Queue
    PROVE  \E h \in 1..(Len(q.queue) + 1) : IsNewHead(q, h)
<1> DEFINE T == {i \in 1..Len(q.queue) : q.queue[i].state # "COMPLETE"}
<1>1. Len(q.queue) \in Nat /\ q.queue \in Seq(Message)
  BY LenProperties DEF Queue
<1>2. CASE T = {}
  <2> IsNewHead(q, Len(q.queue) + 1)
    BY <1>1, <1>2 DEF IsNewHead
  <2> QED BY <1>1
<1>3. CASE T # {}
  <2>1. T \subseteq Nat
    BY <1>1
  <2>2. PICK h \in T : \A y \in T : ~ (<<y, h>> \in OpToRel(<, Nat))
    <3> HIDE DEF T
    <3> QED BY <1>3, <2>1, WFMin, NatLessThanWellFounded
  <2>3. \A y \in T : ~ (y < h)
    BY <2>1, <2>2 DEF OpToRel
  <2>4. IsNewHead(q, h)
    BY <1>1, <2>3 DEF IsNewHead
  <2> QED BY <2>4, <1>1
<1> QED BY <1>2, <1>3

-----------------------------------------------------------------------------
(* Each operator preserves Good.                                            *)

\* Writing a label leaves a memory a memory.
LEMMA WriteType ==
    ASSUME NEW m \in [Addr -> Labels], NEW from, NEW to, NEW x \in Labels
    PROVE  Write(m, from, to, x) \in [Addr -> Labels]
BY DEF Write

\* An empty queue is good whatever the memory holds.
LEMMA InitGood ==
    ASSUME NEW m \in [Addr -> Labels]
    PROVE  Good(mqtt_mq_init(m))
<1> DEFINE q == mqtt_mq_init(m)
<1>1. /\ q.queue = <<>> /\ q.curr = 0 /\ q.curr_sz = mqtt_mq_currsz(0, 0)
      /\ q.mem = m /\ Len(q.queue) = 0 /\ DOMAIN q.queue = {}
  BY DEF mqtt_mq_init
<1>2. q \in Queue
  BY <1>1, EmptySeq, CurrszBound DEF mqtt_mq_init, Queue, Labels
<1>3. LayoutOf(q)
  BY <1>1, TailStep, MqAssumption DEF LayoutOf
<1>4. IntactOf(q)
  BY <1>1, TailStep, MqAssumption DEF IntactOf, Addr
<1> QED BY <1>2, <1>3, <1>4 DEF Good

\* A pack that fails writes only bytes that no packet and no record owns.
LEMMA FailedPackGood ==
    ASSUME NEW q, Good(q)
    PROVE  /\ Good(FailedPack(q))
           /\ FailedPack(q).queue = q.queue
           /\ FailedPack(q).curr = q.curr
           /\ FailedPack(q).curr_sz = q.curr_sz
<1> DEFINE n == IF q.curr_sz < HdrLen THEN q.curr_sz ELSE HdrLen
           f == FailedPack(q)
<1>1. /\ q \in Queue /\ Len(q.queue) \in Nat
      /\ DOMAIN q.queue = 1..Len(q.queue) /\ q.queue \in Seq(Message)
      /\ \A i \in DOMAIN q.queue : q.queue[i] \in Message
  BY LenProperties, ElementOfSeq DEF Good, Queue
<1>2. n \in Nat /\ n <= q.curr_sz
  BY <1>1, MqAssumption DEF Queue
<1>3. /\ f = [q EXCEPT !.mem = Write(q.mem, q.curr, q.curr + n, Junk)]
      /\ f.queue = q.queue /\ f.curr = q.curr /\ f.curr_sz = q.curr_sz
      /\ f.mem = Write(q.mem, q.curr, q.curr + n, Junk)
  BY <1>1 DEF FailedPack, Queue
<1>4. f \in Queue
  BY <1>1, <1>3, WriteType DEF Queue, Labels
<1>5. LayoutOf(f)
  BY <1>3 DEF LayoutOf, Good
<1>6. q.curr + n <= queue_tail(Len(q.queue))
  <2>1. /\ q.curr \in Nat /\ q.curr_sz \in Nat
        /\ q.curr <= queue_tail(Len(q.queue))
        /\ q.curr_sz = mqtt_mq_currsz(q.curr, Len(q.queue))
    BY <1>1 DEF Good, LayoutOf, Queue
  <2>2. q.curr_sz > 0 => q.curr + q.curr_sz = queue_tail(Len(q.queue) + 1)
    BY <1>1, <2>1, CurrszBound
  <2>3. /\ queue_tail(Len(q.queue) + 1) = queue_tail(Len(q.queue)) - RecSize
        /\ queue_tail(Len(q.queue)) \in Int
    BY <1>1, TailStep
  <2>4. RecSize \in Nat
    BY MqAssumption
  <2>5. q.curr_sz > 0 => q.curr + q.curr_sz = queue_tail(Len(q.queue)) - RecSize
    BY <2>2, <2>3
  <2> QED BY <1>2, <2>1, <2>3, <2>4, <2>5, BelowTail
<1>7. IntactOf(f)
  <2>1. \A a \in Addr : a \in Int
    BY MqAssumption DEF Addr
  <2>2. \A i \in DOMAIN q.queue, a \in Addr :
           (q.queue[i].start <= a /\ a < q.queue[i].start + q.queue[i].size)
              => f.mem[a] = q.queue[i].id
    <3> TAKE i \in DOMAIN q.queue, a \in Addr
    <3>1. q.queue[i].start + q.queue[i].size <= q.curr
      BY DEF Good, LayoutOf
    <3>2. q.queue[i].start \in Nat /\ q.queue[i].size \in Nat /\ q.curr \in Nat
      <4>1. q.queue[i] \in Message
        BY <1>1, ElementOfSeq, LenProperties DEF Queue
      <4> QED BY <1>1, <4>1, MqAssumption DEF Message, Queue
    <3> HAVE q.queue[i].start <= a /\ a < q.queue[i].start + q.queue[i].size
    <3>3. ~(q.curr <= a)
      BY <2>1, <3>1, <3>2
    <3>4. f.mem[a] = q.mem[a]
      BY <1>3, <3>3 DEF Write
    <3> QED BY <3>4 DEF Good, IntactOf
  <2>3. \A a \in Addr : queue_tail(Len(q.queue)) <= a => f.mem[a] = Rec
    <3>1. queue_tail(Len(q.queue)) \in Int /\ q.curr \in Nat
      BY <1>1, TailStep DEF Queue
    <3>2. \A a \in Addr : queue_tail(Len(q.queue)) <= a => ~(a < q.curr + n)
      BY <1>2, <1>6, <2>1, <3>1
    <3> QED BY <1>3, <3>2 DEF Write, Good, IntactOf
  <2> QED BY <1>3, <2>2, <2>3 DEF IntactOf
<1> QED BY <1>3, <1>4, <1>5, <1>7 DEF Good

\* Packing n <= curr_sz bytes at curr and registering them disturbs neither an
\* older packet nor an older record, and the new packet is whole.
LEMMA RegisterGood ==
    ASSUME NEW q, Good(q), NEW n \in Sizes, NEW id \in Ids, n <= q.curr_sz
    PROVE  Good(mqtt_mq_register(Pack(q, n, id), n, id))
<1> DEFINE p   == Pack(q, n, id)
           r   == mqtt_mq_register(p, n, id)
           len == Len(q.queue)
           new == [id |-> id, start |-> q.curr, size |-> n, state |-> "UNSENT"]
<1>1. /\ q \in Queue /\ len \in Nat
      /\ DOMAIN q.queue = 1..len /\ q.queue \in Seq(Message)
      /\ \A i \in 1..len : q.queue[i] \in Message
      /\ q.curr \in Nat /\ q.curr_sz \in Nat
  BY LenProperties, ElementOfSeq DEF Good, Queue
<1>2. n \in Nat /\ n > 0 /\ q.curr + n \in Nat
  BY <1>1, MqAssumption
<1>3. /\ p.queue = q.queue /\ p.curr = q.curr
      /\ p.mem = Write(q.mem, q.curr, q.curr + n, id)
  BY <1>1 DEF Pack, Queue
<1>4. /\ r.queue = Append(q.queue, new)
      /\ r.curr = q.curr + n
      /\ r.curr_sz = mqtt_mq_currsz(q.curr + n, len + 1)
      /\ r.mem = Write(p.mem, queue_tail(len) - RecSize, queue_tail(len), Rec)
      /\ r = [queue |-> r.queue, curr |-> r.curr, curr_sz |-> r.curr_sz,
              mem |-> r.mem]
  BY <1>3 DEF mqtt_mq_register
<1>5. new \in Message
  BY <1>1 DEF Message, States
<1>6. /\ Len(r.queue) = len + 1 /\ DOMAIN r.queue = 1..(len + 1)
      /\ r.queue \in Seq(Message)
      /\ \A i \in 1..len : r.queue[i] = q.queue[i]
      /\ r.queue[len + 1] = new
  BY <1>1, <1>4, <1>5
<1>7. /\ queue_tail(len + 1) = queue_tail(len) - RecSize
      /\ queue_tail(len) \in Int /\ queue_tail(len + 1) \in Int
  BY <1>1, TailStep
<1>8. q.curr + n <= queue_tail(len + 1)
  <2>1. q.curr_sz = mqtt_mq_currsz(q.curr, len)
    BY DEF Good, LayoutOf
  <2>2. q.curr_sz > 0
    BY <1>1, <1>2
  <2>3. q.curr + q.curr_sz = queue_tail(len + 1)
    <3> HIDE DEF len
    <3> QED BY <1>1, <2>1, <2>2, CurrszBound
  <2> QED BY <1>1, <1>2, <2>3
<1>9. r \in Queue
  <2>1. q.mem \in [Addr -> Labels]
    BY <1>1 DEF Queue, Labels
  <2>2. p.mem \in [Addr -> Labels]
    BY <1>3, <2>1, WriteType DEF Labels
  <2>3. r.mem \in [Addr -> Labels]
    BY <1>4, <2>2, WriteType DEF Labels
  <2>4. r.curr_sz \in Nat
    BY <1>1, <1>2, <1>4, CurrszBound
  <2> HIDE DEF r
  <2> QED BY <1>2, <1>4, <1>6, <2>3, <2>4 DEF Queue, Labels
<1>10. LayoutOf(r)
  <2> HIDE DEF r
  <2>0. /\ \A i \in 1..len : i > 1 =>
              q.queue[i].start = q.queue[i - 1].start + q.queue[i - 1].size
        /\ \A i \in 1..len : i = len =>
              q.queue[i].start + q.queue[i].size = q.curr
    BY <1>1 DEF Good, LayoutOf
  <2>1. \A i \in 1..len :
          /\ i = 1 => q.queue[i].start = 0
          /\ q.queue[i].start + q.queue[i].size <= q.curr
          /\ q.queue[i].start \in Nat /\ q.queue[i].size \in Nat
          /\ \A j \in 1..len : i < j =>
                q.queue[i].start + q.queue[i].size <= q.queue[j].start
    BY <1>1, MqAssumption DEF Good, LayoutOf, Message
  <2>2. len = 0 => q.curr = 0
    BY <1>1, EmptySeq DEF Good, LayoutOf
  <2>3. \A i \in 1..(len + 1) :
          /\ i = 1 => r.queue[i].start = 0
          /\ r.queue[i].start + r.queue[i].size <= r.curr
          /\ i = len + 1 => r.queue[i].start + r.queue[i].size = r.curr
          /\ \A j \in 1..(len + 1) : i < j =>
                r.queue[i].start + r.queue[i].size <= r.queue[j].start
    <3> TAKE i \in 1..(len + 1)
    <3>1. CASE i \in 1..len
      <4>1. r.queue[i] = q.queue[i] /\ i # len + 1
        BY <1>1, <1>6, <3>1
      <4>2. \A j \in 1..(len + 1) : i < j =>
               q.queue[i].start + q.queue[i].size <= r.queue[j].start
        <5> TAKE j \in 1..(len + 1)
        <5>1. CASE j = len + 1
          BY <1>6, <2>1, <3>1, <5>1
        <5>2. CASE j \in 1..len
          BY <1>6, <2>1, <3>1, <5>2
        <5> QED BY <1>1, <5>1, <5>2
      <4>3. q.queue[i].start + q.queue[i].size <= q.curr + n
        <5> DEFINE e == q.queue[i].start + q.queue[i].size
        <5>1. e \in Nat /\ e <= q.curr
          BY <2>1, <3>1
        <5> HIDE DEF e
        <5>2. e <= q.curr + n
          BY <1>1, <1>2, <5>1
        <5> QED BY <5>2 DEF e
      <4> QED BY <1>4, <2>1, <3>1, <4>1, <4>2, <4>3
    <3>2. CASE i = len + 1
      <4>1. r.queue[i] = new /\ r.curr = q.curr + n
        BY <1>4, <1>6, <3>2
      <4>2. r.queue[i].start = q.curr /\ r.queue[i].size = n
        BY <4>1
      <4>3. i = 1 => q.curr = 0
        BY <1>1, <2>2, <3>2
      <4>4. \A j \in 1..(len + 1) : ~(i < j)
        BY <1>1, <3>2
      <4> HIDE DEF new
      <4> QED BY <1>1, <1>2, <4>1, <4>2, <4>3, <4>4
    <3> QED BY <1>1, <3>1, <3>2
  <2>4. r.queue # <<>>
    BY <1>1, <1>6
  <2>5. \A i \in 1..(len + 1) : i > 1 =>
           r.queue[i].start = r.queue[i - 1].start + r.queue[i - 1].size
    <3> SUFFICES ASSUME NEW i \in 1..(len + 1), i > 1
                 PROVE  r.queue[i].start = r.queue[i - 1].start + r.queue[i - 1].size
      OBVIOUS
    <3>1. i - 1 \in 1..len /\ r.queue[i - 1] = q.queue[i - 1]
      BY <1>1, <1>6
    <3>2. CASE i = len + 1
      <4>1. i - 1 = len
        BY <1>1, <3>2
      <4> QED BY <1>6, <2>0, <3>1, <3>2, <4>1
    <3>3. CASE i \in 1..len
      BY <1>6, <2>0, <3>1, <3>3
    <3> QED BY <1>1, <3>2, <3>3
  <2> QED BY <1>4, <1>6, <1>8, <2>3, <2>4, <2>5 DEF LayoutOf
<1>11. IntactOf(r)
  <2>0. \A a \in Addr : a \in Int /\ a >= 0
    BY MqAssumption DEF Addr
  <2>1. \A a \in Addr : r.mem[a] =
           IF queue_tail(len + 1) <= a /\ a < queue_tail(len) THEN Rec
           ELSE IF q.curr <= a /\ a < q.curr + n THEN id
           ELSE q.mem[a]
    BY <1>3, <1>4, <1>7 DEF Write
  <2> HIDE DEF r
  <2>2. ASSUME NEW i \in 1..(len + 1), NEW a \in Addr,
               r.queue[i].start <= a, a < r.queue[i].start + r.queue[i].size
        PROVE  r.mem[a] = r.queue[i].id
    <3>1. CASE i = len + 1
      <4>1. q.curr <= a /\ a < q.curr + n /\ r.queue[i].id = id
        BY <1>6, <2>2, <3>1
      <4>2. ~(queue_tail(len + 1) <= a)
        BY <1>1, <1>2, <1>7, <1>8, <2>0, <4>1
      <4> QED BY <2>1, <4>1, <4>2
    <3>2. CASE i \in 1..len
      <4>1. /\ q.queue[i].start <= a /\ a < q.queue[i].start + q.queue[i].size
            /\ r.queue[i].id = q.queue[i].id
        BY <1>6, <2>2, <3>2
      <4>2. a < q.curr
        <5>1. q.queue[i].start + q.queue[i].size <= q.curr
          BY <1>1, <3>2 DEF Good, LayoutOf
        <5>2. q.queue[i].start \in Nat /\ q.queue[i].size \in Nat
          BY <1>1, <3>2, MqAssumption DEF Message
        <5> QED BY <1>1, <2>0, <4>1, <5>1, <5>2
      <4>3. ~(queue_tail(len + 1) <= a)
        BY <1>1, <1>2, <1>7, <1>8, <2>0, <4>2
      <4>4. q.mem[a] = q.queue[i].id
        BY <1>1, <3>2, <4>1 DEF Good, IntactOf
      <4>5. ~(q.curr <= a)
        BY <1>1, <2>0, <4>2
      <4> QED BY <2>1, <4>1, <4>3, <4>4, <4>5
    <3> QED BY <1>1, <3>1, <3>2
  <2>3. ASSUME NEW a \in Addr, queue_tail(len + 1) <= a
        PROVE  r.mem[a] = Rec
    <3>1. CASE a < queue_tail(len)
      BY <2>1, <2>3, <3>1
    <3>2. CASE queue_tail(len) <= a
      <4>1. q.mem[a] = Rec
        BY <3>2 DEF Good, IntactOf
      <4>2. ~(a < q.curr + n) /\ ~(a < queue_tail(len))
        BY <1>1, <1>2, <1>7, <1>8, <2>0, <2>3, <3>2
      <4> QED BY <2>1, <4>1, <4>2
    <3> QED BY <1>7, <2>0, <3>1, <3>2
  <2> QED BY <1>6, <2>2, <2>3 DEF IntactOf
<1> QED BY <1>9, <1>10, <1>11 DEF Good

\* Arithmetic of moving every start down by r.
LEMMA ShiftOrder ==
    ASSUME NEW s \in Nat, NEW z \in Nat, NEW t \in Nat, NEW r \in Nat,
           s + z <= t
    PROVE  (s - r) + z <= t - r
OBVIOUS

\* Dropping the messages before h: the two memmoves and the adjustment of the
\* starts keep every remaining packet with its own bytes.
LEMMA DropGood ==
    ASSUME NEW q, Good(q), NEW h \in 2..Len(q.queue)
    PROVE  Good(DropBefore(q, h))
<1> DEFINE len      == Len(q.queue)
           removing == q.queue[h].start
           n        == q.curr - removing
           keep     == len - h + 1
           packets  == Move(q.mem, 0, removing, n)
           d        == DropBefore(q, h)
<1>1. /\ q \in Queue /\ len \in Nat
      /\ DOMAIN q.queue = 1..len /\ q.queue \in Seq(Message)
      /\ \A i \in 1..len : q.queue[i] \in Message
      /\ q.curr \in Nat /\ q.curr_sz \in Nat
      /\ q.mem \in [Addr -> Labels]
  BY LenProperties, ElementOfSeq DEF Good, Queue, Labels
<1>2. /\ \A i \in 1..len :
          /\ q.queue[i].start \in Nat /\ q.queue[i].size \in Nat
          /\ q.queue[i].size > 0
          /\ q.queue[i].start + q.queue[i].size <= q.curr
          /\ i = len => q.queue[i].start + q.queue[i].size = q.curr
      /\ \A i, j \in 1..len : i < j =>
            q.queue[i].start + q.queue[i].size <= q.queue[j].start
      /\ q.curr <= queue_tail(len)
  <2>0. \A m \in Message : m.start \in Nat /\ m.size \in Nat /\ m.size > 0
    <3>1. \A x \in Sizes : x \in Nat /\ x > 0
      BY MqAssumption
    <3> QED BY <3>1 DEF Message
  <2>1. \A i \in 1..len : q.queue[i].start \in Nat /\ q.queue[i].size \in Nat
                             /\ q.queue[i].size > 0
    BY <1>1, <2>0
  <2> QED BY <1>1, <2>1 DEF Good, LayoutOf
<1>3. /\ keep \in Nat /\ keep > 0 /\ keep \in 0..len /\ h \in 1..len
      /\ keep = len - h + 1
      /\ removing = q.queue[h].start
      /\ removing \in Nat /\ n \in Nat /\ removing + n = q.curr
  <2>1. h \in 1..len /\ keep \in Nat /\ keep > 0 /\ keep \in 0..len
    BY <1>1
  <2>2. /\ q.queue[h].start \in Nat /\ q.queue[h].size \in Nat
        /\ q.queue[h].start + q.queue[h].size <= q.curr
    BY <1>2, <2>1
  <2>3. n \in Nat /\ removing + n = q.curr
    BY <1>1, <2>2, Remainder
  <2> QED BY <2>1, <2>2, <2>3
<1>4. /\ d.queue = [i \in 1..keep |->
                      [q.queue[i + h - 1] EXCEPT !.start = @ - removing]]
      /\ d.curr = n
      /\ d.curr_sz = mqtt_mq_currsz(n, keep)
      /\ d.mem = Move(packets, queue_tail(keep), queue_tail(len), RecSize * keep)
      /\ d = [queue |-> d.queue, curr |-> d.curr, curr_sz |-> d.curr_sz,
              mem |-> d.mem]
  BY DEF DropBefore
<1> HIDE DEF removing, n, keep
<1>5. \A i \in 1..keep : i + h - 1 \in 1..len /\ i + h - 1 >= h
  BY <1>1, <1>3
<1>6. \A i \in 1..keep :
          /\ d.queue[i].start = q.queue[i + h - 1].start - removing
          /\ d.queue[i].size = q.queue[i + h - 1].size
          /\ d.queue[i].id = q.queue[i + h - 1].id
          /\ d.queue[i].state = q.queue[i + h - 1].state
          /\ q.queue[i + h - 1].start >= removing
          /\ d.queue[i] \in Message
  <2> TAKE i \in 1..keep
  <2> DEFINE k == i + h - 1
  <2>1. k \in 1..len /\ k >= h
    BY <1>5
  <2>2. q.queue[k] \in Message /\ d.queue[i] = [q.queue[k] EXCEPT !.start = @ - removing]
    BY <1>1, <1>4, <2>1
  <2>3. q.queue[k].start >= removing
    <3>1. CASE k = h
      BY <1>3, <3>1
    <3>2. CASE h < k
      <4>1. q.queue[h].start + q.queue[h].size <= q.queue[k].start
        BY <1>2, <1>3, <2>1, <3>2
      <4>2. q.queue[h].size \in Nat /\ q.queue[k].start \in Nat
        BY <1>2, <1>3, <2>1
      <4>3. q.queue[h].start \in Nat /\ removing = q.queue[h].start
        BY <1>2, <1>3
      <4> HIDE DEF k
      <4>4. q.queue[k].start >= q.queue[h].start
        BY <4>1, <4>2, <4>3
      <4> QED BY <4>3, <4>4
    <3> QED BY <1>3, <2>1, <3>1, <3>2
  <2>4. q.queue[k].start - removing \in Nat
    <3>1. q.queue[k].start \in Nat /\ removing \in Nat
      BY <1>2, <1>3, <2>1
    <3> QED BY <2>3, <3>1
  <2> HIDE DEF k, d
  <2> QED BY <2>2, <2>3, <2>4 DEF Message, k
<1>7. /\ d.queue \in Seq(Message) /\ Len(d.queue) = keep
      /\ DOMAIN d.queue = 1..keep
  <2>1. DOMAIN d.queue = 1..keep
    BY <1>4
  <2>2. d.queue \in [1..keep -> Message]
    BY <1>4, <1>6
  <2> HIDE DEF d
  <2>3. d.queue \in Seq(Message)
    <3>1. keep \in Nat
      BY <1>3
    <3> HIDE DEF keep
    <3> QED BY <2>2, <3>1, FunctionIsSeq
  <2>4. Len(d.queue) = keep
    <3>1. Len(d.queue) \in Nat /\ DOMAIN d.queue = 1..Len(d.queue)
      BY <2>3, LenProperties
    <3>2. keep \in Nat
      BY <1>3
    <3> DEFINE m == Len(d.queue)
    <3>3. m \in Nat /\ 1..m = 1..keep
      BY <2>1, <3>1
    <3> HIDE DEF m, keep
    <3>4. m = keep
      BY <3>2, <3>3, SameInterval
    <3> QED BY <3>4 DEF m
  <2> QED BY <2>1, <2>3, <2>4
<1>8. /\ queue_tail(keep) \in Int /\ queue_tail(len) \in Int
      /\ queue_tail(len) <= queue_tail(keep)
      /\ RecSize * keep \in Nat
      /\ queue_tail(keep) + RecSize * keep = BufSize
      /\ queue_tail(len) + RecSize * keep <= BufSize
  <2>1. queue_tail(len) \in Int
    BY <1>1, TailStep
  <2>2. len \in Nat /\ keep \in 0..len
    BY <1>1, <1>3
  <2> HIDE DEF len
  <2> QED BY <2>1, <2>2, TailMonotonic
<1>9. LayoutOf(d)
  <2> HIDE DEF d
  <2>1. \A i \in 1..keep :
          /\ i = 1 => d.queue[i].start = 0
          /\ d.queue[i].start + d.queue[i].size <= n
          /\ i = keep => d.queue[i].start + d.queue[i].size = n
    <3> TAKE i \in 1..keep
    <3> DEFINE k == i + h - 1
    <3>1. k \in 1..len /\ (i = 1 => k = h) /\ (i = keep => k = len)
      BY <1>1, <1>3, <1>5
    <3>2. /\ d.queue[i].start = q.queue[k].start - removing
          /\ d.queue[i].size = q.queue[k].size
      BY <1>6
    <3> HIDE DEF k
    <3>3. /\ q.queue[k].start \in Nat /\ q.queue[k].size \in Nat
          /\ q.queue[k].start + q.queue[k].size <= q.curr
          /\ k = len => q.queue[k].start + q.queue[k].size = q.curr
      BY <1>2, <3>1
    <3>4. removing \in Nat /\ n \in Nat /\ removing + n = q.curr
          /\ (k = h => q.queue[k].start = removing)
      BY <1>3
    <3> DEFINE st == q.queue[k].start
               sz == q.queue[k].size
    <3>a. /\ st \in Nat /\ sz \in Nat /\ st + sz <= removing + n
          /\ k = len => st + sz = removing + n
      BY <3>3, <3>4
    <3> HIDE DEF st, sz
    <3>b. /\ (st - removing) + sz <= n
          /\ k = len => (st - removing) + sz = n
      BY <3>4, <3>a, ShiftEnd
    <3>5. (q.queue[k].start - removing) + q.queue[k].size <= n
      BY <3>b DEF st, sz
    <3>6. k = len => (q.queue[k].start - removing) + q.queue[k].size = n
      BY <3>b DEF st, sz
    <3>7. k = h => q.queue[k].start - removing = 0
      BY <3>4
    <3> QED BY <3>1, <3>2, <3>5, <3>6, <3>7
  <2>2. \A i, j \in 1..keep : i < j =>
          d.queue[i].start + d.queue[i].size <= d.queue[j].start
    <3> SUFFICES ASSUME NEW i \in 1..keep, NEW j \in 1..keep, i < j
                 PROVE  d.queue[i].start + d.queue[i].size <= d.queue[j].start
      OBVIOUS
    <3> DEFINE k == i + h - 1
               l == j + h - 1
    <3>1. k \in 1..len /\ l \in 1..len /\ k < l
      BY <1>1, <1>3, <1>5
    <3>2. /\ d.queue[i].start = q.queue[k].start - removing
          /\ d.queue[i].size = q.queue[k].size
          /\ d.queue[j].start = q.queue[l].start - removing
      BY <1>6
    <3> HIDE DEF k, l
    <3>3. /\ q.queue[k].start \in Nat /\ q.queue[k].size \in Nat
          /\ q.queue[l].start \in Nat /\ removing \in Nat
          /\ q.queue[k].start + q.queue[k].size <= q.queue[l].start
      BY <1>2, <1>3, <3>1
    <3>4. (q.queue[k].start - removing) + q.queue[k].size
             <= q.queue[l].start - removing
      BY <3>3, ShiftOrder
    <3> QED BY <3>2, <3>4
  <2>3. n <= queue_tail(keep)
    <3>1. n <= q.curr
      BY <1>1, <1>3
    <3>2. q.curr <= queue_tail(keep)
      BY <1>1, <1>2, <1>8
    <3> QED BY <1>1, <1>3, <1>8, <3>1, <3>2
  <2>4. d.queue # <<>>
    BY <1>3, <1>7
  <2>5. \A i \in 1..keep : i > 1 =>
           d.queue[i].start = d.queue[i - 1].start + d.queue[i - 1].size
    <3> SUFFICES ASSUME NEW i \in 1..keep, i > 1
                 PROVE  d.queue[i].start = d.queue[i - 1].start + d.queue[i - 1].size
      OBVIOUS
    <3> DEFINE j == i - 1
               k == i + h - 1
    <3>1. /\ k \in 1..len /\ k > 1 /\ k - 1 \in 1..len
          /\ j \in 1..keep /\ j + h - 1 = k - 1
      <4>1. /\ i \in Nat /\ i > 1 /\ i <= keep /\ h \in Nat /\ h >= 2 /\ h <= len
            /\ keep \in Nat /\ len \in Nat /\ keep = len - h + 1
        BY <1>1, <1>3
      <4> HIDE DEF len
      <4> QED BY <4>1
    <3>2. /\ d.queue[i].start = q.queue[k].start - removing
          /\ d.queue[i - 1].start = q.queue[k - 1].start - removing
          /\ d.queue[i - 1].size = q.queue[k - 1].size
      <4>1. d.queue[i].start = q.queue[k].start - removing
        BY <1>6
      <4> HIDE DEF j
      <4>2. /\ d.queue[j].start = q.queue[j + h - 1].start - removing
            /\ d.queue[j].size = q.queue[j + h - 1].size
        BY <1>6, <3>1
      <4> QED BY <3>1, <4>1, <4>2 DEF j
    <3> HIDE DEF k
    <3>3. q.queue[k].start = q.queue[k - 1].start + q.queue[k - 1].size
      BY <1>1, <3>1 DEF Good, LayoutOf
    <3> DEFINE st == q.queue[k - 1].start
               sz == q.queue[k - 1].size
    <3>4. st \in Nat /\ sz \in Nat /\ removing \in Nat
      BY <1>2, <1>3, <3>1
    <3> HIDE DEF st, sz
    <3>5. (st + sz) - removing = (st - removing) + sz
      BY <3>4
    <3> QED BY <3>2, <3>3, <3>5 DEF st, sz
  <2> QED BY <1>4, <1>7, <2>1, <2>2, <2>3, <2>4, <2>5 DEF LayoutOf
<1>10. \A a \in Addr : a \in Int /\ a >= 0 /\ a < BufSize
  BY MqAssumption DEF Addr
<1>11. \A a \in Int : a >= 0 /\ a < BufSize => a \in Addr
  BY MqAssumption DEF Addr
<1>12. \A a \in Addr : packets[a] = IF a < n THEN q.mem[a + removing] ELSE q.mem[a]
  <2> TAKE a \in Addr
  <2>1. a \in Int /\ 0 <= a /\ n \in Nat /\ removing \in Nat
    BY <1>3, <1>10
  <2>2. 0 + n = n /\ a - 0 + removing = a + removing
    BY <2>1
  <2> QED BY <2>1, <2>2 DEF Move
<1>13. \A a \in Addr : a < n => a + removing \in Addr
  <2> TAKE a \in Addr
  <2>1. /\ q.curr \in Nat /\ q.curr <= queue_tail(len) /\ queue_tail(len) \in Int
        /\ queue_tail(len) <= BufSize
    BY <1>1, <1>2, <1>8, MqAssumption
  <2>2. removing \in Nat /\ n \in Nat /\ removing + n = q.curr
    BY <1>3
  <2>3. a \in Int /\ a >= 0
    BY <1>10
  <2>4. a < n => a + removing \in Int /\ a + removing >= 0 /\ a + removing < BufSize
    BY <2>1, <2>2, <2>3, MqAssumption
  <2> QED BY <1>11, <2>4
<1>14. \A a \in Addr : d.mem[a] =
          IF queue_tail(keep) <= a
          THEN packets[a - queue_tail(keep) + queue_tail(len)] ELSE packets[a]
  BY <1>4, <1>8, <1>10 DEF Move
<1>15. \A a \in Addr : queue_tail(keep) <= a =>
          /\ a - queue_tail(keep) + queue_tail(len) \in Addr
          /\ queue_tail(len) <= a - queue_tail(keep) + queue_tail(len)
  BY <1>1, <1>2, <1>8, <1>10, <1>11
<1>16. d \in Queue
  <2>1. packets \in [Addr -> Labels]
    <3>1. \A a \in Addr : packets[a] \in Labels
      BY <1>1, <1>12, <1>13
    <3> QED BY <3>1 DEF Move
  <2>2. d.mem \in [Addr -> Labels]
    <3> HIDE DEF packets
    <3>1. \A a \in Addr : d.mem[a] \in Labels
      BY <1>14, <1>15, <2>1
    <3> QED BY <1>4, <3>1 DEF Move
  <2>3. d.curr_sz \in Nat /\ d.curr \in Nat
    BY <1>3, <1>4, CurrszBound
  <2> HIDE DEF d
  <2> QED BY <1>4, <1>7, <2>2, <2>3 DEF Queue, Labels
<1>17. IntactOf(d)
  <2> HIDE DEF d, packets
  <2>1. ASSUME NEW i \in 1..keep, NEW a \in Addr,
               d.queue[i].start <= a, a < d.queue[i].start + d.queue[i].size
        PROVE  d.mem[a] = d.queue[i].id
    <3> DEFINE k == i + h - 1
               b == a + removing
    <3>1. k \in 1..len
      BY <1>5
    <3>2. /\ d.queue[i].start = q.queue[k].start - removing
          /\ d.queue[i].size = q.queue[k].size
          /\ d.queue[i].id = q.queue[k].id
      BY <1>6
    <3> HIDE DEF k
    <3>3. /\ q.queue[k].start <= b /\ b < q.queue[k].start + q.queue[k].size
          /\ a < n
      <4>1. /\ q.queue[k].start \in Nat /\ q.queue[k].size \in Nat
            /\ q.queue[k].start + q.queue[k].size <= q.curr
        BY <1>2, <3>1
      <4>2. removing \in Nat /\ n \in Nat /\ removing + n = q.curr /\ a \in Int
        BY <1>3, <1>10
      <4>3. /\ q.queue[k].start - removing <= a
            /\ a < (q.queue[k].start - removing) + q.queue[k].size
        BY <2>1, <3>2
      <4>4. q.curr \in Nat
        BY <1>1
      <4> DEFINE st == q.queue[k].start
                 sz == q.queue[k].size
                 cu == q.curr
      <4>5. /\ st \in Nat /\ sz \in Nat /\ cu \in Nat /\ st + sz <= cu
            /\ removing + n = cu /\ st - removing <= a
            /\ a < (st - removing) + sz
        BY <4>1, <4>2, <4>3, <4>4
      <4> HIDE DEF st, sz, cu
      <4>6. st <= a + removing /\ a + removing < st + sz /\ a < n
        BY <4>2, <4>5
      <4> QED BY <4>6 DEF st, sz
    <3>4. b \in Addr
      BY <1>13, <3>3
    <3>5. q.mem[b] = q.queue[k].id
      BY <1>1, <3>1, <3>3, <3>4 DEF Good, IntactOf
    <3>6. ~(queue_tail(keep) <= a)
      <4>1. /\ q.curr \in Nat /\ q.curr <= queue_tail(len)
            /\ removing \in Nat /\ n \in Nat /\ removing + n = q.curr
        BY <1>1, <1>2, <1>3
      <4>2. a \in Int
        BY <1>10
      <4> QED BY <1>8, <3>3, <4>1, <4>2
    <3>7. d.mem[a] = packets[a] /\ packets[a] = q.mem[b]
      BY <1>12, <1>14, <3>3, <3>6
    <3> QED BY <3>2, <3>5, <3>7
  <2>2. ASSUME NEW a \in Addr, queue_tail(keep) <= a
        PROVE  d.mem[a] = Rec
    <3> DEFINE b == a - queue_tail(keep) + queue_tail(len)
    <3>1. b \in Addr /\ queue_tail(len) <= b /\ d.mem[a] = packets[b]
      BY <1>14, <1>15, <2>2
    <3> HIDE DEF b
    <3>2. q.mem[b] = Rec
      BY <3>1 DEF Good, IntactOf
    <3>3. ~(b < n)
      <4>1. /\ q.curr \in Nat /\ q.curr <= queue_tail(len)
            /\ removing \in Nat /\ n \in Nat /\ removing + n = q.curr
        BY <1>1, <1>2, <1>3
      <4>2. b \in Int
        BY <1>10, <3>1
      <4> QED BY <1>8, <3>1, <4>1, <4>2
    <3> QED BY <1>12, <3>1, <3>2, <3>3
  <2> QED BY <1>7, <2>1, <2>2 DEF IntactOf
<1> QED BY <1>9, <1>16, <1>17 DEF Good

\* mqtt_mq_clean keeps a good queue good.
LEMMA CleanGood ==
    ASSUME NEW q, Good(q)
    PROVE  Good(mqtt_mq_clean(q))
<1> DEFINE h == CHOOSE k \in 1..(Len(q.queue) + 1) : IsNewHead(q, k)
<1>1. q \in Queue /\ Len(q.queue) \in Nat /\ q.mem \in [Addr -> Labels]
  BY LenProperties DEF Good, Queue, Labels
<1>2. h \in 1..(Len(q.queue) + 1)
  BY <1>1, NewHeadExists
<1>3. mqtt_mq_clean(q) = IF h = Len(q.queue) + 1 THEN mqtt_mq_init(q.mem)
                         ELSE IF h = 1 THEN q ELSE DropBefore(q, h)
  BY DEF mqtt_mq_clean
<1> HIDE DEF h
<1>4. CASE h = Len(q.queue) + 1
  BY <1>1, <1>3, <1>4, InitGood
<1>5. CASE h # Len(q.queue) + 1 /\ h = 1
  BY <1>3, <1>5
<1>6. CASE h # Len(q.queue) + 1 /\ h # 1
  <2>1. h \in 2..Len(q.queue)
    BY <1>1, <1>2, <1>6
  <2> QED BY <1>3, <1>6, <2>1, DropGood
<1> QED BY <1>4, <1>5, <1>6

\* A change of a message's state moves no byte.
LEMMA MarkGood ==
    ASSUME NEW q, Good(q), NEW i \in DOMAIN q.queue, NEW s \in States
    PROVE  Good([q EXCEPT !.queue[i].state = s])
<1> DEFINE r == [q EXCEPT !.queue[i].state = s]
           e == [q.queue[i] EXCEPT !.state = s]
<1>1. /\ q \in Queue /\ Len(q.queue) \in Nat
      /\ DOMAIN q.queue = 1..Len(q.queue) /\ q.queue \in Seq(Message)
      /\ \A k \in DOMAIN q.queue : q.queue[k] \in Message
  BY LenProperties, ElementOfSeq DEF Good, Queue
<1>2. /\ r.queue = [q.queue EXCEPT ![i] = e]
      /\ r.curr = q.curr /\ r.curr_sz = q.curr_sz /\ r.mem = q.mem
      /\ r = [q EXCEPT !.queue = r.queue]
  BY <1>1 DEF Queue
<1>3. /\ e \in Message /\ e.start = q.queue[i].start
      /\ e.size = q.queue[i].size /\ e.id = q.queue[i].id
  BY <1>1 DEF Message
<1>4. /\ r.queue \in Seq(Message) /\ Len(r.queue) = Len(q.queue)
      /\ DOMAIN r.queue = DOMAIN q.queue
      /\ \A k \in DOMAIN q.queue : r.queue[k] = IF k = i THEN e ELSE q.queue[k]
  <2> HIDE DEF e, r
  <2>1. r.queue \in Seq(Message) /\ Len(r.queue) = Len(q.queue)
    BY <1>1, <1>2, <1>3, ExceptSeq
  <2> QED BY <1>1, <1>2, <2>1
<1> HIDE DEF e, r
<1>5. \A k \in DOMAIN q.queue : /\ r.queue[k].start = q.queue[k].start
                                /\ r.queue[k].size = q.queue[k].size
                                /\ r.queue[k].id = q.queue[k].id
  BY <1>3, <1>4
<1>6. r \in Queue
  BY <1>1, <1>2, <1>4 DEF Queue
<1>7. LayoutOf(r)
  <2>1. q.queue # <<>>
    OBVIOUS
  <2>2. r.queue # <<>>
    BY <1>1, <1>4
  <2> QED BY <1>2, <1>4, <1>5, <2>2 DEF Good, LayoutOf
<1>8. IntactOf(r)
  BY <1>2, <1>4, <1>5 DEF Good, IntactOf
<1> QED BY <1>6, <1>7, <1>8 DEF Good, r

-----------------------------------------------------------------------------
(* The invariant of the specification.                                      *)

IInv == Good(mq) /\ refused \in Sizes \cup {0}

\* The queue of a new client is good.
LEMMA InitIInv == Init => IInv
BY InitGood DEF Init, IInv, Labels

\* No operation on the send buffer leaves the inductive invariant.
LEMMA NextIInv == IInv /\ [Next]_vars => IInv'
<1> SUFFICES ASSUME IInv, [Next]_vars PROVE IInv'
  OBVIOUS
<1>0. Good(mq) /\ refused \in Sizes \cup {0}
  BY DEF IInv
<1>1. ASSUME NEW n \in Sizes, NEW id \in Ids, MQTT_CLIENT_TRY_PACK(n, id)
      PROVE  IInv'
  <2> DEFINE c == mqtt_mq_clean(FailedPack(mq))
  <2>1. Good(c)
    BY <1>0, FailedPackGood, CleanGood
  <2>2. CASE n <= mq.curr_sz
    <3>1. mq' = mqtt_mq_register(Pack(mq, n, id), n, id) /\ refused' = refused
      BY <1>1, <2>2 DEF MQTT_CLIENT_TRY_PACK
    <3>2. Good(mq')
      BY <1>0, <2>2, <3>1, RegisterGood
    <3> QED BY <1>0, <3>1, <3>2 DEF IInv, Good, LayoutOf, IntactOf
  <2>3. CASE ~(n <= mq.curr_sz) /\ n <= c.curr_sz
    <3>1. mq' = mqtt_mq_register(Pack(c, n, id), n, id) /\ refused' = refused
      BY <1>1, <2>3 DEF MQTT_CLIENT_TRY_PACK
    <3> HIDE DEF c
    <3>2. Good(mq')
      BY <2>1, <2>3, <3>1, RegisterGood
    <3> QED BY <1>0, <3>1, <3>2 DEF IInv, Good, LayoutOf, IntactOf
  <2>4. CASE ~(n <= mq.curr_sz) /\ ~(n <= c.curr_sz)
    <3>1. mq' = FailedPack(c) /\ refused' = n
      BY <1>1, <2>4 DEF MQTT_CLIENT_TRY_PACK
    <3> HIDE DEF c
    <3>2. Good(mq')
      BY <2>1, <3>1, FailedPackGood
    <3> QED BY <3>1, <3>2 DEF IInv, Good, LayoutOf, IntactOf
  <2> QED BY <2>2, <2>3, <2>4
<1>2. ASSUME NEW i \in DOMAIN mq.queue, Sent(i)
      PROVE  IInv'
  <2>1. PICK s \in {"AWAITING_ACK", "COMPLETE"} :
           mq' = [mq EXCEPT !.queue[i].state = s]
    BY <1>2 DEF Sent
  <2>2. Good(mq')
    BY <1>0, <2>1, MarkGood DEF States
  <2> QED BY <1>0, <1>2, <2>2 DEF Sent, IInv, Good, LayoutOf, IntactOf
<1>3. ASSUME NEW i \in DOMAIN mq.queue, Acked(i)
      PROVE  IInv'
  <2>1. Good(mq')
    BY <1>0, <1>3, MarkGood DEF Acked, States
  <2> QED BY <1>0, <1>3, <2>1 DEF Acked, IInv, Good, LayoutOf, IntactOf
<1>4. CASE mqtt_init
  <2>1. mq.mem \in [Addr -> Labels]
    BY <1>0 DEF Good, Queue, Labels
  <2>2. Good(mq')
    BY <1>4, <2>1, InitGood DEF mqtt_init
  <2> QED BY <1>4, <2>2 DEF mqtt_init, IInv, Good, LayoutOf, IntactOf
<1>5. CASE UNCHANGED vars
  BY <1>0, <1>5 DEF vars, IInv, Good, LayoutOf, IntactOf
<1> QED BY <1>1, <1>2, <1>3, <1>4, <1>5 DEF Next

\* The inductive invariant holds in every reachable state.
LEMMA SpecIInv == Spec => []IInv
BY InitIInv, NextIInv, PTL DEF Spec

\* For every buffer size, record size and mix of packet sizes, the offsets and
\* lengths computed by mqtt_mq_register and mqtt_mq_clean never wrap.
THEOREM TypeCorrect == Spec => []TypeOK
<1>1. IInv => TypeOK
  BY DEF IInv, TypeOK, Good
<1> QED BY <1>1, SpecIInv, PTL

\* Packets never overlap each other or the records, and curr_sz is never stale.
THEOREM LayoutCorrect == Spec => []Layout
<1>1. IInv => Layout
  BY DEF IInv, Layout, Good
<1> QED BY <1>1, SpecIInv, PTL

\* Whatever sequence of staging, sending, acknowledging and cleaning the client
\* goes through, a queued packet still holds the bytes that were packed.
THEOREM QueuedBytesIntact == Spec => []NoCorruption
<1>1. IInv => NoCorruption
  BY DEF IInv, NoCorruption, Good
<1> QED BY <1>1, SpecIInv, PTL
-----------------------------------------------------------------------------
(* What the operations show to a user of the queue, who knows of messages    *)
(* and their states but not of bytes.                                       *)

View(q) == [i \in DOMAIN q.queue |->
               [id |-> q.queue[i].id, state |-> q.queue[i].state]]

Shown == [id : Ids, state : States]

\* The queue d holds the messages of q behind the first k.
Rest(d, q, k) ==
    /\ Len(d.queue) = Len(q.queue) - k
    /\ \A i \in 1..Len(d.queue) : /\ d.queue[i].id = q.queue[i + k].id
                                  /\ d.queue[i].state = q.queue[i + k].state

\* The first k messages of q may be forgotten, and v is the view of the others.
Forgets(q, k, v) ==
    /\ k \in 0..Len(View(q))
    /\ \A i \in 1..k : q.queue[i].state = "COMPLETE"
    /\ v = SubSeq(View(q), k + 1, Len(View(q)))

\* The view shows every record of the queue, in its place.
LEMMA ViewType ==
    ASSUME NEW q \in Queue
    PROVE  /\ View(q) \in Seq(Shown)
           /\ Len(q.queue) \in Nat /\ DOMAIN q.queue = 1..Len(q.queue)
           /\ Len(View(q)) = Len(q.queue)
           /\ \A i \in 1..Len(q.queue) :
                 View(q)[i] = [id |-> q.queue[i].id, state |-> q.queue[i].state]
<1>1. /\ q.queue \in Seq(Message) /\ Len(q.queue) \in Nat
      /\ DOMAIN q.queue = 1..Len(q.queue)
      /\ \A i \in 1..Len(q.queue) : q.queue[i] \in Message
  BY LenProperties, ElementOfSeq DEF Queue
<1>2. \A i \in 1..Len(q.queue) :
         [id |-> q.queue[i].id, state |-> q.queue[i].state] \in Shown
  BY <1>1 DEF Message, Shown
<1>3. View(q) \in [1..Len(q.queue) -> Shown]
  BY <1>1, <1>2 DEF View
<1>4. View(q) \in Seq(Shown)
  BY <1>1, <1>3, FunctionIsSeq
<1>5. Len(View(q)) = Len(q.queue)
  <2>1. Len(View(q)) \in Nat /\ DOMAIN View(q) = 1..Len(View(q))
    BY <1>4, LenProperties
  <2>2. DOMAIN View(q) = 1..Len(q.queue)
    BY <1>3
  <2> QED
    BY <1>1, <2>1, <2>2, SameInterval
<1> QED
  BY <1>1, <1>4, <1>5 DEF View

\* Dropping the first k records drops the first k messages of the view.
LEMMA RestShown ==
    ASSUME NEW q \in Queue, NEW d \in Queue, NEW k \in 0..Len(q.queue), Rest(d, q, k)
    PROVE  View(d) = SubSeq(View(q), k + 1, Len(View(q)))
<1> DEFINE v   == View(q)
           len == Len(q.queue)
           s   == SubSeq(v, k + 1, len)
<1>1. /\ v \in Seq(Shown) /\ Len(v) = len /\ len \in Nat /\ k \in Nat
      /\ \A i \in 1..len : v[i] = [id |-> q.queue[i].id, state |-> q.queue[i].state]
  BY ViewType
<1>2. /\ View(d) \in Seq(Shown) /\ Len(View(d)) = Len(d.queue) /\ Len(d.queue) = len - k
      /\ \A i \in 1..Len(d.queue) :
            View(d)[i] = [id |-> d.queue[i].id, state |-> d.queue[i].state]
  BY ViewType DEF Rest
<1> HIDE DEF v
<1>3. \A i \in (k + 1)..len : v[i] \in Shown
  BY <1>1, ElementOfSeq
<1> HIDE DEF len
<1>4. /\ s \in Seq(Shown)
      /\ Len(s) = len - k
      /\ \A i \in 1..(len - k) : s[i] = v[i + k]
  <2>1. /\ s \in Seq(Shown)
        /\ Len(s) = IF k + 1 <= len THEN len - (k + 1) + 1 ELSE 0
        /\ \A i \in 1..(len - (k + 1) + 1) : s[i] = v[(k + 1) + i - 1]
    BY <1>1, <1>3, SubSeqProperties
  <2>2. k <= len
    BY <1>1 DEF len
  <2> HIDE DEF s
  <2>3. Len(s) = len - k /\ len - (k + 1) + 1 = len - k
    BY <1>1, <2>1, <2>2
  <2>4. \A i \in 1..(len - k) : s[i] = v[i + k]
    <3> TAKE i \in 1..(len - k)
    <3>1. (k + 1) + i - 1 = i + k
      BY <1>1
    <3> QED
      BY <2>1, <2>3, <3>1
  <2> QED
    BY <2>1, <2>3, <2>4
<1> HIDE DEF s
<1>5. \A i \in 1..Len(View(d)) : View(d)[i] = s[i]
  <2> TAKE i \in 1..Len(View(d))
  <2>1. i \in 1..(len - k) /\ i + k \in 1..len
    BY <1>1, <1>2
  <2>2. /\ View(d)[i] = [id |-> d.queue[i].id, state |-> d.queue[i].state]
        /\ d.queue[i].id = q.queue[i + k].id /\ d.queue[i].state = q.queue[i + k].state
    BY <1>2, <2>1 DEF Rest
  <2> QED
    BY <1>1, <1>4, <2>1, <2>2
<1>6. View(d) = s
  BY <1>2, <1>4, <1>5, SeqEqual
<1> QED
  BY <1>1, <1>6 DEF s, v, len

\* mqtt_mq_clean forgets a prefix of COMPLETE messages, and stops at a message
\* that is not COMPLETE or at the end.
LEMMA CleanForgets ==
    ASSUME NEW q, Good(q)
    PROVE  /\ \E k \in 0..Len(View(q)) : Forgets(q, k, View(mqtt_mq_clean(q)))
           /\ \/ mqtt_mq_clean(q).queue = <<>>
              \/ mqtt_mq_clean(q).queue[1].state # "COMPLETE"
<1> DEFINE len == Len(q.queue)
           h   == CHOOSE k \in 1..(len + 1) : IsNewHead(q, k)
           d   == mqtt_mq_clean(q)
<1>1. /\ q \in Queue /\ d \in Queue /\ len \in Nat /\ Len(View(q)) = len
      /\ q.queue \in Seq(Message) /\ q.mem \in [Addr -> Labels]
  BY CleanGood, ViewType DEF Good, Queue, Labels
<1>2. h \in 1..(len + 1) /\ IsNewHead(q, h)
  BY <1>1, NewHeadExists
<1>3. d = IF h = len + 1 THEN mqtt_mq_init(q.mem)
          ELSE IF h = 1 THEN q ELSE DropBefore(q, h)
  BY DEF mqtt_mq_clean
<1>4. /\ \A i \in 1..(h - 1) : q.queue[i].state = "COMPLETE"
      /\ h <= len => q.queue[h].state # "COMPLETE"
      /\ h - 1 \in 0..len
  BY <1>1, <1>2 DEF IsNewHead
<1> HIDE DEF h, d
<1>5. SUFFICES /\ Rest(d, q, h - 1)
               /\ d.queue = <<>> \/ d.queue[1].state # "COMPLETE"
  <2> SUFFICES ASSUME Rest(d, q, h - 1) PROVE Forgets(q, h - 1, View(d))
    BY <1>1, <1>4 DEF d
  <2> QED
    BY <1>1, <1>4, RestShown DEF Forgets
<1>6. CASE h = len + 1
  <2>1. d.queue = <<>> /\ Len(d.queue) = 0
    BY <1>3, <1>6 DEF mqtt_mq_init
  <2>2. len - (h - 1) = 0 /\ 1..0 = {}
    BY <1>1, <1>6
  <2> QED
    BY <2>1, <2>2 DEF Rest
<1>7. CASE h # len + 1 /\ h = 1
  <2>1. d = q /\ h - 1 = 0
    BY <1>3, <1>7
  <2>2. \A i \in 1..len : i + 0 = i
    BY <1>1
  <2> QED
    BY <1>1, <1>2, <1>4, <1>7, <2>1, <2>2 DEF Rest
<1>8. CASE h # len + 1 /\ h # 1
  <2> DEFINE keep == len - h + 1
  <2>1. h \in 2..len /\ keep \in Nat /\ keep >= 1 /\ keep = len - (h - 1)
    BY <1>1, <1>2, <1>8
  <2>2. d.queue = [i \in 1..keep |->
                     [q.queue[i + h - 1] EXCEPT !.start = @ - q.queue[h].start]]
    BY <1>3, <1>8 DEF DropBefore
  <2>3. Len(d.queue) = keep
    <3>1. Len(d.queue) \in Nat /\ DOMAIN d.queue = 1..Len(d.queue)
      BY <1>1, ViewType
    <3>2. DOMAIN d.queue = 1..keep
      BY <2>2
    <3> HIDE DEF keep
    <3> QED
      BY <2>1, <3>1, <3>2, SameInterval
  <2>4. ASSUME NEW i \in 1..keep
        PROVE  /\ d.queue[i].id = q.queue[i + (h - 1)].id
               /\ d.queue[i].state = q.queue[i + (h - 1)].state
    <3> DEFINE m == q.queue[i + h - 1]
    <3>1. i + h - 1 = i + (h - 1) /\ i + h - 1 \in 1..len
      BY <1>1, <2>1
    <3>2. m \in Message
      BY <1>1, <3>1, ElementOfSeq
    <3>3. d.queue[i] = [m EXCEPT !.start = @ - q.queue[h].start]
      BY <2>2
    <3> HIDE DEF m
    <3>4. d.queue[i].id = m.id /\ d.queue[i].state = m.state
      BY <3>2, <3>3 DEF Message
    <3> QED
      BY <3>1, <3>4 DEF m
  <2> HIDE DEF keep
  <2>5. Rest(d, q, h - 1)
    BY <2>1, <2>3, <2>4 DEF Rest, keep
  <2>6. d.queue[1].state # "COMPLETE"
    <3>1. 1 \in 1..keep /\ 1 + (h - 1) = h /\ h <= len
      BY <2>1
    <3> QED
      BY <1>4, <2>4, <3>1
  <2> QED
    BY <2>5, <2>6
<1> QED
  BY <1>6, <1>7, <1>8

\* mqtt_mq_register appends the new message, UNSENT, to the view.
LEMMA RegisterShows ==
    ASSUME NEW q, Good(q), NEW n \in Sizes, NEW id \in Ids, n <= q.curr_sz
    PROVE  View(mqtt_mq_register(Pack(q, n, id), n, id))
             = Append(View(q), [id |-> id, state |-> "UNSENT"])
<1> DEFINE r   == mqtt_mq_register(Pack(q, n, id), n, id)
           len == Len(q.queue)
           new == [id |-> id, start |-> q.curr, size |-> n, state |-> "UNSENT"]
           a   == Append(View(q), [id |-> id, state |-> "UNSENT"])
<1>1. q \in Queue /\ r \in Queue /\ q.queue \in Seq(Message) /\ q.curr \in Nat
  BY RegisterGood DEF Good, Queue
<1>2. r.queue = Append(q.queue, new)
  <2>1. Pack(q, n, id).queue = q.queue /\ Pack(q, n, id).curr = q.curr
    BY <1>1 DEF Pack, Queue
  <2> QED
    BY <2>1 DEF mqtt_mq_register
<1>3. new \in Message
  BY <1>1 DEF Message, States
<1> HIDE DEF r, new
<1>4. /\ len \in Nat /\ Len(r.queue) = len + 1
      /\ \A i \in 1..len : r.queue[i] = q.queue[i]
      /\ r.queue[len + 1] = new
  BY <1>1, <1>2, <1>3
<1>5. /\ View(q) \in Seq(Shown) /\ Len(View(q)) = len
      /\ \A i \in 1..len :
            View(q)[i] = [id |-> q.queue[i].id, state |-> q.queue[i].state]
  BY <1>1, ViewType
<1>6. /\ View(r) \in Seq(Shown) /\ Len(View(r)) = len + 1
      /\ \A i \in 1..(len + 1) :
            View(r)[i] = [id |-> r.queue[i].id, state |-> r.queue[i].state]
  BY <1>1, <1>4, ViewType
<1>7. [id |-> id, state |-> "UNSENT"] \in Shown
  BY DEF Shown, States
<1>8. /\ a \in Seq(Shown) /\ Len(a) = len + 1
      /\ \A i \in 1..len : a[i] = View(q)[i]
      /\ a[len + 1] = [id |-> id, state |-> "UNSENT"]
  BY <1>4, <1>5, <1>7
<1>9. new.id = id /\ new.state = "UNSENT"
  BY DEF new
<1> HIDE DEF a
<1>10. \A i \in 1..(len + 1) : View(r)[i] = a[i]
  <2> TAKE i \in 1..(len + 1)
  <2>1. CASE i \in 1..len
    BY <1>4, <1>5, <1>6, <1>8, <2>1
  <2>2. CASE i = len + 1
    BY <1>4, <1>6, <1>8, <1>9, <2>2
  <2> QED
    BY <1>4, <2>1, <2>2
<1>11. View(r) = a
  BY <1>6, <1>8, <1>10, SeqEqual
<1> QED
  BY <1>11 DEF r, a

\* An empty queue shows nothing.
LEMMA NothingShown ==
    ASSUME NEW q, q.queue = <<>>
    PROVE  View(q) = <<>>
<1>1. DOMAIN q.queue = {}
  OBVIOUS
<1>2. View(q) \in [1..0 -> Shown]
  BY <1>1 DEF View
<1>3. View(q) \in Seq(Shown) /\ DOMAIN View(q) = 1..0
  BY <1>2, FunctionIsSeq
<1>4. Len(View(q)) = 0
  BY <1>3, LenProperties, SameInterval
<1> QED
  BY <1>3, <1>4, EmptySeq

\* A packing function that fails writes bytes, but shows nothing.
LEMMA FailedPackShows ==
    ASSUME NEW q, Good(q)
    PROVE  View(FailedPack(q)) = View(q)
BY FailedPackGood DEF View

\* A packet that mqtt_mq_clean made no room for does not fit behind what is left.
LEMMA NoRoom ==
    ASSUME NEW q, Good(q), NEW n \in Sizes, ~(n <= q.curr_sz)
    PROVE  q.curr + n > queue_tail(Len(q.queue) + 1)
<1> DEFINE len == Len(q.queue)
<1>1. /\ q \in Queue /\ q.curr \in Nat /\ len \in Nat
      /\ q.curr_sz = mqtt_mq_currsz(q.curr, len)
  BY LenProperties DEF Good, LayoutOf, Queue
<1>2. n \in Nat /\ n > 0
  BY MqAssumption
<1> HIDE DEF len
<1>3. /\ queue_tail(len + 1) = queue_tail(len) - RecSize
      /\ queue_tail(len) \in Int /\ queue_tail(len + 1) \in Int
  BY <1>1, TailStep
<1>4. q.curr_sz = IF q.curr >= queue_tail(len + 1) THEN 0
                  ELSE queue_tail(len + 1) - q.curr
  BY <1>1, <1>3 DEF mqtt_mq_currsz
<1>5. q.curr + n > queue_tail(len + 1)
  BY <1>1, <1>2, <1>3, <1>4
<1> QED
  BY <1>5 DEF len

-----------------------------------------------------------------------------
(* The steps of the buffer are steps of the abstract queue.                  *)

\* MQTT_CLIENT_TRY_PACK posts the message, behind what clean left when it had to
\* clean first, or refuses it.
LEMMA TryPackMaps ==
    ASSUME IInv, NEW n \in Sizes, NEW id \in Ids, MQTT_CLIENT_TRY_PACK(n, id)
    PROVE  SQ!Post(id) \/ SQ!Refuse
<1> DEFINE new == [id |-> id, state |-> "UNSENT"]
           f   == FailedPack(mq)
           c   == mqtt_mq_clean(f)
<1>1. /\ Good(mq) /\ mq \in Queue /\ View(mq) \in Seq(Shown) /\ Len(View(mq)) \in Nat
      /\ Len(View(mq)) = Len(mq.queue) /\ refused = 0
  BY ViewType DEF IInv, Good, MQTT_CLIENT_TRY_PACK
<1>2. /\ Good(f) /\ View(f) = View(mq) /\ f.queue = mq.queue
  BY <1>1, FailedPackGood, FailedPackShows
<1>3. Good(c)
  BY <1>2, CleanGood
<1> HIDE DEF f
<1>4. PICK k \in 0..Len(View(mq)) :
         /\ \A i \in 1..k : View(mq)[i].state = "COMPLETE"
         /\ View(c) = SubSeq(View(mq), k + 1, Len(View(mq)))
  <2>1. PICK k \in 0..Len(View(f)) : Forgets(f, k, View(c))
    BY <1>2, CleanForgets
  <2>2. /\ \A i \in 1..k : f.queue[i].state = "COMPLETE"
        /\ View(c) = SubSeq(View(mq), k + 1, Len(View(mq)))
        /\ k \in 0..Len(View(mq))
    BY <1>2, <2>1 DEF Forgets
  <2>3. \A i \in 1..k : View(mq)[i].state = "COMPLETE"
    <3> TAKE i \in 1..k
    <3>1. i \in 1..Len(mq.queue) /\ mq.queue[i].state = "COMPLETE"
      BY <1>1, <1>2, <2>2
    <3>2. View(mq)[i] = [id |-> mq.queue[i].id, state |-> mq.queue[i].state]
      BY <1>1, <3>1, ViewType
    <3> QED
      BY <3>1, <3>2
  <2> QED
    BY <2>2, <2>3
<1> HIDE DEF c
<1>5. CASE n <= mq.curr_sz
  <2>1. mq' = mqtt_mq_register(Pack(mq, n, id), n, id) /\ refused' = refused
    BY <1>5 DEF MQTT_CLIENT_TRY_PACK
  <2>2. View(mq') = Append(View(mq), new)
    BY <1>1, <1>5, <2>1, RegisterShows
  <2>3. SubSeq(View(mq), 0 + 1, Len(View(mq))) = View(mq)
    BY <1>1, SubSeqFull
  <2>4. \E j \in 0..Len(View(mq)) :
           /\ \A i \in 1..j : View(mq)[i].state = "COMPLETE"
           /\ View(mq') = Append(SubSeq(View(mq), j + 1, Len(View(mq))), new)
    <3>1. 0 \in 0..Len(View(mq)) /\ 1..0 = {}
      BY <1>1
    <3> QED
      BY <2>2, <2>3, <3>1
  <2> QED
    BY <1>1, <2>1, <2>4 DEF SQ!Post, SQ!Forgettable, View
<1>6. CASE ~(n <= mq.curr_sz) /\ n <= c.curr_sz
  <2>1. mq' = mqtt_mq_register(Pack(c, n, id), n, id) /\ refused' = refused
    BY <1>6 DEF MQTT_CLIENT_TRY_PACK, c, f
  <2>2. View(mq') = Append(View(c), new)
    BY <1>3, <1>6, <2>1, RegisterShows
  <2>3. /\ \A i \in 1..k : View(mq)[i].state = "COMPLETE"
        /\ View(mq') = Append(SubSeq(View(mq), k + 1, Len(View(mq))), new)
    BY <1>4, <2>2
  <2> QED
    BY <1>1, <2>1, <2>3 DEF SQ!Post, SQ!Forgettable, View
<1>7. CASE ~(n <= mq.curr_sz) /\ ~(n <= c.curr_sz)
  <2>1. mq' = FailedPack(c) /\ refused' = n /\ n # 0
    BY <1>7, MqAssumption DEF MQTT_CLIENT_TRY_PACK, c, f
  <2>2. View(mq') = View(c)
    BY <1>3, <2>1, FailedPackShows
  <2>3. /\ \A i \in 1..k : View(mq)[i].state = "COMPLETE"
        /\ View(mq') = SubSeq(View(mq), k + 1, Len(View(mq)))
    BY <1>4, <2>2
  <2> QED
    BY <1>1, <2>1, <2>3 DEF SQ!Refuse, SQ!Forgettable, View
<1> QED
  BY <1>5, <1>6, <1>7

\* __mqtt_send and __mqtt_recv move one message on to another state.
LEMMA MarkMaps ==
    ASSUME IInv, NEW i \in DOMAIN mq.queue, Sent(i) \/ Acked(i)
    PROVE  i \in DOMAIN View(mq) /\ SQ!Advance(i)
<1>1. /\ mq \in Queue /\ mq.queue \in Seq(Message) /\ i \in 1..Len(mq.queue)
      /\ Good(mq)
  BY ViewType DEF IInv, Good, Queue
<1>2. PICK s \in {"AWAITING_ACK", "COMPLETE"} : mq' = [mq EXCEPT !.queue[i].state = s]
  BY DEF Sent, Acked
<1>3. mq.queue[i].state # "COMPLETE" /\ refused' = refused
  BY DEF Sent, Acked
<1>4. /\ mq' \in Queue
      /\ Len(mq'.queue) = Len(mq.queue)
      /\ mq'.queue[i].id = mq.queue[i].id /\ mq'.queue[i].state = s
      /\ \A j \in 1..Len(mq.queue) : j # i => mq'.queue[j] = mq.queue[j]
  <2>1. mq' \in Queue
    BY <1>1, <1>2, MarkGood DEF Good, States
  <2> DEFINE e == [mq.queue[i] EXCEPT !.state = s]
  <2>2. mq'.queue = [mq.queue EXCEPT ![i] = e]
    BY <1>1, <1>2 DEF Queue
  <2>3. e \in Message /\ e.id = mq.queue[i].id /\ e.state = s
    <3>1. mq.queue[i] \in Message
      BY <1>1, ElementOfSeq
    <3> QED
      BY <3>1 DEF Message, States
  <2> HIDE DEF e
  <2>4. /\ Len(mq'.queue) = Len(mq.queue)
        /\ \A j \in 1..Len(mq.queue) : mq'.queue[j] = IF j = i THEN e ELSE mq.queue[j]
    BY <1>1, <2>2, <2>3, ExceptSeq
  <2> QED
    BY <1>1, <2>1, <2>3, <2>4
<1> DEFINE v == View(mq)
           w == View(mq')
           m == [v[i] EXCEPT !.state = s]
<1>5. /\ v \in Seq(Shown) /\ Len(v) = Len(mq.queue)
      /\ \A j \in 1..Len(mq.queue) :
            v[j] = [id |-> mq.queue[j].id, state |-> mq.queue[j].state]
  BY <1>1, ViewType
<1>6. /\ w \in Seq(Shown) /\ Len(w) = Len(mq.queue)
      /\ \A j \in 1..Len(mq.queue) :
            w[j] = [id |-> mq'.queue[j].id, state |-> mq'.queue[j].state]
  BY <1>4, ViewType
<1> HIDE DEF v, w
<1>7. m \in Shown /\ w[i] = m
  <2>1. v[i] = [id |-> mq.queue[i].id, state |-> mq.queue[i].state] /\ v[i] \in Shown
    BY <1>1, <1>5, ElementOfSeq
  <2>2. m = [id |-> mq.queue[i].id, state |-> s]
    BY <2>1
  <2>3. w[i] = [id |-> mq.queue[i].id, state |-> s] /\ w[i] \in Shown
    BY <1>1, <1>4, <1>6, ElementOfSeq
  <2> QED
    BY <2>2, <2>3
<1> HIDE DEF m
<1>8. \A j \in 1..Len(v) : w[j] = [v EXCEPT ![i] = m][j]
  <2> TAKE j \in 1..Len(v)
  <2>1. j \in DOMAIN v /\ j \in 1..Len(mq.queue)
    BY <1>5, LenProperties
  <2>2. CASE j = i
    BY <1>7, <2>1, <2>2
  <2>3. CASE j # i
    BY <1>4, <1>5, <1>6, <2>1, <2>3
  <2> QED
    BY <2>2, <2>3
<1>9. w = [v EXCEPT ![i] = m]
  <2>1. [v EXCEPT ![i] = m] \in Seq(Shown) /\ Len([v EXCEPT ![i] = m]) = Len(v)
    BY <1>1, <1>5, <1>7, ExceptSeq
  <2> QED
    BY <1>5, <1>6, <1>8, <2>1, SeqEqual
<1>10. v[i].state # "COMPLETE" /\ i \in DOMAIN v
  <2>1. v[i] = [id |-> mq.queue[i].id, state |-> mq.queue[i].state]
    BY <1>1, <1>5
  <2>2. i \in DOMAIN v
    BY <1>1, <1>5, LenProperties
  <2> QED
    BY <1>3, <2>1, <2>2
<1>11. w = [v EXCEPT ![i].state = s]
  BY <1>9 DEF m
<1> QED
  BY <1>3, <1>10, <1>11 DEF SQ!Advance, View, v, w

-----------------------------------------------------------------------------
(* An action property and the refinement.                                   *)

\* MQTT_ERROR_SEND_BUFFER_IS_FULL is set only after mqtt_mq_clean has dropped
\* every COMPLETE message at the front, when the packet and its record do not
\* fit behind the rest.
THEOREM RefusalIsJustified == Spec => RefusalJustified
<1>1. IInv /\ [Next]_vars =>
         [ refused = 0 /\ refused' # 0 =>
             /\ mq'.queue = <<>> \/ mq'.queue[1].state # "COMPLETE"
             /\ mq'.curr + refused' > queue_tail(Len(mq'.queue) + 1) ]_vars
  <2> SUFFICES ASSUME IInv, Next, refused = 0, refused' # 0
               PROVE  /\ mq'.queue = <<>> \/ mq'.queue[1].state # "COMPLETE"
                      /\ mq'.curr + refused' > queue_tail(Len(mq'.queue) + 1)
    OBVIOUS
  <2> DEFINE c == mqtt_mq_clean(FailedPack(mq))
  <2>1. PICK n \in Sizes, id \in Ids : MQTT_CLIENT_TRY_PACK(n, id)
    BY DEF Next, Sent, Acked, mqtt_init
  <2>2. mq' = FailedPack(c) /\ refused' = n /\ ~(n <= c.curr_sz)
    BY <2>1 DEF MQTT_CLIENT_TRY_PACK
  <2>3. Good(FailedPack(mq)) /\ Good(c)
    BY FailedPackGood, CleanGood DEF IInv
  <2>4. c.queue = <<>> \/ c.queue[1].state # "COMPLETE"
    BY <2>3, CleanForgets
  <2> HIDE DEF c
  <2>5. mq'.queue = c.queue /\ mq'.curr = c.curr
    BY <2>2, <2>3, FailedPackGood
  <2>6. c.curr + n > queue_tail(Len(c.queue) + 1)
    BY <2>2, <2>3, NoRoom
  <2> QED
    BY <2>2, <2>4, <2>5, <2>6
<1> QED
  BY <1>1, SpecIInv, PTL DEF Spec, RefusalJustified

\* The send buffer implements the abstract queue: messages leave only from the
\* front and only when COMPLETE, keep their order, and never go back to an
\* earlier state, whatever the sizes.
THEOREM BufferImplementsQueue == Spec => Implements
<1>1. Init => SQ!Init
  <2> SUFFICES ASSUME Init PROVE SQ!Init
    OBVIOUS
  <2>1. mq.queue = <<>> /\ refused = 0
    BY DEF Init, mqtt_mq_init
  <2> QED
    BY <2>1, NothingShown DEF SQ!Init, View
<1>2. IInv /\ [Next]_vars => [SQ!Next]_SQ!vars
  <2> SUFFICES ASSUME IInv, [Next]_vars PROVE [SQ!Next]_SQ!vars
    OBVIOUS
  <2>1. ASSUME NEW n \in Sizes, NEW id \in Ids, MQTT_CLIENT_TRY_PACK(n, id)
        PROVE  SQ!Next
    BY <2>1, TryPackMaps DEF SQ!Next
  <2>2. ASSUME NEW i \in DOMAIN mq.queue, Sent(i) \/ Acked(i)
        PROVE  SQ!Next
    BY <2>2, MarkMaps DEF SQ!Next, View
  <2>3. CASE mqtt_init
    <3>1. mq'.queue = <<>> /\ refused' = 0
      BY <2>3 DEF mqtt_init, mqtt_mq_init
    <3> QED
      BY <3>1, NothingShown DEF SQ!Next, SQ!Restart, View
  <2>4. CASE UNCHANGED vars
    BY <2>4 DEF vars, SQ!vars
  <2> QED
    BY <2>1, <2>2, <2>3, <2>4 DEF Next
<1> QED
  BY <1>1, <1>2, SpecIInv, PTL DEF Spec, Implements, SQ!Spec
=============================================================================
