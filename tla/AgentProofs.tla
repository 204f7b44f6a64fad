---------------------------- MODULE AgentProofs -----------------------------
(***************************************************************************)
(* Proofs about the agent: the state machine is always scheduled once, a    *)
(* connection that is up is served, deferred publishes keep their order,    *)
(* the thread never waits for itself, and once both connections were up     *)
(* nothing crashes it but an exit.                                          *)
(***************************************************************************)
EXTENDS Agent, FiniteSets, Functions, FunctionTheorems, FiniteSetTheorems,
        SequenceTheorems, WellFoundedInduction, TLAPS

Timed(S) == \A t \in S : t.rem \in Nat

Sorted(list) == \A i, j \in DOMAIN list : i < j => list[i].rem <= list[j].rem

\* The places of the list that hold a timeout of the set W.
Places(list, W) == {i \in DOMAIN list : list[i] \in W}

\* The scan of eloop_register_timeout ends at one place of the list: before the
\* first timeout that is due later, or at the end.
LEMMA InsertPointExists ==
    ASSUME NEW S, Timed(S), NEW list \in Seq(S), NEW t \in S
    PROVE  \E p \in 1..(Len(list) + 1) : IsInsertPoint(list, t, p)
<1> DEFINE T == {i \in 1..Len(list) : t.rem < list[i].rem}
<1>1. /\ Len(list) \in Nat /\ t.rem \in Nat
      /\ \A i \in 1..Len(list) : list[i] \in S /\ list[i].rem \in Nat
  BY DEF Timed
<1>2. CASE T = {}
  <2> IsInsertPoint(list, t, Len(list) + 1)
    BY <1>1, <1>2 DEF IsInsertPoint
  <2> QED BY <1>1
<1>3. CASE T # {}
  <2>1. T \subseteq Nat
    BY <1>1
  <2>2. PICK p \in T : \A y \in T : ~ (<<y, p>> \in OpToRel(<, Nat))
    <3> HIDE DEF T
    <3> QED BY <1>3, <2>1, WFMin, NatLessThanWellFounded
  <2>3. \A y \in T : ~ (y < p)
    BY <2>1, <2>2 DEF OpToRel
  <2>4. IsInsertPoint(list, t, p)
    BY <1>1, <2>3 DEF IsInsertPoint
  <2> QED BY <2>4, <1>1
<1> QED BY <1>2, <1>3

\* eloop_register_timeout inserts at such a place.
LEMMA RegisterInserts ==
    ASSUME NEW S, Timed(S), NEW list \in Seq(S), NEW t \in S
    PROVE  \E p \in 1..(Len(list) + 1) :
              /\ IsInsertPoint(list, t, p)
              /\ eloop_register_timeout(list, t) = InsertAtPoint(list, t, p)
<1> DEFINE p == CHOOSE k \in 1..(Len(list) + 1) : IsInsertPoint(list, t, k)
<1>1. p \in 1..(Len(list) + 1) /\ IsInsertPoint(list, t, p)
  BY InsertPointExists
<1>2. eloop_register_timeout(list, t) = InsertAtPoint(list, t, p)
  BY DEF eloop_register_timeout
<1> QED
  BY <1>1, <1>2

\* new is list with t at place p: the timeouts before the place keep their
\* index, those from it on move down.
Inserted(new, list, t, p) ==
    /\ p \in 1..(Len(list) + 1)
    /\ Len(new) = Len(list) + 1 /\ DOMAIN new = 1..(Len(list) + 1)
    /\ new[p] = t
    /\ \A i \in 1..(p - 1) : i \in DOMAIN list /\ new[i] = list[i]
    /\ \A i \in (p + 1)..(Len(list) + 1) : i - 1 \in DOMAIN list /\ new[i] = list[i - 1]

\* What linking a timeout into the list does.
LEMMA InsertedList ==
    ASSUME NEW S, NEW list \in Seq(S), NEW t \in S, NEW p \in 1..(Len(list) + 1)
    PROVE  /\ InsertAtPoint(list, t, p) \in Seq(S)
           /\ Inserted(InsertAtPoint(list, t, p), list, t, p)
<1> DEFINE new == InsertAtPoint(list, t, p)
<1>1. Len(list) \in Nat /\ DOMAIN list = 1..Len(list) /\ Len(list) + 1 \in Nat
  OBVIOUS
<1>2. \A i \in 1..(Len(list) + 1) :
         (IF i < p THEN list[i] ELSE IF i = p THEN t ELSE list[i - 1]) \in S
  BY <1>1
<1>3. new \in [1..(Len(list) + 1) -> S]
  BY <1>2 DEF InsertAtPoint
<1>4. new \in Seq(S)
  BY <1>1, <1>3, SeqDef
<1>5. /\ new[p] = t
      /\ \A i \in 1..(p - 1) : i \in DOMAIN list /\ new[i] = list[i]
      /\ \A i \in (p + 1)..(Len(list) + 1) :
            i - 1 \in DOMAIN list /\ new[i] = list[i - 1]
  BY <1>1 DEF InsertAtPoint
<1>6. Len(new) = Len(list) + 1
  BY <1>1, <1>3
<1> QED
  BY <1>3, <1>4, <1>5, <1>6 DEF Inserted

\* A timeout that is registered leaves the list sorted, behind those that are
\* due at the same time or before.
LEMMA RegisterSorted ==
    ASSUME NEW S, Timed(S), NEW list \in Seq(S), Sorted(list), NEW t \in S,
           NEW new, new = eloop_register_timeout(list, t)
    PROVE  /\ new \in Seq(S) /\ Sorted(new)
           /\ \E p \in 1..(Len(list) + 1) :
                 /\ Inserted(new, list, t, p)
                 /\ \A i \in 1..(p - 1) : list[i].rem <= t.rem
                 /\ \A i \in p..Len(list) : t.rem < list[i].rem
<1>1. PICK p \in 1..(Len(list) + 1) :
         IsInsertPoint(list, t, p) /\ new = InsertAtPoint(list, t, p)
  BY RegisterInserts
<1>7. new \in Seq(S) /\ Inserted(new, list, t, p)
  BY <1>1, InsertedList
<1>2. /\ new \in Seq(S) /\ DOMAIN new = 1..(Len(list) + 1) /\ new[p] = t
      /\ \A i \in 1..(p - 1) : i \in DOMAIN list /\ new[i] = list[i]
      /\ \A i \in (p + 1)..(Len(list) + 1) :
            i - 1 \in DOMAIN list /\ new[i] = list[i - 1]
  BY <1>7 DEF Inserted
<1>3. /\ Len(list) \in Nat /\ t.rem \in Nat
      /\ \A i \in 1..Len(list) : list[i].rem \in Nat
  BY DEF Timed
<1>4. \A i \in 1..(p - 1) : list[i].rem <= t.rem
  BY <1>1, <1>3 DEF IsInsertPoint
<1>5. \A i \in p..Len(list) : t.rem < list[i].rem
  <2> SUFFICES ASSUME NEW i \in p..Len(list) PROVE t.rem < list[i].rem
    OBVIOUS
  <2>1. p \in 1..Len(list) /\ t.rem < list[p].rem
    BY <1>1, <1>3 DEF IsInsertPoint
  <2>2. list[p].rem <= list[i].rem
    BY <1>3, <2>1 DEF Sorted
  <2> QED
    BY <1>3, <2>1, <2>2
<1>6. Sorted(new)
  <2> SUFFICES ASSUME NEW i \in 1..(Len(list) + 1), NEW j \in 1..(Len(list) + 1), i < j
               PROVE  new[i].rem <= new[j].rem
    BY <1>2 DEF Sorted
  <2>1. CASE j < p
    BY <1>2, <2>1 DEF Sorted
  <2>2. CASE j = p
    BY <1>2, <1>4, <2>2
  <2>3. CASE i < p /\ j > p
    <3>2. new[i].rem = list[i].rem /\ new[j].rem = list[j - 1].rem
      BY <1>2, <2>3
    <3>3. list[i].rem <= t.rem /\ t.rem <= list[j - 1].rem
      BY <1>3, <1>4, <1>5, <2>3
    <3> QED
      BY <1>3, <2>3, <3>2, <3>3
  <2>4. CASE i = p
    <3>1. new[j] = list[j - 1] /\ j - 1 \in p..Len(list)
      BY <1>2, <1>3, <2>4
    <3>2. new[i].rem = t.rem /\ new[j].rem = list[j - 1].rem
      BY <1>2, <2>4, <3>1
    <3>3. t.rem < list[j - 1].rem /\ list[j - 1].rem \in Nat
      BY <1>1, <1>3, <1>5, <3>1
    <3> QED
      BY <1>3, <3>2, <3>3
  <2>5. CASE i > p
    <3>1. /\ new[j] = list[j - 1] /\ j - 1 \in 1..Len(list)
          /\ new[i] = list[i - 1] /\ i - 1 \in 1..Len(list)
      BY <1>2, <1>3, <2>5
    <3> QED
      <4>1. list[i - 1].rem <= list[j - 1].rem
        BY <1>3, <3>1 DEF Sorted
      <4> QED
        BY <3>1, <4>1
  <2> QED
    BY <2>1, <2>2, <2>3, <2>4, <2>5
<1> QED
  BY <1>1, <1>2, <1>4, <1>5, <1>6, <1>7

-----------------------------------------------------------------------------
(* How many timeouts of a kind the list holds.                              *)

\* A list has finitely many places, so a count of them is a number.
LEMMA PlacesFinite ==
    ASSUME NEW S, NEW list \in Seq(S), NEW W
    PROVE  IsFiniteSet(Places(list, W)) /\ Cardinality(Places(list, W)) \in Nat
<1>1. Len(list) \in Nat /\ DOMAIN list = 1..Len(list)
  OBVIOUS
<1>2. IsFiniteSet(1..Len(list))
  BY <1>1, FS_Interval
<1>3. Places(list, W) \in SUBSET (1..Len(list))
  BY <1>1 DEF Places
<1>4. IsFiniteSet(Places(list, W))
  BY <1>2, <1>3, FS_Subset
<1> QED
  BY <1>4, FS_CardinalityType

\* Registering a timeout of the kind adds one to it.
LEMMA InsertedCount ==
    ASSUME NEW S, NEW list \in Seq(S), NEW new \in Seq(S), NEW t, NEW p,
           Inserted(new, list, t, p), NEW W
    PROVE  Cardinality(Places(new, W)) =
             Cardinality(Places(list, W)) + (IF t \in W THEN 1 ELSE 0)
<1> DEFINE A == Places(list, W)
           B == Places(new, W)
           f == [i \in A |-> IF i < p THEN i ELSE i + 1]
<1>1. Len(list) \in Nat /\ DOMAIN list = 1..Len(list) /\ p \in 1..(Len(list) + 1)
  BY DEF Inserted
<1>2. \A i \in DOMAIN list :
         LET k == IF i < p THEN i ELSE i + 1 IN
         k \in DOMAIN new /\ k # p /\ new[k] = list[i]
  BY <1>1 DEF Inserted
<1>3. f \in [A -> B \ {p}]
  BY <1>2 DEF Places
<1>4. \A i, j \in A : f[i] = f[j] => i = j
  BY <1>1 DEF Places
<1>5. \A k \in B \ {p} : \E i \in A : f[i] = k
  <2> SUFFICES ASSUME NEW k \in B \ {p} PROVE \E i \in A : f[i] = k
    OBVIOUS
  <2>1. k \in 1..(Len(list) + 1) /\ k # p /\ new[k] \in W
    BY DEF Places, Inserted
  <2>2. CASE k < p
    <3>1. k \in A
      BY <1>1, <2>1, <2>2 DEF Places, Inserted
    <3> QED
      BY <2>2, <3>1
  <2>3. CASE k > p
    <3>1. k - 1 \in A
      BY <1>1, <2>1, <2>3 DEF Places, Inserted
    <3>2. f[k - 1] = k
      BY <1>1, <2>1, <2>3, <3>1
    <3> QED
      BY <3>1, <3>2
  <2> QED
    BY <1>1, <2>1, <2>2, <2>3
<1>6. IsFiniteSet(A) /\ IsFiniteSet(B) /\ Cardinality(A) \in Nat /\ Cardinality(B) \in Nat
  BY PlacesFinite
<1>7. p \in B <=> t \in W
  BY <1>1 DEF Places, Inserted
<1> HIDE DEF A, B, f
<1>8. Cardinality(B \ {p}) = Cardinality(A)
  <2>1. ExistsBijection(A, B \ {p})
    BY <1>3, <1>4, <1>5, Fun_IsBij, Fun_ExistsBij
  <2> QED
    BY <1>6, <2>1, FS_Bijection
<1>9. Cardinality(B \ {p}) = IF p \in B THEN Cardinality(B) - 1 ELSE Cardinality(B)
  BY <1>6, FS_RemoveElement
<1>10. Cardinality(B) = Cardinality(A) + (IF t \in W THEN 1 ELSE 0)
  BY <1>6, <1>7, <1>8, <1>9
<1> QED
  BY <1>10 DEF A, B

\* The timeout that eloop_run takes off the list leaves its kind.
LEMMA TailCount ==
    ASSUME NEW S, NEW list \in Seq(S), list # <<>>, NEW W
    PROVE  Cardinality(Places(list, W)) =
             Cardinality(Places(Tail(list), W)) + (IF Head(list) \in W THEN 1 ELSE 0)
<1>1. /\ Tail(list) \in Seq(S) /\ Len(list) \in Nat \ {0}
      /\ Len(Tail(list)) = Len(list) - 1
      /\ \A i \in 1..Len(Tail(list)) : Tail(list)[i] = list[i + 1]
  BY HeadTailProperties
<1>2. Inserted(list, Tail(list), Head(list), 1)
  BY <1>1 DEF Inserted
<1> QED
  <2> DEFINE rest == Tail(list)
             head == Head(list)
  <2>1. rest \in Seq(S) /\ Inserted(list, rest, head, 1)
    BY <1>1, <1>2
  <2> HIDE DEF rest, head
  <2>2. Cardinality(Places(list, W)) =
          Cardinality(Places(rest, W)) + (IF head \in W THEN 1 ELSE 0)
    BY <2>1, InsertedCount
  <2> QED
    BY <2>2 DEF rest, head

\* What is left keeps its order.
LEMMA TailSorted ==
    ASSUME NEW S, NEW list \in Seq(S), list # <<>>, Sorted(list)
    PROVE  Sorted(Tail(list))
<1>1. /\ Tail(list) \in Seq(S) /\ Len(list) \in Nat \ {0}
      /\ Len(Tail(list)) = Len(list) - 1
      /\ \A i \in 1..Len(Tail(list)) : Tail(list)[i] = list[i + 1]
  BY HeadTailProperties
<1> QED
  BY <1>1 DEF Sorted

-----------------------------------------------------------------------------

-----------------------------------------------------------------------------
(* The inductive invariant.                                                 *)

Timer == [h : Handlers, c : Conns \cup {"none"}, n : Nat, rem : 0..(SmT + StartT)]
Conn  == [bio : BOOLEAN, sock : {"none", "live", "freed"}, status : {0, 1},
          error : {"zero", "OK", "ERR", "FULL"}]
Place == [at : {"loop", "traffic", "receiving", "publishing", "check", "dialing",
                "connecting", "connected", "syncing", "register",
                "check_agstatus", "exit_link", "closing", "leaving", "exited",
                "crashed", "hung"},
          c : Conns \cup {"none"}]
Left  == [rc : Nat, cmd : Nat, full : Nat, signal : Nat]
History == [asked : Nat, done : Nat, up : SUBSET Conns, late : BOOLEAN, stop : BOOLEAN,
            reboot : BOOLEAN, full : BOOLEAN, malformed : BOOLEAN]

Types ==
    /\ conn \in [Conns -> Conn]
    /\ eloop \in {"up", "destroyed"} /\ agstatus \in {"isOk", "isReboot"}
    /\ tinfo \in BOOLEAN
    /\ mutex \in [Conns -> {"free", "held", "cut"}]
    /\ pc \in Place /\ left \in Left /\ hist \in History

\* What the list holds when asked publishes have been deferred and the one with
\* number done was tried last.  A publish waits at most SynT, the least delay
\* there is: one that is asked for later is linked behind it.
Entry(t, asked, done) ==
    /\ t.n <= asked
    /\ t.h \in {"ag_handle_clttraffic", "eloop_set_publish"} => t.c \in Conns
    /\ t.h = "eloop_set_publish" => t.rem <= SynT /\ done < t.n

Ordered(list) ==
    \A i, j \in DOMAIN list :
        i < j /\ list[i].h = "eloop_set_publish" /\ list[j].h = "eloop_set_publish"
            => list[i].n < list[j].n

ListOK(list, asked, done) ==
    /\ list \in Seq(Timer) /\ Sorted(list)
    /\ asked \in Nat /\ done \in Nat /\ done <= asked
    /\ \A i \in DOMAIN list : Entry(list[i], asked, done)
    /\ Ordered(list)

\* The handler that runs on behalf of a connection has one; a connection that
\* is dialled is down and has its BIO, and its client once it synchronises.
Where ==
    /\ pc.at \in {"traffic", "receiving", "publishing", "check", "dialing", "connecting",
                  "connected", "syncing", "closing", "leaving"} => pc.c \in Conns
    /\ pc.at \in {"dialing", "connecting", "connected", "syncing"}
         => conn[pc.c].status = 0 /\ conn[pc.c].bio
    /\ pc.at \in {"connecting", "connected", "syncing"}
         => conn[pc.c].sock = "live" /\ conn[pc.c].error = "OK"

\* A client that was connected stays initialised; mqupld comes up after mqrecv,
\* and the state machine then sets the time.
UpOnce ==
    /\ \A c \in hist.up : conn[c].error # "zero"
    /\ "mqupld" \in hist.up => tinfo \/ pc.at = "check_agstatus" \/ ~Running
    /\ pc.at \in {"closing", "leaving"} => eloop = "destroyed"

\* A mutex is held by the call of its client that runs, or ran when the process
\* crashed, and one that a signal cut off is met by nothing but an exit.
Holders == {"receiving", "publishing", "connecting", "syncing", "leaving"}

Locked ==
    /\ pc.at \in Holders => mutex[pc.c] = "held"
    /\ \A c \in Conns :
          /\ mutex[c] = "held" => pc.at = "crashed" \/ (pc.at \in Holders /\ pc.c = c)
          /\ mutex[c] = "cut" => ~Running

IInv ==
    /\ Types /\ ListOK(timers, hist.asked, hist.done)
    /\ Where /\ UpOnce /\ Locked
    /\ SmAlive /\ ConnServed /\ StatusMeansSocket /\ SafeOnceUp /\ NoSelfDeadlock

-----------------------------------------------------------------------------
(* The list under registration, the next timeout and the passing of time.   *)

\* The waiting times of a timeout are numbers, and the delays that the code
\* registers with (STATMACH_CHECK_TIMEOUT, the traffic interval and the publish
\* delay) are among them.
LEMMA TimerTimed ==
    /\ Timed(Timer)
    /\ SynT \in 0..(SmT + StartT) /\ SmT \in 0..(SmT + StartT)
  BY AgentAssumption DEF Timed, Timer, AgentAssumption

\* Registering anything but a publish (ag_handle_clttraffic, chk_agstatm,
\* eloop_set_exit) leaves the publishes in their order.
LEMMA AddOther ==
    ASSUME NEW list, NEW asked, NEW done, ListOK(list, asked, done), NEW t \in Timer,
           t.h # "eloop_set_publish", t.n = 0,
           t.h = "ag_handle_clttraffic" => t.c \in Conns
    PROVE  ListOK(eloop_register_timeout(list, t), asked, done)
<1> DEFINE new == eloop_register_timeout(list, t)
<1>1. list \in Seq(Timer) /\ Sorted(list)
  BY DEF ListOK
<1>2. /\ new \in Seq(Timer) /\ Sorted(new)
      /\ \E p \in 1..(Len(list) + 1) : Inserted(new, list, t, p)
  BY <1>1, TimerTimed, RegisterSorted
<1>3. PICK p \in 1..(Len(list) + 1) : Inserted(new, list, t, p)
  BY <1>2
<1> HIDE DEF new
<1>4. Len(list) \in Nat /\ DOMAIN list = 1..Len(list)
  BY <1>1
<1>5. \A i \in DOMAIN new : \/ i = p /\ new[i] = t
                            \/ i < p /\ i \in DOMAIN list /\ new[i] = list[i]
                            \/ i > p /\ i - 1 \in DOMAIN list /\ new[i] = list[i - 1]
  BY <1>3, <1>4 DEF Inserted
<1>6. \A i \in DOMAIN new : Entry(new[i], asked, done)
  <2>1. Entry(t, asked, done)
    BY DEF Entry, ListOK
  <2> QED
    BY <1>5, <2>1 DEF ListOK
<1>7. Ordered(new)
  <2> SUFFICES ASSUME NEW i \in DOMAIN new, NEW j \in DOMAIN new, i < j,
                      new[i].h = "eloop_set_publish", new[j].h = "eloop_set_publish"
               PROVE  new[i].n < new[j].n
    BY DEF Ordered
  <2>1. Ordered(list) /\ DOMAIN new = 1..(Len(list) + 1)
    BY <1>3 DEF ListOK, Inserted
  <2>2. i # p /\ j # p
    BY <1>5
  <2>3. CASE i < p /\ j < p
    BY <1>5, <2>1, <2>3 DEF Ordered
  <2>4. CASE i < p /\ j > p
    <3>1. /\ new[i] = list[i] /\ new[j] = list[j - 1]
          /\ i \in DOMAIN list /\ j - 1 \in DOMAIN list
      BY <1>4, <1>5, <2>1, <2>4
    <3>2. i < j - 1
      BY <1>4, <2>1, <2>4
    <3> QED
      BY <2>1, <3>1, <3>2 DEF Ordered
  <2>5. CASE i > p /\ j > p
    <3>1. /\ new[i] = list[i - 1] /\ new[j] = list[j - 1]
          /\ i - 1 \in DOMAIN list /\ j - 1 \in DOMAIN list
      BY <1>4, <1>5, <2>1, <2>5
    <3>2. i - 1 < j - 1
      BY <1>4, <2>1, <2>5
    <3> QED
      BY <2>1, <3>1, <3>2 DEF Ordered
  <2> QED
    BY <1>4, <2>1, <2>2, <2>3, <2>4, <2>5
<1>8. ListOK(new, asked, done)
  BY <1>2, <1>6, <1>7 DEF ListOK
<1> QED
  BY <1>8 DEF new

\* A publish that set_mqtt_publish_nexsync defers gets the next number, and
\* waits at least as long as every publish already in the list: it goes behind
\* them.
LEMMA AddPublish ==
    ASSUME NEW list, NEW asked, NEW done, ListOK(list, asked, done), NEW t \in Timer,
           t.h = "eloop_set_publish", t.n = asked + 1, t.c \in Conns, t.rem = SynT
    PROVE  ListOK(eloop_register_timeout(list, t), asked + 1, done)
<1> DEFINE new == eloop_register_timeout(list, t)
<1>1. list \in Seq(Timer) /\ Sorted(list)
  BY DEF ListOK
<1>2. /\ new \in Seq(Timer) /\ Sorted(new)
      /\ \E p \in 1..(Len(list) + 1) :
            Inserted(new, list, t, p) /\ \A i \in p..Len(list) : t.rem < list[i].rem
  BY <1>1, TimerTimed, RegisterSorted
<1>3. PICK p \in 1..(Len(list) + 1) :
         Inserted(new, list, t, p) /\ \A i \in p..Len(list) : t.rem < list[i].rem
  BY <1>2
<1> HIDE DEF new
<1>4. /\ Len(list) \in Nat /\ DOMAIN list = 1..Len(list)
      /\ asked \in Nat /\ done \in Nat /\ done <= asked /\ SynT \in Nat
      /\ \A i \in DOMAIN list : list[i].n \in Nat /\ list[i].rem \in Nat
  <2>1. \A i \in DOMAIN list : list[i] \in Timer
    BY <1>1
  <2>2. \A u \in Timer : u.n \in Nat /\ u.rem \in Nat
    BY TimerTimed DEF Timed, Timer
  <2>3. asked \in Nat /\ done \in Nat /\ done <= asked
    BY DEF ListOK
  <2>4. Len(list) \in Nat /\ DOMAIN list = 1..Len(list) /\ SynT \in Nat
    BY <1>1, AgentAssumption DEF AgentAssumption
  <2> QED
    BY <2>1, <2>2, <2>3, <2>4
<1>5. \A i \in DOMAIN new : \/ i = p /\ new[i] = t
                            \/ i < p /\ i \in DOMAIN list /\ new[i] = list[i]
                            \/ i > p /\ i - 1 \in p..Len(list) /\ new[i] = list[i - 1]
  BY <1>3, <1>4 DEF Inserted
<1>6. \A i \in DOMAIN list : Entry(list[i], asked + 1, done) /\ list[i].n <= asked
  BY <1>4 DEF ListOK, Entry
<1>7. \A i \in DOMAIN new : Entry(new[i], asked + 1, done)
  <2>1. Entry(t, asked + 1, done)
    BY <1>4 DEF Entry
  <2> QED
    BY <1>4, <1>5, <1>6, <2>1
\* From p on every timeout is due later than SynT, and so none is a publish.
<1>8. \A i \in DOMAIN new : i > p => new[i].h # "eloop_set_publish"
  <2> SUFFICES ASSUME NEW i \in DOMAIN new, i > p, new[i].h = "eloop_set_publish"
               PROVE  FALSE
    OBVIOUS
  <2>1. i - 1 \in p..Len(list) /\ new[i] = list[i - 1] /\ i - 1 \in DOMAIN list
    BY <1>4, <1>5
  <2>2. list[i - 1].rem <= SynT
    BY <1>4, <1>6, <2>1 DEF Entry
  <2>3. SynT < list[i - 1].rem
    BY <1>3, <2>1
  <2> QED
    BY <1>4, <2>1, <2>2, <2>3
<1>9. Ordered(new)
  <2> SUFFICES ASSUME NEW i \in DOMAIN new, NEW j \in DOMAIN new, i < j,
                      new[i].h = "eloop_set_publish", new[j].h = "eloop_set_publish"
               PROVE  new[i].n < new[j].n
    BY DEF Ordered
  <2>1. Ordered(list) /\ DOMAIN new = 1..(Len(list) + 1)
    BY <1>3 DEF ListOK, Inserted
  <2>2. i < p /\ i \in DOMAIN list /\ new[i] = list[i] /\ j <= p
    BY <1>4, <1>5, <1>8, <2>1
  <2>3. CASE j < p
    <3>1. j \in DOMAIN list /\ new[j] = list[j]
      BY <1>4, <1>5, <2>1, <2>3
    <3> QED
      BY <2>1, <2>2, <3>1 DEF Ordered
  <2>4. CASE j = p
    <3>1. new[j].n = asked + 1 /\ new[i].n <= asked
      BY <1>3, <1>6, <2>2, <2>4 DEF Inserted
    <3> QED
      BY <1>4, <2>2, <3>1
  <2> QED
    BY <1>4, <2>1, <2>2, <2>3, <2>4
<1>10. ListOK(new, asked + 1, done)
  BY <1>2, <1>4, <1>7, <1>9 DEF ListOK
<1> QED
  BY <1>10 DEF new

\* The timeout that eloop_run takes off the head of the list is the oldest
\* publish, or no publish at all.
LEMMA TakeHead ==
    ASSUME NEW list, NEW asked, NEW done, ListOK(list, asked, done), list # <<>>
    PROVE  /\ Head(list) \in Timer /\ Entry(Head(list), asked, done)
           /\ ListOK(Tail(list), asked, done)
           /\ Head(list).h = "eloop_set_publish"
                => ListOK(Tail(list), asked, Head(list).n)
<1>1. list \in Seq(Timer) /\ Sorted(list) /\ Ordered(list)
  BY DEF ListOK
<1> DEFINE rest == Tail(list)
           head == Head(list)
<1>2. /\ rest \in Seq(Timer) /\ head \in Timer /\ head = list[1]
      /\ DOMAIN rest = 1..(Len(list) - 1) /\ Len(list) \in Nat
      /\ \A i \in DOMAIN rest : rest[i] = list[i + 1] /\ i + 1 \in DOMAIN list
      /\ 1 \in DOMAIN list
  BY <1>1, HeadTailProperties
<1>3. Sorted(rest)
  BY <1>1, TailSorted
<1> HIDE DEF rest, head
<1>4. Entry(head, asked, done) /\ \A i \in DOMAIN rest : Entry(rest[i], asked, done)
  BY <1>2 DEF ListOK
<1>5. Ordered(rest)
  <2> SUFFICES ASSUME NEW i \in DOMAIN rest, NEW j \in DOMAIN rest, i < j,
                      rest[i].h = "eloop_set_publish", rest[j].h = "eloop_set_publish"
               PROVE  rest[i].n < rest[j].n
    BY DEF Ordered
  <2>1. /\ rest[i] = list[i + 1] /\ i + 1 \in DOMAIN list
        /\ rest[j] = list[j + 1] /\ j + 1 \in DOMAIN list /\ i + 1 < j + 1
    BY <1>2
  <2> QED
    BY <1>1, <2>1 DEF Ordered
<1>6. ListOK(rest, asked, done)
  BY <1>2, <1>3, <1>4, <1>5 DEF ListOK
<1>7. ASSUME head.h = "eloop_set_publish"
      PROVE  ListOK(rest, asked, head.n)
  <2>1. head.n \in Nat /\ head.n <= asked
    BY <1>2, <1>4 DEF Timer, Entry
  <2>2. ASSUME NEW i \in DOMAIN rest PROVE Entry(rest[i], asked, head.n)
    <3>1. Entry(rest[i], asked, done)
      BY <1>4
    <3>2. rest[i].h = "eloop_set_publish" => head.n < rest[i].n
      <4>1. rest[i] = list[i + 1] /\ i + 1 \in DOMAIN list /\ 1 < i + 1
        BY <1>2
      <4> QED
        BY <1>1, <1>2, <1>7, <4>1 DEF Ordered
    <3> QED
      BY <3>1, <3>2 DEF Entry
  <2> QED
    BY <1>2, <1>3, <1>5, <2>1, <2>2 DEF ListOK
<1> QED
  BY <1>2, <1>4, <1>6, <1>7 DEF rest, head

\* What time does to one timeout.
Aged(t, u) == /\ t.h = u.h /\ t.c = u.c /\ t.n = u.n
              /\ t.rem = IF u.rem = 0 THEN 0 ELSE u.rem - 1

\* The passing of time keeps every timeout at its place.
LEMMA ElapsedList ==
    ASSUME NEW list \in Seq(Timer)
    PROVE  /\ Elapse(list) \in Seq(Timer)
           /\ DOMAIN Elapse(list) = DOMAIN list
           /\ \A i \in DOMAIN list : Aged(Elapse(list)[i], list[i])
<1>1. SmT + StartT \in Nat
  BY AgentAssumption DEF AgentAssumption
<1>2. ASSUME NEW u \in Timer
      PROVE  LET t == [u EXCEPT !.rem = IF @ = 0 THEN 0 ELSE @ - 1] IN
             t \in Timer /\ Aged(t, u)
  <2> DEFINE r == IF u.rem = 0 THEN 0 ELSE u.rem - 1
             t == [u EXCEPT !.rem = r]
  <2>1. u.rem \in 0..(SmT + StartT) /\ r \in 0..(SmT + StartT)
    BY <1>1 DEF Timer
  <2>2. t \in Timer /\ t.rem = r /\ t.h = u.h /\ t.c = u.c /\ t.n = u.n
    BY <2>1 DEF Timer
  <2> QED
    BY <2>2 DEF Aged
<1>3. Len(list) \in Nat /\ DOMAIN list = 1..Len(list)
  OBVIOUS
<1>4. \A i \in DOMAIN list :
         LET t == [list[i] EXCEPT !.rem = IF @ = 0 THEN 0 ELSE @ - 1] IN
         t \in Timer /\ Aged(t, list[i])
  BY <1>2
<1>5. Elapse(list) \in [1..Len(list) -> Timer]
  BY <1>3, <1>4 DEF Elapse
<1>6. Elapse(list) \in Seq(Timer)
  BY <1>3, <1>5, SeqDef
<1>7. \A i \in DOMAIN list : Aged(Elapse(list)[i], list[i])
  BY <1>4 DEF Elapse
<1> QED
  BY <1>3, <1>5, <1>6, <1>7

\* Time that passes leaves the list sorted and its publishes in their order.
LEMMA AgedOK ==
    ASSUME NEW list, NEW asked, NEW done, ListOK(list, asked, done)
    PROVE  ListOK(Elapse(list), asked, done)
<1> DEFINE new == Elapse(list)
<1>1. list \in Seq(Timer) /\ Sorted(list) /\ Ordered(list)
  BY DEF ListOK
<1>2. /\ new \in Seq(Timer) /\ DOMAIN new = DOMAIN list
      /\ \A i \in DOMAIN list : Aged(new[i], list[i])
  BY <1>1, ElapsedList
<1> HIDE DEF new
<1>3. \A i \in DOMAIN list : list[i].rem \in Nat
  BY <1>1, TimerTimed DEF Timed
<1>4. Sorted(new)
  BY <1>1, <1>2, <1>3 DEF Sorted, Aged
<1>5. Ordered(new)
  BY <1>1, <1>2 DEF Ordered, Aged
<1>6. ASSUME NEW i \in DOMAIN new PROVE Entry(new[i], asked, done)
  <2>1. Entry(list[i], asked, done) /\ Aged(new[i], list[i]) /\ list[i].rem \in Nat
    BY <1>2, <1>3 DEF ListOK
  <2> QED
    BY <2>1, AgentAssumption DEF Entry, Aged, AgentAssumption
<1>7. ListOK(new, asked, done)
  BY <1>2, <1>4, <1>5, <1>6 DEF ListOK
<1> QED
  BY <1>7 DEF new

-----------------------------------------------------------------------------
(* How often the state machine and the traffic of a connection are pending. *)

Statms     == {t \in Timer : t.h = "chk_agstatm"}
Serving(c) == {t \in Timer : t.h = "ag_handle_clttraffic" /\ t.c = c}

StatmCount(list)    == Cardinality(Places(list, Statms))
ServeCount(list, c) == Cardinality(Places(list, Serving(c)))

SameCounts(new, list) ==
    /\ StatmCount(new) = StatmCount(list)
    /\ \A c \in Conns : ServeCount(new, c) = ServeCount(list, c)

\* The places of a list that SmAlive and ConnServed count are those that the
\* lemmas on lists of timeouts count.
LEMMA CountMeaning ==
    ASSUME NEW list \in Seq(Timer)
    PROVE  /\ {i \in DOMAIN list : list[i].h = "chk_agstatm"} = Places(list, Statms)
           /\ \A c : {i \in {k \in DOMAIN list : list[k].h = "ag_handle_clttraffic"} :
                        list[i].c = c} = Places(list, Serving(c))
           /\ StatmCount(list) \in Nat
           /\ \A c : ServeCount(list, c) \in Nat
<1>1. \A i \in DOMAIN list : list[i] \in Timer
  OBVIOUS
<1>2. StatmCount(list) \in Nat
  BY PlacesFinite DEF StatmCount
<1>3. \A c : ServeCount(list, c) \in Nat
  BY PlacesFinite DEF ServeCount
<1> QED
  BY <1>1, <1>2, <1>3 DEF Places, Statms, Serving

\* eloop_register_timeout adds one to the count of the handler it registers.
LEMMA AddCount ==
    ASSUME NEW list \in Seq(Timer), Sorted(list), NEW t \in Timer
    PROVE  /\ StatmCount(eloop_register_timeout(list, t)) =
                 StatmCount(list) + (IF t.h = "chk_agstatm" THEN 1 ELSE 0)
           /\ \A c \in Conns :
                 ServeCount(eloop_register_timeout(list, t), c) = ServeCount(list, c)
                   + (IF t.h = "ag_handle_clttraffic" /\ t.c = c THEN 1 ELSE 0)
<1> DEFINE new == eloop_register_timeout(list, t)
<1>1. /\ new \in Seq(Timer)
      /\ \E p \in 1..(Len(list) + 1) : Inserted(new, list, t, p)
  BY TimerTimed, RegisterSorted
<1>2. PICK p \in 1..(Len(list) + 1) : Inserted(new, list, t, p)
  BY <1>1
<1> HIDE DEF new
<1>3. \A W : Cardinality(Places(new, W)) =
               Cardinality(Places(list, W)) + (IF t \in W THEN 1 ELSE 0)
  BY <1>1, <1>2, InsertedCount
<1>4. /\ t \in Statms <=> t.h = "chk_agstatm"
      /\ \A c : t \in Serving(c) <=> t.h = "ag_handle_clttraffic" /\ t.c = c
  BY DEF Statms, Serving
<1>5. /\ StatmCount(new) = StatmCount(list) + (IF t.h = "chk_agstatm" THEN 1 ELSE 0)
      /\ \A c \in Conns :
            ServeCount(new, c) = ServeCount(list, c)
              + (IF t.h = "ag_handle_clttraffic" /\ t.c = c THEN 1 ELSE 0)
  BY <1>3, <1>4 DEF StatmCount, ServeCount
<1> QED
  BY <1>5 DEF new

\* Taking the head off, as eloop_run does, subtracts one from the count of its
\* handler.
LEMMA TakeCount ==
    ASSUME NEW list \in Seq(Timer), list # <<>>
    PROVE  /\ StatmCount(list) = StatmCount(Tail(list))
                                   + (IF Head(list).h = "chk_agstatm" THEN 1 ELSE 0)
           /\ \A c \in Conns :
                 ServeCount(list, c) = ServeCount(Tail(list), c)
                   + (IF Head(list).h = "ag_handle_clttraffic" /\ Head(list).c = c
                      THEN 1 ELSE 0)
<1> DEFINE rest == Tail(list)
           head == Head(list)
<1>1. head \in Timer
  BY HeadTailProperties
<1>2. \A W : Cardinality(Places(list, W)) =
               Cardinality(Places(rest, W)) + (IF head \in W THEN 1 ELSE 0)
  BY TailCount
<1> HIDE DEF rest, head
<1>3. /\ head \in Statms <=> head.h = "chk_agstatm"
      /\ \A c : head \in Serving(c) <=> head.h = "ag_handle_clttraffic" /\ head.c = c
  BY <1>1 DEF Statms, Serving
<1>4. /\ StatmCount(list) = StatmCount(rest)
                              + (IF head.h = "chk_agstatm" THEN 1 ELSE 0)
      /\ \A c \in Conns :
            ServeCount(list, c) = ServeCount(rest, c)
              + (IF head.h = "ag_handle_clttraffic" /\ head.c = c THEN 1 ELSE 0)
  BY <1>2, <1>3 DEF StatmCount, ServeCount
<1> QED
  BY <1>4 DEF rest, head

\* The passing of time changes no count.
LEMMA AgedCount ==
    ASSUME NEW list \in Seq(Timer)
    PROVE  SameCounts(Elapse(list), list)
<1> DEFINE new == Elapse(list)
<1>1. /\ new \in Seq(Timer) /\ DOMAIN new = DOMAIN list
      /\ \A i \in DOMAIN list : Aged(new[i], list[i])
  BY ElapsedList
<1> HIDE DEF new
<1>2. \A i \in DOMAIN list : list[i] \in Timer /\ new[i] \in Timer
  BY <1>1
<1>3. Places(new, Statms) = Places(list, Statms)
  BY <1>1, <1>2 DEF Places, Statms, Aged
<1>4. \A c : Places(new, Serving(c)) = Places(list, Serving(c))
  BY <1>1, <1>2 DEF Places, Serving, Aged
<1>5. SameCounts(new, list)
  BY <1>3, <1>4 DEF SameCounts, StatmCount, ServeCount
<1> QED
  BY <1>5 DEF new

-----------------------------------------------------------------------------
(* What the actions that touch the list do to it.                           *)

\* The state machine is pending s times more, the traffic of d k times more.
Effect(new, list, s, d, k) ==
    /\ StatmCount(new) = StatmCount(list) + s
    /\ \A c \in Conns : ServeCount(new, c) = ServeCount(list, c) + (IF c = d THEN k ELSE 0)

\* set_mqtt_publish_nexsync, called for an answer or from the control socket,
\* keeps the list well formed and starts neither a state machine nor traffic.
LEMMA DeferMoves ==
    ASSUME NEW list, NEW asked, NEW done, ListOK(list, asked, done), NEW c \in Conns
    PROVE  /\ ListOK(Defer(list, c, asked + 1), asked + 1, done)
           /\ Effect(Defer(list, c, asked + 1), list, 0, "none", 0)
<1> DEFINE t == Timeout("eloop_set_publish", c, asked + 1, SynT)
<1>1. list \in Seq(Timer) /\ Sorted(list) /\ asked \in Nat
  BY DEF ListOK
<1>2. /\ t \in Timer /\ t.h = "eloop_set_publish" /\ t.c = c /\ t.n = asked + 1
      /\ t.rem = SynT
  BY <1>1, TimerTimed DEF Timer, Timeout, Handlers
<1>3. Defer(list, c, asked + 1) = eloop_register_timeout(list, t)
  BY DEF Defer, Register
<1> HIDE DEF t
<1>4. ListOK(eloop_register_timeout(list, t), asked + 1, done)
  BY <1>2, AddPublish
<1>5. Effect(eloop_register_timeout(list, t), list, 0, "none", 0)
  BY <1>1, <1>2, AddCount, CountMeaning DEF Effect
<1> QED
  BY <1>3, <1>4, <1>5

\* eloop_register_timeout with any handler but a publish keeps the list well
\* formed and adds to the count of that handler alone.
LEMMA RegisterMoves ==
    ASSUME NEW list, NEW asked, NEW done, ListOK(list, asked, done),
           NEW h \in Handlers \ {"eloop_set_publish"}, NEW c \in Conns \cup {"none"},
           h = "ag_handle_clttraffic" => c \in Conns,
           NEW rem \in {SynT, SmT}
    PROVE  /\ ListOK(Register(list, h, c, 0, rem), asked, done)
           /\ Effect(Register(list, h, c, 0, rem), list,
                     IF h = "chk_agstatm" THEN 1 ELSE 0,
                     IF h = "ag_handle_clttraffic" THEN c ELSE "none", 1)
<1> DEFINE t == Timeout(h, c, 0, rem)
<1>1. list \in Seq(Timer) /\ Sorted(list)
  BY DEF ListOK
<1>2. t \in Timer /\ t.h = h /\ t.c = c /\ t.n = 0
  BY TimerTimed DEF Timer, Timeout, Handlers
<1>3. Register(list, h, c, 0, rem) = eloop_register_timeout(list, t)
  BY DEF Register
<1> HIDE DEF t
<1>4. ListOK(eloop_register_timeout(list, t), asked, done)
  BY <1>2, AddOther
<1>5. Effect(eloop_register_timeout(list, t), list,
             IF h = "chk_agstatm" THEN 1 ELSE 0,
             IF h = "ag_handle_clttraffic" THEN c ELSE "none", 1)
  <2>1. "none" \notin Conns
    BY DEF Conns
  <2> QED
    BY <1>1, <1>2, <2>1, AddCount, CountMeaning DEF Effect
<1> QED
  BY <1>3, <1>4, <1>5

\* What eloop_run leaves when it takes off the first timeout and calls its
\* handler: a well formed list with one handler less.
LEMMA FiresMoves ==
    ASSUME NEW asked, NEW done, ListOK(timers, asked, done), NEW h, Fires(h)
    PROVE  /\ ListOK(Tail(timers), asked, done)
           /\ h = "eloop_set_publish" => ListOK(Tail(timers), asked, Head(timers).n)
           /\ Head(timers) \in Timer /\ Head(timers).n \in Nat
           /\ h \in {"ag_handle_clttraffic", "eloop_set_publish"}
                => Head(timers).c \in Conns
           /\ Effect(Tail(timers), timers,
                     IF h = "chk_agstatm" THEN -1 ELSE 0,
                     IF h = "ag_handle_clttraffic" THEN Head(timers).c ELSE "none", -1)
           /\ pc.at = "loop"
<1>1. timers # <<>> /\ Head(timers).h = h /\ pc.at = "loop"
  BY DEF Fires, HeadDue, InLoop
<1>2. /\ Head(timers) \in Timer /\ Entry(Head(timers), asked, done)
      /\ ListOK(Tail(timers), asked, done)
      /\ h = "eloop_set_publish" => ListOK(Tail(timers), asked, Head(timers).n)
  BY <1>1, TakeHead
<1>3. Head(timers).n \in Nat
  BY <1>2 DEF Timer
<1>4. timers \in Seq(Timer) /\ Tail(timers) \in Seq(Timer)
  BY <1>2 DEF ListOK
<1>5. Effect(Tail(timers), timers,
             IF h = "chk_agstatm" THEN -1 ELSE 0,
             IF h = "ag_handle_clttraffic" THEN Head(timers).c ELSE "none", -1)
  <2>1. "none" \notin Conns
    BY DEF Conns
  <2>2. /\ StatmCount(timers) \in Nat /\ StatmCount(Tail(timers)) \in Nat
        /\ \A c : ServeCount(timers, c) \in Nat /\ ServeCount(Tail(timers), c) \in Nat
    BY <1>4, CountMeaning
  <2>3. /\ StatmCount(timers) = StatmCount(Tail(timers))
                                  + (IF Head(timers).h = "chk_agstatm" THEN 1 ELSE 0)
        /\ \A c \in Conns :
              ServeCount(timers, c) = ServeCount(Tail(timers), c)
                + (IF Head(timers).h = "ag_handle_clttraffic" /\ Head(timers).c = c
                   THEN 1 ELSE 0)
    BY <1>1, <1>4, TakeCount
  <2> QED
    BY <1>1, <2>1, <2>2, <2>3 DEF Effect
<1> QED
  BY <1>1, <1>2, <1>3, <1>5 DEF Entry

\* What was noted of a full buffer and of malformed commands stays noted.
Noted == /\ hist.full => hist'.full
         /\ hist.malformed => hist'.malformed

\* admlink_process_rc changes the list only by the publishes it defers, moves
\* the thread nowhere but into a crash, and crashes only before tinfo is read,
\* after eloop_destroy or for a malformed rc_id.
LEMMA RcMoves ==
    ASSUME IInv, NEW rc \in Rcs, admlink_process_rc(rc)
    PROVE  /\ ListOK(timers', hist'.asked, hist'.done)
           /\ Effect(timers', timers, 0, "none", 0)
           /\ hist' \in History /\ Noted
           /\ hist'.up = hist.up /\ hist'.full = hist.full
           /\ \/ pc' = pc /\ agstatus' \in {"isOk", "isReboot"}
              \/ /\ pc' = At("crashed", "none") /\ UNCHANGED agstatus
                 /\ ~tinfo \/ eloop = "destroyed" \/ hist'.malformed
<1> DEFINE n    == hist.asked
           ack  == Defer(timers, "mqrecv", n + 1)
           late == eloop = "destroyed"
           told == [hist EXCEPT !.late = @ \/ late,
                                !.malformed = @ \/ rc \in {"notstring", "toolong"}]
           one  == [told EXCEPT !.asked = n + 1]
           boot == [told EXCEPT !.asked = n + 1, !.reboot = TRUE]
           two  == [told EXCEPT !.asked = n + 2]
           Same(g) == /\ g \in History /\ g.done = hist.done /\ g.up = hist.up
                      /\ g.full = hist.full
                      /\ hist.malformed \/ rc \in {"notstring", "toolong"} => g.malformed
<1>1. hist \in History /\ n \in Nat /\ ListOK(timers, n, hist.done)
  BY DEF IInv, Types, History
<1>2. Same(told) /\ told.asked = n
  <2> DEFINE l == hist.late \/ late
             m == hist.malformed \/ rc \in {"notstring", "toolong"}
             r == [hist EXCEPT !.late = l, !.malformed = m]
  <2>1. l \in BOOLEAN /\ m \in BOOLEAN /\ told = r
    OBVIOUS
  <2>2. \A x, y \in BOOLEAN : LET g == [hist EXCEPT !.late = x, !.malformed = y] IN
           /\ g \in History /\ g.asked = n /\ g.done = hist.done /\ g.up = hist.up
           /\ g.full = hist.full /\ g.malformed = y
    BY <1>1 DEF History
  <2> HIDE DEF l, told
  <2>3. /\ r \in History /\ r.asked = n /\ r.done = hist.done /\ r.up = hist.up
        /\ r.full = hist.full /\ r.malformed = m
    BY <2>1, <2>2
  <2> QED
    BY <2>1, <2>3
<1>13. ASSUME NEW g \in History, NEW m \in Nat
       PROVE  /\ [g EXCEPT !.asked = m] \in History
              /\ [g EXCEPT !.asked = m].asked = m
              /\ [g EXCEPT !.asked = m].done = g.done /\ [g EXCEPT !.asked = m].up = g.up
              /\ [g EXCEPT !.asked = m].full = g.full
              /\ [g EXCEPT !.asked = m].malformed = g.malformed
  BY DEF History
<1>14. ASSUME NEW g \in History, NEW m \in Nat
       PROVE  LET r == [g EXCEPT !.asked = m, !.reboot = TRUE] IN
              /\ r \in History /\ r.asked = m /\ r.done = g.done /\ r.up = g.up
              /\ r.full = g.full /\ r.malformed = g.malformed
  BY DEF History
<1> HIDE DEF told
<1>3. Same(one) /\ one.asked = n + 1
  BY <1>1, <1>2, <1>13
<1>15. Same(boot) /\ boot.asked = n + 1
  <2>1. told \in History /\ n + 1 \in Nat
    BY <1>1, <1>2
  <2>2. /\ boot \in History /\ boot.asked = n + 1
        /\ boot.done = told.done /\ boot.up = told.up
        /\ boot.full = told.full /\ boot.malformed = told.malformed
    BY ONLY <2>1, <1>14
  <2> HIDE DEF boot
  <2> QED
    BY <1>2, <2>2
<1>4. Same(two) /\ two.asked = n + 2
  BY <1>1, <1>2, <1>13
<1>5. ListOK(ack, n + 1, hist.done) /\ Effect(ack, timers, 0, "none", 0)
  BY <1>1, DeferMoves DEF Conns
<1>6. /\ ListOK(Defer(ack, "mqupld", n + 2), n + 2, hist.done)
      /\ Effect(Defer(ack, "mqupld", n + 2), ack, 0, "none", 0)
  <2>1. /\ ListOK(Defer(ack, "mqupld", (n + 1) + 1), (n + 1) + 1, hist.done)
        /\ Effect(Defer(ack, "mqupld", (n + 1) + 1), ack, 0, "none", 0)
    BY <1>5, DeferMoves DEF Conns
  <2>2. (n + 1) + 1 = n + 2
    BY <1>1
  <2> QED
    BY <2>1, <2>2
<1>7. Effect(timers, timers, 0, "none", 0)
  BY <1>1, CountMeaning DEF Effect, ListOK
<1>8. Effect(Defer(ack, "mqupld", n + 2), timers, 0, "none", 0)
  <2>1. /\ StatmCount(timers) \in Nat
        /\ \A c \in Conns : ServeCount(timers, c) \in Nat
    BY <1>1, CountMeaning DEF ListOK
  <2> QED
    BY <1>5, <1>6, <2>1 DEF Effect
<1>9. \/ /\ rc = "none"
         /\ timers' = timers /\ hist' = hist /\ pc' = pc /\ agstatus' = agstatus
      \/ timers' = ack /\ hist' = boot /\ pc' = pc /\ agstatus' = "isReboot"
      \/ /\ timers' = Defer(ack, "mqupld", n + 2) /\ hist' = two
         /\ pc' = pc /\ agstatus' = agstatus
      \/ /\ timers' = ack /\ hist' = one /\ (~tinfo \/ rc = "notstring")
         /\ pc' = At("crashed", "none") /\ agstatus' = agstatus
      \/ /\ timers' = timers /\ hist' = told /\ (eloop = "destroyed" \/ rc = "toolong")
         /\ pc' = At("crashed", "none") /\ agstatus' = agstatus
  BY DEF admlink_process_rc, Crash, told
<1>10. agstatus \in {"isOk", "isReboot"}
  BY DEF IInv, Types
<1>11. Same(hist') \/ hist' = hist
  BY <1>2, <1>3, <1>4, <1>9, <1>15
<1>16. /\ ListOK(timers', hist'.asked, hist'.done)
       /\ Effect(timers', timers, 0, "none", 0)
  <2> HIDE DEF ack, one, two, boot
  <2> QED
    BY <1>1, <1>2, <1>3, <1>4, <1>5, <1>6, <1>7, <1>8, <1>9, <1>15
<1> HIDE DEF ack, one, two, boot
<1>12. \/ pc' = pc /\ agstatus' \in {"isOk", "isReboot"}
       \/ /\ pc' = At("crashed", "none") /\ UNCHANGED agstatus
          /\ ~tinfo \/ eloop = "destroyed" \/ hist'.malformed
  BY <1>2, <1>3, <1>9, <1>10
<1> QED
  BY <1>1, <1>11, <1>12, <1>16 DEF Noted

-----------------------------------------------------------------------------
(* What the actions that touch a connection do to it.                       *)

\* One connection changes.
Only(c) == /\ c \in Conns /\ conn' \in [Conns -> Conn]
           /\ \A d \in Conns \ {c} : conn'[d] = conn[d]

\* The connection is closed, and its client is left with error e.
Closes(c, e) == Only(c) /\ conn'[c].status = 0 /\ conn'[c].error = e

\* A step that assigns a struct of the right fields to one connection leaves the
\* others as they are.
LEMMA OneConn ==
    ASSUME conn \in [Conns -> Conn], NEW c \in Conns, NEW k \in Conn,
           conn' = [conn EXCEPT ![c] = k]
    PROVE  Only(c) /\ conn'[c] = k
  BY DEF Only

\* Closing a connection keeps its fields within their values, clears its status
\* and leaves the client's error, which the caller may then overwrite.
LEMMA ClosedConn ==
    ASSUME NEW k \in Conn
    PROVE  /\ Closed(k) \in Conn /\ Closed(k).status = 0 /\ Closed(k).error = k.error
           /\ \A e \in {"ERR", "FULL"} :
                 /\ [Closed(k) EXCEPT !.error = e] \in Conn
                 /\ [Closed(k) EXCEPT !.error = e].status = 0
                 /\ [Closed(k) EXCEPT !.error = e].error = e
<1> DEFINE s == IF k.bio THEN "freed" ELSE k.sock
           m == [k EXCEPT !.bio = FALSE, !.status = 0, !.sock = s]
<1>1. s \in {"none", "live", "freed"}
  BY DEF Conn
<1>2. Closed(k) = m
  BY DEF Closed
<1> HIDE DEF s
<1>3. m \in Conn /\ m.status = 0 /\ m.error = k.error
  BY <1>1 DEF Conn
<1> HIDE DEF m
<1>4. \A e \in {"ERR", "FULL"} : /\ [m EXCEPT !.error = e] \in Conn
                                 /\ [m EXCEPT !.error = e].status = 0
                                 /\ [m EXCEPT !.error = e].error = e
  BY <1>3 DEF Conn
<1> QED
  BY <1>2, <1>3, <1>4

\* The list of timeouts of a state that satisfies the invariant, and the rest.
LEMMA Parts ==
    IInv => /\ conn \in [Conns -> Conn] /\ \A c \in Conns : conn[c] \in Conn
            /\ ListOK(timers, hist.asked, hist.done)
  BY DEF IInv, Types

\* ag_handle_clttraffic closes the connection whose mqtt_sync failed.
LEMMA TrafficErrorMoves ==
    ASSUME IInv, TrafficError
    PROVE  Closes(pc.c, "ERR")
<1>1. /\ pc.c \in Conns
      /\ conn' = [conn EXCEPT ![pc.c] = [Closed(conn[pc.c]) EXCEPT !.error = "ERR"]]
  BY Parts DEF TrafficError, IInv, Where
<1> DEFINE k == [Closed(conn[pc.c]) EXCEPT !.error = "ERR"]
<1>2. k \in Conn /\ k.status = 0 /\ k.error = "ERR"
  BY <1>1, Parts, ClosedConn
<1> HIDE DEF k
<1>3. Only(pc.c) /\ conn'[pc.c] = k
  BY <1>1, <1>2, Parts, OneConn DEF k
<1> QED
  BY <1>2, <1>3 DEF Closes

\* close_conn at exit clears the status and leaves the client's error.
LEMMA CloseMoves ==
    ASSUME IInv, close_conn
    PROVE  Closes(pc.c, conn[pc.c].error)
<1>1. pc.c \in Conns /\ conn' = [conn EXCEPT ![pc.c] = Closed(conn[pc.c])]
  BY Parts DEF close_conn, IInv, Where
<1>2. /\ Closed(conn[pc.c]) \in Conn /\ Closed(conn[pc.c]).status = 0
      /\ Closed(conn[pc.c]).error = conn[pc.c].error
  BY <1>1, Parts, ClosedConn
<1>3. Only(pc.c) /\ conn'[pc.c] = Closed(conn[pc.c])
  BY <1>1, <1>2, Parts, OneConn
<1> QED
  BY <1>2, <1>3 DEF Closes

\* eloop_set_publish leaves the connection of the publish as it is, or ends on a
\* client that was never initialised, or closes it: because the buffer is full,
\* or because it had failed before.
LEMMA PublishMoves ==
    ASSUME IInv, eloop_set_publish, NEW c, c = pc.c
    PROVE  /\ c \in Conns /\ hist' \in History /\ Noted
           /\ hist'.asked = hist.asked /\ hist'.done = hist.done /\ hist'.up = hist.up
           /\ \/ /\ conn[c].error = "zero" /\ pc' = At("crashed", "none")
                 /\ UNCHANGED <<conn, mutex, left, hist>>
              \/ /\ pc' = At("loop", "none") /\ mutex' = [mutex EXCEPT ![c] = "free"]
                 /\ left' \in Left
                 /\ \/ UNCHANGED <<conn, hist>>
                    \/ Closes(c, "FULL") /\ hist'.full
                    \/ /\ conn[c].error \in {"ERR", "FULL"}
                       /\ Closes(c, conn[c].error) /\ UNCHANGED hist
<1> DEFINE k == conn[c]
<1>1. /\ c \in Conns /\ k \in Conn /\ left \in Left /\ hist \in History
      /\ [hist EXCEPT !.full = TRUE] \in History
      /\ [hist EXCEPT !.full = TRUE].asked = hist.asked
      /\ [hist EXCEPT !.full = TRUE].done = hist.done
      /\ [hist EXCEPT !.full = TRUE].up = hist.up
      /\ [hist EXCEPT !.full = TRUE].malformed = hist.malformed
      /\ [hist EXCEPT !.full = TRUE].full = TRUE
  BY Parts DEF eloop_set_publish, IInv, Types, Where, History
<1>2. /\ Closed(k) \in Conn /\ Closed(k).status = 0 /\ Closed(k).error = k.error
      /\ [Closed(k) EXCEPT !.error = "FULL"] \in Conn
      /\ [Closed(k) EXCEPT !.error = "FULL"].status = 0
      /\ [Closed(k) EXCEPT !.error = "FULL"].error = "FULL"
  BY <1>1, ClosedConn
<1>3. conn' = [conn EXCEPT ![c] = Closed(k)] => Closes(c, k.error)
  BY <1>1, <1>2, Parts, OneConn DEF Closes
<1>4. conn' = [conn EXCEPT ![c] = [Closed(k) EXCEPT !.error = "FULL"]]
        => Closes(c, "FULL")
  <2> DEFINE m == [Closed(k) EXCEPT !.error = "FULL"]
  <2>1. m \in Conn /\ m.status = 0 /\ m.error = "FULL"
    BY <1>2
  <2> HIDE DEF m
  <2>2. conn' = [conn EXCEPT ![c] = m] => Closes(c, "FULL")
    BY <1>1, <2>1, Parts, OneConn DEF Closes
  <2> QED
    BY <2>2 DEF m
<1>5. left.full > 0 => [left EXCEPT !.full = @ - 1] \in Left
  BY <1>1 DEF Left
<1>6. \/ /\ k.error = "zero" /\ pc' = At("crashed", "none")
         /\ UNCHANGED <<conn, mutex, left, hist>>
      \/ /\ pc' = At("loop", "none") /\ mutex' = [mutex EXCEPT ![c] = "free"]
         /\ \/ UNCHANGED <<conn, left, hist>>
            \/ /\ left.full > 0 /\ left' = [left EXCEPT !.full = @ - 1]
               /\ hist' = [hist EXCEPT !.full = TRUE]
               /\ conn' = [conn EXCEPT ![c] = [Closed(k) EXCEPT !.error = "FULL"]]
            \/ /\ k.error \in {"ERR", "FULL"} /\ conn' = [conn EXCEPT ![c] = Closed(k)]
               /\ UNCHANGED <<left, hist>>
  BY DEF eloop_set_publish, ToLoop, Crash, Unlock
<1> HIDE DEF k
<1>7. /\ c \in Conns /\ hist' \in History /\ Noted
      /\ hist'.asked = hist.asked /\ hist'.done = hist.done /\ hist'.up = hist.up
  BY <1>1, <1>6 DEF Noted
<1>8. \/ /\ k.error = "zero" /\ pc' = At("crashed", "none")
         /\ UNCHANGED <<conn, mutex, left, hist>>
      \/ /\ pc' = At("loop", "none") /\ mutex' = [mutex EXCEPT ![c] = "free"]
         /\ left' \in Left
         /\ \/ UNCHANGED <<conn, hist>>
            \/ Closes(c, "FULL") /\ hist'.full
            \/ /\ k.error \in {"ERR", "FULL"}
               /\ Closes(c, k.error) /\ UNCHANGED hist
  BY <1>1, <1>3, <1>4, <1>5, <1>6
<1> QED
  BY <1>7, <1>8 DEF k

\* The steps of dialling set the fields of one connection.
LEMMA DialMoves ==
    ASSUME IInv
    PROVE  /\ OpenBio => Only(pc.c) /\ conn'[pc.c] = [conn[pc.c] EXCEPT !.bio = TRUE]
           /\ DialFails => Only(pc.c) /\ conn'[pc.c] = [conn[pc.c] EXCEPT !.bio = FALSE]
           /\ DialOk => /\ Only(pc.c)
                        /\ conn'[pc.c] = [conn[pc.c] EXCEPT !.sock = "live",
                                                            !.error = "OK"]
           /\ ConnectFails => /\ Only(pc.c)
                              /\ conn'[pc.c] = [conn[pc.c] EXCEPT !.error = "ERR"]
           /\ ConnectOk => Only(pc.c) /\ conn'[pc.c] = [conn[pc.c] EXCEPT !.status = 1]
<1>1. \A c \in Conns :
         /\ [conn[c] EXCEPT !.bio = TRUE] \in Conn /\ [conn[c] EXCEPT !.bio = FALSE] \in Conn
         /\ [conn[c] EXCEPT !.sock = "live", !.error = "OK"] \in Conn
         /\ [conn[c] EXCEPT !.error = "ERR"] \in Conn /\ [conn[c] EXCEPT !.status = 1] \in Conn
  BY Parts DEF Conn
<1>2. pc.at \in {"check", "dialing", "syncing"} => pc.c \in Conns
  BY DEF IInv, Where
<1>3. OpenBio => conn' = [conn EXCEPT ![pc.c] = [conn[pc.c] EXCEPT !.bio = TRUE]]
  BY DEF OpenBio
<1>4. DialFails => conn' = [conn EXCEPT ![pc.c] = [conn[pc.c] EXCEPT !.bio = FALSE]]
  BY DEF DialFails
<1>5. DialOk => conn' = [conn EXCEPT ![pc.c] = [conn[pc.c] EXCEPT !.sock = "live",
                                                                 !.error = "OK"]]
  BY Parts, <1>2 DEF DialOk
<1>6. ConnectFails => conn' = [conn EXCEPT ![pc.c] = [conn[pc.c] EXCEPT !.error = "ERR"]]
  BY DEF ConnectFails
<1>7. ConnectOk => conn' = [conn EXCEPT ![pc.c] = [conn[pc.c] EXCEPT !.status = 1]]
  BY DEF ConnectOk
<1>8. CASE pc.c \in Conns
  BY <1>1, <1>3, <1>4, <1>5, <1>6, <1>7, <1>8, Parts, OneConn
<1>9. CASE pc.c \notin Conns
  BY <1>2, <1>9 DEF OpenBio, DialFails, DialOk, ConnectFails, ConnectOk
<1> QED
  BY <1>8, <1>9

-----------------------------------------------------------------------------
(* Every step keeps the list in order, with a known effect on its counts.   *)

\* A step whose list is well formed for its history.
Lists(s, d, k) == /\ ListOK(timers', hist'.asked, hist'.done)
                  /\ Effect(timers', timers, s, d, k)
                  /\ hist' \in History /\ Noted

\* The steps that start a handler take one timeout off the list, and with it the
\* handler's place in the counts.
LEMMA FireLists ==
    ASSUME IInv
    PROVE  /\ TrafficStart => Lists(0, pc'.c, -1) /\ pc'.c \in Conns /\ hist' = hist
           /\ PublishStart => /\ Lists(0, "none", -1) /\ Head(timers).c \in Conns
                              /\ hist'.up = hist.up /\ hist'.full = hist.full
           /\ eloop_set_exit => Lists(0, "none", -1) /\ hist' = hist
           /\ StatmStart => Lists(-1, "none", -1) /\ hist' = hist
<1>1. ListOK(timers, hist.asked, hist.done) /\ hist \in History
  BY DEF IInv, Types
<1>2. ASSUME TrafficStart
      PROVE  Lists(0, pc'.c, -1) /\ pc'.c \in Conns /\ hist' = hist
  <2>1. /\ timers' = Tail(timers) /\ hist' = hist /\ pc'.c = Head(timers).c
        /\ Fires("ag_handle_clttraffic")
    BY <1>2 DEF TrafficStart, At
  <2>2. /\ ListOK(Tail(timers), hist.asked, hist.done) /\ Head(timers).c \in Conns
        /\ Effect(Tail(timers), timers, 0, Head(timers).c, -1)
    BY <1>1, <2>1, FiresMoves
  <2> QED
    BY <1>1, <2>1, <2>2 DEF Lists, Noted
<1>3. ASSUME PublishStart
      PROVE  /\ Lists(0, "none", -1) /\ Head(timers).c \in Conns
             /\ hist'.up = hist.up /\ hist'.full = hist.full
  <2>1. /\ timers' = Tail(timers) /\ hist' = [hist EXCEPT !.done = Head(timers).n]
        /\ Fires("eloop_set_publish")
    BY <1>3 DEF PublishStart
  <2>2. /\ ListOK(Tail(timers), hist.asked, Head(timers).n) /\ Head(timers).n \in Nat
        /\ Effect(Tail(timers), timers, 0, "none", -1) /\ Head(timers).c \in Conns
    BY <1>1, <2>1, FiresMoves
  <2>3. /\ hist' \in History /\ hist'.asked = hist.asked /\ hist'.done = Head(timers).n
        /\ hist'.up = hist.up /\ hist'.full = hist.full
        /\ hist'.malformed = hist.malformed
    BY <1>1, <2>1, <2>2 DEF History
  <2> QED
    BY <2>1, <2>2, <2>3 DEF Lists, Noted
<1>4. ASSUME eloop_set_exit
      PROVE  Lists(0, "none", -1) /\ hist' = hist
  <2>1. timers' = Tail(timers) /\ hist' = hist /\ Fires("eloop_set_exit")
    BY <1>4 DEF eloop_set_exit
  <2>2. /\ ListOK(Tail(timers), hist.asked, hist.done)
        /\ Effect(Tail(timers), timers, 0, "none", -1)
    BY <1>1, <2>1, FiresMoves
  <2> QED
    BY <1>1, <2>1, <2>2 DEF Lists, Noted
<1>5. ASSUME StatmStart
      PROVE  Lists(-1, "none", -1) /\ hist' = hist
  <2>1. timers' = Tail(timers) /\ hist' = hist /\ Fires("chk_agstatm")
    BY <1>5 DEF StatmStart
  <2>2. /\ ListOK(Tail(timers), hist.asked, hist.done)
        /\ Effect(Tail(timers), timers, -1, "none", -1)
    BY <1>1, <2>1, FiresMoves
  <2> QED
    BY <1>1, <2>1, <2>2 DEF Lists, Noted
<1> QED
  BY <1>2, <1>3, <1>4, <1>5

\* The steps that end with a call of eloop_register_timeout put one handler back:
\* ag_handle_clttraffic when mqtt_sync succeeds or a connection comes up,
\* chk_agstatm on the way out of the state machine.
LEMMA RegisterLists ==
    ASSUME IInv
    PROVE  /\ TrafficOk => /\ Lists(0, pc.c, 1) /\ hist'.up = hist.up
                           /\ hist'.full = hist.full
           /\ ConnectOk => /\ Lists(0, pc.c, 1) /\ hist'.up = hist.up \cup {pc.c}
                           /\ hist'.full = hist.full
           /\ StatmEnd => /\ Lists(1, "none", 1) /\ hist'.up = hist.up
                          /\ hist'.full = hist.full
<1>1. /\ ListOK(timers, hist.asked, hist.done) /\ hist \in History
      /\ eloop \in {"up", "destroyed"}
  BY DEF IInv, Types
<1>2. Used => hist' \in History /\ hist'.asked = hist.asked /\ hist'.done = hist.done
              /\ hist'.up = hist.up /\ hist'.full = hist.full /\ Noted
  BY <1>1 DEF Used, History, Noted
<1>3. ASSUME TrafficOk
      PROVE  Lists(0, pc.c, 1) /\ hist'.up = hist.up /\ hist'.full = hist.full
  <2>1. /\ pc.c \in Conns /\ Used
        /\ timers' = Register(timers, "ag_handle_clttraffic", pc.c, 0, SynT)
    BY <1>3 DEF TrafficOk, IInv, Where
  <2>2. /\ ListOK(timers', hist.asked, hist.done) /\ Effect(timers', timers, 0, pc.c, 1)
    BY <1>1, <2>1, RegisterMoves DEF Handlers
  <2> QED
    BY <1>2, <2>1, <2>2 DEF Lists
<1>4. ASSUME ConnectOk
      PROVE  /\ Lists(0, pc.c, 1) /\ hist'.up = hist.up \cup {pc.c}
             /\ hist'.full = hist.full
  <2>1. /\ pc.c \in Conns
        /\ timers' = Register(timers, "ag_handle_clttraffic", pc.c, 0, SynT)
        /\ hist' = [hist EXCEPT !.late = @ \/ eloop = "destroyed", !.up = @ \cup {pc.c}]
    BY <1>4 DEF ConnectOk, IInv, Where
  <2>2. /\ ListOK(timers', hist.asked, hist.done) /\ Effect(timers', timers, 0, pc.c, 1)
    BY <1>1, <2>1, RegisterMoves DEF Handlers
  <2>3. /\ hist' \in History /\ hist'.asked = hist.asked /\ hist'.done = hist.done
        /\ hist'.up = hist.up \cup {pc.c} /\ hist'.full = hist.full /\ Noted
    BY <1>1, <2>1 DEF History, Noted, Conns
  <2> QED
    BY <2>2, <2>3 DEF Lists
<1>5. ASSUME StatmEnd
      PROVE  Lists(1, "none", 1) /\ hist'.up = hist.up /\ hist'.full = hist.full
  <2>1. timers' = Register(timers, "chk_agstatm", "none", 0, SmT) /\ Used
    BY <1>5 DEF StatmEnd
  <2>2. ListOK(timers', hist.asked, hist.done) /\ Effect(timers', timers, 1, "none", 1)
    BY <1>1, <2>1, RegisterMoves DEF Handlers
  <2> QED
    BY <1>2, <2>1, <2>2 DEF Lists
<1> QED
  BY <1>3, <1>4, <1>5

\* The arrival of a publish, a command of the control socket and the passing of
\* time leave the counts of chk_agstatm and ag_handle_clttraffic as they are.
LEMMA OtherLists ==
    ASSUME IInv
    PROVE  /\ \A rc \in Rcs :
                 publish_callback(rc) => /\ Lists(0, "none", 0) /\ hist'.up = hist.up
                                         /\ hist'.full = hist.full
           /\ \A cmd \in Cmds :
                 admlink_ctrl_iface_receive(cmd)
                     => /\ Lists(0, "none", 1) /\ hist'.up = hist.up
                        /\ hist'.full = hist.full
           /\ Tick => Lists(0, "none", 0) /\ hist' = hist
           /\ UNCHANGED <<timers, hist>> => Lists(0, "none", 0) /\ hist' = hist
           /\ eloop_set_publish => Lists(0, "none", 0) /\ hist'.up = hist.up
<1>1. /\ ListOK(timers, hist.asked, hist.done) /\ hist \in History
      /\ timers \in Seq(Timer)
  BY DEF IInv, Types, ListOK
<1>2. /\ StatmCount(timers) \in Nat /\ \A c : ServeCount(timers, c) \in Nat
  BY <1>1, CountMeaning
<1>3. \A k : Effect(timers, timers, 0, "none", k)
  BY <1>2 DEF Effect, Conns
<1>4. ASSUME NEW rc \in Rcs, publish_callback(rc)
      PROVE  Lists(0, "none", 0) /\ hist'.up = hist.up /\ hist'.full = hist.full
  <2>1. admlink_process_rc(rc)
    BY <1>4 DEF publish_callback
  <2>2. /\ ListOK(timers', hist'.asked, hist'.done) /\ Effect(timers', timers, 0, "none", 0)
        /\ hist'.up = hist.up /\ hist'.full = hist.full /\ hist' \in History /\ Noted
    BY <2>1, RcMoves
  <2> QED
    BY <2>2 DEF Lists
<1>5. ASSUME NEW cmd \in Cmds, admlink_ctrl_iface_receive(cmd)
      PROVE  Lists(0, "none", 1) /\ hist'.up = hist.up /\ hist'.full = hist.full
  <2>1. CASE UNCHANGED <<timers, hist>>
    BY <1>1, <1>3, <2>1 DEF Lists, Noted
  <2>2. CASE /\ timers' = Register(timers, "eloop_set_exit", "none", 0, SynT)
             /\ hist' = [hist EXCEPT !.stop = TRUE]
    <3>1. ListOK(timers', hist.asked, hist.done) /\ Effect(timers', timers, 0, "none", 1)
      BY <1>1, <2>2, RegisterMoves DEF Handlers
    <3>2. /\ hist' \in History /\ hist'.asked = hist.asked /\ hist'.done = hist.done
          /\ hist'.up = hist.up /\ hist'.full = hist.full /\ Noted
      BY <1>1, <2>2 DEF History, Noted
    <3> QED
      BY <3>1, <3>2 DEF Lists
  <2>3. CASE /\ timers' = Defer(timers, "mqupld", hist.asked + 1)
             /\ hist' = [hist EXCEPT !.asked = @ + 1]
    <3>1. /\ ListOK(timers', hist.asked + 1, hist.done)
          /\ Effect(timers', timers, 0, "none", 0)
      BY <1>1, <2>3, DeferMoves DEF Conns
    <3>2. /\ hist' \in History /\ hist'.asked = hist.asked + 1 /\ hist'.done = hist.done
          /\ hist'.up = hist.up /\ hist'.full = hist.full /\ Noted
      BY <1>1, <2>3 DEF History, Noted
    <3>3. Effect(timers', timers, 0, "none", 1)
      BY <3>1 DEF Effect, Conns
    <3> QED
      BY <3>1, <3>2, <3>3 DEF Lists
  <2> QED
    BY <1>5, <2>1, <2>2, <2>3 DEF admlink_ctrl_iface_receive
<1>6. ASSUME Tick PROVE Lists(0, "none", 0) /\ hist' = hist
  <2>1. timers' = Elapse(timers) /\ hist' = hist
    BY <1>6 DEF Tick
  <2>2. ListOK(timers', hist.asked, hist.done)
    BY <1>1, <2>1, AgedOK
  <2>3. SameCounts(timers', timers)
    BY <1>1, <2>1, AgedCount
  <2>4. Effect(timers', timers, 0, "none", 0)
    BY <1>2, <2>3 DEF Effect, SameCounts, Conns
  <2> QED
    BY <1>1, <2>1, <2>2, <2>4 DEF Lists, Noted
<1>7. UNCHANGED <<timers, hist>> => Lists(0, "none", 0) /\ hist' = hist
  BY <1>1, <1>3 DEF Lists, Noted
<1>8. ASSUME eloop_set_publish PROVE Lists(0, "none", 0) /\ hist'.up = hist.up
  <2>1. /\ hist' \in History /\ Noted /\ hist'.up = hist.up
        /\ hist'.asked = hist.asked /\ hist'.done = hist.done /\ timers' = timers
    BY <1>8, PublishMoves DEF eloop_set_publish
  <2> QED
    BY <1>1, <1>3, <2>1 DEF Lists
<1> QED
  BY <1>4, <1>5, <1>6, <1>7, <1>8

-----------------------------------------------------------------------------
(* Every step keeps each part of the invariant.                              *)

\* The list stays sorted, its publishes in order and its entries well formed.
LEMMA ListKept ==
    IInv /\ [Next]_vars => ListOK(timers', hist'.asked, hist'.done) /\ hist' \in History
<1> SUFFICES ASSUME IInv, [Next]_vars
             PROVE  ListOK(timers', hist'.asked, hist'.done) /\ hist' \in History
  OBVIOUS
<1>1. CASE TrafficStart
  BY <1>1, FireLists DEF Lists
<1>2. CASE TrafficOk
  BY <1>2, RegisterLists DEF Lists
<1>3. CASE TrafficError
  <2>1. UNCHANGED <<timers, hist>>
    BY <1>3 DEF TrafficError
  <2> QED
    BY <2>1, OtherLists DEF Lists
<1>4. CASE TrafficFreed
  <2>1. UNCHANGED <<timers, hist>>
    BY <1>4 DEF TrafficFreed
  <2> QED
    BY <2>1, OtherLists DEF Lists
<1>5. CASE eloop_set_publish
  BY <1>5, OtherLists DEF Lists
<1>6. CASE eloop_set_exit
  BY <1>6, FireLists DEF Lists
<1>7. CASE StatmStart
  BY <1>7, FireLists DEF Lists
<1>8. CASE CheckConnected
  <2>1. UNCHANGED <<timers, hist>>
    BY <1>8 DEF CheckConnected
  <2> QED
    BY <2>1, OtherLists DEF Lists
<1>9. CASE OpenBio
  <2>1. UNCHANGED <<timers, hist>>
    BY <1>9 DEF OpenBio
  <2> QED
    BY <2>1, OtherLists DEF Lists
<1>10. CASE CredentialsFail
  <2>1. UNCHANGED <<timers, hist>>
    BY <1>10 DEF CredentialsFail
  <2> QED
    BY <2>1, OtherLists DEF Lists
<1>11. CASE DialFails
  <2>1. UNCHANGED <<timers, hist>>
    BY <1>11 DEF DialFails
  <2> QED
    BY <2>1, OtherLists DEF Lists
<1>12. CASE DialUnverified
  <2>1. UNCHANGED <<timers, hist>>
    BY <1>12 DEF DialUnverified
  <2> QED
    BY <2>1, OtherLists DEF Lists
<1>13. CASE DialOk
  <2>1. UNCHANGED <<timers, hist>>
    BY <1>13 DEF DialOk
  <2> QED
    BY <2>1, OtherLists DEF Lists
<1>14. CASE ConnectFails
  <2>1. UNCHANGED <<timers, hist>>
    BY <1>14 DEF ConnectFails
  <2> QED
    BY <2>1, OtherLists DEF Lists
<1>15. CASE ConnectOk
  BY <1>15, RegisterLists DEF Lists
<1>16. CASE check_agstatus
  <2>1. UNCHANGED <<timers, hist>>
    BY <1>16 DEF check_agstatus
  <2> QED
    BY <2>1, OtherLists DEF Lists
<1>17. CASE StatmEnd
  BY <1>17, RegisterLists DEF Lists
<1>18. CASE exit_link
  <2>1. UNCHANGED <<timers, hist>>
    BY <1>18 DEF exit_link
  <2> QED
    BY <2>1, OtherLists DEF Lists
<1>19. CASE close_conn
  <2>1. UNCHANGED <<timers, hist>>
    BY <1>19 DEF close_conn
  <2> QED
    BY <2>1, OtherLists DEF Lists
<1>20. ASSUME NEW rc \in Rcs, publish_callback(rc)
       PROVE  ListOK(timers', hist'.asked, hist'.done) /\ hist' \in History
  BY <1>20, OtherLists DEF Lists
<1>21. ASSUME NEW cmd \in Cmds, admlink_ctrl_iface_receive(cmd)
       PROVE  ListOK(timers', hist'.asked, hist'.done) /\ hist' \in History
  BY <1>21, OtherLists DEF Lists
<1>22. CASE handle_stop
  <2>1. UNCHANGED <<timers, hist>>
    BY <1>22 DEF handle_stop
  <2> QED
    BY <2>1, OtherLists DEF Lists
<1>23. CASE Tick
  BY <1>23, OtherLists DEF Lists
<1>24. CASE UNCHANGED vars
  <2>1. UNCHANGED <<timers, hist>>
    BY <1>24 DEF vars
  <2> QED
    BY <2>1, OtherLists DEF Lists
<1>25. CASE mqtt_sync
  <2>1. UNCHANGED <<timers, hist>>
    BY <1>25 DEF mqtt_sync
  <2> QED
    BY <2>1, OtherLists DEF Lists
<1>26. CASE mqtt_connect
  <2>1. UNCHANGED <<timers, hist>>
    BY <1>26 DEF mqtt_connect
  <2> QED
    BY <2>1, OtherLists DEF Lists
<1>27. CASE PublishStart
  BY <1>27, FireLists DEF Lists
<1>28. CASE close_conn_waits
  <2>1. UNCHANGED <<timers, hist>>
    BY <1>28 DEF close_conn_waits
  <2> QED
    BY <2>1, OtherLists DEF Lists
<1> QED
  BY <1>1, <1>2, <1>3, <1>4, <1>5, <1>6, <1>7, <1>8, <1>9, <1>10, <1>11, <1>12,
     <1>13, <1>14, <1>15, <1>16, <1>17, <1>18, <1>19, <1>20, <1>21, <1>22,
     <1>23, <1>24, <1>25, <1>26, <1>27, <1>28
     DEF Next, Thread, Statm

\* status is 1 only on a connection that has its BIO: the step that sets it ends a
\* dialling, and every step that closes the BIO clears it.
LEMMA StatusKept == IInv /\ [Next]_vars => StatusMeansSocket'
<1> SUFFICES ASSUME IInv, [Next]_vars PROVE StatusMeansSocket'
  OBVIOUS
<1>0. /\ \A c \in Conns : conn[c] \in Conn
      /\ \A c \in Conns : conn[c].status = 1 =>
            conn[c].bio /\ conn[c].sock = "live" /\ conn[c].error = "OK"
      /\ Where
  BY Parts DEF IInv, StatusMeansSocket
<1>1. CASE TrafficStart
  <2>1. UNCHANGED conn
    BY <1>1 DEF TrafficStart
  <2> QED
    BY <1>0, <2>1 DEF StatusMeansSocket
<1>2. CASE TrafficOk
  <2>1. UNCHANGED conn
    BY <1>2 DEF TrafficOk
  <2> QED
    BY <1>0, <2>1 DEF StatusMeansSocket
<1>3. CASE TrafficError
  <2>1. Closes(pc.c, "ERR")
    BY <1>3, TrafficErrorMoves
  <2> QED
    BY <1>0, <2>1 DEF StatusMeansSocket, Closes, Only
<1>4. CASE TrafficFreed
  <2>1. UNCHANGED conn
    BY <1>4 DEF TrafficFreed
  <2> QED
    BY <1>0, <2>1 DEF StatusMeansSocket
<1>5. CASE eloop_set_publish
  <2>1. \/ UNCHANGED conn
        \/ \E c, e : Closes(c, e)
    BY <1>5, PublishMoves
  <2> QED
    BY <1>0, <2>1 DEF StatusMeansSocket, Closes, Only
<1>6. CASE eloop_set_exit
  <2>1. UNCHANGED conn
    BY <1>6 DEF eloop_set_exit
  <2> QED
    BY <1>0, <2>1 DEF StatusMeansSocket
<1>7. CASE StatmStart
  <2>1. UNCHANGED conn
    BY <1>7 DEF StatmStart
  <2> QED
    BY <1>0, <2>1 DEF StatusMeansSocket
<1>8. CASE CheckConnected
  <2>1. UNCHANGED conn
    BY <1>8 DEF CheckConnected
  <2> QED
    BY <1>0, <2>1 DEF StatusMeansSocket
<1>9. CASE OpenBio
  <2>1. Only(pc.c) /\ pc.c \in Conns
    BY <1>9, DialMoves DEF Only
  <2>2. conn'[pc.c].status = 1 =>
          conn'[pc.c].bio /\ conn'[pc.c].sock = "live" /\ conn'[pc.c].error = "OK"
    BY <1>0, <2>1, <1>9, DialMoves DEF OpenBio, Where, Conn
  <2> QED
    BY <1>0, <2>1, <2>2 DEF StatusMeansSocket, Only
<1>10. CASE CredentialsFail
  <2>1. UNCHANGED conn
    BY <1>10 DEF CredentialsFail
  <2> QED
    BY <1>0, <2>1 DEF StatusMeansSocket
<1>11. CASE DialFails
  <2>1. Only(pc.c) /\ pc.c \in Conns
    BY <1>11, DialMoves DEF Only
  <2>2. conn'[pc.c].status = 1 =>
          conn'[pc.c].bio /\ conn'[pc.c].sock = "live" /\ conn'[pc.c].error = "OK"
    BY <1>0, <2>1, <1>11, DialMoves DEF DialFails, Where, Conn
  <2> QED
    BY <1>0, <2>1, <2>2 DEF StatusMeansSocket, Only
<1>12. CASE DialUnverified
  <2>1. UNCHANGED conn
    BY <1>12 DEF DialUnverified
  <2> QED
    BY <1>0, <2>1 DEF StatusMeansSocket
<1>13. CASE DialOk
  <2>1. Only(pc.c) /\ pc.c \in Conns
    BY <1>13, DialMoves DEF Only
  <2>2. conn'[pc.c] = [conn[pc.c] EXCEPT !.sock = "live", !.error = "OK"]
    BY <1>13, DialMoves
  <2>3. conn[pc.c] \in Conn /\ conn[pc.c].bio
    BY <1>0, <2>1, <1>13 DEF DialOk, Where
  <2>4. conn'[pc.c].bio /\ conn'[pc.c].sock = "live" /\ conn'[pc.c].error = "OK"
    BY <2>2, <2>3 DEF Conn
  <2> QED
    BY <1>0, <2>1, <2>4 DEF StatusMeansSocket, Only
<1>14. CASE ConnectFails
  <2>1. Only(pc.c) /\ pc.c \in Conns
    BY <1>14, DialMoves DEF Only
  <2>2. conn'[pc.c].status = 1 =>
          conn'[pc.c].bio /\ conn'[pc.c].sock = "live" /\ conn'[pc.c].error = "OK"
    BY <1>0, <2>1, <1>14, DialMoves DEF ConnectFails, Where, Conn
  <2> QED
    BY <1>0, <2>1, <2>2 DEF StatusMeansSocket, Only
<1>15. CASE ConnectOk
  <2>1. Only(pc.c) /\ pc.c \in Conns
    BY <1>15, DialMoves DEF Only
  <2>2. conn'[pc.c].status = 1 =>
          conn'[pc.c].bio /\ conn'[pc.c].sock = "live" /\ conn'[pc.c].error = "OK"
    BY <1>0, <2>1, <1>15, DialMoves DEF ConnectOk, Where, Conn
  <2> QED
    BY <1>0, <2>1, <2>2 DEF StatusMeansSocket, Only
<1>16. CASE check_agstatus
  <2>1. UNCHANGED conn
    BY <1>16 DEF check_agstatus
  <2> QED
    BY <1>0, <2>1 DEF StatusMeansSocket
<1>17. CASE StatmEnd
  <2>1. UNCHANGED conn
    BY <1>17 DEF StatmEnd
  <2> QED
    BY <1>0, <2>1 DEF StatusMeansSocket
<1>18. CASE exit_link
  <2>1. UNCHANGED conn
    BY <1>18 DEF exit_link
  <2> QED
    BY <1>0, <2>1 DEF StatusMeansSocket
<1>19. CASE close_conn
  <2>1. Closes(pc.c, conn[pc.c].error)
    BY <1>19, CloseMoves
  <2> QED
    BY <1>0, <2>1 DEF StatusMeansSocket, Closes, Only
<1>20. ASSUME NEW rc \in Rcs, publish_callback(rc)
       PROVE  StatusMeansSocket'
  <2>1. UNCHANGED conn
    BY <1>20 DEF publish_callback
  <2> QED
    BY <1>0, <2>1 DEF StatusMeansSocket
<1>21. ASSUME NEW cmd \in Cmds, admlink_ctrl_iface_receive(cmd)
       PROVE  StatusMeansSocket'
  <2>1. UNCHANGED conn
    BY <1>21 DEF admlink_ctrl_iface_receive
  <2> QED
    BY <1>0, <2>1 DEF StatusMeansSocket
<1>22. CASE handle_stop
  <2>1. UNCHANGED conn
    BY <1>22 DEF handle_stop
  <2> QED
    BY <1>0, <2>1 DEF StatusMeansSocket
<1>23. CASE Tick
  <2>1. UNCHANGED conn
    BY <1>23 DEF Tick
  <2> QED
    BY <1>0, <2>1 DEF StatusMeansSocket
<1>24. CASE UNCHANGED vars
  <2>1. UNCHANGED conn
    BY <1>24 DEF vars
  <2> QED
    BY <1>0, <2>1 DEF StatusMeansSocket
<1>25. CASE mqtt_sync
  <2>1. UNCHANGED conn
    BY <1>25 DEF mqtt_sync
  <2> QED
    BY <1>0, <2>1 DEF StatusMeansSocket
<1>26. CASE mqtt_connect
  <2>1. UNCHANGED conn
    BY <1>26 DEF mqtt_connect
  <2> QED
    BY <1>0, <2>1 DEF StatusMeansSocket
<1>27. CASE PublishStart
  <2>1. UNCHANGED conn
    BY <1>27 DEF PublishStart
  <2> QED
    BY <1>0, <2>1 DEF StatusMeansSocket
<1>28. CASE close_conn_waits
  <2>1. UNCHANGED conn
    BY <1>28 DEF close_conn_waits
  <2> QED
    BY <1>0, <2>1 DEF StatusMeansSocket
<1> QED
  BY <1>1, <1>2, <1>3, <1>4, <1>5, <1>6, <1>7, <1>8, <1>9, <1>10, <1>11, <1>12,
     <1>13, <1>14, <1>15, <1>16, <1>17, <1>18, <1>19, <1>20, <1>21, <1>22,
     <1>23, <1>24, <1>25, <1>26, <1>27, <1>28
     DEF Next, Thread, Statm

\* Every step keeps every field within the values the code gives it.
LEMMA TypesKept == IInv /\ [Next]_vars => Types'
<1> SUFFICES ASSUME IInv, [Next]_vars PROVE Types'
  OBVIOUS
<1>a. /\ conn \in [Conns -> Conn]
      /\ eloop \in {"up", "destroyed"} /\ agstatus \in {"isOk", "isReboot"}
      /\ tinfo \in BOOLEAN /\ pc \in Place /\ left \in Left /\ Where
      /\ mutex \in [Conns -> {"free", "held", "cut"}]
  BY DEF IInv, Types
<1>b. /\ \A x \in {"loop", "traffic", "receiving", "publishing", "check", "dialing",
                  "connecting", "connected", "syncing", "register", "check_agstatus",
                  "exit_link", "closing", "leaving", "exited", "crashed", "hung"} :
            \A c \in Conns \cup {"none"} : At(x, c) \in Place
      /\ pc.c \in Conns \cup {"none"} /\ {"mqrecv", "mqupld"} = Conns
  BY <1>a DEF At, Place, Conns
<1>c. hist' \in History
  BY ListKept
<1>d. /\ left.full > 0 => [left EXCEPT !.full = @ - 1] \in Left
      /\ left.rc > 0 => [left EXCEPT !.rc = @ - 1] \in Left
      /\ left.cmd > 0 => [left EXCEPT !.cmd = @ - 1] \in Left
      /\ left.signal > 0 => [left EXCEPT !.signal = @ - 1] \in Left
  BY <1>a DEF Left
<1>e. /\ Unlock(pc.c) => mutex' \in [Conns -> {"free", "held", "cut"}]
      /\ \A w, c : Lock(c, w) => mutex' \in [Conns -> {"free", "held", "cut"}]
      /\ UNCHANGED mutex => mutex' \in [Conns -> {"free", "held", "cut"}]
  BY <1>a DEF Unlock, Lock
<1>1. CASE TrafficStart
  <2>1. UNCHANGED conn
    BY <1>1 DEF TrafficStart
  <2>2. pc' \in Place /\ left' \in Left
    <3>1. pc'.c \in Conns /\ pc' = At("traffic", pc'.c)
      BY <1>1, FireLists DEF TrafficStart, At
    <3> QED
      BY <1>a, <1>b, <3>1, <1>1 DEF TrafficStart
  <2>3. /\ eloop' \in {"up", "destroyed"} /\ agstatus' \in {"isOk", "isReboot"}
        /\ tinfo' \in BOOLEAN
    BY <1>a, <1>1 DEF TrafficStart
  <2>4. mutex' \in [Conns -> {"free", "held", "cut"}]
    BY <1>e, <1>1 DEF TrafficStart
  <2> QED
    BY <1>a, <1>c, <2>1, <2>2, <2>3, <2>4 DEF Types
<1>2. CASE TrafficOk
  <2>1. UNCHANGED conn
    BY <1>2 DEF TrafficOk
  <2>2. pc' \in Place /\ left' \in Left
    BY <1>a, <1>b, <1>2 DEF TrafficOk, ToLoop
  <2>3. /\ eloop' \in {"up", "destroyed"} /\ agstatus' \in {"isOk", "isReboot"}
        /\ tinfo' \in BOOLEAN
    BY <1>a, <1>2 DEF TrafficOk
  <2>4. mutex' \in [Conns -> {"free", "held", "cut"}]
    BY <1>e, <1>2 DEF TrafficOk
  <2> QED
    BY <1>a, <1>c, <2>1, <2>2, <2>3, <2>4 DEF Types
<1>3. CASE TrafficError
  <2>1. conn' \in [Conns -> Conn]
    BY <1>3, TrafficErrorMoves DEF Closes, Only
  <2>2. pc' \in Place /\ left' \in Left
    BY <1>a, <1>b, <1>3 DEF TrafficError, ToLoop
  <2>3. /\ eloop' \in {"up", "destroyed"} /\ agstatus' \in {"isOk", "isReboot"}
        /\ tinfo' \in BOOLEAN
    BY <1>a, <1>3 DEF TrafficError
  <2>4. mutex' \in [Conns -> {"free", "held", "cut"}]
    BY <1>e, <1>3 DEF TrafficError
  <2> QED
    BY <1>a, <1>c, <2>1, <2>2, <2>3, <2>4 DEF Types
<1>4. CASE TrafficFreed
  <2>1. UNCHANGED conn
    BY <1>4 DEF TrafficFreed
  <2>2. pc' \in Place /\ left' \in Left
    BY <1>a, <1>b, <1>4 DEF TrafficFreed, Crash
  <2>3. /\ eloop' \in {"up", "destroyed"} /\ agstatus' \in {"isOk", "isReboot"}
        /\ tinfo' \in BOOLEAN
    BY <1>a, <1>4 DEF TrafficFreed
  <2>4. mutex' \in [Conns -> {"free", "held", "cut"}]
    BY <1>e, <1>4 DEF TrafficFreed
  <2> QED
    BY <1>a, <1>c, <2>1, <2>2, <2>3, <2>4 DEF Types
<1>5. CASE eloop_set_publish
  <2>1. conn' \in [Conns -> Conn]
    BY <1>a, <1>5, PublishMoves DEF Closes, Only
  <2>2. pc' \in Place /\ left' \in Left
    BY <1>a, <1>b, <1>5, PublishMoves
  <2>3. /\ eloop' \in {"up", "destroyed"} /\ agstatus' \in {"isOk", "isReboot"}
        /\ tinfo' \in BOOLEAN
    BY <1>a, <1>5 DEF eloop_set_publish
  <2>4. mutex' \in [Conns -> {"free", "held", "cut"}]
    BY <1>a, <1>5, PublishMoves DEF eloop_set_publish
  <2> QED
    BY <1>a, <1>c, <2>1, <2>2, <2>3, <2>4 DEF Types
<1>6. CASE eloop_set_exit
  <2>1. UNCHANGED conn
    BY <1>6 DEF eloop_set_exit
  <2>2. pc' \in Place /\ left' \in Left
    BY <1>a, <1>b, <1>6 DEF eloop_set_exit
  <2>3. /\ eloop' \in {"up", "destroyed"} /\ agstatus' \in {"isOk", "isReboot"}
        /\ tinfo' \in BOOLEAN
    BY <1>a, <1>6 DEF eloop_set_exit
  <2>4. mutex' \in [Conns -> {"free", "held", "cut"}]
    BY <1>e, <1>6 DEF eloop_set_exit
  <2> QED
    BY <1>a, <1>c, <2>1, <2>2, <2>3, <2>4 DEF Types
<1>7. CASE StatmStart
  <2>1. UNCHANGED conn
    BY <1>7 DEF StatmStart
  <2>2. pc' \in Place /\ left' \in Left
    BY <1>a, <1>b, <1>7 DEF StatmStart
  <2>3. /\ eloop' \in {"up", "destroyed"} /\ agstatus' \in {"isOk", "isReboot"}
        /\ tinfo' \in BOOLEAN
    BY <1>a, <1>7 DEF StatmStart
  <2>4. mutex' \in [Conns -> {"free", "held", "cut"}]
    BY <1>e, <1>7 DEF StatmStart
  <2> QED
    BY <1>a, <1>c, <2>1, <2>2, <2>3, <2>4 DEF Types
<1>8. CASE CheckConnected
  <2>1. UNCHANGED conn
    BY <1>8 DEF CheckConnected
  <2>2. pc' \in Place /\ left' \in Left
    BY <1>a, <1>b, <1>8 DEF CheckConnected, Checked
  <2>3. /\ eloop' \in {"up", "destroyed"} /\ agstatus' \in {"isOk", "isReboot"}
        /\ tinfo' \in BOOLEAN
    BY <1>a, <1>8 DEF CheckConnected
  <2>4. mutex' \in [Conns -> {"free", "held", "cut"}]
    BY <1>e, <1>8 DEF CheckConnected
  <2> QED
    BY <1>a, <1>c, <2>1, <2>2, <2>3, <2>4 DEF Types
<1>9. CASE OpenBio
  <2>1. conn' \in [Conns -> Conn]
    BY <1>9, DialMoves DEF Only
  <2>2. pc' \in Place /\ left' \in Left
    BY <1>a, <1>b, <1>9 DEF OpenBio
  <2>3. /\ eloop' \in {"up", "destroyed"} /\ agstatus' \in {"isOk", "isReboot"}
        /\ tinfo' \in BOOLEAN
    BY <1>a, <1>9 DEF OpenBio
  <2>4. mutex' \in [Conns -> {"free", "held", "cut"}]
    BY <1>e, <1>9 DEF OpenBio
  <2> QED
    BY <1>a, <1>c, <2>1, <2>2, <2>3, <2>4 DEF Types
<1>10. CASE CredentialsFail
  <2>1. UNCHANGED conn
    BY <1>10 DEF CredentialsFail
  <2>2. pc' \in Place /\ left' \in Left
    BY <1>a, <1>b, <1>10 DEF CredentialsFail
  <2>3. /\ eloop' \in {"up", "destroyed"} /\ agstatus' \in {"isOk", "isReboot"}
        /\ tinfo' \in BOOLEAN
    BY <1>a, <1>10 DEF CredentialsFail
  <2>4. mutex' \in [Conns -> {"free", "held", "cut"}]
    BY <1>e, <1>10 DEF CredentialsFail
  <2> QED
    BY <1>a, <1>c, <2>1, <2>2, <2>3, <2>4 DEF Types
<1>11. CASE DialFails
  <2>1. conn' \in [Conns -> Conn]
    BY <1>11, DialMoves DEF Only
  <2>2. pc' \in Place /\ left' \in Left
    BY <1>a, <1>b, <1>11 DEF DialFails, NotReady
  <2>3. /\ eloop' \in {"up", "destroyed"} /\ agstatus' \in {"isOk", "isReboot"}
        /\ tinfo' \in BOOLEAN
    BY <1>a, <1>11 DEF DialFails
  <2>4. mutex' \in [Conns -> {"free", "held", "cut"}]
    BY <1>e, <1>11 DEF DialFails
  <2> QED
    BY <1>a, <1>c, <2>1, <2>2, <2>3, <2>4 DEF Types
<1>12. CASE DialUnverified
  <2>1. UNCHANGED conn
    BY <1>12 DEF DialUnverified
  <2>2. pc' \in Place /\ left' \in Left
    BY <1>a, <1>b, <1>12 DEF DialUnverified
  <2>3. /\ eloop' \in {"up", "destroyed"} /\ agstatus' \in {"isOk", "isReboot"}
        /\ tinfo' \in BOOLEAN
    BY <1>a, <1>12 DEF DialUnverified
  <2>4. mutex' \in [Conns -> {"free", "held", "cut"}]
    BY <1>e, <1>12 DEF DialUnverified
  <2> QED
    BY <1>a, <1>c, <2>1, <2>2, <2>3, <2>4 DEF Types
<1>13. CASE DialOk
  <2>1. conn' \in [Conns -> Conn]
    BY <1>13, DialMoves DEF Only
  <2>2. pc' \in Place /\ left' \in Left
    BY <1>a, <1>b, <1>13 DEF DialOk
  <2>3. /\ eloop' \in {"up", "destroyed"} /\ agstatus' \in {"isOk", "isReboot"}
        /\ tinfo' \in BOOLEAN
    BY <1>a, <1>13 DEF DialOk
  <2>4. mutex' \in [Conns -> {"free", "held", "cut"}]
    BY <1>a, <1>13 DEF DialOk
  <2> QED
    BY <1>a, <1>c, <2>1, <2>2, <2>3, <2>4 DEF Types
<1>14. CASE ConnectFails
  <2>1. conn' \in [Conns -> Conn]
    BY <1>14, DialMoves DEF Only
  <2>2. pc' \in Place /\ left' \in Left
    BY <1>a, <1>b, <1>14 DEF ConnectFails, NotReady
  <2>3. /\ eloop' \in {"up", "destroyed"} /\ agstatus' \in {"isOk", "isReboot"}
        /\ tinfo' \in BOOLEAN
    BY <1>a, <1>14 DEF ConnectFails
  <2>4. mutex' \in [Conns -> {"free", "held", "cut"}]
    BY <1>e, <1>14 DEF ConnectFails
  <2> QED
    BY <1>a, <1>c, <2>1, <2>2, <2>3, <2>4 DEF Types
<1>15. CASE ConnectOk
  <2>1. conn' \in [Conns -> Conn]
    BY <1>15, DialMoves DEF Only
  <2>2. pc' \in Place /\ left' \in Left
    BY <1>a, <1>b, <1>15 DEF ConnectOk, Checked
  <2>3. /\ eloop' \in {"up", "destroyed"} /\ agstatus' \in {"isOk", "isReboot"}
        /\ tinfo' \in BOOLEAN
    BY <1>a, <1>15 DEF ConnectOk
  <2>4. mutex' \in [Conns -> {"free", "held", "cut"}]
    BY <1>e, <1>15 DEF ConnectOk
  <2> QED
    BY <1>a, <1>c, <2>1, <2>2, <2>3, <2>4 DEF Types
<1>16. CASE check_agstatus
  <2>1. UNCHANGED conn
    BY <1>16 DEF check_agstatus
  <2>2. pc' \in Place /\ left' \in Left
    BY <1>a, <1>b, <1>16 DEF check_agstatus
  <2>3. /\ eloop' \in {"up", "destroyed"} /\ agstatus' \in {"isOk", "isReboot"}
        /\ tinfo' \in BOOLEAN
    BY <1>a, <1>16 DEF check_agstatus
  <2>4. mutex' \in [Conns -> {"free", "held", "cut"}]
    BY <1>e, <1>16 DEF check_agstatus
  <2> QED
    BY <1>a, <1>c, <2>1, <2>2, <2>3, <2>4 DEF Types
<1>17. CASE StatmEnd
  <2>1. UNCHANGED conn
    BY <1>17 DEF StatmEnd
  <2>2. pc' \in Place /\ left' \in Left
    BY <1>a, <1>b, <1>17 DEF StatmEnd, ToLoop
  <2>3. /\ eloop' \in {"up", "destroyed"} /\ agstatus' \in {"isOk", "isReboot"}
        /\ tinfo' \in BOOLEAN
    BY <1>a, <1>17 DEF StatmEnd
  <2>4. mutex' \in [Conns -> {"free", "held", "cut"}]
    BY <1>e, <1>17 DEF StatmEnd
  <2> QED
    BY <1>a, <1>c, <2>1, <2>2, <2>3, <2>4 DEF Types
<1>18. CASE exit_link
  <2>1. UNCHANGED conn
    BY <1>18 DEF exit_link
  <2>2. pc' \in Place /\ left' \in Left
    BY <1>a, <1>b, <1>18 DEF exit_link
  <2>3. /\ eloop' \in {"up", "destroyed"} /\ agstatus' \in {"isOk", "isReboot"}
        /\ tinfo' \in BOOLEAN
    BY <1>a, <1>18 DEF exit_link
  <2>4. mutex' \in [Conns -> {"free", "held", "cut"}]
    BY <1>e, <1>18 DEF exit_link
  <2> QED
    BY <1>a, <1>c, <2>1, <2>2, <2>3, <2>4 DEF Types
<1>19. CASE close_conn
  <2>1. conn' \in [Conns -> Conn]
    BY <1>19, CloseMoves DEF Closes, Only
  <2>2. pc' \in Place /\ left' \in Left
    BY <1>a, <1>b, <1>19 DEF close_conn
  <2>3. /\ eloop' \in {"up", "destroyed"} /\ agstatus' \in {"isOk", "isReboot"}
        /\ tinfo' \in BOOLEAN
    BY <1>a, <1>19 DEF close_conn
  <2>4. mutex' \in [Conns -> {"free", "held", "cut"}]
    BY <1>e, <1>19 DEF close_conn
  <2> QED
    BY <1>a, <1>c, <2>1, <2>2, <2>3, <2>4 DEF Types
<1>20. ASSUME NEW rc \in Rcs, publish_callback(rc)
       PROVE  Types'
  <2>1. admlink_process_rc(rc) /\ UNCHANGED <<conn, eloop, tinfo>>
    BY <1>20 DEF publish_callback
  <2>2. pc' \in Place /\ agstatus' \in {"isOk", "isReboot"}
    BY <1>a, <1>b, <2>1, RcMoves
  <2>3. left' \in Left
    BY <1>d, <1>20 DEF publish_callback
  <2>4. mutex' \in [Conns -> {"free", "held", "cut"}]
    BY <1>e, <1>20 DEF publish_callback
  <2> QED
    BY <1>a, <1>c, <2>1, <2>2, <2>3, <2>4 DEF Types
<1>21. ASSUME NEW cmd \in Cmds, admlink_ctrl_iface_receive(cmd)
       PROVE  Types'
  <2>1. UNCHANGED conn
    BY <1>21 DEF admlink_ctrl_iface_receive
  <2>2. pc' \in Place /\ left' \in Left
    BY <1>a, <1>d, <1>21 DEF admlink_ctrl_iface_receive
  <2>3. /\ eloop' \in {"up", "destroyed"} /\ agstatus' \in {"isOk", "isReboot"}
        /\ tinfo' \in BOOLEAN
    BY <1>a, <1>21 DEF admlink_ctrl_iface_receive
  <2>4. mutex' \in [Conns -> {"free", "held", "cut"}]
    BY <1>e, <1>21 DEF admlink_ctrl_iface_receive
  <2> QED
    BY <1>a, <1>c, <2>1, <2>2, <2>3, <2>4 DEF Types
<1>22. CASE handle_stop
  <2>1. UNCHANGED conn
    BY <1>22 DEF handle_stop
  <2>2. pc' \in Place /\ left' \in Left
    BY <1>a, <1>b, <1>d, <1>22 DEF handle_stop, Crash
  <2>3. /\ eloop' \in {"up", "destroyed"} /\ agstatus' \in {"isOk", "isReboot"}
        /\ tinfo' \in BOOLEAN
    BY <1>a, <1>22 DEF handle_stop
  <2>4. mutex' \in [Conns -> {"free", "held", "cut"}]
    BY <1>a, <1>22 DEF handle_stop
  <2> QED
    BY <1>a, <1>c, <2>1, <2>2, <2>3, <2>4 DEF Types
<1>23. CASE Tick
  <2>1. UNCHANGED conn
    BY <1>23 DEF Tick
  <2>2. pc' \in Place /\ left' \in Left
    BY <1>a, <1>b, <1>23 DEF Tick
  <2>3. /\ eloop' \in {"up", "destroyed"} /\ agstatus' \in {"isOk", "isReboot"}
        /\ tinfo' \in BOOLEAN
    BY <1>a, <1>23 DEF Tick
  <2>4. mutex' \in [Conns -> {"free", "held", "cut"}]
    BY <1>e, <1>23 DEF Tick
  <2> QED
    BY <1>a, <1>c, <2>1, <2>2, <2>3, <2>4 DEF Types
<1>24. CASE UNCHANGED vars
  <2>1. UNCHANGED conn
    BY <1>24 DEF vars
  <2>2. pc' \in Place /\ left' \in Left
    BY <1>a, <1>b, <1>24 DEF vars
  <2>3. /\ eloop' \in {"up", "destroyed"} /\ agstatus' \in {"isOk", "isReboot"}
        /\ tinfo' \in BOOLEAN
    BY <1>a, <1>24 DEF vars
  <2>4. mutex' \in [Conns -> {"free", "held", "cut"}]
    BY <1>e, <1>24 DEF vars
  <2> QED
    BY <1>a, <1>c, <2>1, <2>2, <2>3, <2>4 DEF Types
<1>25. CASE mqtt_sync
  <2>1. UNCHANGED conn
    BY <1>25 DEF mqtt_sync
  <2>2. pc' \in Place /\ left' \in Left
    BY <1>a, <1>b, <1>25 DEF mqtt_sync, Lock, Where
  <2>3. /\ eloop' \in {"up", "destroyed"} /\ agstatus' \in {"isOk", "isReboot"}
        /\ tinfo' \in BOOLEAN
    BY <1>a, <1>25 DEF mqtt_sync
  <2>4. mutex' \in [Conns -> {"free", "held", "cut"}]
    BY <1>e, <1>25 DEF mqtt_sync
  <2> QED
    BY <1>a, <1>c, <2>1, <2>2, <2>3, <2>4 DEF Types
<1>26. CASE mqtt_connect
  <2>1. UNCHANGED conn
    BY <1>26 DEF mqtt_connect
  <2>2. pc' \in Place /\ left' \in Left
    BY <1>a, <1>b, <1>26 DEF mqtt_connect
  <2>3. /\ eloop' \in {"up", "destroyed"} /\ agstatus' \in {"isOk", "isReboot"}
        /\ tinfo' \in BOOLEAN
    BY <1>a, <1>26 DEF mqtt_connect
  <2>4. mutex' \in [Conns -> {"free", "held", "cut"}]
    BY <1>e, <1>26 DEF mqtt_connect
  <2> QED
    BY <1>a, <1>c, <2>1, <2>2, <2>3, <2>4 DEF Types
<1>27. CASE PublishStart
  <2>1. UNCHANGED conn
    BY <1>27 DEF PublishStart
  <2>2. pc' \in Place /\ left' \in Left
    BY FireLists, <1>a, <1>b, <1>27 DEF PublishStart, Lock
  <2>3. /\ eloop' \in {"up", "destroyed"} /\ agstatus' \in {"isOk", "isReboot"}
        /\ tinfo' \in BOOLEAN
    BY <1>a, <1>27 DEF PublishStart
  <2>4. mutex' \in [Conns -> {"free", "held", "cut"}]
    BY <1>e, <1>27 DEF PublishStart
  <2> QED
    BY <1>a, <1>c, <2>1, <2>2, <2>3, <2>4 DEF Types
<1>28. CASE close_conn_waits
  <2>1. UNCHANGED conn
    BY <1>28 DEF close_conn_waits
  <2>2. pc' \in Place /\ left' \in Left
    BY <1>a, <1>b, <1>28 DEF close_conn_waits
  <2>3. /\ eloop' \in {"up", "destroyed"} /\ agstatus' \in {"isOk", "isReboot"}
        /\ tinfo' \in BOOLEAN
    BY <1>a, <1>28 DEF close_conn_waits
  <2>4. mutex' \in [Conns -> {"free", "held", "cut"}]
    BY <1>e, <1>28 DEF close_conn_waits
  <2> QED
    BY <1>a, <1>c, <2>1, <2>2, <2>3, <2>4 DEF Types
<1> QED
  BY <1>1, <1>2, <1>3, <1>4, <1>5, <1>6, <1>7, <1>8, <1>9, <1>10, <1>11, <1>12,
     <1>13, <1>14, <1>15, <1>16, <1>17, <1>18, <1>19, <1>20, <1>21, <1>22,
     <1>23, <1>24, <1>25, <1>26, <1>27, <1>28
     DEF Next, Thread, Statm

\* A handler keeps its connection, and dialling works on one that is down.
LEMMA WhereKept == IInv /\ [Next]_vars => Where'
<1> SUFFICES ASSUME IInv, [Next]_vars PROVE Where'
  OBVIOUS
<1>a. /\ \A c \in Conns : conn[c] \in Conn
      /\ Where /\ pc \in Place /\ {"mqrecv", "mqupld"} = Conns
  BY Parts DEF IInv, Types, Conns
<1>b. \A x, c : At(x, c).at = x /\ At(x, c).c = c
  BY DEF At
<1>1. CASE TrafficStart
  <2>1. UNCHANGED conn /\ pc'.c \in Conns /\ pc'.at = "traffic"
    BY <1>b, <1>1, FireLists DEF TrafficStart
  <2> QED
    BY <2>1 DEF Where
<1>2. CASE TrafficOk
  <2>1. UNCHANGED conn
    BY <1>2 DEF TrafficOk
  <2> QED
    BY <1>a, <1>b, <2>1, <1>2 DEF TrafficOk, Where, ToLoop
<1>3. CASE TrafficError
  <2>1. pc'.at \in {"loop", "crashed"}
    BY <1>b, <1>3 DEF TrafficError, ToLoop
  <2> QED
    BY <2>1 DEF Where
<1>4. CASE TrafficFreed
  <2>1. UNCHANGED conn
    BY <1>4 DEF TrafficFreed
  <2> QED
    BY <1>a, <1>b, <2>1, <1>4 DEF TrafficFreed, Where, Crash
<1>5. CASE eloop_set_publish
  <2>1. pc'.at \in {"loop", "crashed"}
    BY <1>b, <1>5, PublishMoves
  <2> QED
    BY <2>1 DEF Where
<1>6. CASE eloop_set_exit
  <2>1. UNCHANGED conn
    BY <1>6 DEF eloop_set_exit
  <2> QED
    BY <1>a, <1>b, <2>1, <1>6 DEF eloop_set_exit, Where
<1>7. CASE StatmStart
  <2>1. UNCHANGED conn
    BY <1>7 DEF StatmStart
  <2> QED
    BY <1>a, <1>b, <2>1, <1>7 DEF StatmStart, Where
<1>8. CASE CheckConnected
  <2>1. UNCHANGED conn
    BY <1>8 DEF CheckConnected
  <2> QED
    BY <1>a, <1>b, <2>1, <1>8 DEF CheckConnected, Where, Checked
<1>9. CASE OpenBio
  <2>1. /\ Only(pc.c) /\ conn'[pc.c] = [conn[pc.c] EXCEPT !.bio = TRUE]
        /\ pc.c \in Conns /\ conn[pc.c].status = 0 /\ conn[pc.c] \in Conn
    BY <1>a, <1>9, DialMoves DEF OpenBio, Where
  <2>2. conn'[pc.c].bio /\ conn'[pc.c].status = 0
    BY <2>1 DEF Conn
  <2>5. pc'.at = "dialing" /\ pc'.c = pc.c
    BY <1>b, <1>9 DEF OpenBio
  <2> QED
    BY <2>1, <2>2, <2>5 DEF Where
<1>10. CASE CredentialsFail
  <2>1. UNCHANGED conn
    BY <1>10 DEF CredentialsFail
  <2> QED
    BY <1>a, <1>b, <2>1, <1>10 DEF CredentialsFail, Where
<1>11. CASE DialFails
  <2>1. pc'.at = "register"
    BY <1>b, <1>11 DEF DialFails, NotReady
  <2> QED
    BY <2>1 DEF Where
<1>12. CASE DialUnverified
  <2>1. UNCHANGED conn
    BY <1>12 DEF DialUnverified
  <2> QED
    BY <1>a, <1>b, <2>1, <1>12 DEF DialUnverified, Where
<1>13. CASE DialOk
  <2>1. /\ Only(pc.c)
        /\ conn'[pc.c] = [conn[pc.c] EXCEPT !.sock = "live", !.error = "OK"]
        /\ pc.c \in Conns /\ conn[pc.c].status = 0 /\ conn[pc.c].bio /\ conn[pc.c] \in Conn
    BY <1>a, <1>13, DialMoves DEF DialOk, Where
  <2>2. /\ conn'[pc.c].bio /\ conn'[pc.c].status = 0
        /\ conn'[pc.c].sock = "live" /\ conn'[pc.c].error = "OK"
    BY <2>1 DEF Conn
  <2>5. pc'.at = "connecting" /\ pc'.c = pc.c
    BY <1>b, <1>13 DEF DialOk
  <2> QED
    BY <2>1, <2>2, <2>5 DEF Where
<1>14. CASE ConnectFails
  <2>1. pc'.at = "register"
    BY <1>b, <1>14 DEF ConnectFails, NotReady
  <2> QED
    BY <2>1 DEF Where
<1>15. CASE ConnectOk
  <2>1. pc' = At("check", "mqupld") \/ pc'.at = "check_agstatus"
    BY <1>b, <1>15 DEF ConnectOk, Checked
  <2> QED
    BY <1>a, <1>b, <2>1 DEF Where
<1>16. CASE check_agstatus
  <2>1. UNCHANGED conn
    BY <1>16 DEF check_agstatus
  <2> QED
    BY <1>a, <1>b, <2>1, <1>16 DEF check_agstatus, Where
<1>17. CASE StatmEnd
  <2>1. UNCHANGED conn
    BY <1>17 DEF StatmEnd
  <2> QED
    BY <1>a, <1>b, <2>1, <1>17 DEF StatmEnd, Where, ToLoop
<1>18. CASE exit_link
  <2>1. UNCHANGED conn
    BY <1>18 DEF exit_link
  <2> QED
    BY <1>a, <1>b, <2>1, <1>18 DEF exit_link, Where
<1>19. CASE close_conn
  <2>1. pc' = At("closing", "mqupld") \/ pc'.at = "exited"
    BY <1>b, <1>19 DEF close_conn
  <2> QED
    BY <1>a, <1>b, <2>1 DEF Where
<1>20. ASSUME NEW rc \in Rcs, publish_callback(rc)
       PROVE  Where'
  <2>1. /\ admlink_process_rc(rc) /\ UNCHANGED conn
        /\ pc.at \in {"receiving", "leaving"}
    BY <1>b, <1>20 DEF publish_callback
  <2>2. pc' = pc \/ pc'.at = "crashed"
    BY <1>b, <2>1, RcMoves
  <2> QED
    BY <1>a, <2>1, <2>2 DEF Where
<1>21. ASSUME NEW cmd \in Cmds, admlink_ctrl_iface_receive(cmd)
       PROVE  Where'
  <2>1. UNCHANGED conn
    BY <1>21 DEF admlink_ctrl_iface_receive
  <2> QED
    BY <1>a, <1>b, <2>1, <1>21 DEF admlink_ctrl_iface_receive, Where, ToLoop, Crash
<1>22. CASE handle_stop
  <2>1. UNCHANGED conn
    BY <1>22 DEF handle_stop
  <2> QED
    BY <1>a, <1>b, <2>1, <1>22 DEF handle_stop, Where, Crash
<1>23. CASE Tick
  <2>1. UNCHANGED conn
    BY <1>23 DEF Tick
  <2> QED
    BY <1>a, <1>b, <2>1, <1>23 DEF Tick, Where
<1>24. CASE UNCHANGED vars
  <2>1. UNCHANGED conn
    BY <1>24 DEF vars
  <2> QED
    BY <1>a, <1>b, <2>1, <1>24 DEF vars, Where
<1>25. CASE mqtt_sync
  <2>1. UNCHANGED conn
    BY <1>25 DEF mqtt_sync
  <2>2. /\ pc'.c = pc.c
        /\ \/ pc'.at = "hung"
           \/ pc.at = "traffic" /\ pc'.at = "receiving"
           \/ pc.at = "connected" /\ pc'.at = "syncing"
           \/ pc.at = "closing" /\ pc'.at = "leaving"
    BY <1>b, <1>25 DEF mqtt_sync, Lock
  <2> QED
    BY <1>a, <2>1, <2>2 DEF Where
<1>26. CASE mqtt_connect
  <2>1. UNCHANGED conn /\ pc.at = "connecting" /\ pc'.at = "connected" /\ pc'.c = pc.c
    BY <1>b, <1>26 DEF mqtt_connect
  <2> QED
    BY <1>a, <2>1 DEF Where
<1>27. CASE PublishStart
  <2>1. pc'.c \in Conns /\ pc'.at \in {"publishing", "hung"}
    BY <1>b, <1>27, FireLists DEF PublishStart, Lock
  <2> QED
    BY <2>1 DEF Where
<1>28. CASE close_conn_waits
  <2>1. pc'.at = "hung"
    BY <1>b, <1>28 DEF close_conn_waits
  <2> QED
    BY <2>1 DEF Where
<1> QED
  BY <1>1, <1>2, <1>3, <1>4, <1>5, <1>6, <1>7, <1>8, <1>9, <1>10, <1>11, <1>12,
     <1>13, <1>14, <1>15, <1>16, <1>17, <1>18, <1>19, <1>20, <1>21, <1>22,
     <1>23, <1>24, <1>25, <1>26, <1>27, <1>28
     DEF Next, Thread, Statm

\* A step outside the calls of the clients that leaves every mutex alone.
LEMMA SameMutex ==
    ASSUME Locked, UNCHANGED mutex, pc.at \notin Holders, pc'.at \notin Holders,
           pc'.at # "hung", pc.at = "crashed" => pc'.at = "crashed", Running' => Running
    PROVE  Locked' /\ NoSelfDeadlock'
  BY DEF Locked, NoSelfDeadlock

\* A call that is entered while the handlers run takes a free mutex.
LEMMA TakesMutex ==
    ASSUME IInv, Running, pc.at \notin Holders, NEW c \in Conns, NEW w \in Holders,
           Lock(c, w)
    PROVE  /\ pc' = At(w, c) /\ mutex' = [mutex EXCEPT ![c] = "held"]
           /\ Locked' /\ NoSelfDeadlock'
<1>1. /\ mutex \in [Conns -> {"free", "held", "cut"}] /\ pc.at # "crashed"
      /\ \A d \in Conns : mutex[d] = "free"
  BY DEF IInv, Types, Locked, Running, Stopped
<1>2. pc' = At(w, c) /\ mutex' = [mutex EXCEPT ![c] = "held"]
  BY <1>1 DEF Lock
<1>3. /\ pc'.at = w /\ pc'.c = c /\ pc'.at # "hung" /\ mutex'[c] = "held"
      /\ \A d \in Conns \ {c} : mutex'[d] = "free"
  BY <1>1, <1>2 DEF At, Holders
<1> QED
  BY <1>2, <1>3 DEF Locked, NoSelfDeadlock

\* The end of a call releases the mutex that it holds, and no other is held.
LEMMA LeavesMutex ==
    ASSUME IInv, pc.at \in Holders, pc.c \in Conns, Unlock(pc.c), pc'.at \notin Holders,
           pc'.at # "hung", Running' => Running
    PROVE  Locked' /\ NoSelfDeadlock'
<1>1. /\ mutex \in [Conns -> {"free", "held", "cut"}] /\ pc.at # "crashed"
      /\ \A d \in Conns : (mutex[d] = "held" => pc.c = d)
                           /\ (mutex[d] = "cut" => ~Running)
  BY DEF IInv, Types, Locked, Holders
<1>2. mutex'[pc.c] = "free" /\ \A d \in Conns \ {pc.c} : mutex'[d] = mutex[d]
  BY <1>1 DEF Unlock
<1> QED
  BY <1>1, <1>2 DEF Locked, NoSelfDeadlock

\* Every mutex is taken and released in pairs, and no handler inside a call takes
\* one: only an exit meets a mutex that is not free, one that a signal cut off.
LEMMA LockedKept == IInv /\ [Next]_vars => Locked' /\ NoSelfDeadlock'
<1> SUFFICES ASSUME IInv, [Next]_vars PROVE Locked' /\ NoSelfDeadlock'
  OBVIOUS
<1>a. /\ Where /\ Locked /\ NoSelfDeadlock /\ UpOnce
      /\ mutex \in [Conns -> {"free", "held", "cut"}]
  BY DEF IInv, Types
<1>b. \A x, c : At(x, c).at = x /\ At(x, c).c = c
  BY DEF At
<1>1. CASE TrafficStart
  <2>1. /\ UNCHANGED mutex /\ pc.at \notin Holders /\ pc'.at \notin Holders
        /\ pc'.at # "hung" /\ pc.at # "crashed" /\ (Running' => Running)
    BY <1>b, <1>1 DEF TrafficStart, Holders, Running, Stopped, Fires, InLoop
  <2> QED
    BY <1>a, <2>1, SameMutex
<1>2. CASE TrafficOk
  <2>1. /\ pc.at \in Holders /\ pc.c \in Conns /\ Unlock(pc.c) /\ pc'.at \notin Holders
        /\ pc'.at # "hung" /\ (Running' => Running)
    BY <1>a, <1>b, <1>2 DEF TrafficOk, Holders, Where, Running, Stopped, ToLoop
  <2> QED
    BY <2>1, LeavesMutex
<1>3. CASE TrafficError
  <2>1. /\ pc.at \in Holders /\ pc.c \in Conns /\ Unlock(pc.c) /\ pc'.at \notin Holders
        /\ pc'.at # "hung" /\ (Running' => Running)
    BY <1>a, <1>b, <1>3 DEF TrafficError, Holders, Where, Running, Stopped, ToLoop
  <2> QED
    BY <2>1, LeavesMutex
<1>4. CASE TrafficFreed
  <2>1. UNCHANGED mutex /\ pc.at = "receiving" /\ pc'.at = "crashed"
    BY <1>b, <1>4 DEF TrafficFreed, Crash
  <2> QED
    BY <1>a, <2>1 DEF Locked, NoSelfDeadlock, Holders, Running, Stopped
<1>5. CASE eloop_set_publish
  <2>1. /\ pc.at = "publishing" /\ pc.c \in Conns
        /\ \/ pc'.at = "crashed" /\ UNCHANGED mutex
           \/ pc'.at = "loop" /\ Unlock(pc.c)
    BY <1>b, <1>5, PublishMoves DEF eloop_set_publish, Unlock
  <2>2. CASE pc'.at = "crashed" /\ UNCHANGED mutex
    BY <1>a, <2>1, <2>2 DEF Locked, NoSelfDeadlock, Holders, Running, Stopped
  <2>3. CASE pc'.at = "loop" /\ Unlock(pc.c)
    BY <2>1, <2>3, LeavesMutex DEF Holders, Running, Stopped
  <2> QED
    BY <2>1, <2>2, <2>3
<1>6. CASE eloop_set_exit
  <2>1. /\ UNCHANGED mutex /\ pc.at \notin Holders /\ pc'.at \notin Holders
        /\ pc'.at # "hung" /\ pc.at # "crashed" /\ (Running' => Running)
    BY <1>b, <1>6 DEF eloop_set_exit, Holders, Running, Stopped, Fires, InLoop
  <2> QED
    BY <1>a, <2>1, SameMutex
<1>7. CASE StatmStart
  <2>1. /\ UNCHANGED mutex /\ pc.at \notin Holders /\ pc'.at \notin Holders
        /\ pc'.at # "hung" /\ pc.at # "crashed" /\ (Running' => Running)
    BY <1>b, <1>7 DEF StatmStart, Holders, Running, Stopped, Fires, InLoop
  <2> QED
    BY <1>a, <2>1, SameMutex
<1>8. CASE CheckConnected
  <2>1. /\ UNCHANGED mutex /\ pc.at \notin Holders /\ pc'.at \notin Holders
        /\ pc'.at # "hung" /\ pc.at # "crashed" /\ (Running' => Running)
    BY <1>b, <1>8 DEF CheckConnected, Holders, Running, Stopped, Checked
  <2> QED
    BY <1>a, <2>1, SameMutex
<1>9. CASE OpenBio
  <2>1. /\ UNCHANGED mutex /\ pc.at \notin Holders /\ pc'.at \notin Holders
        /\ pc'.at # "hung" /\ pc.at # "crashed" /\ (Running' => Running)
    BY <1>b, <1>9 DEF OpenBio, Holders, Running, Stopped
  <2> QED
    BY <1>a, <2>1, SameMutex
<1>10. CASE CredentialsFail
  <2>1. /\ UNCHANGED mutex /\ pc.at \notin Holders /\ pc'.at \notin Holders
        /\ pc'.at # "hung" /\ pc.at # "crashed" /\ (Running' => Running)
    BY <1>b, <1>10 DEF CredentialsFail, Holders, Running, Stopped
  <2> QED
    BY <1>a, <2>1, SameMutex
<1>11. CASE DialFails
  <2>1. /\ UNCHANGED mutex /\ pc.at \notin Holders /\ pc'.at \notin Holders
        /\ pc'.at # "hung" /\ pc.at # "crashed" /\ (Running' => Running)
    BY <1>b, <1>11 DEF DialFails, Holders, Running, Stopped, NotReady
  <2> QED
    BY <1>a, <2>1, SameMutex
<1>12. CASE DialUnverified
  <2>1. /\ UNCHANGED mutex /\ pc.at \notin Holders /\ pc'.at \notin Holders
        /\ pc'.at # "hung" /\ pc.at # "crashed" /\ (Running' => Running)
    BY <1>b, <1>12 DEF DialUnverified, Holders, Running, Stopped
  <2> QED
    BY <1>a, <2>1, SameMutex
<1>13. CASE DialOk
  <2>1. /\ Running /\ pc.at = "dialing" /\ pc.c \in Conns
        /\ pc'.at = "connecting" /\ pc'.c = pc.c
        /\ mutex' = [mutex EXCEPT ![pc.c] = "held"]
    BY <1>a, <1>b, <1>13 DEF DialOk, Where, Running, Stopped
  <2>2. \A d \in Conns : mutex[d] = "free"
    BY <1>a, <2>1 DEF Locked, Holders
  <2> QED
    BY <1>a, <2>1, <2>2 DEF Locked, NoSelfDeadlock, Holders
<1>14. CASE ConnectFails
  <2>1. /\ pc.at \in Holders /\ pc.c \in Conns /\ Unlock(pc.c) /\ pc'.at \notin Holders
        /\ pc'.at # "hung" /\ (Running' => Running)
    BY <1>a, <1>b, <1>14 DEF ConnectFails, Holders, Where, Running, Stopped, NotReady
  <2> QED
    BY <2>1, LeavesMutex
<1>15. CASE ConnectOk
  <2>1. /\ pc.at \in Holders /\ pc.c \in Conns /\ Unlock(pc.c) /\ pc'.at \notin Holders
        /\ pc'.at # "hung" /\ (Running' => Running)
    BY <1>a, <1>b, <1>15 DEF ConnectOk, Holders, Where, Running, Stopped, Checked
  <2> QED
    BY <2>1, LeavesMutex
<1>16. CASE check_agstatus
  <2>1. /\ UNCHANGED mutex /\ pc.at \notin Holders /\ pc'.at \notin Holders
        /\ pc'.at # "hung" /\ pc.at # "crashed" /\ (Running' => Running)
    BY <1>b, <1>16 DEF check_agstatus, Holders, Running, Stopped
  <2> QED
    BY <1>a, <2>1, SameMutex
<1>17. CASE StatmEnd
  <2>1. /\ UNCHANGED mutex /\ pc.at \notin Holders /\ pc'.at \notin Holders
        /\ pc'.at # "hung" /\ pc.at # "crashed" /\ (Running' => Running)
    BY <1>b, <1>17 DEF StatmEnd, Holders, Running, Stopped, ToLoop
  <2> QED
    BY <1>a, <2>1, SameMutex
<1>18. CASE exit_link
  <2>1. /\ UNCHANGED mutex /\ pc.at \notin Holders /\ pc'.at \notin Holders
        /\ pc'.at # "hung" /\ pc.at # "crashed" /\ (Running' => Running)
    BY <1>b, <1>18 DEF exit_link, Holders, Running, Stopped
  <2> QED
    BY <1>a, <2>1, SameMutex
<1>19. CASE close_conn
  <2>1. pc'.at \notin Holders /\ pc'.at # "hung" /\ ~Running'
    BY <1>b, <1>19 DEF close_conn, Holders, Running, Stopped
  <2>2. CASE pc.at = "leaving" /\ Unlock(pc.c)
    BY <1>a, <2>1, <2>2, LeavesMutex DEF Holders, Where
  <2>3. CASE pc.at = "closing" /\ UNCHANGED mutex
    BY <1>a, <2>1, <2>3, SameMutex DEF Holders
  <2> QED
    BY <1>19, <2>2, <2>3 DEF close_conn
<1>20. ASSUME NEW rc \in Rcs, publish_callback(rc)
       PROVE  Locked' /\ NoSelfDeadlock'
  <2>1. /\ admlink_process_rc(rc) /\ UNCHANGED <<mutex, eloop>>
        /\ pc.at \in {"receiving", "leaving"}
    BY <1>b, <1>20 DEF publish_callback
  <2>2. pc' = pc \/ pc'.at = "crashed"
    BY <1>b, <2>1, RcMoves
  <2> QED
    BY <1>a, <2>1, <2>2 DEF Locked, NoSelfDeadlock, Holders, Running, Stopped
<1>21. ASSUME NEW cmd \in Cmds, admlink_ctrl_iface_receive(cmd)
       PROVE  Locked' /\ NoSelfDeadlock'
  <2>1. UNCHANGED <<mutex, pc, eloop>>
    BY <1>21 DEF admlink_ctrl_iface_receive
  <2> QED
    BY <1>a, <2>1 DEF Locked, NoSelfDeadlock, Running, Stopped
<1>22. CASE handle_stop
  <2>1. CASE pc'.at = "exit_link"
    <3>1. \A c \in Conns : mutex'[c] # "held"
      BY <1>a, <1>b, <2>1, <1>22 DEF handle_stop, Crash
    <3> QED
      BY <2>1, <3>1 DEF Locked, NoSelfDeadlock, Holders, Running
  <2>2. CASE pc' = At("crashed", "none") /\ UNCHANGED mutex
    BY <1>a, <1>b, <2>2 DEF Locked, NoSelfDeadlock, Holders, Running, Stopped
  <2> QED
    BY <1>b, <2>1, <2>2, <1>22 DEF handle_stop, Crash
<1>23. CASE Tick
  <2>1. UNCHANGED <<mutex, pc, eloop>>
    BY <1>23 DEF Tick
  <2> QED
    BY <1>a, <2>1 DEF Locked, NoSelfDeadlock, Running, Stopped
<1>24. CASE UNCHANGED vars
  <2>1. UNCHANGED <<mutex, pc, eloop>>
    BY <1>24 DEF vars
  <2> QED
    BY <1>a, <2>1 DEF Locked, NoSelfDeadlock, Running, Stopped
<1>25. CASE mqtt_sync
  <2>1. CASE pc.at = "traffic" /\ Lock(pc.c, "receiving")
    BY <1>a, <2>1, TakesMutex DEF Where, Running, Stopped, Holders
  <2>2. CASE pc.at = "connected" /\ Lock(pc.c, "syncing")
    BY <1>a, <2>2, TakesMutex DEF Where, Running, Stopped, Holders
  <2>3. CASE pc.at = "closing" /\ Lock(pc.c, "leaving")
    <3>1. /\ pc.c \in Conns /\ eloop = "destroyed" /\ UNCHANGED eloop
          /\ \A d \in Conns : mutex[d] # "held"
      BY <1>a, <2>3, <1>25 DEF mqtt_sync, Where, UpOnce, Locked, Holders
    <3>2. CASE mutex[pc.c] = "free"
      <4>1. /\ pc'.at = "leaving" /\ pc'.c = pc.c /\ mutex'[pc.c] = "held"
            /\ \A d \in Conns \ {pc.c} : mutex'[d] = mutex[d]
        BY <1>a, <1>b, <2>3, <3>1, <3>2 DEF Lock
      <4> QED
        BY <3>1, <4>1 DEF Locked, NoSelfDeadlock, Holders, Running
    <3>3. CASE mutex[pc.c] # "free"
      <4>1. pc'.at = "hung" /\ pc'.c = pc.c /\ mutex' = mutex /\ mutex[pc.c] = "cut"
        BY <1>a, <1>b, <2>3, <3>1, <3>3 DEF Lock
      <4> QED
        BY <3>1, <4>1 DEF Locked, NoSelfDeadlock, Holders, Running, Stopped
    <3> QED
      BY <3>2, <3>3
  <2> QED
    BY <2>1, <2>2, <2>3, <1>25 DEF mqtt_sync
<1>26. CASE mqtt_connect
  <2>1. /\ pc.at \in Holders /\ pc.c \in Conns /\ Unlock(pc.c) /\ pc'.at \notin Holders
        /\ pc'.at # "hung" /\ (Running' => Running)
    BY <1>a, <1>b, <1>26 DEF mqtt_connect, Holders, Where, Running, Stopped
  <2> QED
    BY <2>1, LeavesMutex
<1>27. CASE PublishStart
  <2>1. /\ Head(timers).c \in Conns /\ pc.at = "loop" /\ Lock(Head(timers).c, "publishing")
    BY <1>27, FireLists DEF PublishStart, Fires, InLoop
  <2> QED
    BY <2>1, TakesMutex DEF Running, Stopped, Holders
<1>28. CASE close_conn_waits
  <2>1. /\ pc.at = "closing" /\ mutex[pc.c] # "free" /\ pc.c \in Conns
        /\ UNCHANGED <<mutex, eloop>> /\ pc'.at = "hung" /\ pc'.c = pc.c
    BY <1>a, <1>b, <1>28 DEF close_conn_waits, Where
  <2>2. mutex[pc.c] = "cut" /\ eloop = "destroyed" /\ \A d \in Conns : mutex[d] # "held"
    BY <1>a, <2>1 DEF Locked, Holders, UpOnce
  <2> QED
    BY <2>1, <2>2 DEF Locked, NoSelfDeadlock, Holders, Running, Stopped
<1> QED
  BY <1>1, <1>2, <1>3, <1>4, <1>5, <1>6, <1>7, <1>8, <1>9, <1>10, <1>11, <1>12,
     <1>13, <1>14, <1>15, <1>16, <1>17, <1>18, <1>19, <1>20, <1>21, <1>22,
     <1>23, <1>24, <1>25, <1>26, <1>27, <1>28
     DEF Next, Thread, Statm

\* SmAlive and ConnServed in terms of the counts.
Total(c) == ServeCount(timers, c)
              + (IF pc.at \in {"traffic", "receiving"} /\ pc.c = c THEN 1 ELSE 0)

Alive == Running => StatmCount(timers) =
                      IF pc.at \in {"check", "dialing", "connecting", "connected",
                                    "syncing", "register", "check_agstatus"}
                      THEN 0 ELSE 1

Served == Running => \A c \in Conns :
              /\ conn[c].status = 1 => Total(c) >= 1
              /\ ~hist.full => Total(c) = conn[c].status

\* SmAlive and ConnServed say of the sets of places what Alive and Served say of
\* their counts.
LEMMA CountsAre ==
    /\ timers \in Seq(Timer) /\ pc \in Place
         => (SmAlive <=> Alive) /\ (ConnServed <=> Served)
    /\ timers' \in Seq(Timer) /\ pc' \in Place
         => (SmAlive' <=> Alive') /\ (ConnServed' <=> Served')
<1>2. ASSUME timers \in Seq(Timer), pc \in Place
      PROVE  (SmAlive <=> Alive) /\ (ConnServed <=> Served)
  <2>1. /\ Pending("chk_agstatm") = Places(timers, Statms)
        /\ \A c : Chains(c) = Places(timers, Serving(c))
    BY <1>2, CountMeaning DEF Pending, Chains
  <2>2. SmAlive <=> Alive
    BY <2>1 DEF SmAlive, Alive, StatmCount
  <2>3. \A c \in Conns :
           Cardinality(Chains(c))
             + (IF pc.at \in {"traffic", "receiving"} /\ pc.c = c THEN 1 ELSE 0) = Total(c)
    BY <2>1 DEF Total, ServeCount
  <2>4. ConnServed <=> Served
    BY <2>3 DEF ConnServed, Served
  <2> QED
    BY <2>2, <2>4
<1>3. ASSUME timers' \in Seq(Timer), pc' \in Place
      PROVE  (SmAlive' <=> Alive') /\ (ConnServed' <=> Served')
  <2>1. /\ Pending("chk_agstatm")' = Places(timers', Statms)
        /\ \A c : Chains(c)' = Places(timers', Serving(c))
    BY <1>3, CountMeaning DEF Pending, Chains
  <2>2. SmAlive' <=> Alive'
    BY <2>1 DEF SmAlive, Alive, StatmCount
  <2>3. \A c \in Conns :
           Cardinality(Chains(c)')
             + (IF pc'.at \in {"traffic", "receiving"} /\ pc'.c = c THEN 1 ELSE 0)
               = Total(c)'
    BY <2>1 DEF Total, ServeCount
  <2>4. ConnServed' <=> Served'
    BY <2>3 DEF ConnServed, Served
  <2> QED
    BY <2>2, <2>4
<1> QED
  BY <1>2, <1>3

\* The state machine is taken off the list when it starts, and its end, which
\* every path reaches, registers it again.
LEMMA AliveKept == IInv /\ [Next]_vars => Alive'
<1> SUFFICES ASSUME IInv, [Next]_vars PROVE Alive'
  OBVIOUS
<1>a. /\ timers \in Seq(Timer) /\ pc \in Place /\ Alive /\ Served
      /\ {"mqrecv", "mqupld"} = Conns
  BY CountsAre DEF IInv, Types, ListOK, Conns
<1>b. \A x, c : At(x, c).at = x /\ At(x, c).c = c
  BY DEF At
<1>f. StatmCount(timers) \in Nat
  BY <1>a, CountMeaning
<1>1. CASE TrafficStart
  <2>1. Lists(0, pc'.c, -1)
    BY <1>1, FireLists
  <2>2. StatmCount(timers') = StatmCount(timers) + 0
    BY <2>1 DEF Lists, Effect
  <2> QED
    BY <1>a, <1>b, <1>f, <2>2, <1>1 DEF TrafficStart, Alive, Running, Stopped,
       ToLoop, Crash, Fires, InLoop
<1>2. CASE TrafficOk
  <2>1. Lists(0, pc.c, 1)
    BY <1>2, RegisterLists
  <2>2. StatmCount(timers') = StatmCount(timers) + 0
    BY <2>1 DEF Lists, Effect
  <2> QED
    BY <1>a, <1>b, <1>f, <2>2, <1>2 DEF TrafficOk, Alive, Running, Stopped, ToLoop,
       Crash, Fires, InLoop
<1>3. CASE TrafficError
  <2>1. UNCHANGED timers
    BY <1>3 DEF TrafficError
  <2> QED
    BY <1>a, <1>b, <2>1, <1>3 DEF TrafficError, Alive, Running, Stopped, ToLoop,
       Crash
<1>4. CASE TrafficFreed
  <2>1. UNCHANGED timers
    BY <1>4 DEF TrafficFreed
  <2> QED
    BY <1>a, <1>b, <2>1, <1>4 DEF TrafficFreed, Alive, Running, Stopped, ToLoop,
       Crash
<1>5. CASE eloop_set_publish
  <2>1. /\ UNCHANGED timers /\ pc.at = "publishing"
        /\ pc' = At("crashed", "none") \/ pc' = At("loop", "none")
    BY <1>5, PublishMoves DEF eloop_set_publish
  <2> QED
    BY <1>a, <1>b, <2>1 DEF Alive, Running, Stopped
<1>6. CASE eloop_set_exit
  <2>1. Lists(0, "none", -1)
    BY <1>6, FireLists
  <2>2. StatmCount(timers') = StatmCount(timers) + 0
    BY <2>1 DEF Lists, Effect
  <2> QED
    BY <1>a, <1>b, <1>f, <2>2, <1>6 DEF eloop_set_exit, Alive, Running, Stopped,
       ToLoop, Crash, Fires, InLoop
<1>7. CASE StatmStart
  <2>1. Lists(-1, "none", -1)
    BY <1>7, FireLists
  <2>2. StatmCount(timers') = StatmCount(timers) + -1
    BY <2>1 DEF Lists, Effect
  <2> QED
    BY <1>a, <1>b, <1>f, <2>2, <1>7 DEF StatmStart, Alive, Running, Stopped, ToLoop,
       Crash, Fires, InLoop
<1>8. CASE CheckConnected
  <2>1. UNCHANGED timers
    BY <1>8 DEF CheckConnected
  <2> QED
    BY <1>a, <1>b, <2>1, <1>8 DEF CheckConnected, Alive, Running, Stopped, ToLoop,
       Crash, Checked
<1>9. CASE OpenBio
  <2>1. UNCHANGED timers
    BY <1>9 DEF OpenBio
  <2> QED
    BY <1>a, <1>b, <2>1, <1>9 DEF OpenBio, Alive, Running, Stopped, ToLoop, Crash
<1>10. CASE CredentialsFail
  <2>1. UNCHANGED timers
    BY <1>10 DEF CredentialsFail
  <2> QED
    BY <1>a, <1>b, <2>1, <1>10 DEF CredentialsFail, Alive, Running, Stopped, ToLoop,
       Crash
<1>11. CASE DialFails
  <2>1. UNCHANGED timers
    BY <1>11 DEF DialFails
  <2> QED
    BY <1>a, <1>b, <2>1, <1>11 DEF DialFails, Alive, Running, Stopped, ToLoop, Crash,
       NotReady
<1>12. CASE DialUnverified
  <2>1. UNCHANGED timers
    BY <1>12 DEF DialUnverified
  <2> QED
    BY <1>a, <1>b, <2>1, <1>12 DEF DialUnverified, Alive, Running, Stopped, ToLoop,
       Crash
<1>13. CASE DialOk
  <2>1. UNCHANGED timers
    BY <1>13 DEF DialOk
  <2> QED
    BY <1>a, <1>b, <2>1, <1>13 DEF DialOk, Alive, Running, Stopped, ToLoop, Crash
<1>14. CASE ConnectFails
  <2>1. UNCHANGED timers
    BY <1>14 DEF ConnectFails
  <2> QED
    BY <1>a, <1>b, <2>1, <1>14 DEF ConnectFails, Alive, Running, Stopped, ToLoop,
       Crash, NotReady
<1>15. CASE ConnectOk
  <2>1. Lists(0, pc.c, 1)
    BY <1>15, RegisterLists
  <2>2. StatmCount(timers') = StatmCount(timers) + 0
    BY <2>1 DEF Lists, Effect
  <2> QED
    BY <1>a, <1>b, <1>f, <2>2, <1>15 DEF ConnectOk, Alive, Running, Stopped, ToLoop,
       Crash, Checked, Fires, InLoop
<1>16. CASE check_agstatus
  <2>1. UNCHANGED timers
    BY <1>16 DEF check_agstatus
  <2> QED
    BY <1>a, <1>b, <2>1, <1>16 DEF check_agstatus, Alive, Running, Stopped, ToLoop,
       Crash
<1>17. CASE StatmEnd
  <2>1. Lists(1, "none", 1)
    BY <1>17, RegisterLists
  <2>2. StatmCount(timers') = StatmCount(timers) + 1
    BY <2>1 DEF Lists, Effect
  <2> QED
    BY <1>a, <1>b, <1>f, <2>2, <1>17 DEF StatmEnd, Alive, Running, Stopped, ToLoop,
       Crash, Fires, InLoop
<1>18. CASE exit_link
  <2>1. UNCHANGED timers
    BY <1>18 DEF exit_link
  <2> QED
    BY <1>a, <1>b, <2>1, <1>18 DEF exit_link, Alive, Running, Stopped, ToLoop, Crash
<1>19. CASE close_conn
  <2>1. UNCHANGED timers
    BY <1>19 DEF close_conn
  <2> QED
    BY <1>a, <1>b, <2>1, <1>19 DEF close_conn, Alive, Running, Stopped, ToLoop, Crash
<1>20. ASSUME NEW rc \in Rcs, publish_callback(rc)
       PROVE  Alive'
  <2>1. Lists(0, "none", 0) /\ admlink_process_rc(rc)
    BY <1>20, OtherLists DEF publish_callback
  <2>2. StatmCount(timers') = StatmCount(timers) + 0
    BY <2>1 DEF Lists, Effect
  <2>3. pc' = pc \/ pc'.at = "crashed"
    BY <1>b, <2>1, RcMoves
  <2> QED
    BY <1>a, <1>f, <2>2, <2>3 DEF Alive, Running, Stopped
<1>21. ASSUME NEW cmd \in Cmds, admlink_ctrl_iface_receive(cmd)
       PROVE  Alive'
  <2>1. Lists(0, "none", 1)
    BY <1>21, OtherLists
  <2>2. StatmCount(timers') = StatmCount(timers) + 0
    BY <2>1 DEF Lists, Effect
  <2> QED
    BY <1>a, <1>b, <1>f, <2>2, <1>21 DEF admlink_ctrl_iface_receive, Alive, Running,
       Stopped, ToLoop, Crash, Fires, InLoop
<1>22. CASE handle_stop
  <2>1. UNCHANGED timers
    BY <1>22 DEF handle_stop
  <2> QED
    BY <1>a, <1>b, <2>1, <1>22 DEF handle_stop, Alive, Running, Stopped, ToLoop,
       Crash
<1>23. CASE Tick
  <2>1. Lists(0, "none", 0)
    BY <1>23, OtherLists
  <2>2. StatmCount(timers') = StatmCount(timers) + 0
    BY <2>1 DEF Lists, Effect
  <2> QED
    BY <1>a, <1>b, <1>f, <2>2, <1>23 DEF Tick, Alive, Running, Stopped, ToLoop,
       Crash, Fires, InLoop
<1>24. CASE UNCHANGED vars
  <2>1. UNCHANGED timers
    BY <1>24 DEF vars
  <2> QED
    BY <1>a, <1>b, <2>1, <1>24 DEF vars, Alive, Running, Stopped, ToLoop, Crash
<1>25. CASE mqtt_sync
  <2>1. UNCHANGED timers
    BY <1>25 DEF mqtt_sync
  <2> QED
    BY <1>a, <1>b, <2>1, <1>25 DEF mqtt_sync, Lock, Alive, Running, Stopped
<1>26. CASE mqtt_connect
  <2>1. UNCHANGED timers
    BY <1>26 DEF mqtt_connect
  <2> QED
    BY <1>a, <1>b, <2>1, <1>26 DEF mqtt_connect, Alive, Running, Stopped
<1>27. CASE PublishStart
  <2>1. Lists(0, "none", -1)
    BY <1>27, FireLists
  <2>2. StatmCount(timers') = StatmCount(timers) + 0
    BY <2>1 DEF Lists, Effect
  <2> QED
    BY <1>a, <1>b, <1>f, <2>2, <1>27 DEF PublishStart, Lock, Alive, Running, Stopped,
       Fires, InLoop
<1>28. CASE close_conn_waits
  <2>1. ~Running'
    BY <1>b, <1>28 DEF close_conn_waits, Running, Stopped
  <2> QED
    BY <2>1 DEF Alive
<1> QED
  BY <1>1, <1>2, <1>3, <1>4, <1>5, <1>6, <1>7, <1>8, <1>9, <1>10, <1>11, <1>12,
     <1>13, <1>14, <1>15, <1>16, <1>17, <1>18, <1>19, <1>20, <1>21, <1>22,
     <1>23, <1>24, <1>25, <1>26, <1>27, <1>28
     DEF Next, Thread, Statm

\* A step that leaves the connections and their traffic as they are.
LEMMA SameServed ==
    ASSUME Served, Running' => Running, hist.full => hist'.full,
           \A c \in Conns : conn'[c].status = conn[c].status,
           \A c \in Conns : Total(c)' = Total(c)
    PROVE  Served'
  BY DEF Served

\* That a publish met a full buffer, and that a command was malformed, is never
\* forgotten.
LEMMA FullKept == IInv /\ [Next]_vars => Noted
<1> SUFFICES ASSUME IInv, [Next]_vars PROVE Noted
  OBVIOUS
<1>1. UNCHANGED hist => Noted
  BY DEF Noted
<1>2. \A s, d, k : Lists(s, d, k) => Noted
  BY DEF Lists
<1>3. TrafficOk \/ ConnectOk \/ StatmEnd => Noted
  BY <1>2, RegisterLists
<1>4. PublishStart \/ eloop_set_publish => Noted
  BY <1>2, FireLists, OtherLists
<1>5. \A rc \in Rcs : publish_callback(rc) => Noted
  BY <1>2, OtherLists
<1>6. \A cmd \in Cmds : admlink_ctrl_iface_receive(cmd) => Noted
  BY <1>2, OtherLists
<1>7. TrafficStart \/ mqtt_sync \/ TrafficError \/ TrafficFreed \/ eloop_set_exit => Noted
  BY <1>1 DEF TrafficStart, mqtt_sync, TrafficError, TrafficFreed, eloop_set_exit
<1>8. \/ StatmStart \/ CheckConnected \/ OpenBio \/ CredentialsFail \/ DialFails
      \/ DialUnverified \/ DialOk \/ mqtt_connect \/ ConnectFails \/ check_agstatus
      => Noted
  BY <1>1 DEF StatmStart, CheckConnected, OpenBio, CredentialsFail, DialFails,
     DialUnverified, DialOk, mqtt_connect, ConnectFails, check_agstatus
<1>9. exit_link \/ close_conn \/ close_conn_waits \/ handle_stop \/ Tick => Noted
  BY <1>1 DEF exit_link, close_conn, close_conn_waits, handle_stop, Tick
<1>10. UNCHANGED vars => Noted
  BY <1>1 DEF vars
<1> QED
  BY <1>3, <1>4, <1>5, <1>6, <1>7, <1>8, <1>9, <1>10 DEF Next, Thread, Statm

\* Traffic starts with the connection, goes on until it fails, and fails with it;
\* only a publish on a full buffer closes a connection under its traffic.
LEMMA ServedKept == IInv /\ [Next]_vars => Served'
<1> SUFFICES ASSUME IInv, [Next]_vars PROVE Served'
  OBVIOUS
<1>a. /\ timers \in Seq(Timer) /\ pc \in Place /\ Alive /\ Served
      /\ {"mqrecv", "mqupld"} = Conns
  BY CountsAre DEF IInv, Types, ListOK, Conns
<1>b. \A x, c : At(x, c).at = x /\ At(x, c).c = c
  BY DEF At
<1>f. \A c \in Conns : ServeCount(timers, c) \in Nat /\ Total(c) \in Nat
  BY <1>a, CountMeaning DEF Total
<1>g. /\ \A c \in Conns : conn[c] \in Conn /\ conn[c].status \in {0, 1}
      /\ Where
  BY Parts DEF IInv, Types, Conn
<1>h. hist.full => hist'.full
  BY FullKept DEF Noted
<1>1. CASE TrafficStart
  <2>1. Lists(0, pc'.c, -1)
    BY <1>1, FireLists
  <2>2. \A c \in Conns : ServeCount(timers', c) =
                           ServeCount(timers, c) + (IF c = pc'.c THEN -1 ELSE 0)
    BY <2>1 DEF Lists, Effect
  <2>3. \A c \in Conns : Total(c)' = Total(c)
    BY <1>a, <1>b, <1>f, <2>2, <1>1 DEF TrafficStart, Total, Fires, InLoop, Conns
  <2>4. \A c \in Conns : conn'[c].status = conn[c].status
    BY <1>g, <1>1 DEF TrafficStart
  <2>5. Running' => Running
    BY <1>b, <1>1 DEF TrafficStart, Running, Stopped, Fires, InLoop
  <2> QED
    BY <1>a, <2>3, <2>4, <2>5, <1>h, SameServed
<1>2. CASE TrafficOk
  <2>1. Lists(0, pc.c, 1)
    BY <1>2, RegisterLists
  <2>2. \A c \in Conns : ServeCount(timers', c) =
                           ServeCount(timers, c) + (IF c = pc.c THEN 1 ELSE 0)
    BY <2>1 DEF Lists, Effect
  <2>3. \A c \in Conns : Total(c)' = Total(c)
    BY <1>a, <1>b, <1>f, <2>2, <1>2 DEF TrafficOk, Total, ToLoop, Conns
  <2>4. \A c \in Conns : conn'[c].status = conn[c].status
    BY <1>g, <1>2 DEF TrafficOk
  <2>5. Running' => Running
    BY <1>b, <1>2 DEF TrafficOk, Running, Stopped, ToLoop
  <2> QED
    BY <1>a, <2>3, <2>4, <2>5, <1>h, SameServed
<1>3. CASE TrafficError
  <2>1. PICK d \in Conns : d = pc.c /\ Closes(d, "ERR") /\ pc.at = "receiving"
    BY <1>3, TrafficErrorMoves DEF TrafficError, Closes, Only
  <2>2. pc'.at = "loop" /\ timers' = timers /\ hist' = hist
    BY <1>b, <1>3 DEF TrafficError, ToLoop
  <2>3. /\ Total(d) = ServeCount(timers, d) + 1
        /\ \A c \in Conns : Total(c)' = ServeCount(timers, c)
        /\ \A c \in Conns \ {d} : Total(c) = ServeCount(timers, c)
    BY <1>f, <2>1, <2>2 DEF Total
  <2>4. /\ conn'[d].status = 0
        /\ \A c \in Conns \ {d} : conn'[c].status = conn[c].status
    BY <2>1 DEF Closes, Only
  <2>5. \A c \in Conns : /\ conn[c].status = 1 => Total(c) >= 1
                         /\ ~hist.full => Total(c) = conn[c].status
    BY <1>a, <2>1 DEF Served, Running, Stopped
  <2>6. ~hist.full => ServeCount(timers, d) = 0
    BY <1>f, <1>g, <2>1, <2>3, <2>5
  <2> QED
    BY <1>f, <2>1, <2>2, <2>3, <2>4, <2>5, <2>6 DEF Served
<1>4. CASE TrafficFreed
  <2>1. ~Running'
    BY <1>b, <1>4 DEF TrafficFreed, Running, Stopped, Crash
  <2> QED
    BY <2>1 DEF Served
<1>5. CASE eloop_set_publish
  <2> DEFINE d == pc.c
  <2>1. /\ d \in Conns
        /\ \/ pc' = At("crashed", "none")
           \/ /\ pc' = At("loop", "none")
              /\ \/ UNCHANGED <<conn, hist>>
                 \/ Closes(d, "FULL") /\ hist'.full
                 \/ /\ conn[d].error \in {"ERR", "FULL"}
                    /\ Closes(d, conn[d].error) /\ UNCHANGED hist
    BY <1>5, PublishMoves
  <2>2. pc.at = "publishing" /\ timers' = timers
    BY <1>5 DEF eloop_set_publish
  <2> HIDE DEF d
  <2>4. CASE pc' = At("crashed", "none")
    BY <1>b, <2>4 DEF Served, Running, Stopped
  <2>5. ASSUME pc' = At("loop", "none") PROVE \A c \in Conns : Total(c)' = Total(c)
    BY <1>b, <2>2, <2>5 DEF Total
  <2>6. \A c \in Conns : /\ conn[c].status = 1 => Total(c) >= 1
                         /\ ~hist.full => Total(c) = conn[c].status
    BY <1>a, <2>2 DEF Served, Running, Stopped
  <2>7. CASE pc' = At("loop", "none") /\ UNCHANGED <<conn, hist>>
    BY <2>5, <2>6, <2>7 DEF Served
  <2>8. CASE pc' = At("loop", "none") /\ Closes(d, "FULL") /\ hist'.full
    <3>3. /\ conn'[d].status = 0
          /\ \A c \in Conns \ {d} : conn'[c].status = conn[c].status
      BY <2>8 DEF Closes, Only
    <3> QED
      BY <2>1, <2>5, <2>6, <2>8, <3>3 DEF Served
  <2>9. CASE /\ pc' = At("loop", "none") /\ conn[d].error \in {"ERR", "FULL"}
             /\ Closes(d, conn[d].error) /\ UNCHANGED hist
    <3>1. conn[d].status = 0
      BY <1>g, <2>1, <2>9 DEF IInv, StatusMeansSocket
    <3>2. \A c \in Conns : conn'[c].status = conn[c].status
      BY <2>1, <2>9, <3>1 DEF Closes, Only
    <3> QED
      BY <2>5, <2>6, <2>9, <3>2 DEF Served
  <2> QED
    BY <2>1, <2>4, <2>7, <2>8, <2>9
<1>6. CASE eloop_set_exit
  <2> QED
    BY <1>b, <1>6 DEF eloop_set_exit, Served, Running
<1>7. CASE StatmStart
  <2>1. Lists(-1, "none", -1)
    BY <1>7, FireLists
  <2>2. \A c \in Conns : ServeCount(timers', c) =
                           ServeCount(timers, c) + (IF c = "none" THEN -1 ELSE 0)
    BY <2>1 DEF Lists, Effect
  <2>3. \A c \in Conns : Total(c)' = Total(c)
    BY <1>a, <1>b, <1>f, <2>2, <1>7 DEF StatmStart, Total, Fires, InLoop, Conns
  <2>4. \A c \in Conns : conn'[c].status = conn[c].status
    BY <1>g, <1>7 DEF StatmStart
  <2>5. Running' => Running
    BY <1>b, <1>7 DEF StatmStart, Running, Stopped, Fires, InLoop
  <2> QED
    BY <1>a, <2>3, <2>4, <2>5, <1>h, SameServed
<1>8. CASE CheckConnected
  <2>1. UNCHANGED timers
    BY <1>8 DEF CheckConnected
  <2>3. Running' => \A c \in Conns : Total(c)' = Total(c)
    BY <1>a, <1>b, <2>1, <1>8 DEF CheckConnected, Total, Checked, Running, Stopped
  <2>4. \A c \in Conns : conn'[c].status = conn[c].status
    BY <1>g, <1>8 DEF CheckConnected
  <2>5. Running' => Running
    BY <1>b, <1>8 DEF CheckConnected, Running, Stopped, Checked
  <2> QED
    BY <1>a, <2>3, <2>4, <2>5, <1>h DEF Served
<1>9. CASE OpenBio
  <2>1. UNCHANGED timers
    BY <1>9 DEF OpenBio
  <2>3. Running' => \A c \in Conns : Total(c)' = Total(c)
    BY <1>a, <1>b, <2>1, <1>9 DEF OpenBio, Total, Running, Stopped
  <2>4. \A c \in Conns : conn'[c].status = conn[c].status
    <3>1. Only(pc.c) /\ conn'[pc.c] = [conn[pc.c] EXCEPT !.bio = TRUE] /\ pc.c \in Conns
      BY <1>9, DialMoves DEF Only
    <3>2. conn'[pc.c].status = conn[pc.c].status
      BY <1>g, <3>1 DEF Conn
    <3> QED
      BY <3>1, <3>2, <1>9 DEF OpenBio, Only
  <2>5. Running' => Running
    BY <1>b, <1>9 DEF OpenBio, Running, Stopped
  <2> QED
    BY <1>a, <2>3, <2>4, <2>5, <1>h DEF Served
<1>10. CASE CredentialsFail
  <2>1. ~Running'
    BY <1>b, <1>10 DEF CredentialsFail, Running, Stopped
  <2> QED
    BY <2>1 DEF Served
<1>11. CASE DialFails
  <2>1. UNCHANGED timers
    BY <1>11 DEF DialFails
  <2>3. Running' => \A c \in Conns : Total(c)' = Total(c)
    BY <1>a, <1>b, <2>1, <1>11 DEF DialFails, Total, NotReady, Running, Stopped
  <2>4. \A c \in Conns : conn'[c].status = conn[c].status
    <3>1. Only(pc.c) /\ conn'[pc.c] = [conn[pc.c] EXCEPT !.bio = FALSE] /\ pc.c \in Conns
      BY <1>11, DialMoves DEF Only
    <3>2. conn'[pc.c].status = conn[pc.c].status
      BY <1>g, <3>1 DEF Conn
    <3> QED
      BY <3>1, <3>2, <1>11 DEF DialFails, Only
  <2>5. Running' => Running
    BY <1>b, <1>11 DEF DialFails, Running, Stopped, NotReady
  <2> QED
    BY <1>a, <2>3, <2>4, <2>5, <1>h DEF Served
<1>12. CASE DialUnverified
  <2>1. ~Running'
    BY <1>b, <1>12 DEF DialUnverified, Running, Stopped
  <2> QED
    BY <2>1 DEF Served
<1>13. CASE DialOk
  <2>1. UNCHANGED timers
    BY <1>13 DEF DialOk
  <2>3. Running' => \A c \in Conns : Total(c)' = Total(c)
    BY <1>a, <1>b, <2>1, <1>13 DEF DialOk, Total, Running, Stopped
  <2>4. \A c \in Conns : conn'[c].status = conn[c].status
    <3>1. /\ Only(pc.c) /\ pc.c \in Conns
          /\ conn'[pc.c] = [conn[pc.c] EXCEPT !.sock = "live", !.error = "OK"]
      BY <1>13, DialMoves DEF Only
    <3>2. conn'[pc.c].status = conn[pc.c].status
      BY <1>g, <3>1 DEF Conn
    <3> QED
      BY <3>1, <3>2, <1>13 DEF DialOk, Only
  <2>5. Running' => Running
    BY <1>b, <1>13 DEF DialOk, Running, Stopped
  <2> QED
    BY <1>a, <2>3, <2>4, <2>5, <1>h DEF Served
<1>14. CASE ConnectFails
  <2>1. UNCHANGED timers
    BY <1>14 DEF ConnectFails
  <2>3. Running' => \A c \in Conns : Total(c)' = Total(c)
    BY <1>a, <1>b, <2>1, <1>14 DEF ConnectFails, Total, NotReady, Running, Stopped
  <2>4. \A c \in Conns : conn'[c].status = conn[c].status
    <3>1. Only(pc.c) /\ conn'[pc.c] = [conn[pc.c] EXCEPT !.error = "ERR"] /\ pc.c \in Conns
      BY <1>14, DialMoves DEF Only
    <3>2. conn'[pc.c].status = conn[pc.c].status
      BY <1>g, <3>1 DEF Conn
    <3> QED
      BY <3>1, <3>2, <1>14 DEF ConnectFails, Only
  <2>5. Running' => Running
    BY <1>b, <1>14 DEF ConnectFails, Running, Stopped, NotReady
  <2> QED
    BY <1>a, <2>3, <2>4, <2>5, <1>h DEF Served
<1>15. CASE ConnectOk
  <2>1. Lists(0, pc.c, 1) /\ hist'.full = hist.full
    BY <1>15, RegisterLists
  <2>2. PICK d \in Conns : /\ d = pc.c /\ Only(d) /\ conn[d].status = 0
                            /\ conn'[d] = [conn[d] EXCEPT !.status = 1]
                            /\ pc.at = "syncing"
    BY <1>g, <1>15, DialMoves DEF ConnectOk, Where, Only
  <2>3. /\ conn'[d].status = 1
        /\ \A c \in Conns \ {d} : conn'[c].status = conn[c].status
    BY <1>g, <2>2 DEF Only, Conn
  <2>4. pc'.at \notin {"traffic", "receiving"}
    BY <1>b, <1>15 DEF ConnectOk, Checked
  <2>5. /\ Total(d)' = Total(d) + 1
        /\ \A c \in Conns \ {d} : Total(c)' = Total(c)
    BY <1>f, <2>1, <2>2, <2>4 DEF Total, Lists, Effect
  <2>6. \A c \in Conns : /\ conn[c].status = 1 => Total(c) >= 1
                         /\ ~hist.full => Total(c) = conn[c].status
    BY <1>a, <2>2 DEF Served, Running, Stopped
  <2> QED
    <3>1. hist'.full = hist.full /\ Total(d) \in Nat
      BY <1>f, <2>1, <2>2
    <3>2. /\ conn'[d].status = 1 => Total(d)' >= 1
          /\ ~hist'.full => Total(d)' = conn'[d].status
      BY <2>2, <2>3, <2>5, <2>6, <3>1
    <3>3. \A c \in Conns \ {d} :
             /\ conn'[c].status = 1 => Total(c)' >= 1
             /\ ~hist'.full => Total(c)' = conn'[c].status
      BY <2>3, <2>5, <2>6, <3>1
    <3> QED
      BY <3>2, <3>3 DEF Served
<1>16. CASE check_agstatus
  <2>1. UNCHANGED timers
    BY <1>16 DEF check_agstatus
  <2>3. Running' => \A c \in Conns : Total(c)' = Total(c)
    BY <1>a, <1>b, <2>1, <1>16 DEF check_agstatus, Total, Running, Stopped
  <2>4. \A c \in Conns : conn'[c].status = conn[c].status
    BY <1>g, <1>16 DEF check_agstatus
  <2>5. Running' => Running
    BY <1>b, <1>16 DEF check_agstatus, Running, Stopped
  <2> QED
    BY <1>a, <2>3, <2>4, <2>5, <1>h DEF Served
<1>17. CASE StatmEnd
  <2>1. Lists(1, "none", 1)
    BY <1>17, RegisterLists
  <2>2. \A c \in Conns : ServeCount(timers', c) =
                           ServeCount(timers, c) + (IF c = "none" THEN 1 ELSE 0)
    BY <2>1 DEF Lists, Effect
  <2>3. \A c \in Conns : Total(c)' = Total(c)
    BY <1>a, <1>b, <1>f, <2>2, <1>17 DEF StatmEnd, Total, ToLoop, Conns
  <2>4. \A c \in Conns : conn'[c].status = conn[c].status
    BY <1>g, <1>17 DEF StatmEnd
  <2>5. Running' => Running
    BY <1>b, <1>17 DEF StatmEnd, Running, Stopped, ToLoop
  <2> QED
    BY <1>a, <2>3, <2>4, <2>5, <1>h, SameServed
<1>18. CASE exit_link
  <2>1. ~Running'
    BY <1>b, <1>18 DEF exit_link, Running, Stopped
  <2> QED
    BY <2>1 DEF Served
<1>19. CASE close_conn
  <2>1. ~Running'
    BY <1>b, <1>19 DEF close_conn, Running, Stopped
  <2> QED
    BY <2>1 DEF Served
<1>20. ASSUME NEW rc \in Rcs, publish_callback(rc)
       PROVE  Served'
  <2>1. Lists(0, "none", 0) /\ admlink_process_rc(rc)
    BY <1>20, OtherLists DEF publish_callback
  <2>2. \A c \in Conns : ServeCount(timers', c) = ServeCount(timers, c)
    BY <1>f, <2>1 DEF Lists, Effect
  <2>3. pc' = pc \/ pc'.at = "crashed"
    BY <1>b, <2>1, RcMoves
  <2>4. UNCHANGED conn
    BY <1>20 DEF publish_callback
  <2>5. CASE pc'.at = "crashed"
    BY <2>5 DEF Served, Running, Stopped
  <2>6. CASE pc' = pc
    <3>1. (\A c \in Conns : Total(c)' = Total(c)) /\ (Running' => Running)
      BY <2>2, <2>6 DEF Total, Running, Stopped
    <3> QED
      BY <1>a, <1>h, <2>4, <3>1, SameServed
  <2> QED
    BY <2>3, <2>5, <2>6
<1>21. ASSUME NEW cmd \in Cmds, admlink_ctrl_iface_receive(cmd)
       PROVE  Served'
  <2>1. Lists(0, "none", 1)
    BY <1>21, OtherLists
  <2>2. \A c \in Conns : ServeCount(timers', c) =
                           ServeCount(timers, c) + (IF c = "none" THEN 1 ELSE 0)
    BY <2>1 DEF Lists, Effect
  <2>3. \A c \in Conns : Total(c)' = Total(c)
    BY <1>a, <1>b, <1>f, <2>2, <1>21 DEF admlink_ctrl_iface_receive, Total, ToLoop,
       Crash, Fires, InLoop, Conns
  <2>4. \A c \in Conns : conn'[c].status = conn[c].status
    BY <1>g, <1>21 DEF admlink_ctrl_iface_receive
  <2>5. Running' => Running
    BY <1>b, <1>21 DEF admlink_ctrl_iface_receive, Running, Stopped, ToLoop, Crash,
       Fires, InLoop
  <2> QED
    BY <1>a, <2>3, <2>4, <2>5, <1>h, SameServed
<1>22. CASE handle_stop
  <2>1. ~Running'
    BY <1>b, <1>22 DEF handle_stop, Running, Stopped, Crash
  <2> QED
    BY <2>1 DEF Served
<1>23. CASE Tick
  <2>1. Lists(0, "none", 0)
    BY <1>23, OtherLists
  <2>2. \A c \in Conns : ServeCount(timers', c) =
                           ServeCount(timers, c) + (IF c = "none" THEN 0 ELSE 0)
    BY <2>1 DEF Lists, Effect
  <2>3. \A c \in Conns : Total(c)' = Total(c)
    BY <1>a, <1>b, <1>f, <2>2, <1>23 DEF Tick, Total, Conns
  <2>4. \A c \in Conns : conn'[c].status = conn[c].status
    BY <1>g, <1>23 DEF Tick
  <2>5. Running' => Running
    BY <1>b, <1>23 DEF Tick, Running, Stopped
  <2> QED
    BY <1>a, <2>3, <2>4, <2>5, <1>h, SameServed
<1>24. CASE UNCHANGED vars
  <2>1. UNCHANGED timers
    BY <1>24 DEF vars
  <2>3. Running' => \A c \in Conns : Total(c)' = Total(c)
    BY <1>a, <1>b, <2>1, <1>24 DEF vars, Total, Running, Stopped
  <2>4. \A c \in Conns : conn'[c].status = conn[c].status
    BY <1>g, <1>24 DEF vars
  <2>5. Running' => Running
    BY <1>b, <1>24 DEF vars, Running, Stopped
  <2> QED
    BY <1>a, <2>3, <2>4, <2>5, <1>h DEF Served
<1>25. CASE mqtt_sync
  <2>1. UNCHANGED <<timers, conn>>
    BY <1>25 DEF mqtt_sync
  <2>2. /\ pc'.c = pc.c
        /\ \/ pc'.at = "hung"
           \/ pc.at = "traffic" /\ pc'.at = "receiving"
           \/ pc.at = "connected" /\ pc'.at = "syncing"
           \/ pc.at = "closing" /\ pc'.at = "leaving"
    BY <1>b, <1>25 DEF mqtt_sync, Lock
  <2>3. Running' => (Running /\ \A c \in Conns : Total(c)' = Total(c))
    BY <2>1, <2>2 DEF Total, Running, Stopped
  <2> QED
    BY <1>a, <1>h, <2>1, <2>3 DEF Served
<1>26. CASE mqtt_connect
  <2>1. UNCHANGED <<timers, conn>> /\ pc.at = "connecting" /\ pc'.at = "connected"
    BY <1>b, <1>26 DEF mqtt_connect
  <2>2. Running /\ \A c \in Conns : Total(c)' = Total(c)
    BY <2>1 DEF Total, Running, Stopped
  <2> QED
    BY <1>a, <1>h, <2>1, <2>2 DEF Served
<1>27. CASE PublishStart
  <2>1. Lists(0, "none", -1) /\ UNCHANGED conn
    BY <1>27, FireLists DEF PublishStart
  <2>2. \A c \in Conns : ServeCount(timers', c) = ServeCount(timers, c)
    BY <1>f, <2>1 DEF Lists, Effect, Conns
  <2>3. pc.at = "loop" /\ pc'.at \in {"publishing", "hung"}
    BY <1>b, <1>27 DEF PublishStart, Lock, Fires, InLoop
  <2>4. Running /\ \A c \in Conns : Total(c)' = Total(c)
    BY <2>2, <2>3 DEF Total, Running, Stopped
  <2> QED
    BY <1>a, <1>h, <2>1, <2>4 DEF Served
<1>28. CASE close_conn_waits
  <2>1. ~Running'
    BY <1>b, <1>28 DEF close_conn_waits, Running, Stopped
  <2> QED
    BY <2>1 DEF Served
<1> QED
  BY <1>1, <1>2, <1>3, <1>4, <1>5, <1>6, <1>7, <1>8, <1>9, <1>10, <1>11, <1>12,
     <1>13, <1>14, <1>15, <1>16, <1>17, <1>18, <1>19, <1>20, <1>21, <1>22,
     <1>23, <1>24, <1>25, <1>26, <1>27, <1>28
     DEF Next, Thread, Statm

\* check_agstatus sets the time right after mqupld came up, and no client goes
\* back to its state before mqtt_init.
LEMMA UpOnceKept == IInv /\ [Next]_vars => UpOnce'
<1> SUFFICES ASSUME IInv, [Next]_vars PROVE UpOnce'
  OBVIOUS
<1>a. /\ \A c \in hist.up : conn[c].error # "zero"
      /\ "mqupld" \in hist.up => tinfo \/ pc.at = "check_agstatus" \/ ~Running
      /\ pc.at \in {"closing", "leaving"} => eloop = "destroyed"
      /\ hist.up \subseteq Conns /\ Conns = {"mqrecv", "mqupld"}
  BY DEF IInv, Types, UpOnce, Conns, History
<1>b. \A x, c : At(x, c).at = x /\ At(x, c).c = c
  BY DEF At
<1>g. /\ \A c \in Conns : conn[c] \in Conn
      /\ Where /\ tinfo \in BOOLEAN
  BY Parts DEF IInv, Types
<1>1. CASE TrafficStart
  <2>1. UNCHANGED conn /\ hist'.up = hist.up
    BY <1>1, FireLists DEF TrafficStart
  <2> QED
    BY <1>a, <1>b, <2>1, <1>1 DEF TrafficStart, UpOnce, Running, Stopped, Fires,
       InLoop
<1>2. CASE TrafficOk
  <2>1. UNCHANGED conn /\ hist'.up = hist.up
    BY <1>2, RegisterLists DEF TrafficOk
  <2> QED
    BY <1>a, <1>b, <2>1, <1>2 DEF TrafficOk, UpOnce, Running, Stopped, ToLoop
<1>3. CASE TrafficError
  <2>1. Closes(pc.c, "ERR") /\ hist' = hist
    BY <1>3, TrafficErrorMoves DEF TrafficError
  <2>2. \A c \in hist.up : conn'[c].error # "zero"
    BY <1>a, <2>1 DEF Closes, Only
  <2> QED
    BY <1>a, <1>b, <2>1, <2>2, <1>3 DEF TrafficError, UpOnce, Running, Stopped,
       ToLoop
<1>4. CASE TrafficFreed
  <2>1. UNCHANGED conn /\ hist'.up = hist.up
    BY <1>4 DEF TrafficFreed
  <2> QED
    BY <1>a, <1>b, <2>1, <1>4 DEF TrafficFreed, UpOnce, Running, Stopped, Crash
<1>5. CASE eloop_set_publish
  <2> DEFINE d == pc.c
  <2>1. /\ d \in Conns /\ hist'.up = hist.up
        /\ pc' = At("crashed", "none") \/ pc' = At("loop", "none")
        /\ \/ UNCHANGED conn \/ Closes(d, "FULL") \/ Closes(d, conn[d].error)
    BY <1>5, PublishMoves
  <2> HIDE DEF d
  <2>2. \A c \in hist.up : conn'[c].error # "zero"
    BY <1>a, <2>1 DEF Closes, Only
  <2>3. pc.at = "publishing" /\ UNCHANGED <<eloop, tinfo>>
    BY <1>5 DEF eloop_set_publish
  <2> QED
    BY <1>a, <1>b, <2>1, <2>2, <2>3 DEF UpOnce, Running, Stopped
<1>6. CASE eloop_set_exit
  <2>1. UNCHANGED conn /\ hist'.up = hist.up
    BY <1>6, FireLists DEF eloop_set_exit
  <2> QED
    BY <1>a, <1>b, <2>1, <1>6 DEF eloop_set_exit, UpOnce, Running, Stopped, Fires,
       InLoop
<1>7. CASE StatmStart
  <2>1. UNCHANGED conn /\ hist'.up = hist.up
    BY <1>7, FireLists DEF StatmStart
  <2> QED
    BY <1>a, <1>b, <2>1, <1>7 DEF StatmStart, UpOnce, Running, Stopped, Fires, InLoop
<1>8. CASE CheckConnected
  <2>1. UNCHANGED conn /\ hist'.up = hist.up
    BY <1>8 DEF CheckConnected
  <2> QED
    BY <1>a, <1>b, <2>1, <1>8 DEF CheckConnected, UpOnce, Running, Stopped, Checked
<1>9. CASE OpenBio
  <2>1. PICK d \in Conns : /\ d = pc.c /\ Only(d)
                           /\ conn'[d] = [conn[d] EXCEPT !.bio = TRUE]
    BY <1>9, DialMoves DEF Only
  <2>2. conn'[d].error \in {conn[d].error, "OK", "ERR"}
    BY <1>g, <2>1 DEF Conn
  <2>3. hist' = hist /\ \A c \in hist.up : conn'[c].error # "zero"
    BY <1>a, <2>1, <2>2, <1>9 DEF OpenBio, Only
  <2> QED
    BY <1>a, <1>b, <2>3, <1>9 DEF OpenBio, UpOnce, Running, Stopped
<1>10. CASE CredentialsFail
  <2>1. UNCHANGED conn /\ hist'.up = hist.up
    BY <1>10 DEF CredentialsFail
  <2> QED
    BY <1>a, <1>b, <2>1, <1>10 DEF CredentialsFail, UpOnce, Running, Stopped
<1>11. CASE DialFails
  <2>1. PICK d \in Conns : /\ d = pc.c /\ Only(d)
                           /\ conn'[d] = [conn[d] EXCEPT !.bio = FALSE]
    BY <1>11, DialMoves DEF Only
  <2>2. conn'[d].error \in {conn[d].error, "OK", "ERR"}
    BY <1>g, <2>1 DEF Conn
  <2>3. hist' = hist /\ \A c \in hist.up : conn'[c].error # "zero"
    BY <1>a, <2>1, <2>2, <1>11 DEF DialFails, Only
  <2> QED
    BY <1>a, <1>b, <2>3, <1>11 DEF DialFails, UpOnce, Running, Stopped, NotReady
<1>12. CASE DialUnverified
  <2>1. UNCHANGED conn /\ hist'.up = hist.up
    BY <1>12 DEF DialUnverified
  <2> QED
    BY <1>a, <1>b, <2>1, <1>12 DEF DialUnverified, UpOnce, Running, Stopped
<1>13. CASE DialOk
  <2>1. PICK d \in Conns :
           /\ d = pc.c /\ Only(d)
           /\ conn'[d] = [conn[d] EXCEPT !.sock = "live", !.error = "OK"]
    BY <1>13, DialMoves DEF Only
  <2>2. conn'[d].error \in {conn[d].error, "OK", "ERR"}
    BY <1>g, <2>1 DEF Conn
  <2>3. hist' = hist /\ \A c \in hist.up : conn'[c].error # "zero"
    BY <1>a, <2>1, <2>2, <1>13 DEF DialOk, Only
  <2>4. pc.at = "dialing" /\ pc'.at = "connecting" /\ tinfo' = tinfo
    BY <1>13 DEF DialOk, At
  <2>5. "mqupld" \in hist.up => tinfo
    BY <1>a, <2>4 DEF UpOnce, Running, Stopped
  <2> QED
    BY <2>3, <2>4, <2>5 DEF UpOnce
<1>14. CASE ConnectFails
  <2>1. PICK d \in Conns : /\ d = pc.c /\ Only(d)
                           /\ conn'[d] = [conn[d] EXCEPT !.error = "ERR"]
    BY <1>14, DialMoves DEF Only
  <2>2. conn'[d].error \in {conn[d].error, "OK", "ERR"}
    BY <1>g, <2>1 DEF Conn
  <2>3. hist' = hist /\ \A c \in hist.up : conn'[c].error # "zero"
    BY <1>a, <2>1, <2>2, <1>14 DEF ConnectFails, Only
  <2> QED
    BY <1>a, <1>b, <2>3, <1>14 DEF ConnectFails, UpOnce, Running, Stopped, NotReady
<1>15. CASE ConnectOk
  <2>1. PICK d \in Conns : /\ d = pc.c /\ Only(d)
                           /\ conn'[d] = [conn[d] EXCEPT !.status = 1]
    BY <1>15, DialMoves DEF Only
  <2>2. conn'[d].error = "OK" /\ hist'.up = hist.up \cup {d}
    BY <1>g, <2>1, <1>15, RegisterLists DEF Conn, Where, ConnectOk
  <2>3. \A c \in hist'.up : conn'[c].error # "zero"
    BY <1>a, <2>1, <2>2 DEF Only
  <2>4. d = "mqupld" => pc'.at = "check_agstatus"
    BY <1>b, <2>1, <1>15 DEF ConnectOk, Checked
  <2>5. "mqupld" \in hist.up => tinfo
    BY <1>a, <1>15 DEF ConnectOk, Running, Stopped
  <2>6. tinfo' = tinfo /\ pc'.at \notin {"closing", "leaving"}
    BY <1>b, <1>15 DEF ConnectOk, Checked
  <2> QED
    BY <1>a, <2>1, <2>2, <2>3, <2>4, <2>5, <2>6 DEF UpOnce
<1>16. CASE check_agstatus
  <2>1. UNCHANGED conn /\ hist'.up = hist.up
    BY <1>16 DEF check_agstatus
  <2> QED
    BY <1>a, <1>b, <2>1, <1>16 DEF check_agstatus, UpOnce, Running, Stopped
<1>17. CASE StatmEnd
  <2>1. UNCHANGED conn /\ hist'.up = hist.up
    BY <1>17, RegisterLists DEF StatmEnd
  <2> QED
    BY <1>a, <1>b, <2>1, <1>17 DEF StatmEnd, UpOnce, Running, Stopped, ToLoop
<1>18. CASE exit_link
  <2>1. UNCHANGED conn /\ hist'.up = hist.up
    BY <1>18 DEF exit_link
  <2> QED
    BY <1>a, <1>b, <2>1, <1>18 DEF exit_link, UpOnce, Running, Stopped
<1>19. CASE close_conn
  <2>1. Closes(pc.c, conn[pc.c].error) /\ hist' = hist
    BY <1>19, CloseMoves DEF close_conn
  <2>2. \A c \in hist.up : conn'[c].error # "zero"
    BY <1>a, <2>1 DEF Closes, Only
  <2> QED
    BY <1>a, <1>b, <2>1, <2>2, <1>19 DEF close_conn, UpOnce, Running, Stopped
<1>20. ASSUME NEW rc \in Rcs, publish_callback(rc)
       PROVE  UpOnce'
  <2>1. admlink_process_rc(rc) /\ UNCHANGED <<conn, eloop, tinfo>> /\ hist'.up = hist.up
    BY <1>20, OtherLists DEF publish_callback
  <2>2. pc' = pc \/ pc'.at = "crashed"
    BY <1>b, <2>1, RcMoves
  <2> QED
    BY <1>a, <2>1, <2>2 DEF UpOnce, Running, Stopped
<1>21. ASSUME NEW cmd \in Cmds, admlink_ctrl_iface_receive(cmd)
       PROVE  UpOnce'
  <2>1. UNCHANGED conn /\ hist'.up = hist.up
    BY <1>21, OtherLists DEF admlink_ctrl_iface_receive
  <2> QED
    BY <1>a, <1>b, <2>1, <1>21 DEF admlink_ctrl_iface_receive, UpOnce, Running,
       Stopped, ToLoop, Crash, Fires, InLoop
<1>22. CASE handle_stop
  <2>1. UNCHANGED conn /\ hist'.up = hist.up
    BY <1>22 DEF handle_stop
  <2> QED
    BY <1>a, <1>b, <2>1, <1>22 DEF handle_stop, UpOnce, Running, Stopped, Crash
<1>23. CASE Tick
  <2>1. UNCHANGED conn /\ hist'.up = hist.up
    BY <1>23, OtherLists DEF Tick
  <2> QED
    BY <1>a, <1>b, <2>1, <1>23 DEF Tick, UpOnce, Running, Stopped
<1>24. CASE UNCHANGED vars
  <2>1. UNCHANGED conn /\ hist'.up = hist.up
    BY <1>24 DEF vars
  <2> QED
    BY <1>a, <1>b, <2>1, <1>24 DEF vars, UpOnce, Running, Stopped
<1>25. CASE mqtt_sync
  <2>1. UNCHANGED <<conn, hist, eloop, tinfo>>
    BY <1>25 DEF mqtt_sync
  <2>2. \/ pc'.at = "hung"
        \/ pc.at = "traffic" /\ pc'.at = "receiving"
        \/ pc.at = "connected" /\ pc'.at = "syncing"
        \/ pc.at = "closing" /\ pc'.at = "leaving"
    BY <1>b, <1>25 DEF mqtt_sync, Lock
  <2> QED
    BY <1>a, <2>1, <2>2 DEF UpOnce, Running, Stopped
<1>26. CASE mqtt_connect
  <2>1. UNCHANGED conn /\ hist'.up = hist.up
    BY <1>26 DEF mqtt_connect
  <2> QED
    BY <1>a, <1>b, <2>1, <1>26 DEF mqtt_connect, UpOnce, Running, Stopped
<1>27. CASE PublishStart
  <2>1. UNCHANGED <<conn, tinfo>> /\ hist'.up = hist.up
    BY <1>27, FireLists DEF PublishStart
  <2>2. pc.at = "loop" /\ pc'.at \in {"publishing", "hung"}
    BY <1>b, <1>27 DEF PublishStart, Lock, Fires, InLoop
  <2> QED
    BY <1>a, <2>1, <2>2 DEF UpOnce, Running, Stopped
<1>28. CASE close_conn_waits
  <2>1. UNCHANGED conn /\ hist'.up = hist.up
    BY <1>28 DEF close_conn_waits
  <2> QED
    BY <1>a, <1>b, <2>1, <1>28 DEF close_conn_waits, UpOnce, Running, Stopped
<1> QED
  BY <1>1, <1>2, <1>3, <1>4, <1>5, <1>6, <1>7, <1>8, <1>9, <1>10, <1>11, <1>12,
     <1>13, <1>14, <1>15, <1>16, <1>17, <1>18, <1>19, <1>20, <1>21, <1>22,
     <1>23, <1>24, <1>25, <1>26, <1>27, <1>28
     DEF Next, Thread, Statm

\* The ways to crash before the exit need a connection that was never up, a
\* traffic handler that outlived its connection, or a malformed command.
LEMMA SafeKept == IInv /\ [Next]_vars => SafeOnceUp'
<1> SUFFICES ASSUME IInv, [Next]_vars PROVE SafeOnceUp'
  OBVIOUS
<1>a. /\ \A c \in hist.up : conn[c].error # "zero"
      /\ "mqupld" \in hist.up => tinfo \/ pc.at = "check_agstatus" \/ ~Running
      /\ pc.at \in {"closing", "leaving"} => eloop = "destroyed"
      /\ hist.up \subseteq Conns /\ Conns = {"mqrecv", "mqupld"}
  BY DEF IInv, Types, UpOnce, Conns, History
<1>b. \A x, c : At(x, c).at = x /\ At(x, c).c = c
  BY DEF At
<1>g. /\ \A c \in Conns : conn[c] \in Conn
      /\ Where /\ tinfo \in BOOLEAN
  BY Parts DEF IInv, Types
<1>h. /\ (pc.at = "crashed" /\ hist.up = Conns /\ ~hist.full /\ ~hist.malformed)
            => eloop = "destroyed"
      /\ Served /\ StatusMeansSocket /\ eloop \in {"up", "destroyed"}
  BY CountsAre DEF IInv, SafeOnceUp, Types, ListOK
<1>1. CASE TrafficStart
  <2>1. pc'.at # "crashed"
    BY <1>b, <1>1 DEF TrafficStart
  <2> QED
    BY <2>1 DEF SafeOnceUp
<1>2. CASE TrafficOk
  <2>1. pc'.at # "crashed"
    BY <1>b, <1>2 DEF TrafficOk, ToLoop
  <2> QED
    BY <2>1 DEF SafeOnceUp
<1>3. CASE TrafficError
  <2>1. pc'.at # "crashed"
    BY <1>b, <1>3 DEF TrafficError, ToLoop
  <2> QED
    BY <2>1 DEF SafeOnceUp
<1>4. CASE TrafficFreed
  <2>1. PICK d \in Conns : /\ d = pc.c /\ conn[d].sock # "live" /\ pc.at = "receiving"
                           /\ UNCHANGED <<hist, eloop>>
    BY <1>g, <1>4 DEF TrafficFreed, Where
  <2>2. ServeCount(timers, d) \in Nat
    BY CountMeaning DEF IInv, ListOK
  <2>3. ~hist.full => conn[d].status = 1
    <3>1. ~hist.full => Total(d) = conn[d].status
      BY <1>h, <2>1 DEF Served, Running, Stopped
    <3>2. Total(d) = ServeCount(timers, d) + 1 /\ conn[d].status \in {0, 1}
      BY <1>g, <2>1 DEF Total, Conn
    <3> QED
      BY <2>2, <3>1, <3>2
  <2>4. hist.full
    BY <1>h, <2>1, <2>3 DEF StatusMeansSocket
  <2> QED
    BY <2>1, <2>4 DEF SafeOnceUp
<1>5. CASE eloop_set_publish
  <2> DEFINE d == pc.c
  <2>1. /\ d \in Conns /\ hist'.up = hist.up
        /\ conn[d].error = "zero" \/ pc' = At("loop", "none")
    BY <1>5, PublishMoves
  <2> HIDE DEF d
  <2>2. hist.up = Conns => pc' = At("loop", "none")
    BY <1>a, <2>1
  <2> QED
    BY <1>b, <2>1, <2>2 DEF SafeOnceUp
<1>6. CASE eloop_set_exit
  <2>1. pc'.at # "crashed"
    BY <1>b, <1>6 DEF eloop_set_exit
  <2> QED
    BY <2>1 DEF SafeOnceUp
<1>7. CASE StatmStart
  <2>1. pc'.at # "crashed"
    BY <1>b, <1>7 DEF StatmStart
  <2> QED
    BY <2>1 DEF SafeOnceUp
<1>8. CASE CheckConnected
  <2>1. pc'.at # "crashed"
    BY <1>b, <1>8 DEF CheckConnected, Checked
  <2> QED
    BY <2>1 DEF SafeOnceUp
<1>9. CASE OpenBio
  <2>1. pc'.at # "crashed"
    BY <1>b, <1>9 DEF OpenBio
  <2> QED
    BY <2>1 DEF SafeOnceUp
<1>10. CASE CredentialsFail
  <2>1. pc'.at # "crashed"
    BY <1>b, <1>10 DEF CredentialsFail
  <2> QED
    BY <2>1 DEF SafeOnceUp
<1>11. CASE DialFails
  <2>1. pc'.at # "crashed"
    BY <1>b, <1>11 DEF DialFails, NotReady
  <2> QED
    BY <2>1 DEF SafeOnceUp
<1>12. CASE DialUnverified
  <2>1. pc'.at # "crashed"
    BY <1>b, <1>12 DEF DialUnverified
  <2> QED
    BY <2>1 DEF SafeOnceUp
<1>13. CASE DialOk
  <2>1. pc'.at # "crashed"
    BY <1>b, <1>13 DEF DialOk
  <2> QED
    BY <2>1 DEF SafeOnceUp
<1>14. CASE ConnectFails
  <2>1. pc'.at # "crashed"
    BY <1>b, <1>14 DEF ConnectFails, NotReady
  <2> QED
    BY <2>1 DEF SafeOnceUp
<1>15. CASE ConnectOk
  <2>1. pc'.at # "crashed"
    BY <1>b, <1>15 DEF ConnectOk, Checked
  <2> QED
    BY <2>1 DEF SafeOnceUp
<1>16. CASE check_agstatus
  <2>1. pc'.at # "crashed"
    BY <1>b, <1>16 DEF check_agstatus
  <2> QED
    BY <2>1 DEF SafeOnceUp
<1>17. CASE StatmEnd
  <2>1. pc'.at # "crashed"
    BY <1>b, <1>17 DEF StatmEnd, ToLoop
  <2> QED
    BY <2>1 DEF SafeOnceUp
<1>18. CASE exit_link
  <2>1. pc'.at # "crashed"
    BY <1>b, <1>18 DEF exit_link
  <2> QED
    BY <2>1 DEF SafeOnceUp
<1>19. CASE close_conn
  <2>1. pc'.at # "crashed"
    BY <1>b, <1>19 DEF close_conn
  <2> QED
    BY <2>1 DEF SafeOnceUp
<1>20. ASSUME NEW rc \in Rcs, publish_callback(rc)
       PROVE  SafeOnceUp'
  <2>1. /\ admlink_process_rc(rc) /\ UNCHANGED <<conn, eloop, tinfo>> /\ hist'.up = hist.up
        /\ pc.at \in {"receiving", "leaving"}
    BY <1>b, <1>20, OtherLists DEF publish_callback
  <2>2. pc' = pc \/ ~tinfo \/ eloop = "destroyed" \/ hist'.malformed
    BY <2>1, RcMoves
  <2>3. hist.up = Conns /\ pc.at = "receiving" => tinfo
    BY <1>a DEF Running, Stopped
  <2>4. pc'.at = "crashed" /\ hist'.up = Conns => eloop = "destroyed" \/ hist'.malformed
    BY <1>a, <2>1, <2>2, <2>3
  <2> QED
    BY <2>1, <2>4 DEF SafeOnceUp
<1>21. ASSUME NEW cmd \in Cmds, admlink_ctrl_iface_receive(cmd)
       PROVE  SafeOnceUp'
  <2>1. pc'.at # "crashed"
    BY <1>21 DEF admlink_ctrl_iface_receive, InLoop
  <2> QED
    BY <2>1 DEF SafeOnceUp
<1>22. CASE handle_stop
  <2>1. eloop' = eloop /\ (pc'.at = "crashed" => eloop = "destroyed")
    BY <1>b, <1>22 DEF handle_stop, Crash
  <2> QED
    BY <2>1 DEF SafeOnceUp
<1>23. CASE Tick
  <2>1. pc'.at # "crashed"
    BY <1>23 DEF Tick, Stopped
  <2> QED
    BY <2>1 DEF SafeOnceUp
<1>24. CASE UNCHANGED vars
  <2> QED
    BY <1>h, <1>24 DEF vars, SafeOnceUp
<1>25. CASE mqtt_sync
  <2>1. pc'.at # "crashed"
    BY <1>b, <1>25 DEF mqtt_sync, Lock
  <2> QED
    BY <2>1 DEF SafeOnceUp
<1>26. CASE mqtt_connect
  <2>1. pc'.at # "crashed"
    BY <1>b, <1>26 DEF mqtt_connect
  <2> QED
    BY <2>1 DEF SafeOnceUp
<1>27. CASE PublishStart
  <2>1. pc'.at # "crashed"
    BY <1>b, <1>27 DEF PublishStart, Lock
  <2> QED
    BY <2>1 DEF SafeOnceUp
<1>28. CASE close_conn_waits
  <2>1. pc'.at # "crashed"
    BY <1>b, <1>28 DEF close_conn_waits
  <2> QED
    BY <2>1 DEF SafeOnceUp
<1> QED
  BY <1>1, <1>2, <1>3, <1>4, <1>5, <1>6, <1>7, <1>8, <1>9, <1>10, <1>11, <1>12,
     <1>13, <1>14, <1>15, <1>16, <1>17, <1>18, <1>19, <1>20, <1>21, <1>22,
     <1>23, <1>24, <1>25, <1>26, <1>27, <1>28
     DEF Next, Thread, Statm

-----------------------------------------------------------------------------
(* The theorems.                                                            *)

\* At the start there is one timeout, the first chk_agstatm, and no connection.
LEMMA InitIInv == Init => IInv
<1> SUFFICES ASSUME Init PROVE IInv
  OBVIOUS
<1> DEFINE t == Timeout("chk_agstatm", "none", 0, StartT)
<1>1. /\ timers = <<t>> /\ t \in Timer /\ t.h = "chk_agstatm" /\ t.n = 0
  BY AgentAssumption DEF Init, Timeout, Timer, Handlers, AgentAssumption
<1>2. /\ conn \in [Conns -> Conn]
      /\ \A c \in Conns : conn[c].status = 0 /\ conn[c].error = "zero"
  BY DEF Init, ConnInit, Conn
<1>3. /\ hist \in History /\ hist.asked = 0 /\ hist.done = 0 /\ hist.up = {}
  BY DEF Init, History
<1>4. /\ left \in Left /\ eloop = "up" /\ agstatus = "isOk" /\ tinfo = FALSE
      /\ mutex \in [Conns -> {"free", "held", "cut"}]
      /\ \A c \in Conns : mutex[c] = "free"
  BY AgentAssumption DEF Init, Left, AgentAssumption
<1>5. pc \in Place /\ pc.at = "loop" /\ pc.c = "none"
  BY DEF Init, At, Place
<1> HIDE DEF t
<1>6. Types
  BY <1>2, <1>3, <1>4, <1>5 DEF Types
<1>7. timers \in Seq(Timer) /\ DOMAIN timers = {1} /\ timers[1] = t
  BY <1>1
<1>8. ListOK(timers, hist.asked, hist.done)
  BY <1>1, <1>3, <1>7 DEF ListOK, Sorted, Entry, Ordered
<1>9. /\ Where /\ UpOnce /\ Locked /\ StatusMeansSocket /\ SafeOnceUp
      /\ NoSelfDeadlock
  BY <1>2, <1>3, <1>4, <1>5 DEF Where, UpOnce, Locked, Holders, StatusMeansSocket,
     SafeOnceUp, NoSelfDeadlock
<1>10. Places(timers, Statms) = {1} /\ \A c : Places(timers, Serving(c)) = {}
  BY <1>1, <1>7 DEF Places, Statms, Serving
<1>11. StatmCount(timers) = 1 /\ \A c : ServeCount(timers, c) = 0
  BY <1>10, FS_Singleton, FS_EmptySet DEF StatmCount, ServeCount
<1>12. Alive /\ Served
  BY <1>2, <1>5, <1>11 DEF Alive, Served, Total
<1>13. SmAlive /\ ConnServed
  BY <1>5, <1>6, <1>7, <1>12, CountsAre DEF Types
<1> QED
  BY <1>6, <1>8, <1>9, <1>13 DEF IInv

\* Every step of the program keeps the whole invariant.
LEMMA NextIInv == IInv /\ [Next]_vars => IInv'
<1> SUFFICES ASSUME IInv, [Next]_vars PROVE IInv'
  OBVIOUS
<1>1. Types' /\ ListOK(timers', hist'.asked, hist'.done)
  BY TypesKept, ListKept
<1>2. SmAlive' /\ ConnServed'
  BY <1>1, AliveKept, ServedKept, CountsAre DEF Types, ListOK
<1> QED
  BY <1>1, <1>2, WhereKept, UpOnceKept, LockedKept, StatusKept, SafeKept DEF IInv

\* The invariant holds in every state of every execution, whatever the budgets,
\* the delays and the commands.
THEOREM Invariant == Spec => []IInv
  BY InitIInv, NextIInv, PTL DEF Spec

\* The fields of struct mqconn and struct agent keep to their values and
\* eloop.timeout stays sorted, whatever the delays and the broker do.
THEOREM TypeCorrect == Spec => []TypeOK
<1>1. IInv => TypeOK
  <2> SUFFICES ASSUME IInv PROVE TypeOK
    OBVIOUS
  <2>1. ListOK(timers, hist.asked, hist.done)
    BY DEF IInv
  <2>2. /\ \A i \in DOMAIN timers : timers[i] \in Timer /\ timers[i].n \in 0..hist.asked
        /\ Sorted(timers)
    <3>1. timers \in Seq(Timer) /\ Sorted(timers) /\ hist.asked \in Nat
      BY <2>1 DEF ListOK
    <3>2. ASSUME NEW i \in DOMAIN timers
          PROVE  timers[i] \in Timer /\ timers[i].n \in 0..hist.asked
      <4>1. timers[i] \in Timer
        BY <3>1
      <4>2. timers[i].n <= hist.asked
        BY <2>1 DEF ListOK, Entry
      <4>3. timers[i].n \in Nat
        BY <4>1 DEF Timer
      <4> QED
        BY <3>1, <4>1, <4>2, <4>3
    <3> QED
      BY <3>1, <3>2
  <2>3. \A i \in DOMAIN timers :
           timers[i] \in [h : Handlers, c : Conns \cup {"none"},
                          n : 0..hist.asked, rem : 0..(SmT + StartT)]
    BY <2>2 DEF Timer
  <2> QED
    BY <2>2, <2>3 DEF IInv, Types, Conn, Place, Sorted, TypeOK
<1> QED
  BY <1>1, Invariant, PTL

\* chk_agstatm registers itself again on every path through check_mqrecv and
\* check_mqupld, exactly once.
THEOREM StateMachineAlive == Spec => []SmAlive
  BY Invariant, PTL DEF IInv

\* mqclient_init starts ag_handle_clttraffic, which registers itself until the
\* connection fails.
THEOREM ConnectionsServed == Spec => []ConnServed
  BY Invariant, PTL DEF IInv

\* status is 1 only between a connection that was made and close_conn.
THEOREM StatusIsSocket == Spec => []StatusMeansSocket
  BY Invariant, PTL DEF IInv

\* set_mqtt_publish_nexsync defers every publish by the same delay, so the list
\* of timeouts keeps them in the order they were asked for.
THEOREM PublishInOrder == Spec => []PublishOrder
<1>1. IInv => PublishOrder
  BY DEF IInv, ListOK, Entry, Ordered, PublishOrder, Pending
<1> QED
  BY <1>1, Invariant, PTL

\* After both connections have been up only an exit, a full send buffer or a
\* remote command with a malformed rc_id may end in a crash.
THEOREM SafeWhenUp == Spec => []SafeOnceUp
  BY Invariant, PTL DEF IInv

\* mqtt_sync, mqtt_publish and mqtt_connect release the mutex that they take on
\* every path, and publish_callback takes none: the thread waits for a mutex only
\* in an exit on top of the call that holds it.
THEOREM NoDeadlock == Spec => []NoSelfDeadlock
  BY Invariant, PTL DEF IInv
=============================================================================
