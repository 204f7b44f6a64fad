---------------------------- MODULE EloopProofs ----------------------------
(***************************************************************************)
(* Proofs about the event loop: only a signal that comes while the table is *)
(* moved is forgotten, the alarm is never left on without a turn of the loop *)
(* that clears it, and the loop over the sockets acts on an outdated answer *)
(* of select only for a descriptor a timeout or signal handler has reused.  *)
(***************************************************************************)
EXTENDS Eloop, SequenceTheorems, TLAPS

-----------------------------------------------------------------------------
(* The inductive invariant.                                                 *)

Places == {"top", "select", "signals", "disarm", "scan", "in_signal", "timeout",
           "in_timeout", "readers", "read", "call", "in_reader", "ended", "killed"}

\* Where i of pc is an index of a table.
Indexed == {"scan", "in_signal", "read", "call", "in_reader"}

Types ==
    /\ readers \in Seq(Socks)
    /\ signals \in Seq([sig : Sigs, signaled : BOOLEAN])
    /\ changed \in BOOLEAN /\ moved \in BOOLEAN
    /\ signaled \in BOOLEAN /\ alarm \in BOOLEAN
    /\ pc = At(pc.at, pc.i) /\ pc.at \in Places
    /\ pc.at \in Indexed => pc.i \in Nat /\ pc.i > 0

\* No socket is in the table twice.
Distinct ==
    \A i, j \in DOMAIN readers : readers[i] = readers[j] => i = j

\* No signal is in the table twice, and only signals of the table arrive.
Installed ==
    /\ \A i, j \in DOMAIN signals : signals[i].sig = signals[j].sig => i = j
    /\ \A g \in arrived : \E i \in DOMAIN signals : signals[i].sig = g

\* The sockets from index k on that select reported are still ready, or stale.
ReadyFrom(k) ==
    \A j \in DOMAIN readers :
        j >= k /\ readers[j] \in rfds => readers[j] \in ready \cup stale

\* How long what select reported is true but for the stale sockets: all of it
\* until the loop over the sockets starts; then for the sockets the loop has not
\* come to, as long as the table it walks through is the one it started with.
Fresh ==
    /\ pc.at = "select" => rfds = {}
    /\ pc.at \in {"signals", "disarm", "scan", "in_signal", "timeout", "in_timeout",
                  "readers"} => rfds \subseteq ready \cup stale
    /\ pc.at \in {"read", "call"} => ReadyFrom(pc.i)
    /\ pc.at = "call" => pc.i \in DOMAIN readers /\ readers[pc.i] \in rfds
    /\ pc.at = "in_reader" /\ ~changed => ReadyFrom(pc.i + 1)

IInv == Types /\ Distinct /\ Installed /\ Fresh /\ SignalSeen /\ AlarmCovered

-----------------------------------------------------------------------------
(* Every step keeps each part of the invariant.                              *)

SignalEntry == [sig : Sigs, signaled : BOOLEAN]

Cleared(s, i) == [s EXCEPT ![i].signaled = FALSE]
Raised(s, i)  == [s EXCEPT ![i].signaled = TRUE]

\* Setting or clearing the flag of one signal leaves the rest of the table.
LEMMA FlagCleared ==
    ASSUME NEW s \in Seq(SignalEntry), NEW i \in DOMAIN s, NEW t,
           t = Cleared(s, i)
    PROVE  /\ t \in Seq(SignalEntry) /\ DOMAIN t = DOMAIN s
           /\ ~t[i].signaled
           /\ \A j \in DOMAIN s \ {i} : t[j].signaled = s[j].signaled
           /\ \A j \in DOMAIN s : t[j].sig = s[j].sig
<1>1. s[i] \in SignalEntry
  OBVIOUS
<1> DEFINE e == [s[i] EXCEPT !.signaled = FALSE]
<1>2. e \in SignalEntry /\ ~e.signaled /\ e.sig = s[i].sig
  BY <1>1 DEF SignalEntry
<1>3. t = [s EXCEPT ![i] = e]
  BY DEF Cleared
<1> HIDE DEF e
<1>4. t \in Seq(SignalEntry) /\ DOMAIN t = DOMAIN s
  <2>1. DOMAIN s = 1..Len(s) /\ Len(s) \in Nat /\ s \in [1..Len(s) -> SignalEntry]
    OBVIOUS
  <2>2. t \in [1..Len(s) -> SignalEntry]
    BY <1>2, <1>3, <2>1
  <2>3. t \in Seq(SignalEntry)
    BY <2>1, <2>2, SeqDef
  <2>4. DOMAIN t = 1..Len(s)
    BY <2>2
  <2> QED
    BY <2>1, <2>3, <2>4
<1>5. t[i] = e /\ \A j \in DOMAIN s \ {i} : t[j] = s[j]
  BY <1>3
<1> QED
  BY <1>2, <1>4, <1>5

\* The signal handler, which raises the flag of the first entry of its number,
\* changes no other flag.
LEMMA FlagRaised ==
    ASSUME NEW s \in Seq(SignalEntry), NEW i \in DOMAIN s, NEW t,
           t = Raised(s, i)
    PROVE  /\ t \in Seq(SignalEntry) /\ DOMAIN t = DOMAIN s
           /\ t[i].signaled
           /\ \A j \in DOMAIN s \ {i} : t[j].signaled = s[j].signaled
           /\ \A j \in DOMAIN s : t[j].sig = s[j].sig
<1>1. s[i] \in SignalEntry
  OBVIOUS
<1> DEFINE e == [s[i] EXCEPT !.signaled = TRUE]
<1>2. e \in SignalEntry /\ e.signaled /\ e.sig = s[i].sig
  BY <1>1 DEF SignalEntry
<1>3. t = [s EXCEPT ![i] = e]
  BY DEF Raised
<1> HIDE DEF e
<1>4. t \in Seq(SignalEntry) /\ DOMAIN t = DOMAIN s
  <2>1. DOMAIN s = 1..Len(s) /\ Len(s) \in Nat /\ s \in [1..Len(s) -> SignalEntry]
    OBVIOUS
  <2>2. t \in [1..Len(s) -> SignalEntry]
    BY <1>2, <1>3, <2>1
  <2>3. t \in Seq(SignalEntry)
    BY <2>1, <2>2, SeqDef
  <2>4. DOMAIN t = 1..Len(s)
    BY <2>2
  <2> QED
    BY <2>1, <2>3, <2>4
<1>5. t[i] = e /\ \A j \in DOMAIN s \ {i} : t[j] = s[j]
  BY <1>3
<1> QED
  BY <1>2, <1>4, <1>5

\* eloop_process_pending_signals clears the flag of the signal it handles.
LEMMA ScanClears ==
    ASSUME signals \in Seq(SignalEntry), pc.i \in DOMAIN signals,
           signals[pc.i].signaled, Scan
    PROVE  /\ signals' \in Seq(SignalEntry) /\ DOMAIN signals' = DOMAIN signals
           /\ \A j \in DOMAIN signals \ {pc.i} :
                 signals'[j].signaled = signals[j].signaled
           /\ \A j \in DOMAIN signals : signals'[j].sig = signals[j].sig
<1>1. signals' = Cleared(signals, pc.i)
  BY DEF Scan, Cleared
<1>2. /\ signals' \in Seq(SignalEntry) /\ DOMAIN signals' = DOMAIN signals
      /\ ~signals'[pc.i].signaled
      /\ \A j \in DOMAIN signals \ {pc.i} : signals'[j].signaled = signals[j].signaled
      /\ \A j \in DOMAIN signals : signals'[j].sig = signals[j].sig
  BY <1>1, FlagCleared
<1> QED
  BY <1>2

\* Taking one entry out of the table of sockets moves those behind it up.
LEMMA OneRemoved ==
    ASSUME NEW r \in Seq(Socks), NEW i \in DOMAIN r,
           NEW t, t = [j \in 1..(Len(r) - 1) |-> r[IF j < i THEN j ELSE j + 1]]
    PROVE  /\ t \in Seq(Socks) /\ DOMAIN t = 1..(Len(r) - 1)
           /\ \A j \in DOMAIN t : /\ t[j] = r[IF j < i THEN j ELSE j + 1]
                                /\ (IF j < i THEN j ELSE j + 1) \in DOMAIN r
<1>1. Len(r) \in Nat /\ i \in 1..Len(r) /\ Len(r) - 1 \in Nat
  OBVIOUS
<1>2. \A j \in 1..(Len(r) - 1) : (IF j < i THEN j ELSE j + 1) \in 1..Len(r)
  BY <1>1
<1>3. \A j \in 1..(Len(r) - 1) : t[j] \in Socks
  BY <1>1, <1>2
<1> QED
  BY <1>1, <1>2, <1>3

\* The tables hold entries of their kind and an index is a number.
LEMMA TypesKept == IInv /\ [Next]_vars => Types'
<1> SUFFICES ASSUME IInv, [Next]_vars PROVE Types'
  OBVIOUS
<1> USE EloopAssumption DEF IInv, Types, At, Places, Indexed
<1>1. CASE Top
  BY <1>1 DEF Top, table
<1>2. CASE Select
  BY <1>2 DEF Select, table
<1>3. CASE Pending
  BY <1>3 DEF Pending, table
<1>4. CASE Disarm
  <2>1. pc'.at = "scan" /\ pc'.i = 1 /\ pc' = At(pc'.at, pc'.i) /\ alarm' = FALSE
    BY <1>4 DEF Disarm
  <2>2. pc'.i \in Nat /\ pc'.i > 0
    BY <2>1
  <2>3. UNCHANGED <<readers, signals, moved, changed, signaled>>
    BY <1>4 DEF Disarm, table
  <2> QED
    BY <2>1, <2>2, <2>3
<1>5. CASE Scan
  <2>1. CASE signals[pc.i].signaled
    <3>1. pc.i \in DOMAIN signals /\ signals \in Seq(SignalEntry)
      BY <1>5 DEF Scan, SignalEntry
    <3>3. signals' \in Seq(SignalEntry)
      BY <1>5, <2>1, <3>1, ScanClears
    <3> QED
      BY <1>5, <2>1, <3>3 DEF Scan, SignalEntry
  <2>2. CASE ~signals[pc.i].signaled
    BY <1>5, <2>2 DEF Scan, table
  <2> QED
    BY <2>1, <2>2
<1>6. CASE ScanEnd
  BY <1>6 DEF ScanEnd, table
<1>7. CASE FireTimeout
  BY <1>7 DEF FireTimeout, table
<1>8. CASE StartReaders
  <2>1. CASE rfds = {}
    BY <1>8, <2>1 DEF StartReaders
  <2>2. CASE rfds # {}
    <3>1. pc'.at = "read" /\ pc'.i = 1 /\ pc' = At(pc'.at, pc'.i) /\ changed' = FALSE
      BY <1>8, <2>2 DEF StartReaders
    <3>2. UNCHANGED <<readers, signals, moved, signaled, alarm>>
      BY <1>8 DEF StartReaders
    <3>3. pc'.i \in Nat /\ pc'.i > 0
      BY <3>1
    <3> QED
      BY <3>1, <3>2, <3>3
  <2> QED
    BY <2>1, <2>2
<1>9. CASE CallReader
  BY <1>9 DEF CallReader, table
<1>10. CASE EnterReader
  BY <1>10 DEF EnterReader, table
<1>11. CASE Return
  BY <1>11 DEF Return, table, InHandler
<1>12. ASSUME NEW h \in Handlers, eloop_cancel_timeout(h) PROVE Types'
  BY <1>12 DEF eloop_cancel_timeout, table, Change, InHandler
<1>13. ASSUME NEW h \in Handlers, NEW d \in Delays, RegisterTimeout(h, d) PROVE Types'
  BY <1>13 DEF RegisterTimeout, table, InHandler
<1>14. ASSUME NEW s \in Socks, eloop_register_read_sock(s) PROVE Types'
  BY <1>14 DEF eloop_register_read_sock, table, Change, InHandler
<1>15. ASSUME NEW s \in Socks, eloop_unregister_read_sock(s) PROVE Types'
  <2>1. CASE UNCHANGED <<readers, changed>>
    BY <1>15, <2>1 DEF eloop_unregister_read_sock, Change
  <2>2. CASE \E i \in DOMAIN readers :
              readers' = [j \in 1..(Len(readers) - 1) |->
                            readers[IF j < i THEN j ELSE j + 1]]
    <3>1. readers' \in Seq(Socks)
      BY <2>2, OneRemoved
    <3> QED
      BY <1>15, <3>1 DEF eloop_unregister_read_sock, Change
  <2> QED
    BY <1>15, <2>1, <2>2 DEF eloop_unregister_read_sock
<1>16. ASSUME NEW sig \in Sigs, eloop_register_signal(sig) PROVE Types'
  BY <1>16 DEF eloop_register_signal, table, Change, InHandler
<1>17. CASE eloop_terminate
  BY <1>17 DEF eloop_terminate, table, Change, InHandler
<1>18. ASSUME NEW i \in DOMAIN signals, eloop_handle_signal(i) PROVE Types'
  <2>1. signals \in Seq(SignalEntry)
    BY DEF SignalEntry
  <2>2. signals' \in Seq(SignalEntry)
    <3>1. CASE moved
      BY <1>18, <2>1, <3>1 DEF eloop_handle_signal
    <3>2. CASE ~moved
      <4>1. signals' = Raised(signals, i)
        BY <1>18, <3>2 DEF eloop_handle_signal, Raised
      <4> QED
        BY <2>1, <4>1, FlagRaised
    <3> QED
      BY <3>1, <3>2
  <2>3. /\ alarm' \in BOOLEAN /\ signaled' \in BOOLEAN
        /\ UNCHANGED <<readers, changed, moved>>
    BY <1>18 DEF eloop_handle_signal
  <2>4. CASE pc.at = "select"
    BY <1>18, <2>2, <2>3, <2>4 DEF eloop_handle_signal, SignalEntry
  <2>5. CASE pc.at # "select"
    BY <1>18, <2>2, <2>3, <2>5 DEF eloop_handle_signal, SignalEntry
  <2> QED
    BY <2>4, <2>5
<1>19. ASSUME NEW s \in Socks, PacketArrives(s) PROVE Types'
  BY <1>19 DEF PacketArrives, table
<1>23. ASSUME NEW s \in Socks, CloseSock(s) PROVE Types'
  BY <1>23 DEF CloseSock, table, InHandler
<1>24. CASE RegisterSignalEnd
  BY <1>24 DEF RegisterSignalEnd, table
<1>20. CASE eloop_handle_alarm
  BY <1>20 DEF eloop_handle_alarm, table
<1>21. CASE Tick
  BY <1>21 DEF Tick, table
<1>22. CASE UNCHANGED vars
  BY <1>22 DEF vars, table, history
<1> QED
  BY <1>1, <1>2, <1>3, <1>4, <1>5, <1>6, <1>7, <1>8, <1>9, <1>10, <1>11, <1>12,
     <1>13, <1>14, <1>15, <1>16, <1>17, <1>18, <1>19, <1>20, <1>21, <1>22, <1>23, <1>24
     DEF Next, eloop_run, Client, Environment

\* A socket is registered once, so unregistering it leaves the others distinct.
LEMMA DistinctKept == IInv /\ [Next]_vars => Distinct'
<1> SUFFICES ASSUME IInv, [Next]_vars PROVE Distinct'
  OBVIOUS
<1> USE EloopAssumption DEF IInv, Types, At, Distinct
<1>1. CASE Top
  BY <1>1 DEF Top, table
<1>2. CASE Select
  BY <1>2 DEF Select, table
<1>3. CASE Pending
  BY <1>3 DEF Pending, table
<1>4. CASE Disarm
  BY <1>4 DEF Disarm, table
<1>5. CASE Scan
  BY <1>5 DEF Scan, table
<1>6. CASE ScanEnd
  BY <1>6 DEF ScanEnd, table
<1>7. CASE FireTimeout
  BY <1>7 DEF FireTimeout, table
<1>8. CASE StartReaders
  BY <1>8 DEF StartReaders, table
<1>9. CASE CallReader
  BY <1>9 DEF CallReader, table
<1>10. CASE EnterReader
  BY <1>10 DEF EnterReader, table
<1>11. CASE Return
  BY <1>11 DEF Return, table, InHandler
<1>12. ASSUME NEW h \in Handlers, eloop_cancel_timeout(h) PROVE Distinct'
  BY <1>12 DEF eloop_cancel_timeout, table, Change, InHandler
<1>13. ASSUME NEW h \in Handlers, NEW d \in Delays, RegisterTimeout(h, d)
     PROVE  Distinct'
  BY <1>13 DEF RegisterTimeout, table, InHandler
<1>14. ASSUME NEW s \in Socks, eloop_register_read_sock(s) PROVE Distinct'
  BY <1>14 DEF eloop_register_read_sock, table, Change, InHandler
<1>15. ASSUME NEW s \in Socks, eloop_unregister_read_sock(s) PROVE Distinct'
  <2>1. CASE UNCHANGED <<readers, changed>>
    BY <2>1
  <2>2. ASSUME NEW i \in DOMAIN readers,
               readers' = [j \in 1..(Len(readers) - 1) |->
                             readers[IF j < i THEN j ELSE j + 1]]
        PROVE  Distinct'
    <3>1. Len(readers) \in Nat /\ DOMAIN readers = 1..Len(readers)
      OBVIOUS
    <3>2. /\ DOMAIN readers' = 1..(Len(readers) - 1)
          /\ \A j \in DOMAIN readers' :
                /\ readers'[j] = readers[IF j < i THEN j ELSE j + 1]
                /\ (IF j < i THEN j ELSE j + 1) \in DOMAIN readers
      BY <2>2, OneRemoved
    <3> QED
      BY <3>1, <3>2
  <2> QED
    BY <1>15, <2>1, <2>2 DEF eloop_unregister_read_sock
<1>16. ASSUME NEW sig \in Sigs, eloop_register_signal(sig) PROVE Distinct'
  BY <1>16 DEF eloop_register_signal, table, Change, InHandler
<1>17. CASE eloop_terminate
  BY <1>17 DEF eloop_terminate, table, Change, InHandler
<1>18. ASSUME NEW i \in DOMAIN signals, eloop_handle_signal(i) PROVE Distinct'
  BY <1>18 DEF eloop_handle_signal, table
<1>19. ASSUME NEW s \in Socks, PacketArrives(s) PROVE Distinct'
  BY <1>19 DEF PacketArrives, table
<1>23. ASSUME NEW s \in Socks, CloseSock(s) PROVE Distinct'
  BY <1>23 DEF CloseSock, table, InHandler
<1>24. CASE RegisterSignalEnd
  BY <1>24 DEF RegisterSignalEnd, table
<1>20. CASE eloop_handle_alarm
  BY <1>20 DEF eloop_handle_alarm, table
<1>21. CASE Tick
  BY <1>21 DEF Tick, table
<1>22. CASE UNCHANGED vars
  BY <1>22 DEF vars, table, history
<1> QED
  BY <1>1, <1>2, <1>3, <1>4, <1>5, <1>6, <1>7, <1>8, <1>9, <1>10, <1>11, <1>12,
     <1>13, <1>14, <1>15, <1>16, <1>17, <1>18, <1>19, <1>20, <1>21, <1>22, <1>23, <1>24
     DEF Next, eloop_run, Client, Environment

\* A registration adds a signal that is not in the table, and a signal arrives
\* only once its handler is installed.
LEMMA InstalledKept == IInv /\ [Next]_vars => Installed'
<1> SUFFICES ASSUME IInv, [Next]_vars PROVE Installed'
  OBVIOUS
<1> USE DEF IInv, Types, Installed
<1>1. ASSUME UNCHANGED <<signals, arrived>> PROVE Installed'
  BY <1>1
<1>2. CASE Scan
  <2>1. CASE signals[pc.i].signaled
    <3>1. pc.i \in DOMAIN signals /\ signals \in Seq(SignalEntry)
      BY <1>2 DEF Scan, SignalEntry, Indexed
    <3>2. /\ DOMAIN signals' = DOMAIN signals
          /\ \A j \in DOMAIN signals : signals'[j].sig = signals[j].sig
      BY <1>2, <2>1, <3>1, ScanClears
    <3>3. arrived' \subseteq arrived
      BY <1>2, <2>1 DEF Scan
    <3> QED
      BY <3>2, <3>3
  <2>2. CASE ~signals[pc.i].signaled
    BY <1>1, <1>2, <2>2 DEF Scan
  <2> QED
    BY <2>1, <2>2
<1>3. ASSUME NEW sig \in Sigs, eloop_register_signal(sig) PROVE Installed'
  <2>1. /\ signals' = Append(signals, [sig |-> sig, signaled |-> FALSE])
        /\ \A i \in DOMAIN signals : signals[i].sig # sig
        /\ arrived' = arrived
    BY <1>3 DEF eloop_register_signal, Change, history
  <2>2. /\ DOMAIN signals' = DOMAIN signals \cup {Len(signals) + 1}
        /\ signals'[Len(signals) + 1].sig = sig
        /\ \A i \in DOMAIN signals : signals'[i] = signals[i]
    BY <2>1
  <2> QED
    BY <2>1, <2>2
<1>4. ASSUME NEW i \in DOMAIN signals, eloop_handle_signal(i) PROVE Installed'
  <2>1. arrived' = arrived \cup {signals[i].sig}
    BY <1>4 DEF eloop_handle_signal
  <2>2. /\ DOMAIN signals' = DOMAIN signals
        /\ \A j \in DOMAIN signals : signals'[j].sig = signals[j].sig
    <3>1. CASE moved
      BY <1>4, <3>1 DEF eloop_handle_signal
    <3>2. CASE ~moved
      <4>1. signals' = Raised(signals, i) /\ signals \in Seq(SignalEntry)
        BY <1>4, <3>2 DEF eloop_handle_signal, Raised, SignalEntry
      <4> QED
        BY <4>1, FlagRaised
    <3> QED
      BY <3>1, <3>2
  <2> QED
    BY <2>1, <2>2
<1> HIDE DEF IInv, Types, Installed
<1>5. CASE eloop_run
  BY <1>1, <1>2, <1>5
     DEF eloop_run, table, history, Top, Select, Pending, Disarm, ScanEnd,
         FireTimeout, StartReaders, CallReader, EnterReader, Return
<1>6. CASE Client
  <2>1. ASSUME NEW h \in Handlers, eloop_cancel_timeout(h) PROVE Installed'
    BY <1>1, <2>1 DEF eloop_cancel_timeout, Change, history
  <2>2. ASSUME NEW h \in Handlers, NEW d \in Delays, RegisterTimeout(h, d)
        PROVE  Installed'
    BY <1>1, <2>2 DEF RegisterTimeout, history
  <2>3. ASSUME NEW s \in Socks, \/ eloop_register_read_sock(s)
                                \/ eloop_unregister_read_sock(s) \/ CloseSock(s)
        PROVE  Installed'
    BY <1>1, <2>3 DEF eloop_register_read_sock, eloop_unregister_read_sock, CloseSock,
                      Change, history, table
  <2>4. CASE eloop_terminate \/ RegisterSignalEnd
    BY <1>1, <2>4 DEF eloop_terminate, RegisterSignalEnd, Change, history
  <2> QED
    BY <1>3, <1>6, <2>1, <2>2, <2>3, <2>4 DEF Client
<1>7. CASE Environment
  BY <1>1, <1>4, <1>7
     DEF Environment, PacketArrives, eloop_handle_alarm, Tick, table, history
<1>8. CASE UNCHANGED vars
  BY <1>1, <1>8 DEF vars, table, history
<1> QED
  BY <1>5, <1>6, <1>7, <1>8 DEF Next

\* A change of the table ends the loop over the sockets before the next call.
LEMMA FreshKept == IInv /\ [Next]_vars => Fresh'
<1> SUFFICES ASSUME IInv, [Next]_vars PROVE Fresh'
  OBVIOUS
<1> USE EloopAssumption DEF IInv, Types, At, Distinct, Fresh, ReadyFrom, Indexed, history
<1>1. CASE Top
  BY <1>1 DEF Top, table
<1>2. CASE Select
  <2>1. rfds' \subseteq ready /\ pc' = At("signals", 0) /\ ready' = ready
    BY <1>2 DEF Select, ReadyReaders
  <2> QED
    BY <2>1
<1>3. CASE Pending
  BY <1>3 DEF Pending, table
<1>4. CASE Disarm
  BY <1>4 DEF Disarm, table
<1>5. CASE Scan
  BY <1>5 DEF Scan, table
<1>6. CASE ScanEnd
  BY <1>6 DEF ScanEnd, table
<1>7. CASE FireTimeout
  BY <1>7 DEF FireTimeout, table
<1>8. CASE StartReaders
  BY <1>8 DEF StartReaders, table
<1>9. CASE CallReader
  <2>1. /\ readers' = readers /\ rfds' = rfds /\ ready' = ready /\ stale' = stale
        /\ pc.at = "read" /\ ReadyFrom(pc.i) /\ pc.i \in Nat
    BY <1>9 DEF CallReader, table
  <2>2. CASE pc.i > Len(readers)
    <3>1. pc'.at = "top"
      BY <1>9, <2>2 DEF CallReader
    <3> QED
      BY <3>1
  <2>3. CASE pc.i <= Len(readers) /\ readers[pc.i] \in rfds
    <3>1. pc' = pc'  /\ pc'.at = "call" /\ pc'.i = pc.i
      BY <1>9, <2>1, <2>3 DEF CallReader
    <3>2. pc.i \in DOMAIN readers
      BY <2>1, <2>3
    <3> QED
      BY <2>1, <2>3, <3>1, <3>2
  <2>4. CASE pc.i <= Len(readers) /\ readers[pc.i] \notin rfds
    <3>1. pc'.at = "read" /\ pc'.i = pc.i + 1
      BY <1>9, <2>1, <2>4 DEF CallReader
    <3> QED
      BY <2>1, <2>4, <3>1
  <2> QED
    BY <2>1, <2>2, <2>3, <2>4
<1>10. CASE EnterReader
  BY <1>10 DEF EnterReader, table
<1>11. CASE Return
  BY <1>11 DEF Return, table, InHandler
<1>12. ASSUME NEW h \in Handlers, eloop_cancel_timeout(h) PROVE Fresh'
  BY <1>12 DEF eloop_cancel_timeout, table, Change, InHandler
<1>13. ASSUME NEW h \in Handlers, NEW d \in Delays, RegisterTimeout(h, d) PROVE Fresh'
  BY <1>13 DEF RegisterTimeout, table, InHandler
<1>14. ASSUME NEW s \in Socks, eloop_register_read_sock(s) PROVE Fresh'
  BY <1>14 DEF eloop_register_read_sock, table, Change, InHandler
<1>15. ASSUME NEW s \in Socks, eloop_unregister_read_sock(s) PROVE Fresh'
  BY <1>15 DEF eloop_unregister_read_sock, table, Change, InHandler
<1>16. ASSUME NEW sig \in Sigs, eloop_register_signal(sig) PROVE Fresh'
  BY <1>16 DEF eloop_register_signal, table, Change, InHandler
<1>17. CASE eloop_terminate
  BY <1>17 DEF eloop_terminate, table, Change, InHandler
<1>18. ASSUME NEW i \in DOMAIN signals, eloop_handle_signal(i) PROVE Fresh'
  BY <1>18 DEF eloop_handle_signal, table
<1>19. ASSUME NEW s \in Socks, PacketArrives(s) PROVE Fresh'
  BY <1>19 DEF PacketArrives, table
<1>23. ASSUME NEW s \in Socks, CloseSock(s) PROVE Fresh'
  BY <1>23 DEF CloseSock, table, InHandler
<1>24. CASE RegisterSignalEnd
  BY <1>24 DEF RegisterSignalEnd, table
<1>20. CASE eloop_handle_alarm
  BY <1>20 DEF eloop_handle_alarm, table
<1>21. CASE Tick
  BY <1>21 DEF Tick, table
<1>22. CASE UNCHANGED vars
  BY <1>22 DEF vars, table, history
<1> QED
  BY <1>1, <1>2, <1>3, <1>4, <1>5, <1>6, <1>7, <1>8, <1>9, <1>10, <1>11, <1>12,
     <1>13, <1>14, <1>15, <1>16, <1>17, <1>18, <1>19, <1>20, <1>21, <1>22, <1>23, <1>24
     DEF Next, eloop_run, Client, Environment

\* A signal sets the common flag with its own, and the flag is cleared only at
\* the start of a loop over all signals.
LEMMA SignalSeenKept == IInv /\ [Next]_vars => SignalSeen'
<1> SUFFICES ASSUME IInv, [Next]_vars PROVE SignalSeen'
  OBVIOUS
<1> USE EloopAssumption DEF IInv, Types, At, SignalSeen, Indexed, history
<1>1. CASE Top
  BY <1>1 DEF Top, table
<1>2. CASE Select
  BY <1>2 DEF Select, table
<1>3. CASE Pending
  BY <1>3 DEF Pending, table
<1>4. CASE Disarm
  BY <1>4 DEF Disarm, table
<1>5. CASE Scan
  <2>1. /\ pc.at = "scan" /\ pc.i \in DOMAIN signals /\ pc.i \in Nat
        /\ signals \in Seq(SignalEntry) /\ signaled' = signaled /\ lost' = lost
    BY <1>5 DEF Scan, SignalEntry
  <2>2. CASE signals[pc.i].signaled
    <3>1. /\ DOMAIN signals' = DOMAIN signals
          /\ \A j \in DOMAIN signals \ {pc.i} :
                signals'[j].signaled = signals[j].signaled
          /\ \A j \in DOMAIN signals : signals'[j].sig = signals[j].sig
      BY <1>5, <2>1, <2>2, ScanClears
    <3>2. /\ pc'.at = "in_signal" /\ pc'.i = pc.i
          /\ arrived' = arrived \ {signals[pc.i].sig}
      BY <1>5, <2>2 DEF Scan
    <3> QED
      BY <2>1, <3>1, <3>2
  <2>3. CASE ~signals[pc.i].signaled
    <3>1. /\ pc'.at = "scan" /\ pc'.i = pc.i + 1 /\ signals' = signals
          /\ arrived' = arrived
      BY <1>5, <2>3 DEF Scan
    <3> QED
      BY <2>1, <2>3, <3>1
  <2> QED
    BY <2>2, <2>3
<1>6. CASE ScanEnd
  BY <1>6 DEF ScanEnd, table
<1>7. CASE FireTimeout
  BY <1>7 DEF FireTimeout, table
<1>8. CASE StartReaders
  BY <1>8 DEF StartReaders, table
<1>9. CASE CallReader
  BY <1>9 DEF CallReader, table
<1>10. CASE EnterReader
  BY <1>10 DEF EnterReader, table
<1>11. CASE Return
  <2>1. UNCHANGED <<signals, signaled, arrived, lost>>
    BY <1>11 DEF Return, table
  <2>2. CASE pc.at = "in_signal"
    <3>1. pc'.at = "scan" /\ pc'.i = pc.i + 1
      BY <1>11, <2>2 DEF Return
    <3> QED
      BY <2>1, <2>2, <3>1
  <2>3. CASE pc.at \in {"in_timeout", "in_reader"}
    BY <2>1, <2>3
  <2> QED
    BY <1>11, <2>2, <2>3 DEF Return, InHandler
<1>12. ASSUME NEW h \in Handlers, eloop_cancel_timeout(h) PROVE SignalSeen'
  BY <1>12 DEF eloop_cancel_timeout, table, Change, InHandler
<1>13. ASSUME NEW h \in Handlers, NEW d \in Delays, RegisterTimeout(h, d)
     PROVE  SignalSeen'
  BY <1>13 DEF RegisterTimeout, table, InHandler
<1>14. ASSUME NEW s \in Socks, eloop_register_read_sock(s) PROVE SignalSeen'
  BY <1>14 DEF eloop_register_read_sock, table, Change, InHandler
<1>15. ASSUME NEW s \in Socks, eloop_unregister_read_sock(s) PROVE SignalSeen'
  BY <1>15 DEF eloop_unregister_read_sock, table, Change, InHandler
<1>16. ASSUME NEW sig \in Sigs, eloop_register_signal(sig) PROVE SignalSeen'
  <2>1. /\ signals' = Append(signals, [sig |-> sig, signaled |-> FALSE])
        /\ \A i \in DOMAIN signals : signals[i].sig # sig
        /\ UNCHANGED <<signaled, pc, arrived, lost>>
    BY <1>16 DEF eloop_register_signal, Change
  <2>2. sig \notin arrived
    BY <2>1 DEF Installed
  <2>3. /\ DOMAIN signals' = DOMAIN signals \cup {Len(signals) + 1}
        /\ signals'[Len(signals) + 1].sig = sig
        /\ \A i \in DOMAIN signals : signals'[i] = signals[i]
    BY <2>1
  <2> QED
    BY <2>1, <2>2, <2>3
<1>17. CASE eloop_terminate
  BY <1>17 DEF eloop_terminate, table, Change, InHandler
<1>18. ASSUME NEW i \in DOMAIN signals, eloop_handle_signal(i) PROVE SignalSeen'
  <2>1. signaled' = TRUE /\ arrived' = arrived \cup {signals[i].sig}
    BY <1>18 DEF eloop_handle_signal
  <2>2. CASE moved
    <3>1. signals' = signals /\ lost' = lost \cup ({signals[i].sig} \ arrived)
      BY <1>18, <2>2 DEF eloop_handle_signal
    <3> QED
      BY <2>1, <3>1
  <2>3. CASE ~moved
    <3>1. signals' = Raised(signals, i) /\ lost' = lost \ {signals[i].sig}
      BY <1>18, <2>3 DEF eloop_handle_signal, Raised
    <3>2. signals \in Seq(SignalEntry)
      BY DEF SignalEntry
    <3>3. /\ DOMAIN signals' = DOMAIN signals /\ signals'[i].signaled
          /\ \A j \in DOMAIN signals \ {i} : signals'[j].signaled = signals[j].signaled
          /\ \A j \in DOMAIN signals : signals'[j].sig = signals[j].sig
      BY <3>1, <3>2, FlagRaised
    <3>4. \A j \in DOMAIN signals \ {i} : signals[j].sig # signals[i].sig
      BY DEF Installed
    <3> QED
      BY <2>1, <3>1, <3>3, <3>4
  <2> QED
    BY <2>2, <2>3
<1>19. ASSUME NEW s \in Socks, PacketArrives(s) PROVE SignalSeen'
  BY <1>19 DEF PacketArrives, table
<1>23. ASSUME NEW s \in Socks, CloseSock(s) PROVE SignalSeen'
  BY <1>23 DEF CloseSock, table, InHandler
<1>24. CASE RegisterSignalEnd
  BY <1>24 DEF RegisterSignalEnd, table
<1>20. CASE eloop_handle_alarm
  BY <1>20 DEF eloop_handle_alarm, table
<1>21. CASE Tick
  BY <1>21 DEF Tick, table
<1>22. CASE UNCHANGED vars
  BY <1>22 DEF vars, table, history
<1> QED
  BY <1>1, <1>2, <1>3, <1>4, <1>5, <1>6, <1>7, <1>8, <1>9, <1>10, <1>11, <1>12,
     <1>13, <1>14, <1>15, <1>16, <1>17, <1>18, <1>19, <1>20, <1>21, <1>22, <1>23, <1>24
     DEF Next, eloop_run, Client, Environment

\* The alarm is set with the common flag, whose processing clears it.
LEMMA AlarmCoveredKept == IInv /\ [Next]_vars => AlarmCovered'
<1> SUFFICES ASSUME IInv, [Next]_vars PROVE AlarmCovered'
  OBVIOUS
<1> USE EloopAssumption DEF IInv, Types, At, AlarmCovered
<1>1. CASE Top
  BY <1>1 DEF Top, table
<1>2. CASE Select
  BY <1>2 DEF Select, table
<1>3. CASE Pending
  BY <1>3 DEF Pending, table
<1>4. CASE Disarm
  BY <1>4 DEF Disarm, table
<1>5. CASE Scan
  BY <1>5 DEF Scan, table
<1>6. CASE ScanEnd
  BY <1>6 DEF ScanEnd, table
<1>7. CASE FireTimeout
  BY <1>7 DEF FireTimeout, table
<1>8. CASE StartReaders
  BY <1>8 DEF StartReaders, table
<1>9. CASE CallReader
  BY <1>9 DEF CallReader, table
<1>10. CASE EnterReader
  BY <1>10 DEF EnterReader, table
<1>11. CASE Return
  BY <1>11 DEF Return, table, InHandler
<1>12. ASSUME NEW h \in Handlers, eloop_cancel_timeout(h) PROVE AlarmCovered'
  BY <1>12 DEF eloop_cancel_timeout, table, Change, InHandler
<1>13. ASSUME NEW h \in Handlers, NEW d \in Delays, RegisterTimeout(h, d)
     PROVE  AlarmCovered'
  BY <1>13 DEF RegisterTimeout, table, InHandler
<1>14. ASSUME NEW s \in Socks, eloop_register_read_sock(s) PROVE AlarmCovered'
  BY <1>14 DEF eloop_register_read_sock, table, Change, InHandler
<1>15. ASSUME NEW s \in Socks, eloop_unregister_read_sock(s) PROVE AlarmCovered'
  BY <1>15 DEF eloop_unregister_read_sock, table, Change, InHandler
<1>16. ASSUME NEW sig \in Sigs, eloop_register_signal(sig) PROVE AlarmCovered'
  BY <1>16 DEF eloop_register_signal, table, Change, InHandler
<1>17. CASE eloop_terminate
  BY <1>17 DEF eloop_terminate, table, Change, InHandler
<1>18. ASSUME NEW i \in DOMAIN signals, eloop_handle_signal(i) PROVE AlarmCovered'
  BY <1>18 DEF eloop_handle_signal, table
<1>19. ASSUME NEW s \in Socks, PacketArrives(s) PROVE AlarmCovered'
  BY <1>19 DEF PacketArrives, table
<1>23. ASSUME NEW s \in Socks, CloseSock(s) PROVE AlarmCovered'
  BY <1>23 DEF CloseSock, table, InHandler
<1>24. CASE RegisterSignalEnd
  BY <1>24 DEF RegisterSignalEnd, table
<1>20. CASE eloop_handle_alarm
  BY <1>20 DEF eloop_handle_alarm, table
<1>21. CASE Tick
  BY <1>21 DEF Tick, table
<1>22. CASE UNCHANGED vars
  BY <1>22 DEF vars, table, history
<1> QED
  BY <1>1, <1>2, <1>3, <1>4, <1>5, <1>6, <1>7, <1>8, <1>9, <1>10, <1>11, <1>12,
     <1>13, <1>14, <1>15, <1>16, <1>17, <1>18, <1>19, <1>20, <1>21, <1>22, <1>23, <1>24
     DEF Next, eloop_run, Client, Environment

-----------------------------------------------------------------------------
(* The theorems.                                                            *)

\* The loop starts with what was registered before it, no signal and nothing
\* reported by select.
LEMMA InitIInv == Init => IInv
<1> SUFFICES ASSUME Init PROVE IInv
  OBVIOUS
<1>1. PICK start \in Starts :
         /\ readers = start.socks
         /\ signals = [i \in DOMAIN start.sigs |->
                         [sig |-> start.sigs[i], signaled |-> FALSE]]
  BY DEF Init
<1>2. readers \in Seq(Socks) /\ Distinct
  BY <1>1, EloopAssumption DEF EloopAssumption, Distinct
<1>3. DOMAIN start.sigs = 1..Len(start.sigs) /\ Len(start.sigs) \in Nat
      /\ start.sigs \in [1..Len(start.sigs) -> Sigs]
  BY EloopAssumption
<1>4. /\ DOMAIN signals = 1..Len(start.sigs)
      /\ signals \in [1..Len(start.sigs) -> SignalEntry]
      /\ \A i \in DOMAIN signals : signals[i].sig = start.sigs[i]
  BY <1>1, <1>3 DEF SignalEntry
<1>5. signals \in Seq(SignalEntry)
  BY <1>3, <1>4, SeqDef
<1>6. /\ changed = TRUE /\ moved = FALSE /\ signaled = FALSE /\ alarm = FALSE
      /\ pc.at = "top" /\ pc = At(pc.at, pc.i) /\ arrived = {}
  BY DEF Init, At
<1>7. Types
  BY <1>2, <1>5, <1>6 DEF Types, Places, Indexed, SignalEntry
<1>8. Installed
  BY <1>3, <1>4, <1>6, EloopAssumption DEF Installed
<1>9. Fresh /\ SignalSeen /\ AlarmCovered
  BY <1>6 DEF Fresh, SignalSeen, AlarmCovered
<1> QED
  BY <1>2, <1>7, <1>8, <1>9 DEF IInv

\* Every step of the loop, of a handler and of a signal keeps the invariant.
LEMMA NextIInv == IInv /\ [Next]_vars => IInv'
  BY TypesKept, DistinctKept, InstalledKept, FreshKept, SignalSeenKept,
     AlarmCoveredKept DEF IInv

\* The tables, the flags and the place of eloop_run stay consistent for every
\* set of sockets and signals and whatever handlers and signals do.
THEOREM Invariant == Spec => []IInv
  BY InitIInv, NextIInv, PTL DEF Spec

\* eloop_run calls the handler of a socket only when there is data to read, or
\* when the descriptor was closed and registered anew by a handler of a timeout
\* or a signal of the same turn; a handler of another socket cannot cause it.
THEOREM ReadsOnlyReady == Spec => []ReadOnlyReady
<1>1. IInv => ReadOnlyReady
  BY DEF IInv, Types, Indexed, Fresh, ReadyFrom, ReadOnlyReady
<1> QED
  BY <1>1, Invariant, PTL

\* eloop_process_pending_signals clears the common flag before it looks at the
\* signals, so one that arrives meanwhile is seen now or in the next turn; only
\* a signal that comes while eloop_register_signal moves the table is lost.
THEOREM SignalIsSeen == Spec => []SignalSeen
  BY Invariant, PTL DEF IInv

\* The alarm that eloop_handle_signal arms is never left on its own: as long as
\* it is armed the common flag is set, or it is about to be taken back.
THEOREM AlarmIsCovered == Spec => []AlarmCovered
  BY Invariant, PTL DEF IInv
=============================================================================
