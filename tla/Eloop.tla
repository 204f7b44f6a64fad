------------------------------- MODULE Eloop -------------------------------
(***************************************************************************)
(* The event loop eloop.c under a client that calls it in every way its     *)
(* interface allows: handlers of timeouts, sockets and signals register and *)
(* cancel timeouts, register and unregister sockets, close them, register   *)
(* signals and terminate the loop.  A socket is its descriptor: once closed, *)
(* its number names the next socket that is opened.  Signals arrive between *)
(* any two steps; their system handler only sets flags, which               *)
(* eloop_process_pending_signals looks at after select.                     *)
(***************************************************************************)
EXTENDS TimeoutList, FiniteSets

CONSTANTS
    Socks, Handlers, Delays,    \* sockets, handlers and delays of timeouts
    Sigs, TermSigs,             \* signals; those that ask for termination
    Starts,                     \* sockets and signals registered before eloop_run
    MaxTimers,                  \* timeouts of a handler pending at a time
    Changes,                    \* changes handlers make to the other tables
    Arrivals                    \* signals that arrive

ASSUME EloopAssumption ==
    /\ Handlers # {}                   \* main registers a timeout
    /\ \A start \in Starts :
          /\ start.socks \in Seq(Socks) /\ start.sigs \in Seq(Sigs)
          /\ \A i, j \in DOMAIN start.socks : start.socks[i] = start.socks[j] => i = j
          /\ \A i, j \in DOMAIN start.sigs : start.sigs[i] = start.sigs[j] => i = j
    /\ Delays \subseteq Nat /\ TermSigs \subseteq Sigs
    /\ MaxTimers \in Nat /\ Changes \in Nat /\ Arrivals \in Nat

VARIABLES
    timers,     \* eloop.timeout: [h, rem]
    readers,    \* eloop.readers: sockets
    changed,    \* eloop.reader_table_changed
    signals,    \* eloop.signals: [sig, signaled]
    moved,      \* a registration has moved the table of signals, and
                \* eloop.signals still points to the memory it has freed
    signaled,   \* eloop.signaled > 0
    alarm,      \* eloop.pending_terminate; the alarm is set with it
    terminate,  \* eloop.terminate
    pc,         \* where eloop_run is, with its index i
    rfds,       \* what select returned
    ready,      \* sockets with data to read
    stale,      \* of rfds, those a handler closed before the loop over sockets
    arrived,    \* signals that arrived and whose handler has not been called
    lost,       \* of them, those no flag of the table stands for
    left        \* changes and arrivals that are left

table   == <<timers, readers, changed, signals, moved, terminate>>
history == <<stale, arrived, lost>>
vars    == <<table, signaled, alarm, pc, rfds, ready, history, left>>

At(where, i) == [at |-> where, i |-> i]

\* The handlers that run for a timeout, a signal and a socket.
InHandler == pc.at \in {"in_timeout", "in_signal", "in_reader"} /\ ~moved

Over == pc.at \in {"ended", "killed"}

-----------------------------------------------------------------------------
(* The interface, called from handlers.                                     *)

Change == /\ InHandler /\ left.changes > 0
          /\ left' = [left EXCEPT !.changes = @ - 1]
          /\ UNCHANGED <<signaled, alarm, pc, rfds, ready, history>>

RegisterTimeout(h, d) ==
    /\ InHandler /\ Cardinality({i \in DOMAIN timers : timers[i].h = h}) < MaxTimers
    /\ timers' = eloop_register_timeout(timers, [h |-> h, rem |-> d])
    /\ UNCHANGED <<readers, changed, signals, moved, terminate, signaled, alarm, pc,
                   rfds, ready, history, left>>

\* Every timeout with the handler goes, the others keep their order.
eloop_cancel_timeout(h) ==
    /\ Change
    /\ timers' = SelectSeq(timers, LAMBDA t : t.h # h)
    /\ UNCHANGED <<readers, changed, signals, moved, terminate>>

\* A client registers a socket once.
eloop_register_read_sock(s) ==
    /\ Change /\ \A i \in DOMAIN readers : readers[i] # s
    /\ readers' = Append(readers, s) /\ changed' = TRUE
    /\ UNCHANGED <<timers, signals, moved, terminate>>

\* The first entry of the table with the socket goes, those behind it move up.
eloop_unregister_read_sock(s) ==
    /\ Change
    /\ \/ \E i \in DOMAIN readers :
             /\ readers[i] = s /\ \A j \in 1..(i - 1) : readers[j] # s
             /\ readers' = [j \in 1..(Len(readers) - 1) |->
                              readers[IF j < i THEN j ELSE j + 1]]
             /\ changed' = TRUE
       \/ /\ \A i \in DOMAIN readers : readers[i] # s
          /\ UNCHANGED <<readers, changed>>
    /\ UNCHANGED <<timers, signals, moved, terminate>>

\* The owner of a socket that is not registered any more closes it.  What
\* select said of its descriptor is not about the next socket with that number.
CloseSock(s) ==
    /\ InHandler /\ s \in ready /\ \A i \in DOMAIN readers : readers[i] # s
    /\ ready' = ready \ {s}
    /\ stale' = IF pc.at = "in_reader" THEN stale ELSE stale \cup ({s} \cap rfds)
    /\ UNCHANGED <<table, signaled, alarm, pc, rfds, arrived, lost, left>>

\* realloc has extended the table where it is, or copied it and freed the old
\* one.  The system handler of the new signal is installed last.
eloop_register_signal(sig) ==
    /\ Change /\ \A i \in DOMAIN signals : signals[i].sig # sig
    /\ signals' = Append(signals, [sig |-> sig, signaled |-> FALSE])
    /\ moved' \in BOOLEAN
    /\ UNCHANGED <<timers, readers, changed, terminate>>

\* eloop.signals = tmp.
RegisterSignalEnd ==
    /\ moved /\ moved' = FALSE /\ pc.at # "killed"
    /\ UNCHANGED <<timers, readers, changed, signals, terminate, signaled, alarm, pc,
                   rfds, ready, history, left>>

eloop_terminate ==
    /\ Change /\ terminate' = TRUE
    /\ UNCHANGED <<timers, readers, changed, signals, moved>>

-----------------------------------------------------------------------------
(* eloop_run.                                                               *)

Continues == ~terminate /\ (timers # <<>> \/ readers # <<>>)

\* FD_ZERO forgets what select said in the turn before.
Top ==
    /\ pc.at = "top"
    /\ pc' = IF Continues THEN At("select", 0) ELSE At("ended", 0)
    /\ rfds' = {} /\ stale' = {}
    /\ UNCHANGED <<table, signaled, alarm, ready, arrived, lost, left>>

ReadyReaders == {readers[i] : i \in DOMAIN readers} \cap ready

\* Mutant: the signals are looked at only when one of them interrupted select.
Select_interrupted ==
    /\ pc.at = "select"
    /\ ReadyReaders # {} \/ HeadDue(timers)
    /\ rfds' = ReadyReaders
    /\ pc' = At("timeout", 0)
    /\ UNCHANGED <<table, signaled, alarm, ready, history, left>>

\* select returns when a socket is ready or the first timeout is due.
Select ==
    /\ pc.at = "select"
    /\ ReadyReaders # {} \/ HeadDue(timers)
    /\ rfds' = ReadyReaders
    /\ pc' = At("signals", 0)
    /\ UNCHANGED <<table, signaled, alarm, ready, history, left>>

\* Mutant: the alarm is left on.
Pending_armed ==
    /\ pc.at = "signals"
    /\ signaled' = FALSE
    /\ pc' = IF signaled THEN At("scan", 1) ELSE At("timeout", 0)
    /\ UNCHANGED <<table, alarm, rfds, ready, history, left>>

\* eloop_process_pending_signals: the common flag, the alarm, then the loop.
Pending ==
    /\ pc.at = "signals"
    /\ signaled' = FALSE
    /\ pc' = IF signaled THEN At("disarm", 0) ELSE At("timeout", 0)
    /\ UNCHANGED <<table, alarm, rfds, ready, history, left>>

Disarm ==
    /\ pc.at = "disarm"
    /\ alarm' = FALSE
    /\ pc' = At("scan", 1)
    /\ UNCHANGED <<table, signaled, rfds, ready, history, left>>

\* Mutant: the common flag is cleared after the loop instead of before it.
ScanEnd_clears ==
    /\ pc.at = "scan" /\ pc.i > Len(signals)
    /\ signaled' = FALSE
    /\ pc' = At("timeout", 0)
    /\ UNCHANGED <<table, alarm, rfds, ready, history, left>>

ScanEnd ==
    /\ pc.at = "scan" /\ pc.i > Len(signals)
    /\ pc' = At("timeout", 0)
    /\ UNCHANGED <<table, signaled, alarm, rfds, ready, history, left>>

Scan ==
    /\ pc.at = "scan" /\ pc.i <= Len(signals)
    /\ IF signals[pc.i].signaled
       THEN /\ signals' = [signals EXCEPT ![pc.i].signaled = FALSE]
            /\ arrived' = arrived \ {signals[pc.i].sig}
            /\ pc' = At("in_signal", pc.i)
       ELSE pc' = At("scan", pc.i + 1) /\ UNCHANGED <<signals, arrived>>
    /\ UNCHANGED <<timers, readers, changed, moved, terminate, signaled, alarm, rfds,
                   ready, stale, lost, left>>

\* At most one timeout runs per turn of the loop.
FireTimeout ==
    /\ pc.at = "timeout"
    /\ IF HeadDue(timers)
       THEN timers' = Tail(timers) /\ pc' = At("in_timeout", Head(timers).h)
       ELSE UNCHANGED timers /\ pc' = At("readers", 0)
    /\ UNCHANGED <<readers, changed, signals, moved, terminate, signaled, alarm, rfds,
                   ready, history, left>>

\* With nothing to read the turn is over.
StartReaders ==
    /\ pc.at = "readers"
    /\ IF rfds = {} THEN pc' = At("top", 0) /\ UNCHANGED changed
       ELSE pc' = At("read", 1) /\ changed' = FALSE
    /\ UNCHANGED <<timers, readers, signals, moved, terminate, signaled, alarm, rfds,
                   ready, history, left>>

\* The next socket of the table that select reported; its handler takes the
\* data.
CallReader ==
    /\ pc.at = "read"
    /\ IF pc.i > Len(readers) THEN pc' = At("top", 0)
       ELSE pc' = At(IF readers[pc.i] \in rfds THEN "call" ELSE "read",
                     IF readers[pc.i] \in rfds THEN pc.i ELSE pc.i + 1)
    /\ UNCHANGED <<table, signaled, alarm, rfds, ready, history, left>>

EnterReader ==
    /\ pc.at = "call"
    /\ ready' = ready \ {readers[pc.i]}
    /\ pc' = At("in_reader", pc.i)
    /\ UNCHANGED <<table, signaled, alarm, rfds, history, left>>

\* Mutants: the loop goes on after a change of the table; a turn that ran a
\* timeout is over.
Return_nobreak ==
    /\ InHandler
    /\ pc' = CASE pc.at = "in_signal"  -> At("scan", pc.i + 1)
               [] pc.at = "in_timeout" -> At("readers", 0)
               [] pc.at = "in_reader"  -> At("read", pc.i + 1)
    /\ UNCHANGED <<table, signaled, alarm, rfds, ready, history, left>>
Return_continue ==
    /\ InHandler
    /\ pc' = CASE pc.at = "in_signal"  -> At("scan", pc.i + 1)
               [] pc.at = "in_timeout" -> At("top", 0)
               [] pc.at = "in_reader"  -> IF changed THEN At("top", 0)
                                          ELSE At("read", pc.i + 1)
    /\ UNCHANGED <<table, signaled, alarm, rfds, ready, history, left>>

\* Once a handler has changed the table, the rest waits for the next turn.
Return ==
    /\ InHandler
    /\ pc' = CASE pc.at = "in_signal"  -> At("scan", pc.i + 1)
               [] pc.at = "in_timeout" -> At("readers", 0)
               [] pc.at = "in_reader"  -> IF changed THEN At("top", 0)
                                          ELSE At("read", pc.i + 1)
    /\ UNCHANGED <<table, signaled, alarm, rfds, ready, history, left>>

-----------------------------------------------------------------------------
(* The environment.                                                         *)

\* The system handler of a signal that is installed; it interrupts select.
\* Until eloop.signals points to the moved table its mark goes to freed memory.
eloop_handle_signal(i) ==
    /\ ~Over /\ left.arrivals > 0
    /\ moved => i # Len(signals)
    /\ left' = [left EXCEPT !.arrivals = @ - 1]
    /\ alarm' = (alarm \/ signals[i].sig \in TermSigs)
    /\ signaled' = TRUE
    /\ arrived' = arrived \cup {signals[i].sig}
    /\ IF moved
       THEN /\ UNCHANGED signals
            /\ lost' = lost \cup ({signals[i].sig} \ arrived)
       ELSE /\ signals' = [signals EXCEPT ![i].signaled = TRUE]
            /\ lost' = lost \ {signals[i].sig}
    /\ pc' = IF pc.at = "select" THEN At("signals", 0) ELSE pc
    /\ UNCHANGED <<timers, readers, changed, moved, terminate, rfds, ready, stale>>

PacketArrives(s) ==
    /\ ~Over /\ s \notin ready /\ \E i \in DOMAIN readers : readers[i] = s
    /\ ready' = ready \cup {s}
    /\ UNCHANGED <<table, signaled, alarm, pc, rfds, history, left>>

\* The alarm of a signal that was not looked at in time ends the process.
eloop_handle_alarm ==
    /\ alarm /\ ~Over
    /\ pc' = At("killed", 0)
    /\ UNCHANGED <<table, signaled, alarm, rfds, ready, history, left>>

Tick ==
    /\ ~Over /\ \E i \in DOMAIN timers : timers[i].rem > 0
    /\ timers' = Elapse(timers)
    /\ UNCHANGED <<readers, changed, signals, moved, terminate, signaled, alarm, pc,
                   rfds, ready, history, left>>

-----------------------------------------------------------------------------

\* eloop_init, and what is registered before eloop_run: a timeout and sockets,
\* as main does, and signals.
Init ==
    /\ \E d \in Delays : timers = <<[h |-> CHOOSE h \in Handlers : TRUE, rem |-> d]>>
    /\ \E start \in Starts :
          /\ readers = start.socks
          /\ signals = [i \in DOMAIN start.sigs |->
                          [sig |-> start.sigs[i], signaled |-> FALSE]]
    /\ changed = TRUE /\ moved = FALSE /\ signaled = FALSE /\ alarm = FALSE
    /\ terminate = FALSE /\ pc = At("top", 0) /\ rfds = {} /\ ready = {}
    /\ stale = {} /\ arrived = {} /\ lost = {}
    /\ left = [changes |-> Changes, arrivals |-> Arrivals]

eloop_run == \/ Top \/ Select \/ Pending \/ Disarm \/ Scan \/ ScanEnd \/ FireTimeout
             \/ StartReaders \/ CallReader \/ EnterReader \/ Return

Client == \/ \E h \in Handlers : \/ eloop_cancel_timeout(h)
                                 \/ \E d \in Delays : RegisterTimeout(h, d)
          \/ \E s \in Socks : \/ eloop_register_read_sock(s)
                              \/ eloop_unregister_read_sock(s)
                              \/ CloseSock(s)
          \/ \E sig \in Sigs : eloop_register_signal(sig)
          \/ RegisterSignalEnd
          \/ eloop_terminate

Environment == \/ \E i \in DOMAIN signals : eloop_handle_signal(i)
               \/ \E s \in Socks : PacketArrives(s)
               \/ eloop_handle_alarm
               \/ Tick

Next == eloop_run \/ Client \/ Environment

Spec == Init /\ [][Next]_vars

\* The thread runs on, through a registration too, and time passes.
FairSpec == Spec /\ WF_vars(eloop_run \/ RegisterSignalEnd) /\ WF_vars(Tick)

-----------------------------------------------------------------------------
(* Properties.                                                              *)

\* A handler of a socket is called only when there is something to read, unless
\* a handler of a timeout or a signal has, in the same turn, closed a socket that
\* select reported and registered a new one with its number.  Whatever the
\* handlers of sockets close and register, the loop over the sockets never acts
\* on an outdated answer of select.
ReadOnlyReady == pc.at = "call" => readers[pc.i] \in ready \cup stale

\* A signal that arrived is never forgotten, unless it came while a registration
\* was moving the table: its flag stays set until its handler is called, and till
\* then either the common flag is set, so the next turn looks at the signals, or
\* the loop over the signals that is under way still comes to it.
SignalSeen ==
    \A i \in DOMAIN signals :
        signals[i].sig \in arrived \ lost =>
            /\ signals[i].signaled
            /\ \/ signaled
               \/ pc.at \in {"disarm", "killed"}
               \/ pc.at = "scan" /\ pc.i <= i
               \/ pc.at = "in_signal" /\ pc.i < i

\* An armed alarm is always accompanied by the common flag, or is being disarmed:
\* the next look at the signals takes it back, so the program is killed only when
\* a turn takes too long, never after the signal was processed.
AlarmCovered == alarm => signaled \/ pc.at \in {"disarm", "killed"}

\* A timeout that is due is run: neither sockets that are always ready nor
\* timeouts registered later keep it waiting.
DueRuns ==
    \A h \in Handlers :
        (\E i \in DOMAIN timers : timers[i].h = h /\ timers[i].rem = 0)
          ~> \/ pc = At("in_timeout", h) \/ Over
             \/ \A i \in DOMAIN timers : timers[i].h # h

\* A signal that comes between the look at the flags and select does not
\* interrupt it; the handler of a marked signal still runs, at the latest after
\* the next timeout.  Only a loop without timeouts may sleep on it.
SignalHandled ==
    (\E i \in DOMAIN signals : signals[i].signaled)
        ~> \/ \A i \in DOMAIN signals : ~signals[i].signaled
           \/ Over \/ timers = <<>>

\* A registered socket with data is read in the end, whatever timeouts are due and
\* whatever else has data, once handlers no longer change the table of sockets
\* (they do so at most Changes times; each change ends the loop over the sockets
\* before its end, and a first socket that is always ready and whose handler
\* changes the table in every call would keep the later ones waiting).
ReadyRead ==
    \A s \in Socks : (s \in ready) ~> \/ s \notin ready \/ Over
                                      \/ \A i \in DOMAIN readers : readers[i] # s
=============================================================================
