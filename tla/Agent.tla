------------------------------- MODULE Agent -------------------------------
(***************************************************************************)
(* The agent: its two connections to the broker (mqrecv receives remote     *)
(* commands, mqupld uploads events), the state machine that connects them   *)
(* again, the deferred publishes, the control socket and the exit.          *)
(*                                                                          *)
(* Everything runs on one thread under eloop_run; pc says which handler is  *)
(* running and how far it is.  The clock, the network and the signals       *)
(* SIGINT and SIGTERM, whose handler runs on top of whatever is running,    *)
(* move between its steps.  An MQTT client is reduced to its socket, its    *)
(* error and its mutex (module MqttClient has the rest).                    *)
(***************************************************************************)
EXTENDS TimeoutList, FiniteSets

CONSTANTS
    SynT,           \* MQTT_SYN_T in ticks
    SmT,            \* SM_CHECK_T in ticks
    StartT,         \* the delay of the first chk_agstatm in ticks
    Budgets         \* what the environment may do, one of these: rc remote
                    \* commands of the broker, cmd datagrams for the control
                    \* socket, full publishes that find the send buffer full,
                    \* signal signals for the process

ASSUME AgentAssumption ==
    /\ SynT \in Nat \ {0} /\ SmT \in Nat /\ SynT < SmT /\ StartT \in Nat
    /\ Budgets \subseteq [rc : Nat, cmd : Nat, full : Nat, signal : Nat]

VARIABLES
    conn,       \* conn[c]: a struct mqconn, see ConnInit
    mutex,      \* mutex[c]: mqclt.mutex, "held" by the code that runs, or "cut":
                \* held by code that a signal interrupted for good
    timers,     \* eloop.timeout
    eloop,      \* "up", or "destroyed" after eloop_destroy
    agstatus,   \* "isOk" or "isReboot"
    tinfo,      \* whether agent.tinfo is set
    pc,         \* the handler that is running
    left,       \* what the environment may still send
    hist        \* history for the properties, see Init

vars == <<conn, mutex, timers, eloop, agstatus, tinfo, pc, left, hist>>

Conns == {"mqrecv", "mqupld"}
Rcs   == {"reboot", "imhere", "unknown", "none", "notstring", "toolong"}
Cmds  == {"stop", "sendtest", "other"}

\* bio: biofd is not NULL.  sock: what mqclt.socketfd points to.  error:
\* mqclt.error, "zero" before the first mqtt_init.
ConnInit == [bio |-> FALSE, sock |-> "none", status |-> 0, error |-> "zero"]

At(where, c) == [at |-> where, c |-> c]
InLoop == pc.at = "loop"
ToLoop == pc' = At("loop", "none")
Crash  == pc' = At("crashed", "none")
Stopped == pc.at \in {"crashed", "hung", "exited"}
Running == ~Stopped /\ pc.at \notin {"exit_link", "closing", "leaving"}

Timeout(h, c, n, rem) == [h |-> h, c |-> c, n |-> n, rem |-> rem]

\* Every call of eloop_register_timeout is recorded when the loop is gone.
Register(list, h, c, n, rem) == eloop_register_timeout(list, Timeout(h, c, n, rem))
Used == hist' = [hist EXCEPT !.late = @ \/ eloop = "destroyed"]

-----------------------------------------------------------------------------
(* The mutex of a client: a normal one, which its own thread waits for too.  *)

Unlock(c) == mutex' = [mutex EXCEPT ![c] = "free"]

\* MQTT_PAL_MUTEX_LOCK before the code at pc where.
Lock(c, where) ==
    \/ /\ mutex[c] = "free"
       /\ mutex' = [mutex EXCEPT ![c] = "held"]
       /\ pc' = At(where, c)
    \/ /\ mutex[c] # "free"
       /\ pc' = At("hung", c)
       /\ UNCHANGED mutex

-----------------------------------------------------------------------------
(* Closing a connection.                                                    *)

\* Mutant: the status is left alone.
Closed_keepstatus(k) == [k EXCEPT !.bio = FALSE,
                                  !.sock = IF k.bio THEN "freed" ELSE @]

\* Mutant: the status counts down.
Closed_counts(k) == [k EXCEPT !.bio = FALSE, !.status = @ - 1,
                              !.sock = IF k.bio THEN "freed" ELSE @]

\* close_conn once the client reports an error: mqtt_disconnect fails at once,
\* three times, and the BIO is freed.  The client keeps its pointer to it.
Closed(k) == [k EXCEPT !.bio = FALSE, !.status = 0,
                       !.sock = IF k.bio THEN "freed" ELSE @]

-----------------------------------------------------------------------------
(* Remote commands: admlink_msg_handle and admlink_process_rc, called by    *)
(* publish_callback inside mqtt_sync, with the client's mutex held.         *)

\* set_mqtt_publish_nexsync: the publish is left to a timeout.
Defer(list, c, n) == Register(list, "eloop_set_publish", c, n, SynT)

\* Mutant: the answer is published at once.
admlink_process_rc_direct(rc) ==
    /\ Lock("mqrecv", "publishing")
    /\ UNCHANGED <<timers, agstatus, hist>>

\* The answer on mqrecv is deferred; the command is run; except for a reboot
\* the event for mqupld is formatted with tinfo and deferred too.  A message
\* without an rc_id does nothing.  An rc_id that is not a string has no
\* valuestring to compare; one that is too long overruns resbuf before anything
\* is deferred, which may end the process or not.  After eloop_destroy the list
\* of timeouts is freed memory, and walking it may end the process.
admlink_process_rc(rc) ==
    LET n    == hist.asked
        ack  == Defer(timers, "mqrecv", n + 1)
        late == eloop = "destroyed"
        told == [hist EXCEPT !.late = @ \/ late,
                             !.malformed = @ \/ rc \in {"notstring", "toolong"}] IN
    \/ /\ rc = "none"
       /\ UNCHANGED <<timers, agstatus, hist, pc>>
    \/ /\ rc = "reboot"
       /\ agstatus' = "isReboot"
       /\ timers' = ack
       /\ hist' = [told EXCEPT !.asked = n + 1, !.reboot = TRUE]
       /\ UNCHANGED pc
    \/ /\ rc \in {"imhere", "unknown", "toolong"} /\ tinfo
       /\ timers' = Defer(ack, "mqupld", n + 2)
       /\ hist' = [told EXCEPT !.asked = n + 2]
       /\ UNCHANGED <<agstatus, pc>>
    \/ /\ \/ rc = "notstring"                                     \* strcmp(NULL)
          \/ rc \in {"imhere", "unknown", "toolong"} /\ ~tinfo    \* strftime(NULL)
       /\ Crash
       /\ timers' = ack
       /\ hist' = [told EXCEPT !.asked = n + 1]
       /\ UNCHANGED agstatus
    \/ /\ rc = "toolong" \/ (rc # "none" /\ late /\ timers # <<>>)
       /\ Crash
       /\ hist' = told
       /\ UNCHANGED <<timers, agstatus>>

\* A message is unpacked in __mqtt_recv, on a live mqrecv and with its mutex held.
publish_callback(rc) ==
    /\ \/ pc = At("receiving", "mqrecv")
       \/ pc = At("leaving", "mqrecv")
    /\ conn["mqrecv"].sock = "live" /\ conn["mqrecv"].error = "OK"
    /\ left.rc > 0
    /\ left' = [left EXCEPT !.rc = @ - 1]
    /\ admlink_process_rc(rc)
    /\ UNCHANGED <<conn, mutex, eloop, tinfo>>

-----------------------------------------------------------------------------
(* Handlers of timeouts.                                                    *)

\* eloop_run takes the first timeout off the list and calls its handler.
Fires(h) == /\ InLoop /\ HeadDue(timers) /\ Head(timers).h = h

TrafficStart ==
    /\ Fires("ag_handle_clttraffic")
    /\ timers' = Tail(timers)
    /\ pc' = At("traffic", Head(timers).c)
    /\ UNCHANGED <<conn, mutex, eloop, agstatus, tinfo, left, hist>>

\* mqtt_sync holds the mutex while it receives and while it sends: it is called
\* by ag_handle_clttraffic, for the first time on a new connection, and by
\* close_conn when mqtt_disconnect has queued its packet.
mqtt_sync ==
    /\ \/ pc.at = "traffic" /\ Lock(pc.c, "receiving")
       \/ pc.at = "connected" /\ Lock(pc.c, "syncing")
       \/ /\ pc.at = "closing" /\ conn[pc.c].bio /\ conn[pc.c].error = "OK"
          /\ Lock(pc.c, "leaving")
    /\ UNCHANGED <<conn, timers, eloop, agstatus, tinfo, left, hist>>

\* Mutant: the handler does not register itself again.
TrafficOk_once ==
    /\ pc.at = "receiving" /\ conn[pc.c].error # "ERR"
    /\ Unlock(pc.c)
    /\ UNCHANGED timers
    /\ Used /\ ToLoop
    /\ UNCHANGED <<conn, eloop, agstatus, tinfo, left>>

\* mqtt_sync returned MQTT_OK: come back after MQTT_SYN_T.
TrafficOk ==
    /\ pc.at = "receiving" /\ conn[pc.c].error # "ERR"
    /\ Unlock(pc.c)
    /\ timers' = Register(timers, "ag_handle_clttraffic", pc.c, 0, SynT)
    /\ Used /\ ToLoop
    /\ UNCHANGED <<conn, eloop, agstatus, tinfo, left>>

\* Mutant: a client that lost its connection is cleared.
TrafficError_clears ==
    /\ pc.at = "receiving"
    /\ Unlock(pc.c)
    /\ conn' = [conn EXCEPT ![pc.c] = [Closed(@) EXCEPT !.error = "zero"]]
    /\ ToLoop
    /\ UNCHANGED <<timers, eloop, agstatus, tinfo, left, hist>>

\* mqtt_sync failed (network, protocol, or a socket that was freed).
TrafficError ==
    /\ pc.at = "receiving"
    /\ Unlock(pc.c)
    /\ conn' = [conn EXCEPT ![pc.c] = [Closed(@) EXCEPT !.error = "ERR"]]
    /\ ToLoop
    /\ UNCHANGED <<timers, eloop, agstatus, tinfo, left, hist>>

\* Reading from a BIO that was freed may also end the process.
TrafficFreed ==
    /\ pc.at = "receiving" /\ conn[pc.c].sock # "live"
    /\ Crash
    /\ UNCHANGED <<conn, mutex, timers, eloop, agstatus, tinfo, left, hist>>

\* eloop_set_publish calls mqtt_publish, which takes the mutex.
PublishStart ==
    /\ Fires("eloop_set_publish")
    /\ timers' = Tail(timers)
    /\ Lock(Head(timers).c, "publishing")
    /\ hist' = [hist EXCEPT !.done = Head(timers).n]
    /\ UNCHANGED <<conn, eloop, agstatus, tinfo, left>>

\* The rest of it, by the state of the client that it publishes on.
eloop_set_publish ==
    /\ pc.at = "publishing"
    /\ LET c == pc.c
           k == conn[c] IN
       \/ /\ k.error = "zero"             \* the queue has no memory
          /\ Crash
          /\ UNCHANGED <<conn, mutex, left, hist>>
       \/ /\ k.error = "OK"
          /\ Unlock(c) /\ ToLoop
          /\ UNCHANGED <<conn, left, hist>>
       \/ /\ k.error = "OK" /\ left.full > 0
          /\ left' = [left EXCEPT !.full = @ - 1]
          /\ hist' = [hist EXCEPT !.full = TRUE]
          /\ conn' = [conn EXCEPT ![c] = [Closed(k) EXCEPT !.error = "FULL"]]
          /\ Unlock(c) /\ ToLoop
       \/ /\ k.error \in {"ERR", "FULL"}
          /\ conn' = [conn EXCEPT ![c] = Closed(k)]
          /\ Unlock(c) /\ ToLoop
          /\ UNCHANGED <<left, hist>>
    /\ UNCHANGED <<timers, eloop, agstatus, tinfo>>

eloop_set_exit ==
    /\ Fires("eloop_set_exit")
    /\ timers' = Tail(timers)
    /\ pc' = At("exit_link", "none")
    /\ UNCHANGED <<conn, mutex, eloop, agstatus, tinfo, left, hist>>

-----------------------------------------------------------------------------
(* The state machine chk_agstatm.                                           *)

StatmStart ==
    /\ Fires("chk_agstatm")
    /\ timers' = Tail(timers)
    /\ pc' = At("check", "mqrecv")
    /\ UNCHANGED <<conn, mutex, eloop, agstatus, tinfo, left, hist>>

\* check_mqrecv and then check_mqupld returned 1, or one of them returned 0.
Checked == pc' = IF pc.c = "mqrecv" THEN At("check", "mqupld")
                 ELSE At("check_agstatus", "none")
NotReady == pc' = At("register", "none")

CheckConnected ==
    /\ pc.at = "check" /\ conn[pc.c].status = 1
    /\ Checked
    /\ UNCHANGED <<conn, mutex, timers, eloop, agstatus, tinfo, left, hist>>

\* open_nb_socket: the key and the certificates are loaded and a BIO is made.
OpenBio ==
    /\ pc.at = "check" /\ conn[pc.c].status = 0
    /\ conn' = [conn EXCEPT ![pc.c].bio = TRUE]
    /\ pc' = At("dialing", pc.c)
    /\ UNCHANGED <<mutex, timers, eloop, agstatus, tinfo, left, hist>>

\* A file of the key or of a certificate cannot be loaded.
CredentialsFail ==
    /\ pc.at = "check" /\ conn[pc.c].status = 0
    /\ pc' = At("exit_link", "none")
    /\ UNCHANGED <<conn, mutex, timers, eloop, agstatus, tinfo, left, hist>>

\* No connection after ten seconds: the BIO is freed, *bio is NULL.
DialFails ==
    /\ pc.at = "dialing"
    /\ conn' = [conn EXCEPT ![pc.c].bio = FALSE]
    /\ NotReady
    /\ UNCHANGED <<mutex, timers, eloop, agstatus, tinfo, left, hist>>

\* The certificate of the broker is refused: exit_link with the new BIO open.
DialUnverified ==
    /\ pc.at = "dialing"
    /\ pc' = At("exit_link", "none")
    /\ UNCHANGED <<conn, mutex, timers, eloop, agstatus, tinfo, left, hist>>

\* mqtt_init: the client starts again on the new BIO, with a new mutex that it
\* holds until mqtt_connect releases it.
DialOk ==
    /\ pc.at = "dialing"
    /\ conn' = [conn EXCEPT ![pc.c].sock = "live", ![pc.c].error = "OK"]
    /\ mutex' = [mutex EXCEPT ![pc.c] = "held"]
    /\ pc' = At("connecting", pc.c)
    /\ UNCHANGED <<timers, eloop, agstatus, tinfo, left, hist>>

mqtt_connect ==
    /\ pc.at = "connecting"
    /\ Unlock(pc.c)
    /\ pc' = At("connected", pc.c)
    /\ UNCHANGED <<conn, timers, eloop, agstatus, tinfo, left, hist>>

\* The first mqtt_sync failed: the BIO is left open and the next attempt
\* replaces it.
ConnectFails ==
    /\ pc.at = "syncing"
    /\ conn' = [conn EXCEPT ![pc.c].error = "ERR"]
    /\ Unlock(pc.c)
    /\ NotReady
    /\ UNCHANGED <<timers, eloop, agstatus, tinfo, left, hist>>

\* It worked (and mqrecv subscribed): the traffic of the connection starts.
ConnectOk ==
    /\ pc.at = "syncing"
    /\ conn' = [conn EXCEPT ![pc.c].status = 1]
    /\ Unlock(pc.c)
    /\ timers' = Register(timers, "ag_handle_clttraffic", pc.c, 0, SynT)
    /\ hist' = [hist EXCEPT !.late = @ \/ eloop = "destroyed", !.up = @ \cup {pc.c}]
    /\ Checked
    /\ UNCHANGED <<eloop, agstatus, tinfo, left>>

\* agstatus is never isErr, so the exit in check_agstatus is not reached.
check_agstatus ==
    /\ pc.at = "check_agstatus"
    /\ tinfo' = TRUE /\ agstatus' = "isOk"
    /\ pc' = At("register", "none")
    /\ UNCHANGED <<conn, mutex, timers, eloop, left, hist>>

\* Mutant: the state machine goes on only when both connections are up.
StatmEnd_whenok ==
    /\ pc.at = "register"
    /\ timers' = IF \A c \in Conns : conn[c].status = 1
                 THEN Register(timers, "chk_agstatm", "none", 0, SmT) ELSE timers
    /\ Used /\ ToLoop
    /\ UNCHANGED <<conn, mutex, eloop, agstatus, tinfo, left>>

\* Whatever happened, the state machine runs again after SM_CHECK_T.
StatmEnd ==
    /\ pc.at = "register"
    /\ timers' = Register(timers, "chk_agstatm", "none", 0, SmT)
    /\ Used /\ ToLoop
    /\ UNCHANGED <<conn, mutex, eloop, agstatus, tinfo, left>>

-----------------------------------------------------------------------------
(* The control socket: admlink_ctrl_iface_receive and admlink_cmd_handle.   *)

\* While a reboot is pending a command is answered OK and dropped.
admlink_ctrl_iface_receive(cmd) ==
    /\ InLoop /\ left.cmd > 0
    /\ left' = [left EXCEPT !.cmd = @ - 1]
    /\ \/ /\ agstatus = "isReboot"
          /\ UNCHANGED <<timers, tinfo, hist>>
       \/ /\ agstatus # "isReboot"
          /\ tinfo' = TRUE
          /\ \/ /\ cmd = "stop"
                /\ timers' = Register(timers, "eloop_set_exit", "none", 0, SynT)
                /\ hist' = [hist EXCEPT !.stop = TRUE]
             \/ /\ cmd = "sendtest"
                /\ timers' = Defer(timers, "mqupld", hist.asked + 1)
                /\ hist' = [hist EXCEPT !.asked = @ + 1]
             \/ /\ cmd = "other"
                /\ UNCHANGED <<timers, hist>>
    /\ UNCHANGED <<conn, mutex, eloop, agstatus, pc>>

-----------------------------------------------------------------------------
(* exit_link.                                                               *)

\* The control socket and the event loop go first, then mqrecv, then mqupld.
exit_link ==
    /\ pc.at = "exit_link"
    /\ eloop' = "destroyed"
    /\ pc' = At("closing", "mqrecv")
    /\ UNCHANGED <<conn, mutex, timers, agstatus, tinfo, left, hist>>

\* Mutant: the attempts to disconnect are not limited.
close_conn_forever ==
    /\ \/ pc.at = "leaving" /\ Unlock(pc.c)
       \/ pc.at = "closing" /\ ~conn[pc.c].bio /\ UNCHANGED mutex
    /\ conn' = [conn EXCEPT ![pc.c] = Closed(@)]
    /\ pc' = IF pc.c = "mqrecv" THEN At("closing", "mqupld") ELSE At("exited", "none")
    /\ UNCHANGED <<timers, eloop, agstatus, tinfo, left, hist>>

\* close_conn during the exit.  mqtt_disconnect takes the mutex: it fails for a
\* client with an error or a full buffer, three times, or is followed by
\* mqtt_sync, which may receive (publish_callback) before it ends.
close_conn ==
    /\ \/ pc.at = "leaving" /\ Unlock(pc.c)
       \/ /\ pc.at = "closing"
          /\ conn[pc.c].bio => mutex[pc.c] = "free"
          /\ UNCHANGED mutex
    /\ conn' = [conn EXCEPT ![pc.c] = Closed(@)]
    /\ pc' = IF pc.c = "mqrecv" THEN At("closing", "mqupld") ELSE At("exited", "none")
    /\ UNCHANGED <<timers, eloop, agstatus, tinfo, left, hist>>

\* mqtt_disconnect waits for a mutex that the code below it on the stack holds.
close_conn_waits ==
    /\ pc.at = "closing" /\ conn[pc.c].bio /\ mutex[pc.c] # "free"
    /\ pc' = At("hung", pc.c)
    /\ UNCHANGED <<conn, mutex, timers, eloop, agstatus, tinfo, left, hist>>

\* handle_stop runs exit_link on top of the interrupted code, which never goes
\* on: a mutex that it holds is not released any more.  A second eloop_destroy
\* frees the same memory again.
handle_stop ==
    /\ ~Stopped /\ left.signal > 0
    /\ left' = [left EXCEPT !.signal = @ - 1]
    /\ \/ /\ pc' = At("exit_link", "none")
          /\ mutex' = [c \in Conns |-> IF mutex[c] = "held" THEN "cut" ELSE mutex[c]]
       \/ eloop = "destroyed" /\ Crash /\ UNCHANGED mutex
    /\ UNCHANGED <<conn, timers, eloop, agstatus, tinfo, hist>>

\* Time passes while a handler runs or eloop_run waits.
Tick ==
    /\ ~Stopped /\ eloop = "up"
    /\ \E i \in DOMAIN timers : timers[i].rem > 0
    /\ timers' = Elapse(timers)
    /\ UNCHANGED <<conn, mutex, eloop, agstatus, tinfo, pc, left, hist>>

-----------------------------------------------------------------------------

Init ==
    /\ conn = [c \in Conns |-> ConnInit]
    /\ mutex = [c \in Conns |-> "free"]
    /\ timers = <<Timeout("chk_agstatm", "none", 0, StartT)>>
    /\ eloop = "up" /\ agstatus = "isOk" /\ tinfo = FALSE
    /\ pc = At("loop", "none")
    /\ left \in Budgets
    /\ hist = [asked |-> 0,             \* publishes deferred
               done |-> 0,              \* the last one tried
               up |-> {},               \* connections that were up once
               late |-> FALSE,          \* a timeout registered after eloop_destroy
               stop |-> FALSE,          \* a stop command was accepted
               reboot |-> FALSE,        \* a remote reboot was accepted
               full |-> FALSE,          \* a publish met a full send buffer
               malformed |-> FALSE]     \* an rc_id was no string or too long

Statm == \/ StatmStart \/ CheckConnected \/ OpenBio \/ CredentialsFail
         \/ DialFails \/ DialUnverified \/ DialOk \/ mqtt_connect
         \/ ConnectFails \/ ConnectOk
         \/ check_agstatus \/ StatmEnd

Thread == \/ TrafficStart \/ mqtt_sync \/ TrafficOk \/ TrafficError \/ TrafficFreed
          \/ PublishStart \/ eloop_set_publish \/ eloop_set_exit
          \/ Statm
          \/ exit_link \/ close_conn \/ close_conn_waits

Next == \/ Thread
        \/ \E rc \in Rcs : publish_callback(rc)
        \/ \E cmd \in Cmds : admlink_ctrl_iface_receive(cmd)
        \/ handle_stop
        \/ Tick

Spec == Init /\ [][Next]_vars

\* The thread and the clock go on.  A broker that is asked again and again
\* accepts a connection again and again.
FairSpec ==
    /\ Spec
    /\ WF_vars(Thread) /\ WF_vars(Tick)
    /\ \A c \in Conns : /\ SF_vars(pc.c = c /\ DialOk)
                        /\ SF_vars(pc.c = c /\ ConnectOk)

-----------------------------------------------------------------------------
(* Properties.                                                              *)

Handlers == {"chk_agstatm", "ag_handle_clttraffic", "eloop_set_publish",
             "eloop_set_exit"}

\* The fields of the connections, the timeouts and the control point have the
\* values the code gives them (struct mqconn, struct agent, struct eloop_timeout);
\* the list of timeouts is sorted, so its head is always the next one due.
TypeOK ==
    /\ conn \in [Conns -> [bio : BOOLEAN, sock : {"none", "live", "freed"},
                          status : {0, 1}, error : {"zero", "OK", "ERR", "FULL"}]]
    /\ \A i \in DOMAIN timers :
         timers[i] \in [h : Handlers, c : Conns \cup {"none"},
                       n : 0..hist.asked, rem : 0..(SmT + StartT)]
    /\ \A i, j \in DOMAIN timers : i < j => timers[i].rem <= timers[j].rem
    /\ eloop \in {"up", "destroyed"} /\ agstatus \in {"isOk", "isReboot"}
    /\ tinfo \in BOOLEAN
    /\ mutex \in [Conns -> {"free", "held", "cut"}]
    /\ pc \in [at : {"loop", "traffic", "receiving", "publishing", "check", "dialing",
                     "connecting", "connected", "syncing", "register",
                     "check_agstatus", "exit_link", "closing", "leaving", "exited",
                     "crashed", "hung"},
               c : Conns \cup {"none"}]

Pending(h) == {i \in DOMAIN timers : timers[i].h = h}
Chains(c) == {i \in Pending("ag_handle_clttraffic") : timers[i].c = c}

\* As long as the agent runs, the state machine has exactly one next run: it is
\* pending, or it is under way and has not registered itself again.  No path
\* through check_mqrecv and check_mqupld loses it or starts it twice.
SmAlive ==
    Running => Cardinality(Pending("chk_agstatm")) =
                 IF pc.at \in {"check", "dialing", "connecting", "connected", "syncing",
                               "register", "check_agstatus"} THEN 0 ELSE 1

\* A connection with status 1 is served: ag_handle_clttraffic is pending or
\* running for it.  Until a publish meets a full send buffer there is exactly
\* one such chain per connection, and none when the status is 0.
ConnServed ==
    Running => \A c \in Conns :
        LET n == Cardinality(Chains(c))
                   + (IF pc.at \in {"traffic", "receiving"} /\ pc.c = c THEN 1 ELSE 0) IN
        /\ conn[c].status = 1 => n >= 1
        /\ ~hist.full => n = conn[c].status

\* Status 1 means a live BIO that the client also uses, and a client without an
\* error: nothing but close_conn gives up a connection that was made.
StatusMeansSocket ==
    \A c \in Conns : conn[c].status = 1 =>
        conn[c].bio /\ conn[c].sock = "live" /\ conn[c].error = "OK"

\* Deferred publishes are tried in the order in which they were asked for, on
\* whichever connection: the answer to a remote command before its event, one
\* command before the next.
PublishOrder ==
    LET n(i) == timers[i].n IN
    \A i \in Pending("eloop_set_publish") :
        /\ hist.done < n(i)
        /\ \A j \in Pending("eloop_set_publish") : i < j => n(i) < n(j)

\* Once both connections have been up, and until a publish meets a full buffer
\* or a command with a malformed rc_id comes, only an exit under way may end in
\* a crash: by then the missing time of admlink_process_rc, the client of
\* eloop_set_publish without memory and the freed BIO of ag_handle_clttraffic are
\* out of reach.
SafeOnceUp ==
    (/\ pc.at = "crashed" /\ hist.up = Conns
     /\ ~hist.full /\ ~hist.malformed) => eloop = "destroyed"

\* The thread waits for ever for the mutex of a client only during an exit that
\* a signal began on top of code that held this mutex.  No handler called inside
\* mqtt_sync calls back into the client, no path out of a call keeps the mutex
\* for the next one, and a signal at any other time costs nothing.
NoSelfDeadlock ==
    pc.at = "hung" => mutex[pc.c] = "cut" /\ eloop = "destroyed"

\* A stop command that was accepted ends the process, whatever the handlers and
\* the connections do meanwhile, unless a signal cut off a call of the client.
StopHonoured ==
    hist.stop ~> (pc.at \in {"exited", "crashed"} \/ \E c \in Conns : mutex[c] = "cut")

\* A connection that is down comes up again, unless the agent ends.
Reconnects ==
    \A c \in Conns : (conn[c].status = 0) ~> (conn[c].status = 1 \/ ~Running)

-----------------------------------------------------------------------------
(* What documentation and comments say and the code does not do.            *)

\* eloop.h on eloop_destroy: no eloop function is called after it.
NoEloopAfterDestroy == ~hist.late

\* admlink_ctrl_iface_receive: commands are processed only if the system is not
\* going to reboot.  After a remote reboot was accepted no control command
\* changes anything.
RebootHoldsCommands ==
    [][hist.reboot /\ left'.cmd < left.cmd => UNCHANGED <<timers, tinfo>>]_vars
=============================================================================
