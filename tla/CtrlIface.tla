----------------------------- MODULE CtrlIface -----------------------------
(***************************************************************************)
(* The control interface: the socket file through which admlink-ctrl talks  *)
(* to the agent, from the start of an agent to its exit or crash, and the   *)
(* request of a client with its timeout.                                    *)
(*                                                                          *)
(* Several agents may be started, at the same time or one after another;    *)
(* all of them use the one path CTRL_INTERFACE/CTRL_INTERFACE_IF.  Clients  *)
(* are named by their process identifiers, which the kernel gives out again *)
(* once a process is gone.  Both programs are sequential; pc and at say     *)
(* which system call comes next.  The kernel's side of the sockets (Bound,  *)
(* Shut, Deliver) is external.                                              *)
(***************************************************************************)
EXTENDS Naturals, Sequences, FiniteSets

CONSTANTS
    Agents,         \* agent processes
    Pids,           \* process identifiers of clients
    MaxStarts,      \* agents started
    MaxFaults,      \* crashes of agents, and failing mkdir or socket
    MaxSignals,     \* SIGINT or SIGTERM, or an exit_link for another reason
    MaxLaunches,    \* clients started
    MaxKills,       \* clients killed
    MaxCtr          \* counter of admlink_ctrl_open, saturated

ASSUME CtrlAssumption ==
    /\ "none" \notin Agents /\ "dead" \notin Agents
    /\ MaxStarts \in Nat /\ MaxFaults \in Nat /\ MaxSignals \in Nat
    /\ MaxLaunches \in Nat /\ MaxKills \in Nat /\ MaxCtr \in Nat \ {0}

VARIABLES
    dir,        \* whether the directory CTRL_INTERFACE exists
    file,       \* what the path names: "none", a socket that was closed
                \* ("dead"), or the socket of an agent
    agent,      \* agent[a]: pc, ctrl_sock ("zero", "none", "open"), whether
                \* eloop_set_exit is registered, and its queue of datagrams
    client,     \* client[p]: the process with this identifier, see NoClient
    local,      \* local[p]: the numbers n for which the file
                \* /var/admlink_ctrl_p-n exists
    left,       \* what the environment may still do
    hist        \* history for the properties, see Init

vars == <<dir, file, agent, client, local, left, hist>>

\* The commands a request can carry: only stop changes the interface itself.
Cmds == {"stop", "other"}

NoAgent == [pc |-> "off", sock |-> "zero", stop |-> FALSE, inbox |-> <<>>]

\* at: the next system call.  cmd: the command, or "interactive".  ifname:
\* ctrl_ifname is set.  n: counter of the current local name.  peer: what the
\* socket is connected to.  inbox: answers that arrived.  gen: which process
\* with this identifier it is.
NoClient == [at |-> "none", cmd |-> "none", ifname |-> FALSE, n |-> 0,
             peer |-> "none", inbox |-> <<>>, gen |-> 0]

Alive(a) == agent[a].pc # "off"
Up(a)    == agent[a].pc = "run"

-----------------------------------------------------------------------------
(* The kernel's sockets.                                                    *)

\* close of the socket of agent a: its queue is dropped, its file stays.
Shut(f, a) == IF f = a THEN "dead" ELSE f
Cut(clients, a) ==
    [p \in Pids |-> IF clients[p].peer = a THEN [clients[p] EXCEPT !.peer = "dead"]
                    ELSE clients[p]]

\* The process p has a socket bound to its local name n.
Bound(p, n) == /\ client[p].at \in {"connect", "send", "wait", "close"}
               /\ client[p].n = n /\ n \in local[p]

\* sendto from agent a: it reaches the process that has the name now, unless
\* its socket is connected to someone else.  Errors are ignored by the caller.
Deliver(a, to, answer) ==
    IF Bound(to.p, to.n) /\ client[to.p].peer \in {a, "none"}
    THEN [client EXCEPT ![to.p].inbox = Append(@, answer)]
    ELSE client

-----------------------------------------------------------------------------
(* The start of an agent: main and admlink_ctrl_iface_init.                 *)

Step(a, where) == agent' = [agent EXCEPT ![a].pc = where]

\* The process ends; the kernel closes its socket.
Ends(a) == agent' = [agent EXCEPT ![a] = NoAgent]

\* main up to the call of init: interfaces.admcd is set and ctrl_sock is still
\* the zero of memset.
Start(a) ==
    /\ ~Alive(a) /\ left.start > 0
    /\ left' = [left EXCEPT !.start = @ - 1]
    /\ Step(a, "mkdir")
    /\ hist' = [hist EXCEPT !.overlap = @ \/ \E b \in Agents : Alive(b)]
    /\ UNCHANGED <<dir, file, client, local>>

\* An existing directory is used as it is.
Mkdir(a) ==
    /\ agent[a].pc = "mkdir"
    /\ dir' = TRUE
    /\ agent' = [agent EXCEPT ![a].pc = "bind", ![a].sock = "none"]
    /\ UNCHANGED <<file, client, local, left, hist>>

\* mkdir fails for another reason, or socket does: fname is still NULL.
NoSocket(a) ==
    /\ agent[a].pc = "mkdir" /\ left.fault > 0
    /\ left' = [left EXCEPT !.fault = @ - 1]
    /\ Ends(a)
    /\ hist' = [hist EXCEPT !.failed = TRUE]
    /\ UNCHANGED <<dir, file, client, local>>

\* Mutant: a file that is in the way is replaced.
Bind_replace(a) ==
    /\ agent[a].pc = "bind" /\ dir
    /\ file' = a
    /\ Step(a, "chmod")
    /\ hist' = [hist EXCEPT !.fails = 0]
    /\ UNCHANGED <<dir, client, local, left>>

\* bind makes the file, and fails when there is one.
Bind(a) ==
    /\ agent[a].pc = "bind" /\ dir /\ file = "none"
    /\ file' = a
    /\ Step(a, "chmod")
    /\ hist' = [hist EXCEPT !.fails = 0]
    /\ UNCHANGED <<dir, client, local, left>>

\* chmod by name, ctrl_sock is set, the socket is registered and eloop_run
\* begins.
Chmod(a) ==
    /\ agent[a].pc = "chmod" /\ file # "none"
    /\ agent' = [agent EXCEPT ![a].pc = "run", ![a].sock = "open"]
    /\ UNCHANGED <<dir, file, client, local, left, hist>>

\* Mutant: a file that is in the way stays.
InitFail_keep(a) ==
    /\ \/ agent[a].pc = "bind" /\ (~dir \/ file # "none")
       \/ agent[a].pc = "chmod" /\ file = "none"
    /\ UNCHANGED file
    /\ client' = Cut(client, a)
    /\ Ends(a)
    /\ hist' = [hist EXCEPT !.failed = TRUE,
                            !.fails = IF @ = 2 THEN 2 ELSE @ + 1]
    /\ UNCHANGED <<dir, local, left>>

\* bind finds a file in the way or no directory, or chmod finds no file: the
\* socket is closed and the path is unlinked, whoever it belongs to.  main
\* returns; deinit finds ctrl_sock = -1.
InitFail(a) ==
    /\ \/ agent[a].pc = "bind" /\ (~dir \/ file # "none")
       \/ agent[a].pc = "chmod" /\ file = "none"
    /\ file' = "none"
    /\ client' = Cut(client, a)
    /\ Ends(a)
    /\ hist' = [hist EXCEPT !.failed = TRUE,
                            !.fails = IF @ = 2 THEN 2 ELSE @ + 1]
    /\ UNCHANGED <<dir, local, left>>

-----------------------------------------------------------------------------
(* The end of an agent: exit_link and admlink_ctrl_iface_deinit.            *)

\* deinit up to close: ctrl_sock > -1 also holds for the zero it has before
\* admlink_ctrl_iface_init ran, and descriptor 0 is closed instead.
Deinit(a) ==
    /\ agent' = [agent EXCEPT ![a] = [NoAgent EXCEPT !.pc = "unlink", !.sock = "none"]]
    /\ file' = Shut(file, a)
    /\ client' = Cut(client, a)

\* The process ends without the rest of deinit.
Abandon(a) ==
    /\ Ends(a)
    /\ file' = Shut(file, a)
    /\ client' = Cut(client, a)

\* The timeout of a stop command fires.
eloop_set_exit(a) ==
    /\ Up(a) /\ agent[a].stop
    /\ Deinit(a)
    /\ UNCHANGED <<dir, local, left, hist>>

\* handle_stop, or exit_link from open_nb_socket.  With ctrl_sock = -1 deinit
\* does nothing: between bind and the assignment the file is left behind, and
\* a signal during an exit ends the process where the exit stood.
handle_stop(a) ==
    /\ Alive(a) /\ left.signal > 0
    /\ left' = [left EXCEPT !.signal = @ - 1]
    /\ \/ agent[a].sock # "none" /\ Deinit(a)
       \/ agent[a].sock = "none" /\ Abandon(a)
    /\ hist' = [hist EXCEPT !.failed = @ \/ agent[a].pc \in {"mkdir", "bind", "chmod"},
                            !.rude = @ \/ agent[a].pc # "run"]
    /\ UNCHANGED <<dir, local>>

Crash(a) ==
    /\ Alive(a) /\ left.fault > 0
    /\ left' = [left EXCEPT !.fault = @ - 1]
    /\ Abandon(a)
    /\ hist' = [hist EXCEPT !.failed = @ \/ agent[a].pc \in {"mkdir", "bind", "chmod"},
                            !.rude = TRUE]
    /\ UNCHANGED <<dir, local>>

\* Mutant: the file is left.
Unlink_forgets(a) ==
    /\ agent[a].pc = "unlink"
    /\ UNCHANGED file
    /\ Step(a, "rmdir")
    /\ UNCHANGED <<dir, client, local, left, hist>>

\* The path is unlinked, whoever it belongs to by now.
Unlink(a) ==
    /\ agent[a].pc = "unlink"
    /\ file' = "none"
    /\ Step(a, "rmdir")
    /\ UNCHANGED <<dir, client, local, left, hist>>

\* rmdir fails when the directory is not empty; then the process exits.
Rmdir(a) ==
    /\ agent[a].pc = "rmdir"
    /\ dir' = (dir /\ file # "none")
    /\ Ends(a)
    /\ UNCHANGED <<file, client, local, left, hist>>

-----------------------------------------------------------------------------
(* Commands: admlink_ctrl_iface_receive.                                    *)

\* The handler of the socket takes one datagram, runs the command unless
\* agstatus says that a reboot is pending, and answers the sender in any case.
\* Module Agent has agstatus and the commands; the answer is reduced to the
\* request it belongs to.
Receive(a, pending) ==
    /\ Up(a) /\ agent[a].inbox # <<>>
    /\ LET m == Head(agent[a].inbox) IN
       /\ agent' = [agent EXCEPT ![a].inbox = Tail(@),
                                 ![a].stop = @ \/ (m.cmd = "stop" /\ ~pending)]
       /\ client' = Deliver(a, [p |-> m.p, n |-> m.n], m.gen)
    /\ UNCHANGED <<dir, file, local, left, hist>>

-----------------------------------------------------------------------------
(* admlink-ctrl: main, admlink_ctrl_open, _request and _close.              *)

Gone(p) == [NoClient EXCEPT !.gen = client[p].gen]

\* Mutant: the same local name is tried again.
OpenFailed_samename(p) ==
    IF client[p].cmd = "interactive"
    THEN [NoClient EXCEPT !.gen = client[p].gen, !.at = "open", !.cmd = client[p].cmd,
                          !.ifname = TRUE, !.n = client[p].n]
    ELSE Gone(p)

\* admlink_ctrl_open returned NULL: without a command the client sleeps and
\* tries again with the next local name, with one it returns -1.
OpenFailed(p) ==
    IF client[p].cmd = "interactive"
    THEN [NoClient EXCEPT !.gen = client[p].gen, !.at = "open", !.cmd = client[p].cmd,
                          !.ifname = TRUE,
                          !.n = IF client[p].n = MaxCtr THEN MaxCtr ELSE client[p].n + 1]
    ELSE Gone(p)

\* A process starts, with or without the option -i.
Launch(p, cmd, ifname) ==
    /\ client[p].at = "none" /\ left.launch > 0
    /\ left' = [left EXCEPT !.launch = @ - 1]
    /\ client' = [client EXCEPT ![p] = [NoClient EXCEPT !.at = "open", !.cmd = cmd,
                                           !.ifname = ifname, !.gen = client[p].gen + 1]]
    /\ UNCHANGED <<dir, file, agent, local, hist>>

\* The directory has an entry, or one was seen before.
HasName(p) == client[p].ifname \/ file # "none"

\* Without a name nothing is opened; an interactive client looks again after a
\* second, which changes nothing.
NoInterface(p) ==
    /\ client[p].at = "open" /\ ~HasName(p) /\ client[p].cmd # "interactive"
    /\ client' = [client EXCEPT ![p] = Gone(p)]
    /\ UNCHANGED <<dir, file, agent, local, left, hist>>

\* Mutant: a file in the way is unlinked first.
BindLocal_unlinks(p) ==
    /\ client[p].at = "open" /\ HasName(p)
    /\ local' = [local EXCEPT ![p] = @ \cup {client[p].n}]
    /\ client' = [client EXCEPT ![p].at = "connect", ![p].ifname = TRUE]
    /\ UNCHANGED <<dir, file, agent, left, hist>>

\* bind to the local name.  A file that a killed process with this identifier
\* left is in the way (names beyond MaxCtr are taken to be free).
BindLocal(p) ==
    /\ client[p].at = "open" /\ HasName(p)
    /\ client[p].n \notin local[p] \/ client[p].n = MaxCtr
    /\ local' = [local EXCEPT ![p] = @ \cup {client[p].n}]
    /\ client' = [client EXCEPT ![p].at = "connect", ![p].ifname = TRUE]
    /\ UNCHANGED <<dir, file, agent, left, hist>>

BindLocalFails(p) ==
    /\ client[p].at = "open" /\ HasName(p)
    /\ client[p].n \in local[p] /\ client[p].n # MaxCtr
    /\ client' = [client EXCEPT ![p] = OpenFailed(p)]
    /\ UNCHANGED <<dir, file, agent, local, left, hist>>

Connect(p) ==
    /\ client[p].at = "connect" /\ file \in Agents
    /\ client' = [client EXCEPT ![p].peer = file,
                    ![p].at = IF client[p].cmd = "interactive" THEN "close" ELSE "send"]
    /\ UNCHANGED <<dir, file, agent, local, left, hist>>

\* No file, or a file nobody listens on: close and unlink the local name.
ConnectFails(p) ==
    /\ client[p].at = "connect" /\ file \notin Agents
    /\ client' = [client EXCEPT ![p] = OpenFailed(p)]
    /\ local' = [local EXCEPT ![p] = @ \ {client[p].n}]
    /\ UNCHANGED <<dir, file, agent, left, hist>>

\* send, to an agent that still has its socket or to one that has closed it.
Send(p) ==
    /\ client[p].at = "send"
    /\ LET c == client[p] IN
       \/ /\ c.peer \in Agents
          /\ agent' = [agent EXCEPT ![c.peer].inbox =
                          Append(@, [p |-> p, n |-> c.n, gen |-> c.gen, cmd |-> c.cmd])]
          /\ client' = [client EXCEPT ![p].at = "wait"]
       \/ /\ c.peer = "dead"
          /\ client' = [client EXCEPT ![p].at = "close"]
          /\ UNCHANGED agent
    /\ UNCHANGED <<dir, file, local, left, hist>>

\* select reports the socket and recv takes the first answer.
Recv(p) ==
    /\ client[p].at = "wait" /\ client[p].inbox # <<>>
    /\ client' = [client EXCEPT ![p].at = "close", ![p].inbox = Tail(@)]
    /\ hist' = [hist EXCEPT !.wrong = IF Head(client[p].inbox) = client[p].gen THEN @
                                      ELSE @ \cup {p}]
    /\ UNCHANGED <<dir, file, agent, local, left>>

\* Nothing for 42 seconds: admlink_ctrl_request returns -2.
Timeout(p) ==
    /\ client[p].at = "wait" /\ client[p].inbox = <<>>
    /\ client' = [client EXCEPT ![p].at = "close"]
    /\ hist' = [hist EXCEPT !.gaveup = @ \cup {p}]
    /\ UNCHANGED <<dir, file, agent, local, left>>

\* admlink_ctrl_close, and the process returns.
Close(p) ==
    /\ client[p].at = "close"
    /\ local' = [local EXCEPT ![p] = @ \ {client[p].n}]
    /\ client' = [client EXCEPT ![p] = Gone(p)]
    /\ UNCHANGED <<dir, file, agent, left, hist>>

\* The process is killed; its local file stays.
Kill(p) ==
    /\ client[p].at # "none" /\ left.kill > 0
    /\ left' = [left EXCEPT !.kill = @ - 1]
    /\ client' = [client EXCEPT ![p] = Gone(p)]
    /\ hist' = [hist EXCEPT !.killed = @ \cup {p}]
    /\ UNCHANGED <<dir, file, agent, local>>

-----------------------------------------------------------------------------

Init ==
    /\ dir = FALSE /\ file = "none"
    /\ agent = [a \in Agents |-> NoAgent]
    /\ client = [p \in Pids |-> NoClient]
    /\ local = [p \in Pids |-> {}]
    /\ left = [start |-> MaxStarts, fault |-> MaxFaults, signal |-> MaxSignals,
               launch |-> MaxLaunches, kill |-> MaxKills]
    /\ hist = [overlap |-> FALSE,   \* an agent was started next to another one
               failed |-> FALSE,    \* a start did not reach eloop_run
               fails |-> 0,         \* starts that failed in a row, at most 2
               rude |-> FALSE,      \* a crash, or a signal outside eloop_run
               gaveup |-> {},       \* clients that timed out
               wrong |-> {},        \* clients that took another one's answer
               killed |-> {}]       \* clients that were killed

AgentStep(a) ==
    \/ Mkdir(a) \/ Bind(a) \/ Chmod(a) \/ InitFail(a)
    \/ eloop_set_exit(a) \/ Unlink(a) \/ Rmdir(a)
    \/ \E pending \in BOOLEAN : Receive(a, pending)

ClientStep(p) ==
    \/ NoInterface(p) \/ BindLocal(p) \/ BindLocalFails(p)
    \/ Connect(p) \/ ConnectFails(p)
    \/ Send(p) \/ Recv(p) \/ Timeout(p) \/ Close(p)

Next ==
    \/ \E a \in Agents : AgentStep(a) \/ Start(a) \/ NoSocket(a)
                         \/ handle_stop(a) \/ Crash(a)
    \/ \E p \in Pids : \/ ClientStep(p) \/ Kill(p)
                       \/ \E cmd \in Cmds \cup {"interactive"}, ifname \in BOOLEAN :
                             Launch(p, cmd, ifname)

Spec == Init /\ [][Next]_vars

\* Every process that can run does, and 42 seconds pass.
FairSpec ==
    /\ Spec
    /\ \A a \in Agents : WF_vars(AgentStep(a))
    /\ \A p \in Pids : WF_vars(ClientStep(p))

-----------------------------------------------------------------------------
(* Properties.                                                              *)

\* An agent that is up owns the path, so that clients reach it and at most one
\* agent is up: as long as every start got as far as eloop_run, however the starts
\* and exits of several agents interleave (the path is a lock), and as long as no
\* agent is started next to another one, whatever crashed or failed before.
PathOwned ==
    (~hist.failed \/ ~hist.overlap) => \A a \in Agents : Up(a) => file = a

\* The file that a crash leaves behind costs one failed start and not more: the
\* failing admlink_ctrl_iface_init removes it.
SecondStartWorks ==
    ~hist.overlap => hist.fails < 2

\* What nothing interrupts leaves no file behind, on whatever path it ends: the
\* exit of an agent that is alone not its socket, a client not its local names.
NothingLeft ==
    /\ (~hist.overlap /\ ~hist.rude /\ \A a \in Agents : ~Alive(a)) => file = "none"
    /\ \A p \in Pids : (client[p].at \in {"none", "open"} /\ p \notin hist.killed)
                          => local[p] = {}

\* A client takes the answer to another request for its own only when an
\* earlier process with its identifier had timed out.  In particular killing
\* clients never leads there: the file they leave keeps their name taken.
OwnAnswer == hist.wrong \subseteq hist.gaveup

\* Once an agent stays reachable, an interactive client does not go on trying.
Connects ==
    <>[](file \in Agents) =>
        \A p \in Pids : []<>~(client[p].cmd = "interactive"
                              /\ client[p].at \in {"open", "connect"})
=============================================================================
