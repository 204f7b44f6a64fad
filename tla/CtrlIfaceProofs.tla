-------------------------- MODULE CtrlIfaceProofs --------------------------
(***************************************************************************)
(* Proofs about CtrlIface, for any number of agents, clients, starts,       *)
(* crashes, signals and kills.  The invariant has four parts.  Types comes  *)
(* first; Lock, Alone and Names each need only Types, and Answers needs     *)
(* Types and Names:                                                         *)
(*                                                                          *)
(*   Lock     the path is a lock of the agents as long as no start failed   *)
(*   Alone    what holds of the path while no agent runs next to another    *)
(*   Names    which local names of clients exist                            *)
(*   Answers  where the request of a process and its answer can be          *)
(***************************************************************************)
EXTENDS CtrlIface, SequenceTheorems, TLAPS

Request == [p : Pids, n : Nat, gen : Nat, cmd : Cmds]

AgentRecord ==
    [pc : {"off", "mkdir", "bind", "chmod", "run", "unlink", "rmdir"},
     sock : {"zero", "none", "open"}, stop : BOOLEAN, inbox : Seq(Request)]

ClientRecord ==
    [at : {"none", "open", "connect", "send", "wait", "close"},
     cmd : Cmds \cup {"interactive", "none"}, ifname : BOOLEAN, n : Nat,
     peer : Agents \cup {"none", "dead"}, inbox : Seq(Nat), gen : Nat]

History == [overlap : BOOLEAN, failed : BOOLEAN, fails : 0..2, rude : BOOLEAN,
            gaveup : SUBSET Pids, wrong : SUBSET Pids, killed : SUBSET Pids]

\* A process that has not bound a local name yet runs a command with the first
\* name; only an interactive client moves to another one, and it sends nothing.
Types ==
    /\ dir \in BOOLEAN
    /\ file \in Agents \cup {"none", "dead"}
    /\ agent \in [Agents -> AgentRecord]
    /\ client \in [Pids -> ClientRecord]
    /\ local \in [Pids -> SUBSET Nat]
    /\ hist \in History
    /\ \A p \in Pids :
         /\ client[p].at \in {"send", "wait"} => client[p].cmd \in Cmds
         /\ client[p].cmd # "interactive" => client[p].n = 0
         /\ client[p].at # "none" => client[p].cmd # "none"

\* ctrl_sock is open exactly while eloop_run runs.
Sock ==
    \A a \in Agents : /\ agent[a].pc = "run" => agent[a].sock = "open"
                      /\ agent[a].pc \in {"unlink", "rmdir"} => agent[a].sock = "none"

Lock ==
    ~hist.failed =>
        \A a \in Agents :
            /\ agent[a].pc \in {"chmod", "run"} => file = a
            /\ agent[a].pc = "unlink" =>
                  file = "dead" /\ \A b \in Agents : agent[b].pc = "unlink" => b = a

Alone ==
    ~hist.overlap =>
        /\ \A a, b \in Agents : Alive(a) /\ Alive(b) => a = b
        /\ \A a \in Agents :
              /\ agent[a].pc \in {"chmod", "run"} => file = a
              /\ agent[a].pc \in {"bind", "chmod"} => dir
              /\ ~hist.rude /\ agent[a].pc \in {"mkdir", "bind", "rmdir"} => file = "none"
        /\ hist.fails # 0 => hist.fails = 1 /\ file = "none"
        /\ ~hist.rude /\ (\A a \in Agents : ~Alive(a)) => file = "none"

\* Where a client is bound to its local name.
NamedAt == {"connect", "send", "wait", "close"}

\* A client that is bound has its file, and unless a process with its identifier
\* was killed it has no other.
Names ==
    \A p \in Pids :
        /\ client[p].at \in NamedAt => client[p].n \in local[p]
        /\ p \notin hist.killed =>
              \A n \in local[p] : client[p].at \in NamedAt /\ n = client[p].n

\* The first local name of p is a file that nobody is bound to.
Stranded(p) ==
    /\ 0 \in local[p]
    /\ client[p].n = 0 => client[p].at \notin NamedAt

\* No request of p is queued at an agent.
NoRequest(p) ==
    \A a \in Agents : \A i \in DOMAIN agent[a].inbox : agent[a].inbox[i].p # p

\* At most one request of p is queued, and its answer can reach only the process
\* that sent it: that one waits for it, or the name it would go to is taken.
AnswersOf(p) ==
    /\ p \notin hist.wrong
    /\ \A a \in Agents : \A i \in DOMAIN agent[a].inbox :
          agent[a].inbox[i].p = p =>
             /\ agent[a].inbox[i].n = 0
             /\ \/ Stranded(p)
                \/ /\ client[p].at = "wait" /\ client[p].inbox = <<>>
                   /\ agent[a].inbox[i].gen = client[p].gen
    /\ \A a, b \in Agents : \A i \in DOMAIN agent[a].inbox, j \in DOMAIN agent[b].inbox :
          agent[a].inbox[i].p = p /\ agent[b].inbox[j].p = p => a = b /\ i = j
    /\ client[p].at = "wait" =>
          \A k \in DOMAIN client[p].inbox : client[p].inbox[k] = client[p].gen
    /\ client[p].at \in {"none", "open", "connect", "send"} => client[p].inbox = <<>>

Answers == \A p \in Pids : p \notin hist.gaveup => AnswersOf(p)

IInv == Types /\ Sock /\ Lock /\ Alone /\ Names /\ Answers

-----------------------------------------------------------------------------
(* Types.                                                                   *)

\* Cutting clients off a socket that was closed changes their peer only.
LEMMA CutOnlyPeer ==
    ASSUME NEW a \in Agents, NEW cl \in [Pids -> ClientRecord]
    PROVE  /\ Cut(cl, a) \in [Pids -> ClientRecord]
           /\ \A p \in Pids : /\ Cut(cl, a)[p].at = cl[p].at
                              /\ Cut(cl, a)[p].cmd = cl[p].cmd
                              /\ Cut(cl, a)[p].ifname = cl[p].ifname
                              /\ Cut(cl, a)[p].n = cl[p].n
                              /\ Cut(cl, a)[p].inbox = cl[p].inbox
                              /\ Cut(cl, a)[p].gen = cl[p].gen
<1>1. \A p \in Pids : cl[p] \in ClientRecord
  OBVIOUS
<1>2. ASSUME NEW p \in Pids
      PROVE  LET r == [cl[p] EXCEPT !.peer = "dead"] IN
             /\ r \in ClientRecord
             /\ r.at = cl[p].at /\ r.cmd = cl[p].cmd /\ r.ifname = cl[p].ifname
             /\ r.n = cl[p].n /\ r.inbox = cl[p].inbox /\ r.gen = cl[p].gen
  BY <1>1 DEF ClientRecord
<1>3. \A p \in Pids : Cut(cl, a)[p] \in {cl[p], [cl[p] EXCEPT !.peer = "dead"]}
  BY DEF Cut
<1>4. \A p \in Pids : Cut(cl, a)[p] \in ClientRecord
  BY <1>1, <1>2, <1>3
<1>5. Cut(cl, a) \in [Pids -> ClientRecord]
  BY <1>4 DEF Cut
<1> QED BY <1>2, <1>3, <1>5

\* A new pc, ctrl_sock or queue of one agent.
LEMMA AgentUpdates ==
    ASSUME agent \in [Agents -> AgentRecord], NEW a \in Agents,
           NEW x \in {"off", "mkdir", "bind", "chmod", "run", "unlink", "rmdir"},
           NEW y \in {"zero", "none", "open"},
           NEW b \in BOOLEAN, NEW q \in Seq(Request)
    PROVE  /\ [agent EXCEPT ![a].pc = x] \in [Agents -> AgentRecord]
           /\ [agent EXCEPT ![a].pc = x, ![a].sock = y] \in [Agents -> AgentRecord]
           /\ [agent EXCEPT ![a].inbox = q, ![a].stop = b] \in [Agents -> AgentRecord]
<1>1. agent[a] \in AgentRecord
  OBVIOUS
<1>2. /\ [agent[a] EXCEPT !.pc = x] \in AgentRecord
      /\ [agent[a] EXCEPT !.pc = x, !.sock = y] \in AgentRecord
      /\ [agent[a] EXCEPT !.inbox = q, !.stop = b] \in AgentRecord
  BY <1>1 DEF AgentRecord
<1>3. /\ [agent EXCEPT ![a].pc = x] = [agent EXCEPT ![a] = [agent[a] EXCEPT !.pc = x]]
      /\ [agent EXCEPT ![a].pc = x, ![a].sock = y] =
            [agent EXCEPT ![a] = [agent[a] EXCEPT !.pc = x, !.sock = y]]
      /\ [agent EXCEPT ![a].inbox = q, ![a].stop = b] =
            [agent EXCEPT ![a] = [agent[a] EXCEPT !.inbox = q, !.stop = b]]
  OBVIOUS
<1> QED BY <1>2, <1>3

\* A client that moves on.
LEMMA ClientMoves ==
    ASSUME client \in [Pids -> ClientRecord], NEW p \in Pids,
           NEW x \in {"none", "open", "connect", "send", "wait", "close"},
           NEW d, d = [client EXCEPT ![p].at = x]
    PROVE  /\ d \in [Pids -> ClientRecord]
           /\ \A q \in Pids : /\ d[q].at = IF q = p THEN x ELSE client[q].at
                              /\ d[q].cmd = client[q].cmd
                              /\ d[q].n = client[q].n
<1> DEFINE r == [client[p] EXCEPT !.at = x]
<1>1. client[p] \in ClientRecord
  OBVIOUS
<1>2. r \in ClientRecord /\ r.at = x /\ r.cmd = client[p].cmd /\ r.n = client[p].n
  BY <1>1 DEF ClientRecord
<1>3. d = [client EXCEPT ![p] = r]
  OBVIOUS
<1> QED BY <1>2, <1>3

\* An answer changes nothing but the inbox of the process that has the name.
LEMMA DeliverOnlyInbox ==
    ASSUME Types, NEW a \in Agents, NEW to \in [p : Pids, n : Nat], NEW answer \in Nat
    PROVE  LET d == Deliver(a, to, answer) IN
           /\ d \in [Pids -> ClientRecord]
           /\ \A p \in Pids : /\ d[p].at = client[p].at
                              /\ d[p].cmd = client[p].cmd
                              /\ d[p].ifname = client[p].ifname
                              /\ d[p].n = client[p].n
                              /\ d[p].gen = client[p].gen
                              /\ \/ d[p].inbox = client[p].inbox
                                 \/ /\ p = to.p /\ Bound(p, to.n)
                                    /\ d[p].inbox = Append(client[p].inbox, answer)
<1> DEFINE d == Deliver(a, to, answer)
<1>1. CASE d = client
  BY <1>1 DEF Types
<1>2. CASE /\ Bound(to.p, to.n)
           /\ d = [client EXCEPT ![to.p].inbox = Append(@, answer)]
  <2>1. to.p \in Pids /\ client[to.p] \in ClientRecord /\ client \in [Pids -> ClientRecord]
    BY DEF Types
  <2>2. Append(client[to.p].inbox, answer) \in Seq(Nat)
    BY <2>1 DEF ClientRecord
  <2>3. d \in [Pids -> ClientRecord]
    <3>1. [client[to.p] EXCEPT !.inbox = Append(@, answer)] \in ClientRecord
      BY <2>1, <2>2 DEF ClientRecord
    <3>2. d = [client EXCEPT ![to.p] = [client[to.p] EXCEPT !.inbox = Append(@, answer)]]
      BY <1>2, <2>1
    <3> QED BY <2>1, <3>1, <3>2
  <2>4. \A p \in Pids : p # to.p => d[p] = client[p]
    BY <1>2, <2>1
  <2>5. d[to.p] = [client[to.p] EXCEPT !.inbox = Append(@, answer)]
    BY <1>2, <2>1
  <2> HIDE DEF d
  <2>6. /\ d[to.p].at = client[to.p].at /\ d[to.p].cmd = client[to.p].cmd
        /\ d[to.p].ifname = client[to.p].ifname /\ d[to.p].n = client[to.p].n
        /\ d[to.p].gen = client[to.p].gen
        /\ d[to.p].inbox = Append(client[to.p].inbox, answer)
    BY <2>1, <2>5 DEF ClientRecord
  <2>7. Bound(to.p, to.n)
    BY <1>2
  <2>8. ASSUME NEW p \in Pids
        PROVE  /\ d[p].at = client[p].at /\ d[p].cmd = client[p].cmd
               /\ d[p].ifname = client[p].ifname /\ d[p].n = client[p].n
               /\ d[p].gen = client[p].gen
               /\ \/ d[p].inbox = client[p].inbox
                  \/ /\ p = to.p /\ Bound(p, to.n)
                     /\ d[p].inbox = Append(client[p].inbox, answer)
    <3>1. CASE p = to.p
      BY <2>6, <2>7, <3>1
    <3>2. CASE p # to.p
      BY <2>4, <3>2
    <3> QED BY <3>1, <3>2
  <2> QED BY <2>3, <2>8 DEF d
<1> QED BY <1>1, <1>2 DEF Deliver

\* Both outcomes of a failed admlink_ctrl_open.
LEMMA OpenFailedRecord ==
    ASSUME Types, NEW p \in Pids
    PROVE  /\ Gone(p) \in ClientRecord /\ OpenFailed(p) \in ClientRecord
           /\ Gone(p).at = "none" /\ Gone(p).cmd = "none" /\ Gone(p).n = 0
           /\ Gone(p).inbox = <<>> /\ OpenFailed(p).inbox = <<>>
           /\ OpenFailed(p).at \in {"none", "open"}
           /\ OpenFailed(p).at = "open" => OpenFailed(p).cmd = "interactive"
           /\ OpenFailed(p).at = "none" => OpenFailed(p) = Gone(p)
           /\ client[p].n # 0 => OpenFailed(p).at = "open" /\ OpenFailed(p).n # 0
<1>1. client[p] \in ClientRecord /\ (client[p].cmd # "interactive" => client[p].n = 0)
  BY DEF Types
<1>2. <<>> \in Seq(Nat)
  OBVIOUS
<1>3. MaxCtr \in Nat /\ MaxCtr # 0
  BY CtrlAssumption
<1>4. NoClient \in ClientRecord /\ NoClient.at = "none" /\ NoClient.cmd = "none"
      /\ NoClient.n = 0 /\ NoClient.inbox = <<>>
  BY <1>2 DEF NoClient, ClientRecord
<1>5. /\ Gone(p) \in ClientRecord /\ Gone(p).at = "none" /\ Gone(p).cmd = "none"
      /\ Gone(p).n = 0 /\ Gone(p).inbox = <<>>
  BY <1>1, <1>4 DEF Gone, ClientRecord
<1>6. CASE client[p].cmd # "interactive"
  BY <1>1, <1>5, <1>6 DEF OpenFailed
<1>7. CASE client[p].cmd = "interactive"
  <2> DEFINE k == IF client[p].n = MaxCtr THEN MaxCtr ELSE client[p].n + 1
  <2>1. client[p].n \in Nat /\ client[p].gen \in Nat
    BY <1>1 DEF ClientRecord
  <2>2. k \in Nat /\ k # 0
    BY <1>3, <2>1
  <2>3. OpenFailed(p) = [NoClient EXCEPT !.gen = client[p].gen, !.at = "open",
                           !.cmd = "interactive", !.ifname = TRUE, !.n = k]
    BY <1>7 DEF OpenFailed
  <2> HIDE DEF k
  <2>4. /\ OpenFailed(p) \in ClientRecord /\ OpenFailed(p).at = "open"
        /\ OpenFailed(p).cmd = "interactive" /\ OpenFailed(p).n = k
        /\ OpenFailed(p).inbox = <<>>
    BY <1>4, <2>1, <2>2, <2>3 DEF ClientRecord
  <2> QED BY <1>5, <2>2, <2>4
<1> QED BY <1>6, <1>7

\* Initially every value is of its type.
LEMMA InitTypes == Init => Types
<1>1. NoAgent \in AgentRecord /\ NoClient \in ClientRecord
  BY EmptySeq DEF NoAgent, NoClient, AgentRecord, ClientRecord
<1>2. NoClient.at = "none" /\ NoClient.cmd = "none" /\ NoClient.n = 0
  BY DEF NoClient
<1>3. Init => hist \in History
  BY DEF Init, History
<1> QED BY <1>1, <1>2, <1>3 DEF Init, Types

\* Every step keeps the values in their types.
LEMMA NextTypes == Types /\ [Next]_vars => Types'
<1> SUFFICES ASSUME Types, [Next]_vars PROVE Types'
  OBVIOUS
<1>0. agent \in [Agents -> AgentRecord] /\ TRUE \in BOOLEAN /\ <<>> \in Seq(Request)
  BY DEF Types
<1>1. ASSUME NEW a \in Agents, Mkdir(a) PROVE Types'
  BY <1>0, <1>1, AgentUpdates DEF Mkdir, Types
<1>2. ASSUME NEW a \in Agents, Bind(a) PROVE Types'
  <2>1. agent' \in [Agents -> AgentRecord]
    BY <1>0, <1>2, AgentUpdates DEF Bind, Step
  <2>2. hist' \in History
    BY <1>2 DEF Bind, Types, History
  <2> QED BY <1>2, <2>1, <2>2 DEF Bind, Types
<1>3. ASSUME NEW a \in Agents, Chmod(a) PROVE Types'
  BY <1>0, <1>3, AgentUpdates DEF Chmod, Types
<1>4. NoAgent \in AgentRecord /\ [NoAgent EXCEPT !.pc = "unlink", !.sock = "none"] \in AgentRecord
  <2>1. <<>> \in Seq(Request)
    OBVIOUS
  <2> QED BY <2>1 DEF NoAgent, AgentRecord
<1>5. ASSUME NEW a \in Agents, InitFail(a) PROVE Types'
  <2>1. client' \in [Pids -> ClientRecord]
    BY <1>5, CutOnlyPeer DEF InitFail, Types
  <2>2. hist' \in History
    <3>1. hist \in History /\ hist.fails \in 0..2
      BY DEF Types, History
    <3>2. hist' = [hist EXCEPT !.failed = TRUE, !.fails = IF @ = 2 THEN 2 ELSE @ + 1]
      BY <1>5 DEF InitFail
    <3>3. (IF hist.fails = 2 THEN 2 ELSE hist.fails + 1) \in 0..2
      BY <3>1
    <3> QED BY <3>1, <3>2, <3>3 DEF History
  <2>3. agent' \in [Agents -> AgentRecord]
    BY <1>4, <1>5 DEF InitFail, Ends, Types
  <2>4. client \in [Pids -> ClientRecord] /\ client' = Cut(client, a)
    BY <1>5 DEF InitFail, Types
  <2> QED BY <1>5, <2>1, <2>2, <2>3, <2>4, CutOnlyPeer DEF InitFail, Types
<1>6. ASSUME NEW a \in Agents, eloop_set_exit(a) PROVE Types'
  BY <1>4, <1>6, CutOnlyPeer DEF eloop_set_exit, Deinit, Shut, Types
<1>7. ASSUME NEW a \in Agents, Unlink(a) PROVE Types'
  BY <1>0, <1>7, AgentUpdates DEF Unlink, Step, Types
<1>8. ASSUME NEW a \in Agents, Rmdir(a) PROVE Types'
  BY <1>4, <1>8 DEF Rmdir, Ends, Types
<1>9. ASSUME NEW a \in Agents, NEW pending \in BOOLEAN, Receive(a, pending) PROVE Types'
  <2> DEFINE m == Head(agent[a].inbox)
  <2>1. agent[a] \in AgentRecord /\ agent[a].inbox \in Seq(Request) /\ agent[a].inbox # <<>>
    BY <1>9 DEF Receive, Types, AgentRecord
  <2>2. m \in Request /\ Tail(agent[a].inbox) \in Seq(Request)
    BY <2>1, HeadTailProperties
  <2>3. agent' \in [Agents -> AgentRecord]
    <3>1. PICK b \in BOOLEAN : agent' =
             [agent EXCEPT ![a].inbox = Tail(agent[a].inbox), ![a].stop = b]
      <4>1. agent[a].stop \in BOOLEAN
        BY <2>1 DEF AgentRecord
      <4>2. agent' = [agent EXCEPT ![a].inbox = Tail(agent[a].inbox),
                        ![a].stop = agent[a].stop \/ (m.cmd = "stop" /\ ~pending)]
        BY <1>9 DEF Receive
      <4> QED BY <4>1, <4>2
    <3>2. Tail(agent[a].inbox) \in Seq(Request)
      BY <2>2
    <3> QED BY <1>0, <3>1, <3>2, AgentUpdates
  <2>4. client' = Deliver(a, [p |-> m.p, n |-> m.n], m.gen)
    BY <1>9 DEF Receive
  <2> HIDE DEF m
  <2>5. [p |-> m.p, n |-> m.n] \in [p : Pids, n : Nat] /\ m.gen \in Nat
    BY <2>2 DEF Request
  <2>6. /\ client' \in [Pids -> ClientRecord]
        /\ \A p \in Pids : /\ client'[p].at = client[p].at
                           /\ client'[p].cmd = client[p].cmd
                           /\ client'[p].n = client[p].n
    BY <2>4, <2>5, DeliverOnlyInbox
  <2> QED BY <1>9, <2>3, <2>6 DEF Receive, Types
<1>10. ASSUME NEW a \in Agents, Start(a) PROVE Types'
  <2>1. agent' \in [Agents -> AgentRecord]
    BY <1>0, <1>10, AgentUpdates DEF Start, Step
  <2>2. hist' \in History
    BY <1>10 DEF Start, Types, History
  <2> QED BY <1>10, <2>1, <2>2 DEF Start, Types
<1>11. ASSUME NEW a \in Agents, NoSocket(a) PROVE Types'
  BY <1>4, <1>11 DEF NoSocket, Ends, Types, History
<1>12. ASSUME NEW a \in Agents, handle_stop(a) PROVE Types'
  <2>1. /\ agent' \in [Agents -> AgentRecord] /\ client' = Cut(client, a)
        /\ file' = Shut(file, a)
    BY <1>4, <1>12 DEF handle_stop, Deinit, Abandon, Ends, Types
  <2>2. hist' \in History /\ dir' = dir /\ local' = local
    BY <1>12 DEF handle_stop, Types, History
  <2> QED BY <2>1, <2>2, CutOnlyPeer DEF Types, Shut
<1>13. ASSUME NEW a \in Agents, Crash(a) PROVE Types'
  <2>1. /\ agent' \in [Agents -> AgentRecord] /\ client' = Cut(client, a)
        /\ file' = Shut(file, a)
    BY <1>4, <1>13 DEF Crash, Abandon, Ends, Types
  <2>2. hist' \in History /\ dir' = dir /\ local' = local
    BY <1>13 DEF Crash, Types, History
  <2> QED BY <2>1, <2>2, CutOnlyPeer DEF Types, Shut
<1>14. ASSUME NEW p \in Pids, NoInterface(p) PROVE Types'
  BY <1>14, OpenFailedRecord DEF NoInterface, Types, Cmds
<1>15. ASSUME NEW p \in Pids, BindLocal(p) PROVE Types'
  <2>1. client \in [Pids -> ClientRecord] /\ local \in [Pids -> SUBSET Nat]
    BY DEF Types
  <2>2. client' = [client EXCEPT ![p].at = "connect", ![p].ifname = TRUE]
    BY <1>15 DEF BindLocal
  <2>3. client' \in [Pids -> ClientRecord]
    <3>1. [client[p] EXCEPT !.at = "connect", !.ifname = TRUE] \in ClientRecord
      BY <2>1 DEF ClientRecord
    <3>2. client' = [client EXCEPT ![p] =
                       [client[p] EXCEPT !.at = "connect", !.ifname = TRUE]]
      BY <2>1, <2>2
    <3> QED BY <2>1, <3>1, <3>2
  <2>4. \A q \in Pids : /\ client'[q].at = IF q = p THEN "connect" ELSE client[q].at
                        /\ client'[q].cmd = client[q].cmd
                        /\ client'[q].n = client[q].n
    <3> TAKE q \in Pids
    <3>1. CASE q = p
      BY <2>1, <2>2, <3>1 DEF ClientRecord
    <3>2. CASE q # p
      BY <2>1, <2>2, <3>2
    <3> QED BY <3>1, <3>2
  <2>5. client[p].at = "open" /\ client[p].n \in Nat
    BY <1>15, <2>1 DEF BindLocal, ClientRecord
  <2>6. local' \in [Pids -> SUBSET Nat]
    BY <1>15, <2>1, <2>5 DEF BindLocal
  <2> QED BY <1>15, <2>3, <2>4, <2>5, <2>6 DEF BindLocal, Types
<1>16. ASSUME NEW p \in Pids, BindLocalFails(p) PROVE Types'
  BY <1>16, OpenFailedRecord DEF BindLocalFails, Types, Cmds
<1>17. ASSUME NEW p \in Pids, Connect(p) PROVE Types'
  BY <1>17 DEF Connect, Types, ClientRecord
<1>18. ASSUME NEW p \in Pids, ConnectFails(p) PROVE Types'
  BY <1>18, OpenFailedRecord DEF ConnectFails, Types, Cmds
<1>19. ASSUME NEW p \in Pids, Send(p) PROVE Types'
  <2> DEFINE c == client[p]
             m == [p |-> p, n |-> c.n, gen |-> c.gen, cmd |-> c.cmd]
  <2>1. /\ client \in [Pids -> ClientRecord] /\ agent \in [Agents -> AgentRecord]
        /\ c.at = "send" /\ c.cmd \in Cmds
        /\ dir' = dir /\ file' = file /\ local' = local /\ hist' = hist
    BY <1>19 DEF Send, Types
  <2>2. \/ /\ c.peer \in Agents
           /\ agent' = [agent EXCEPT ![c.peer].inbox = Append(@, m)]
           /\ client' = [client EXCEPT ![p].at = "wait"]
        \/ agent' = agent /\ client' = [client EXCEPT ![p].at = "close"]
    BY <1>19 DEF Send
  <2>3. m \in Request
    BY <2>1 DEF ClientRecord, Request
  <2> HIDE DEF m
  <2>4. agent' \in [Agents -> AgentRecord]
    <3>1. ASSUME NEW b \in Agents
          PROVE  [agent EXCEPT ![b].inbox = Append(@, m)] \in [Agents -> AgentRecord]
      <4>1. agent[b] \in AgentRecord /\ Append(agent[b].inbox, m) \in Seq(Request)
        BY <2>1, <2>3 DEF AgentRecord
      <4>2. [agent[b] EXCEPT !.inbox = Append(@, m)] \in AgentRecord
        BY <4>1 DEF AgentRecord
      <4> QED BY <2>1, <4>2
    <3> QED BY <2>1, <2>2, <3>1
  <2>5. /\ client' \in [Pids -> ClientRecord]
        /\ \A q \in Pids : /\ client'[q].at = client[q].at \/ q = p
                           /\ client'[q].cmd = client[q].cmd
                           /\ client'[q].n = client[q].n
    <3>1. CASE client' = [client EXCEPT ![p].at = "wait"]
      BY <2>1, <3>1, ClientMoves
    <3>2. CASE client' = [client EXCEPT ![p].at = "close"]
      BY <2>1, <3>2, ClientMoves
    <3> QED BY <2>2, <3>1, <3>2
  <2>6. "none" \notin Cmds
    BY DEF Cmds
  <2> QED BY <2>1, <2>4, <2>5, <2>6 DEF Types
<1>20. ASSUME NEW p \in Pids, Recv(p) PROVE Types'
  <2>1. client[p].inbox \in Seq(Nat) /\ client[p].inbox # <<>>
    BY <1>20 DEF Recv, Types, ClientRecord
  <2>2. Tail(client[p].inbox) \in Seq(Nat)
    BY <2>1, HeadTailProperties
  <2> QED BY <1>20, <2>2 DEF Recv, Types, ClientRecord, History
<1>21. ASSUME NEW p \in Pids, Timeout(p) PROVE Types'
  <2>1. client \in [Pids -> ClientRecord] /\ hist \in History
    BY DEF Types
  <2>2. /\ client' = [client EXCEPT ![p].at = "close"]
        /\ hist' = [hist EXCEPT !.gaveup = @ \cup {p}]
    BY <1>21 DEF Timeout
  <2>3. hist' \in History
    BY <2>1, <2>2 DEF History
  <2>4. /\ client' \in [Pids -> ClientRecord]
        /\ \A q \in Pids : /\ client'[q].at = IF q = p THEN "close" ELSE client[q].at
                           /\ client'[q].cmd = client[q].cmd
                           /\ client'[q].n = client[q].n
    BY <2>1, <2>2, ClientMoves
  <2> QED BY <1>21, <2>3, <2>4 DEF Timeout, Types
<1>22. ASSUME NEW p \in Pids, Close(p) PROVE Types'
  BY <1>22, OpenFailedRecord DEF Close, Types, Cmds
<1>23. ASSUME NEW p \in Pids, Kill(p) PROVE Types'
  BY <1>23, OpenFailedRecord DEF Kill, Types, Cmds, History
<1>24. ASSUME NEW p \in Pids, NEW cmd \in Cmds \cup {"interactive"},
              NEW ifname \in BOOLEAN, Launch(p, cmd, ifname)
       PROVE  Types'
  <2> DEFINE r == [NoClient EXCEPT !.at = "open", !.cmd = cmd, !.ifname = ifname,
                                   !.gen = client[p].gen + 1]
  <2>1. NoClient \in ClientRecord /\ NoClient.n = 0
    BY EmptySeq DEF NoClient, ClientRecord
  <2>2. client \in [Pids -> ClientRecord] /\ client[p].gen + 1 \in Nat
    BY DEF Types, ClientRecord
  <2>3. r \in ClientRecord /\ r.at = "open" /\ r.cmd = cmd /\ r.n = 0
    BY <2>1, <2>2 DEF ClientRecord
  <2>4. client' = [client EXCEPT ![p] = r]
    BY <1>24 DEF Launch
  <2> HIDE DEF r
  <2>5. client' \in [Pids -> ClientRecord]
    BY <2>2, <2>3, <2>4
  <2>6. cmd # "none"
    BY DEF Cmds
  <2> QED BY <1>24, <2>2, <2>3, <2>4, <2>5, <2>6 DEF Launch, Types
<1>25. CASE UNCHANGED vars
  BY <1>25 DEF vars, Types
<1> QED
  BY <1>1, <1>2, <1>3, <1>5, <1>6, <1>7, <1>8, <1>9, <1>10, <1>11, <1>12, <1>13, <1>14,
     <1>15, <1>16, <1>17, <1>18, <1>19, <1>20, <1>21, <1>22, <1>23, <1>24, <1>25
     DEF Next, AgentStep, ClientStep

-----------------------------------------------------------------------------
(* The path.                                                                *)

Path == Sock /\ Lock /\ Alone

\* Agent a goes on at pc with its ctrl_sock at sock, the others stay.
Moves(a, pc, sock) ==
    \A b \in Agents : /\ agent'[b].pc = IF b = a THEN pc ELSE agent[b].pc
                      /\ agent'[b].sock = IF b = a THEN sock ELSE agent[b].sock

\* The path, the positions of the agents and the record of starts stay.
PathStays ==
    /\ dir' = dir /\ file' = file
    /\ \A b \in Agents : agent'[b].pc = agent[b].pc /\ agent'[b].sock = agent[b].sock
    /\ hist'.overlap = hist.overlap /\ hist'.failed = hist.failed
    /\ hist'.fails = hist.fails /\ hist'.rude = hist.rude

\* The steps of clients, and of agents towards them, leave the path alone.
LEMMA ClientsLeavePath ==
    ASSUME Types, Types',
           \/ UNCHANGED vars
           \/ \E a \in Agents, pending \in BOOLEAN : Receive(a, pending)
           \/ \E p \in Pids :
                 \/ ClientStep(p) \/ Kill(p)
                 \/ \E cmd \in Cmds \cup {"interactive"}, ifname \in BOOLEAN :
                       Launch(p, cmd, ifname)
    PROVE  PathStays
<1>0. agent \in [Agents -> AgentRecord] /\ hist \in History
  BY DEF Types
<1>1. CASE UNCHANGED vars
  BY <1>1 DEF vars, PathStays
<1>2. ASSUME NEW a \in Agents, NEW pending \in BOOLEAN, Receive(a, pending)
      PROVE  PathStays
  <2>1. \A b \in Agents : agent'[b].pc = agent[b].pc /\ agent'[b].sock = agent[b].sock
    BY <1>0, <1>2 DEF Receive, AgentRecord
  <2> QED BY <1>2, <2>1 DEF Receive, PathStays
<1>3. ASSUME NEW p \in Pids, Send(p) PROVE PathStays
  <2>1. \A b \in Agents : agent'[b].pc = agent[b].pc /\ agent'[b].sock = agent[b].sock
    <3> DEFINE m == [p |-> p, n |-> client[p].n, gen |-> client[p].gen,
                     cmd |-> client[p].cmd]
    <3>1. \/ agent' = agent
          \/ /\ client[p].peer \in Agents
             /\ agent' = [agent EXCEPT ![client[p].peer].inbox = Append(@, m)]
      BY <1>3 DEF Send
    <3> HIDE DEF m
    <3>2. ASSUME NEW b \in Agents, NEW c \in Agents
          PROVE  LET d == [agent EXCEPT ![c].inbox = Append(@, m)] IN
                 d[b].pc = agent[b].pc /\ d[b].sock = agent[b].sock
      BY <1>0 DEF AgentRecord
    <3> QED BY <3>1, <3>2
  <2> QED BY <1>3, <2>1 DEF Send, PathStays
<1>4. ASSUME NEW p \in Pids, ClientStep(p), ~Send(p) PROVE PathStays
  <2>1. dir' = dir /\ file' = file /\ agent' = agent
    BY <1>4 DEF ClientStep, NoInterface, BindLocal, BindLocalFails, Connect,
                ConnectFails, Recv, Timeout, Close
  <2>2. \/ hist' = hist
        \/ hist' = [hist EXCEPT !.gaveup = hist'.gaveup]
        \/ hist' = [hist EXCEPT !.wrong = hist'.wrong]
    <3>1. Recv(p) => \E w : hist' = [hist EXCEPT !.wrong = w]
      BY DEF Recv
    <3>2. Timeout(p) => \E w : hist' = [hist EXCEPT !.gaveup = w]
      BY DEF Timeout
    <3> QED BY <1>0, <1>4, <3>1, <3>2
            DEF ClientStep, NoInterface, BindLocal, BindLocalFails, Connect,
                ConnectFails, Close, History
  <2> QED BY <1>0, <2>1, <2>2 DEF History, PathStays
<1>5. ASSUME NEW p \in Pids, Kill(p) PROVE PathStays
  BY <1>0, <1>5 DEF Kill, PathStays, History
<1>6. ASSUME NEW p \in Pids, NEW cmd, NEW ifname, Launch(p, cmd, ifname)
      PROVE  PathStays
  BY <1>6 DEF Launch, PathStays
<1> QED BY <1>1, <1>2, <1>3, <1>4, <1>5, <1>6

\* The exits of an agent take it to unlink or end it, and their close makes its
\* file a dead one.
LEMMA ExitMoves ==
    ASSUME Types, NEW a \in Agents
    PROVE  /\ Deinit(a) => Moves(a, "unlink", "none") /\ file' = Shut(file, a)
           /\ Abandon(a) => Moves(a, "off", "zero") /\ file' = Shut(file, a)
           /\ Ends(a) => Moves(a, "off", "zero")
<1>1. agent \in [Agents -> AgentRecord]
  BY DEF Types
<1>2. /\ NoAgent.pc = "off" /\ NoAgent.sock = "zero"
      /\ [NoAgent EXCEPT !.pc = "unlink", !.sock = "none"].pc = "unlink"
      /\ [NoAgent EXCEPT !.pc = "unlink", !.sock = "none"].sock = "none"
  BY DEF NoAgent
<1> QED BY <1>1, <1>2 DEF Deinit, Abandon, Ends, Moves

\* No step breaks the invariant of the path.
LEMMA NextPath ==
    ASSUME Types, Types', Path, [Next]_vars
    PROVE  Path'
<1>0. /\ agent \in [Agents -> AgentRecord] /\ hist \in History
      /\ file \in Agents \cup {"none", "dead"}
      /\ \A a \in Agents : agent[a].pc \in {"off", "mkdir", "bind", "chmod", "run",
                                           "unlink", "rmdir"}
  BY DEF Types, AgentRecord
<1>a. "none" \notin Agents /\ "dead" \notin Agents
  BY CtrlAssumption
<1>b. Sock /\ Lock /\ Alone
  BY DEF Path
<1>1. CASE PathStays
  BY <1>b, <1>1 DEF Path, PathStays, Sock, Lock, Alone, Alive
<1>2. ASSUME NEW a \in Agents, Mkdir(a) PROVE Path'
  <2>1. Moves(a, "bind", "none") /\ agent[a].pc = "mkdir"
    BY <1>0, <1>2 DEF Mkdir, Moves, AgentRecord
  <2>2. dir' = TRUE /\ file' = file /\ hist' = hist
    BY <1>2 DEF Mkdir
  <2> QED BY <1>b, <2>1, <2>2 DEF Moves, Path, Sock, Lock, Alone, Alive
<1>3. ASSUME NEW a \in Agents, Bind(a) PROVE Path'
  <2>1. Moves(a, "chmod", agent[a].sock) /\ agent[a].pc = "bind"
    BY <1>0, <1>3 DEF Bind, Step, Moves, AgentRecord
  <2>2. /\ dir /\ file = "none" /\ dir' = dir /\ file' = a
        /\ hist'.overlap = hist.overlap /\ hist'.failed = hist.failed
        /\ hist'.fails = 0 /\ hist'.rude = hist.rude
    BY <1>0, <1>3 DEF Bind, History
  <2>3. Sock'
    BY <1>b, <2>1 DEF Moves, Sock
  <2>4. Lock'
    BY <1>a, <1>b, <2>1, <2>2 DEF Moves, Lock
  <2>5. Alone'
    BY <1>a, <1>b, <2>1, <2>2 DEF Moves, Alone, Alive
  <2> QED BY <2>3, <2>4, <2>5 DEF Path
<1>4. ASSUME NEW a \in Agents, Chmod(a) PROVE Path'
  <2>1. Moves(a, "run", "open") /\ agent[a].pc = "chmod"
    BY <1>0, <1>4 DEF Chmod, Moves, AgentRecord
  <2>2. dir' = dir /\ file' = file /\ hist' = hist
    BY <1>4 DEF Chmod
  <2> QED BY <1>b, <2>1, <2>2 DEF Moves, Path, Sock, Lock, Alone, Alive
<1>5. ASSUME NEW a \in Agents, InitFail(a) PROVE Path'
  <2>1. Moves(a, "off", "zero")
    BY <1>5, ExitMoves DEF InitFail
  <2>2. /\ \/ agent[a].pc = "bind" /\ (~dir \/ file # "none")
           \/ agent[a].pc = "chmod" /\ file = "none"
        /\ file' = "none" /\ dir' = dir
    BY <1>5 DEF InitFail
  <2>3. /\ hist'.overlap = hist.overlap /\ hist'.failed = TRUE
        /\ hist'.fails = IF hist.fails = 2 THEN 2 ELSE hist.fails + 1
        /\ hist'.rude = hist.rude
    <3>1. hist' = [hist EXCEPT !.failed = TRUE,
                               !.fails = IF @ = 2 THEN 2 ELSE @ + 1]
      BY <1>5 DEF InitFail
    <3> QED BY <1>0, <3>1 DEF History
  <2>4. Sock' /\ Lock'
    BY <1>b, <2>1, <2>3 DEF Moves, Sock, Lock
  <2>5. ~hist.overlap => hist.fails = 0
    BY <1>a, <1>b, <2>2 DEF Alone
  <2>6. Alone'
    BY <1>b, <2>1, <2>2, <2>3, <2>5 DEF Moves, Alone, Alive
  <2> QED BY <2>4, <2>6 DEF Path
<1>6. ASSUME NEW a \in Agents, eloop_set_exit(a) PROVE Path'
  <2>1. Moves(a, "unlink", "none") /\ file' = Shut(file, a) /\ agent[a].pc = "run"
    BY <1>6, ExitMoves DEF eloop_set_exit, Up
  <2>2. dir' = dir /\ hist' = hist
    BY <1>6 DEF eloop_set_exit
  <2>3. Sock'
    BY <1>b, <2>1 DEF Moves, Sock
  <2>4. Lock'
    BY <1>a, <1>b, <2>1, <2>2 DEF Moves, Lock, Shut
  <2>5. Alone'
    BY <1>a, <1>b, <2>1, <2>2 DEF Moves, Alone, Alive, Shut
  <2> QED BY <2>3, <2>4, <2>5 DEF Path
<1>7. ASSUME NEW a \in Agents, Unlink(a) PROVE Path'
  <2>1. Moves(a, "rmdir", agent[a].sock) /\ agent[a].pc = "unlink"
    BY <1>0, <1>7 DEF Unlink, Step, Moves, AgentRecord
  <2>2. dir' = dir /\ file' = "none" /\ hist' = hist
    BY <1>7 DEF Unlink
  <2>3. Sock'
    BY <1>b, <2>1 DEF Moves, Sock
  <2>4. Lock'
    BY <1>a, <1>b, <2>1, <2>2 DEF Moves, Lock
  <2>5. Alone'
    BY <1>b, <2>1, <2>2 DEF Moves, Alone, Alive
  <2> QED BY <2>3, <2>4, <2>5 DEF Path
<1>8. ASSUME NEW a \in Agents, Rmdir(a) PROVE Path'
  <2>1. Moves(a, "off", "zero") /\ agent[a].pc = "rmdir"
    BY <1>8, ExitMoves DEF Rmdir
  <2>2. file' = file /\ hist' = hist
    BY <1>8 DEF Rmdir
  <2> QED BY <1>b, <2>1, <2>2 DEF Moves, Path, Sock, Lock, Alone, Alive
<1>9. ASSUME NEW a \in Agents, Start(a) PROVE Path'
  <2>1. Moves(a, "mkdir", agent[a].sock) /\ agent[a].pc = "off"
    BY <1>0, <1>9 DEF Start, Alive, Step, Moves, AgentRecord
  <2>2. /\ dir' = dir /\ file' = file
        /\ hist'.overlap = (hist.overlap \/ \E b \in Agents : Alive(b))
        /\ hist'.failed = hist.failed /\ hist'.fails = hist.fails
        /\ hist'.rude = hist.rude
    BY <1>0, <1>9 DEF Start, History
  <2>3. Sock' /\ Lock'
    BY <1>b, <2>1, <2>2 DEF Moves, Sock, Lock
  <2>4. Alone'
    BY <1>b, <2>1, <2>2 DEF Moves, Alone, Alive
  <2> QED BY <2>3, <2>4 DEF Path
<1>10. ASSUME NEW a \in Agents, NoSocket(a) PROVE Path'
  <2>1. Moves(a, "off", "zero") /\ agent[a].pc = "mkdir"
    BY <1>10, ExitMoves DEF NoSocket
  <2>2. /\ dir' = dir /\ file' = file
        /\ hist'.overlap = hist.overlap /\ hist'.failed = TRUE
        /\ hist'.fails = hist.fails /\ hist'.rude = hist.rude
    BY <1>0, <1>10 DEF NoSocket, History
  <2> QED BY <1>b, <2>1, <2>2 DEF Moves, Path, Sock, Lock, Alone, Alive
<1>11. ASSUME NEW a \in Agents, handle_stop(a) \/ Crash(a) PROVE Path'
  <2>1. /\ file' = Shut(file, a) /\ agent[a].pc # "off" /\ dir' = dir
        /\ \/ Moves(a, "off", "zero")
           \/ Moves(a, "unlink", "none") /\ agent[a].sock # "none"
    BY <1>11, ExitMoves DEF handle_stop, Crash, Alive
  <2>2. /\ hist'.overlap = hist.overlap /\ hist'.fails = hist.fails
        /\ hist'.failed = (hist.failed \/ agent[a].pc \in {"mkdir", "bind", "chmod"})
        /\ hist'.rude \in BOOLEAN
        /\ hist'.rude = FALSE =>
              hist.rude = FALSE /\ agent[a].pc = "run" /\ ~Moves(a, "off", "zero")
    <3>1. CASE handle_stop(a)
      <4>1. agent[a].sock = "none" \/ ~Moves(a, "off", "zero")
        <5>1. agent[a].sock # "none" => Moves(a, "unlink", "none")
          BY <3>1, ExitMoves DEF handle_stop
        <5> QED BY <5>1 DEF Moves
      <4>2. agent[a].pc = "run" => agent[a].sock = "open"
        BY <1>b DEF Sock
      <4> QED BY <1>0, <3>1, <4>1, <4>2 DEF handle_stop, History
    <3>2. CASE Crash(a)
      BY <1>0, <3>2 DEF Crash, History
    <3> QED BY <1>11, <3>1, <3>2
  <2>3. Sock'
    BY <1>b, <2>1 DEF Moves, Sock
  <2>4. Lock'
    <3> SUFFICES ASSUME ~hist'.failed PROVE Lock'
      BY DEF Lock
    <3>1. ~hist.failed /\ agent[a].pc \in {"run", "unlink", "rmdir"}
      BY <1>0, <2>1, <2>2
    <3>2. CASE Moves(a, "off", "zero")
      BY <1>0, <1>a, <1>b, <2>1, <3>1, <3>2 DEF Moves, Lock, Shut
    <3>3. CASE Moves(a, "unlink", "none") /\ agent[a].sock # "none"
      <4>1. agent[a].pc = "run" /\ file = a
        BY <1>b, <3>1, <3>3 DEF Sock, Lock
      <4> QED BY <1>a, <1>b, <2>1, <3>1, <3>3, <4>1 DEF Moves, Lock, Shut
    <3> QED BY <2>1, <3>2, <3>3
  <2>5. Alone'
    <3>1. CASE Moves(a, "off", "zero")
      BY <1>0, <1>a, <1>b, <2>1, <2>2, <3>1 DEF Moves, Alone, Alive, Shut
    <3>2. CASE Moves(a, "unlink", "none")
      BY <1>0, <1>a, <1>b, <2>1, <2>2, <3>2 DEF Moves, Alone, Alive, Shut
    <3> QED BY <2>1, <3>1, <3>2
  <2> QED BY <2>3, <2>4, <2>5 DEF Path
<1> QED
  BY <1>1, <1>2, <1>3, <1>4, <1>5, <1>6, <1>7, <1>8, <1>9, <1>10, <1>11,
     ClientsLeavePath DEF Next, AgentStep

-----------------------------------------------------------------------------
(* Local names.                                                             *)

AgentAct(a) == AgentStep(a) \/ Start(a) \/ NoSocket(a) \/ handle_stop(a) \/ Crash(a)

\* What agents do leaves clients where they are, with their local names.
LEMMA AgentsLeaveNames ==
    ASSUME Types, NEW a \in Agents, AgentAct(a)
    PROVE  /\ local' = local /\ hist'.killed = hist.killed
           /\ hist'.gaveup = hist.gaveup /\ hist'.wrong = hist.wrong
           /\ \A p \in Pids : /\ client'[p].at = client[p].at
                              /\ client'[p].n = client[p].n
                              /\ client'[p].gen = client[p].gen
<1>0. client \in [Pids -> ClientRecord] /\ hist \in History
  BY DEF Types
<1>1. ASSUME NEW pending \in BOOLEAN, Receive(a, pending)
      PROVE  \E to \in [p : Pids, n : Nat], answer \in Nat :
                client' = Deliver(a, to, answer)
  <2> DEFINE m == Head(agent[a].inbox)
  <2>1. agent[a].inbox \in Seq(Request) /\ agent[a].inbox # <<>>
    BY <1>1 DEF Receive, Types, AgentRecord
  <2>2. m \in Request
    BY <2>1, HeadTailProperties
  <2>3. client' = Deliver(a, [p |-> m.p, n |-> m.n], m.gen)
    BY <1>1 DEF Receive
  <2> HIDE DEF m
  <2> QED BY <2>2, <2>3 DEF Request
<1>2. \/ client' = client \/ client' = Cut(client, a)
      \/ \E to \in [p : Pids, n : Nat], answer \in Nat :
            client' = Deliver(a, to, answer)
  BY <1>1 DEF AgentAct, AgentStep, Mkdir, Bind, Chmod, InitFail, eloop_set_exit, Unlink,
              Rmdir, Start, NoSocket, handle_stop, Crash, Deinit, Abandon
<1>3. \A p \in Pids : /\ client'[p].at = client[p].at
                      /\ client'[p].n = client[p].n
                      /\ client'[p].gen = client[p].gen
  BY <1>0, <1>2, CutOnlyPeer, DeliverOnlyInbox
<1>4. local' = local
  BY DEF AgentAct, AgentStep, Mkdir, Bind, Chmod, InitFail, eloop_set_exit, Unlink,
         Rmdir, Start, NoSocket, handle_stop, Crash, Receive
<1>5. \/ hist' = hist
      \/ \E x : hist' = [hist EXCEPT !.fails = x]
      \/ \E x : hist' = [hist EXCEPT !.overlap = x]
      \/ \E x : hist' = [hist EXCEPT !.failed = x]
      \/ \E x, y : hist' = [hist EXCEPT !.failed = x, !.fails = y]
      \/ \E x, y : hist' = [hist EXCEPT !.failed = x, !.rude = y]
  <2>1. Bind(a) \/ NoSocket(a) => \/ \E x : hist' = [hist EXCEPT !.fails = x]
                                  \/ \E x : hist' = [hist EXCEPT !.failed = x]
    BY DEF Bind, NoSocket
  <2>2. Start(a) => \E x : hist' = [hist EXCEPT !.overlap = x]
    BY DEF Start
  <2>3. InitFail(a) => \E x, y : hist' = [hist EXCEPT !.failed = x, !.fails = y]
    BY DEF InitFail
  <2>4. handle_stop(a) \/ Crash(a) =>
           \E x, y : hist' = [hist EXCEPT !.failed = x, !.rude = y]
    BY DEF handle_stop, Crash
  <2>5. AgentAct(a) => \/ hist' = hist
                       \/ Bind(a) \/ NoSocket(a) \/ Start(a) \/ InitFail(a)
                       \/ handle_stop(a) \/ Crash(a)
    BY DEF AgentAct, AgentStep, Mkdir, Chmod, eloop_set_exit, Unlink, Rmdir, Receive
  <2> QED BY <2>1, <2>2, <2>3, <2>4, <2>5
<1>6. /\ hist'.killed = hist.killed /\ hist'.gaveup = hist.gaveup
      /\ hist'.wrong = hist.wrong
  BY <1>0, <1>5 DEF History
<1> QED BY <1>3, <1>4, <1>6

\* Client p is at x, named n, with the local files f; the others keep theirs.
Goes(p, x, n, f) ==
    \A q \in Pids : /\ client'[q].at = IF q = p THEN x ELSE client[q].at
                    /\ client'[q].n = IF q = p THEN n ELSE client[q].n
                    /\ local'[q] = IF q = p THEN f ELSE local[q]

\* No step breaks the invariant of the local names.
LEMMA NextNames ==
    ASSUME Types, Types', Names, [Next]_vars
    PROVE  Names'
<1>0. /\ client \in [Pids -> ClientRecord] /\ local \in [Pids -> SUBSET Nat]
      /\ hist \in History
      /\ \A p \in Pids : client[p] \in ClientRecord
  BY DEF Types
<1>1. ASSUME NEW a \in Agents, AgentAct(a) PROVE Names'
  BY <1>1, AgentsLeaveNames DEF Names
<1>2. ASSUME NEW p \in Pids, NoInterface(p) PROVE Names'
  <2>1. Goes(p, "none", 0, local[p]) /\ client[p].at = "open"
    BY <1>0, <1>2, OpenFailedRecord DEF NoInterface, Goes
  <2> QED BY <1>2, <2>1 DEF NoInterface, Goes, Names, NamedAt
<1>3. ASSUME NEW p \in Pids, BindLocal(p) PROVE Names'
  <2>1. /\ Goes(p, "connect", client[p].n, local[p] \cup {client[p].n})
        /\ client[p].at = "open"
    BY <1>0, <1>3 DEF BindLocal, Goes, ClientRecord
  <2>2. hist' = hist
    BY <1>3 DEF BindLocal
  <2>3. ASSUME NEW q \in Pids
        PROVE  /\ client'[q].at \in NamedAt => client'[q].n \in local'[q]
               /\ q \notin hist'.killed =>
                     \A n \in local'[q] : client'[q].at \in NamedAt /\ n = client'[q].n
    <3>1. CASE q = p
      <4>1. p \notin hist.killed => local[p] = {}
        BY <1>0, <2>1 DEF Names, NamedAt
      <4> QED BY <2>1, <2>2, <3>1, <4>1 DEF Goes, NamedAt
    <3>2. CASE q # p
      BY <2>1, <2>2, <3>2 DEF Goes, Names
    <3> QED BY <3>1, <3>2
  <2> QED BY <2>3 DEF Names
<1>4. ASSUME NEW p \in Pids, BindLocalFails(p) PROVE Names'
  <2>1. /\ Goes(p, OpenFailed(p).at, OpenFailed(p).n, local[p])
        /\ client[p].at = "open"
    BY <1>0, <1>4 DEF BindLocalFails, Goes
  <2>2. OpenFailed(p).at \in {"none", "open"}
    BY OpenFailedRecord
  <2> QED BY <1>4, <2>1, <2>2 DEF BindLocalFails, Goes, Names, NamedAt
<1>5. ASSUME NEW p \in Pids, Connect(p) \/ Send(p) \/ Recv(p) \/ Timeout(p) PROVE Names'
  <2>1. \E x \in NamedAt : client'[p].at = x /\ client'[p].n = client[p].n
    BY <1>0, <1>5 DEF Connect, Send, Recv, Timeout, NamedAt, ClientRecord
  <2>2. \A q \in Pids : q # p => client'[q] = client[q]
    BY <1>0, <1>5 DEF Connect, Send, Recv, Timeout
  <2>3. local' = local /\ client[p].at \in NamedAt
    BY <1>5 DEF Connect, Send, Recv, Timeout, NamedAt
  <2>4. hist'.killed = hist.killed
    BY <1>0, <1>5 DEF Connect, Send, Recv, Timeout, History
  <2> QED BY <2>1, <2>2, <2>3, <2>4 DEF Names, NamedAt
<1>6. ASSUME NEW p \in Pids, ConnectFails(p) PROVE Names'
  <2>1. /\ Goes(p, OpenFailed(p).at, OpenFailed(p).n, local[p] \ {client[p].n})
        /\ client[p].at = "connect"
    BY <1>0, <1>6 DEF ConnectFails, Goes
  <2>2. OpenFailed(p).at \in {"none", "open"}
    BY OpenFailedRecord
  <2> QED BY <1>6, <2>1, <2>2 DEF ConnectFails, Goes, Names, NamedAt
<1>7. ASSUME NEW p \in Pids, Close(p) PROVE Names'
  <2>1. /\ Goes(p, "none", 0, local[p] \ {client[p].n})
        /\ client[p].at = "close"
    BY <1>0, <1>7, OpenFailedRecord DEF Close, Goes
  <2> QED BY <1>7, <2>1 DEF Close, Goes, Names, NamedAt
<1>8. ASSUME NEW p \in Pids, Kill(p) PROVE Names'
  <2>1. Goes(p, "none", 0, local[p])
    BY <1>0, <1>8, OpenFailedRecord DEF Kill, Goes
  <2>2. hist'.killed = hist.killed \cup {p}
    BY <1>0, <1>8 DEF Kill, History
  <2> QED BY <2>1, <2>2 DEF Goes, Names, NamedAt
<1>9. ASSUME NEW p \in Pids, NEW cmd, NEW ifname, Launch(p, cmd, ifname) PROVE Names'
  <2>1. Goes(p, "open", 0, local[p]) /\ client[p].at = "none"
    <3> DEFINE r == [NoClient EXCEPT !.at = "open", !.cmd = cmd, !.ifname = ifname,
                                     !.gen = client[p].gen + 1]
    <3>1. r.at = "open" /\ r.n = 0
      BY DEF NoClient
    <3>2. client' = [client EXCEPT ![p] = r] /\ local' = local /\ client[p].at = "none"
      BY <1>9 DEF Launch
    <3> QED BY <1>0, <3>1, <3>2 DEF Goes
  <2> QED BY <1>9, <2>1 DEF Launch, Goes, Names, NamedAt
<1>10. CASE UNCHANGED vars
  BY <1>10 DEF vars, Names
<1> QED
  BY <1>1, <1>2, <1>3, <1>4, <1>5, <1>6, <1>7, <1>8, <1>9, <1>10
     DEF Next, AgentAct, ClientStep

-----------------------------------------------------------------------------
(* Requests and answers.                                                    *)

\* A process that is at send or waits is named by the first local name, so that
\* no earlier process with its identifier has left a request behind.
LEMMA SenderNotStranded ==
    ASSUME Types, NEW p \in Pids, client[p].at \in {"send", "wait"}
    PROVE  ~Stranded(p) /\ client[p].n = 0
BY DEF Types, Stranded, NamedAt, Cmds

\* A step that leaves the queues of the agents and the process p as they are.
LEMMA OtherAnswers ==
    ASSUME NEW p \in Pids, AnswersOf(p), agent' = agent, client'[p] = client[p],
           local'[p] = local[p], p \notin hist'.wrong
    PROVE  AnswersOf(p)'
BY DEF AnswersOf, Stranded

\* A step of p itself that leaves the queues of the agents as they are.
LEMMA OwnAnswers ==
    ASSUME NEW p \in Pids, AnswersOf(p), agent' = agent, p \notin hist'.wrong,
           NoRequest(p) \/ Stranded(p)',
           client'[p].inbox = <<>> \/ client'[p].at = "close"
    PROVE  AnswersOf(p)'
BY DEF AnswersOf, NoRequest

\* Steps of agents that take nothing from their queues, or all of it.
LEMMA AgentsKeepAnswers ==
    ASSUME Types, NEW a \in Agents, AgentAct(a),
           ~(\E pending \in BOOLEAN : Receive(a, pending)),
           NEW p \in Pids, AnswersOf(p)
    PROVE  AnswersOf(p)'
<1>0. agent \in [Agents -> AgentRecord] /\ client \in [Pids -> ClientRecord]
  BY DEF Types
<1>1. \A b \in Agents : agent'[b].inbox \in {agent[b].inbox, <<>>}
  <2>1. NoAgent.inbox = <<>> /\ [NoAgent EXCEPT !.pc = "unlink", !.sock = "none"].inbox = <<>>
    BY DEF NoAgent
  <2>2. Mkdir(a) \/ Chmod(a) => \A b \in Agents : agent'[b].inbox = agent[b].inbox
    <3>1. CASE Mkdir(a)
      BY <1>0, <3>1 DEF Mkdir, AgentRecord
    <3>2. CASE Chmod(a)
      BY <1>0, <3>2 DEF Chmod, AgentRecord
    <3> QED BY <3>1, <3>2
  <2>3. Bind(a) \/ Unlink(a) \/ Start(a) =>
           \A b \in Agents : agent'[b].inbox = agent[b].inbox
    <3>1. ASSUME NEW x, Step(a, x)
          PROVE  \A b \in Agents : agent'[b].inbox = agent[b].inbox
      BY <1>0, <3>1 DEF Step, AgentRecord
    <3> QED BY <3>1 DEF Bind, Unlink, Start
  <2>4. InitFail(a) \/ eloop_set_exit(a) \/ Rmdir(a) \/ NoSocket(a)
           \/ handle_stop(a) \/ Crash(a) =>
           \/ agent' = [agent EXCEPT ![a] = NoAgent]
           \/ agent' = [agent EXCEPT ![a] =
                          [NoAgent EXCEPT !.pc = "unlink", !.sock = "none"]]
    BY DEF InitFail, eloop_set_exit, Rmdir, NoSocket, handle_stop, Crash, Ends,
           Deinit, Abandon
  <2> QED BY <1>0, <2>1, <2>2, <2>3, <2>4 DEF AgentAct, AgentStep
<1>2. client'[p].inbox = client[p].inbox
  <2>1. client' = client \/ client' = Cut(client, a)
    BY DEF AgentAct, AgentStep, Mkdir, Bind, Chmod, InitFail, eloop_set_exit, Unlink,
           Rmdir, Start, NoSocket, handle_stop, Crash, Deinit, Abandon
  <2> QED BY <1>0, <2>1, CutOnlyPeer
<1>3. /\ client'[p].at = client[p].at /\ client'[p].n = client[p].n
      /\ client'[p].gen = client[p].gen
      /\ local' = local /\ hist'.wrong = hist.wrong
  BY AgentsLeaveNames
<1>4. Stranded(p) => Stranded(p)'
  BY <1>3 DEF Stranded
<1>5. \A b \in Agents : \A i \in DOMAIN agent'[b].inbox :
         i \in DOMAIN agent[b].inbox /\ agent'[b].inbox[i] = agent[b].inbox[i]
  BY <1>1
<1> QED BY <1>2, <1>3, <1>4, <1>5 DEF AnswersOf

\* The answer to the first request of an agent's queue.
LEMMA ReceiveKeepsAnswers ==
    ASSUME Types, Answers, NEW a \in Agents, NEW pending \in BOOLEAN,
           Receive(a, pending), NEW p \in Pids, p \notin hist.gaveup
    PROVE  AnswersOf(p)'
<1> DEFINE q  == agent[a].inbox
           m  == Head(q)
           to == [p |-> m.p, n |-> m.n]
<1>0. agent \in [Agents -> AgentRecord] /\ client \in [Pids -> ClientRecord]
  BY DEF Types
<1>1. q \in Seq(Request) /\ q # <<>> /\ client' = Deliver(a, to, m.gen)
  BY <1>0 DEF Receive, AgentRecord
<1>2. /\ m \in Request /\ m = q[1] /\ 1 \in DOMAIN q /\ Len(q) \in Nat
      /\ DOMAIN q = 1..Len(q) /\ DOMAIN Tail(q) = 1..(Len(q) - 1)
      /\ \A i \in 1..(Len(q) - 1) : Tail(q)[i] = q[i + 1]
  <2> HIDE DEF q
  <2>1. Len(q) \in Nat /\ DOMAIN q = 1..Len(q) /\ Len(q) # 0
    BY <1>1, LenProperties, EmptySeq
  <2>2. Tail(q) \in Seq(Request) /\ Len(Tail(q)) = Len(q) - 1 /\ Head(q) \in Request
    BY <1>1, HeadTailProperties
  <2>3. DOMAIN Tail(q) = 1..(Len(q) - 1)
    BY <2>2, LenProperties
  <2>4. /\ Head(q) = q[1]
        /\ \A i \in 1..(Len(q) - 1) : Tail(q)[i] = q[i + 1]
    BY <1>1, <2>1
  <2> QED BY <2>1, <2>2, <2>3, <2>4
<1>3. /\ agent'[a].inbox = Tail(q)
      /\ \A b \in Agents : b # a => agent'[b].inbox = agent[b].inbox
  BY <1>0 DEF Receive, AgentRecord
<1>4. /\ \A b \in Agents : b # a => \A i \in DOMAIN agent'[b].inbox :
            i \in DOMAIN agent[b].inbox /\ agent'[b].inbox[i] = agent[b].inbox[i]
      /\ \A i \in DOMAIN agent'[a].inbox :
            i \in Nat /\ i + 1 \in DOMAIN q /\ i + 1 # 1 /\ agent'[a].inbox[i] = q[i + 1]
  BY <1>2, <1>3
<1>5. /\ client'[p].at = client[p].at /\ client'[p].n = client[p].n
      /\ client'[p].gen = client[p].gen
      /\ local' = local /\ hist'.wrong = hist.wrong
  BY AgentsLeaveNames DEF AgentAct, AgentStep
<1>6. Stranded(p)' = Stranded(p)
  BY <1>5 DEF Stranded
<1>7. to \in [p : Pids, n : Nat] /\ m.gen \in Nat /\ to.p = m.p /\ to.n = m.n
  <2> HIDE DEF m
  <2> QED BY <1>2 DEF Request
<1>8. \/ client'[p].inbox = client[p].inbox
      \/ /\ p = m.p /\ Bound(p, m.n)
         /\ client'[p].inbox = Append(client[p].inbox, m.gen)
  <2> HIDE DEF m, to
  <2>1. \/ client'[p].inbox = client[p].inbox
        \/ /\ p = to.p /\ Bound(p, to.n)
           /\ client'[p].inbox = Append(client[p].inbox, m.gen)
    BY <1>1, <1>7, DeliverOnlyInbox
  <2> QED BY <1>7, <2>1
<1>9. AnswersOf(p)
  BY DEF Answers
<1> HIDE DEF m, to
<1>10. CASE p = m.p
  <2>1. /\ m.n = 0
        /\ \/ Stranded(p)
           \/ client[p].at = "wait" /\ client[p].inbox = <<>> /\ m.gen = client[p].gen
    BY <1>2, <1>9, <1>10 DEF AnswersOf
  <2>2. NoRequest(p)'
    <3>1. \A b \in Agents : \A i \in DOMAIN agent[b].inbox :
             agent[b].inbox[i].p = p => b = a /\ i = 1
      BY <1>2, <1>9, <1>10 DEF AnswersOf
    <3> QED BY <1>4, <3>1 DEF NoRequest
  <2>3. Bound(p, 0) => ~Stranded(p)
    BY DEF Bound, Stranded, NamedAt
  <2>4. \/ client'[p].inbox = client[p].inbox
        \/ /\ client[p].at = "wait"
           /\ client'[p].inbox = Append(<<>>, client[p].gen)
    BY <1>8, <1>10, <2>1, <2>3
  <2>5. \A k \in DOMAIN Append(<<>>, client[p].gen) :
           Append(<<>>, client[p].gen)[k] = client[p].gen
    BY <1>0 DEF ClientRecord
  <2> QED BY <1>5, <1>9, <2>2, <2>4, <2>5 DEF AnswersOf, NoRequest
<1>11. CASE p # m.p
  <2>1. client'[p].inbox = client[p].inbox
    BY <1>8, <1>11
  <2>2. \A b \in Agents : \A i \in DOMAIN agent'[b].inbox :
           agent'[b].inbox[i].p = p =>
              /\ agent'[b].inbox[i].n = 0
              /\ \/ Stranded(p)
                 \/ /\ client[p].at = "wait" /\ client[p].inbox = <<>>
                    /\ agent'[b].inbox[i].gen = client[p].gen
    BY <1>4, <1>9 DEF AnswersOf
  <2>3. ASSUME NEW b \in Agents, NEW c \in Agents,
               NEW i \in DOMAIN agent'[b].inbox, NEW j \in DOMAIN agent'[c].inbox,
               agent'[b].inbox[i].p = p, agent'[c].inbox[j].p = p
        PROVE  b = c /\ i = j
    <3> DEFINE k == IF b = a THEN i + 1 ELSE i
               l == IF c = a THEN j + 1 ELSE j
    <3>1. /\ k \in DOMAIN agent[b].inbox /\ agent[b].inbox[k] = agent'[b].inbox[i]
          /\ l \in DOMAIN agent[c].inbox /\ agent[c].inbox[l] = agent'[c].inbox[j]
      BY <1>4
    <3>2. b = c /\ k = l
      <4> HIDE DEF k, l
      <4> QED BY <1>9, <2>3, <3>1 DEF AnswersOf
    <3>3. CASE b = a
      BY <1>4, <3>2, <3>3
    <3>4. CASE b # a
      BY <3>2, <3>4
    <3> QED BY <3>3, <3>4
  <2> QED BY <1>5, <1>6, <1>9, <2>1, <2>2, <2>3 DEF AnswersOf
<1> QED BY <1>10, <1>11

\* The request of a process joins the queue of an agent.
LEMMA SendKeepsAnswers ==
    ASSUME Types, Answers, NEW c \in Pids, Send(c), NEW p \in Pids, p \notin hist.gaveup
    PROVE  AnswersOf(p)'
<1> DEFINE m == [p |-> c, n |-> client[c].n, gen |-> client[c].gen, cmd |-> client[c].cmd]
<1>0. /\ agent \in [Agents -> AgentRecord] /\ client \in [Pids -> ClientRecord]
      /\ \A a \in Agents : agent[a].inbox \in Seq(Request)
  BY DEF Types, AgentRecord
<1>1. AnswersOf(p)
  BY DEF Answers
<1>2. client[c].at = "send" /\ local' = local /\ hist' = hist
  BY DEF Send
<1>3. CASE agent' = agent /\ client' = [client EXCEPT ![c].at = "close"]
  <2>1. CASE p = c
    <3>1. NoRequest(p)
      BY <1>1, <1>2, <2>1, SenderNotStranded DEF AnswersOf, NoRequest
    <3>2. client'[p].at = "close"
      BY <1>0, <1>3, <2>1 DEF ClientRecord
    <3> QED BY <1>1, <1>2, <1>3, <3>1, <3>2, OwnAnswers DEF AnswersOf
  <2>2. CASE p # c
    BY <1>0, <1>1, <1>2, <1>3, <2>2, OtherAnswers DEF AnswersOf
  <2> QED BY <2>1, <2>2
<1>4. CASE /\ client[c].peer \in Agents
           /\ agent' = [agent EXCEPT ![client[c].peer].inbox = Append(@, m)]
           /\ client' = [client EXCEPT ![c].at = "wait"]
  <2> DEFINE b == client[c].peer
             k == Len(agent[b].inbox) + 1
  <2>1. m.p = c /\ m.n = client[c].n /\ m.gen = client[c].gen /\ m \in Request
    BY <1>0, <1>2 DEF Request, ClientRecord, Types
  <2> HIDE DEF m
  <2>2. /\ b \in Agents /\ agent[b].inbox \in Seq(Request)
        /\ agent'[b].inbox = Append(agent[b].inbox, m)
        /\ \A a \in Agents : a # b => agent'[a].inbox = agent[a].inbox
    BY <1>0, <1>4 DEF AgentRecord
  <2> HIDE DEF b
  <2>3. /\ \A a \in Agents : \A i \in DOMAIN agent'[a].inbox :
             \/ i \in DOMAIN agent[a].inbox /\ agent'[a].inbox[i] = agent[a].inbox[i]
             \/ a = b /\ i = k /\ agent'[a].inbox[i] = m
    <3> SUFFICES ASSUME NEW i \in DOMAIN agent'[b].inbox
                 PROVE  \/ i \in DOMAIN agent[b].inbox
                           /\ agent'[b].inbox[i] = agent[b].inbox[i]
                        \/ i = k /\ agent'[b].inbox[i] = m
      BY <2>2
    <3> DEFINE s == agent[b].inbox
    <3>1. s \in Seq(Request) /\ k = Len(s) + 1 /\ Len(s) \in Nat /\ DOMAIN s = 1..Len(s)
      BY <2>2, LenProperties
    <3>2. agent'[b].inbox = Append(s, m) /\ i \in DOMAIN Append(s, m)
      BY <2>2
    <3> HIDE DEF s, k
    <3>3. i \in 1..(Len(s) + 1)
      BY <2>1, <3>1, <3>2
    <3>4. Append(s, m)[i] = IF i = Len(s) + 1 THEN m ELSE s[i]
      BY <2>1, <3>1, <3>3
    <3> QED BY <3>1, <3>2, <3>3, <3>4 DEF s
  <2> HIDE DEF k
  <2>4. /\ client'[c].at = "wait" /\ client'[c].n = client[c].n
        /\ client'[c].gen = client[c].gen /\ client'[c].inbox = client[c].inbox
        /\ \A q \in Pids : q # c => client'[q] = client[q]
    BY <1>0, <1>4 DEF ClientRecord
  <2>5. CASE p = c
    <3>1. NoRequest(p) /\ client[p].inbox = <<>> /\ client[p].n = 0
      BY <1>1, <1>2, <2>5, SenderNotStranded DEF AnswersOf, NoRequest
    <3>2. \A a \in Agents : \A i \in DOMAIN agent'[a].inbox :
             agent'[a].inbox[i].p = p => a = b /\ i = k /\ agent'[a].inbox[i] = m
      BY <2>3, <3>1 DEF NoRequest
    <3>3. p \notin hist'.wrong
      BY <1>1, <1>2 DEF AnswersOf
    <3>4. m.n = 0 /\ m.gen = client'[p].gen
      BY <2>1, <2>4, <2>5, <3>1
    <3> QED BY <2>4, <2>5, <3>1, <3>2, <3>3, <3>4 DEF AnswersOf
  <2>6. CASE p # c
    <3>1. \A a \in Agents : \A i \in DOMAIN agent'[a].inbox :
             agent'[a].inbox[i].p = p =>
                i \in DOMAIN agent[a].inbox /\ agent'[a].inbox[i] = agent[a].inbox[i]
      BY <2>1, <2>3, <2>6
    <3>2. Stranded(p)' = Stranded(p) /\ client'[p] = client[p]
      BY <1>2, <2>4, <2>6 DEF Stranded
    <3> QED BY <1>1, <1>2, <3>1, <3>2 DEF AnswersOf
  <2> QED BY <2>5, <2>6
<1> QED BY <1>3, <1>4 DEF Send

\* The other steps of clients.
LEMMA ClientKeepsAnswers ==
    ASSUME Types, Names, Answers, NEW c \in Pids,
           \/ ClientStep(c) /\ ~Send(c)
           \/ Kill(c)
           \/ \E cmd \in Cmds \cup {"interactive"}, ifname \in BOOLEAN :
                 Launch(c, cmd, ifname),
           NEW p \in Pids, p \notin hist'.gaveup
    PROVE  p \notin hist.gaveup /\ AnswersOf(p)'
<1>0. client \in [Pids -> ClientRecord] /\ local \in [Pids -> SUBSET Nat] /\ hist \in History
  BY DEF Types
<1>1. agent' = agent
  BY DEF ClientStep, NoInterface, BindLocal, BindLocalFails, Connect, ConnectFails, Recv,
         Timeout, Close, Kill, Launch
<1>2. /\ \A q \in Pids : q # c => client'[q] = client[q] /\ local'[q] = local[q]
  BY <1>0 DEF ClientStep, NoInterface, BindLocal, BindLocalFails, Connect, ConnectFails,
              Recv, Timeout, Close, Kill, Launch
<1>3. /\ hist.gaveup \subseteq hist'.gaveup
      /\ Recv(c) => hist'.wrong = IF Head(client[c].inbox) = client[c].gen THEN hist.wrong
                                  ELSE hist.wrong \cup {c}
      /\ Timeout(c) => hist'.wrong = hist.wrong /\ c \in hist'.gaveup
      /\ Kill(c) => hist'.wrong = hist.wrong
      /\ Recv(c) \/ Timeout(c) \/ Kill(c) \/ hist' = hist
  <2>1. Recv(c) => /\ hist'.gaveup = hist.gaveup
                   /\ hist'.wrong = IF Head(client[c].inbox) = client[c].gen THEN hist.wrong
                                    ELSE hist.wrong \cup {c}
    BY <1>0 DEF Recv, History
  <2>2. Timeout(c) => hist'.wrong = hist.wrong /\ hist'.gaveup = hist.gaveup \cup {c}
    BY <1>0 DEF Timeout, History
  <2>3. Kill(c) => hist'.wrong = hist.wrong /\ hist'.gaveup = hist.gaveup
    BY <1>0 DEF Kill, History
  <2>4. Recv(c) \/ Timeout(c) \/ Kill(c) \/ hist' = hist
    BY DEF ClientStep, NoInterface, BindLocal, BindLocalFails, Connect, ConnectFails,
           Close, Launch
  <2> QED BY <2>1, <2>2, <2>3, <2>4
<1>4. p \notin hist.gaveup /\ AnswersOf(p)
  BY <1>3 DEF Answers
<1>5. CASE p # c
  <2>1. p \notin hist'.wrong
    BY <1>3, <1>4, <1>5 DEF AnswersOf
  <2> QED BY <1>1, <1>2, <1>4, <1>5, <2>1, OtherAnswers
<1>6. CASE p = c
  <2> DEFINE K == client[p]
  <2>0. K \in ClientRecord /\ (K.at \in {"send", "wait"} => ~Stranded(p))
    BY <1>0, SenderNotStranded
  <2>a. NoRequest(p) \/ Stranded(p) \/ (K.at = "wait" /\ K.inbox = <<>>)
    <3>1. \A a \in Agents : \A i \in DOMAIN agent[a].inbox :
             agent[a].inbox[i].p = p =>
                Stranded(p) \/ (K.at = "wait" /\ K.inbox = <<>>)
      BY <1>4 DEF AnswersOf
    <3> HIDE DEF K
    <3> QED BY <3>1 DEF NoRequest
  <2>b. K.at \in {"none", "open", "connect", "send"} => K.inbox = <<>>
    BY <1>4 DEF AnswersOf
  <2>c. /\ Gone(p).at = "none" /\ Gone(p).n = 0 /\ Gone(p).inbox = <<>>
        /\ OpenFailed(p).inbox = <<>> /\ OpenFailed(p).at \in {"none", "open"}
    BY OpenFailedRecord
  <2>d. p \notin hist.wrong
    BY <1>4 DEF AnswersOf
  <2>1. CASE NoInterface(c)
    <3>1. client'[p] = Gone(p) /\ local' = local /\ hist' = hist /\ K.at = "open"
      BY <1>0, <1>6, <2>1 DEF NoInterface
    <3>2. NoRequest(p) \/ Stranded(p)'
      BY <2>a, <2>c, <3>1 DEF Stranded, NamedAt
    <3> QED BY <1>1, <1>4, <2>c, <2>d, <3>1, <3>2, OwnAnswers
  <2>2. CASE BindLocal(c)
    <3>1. /\ client'[p].at = "connect" /\ client'[p].n = K.n /\ client'[p].inbox = K.inbox
          /\ local'[p] = local[p] \cup {K.n} /\ hist' = hist /\ K.at = "open"
      BY <1>0, <1>6, <2>2 DEF BindLocal, ClientRecord
    <3>2. K.n # 0 \/ 0 \notin local[p]
      BY <1>6, <2>2, CtrlAssumption DEF BindLocal
    <3>3. NoRequest(p) \/ Stranded(p)'
      BY <2>a, <3>1, <3>2 DEF Stranded, NamedAt
    <3> QED BY <1>1, <1>4, <2>b, <2>d, <3>1, <3>3, OwnAnswers
  <2>3. CASE BindLocalFails(c)
    <3>1. client'[p] = OpenFailed(p) /\ local' = local /\ hist' = hist /\ K.at = "open"
      BY <1>0, <1>6, <2>3 DEF BindLocalFails
    <3>2. NoRequest(p) \/ Stranded(p)'
      BY <2>a, <2>c, <3>1 DEF Stranded, NamedAt
    <3> QED BY <1>1, <1>4, <2>c, <2>d, <3>1, <3>2, OwnAnswers
  <2>4. CASE Connect(c)
    <3>1. /\ client'[p].n = K.n /\ client'[p].inbox = K.inbox
          /\ local' = local /\ hist' = hist /\ K.at = "connect"
      BY <1>0, <1>6, <2>4 DEF Connect, ClientRecord
    <3>2. NoRequest(p) \/ Stranded(p)'
      BY <2>a, <3>1 DEF Stranded, NamedAt
    <3> QED BY <1>1, <1>4, <2>b, <2>d, <3>1, <3>2, OwnAnswers
  <2>5. CASE ConnectFails(c)
    <3>1. /\ client'[p] = OpenFailed(p) /\ local'[p] = local[p] \ {K.n}
          /\ hist' = hist /\ K.at = "connect"
      BY <1>0, <1>6, <2>5 DEF ConnectFails
    <3>2. NoRequest(p) \/ Stranded(p)'
      BY <2>a, <2>c, <3>1 DEF Stranded, NamedAt
    <3> QED BY <1>1, <1>4, <2>c, <2>d, <3>1, <3>2, OwnAnswers
  <2>6. CASE Recv(c)
    <3>1. client'[p].at = "close" /\ K.at = "wait" /\ K.inbox # <<>>
      BY <1>0, <1>6, <2>6 DEF Recv, ClientRecord
    <3>2. Head(K.inbox) = K.gen
      <4>1. K.inbox \in Seq(Nat) /\ 1 \in DOMAIN K.inbox /\ Head(K.inbox) = K.inbox[1]
        BY <2>0, <3>1 DEF ClientRecord
      <4> QED BY <1>4, <3>1, <4>1 DEF AnswersOf
    <3>3. p \notin hist'.wrong
      BY <1>3, <1>6, <2>6, <2>d, <3>2
    <3>4. NoRequest(p)
      BY <2>0, <2>a, <3>1
    <3> QED BY <1>1, <1>4, <3>1, <3>3, <3>4, OwnAnswers
  <2>7. CASE Timeout(c)
    BY <1>3, <1>6, <2>7
  <2>8. CASE Close(c)
    <3>1. /\ client'[p] = Gone(p) /\ local'[p] = local[p] \ {K.n}
          /\ hist' = hist /\ K.at = "close"
      BY <1>0, <1>6, <2>8 DEF Close
    <3>2. NoRequest(p) \/ Stranded(p)'
      BY <2>a, <2>c, <3>1 DEF Stranded, NamedAt
    <3> QED BY <1>1, <1>4, <2>c, <2>d, <3>1, <3>2, OwnAnswers
  <2>9. CASE Kill(c)
    <3>1. client'[p] = Gone(p) /\ local' = local
      BY <1>0, <1>6, <2>9 DEF Kill
    <3>2. K.at = "wait" => 0 \in local[p]
      BY SenderNotStranded DEF Names, NamedAt
    <3>3. NoRequest(p) \/ Stranded(p)'
      BY <2>a, <2>c, <3>1, <3>2 DEF Stranded, NamedAt
    <3> QED BY <1>1, <1>3, <1>4, <2>9, <2>c, <2>d, <3>1, <3>3, OwnAnswers
  <2>10. ASSUME NEW cmd, NEW ifname, Launch(c, cmd, ifname) PROVE AnswersOf(p)'
    <3>1. /\ client'[p].at = "open" /\ client'[p].inbox = <<>>
          /\ local' = local /\ hist' = hist /\ K.at = "none"
      <4> DEFINE r == [NoClient EXCEPT !.at = "open", !.cmd = cmd, !.ifname = ifname,
                                       !.gen = client[p].gen + 1]
      <4>1. r.at = "open" /\ r.inbox = <<>>
        BY DEF NoClient
      <4>2. /\ client' = [client EXCEPT ![p] = r] /\ local' = local
            /\ hist' = hist /\ K.at = "none"
        BY <1>6, <2>10 DEF Launch
      <4> QED BY <1>0, <4>1, <4>2
    <3>2. NoRequest(p) \/ Stranded(p)'
      BY <2>a, <3>1 DEF Stranded, NamedAt
    <3> QED BY <1>1, <1>4, <2>d, <3>1, <3>2, OwnAnswers
  <2> QED BY <1>4, <2>1, <2>2, <2>3, <2>4, <2>5, <2>6, <2>7, <2>8, <2>9, <2>10
          DEF ClientStep
<1> QED BY <1>4, <1>5, <1>6

\* No step breaks the invariant of requests and answers.
LEMMA NextAnswers ==
    ASSUME Types, Names, Answers, [Next]_vars
    PROVE  Answers'
<1> SUFFICES ASSUME NEW p \in Pids, p \notin hist'.gaveup
             PROVE  AnswersOf(p)'
  BY DEF Answers
<1>1. ASSUME NEW a \in Agents, AgentAct(a) PROVE AnswersOf(p)'
  <2>1. p \notin hist.gaveup /\ AnswersOf(p)
    BY <1>1, AgentsLeaveNames DEF Answers
  <2> QED BY <1>1, <2>1, AgentsKeepAnswers, ReceiveKeepsAnswers
<1>2. ASSUME NEW c \in Pids, Send(c) PROVE AnswersOf(p)'
  <2>1. hist' = hist
    BY <1>2 DEF Send
  <2> QED BY <1>2, <2>1, SendKeepsAnswers
<1>3. CASE UNCHANGED vars
  BY <1>3, OtherAnswers DEF vars, Answers, AnswersOf
<1> QED BY <1>1, <1>2, <1>3, ClientKeepsAnswers DEF Next, AgentAct, ClientStep

-----------------------------------------------------------------------------
(* The theorems.                                                            *)

\* The interface starts within the invariant.
LEMMA InitIInv == Init => IInv
<1> SUFFICES ASSUME Init PROVE IInv
  OBVIOUS
<1>1. /\ \A a \in Agents : agent[a].pc = "off" /\ agent[a].inbox = <<>>
      /\ \A p \in Pids : client[p].at = "none" /\ client[p].inbox = <<>> /\ local[p] = {}
      /\ file = "none" /\ hist.fails = 0 /\ hist.wrong = {}
  BY DEF Init, NoAgent, NoClient
<1> QED BY <1>1, InitTypes
        DEF IInv, Sock, Lock, Alone, Alive, Names, NamedAt, Answers, AnswersOf

\* No step leaves the invariant.
LEMMA NextIInv == IInv /\ [Next]_vars => IInv'
BY NextTypes, NextPath, NextNames, NextAnswers DEF IInv, Path

\* The invariant of the control interface, whoever starts, stops, crashes or is
\* killed when.
LEMMA SpecIInv == Spec => []IInv
BY InitIInv, NextIInv, PTL DEF Spec

\* An agent that is up owns the path: bind, chmod and the unlinks of
\* admlink_ctrl_iface_init and _deinit make the path a lock as long as no start
\* fails, and a single agent owns it whatever failed before.
THEOREM PathIsOwned == Spec => []PathOwned
<1>1. IInv => PathOwned
  BY DEF IInv, Lock, Alone, PathOwned, Up, Alive
<1> QED BY <1>1, SpecIInv, PTL

\* The file that a crash leaves in the way of bind costs one failed start.
THEOREM SecondStart == Spec => []SecondStartWorks
<1>1. IInv => SecondStartWorks
  BY DEF IInv, Types, History, Alone, SecondStartWorks
<1> QED BY <1>1, SpecIInv, PTL

\* Whatever path the exit of an agent or of a client takes, admlink_ctrl_iface_deinit
\* and admlink_ctrl_close leave no file behind unless something interrupts them.
THEOREM NothingIsLeft == Spec => []NothingLeft
<1>1. IInv => NothingLeft
  BY DEF IInv, Alone, Names, NamedAt, NothingLeft, Alive
<1> QED BY <1>1, SpecIInv, PTL

\* admlink_ctrl_request takes the answer to another request for its own only
\* after a timeout of an earlier client with the same process identifier.
THEOREM OwnAnswerTaken == Spec => []OwnAnswer
<1>1. IInv => OwnAnswer
  BY DEF IInv, Types, History, Answers, AnswersOf, OwnAnswer
<1> QED BY <1>1, SpecIInv, PTL
=============================================================================
