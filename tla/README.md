# A verification of mq_cloud_agent

TLA+ models of the agent, TLC runs that check them on small instances, and TLAPS
proofs, for every value of the constants, of all the safety properties the runs check:
those of the send buffer, the client, the byte streams below it, the event loop, the agent
and the control interface. `PROJECT.json` lists the runs, the mutants, the source lines
behind every definition, the findings, the hazards and the theorems.

## 1. The system

The agent is one single-threaded C program. It keeps two TLS connections to an MQTT
broker (`mqrecv` receives remote commands, `mqupld` uploads events), driven by a
`select` loop, and a Unix datagram socket for local commands.

| Part | State it keeps | Operations | Interaction |
|---|---|---|---|
| Send queue (`src/mqtt.c`, `mqtt_mq_*`) | one byte array: packets from below, records from above; `curr`, `curr_sz`, `queue_tail` | init, register, clean, find | every request of the client goes through it (`MQTT_CLIENT_TRY_PACK`) |
| MQTT client (`src/mqtt.c`) | `error`, `pid_lfsr`, `time_of_last_send`, message states, receive buffer, mutex | publish, (un)subscribe, disconnect, `mqtt_sync` = receive everything, scan and send, keep alive | calls `publish_callback` inside `mqtt_sync` with the mutex held |
| Packet codec and framing (`src/mqtt.c`) | the receive buffer, the packed bytes | pack, unpack, the loops of `__mqtt_recv` and `__mqtt_send` around them | called by the client |
| Platform layer (`src/mqtt_pal.c`) | none | `sendall`, `recvall` on a BIO | called by the client; may block |
| Event loop (`src/eloop.c`) | sorted list of timeouts, table of readers, flags of signals | register, cancel, run, terminate, destroy | calls every handler of the agent |
| State machine (`admlink_sm.c`, `admlink_socket.c`) | `status` and `biofd` of each connection, `agstatus`, `tinfo` | `chk_agstatm` every 30 s, `ag_handle_clttraffic` every 0.2 s per connection | opens and closes connections, registers timeouts |
| Remote commands (`admlink_msghdl.c`, `admlink_misc.c`) | publishes left to a timeout | `admlink_process_rc`, `eloop_set_publish` | from the callback to both connections |
| Control interface (`admlink_ctrl_if.c`, `admlink-ctrl/`) | the socket and its file; a local name per client | init, deinit, receive, `stop`, `sendtest`; open, request, close | registers timeouts; two programs that share a directory |
| Start and exit (`admlink_main.c`) | the global agent | `main`, `exit_link`, `close_conn`, `handle_stop` | everything |
| cJSON | - | parse | vendored, not modelled |

What is hard: the arithmetic of two structures in one array; retransmissions that race
late answers; handlers called with a mutex held; handlers that close a connection another
pending handler will use; one-shot timeouts that must be registered again on every path;
signal handlers that run the whole exit on top of any other code; peers that hang up or
stop answering at any step; a socket file that outlives the process that made it.

What makes each part correct: *queue* - every queued packet keeps its bytes and its order, and
a full buffer is reported only when it is full; *framing* - exactly the packets of the broker,
and at the broker exactly the requests, however the stream is cut; *client* - QoS 2 exactly
once, QoS 1 never lost within a session, in order, and every loss of the connection noticed;
*event loop* - due timeouts in order, no signal forgotten, nothing starved; *agent* - every
connection served, lost ones made again, answers in order, `stop` obeyed; *control interface* -
the path leads to the agent that serves it, and every client gets its own answer or gives up.

## 2. The modules

* `SendQueue` - what the users of the queue rely on: a sequence of messages whose
  states only move forward and which leave from the front when COMPLETE.
* `MqttQueue` - the send buffer byte by byte. `mq.queue[i]` is `mqtt_mq_get(mq, i-1)`,
  `mem` labels every byte with the message that wrote it. A packing function that finds
  no room has already written a header: `FailedPack`. `Implements` is the refinement of
  `SendQueue`.
* `MqttClient` - one session of the client with its broker. The queue is the abstract one with
  room for `QueueCap` messages. A *plan*, chosen in `Init`, says what the application and the
  broker may do in a behaviour, so that one run takes several loads. `mqtt_sync` is a sequence
  of steps (`pc`): one packet received per `Recv*` action, one message of the queue per
  `Send*` action, then `KeepAliveCheck`; the broker, the clock and hang-ups move between any
  two of them. The broker is external: it obeys MQTT 3.1.1, answers in order, as late as it
  likes, and closes a connection that it has refused or on which a second CONNECT comes. An
  identifier read from a record that never got one (CONNECT, PINGREQ) is arbitrary, so
  `__mqtt_next_pid` may skip one identifier per such record.
* `MqttCodec` - the packing and unpacking functions as operators on sequences of bytes. A
  packing function gives the remaining length it announces and the bytes it writes
  separately, since the code counts the one and writes the other in different places. The
  loops of the code are recursive functions; `Base` is what one byte of a remaining length
  counts to (128 in the code), `Weight` the shift of `mqtt_unpack_fixed_header`.
* `RecvBuffer` - below `MqttClient`, whose channel `b2c` it justifies: the packets of the
  broker as bytes, a network that delivers any number of them at a time, the receive
  buffer and the loop of `__mqtt_recv` (`recvall`, then one of `Refuse`, `AwaitMore`,
  `HandlePacket`). Packets are packed by the code's own functions and unpacked again, so
  the run also checks the one against the other. `buf` is the memory from `mem_start` to
  `curr`. What the switch of `__mqtt_recv` does with a packet is in `MqttClient`; here it
  succeeds or fails.
* `SendStream` - below `MqttClient` on the other side, whose channel `c2b` it justifies:
  requests packed into the queue, `__mqtt_send` at message `pc.i` with `pc.off` bytes
  written, one `Write` per `BIO_write`, a socket with little room, and a broker that reads
  the bytes by the rules of the standard and not with the code's own functions. An answer
  only completes its message, a timeout is a choice.
* `TimeoutList` - the sorted list of timeouts, used by the two modules below.
* `Eloop` - the event loop with readers, signals, cancelling and termination, under a
  client that calls it from its handlers in every way. A socket is its descriptor: its owner
  may close it once it is unregistered (`CloseSock`), and a later registration of the same
  number is another socket; `stale` are those of which `select` spoke before the close.
  `eloop_register_signal` is two steps, since signals arrive between `realloc` and the
  assignment of `eloop.signals` (`moved`).
* `Agent` - the two connections, the state machine, the deferred publishes, control
  commands, exit and signals. A client is reduced to its socket, its error and its mutex,
  which every call of the client takes (`Lock`) and releases. What C leaves undefined (reading
  a freed BIO, a destroyed event loop, a second destroy, an `rc_id` longer than the buffer of
  the answer) is a choice between going on and `crashed`; waiting for a mutex that is held is
  `hung`. A signal is taken between the steps of the model, so also while a mutex is held,
  which then stays so (`cut`): the interrupted code never goes on.
* `CtrlIface` - several agents and clients around one path, one action per system call:
  `mkdir`, `bind`, `chmod`, and on the way out `close`, `unlink`, `rmdir`; for a client
  `bind`, `connect`, `send`, `recv`, `unlink`. `agent[a].sock` is `ctrl_sock` (`zero`
  before init, as `memset` left it). A signal runs `exit_link` between any two steps. The
  reply is reduced to the request it answers, and what `stop` does between its timeout and
  the exit is in `Agent`.
* `MC*` modules give TLC its budgets and symmetry.
* `*Proofs` modules hold the theorems of section 4, each extending the module it is named
  after; the proofs about the two streams also extend `MqttCodecProofs`, those about the
  agent begin with `TimeoutList`.

Abstractions: packet contents, topics, JSON texts, log output; time as ages and
remaining ticks, saturated where larger values make no difference; packet identifiers
as positions in the cycle of the LFSR. `NPid` (8 or 9) is enough for the messages of any run
(`EnoughPids` of section 4): no identifier is given again while a packet of its last message
is under way. The real length of the cycle is 65535, and a wrap that meets such a packet would need that many
publishes during its flight. With `NPid = 3` and two publishes each of QoS 1 and 2 TLC
finds that `ExactlyOnce` and `NeverLost` fail: a QoS 1 message is transmitted twice and
forgotten after its first PUBACK, and the second PUBACK completes an unsent message that got
the same identifier, since `__mqtt_next_pid` compares with the queue only. Section 4 makes
the condition explicit.

## 3. Runs

| Run | Bounds | What it shows |
|---|---|---|
| `queue` | 18 bytes, records of 3, packets of 2-4, 4 messages, symmetric | `TypeOK` (nothing wraps), `Layout`, `NoCorruption`, `RefusalJustified`, `Implements`. Up to three packets fit, so `clean` drops one or two and moves the rest by other sizes than their own |
| `client` | queue of 2; either two QoS 2 publishes and a QoS 0 one, or a QoS 1 publish, one request of either kind, two pushes of different QoS with one resend and refusals | `ExactlyOnce`, `OrderedPerQoS`, `OneQos2AtATime` (the hold-back of QoS 2 in every pass), `TypeOK` (the queue never outgrows the buffer) with retransmissions of PUBLISH and PUBREL at any time; `NeverLost` while the buffer is full most of the time; `CalledAtMostOnce` |
| `client_session` | queue of 2; either two QoS 2 publishes, of which the younger is held back, or a QoS 1 publish with hang-ups, a refused CONNECT, a DISCONNECT and two connections; fairness | `Acknowledged` (every handshake ends, behind a message that holds it back too, or the client reports an error), `LossNoticed` |
| `recv_buffer` | CONNACK and two of eight packets, then CONNACK and one more after a reconnect; buffer of 13 bytes, `Base` 2 (one bit of length per byte); hang-ups, failing handlers, fairness | `InStep` (also: the buffer is never overrun), `ErrorJustified`, `Delivered`. The packets have lengths of one to four bytes, one fills the buffer, one is too large, one is the shortest PUBLISH |
| `send_stream` | three CONNECT variants, a PUBLISH of each QoS, SUBSCRIBE with one topic and with too many, UNSUBSCRIBE, PUBREL, DISCONNECT; two requests in the first connection and one in the second, one resend; buffer of 36 bytes, records and socket of 3, `Base` 4 (two bits of length per byte); hang-ups, fairness | `TypeOK` (also: every packet has the size it announced and the buffer is not overrun), `Understood`, `DupMarked`, `SyncReturns`. A packet needs several writes, its length one to three bytes; the buffer is too small for some pairs of requests. The other acknowledgements have the bytes of PUBREL, PINGREQ those of DISCONNECT but for the type |
| `eloop` | two sockets, two handlers with one timeout pending each, two signals of which one asks for termination, any of them registered before the loop; two changes of the tables, two arrivals; fairness | `ReadOnlyReady`, `SignalSeen`, `AlarmCovered`, `DueRuns`, `ReadyRead`, `SignalHandled`. Two changes are what it takes to close a socket and open it again in one turn, to register a signal and terminate, and to end the loop over the sockets twice |
| `agent` | two remote commands, or a remote or a control command with one of: the other one, a full buffer, a signal; fairness | `TypeOK` (also: the list of timeouts is sorted), `SmAlive`, `ConnServed`, `StatusMeansSocket`, `PublishOrder`, `SafeOnceUp`, `NoSelfDeadlock`, `StopHonoured`, `Reconnects`. Each hazard of the list takes two of these events, the connections fail as often as they like |
| `ctrl` | two agents and three starts, one crash or failing call, one signal, two launches of clients with one process identifier, one kill, three local names, fairness | `PathOwned`, `SecondStartWorks`, `NothingLeft`, `OwnAnswer`, `Connects`. Three starts are a crash, the failed start after it and the one that works; two launches with one identifier are a client and the one that inherits its name |

A response timeout of 0 ticks means that any two steps may be a timeout apart, which is
the worst case for races with late answers. `SM_CHECK_T` is three times `MQTT_SYN_T`:
the ratio of 150 in the code only adds turns of the same traffic. Deadlock is checked in
`queue`; the other systems really stop (a session that ended, a loop that returned, a
process that exited).

In `client_session` the socket takes two packets, as many as a pass over the queue sends.
With a socket smaller than a pass TLC finds that client and broker may wait for each other
for ever, each writing to a full socket: `mqtt_pal_sendall` does not read while it waits. That
needs a broker which does not read while its own write is blocked, and is excluded with it.

Fairness. Client: `mqtt_sync` is called again and again (what `ConnServed` checks in `Agent`)
and the broker keeps reading, and closes what it must close. Event loop: the thread runs and
time passes. Receive buffer: the same, and the network delivers. Send stream: a call of
`__mqtt_send` goes on, and a broker that has not hung up reads. Control interface: every
process that can run does, and the 42 seconds of a client pass; nobody has to start an agent.
Agent: as for the event loop, and strong fairness of the two steps of connecting, meaning that
a broker asked again and again accepts again and again; without it nothing can be said about
reconnecting. So `StopHonoured` ("whatever the connections do") is about connections that
fail, close and come again. A peer that stops reading for ever is excluded: `mqtt_pal_sendall`
then blocks the whole program.

### Findings

Four runs end in a violation of what a document or a comment says:

* `client_slow_broker`: after `response_timeout` a PINGREQ is sent again; the broker answers
  both, the second answer finds no open request and the client fails with ACK_OF_UNKNOWN.
* `client_reused_pid`: a QoS 2 PUBLISH whose identifier was used before is taken for a
  duplicate as long as the old COMPLETE PUBREC has not been cleaned; it is dropped and
  not answered.
* `agent_late`: `exit_link` destroys the event loop before `close_conn` synchronises the
  clients, whose callback may register timeouts.
* `agent_reboot`: "Process commands only if system is not going to reboot"
  (`src/admlink_ctrl_if.c:199`), but `check_agstatus` resets `isReboot` in the next run of
  the state machine, and control commands are processed again.

Also visible in the models, without a run of their own:

* *Agent.* A publish that meets a full buffer (`eloop_set_publish`) closes the connection
  but leaves its traffic handler pending, which then reads from the freed BIO; after the
  reconnect two chains of traffic serve the connection (`ConnServed` allows for it,
  `SafeOnceUp` excepts it). A `sendtest` before the first connection publishes on a client
  that is all zeros (crash); a remote command before `mqupld` was ever up formats a NULL
  time (`admlink_process_rc`, crash). An `rc_id` that is not a JSON string has no
  `valuestring` (`src/admlink_msghdl.c:143`) and ends the process in `strcmp` (`:111`), one
  longer than `resbuf` runs over it (`:104`); both are in the model, and `SafeOnceUp` excepts
  them. (An `rc_id` of less than four characters is also written past its end, at `:45`, which
  the model leaves out.) A signal inside a call of a client ends in waiting for the own mutex.
* *Event loop.* A handler of a timeout or a signal that closes a socket which `select` has
  reported, and registers a new one that gets the same descriptor, makes the loop call the new
  handler without data: the answer of `select` is looked up by number (`src/src/eloop.c:381`)
  and the note that the table changed is wiped before the loop (`:378`), while
  `src/include/eloop.h:44` says "called when data is available for reading" (`ReadOnlyReady`
  excepts it). A signal that arrives while `eloop_register_signal` has moved the table and
  not yet assigned it (`:299` to `:308`) is marked in freed memory and lost, one that asks for
  termination too (`SignalSeen` excepts it). A first socket that is always ready and whose
  handler changes the table in each call starves the later ones (`:386`; `ReadyRead` is about
  tables that rest in the end). The agent uses none of the three: it registers one socket and
  installs its signals itself.
* *Codec.* The DUP flag is set for QoS 1 only. A PUBLISH with a remaining length of 3
  (QoS 0, a topic of one byte, no payload) is packed by `mqtt_pack_publish_request` and
  refused as malformed by `mqtt_unpack_publish_response`. `src/include/mqtt.h:814` and
  `:849` call 8 the most topics of one call, but the functions refuse a list of 8. Packets
  read in the call of `recvall` that meets the end of the stream are lost. A CONNECT with a
  password and no user name is packed as it is.
* *Control interface.* A start next to a running agent fails, and its fail path unlinks
  the socket file of that agent, which then goes on unreachable (`PathOwned` says when
  this cannot happen). A crash leaves the file and costs exactly one
  failed start (`SecondStartWorks`). A signal between `bind` and the assignment of
  `ctrl_sock`, or during deinit, leaves a stale file; one before init finds `ctrl_sock = 0`,
  closes descriptor 0 and unlinks the path. The answer to a request that timed out may
  reach a later client with the same process identifier (`OwnAnswer` says that this is the
  only way). `src/include/admlink_ctrl.h:63` promises two seconds of waiting, the code
  waits 42.

## 4. Proofs

The theorems hold for every value of the constants that satisfies the assumption of the module
(`MqAssumption`, `ClientAssumption`, `CodecAssumption`, `RecvAssumption`, `SendAssumption`,
`EloopAssumption`, `AgentAssumption`, `CtrlAssumption`): sizes, budgets and delays are natural
numbers, special values differ from ordinary ones, and where the code says more the assumption
does (the traffic interval is shorter than that of the state machine, there are more
identifiers than places in the queue). `RecvAssumption` says that the broker sends packets of
the standard (`SentByBroker`), `SendAssumption` that the application gives the arguments the
functions take (`IsRequest`, `IsConnect`: strings shorter than 65536 bytes, and no DUP flag on
a QoS 1 publish); both of any length and any number. No theorem limits how many messages,
agents, clients, signals or connections there are. Every proof has one form: an
inductive invariant `IInv`, kept by every action (`NextIInv`), and the properties as
consequences.

**Send buffer** (`MqttQueueProofs`). `TypeCorrect` (no offset or length goes below zero),
`LayoutCorrect` (`Layout`), `QueuedBytesIntact` (`NoCorruption`). None is inductive alone:
where a packet lies decides whether a write may touch it, and `curr_sz` decides whether there
is a write. `IInv` is their conjunction, stated for a queue value so that every operator has
its own lemma: `InitGood`, `FailedPackGood`, `RegisterGood` (a packet of at most `curr_sz`
bytes leaves room for its record), `DropGood` (both moves and the new starts), `CleanGood`
(the scan stops at exactly one place, `NewHeadExists`) and `MarkGood`. The arithmetic on
offsets is in lemmas without the queue, so that no leaf mixes it with sequences. From the same
invariant follow an action property and the refinement:

* `RefusalIsJustified` - a full buffer is reported only when the packet does not fit behind
  the messages that cannot be forgotten yet;
* `BufferImplementsQueue` - the buffer implements `SendQueue`. `View` reads the abstract queue
  off the records. Registering appends to it (`RegisterShows`), `mqtt_mq_clean` forgets a
  prefix of COMPLETE messages (`CleanForgets`), and writing a header for which there is no
  room does not show (`FailedPackShows`).

**Client** (`MqttClientProofs`). `TypeCorrect`, `CalledOnce`
(`CalledAtMostOnce`), `OrderKept` (`OrderedPerQoS`), for any reuse of identifiers, any
retransmissions and any number of connections. `IInv` has three parts:

* `Shape` - the types, and that channels and queue stay within their bounds;
* `CallInv` - why the callback sees a QoS 2 message once: one PUBREC per identifier
  (`OneRec`), packets of the broker that agree with what it has pushed (`Numbered`,
  `Identified`), no PUBREL before a copy of its PUBLISH (`RelAfterPubs`), and, as long as a
  copy of a message that was called may come, an unreleased PUBREC in the queue (`Guarded`);
* `OrderInv` - why messages of one QoS arrive in order: the queue is in the order of staging
  (`QueueInOrder`), a message has been passed by a younger one of its QoS only if it was sent
  (QoS 2: only if it is COMPLETE; `SentInOrder`), an older packet behind a younger one is a
  second copy (`WireInOrder`), and what the walk of `__mqtt_send` leaves behind it (`Walk`):
  without it, nothing forbids the walk to send a message whose predecessor it has not sent.

`QStep` describes all the steps of the queue at once (drop COMPLETE messages in front,
complete some, append one), so that each part needs one lemma for it and not one for each
handler. An invariant of a message in the queue says nothing of one that was already
forgotten: hence the parts about packets and about the broker.

The second part of `MqttClientProofs` proves `AcceptedOnce` (`ExactlyOnce`), `OneAtATime`
(`OneQos2AtATime`: a message the broker has not accepted is still queued and open, and no
younger one passed it) and `NoneLost` (`NeverLost`) of the behaviours that satisfy `FreshIds`:
a publish does not get an identifier that the broker keeps, or of which a PUBLISH, PUBREL,
PUBACK or PUBREC is under way. The code does not ensure that, and without it both may fail
(section 2). `FreshBeforeWrap` proves it of every behaviour in which `pid_lfsr` passes no
identifier twice in a connection: what is in use is at most `pid_lfsr` (`Below`), and a
reconnect empties everything. `FewRequests` proves that, in turn, from a condition on the
constants alone, `EnoughPids`: `QueueCap + 1` identifiers for every request that the
application makes. One call of `__mqtt_next_pid` moves on by no more than that, since every
identifier it passes is due to a record in the queue (`NextInStride`). So, by
`FewRequestsAreSafe`, an agent that makes at most 65535 / (`QueueCap` + 1) requests is safe
whatever else happens. The theorem adds up the requests of all connections, although
`pid_lfsr` starts anew with each: it claims less than is true. The runs `client` and
`client_session` satisfy `EnoughPids`.

`OnceInv` adds to `IInv`: an identifier is that of one message (`OneHolder`), a
PUBREL is behind every copy of its PUBLISH, which is COMPLETE (`RelBehind`), the broker keeps
an identifier exactly if it has accepted the message of which copies may arrive (`AllSeen`),
an answer is meant for the message that it completes (`Meant`), and COMPLETE means accepted
(`Finished`).

**Packet codec** (`MqttCodecProofs`). What the packing functions write the unpacking functions
read back, for packets of any length:

* `LengthEncoded` - the bytes of a remaining length are its digits, each but the last with the
  continue bit;
* `ReadPacket` - at the front of any bytes, `mqtt_unpack_response` finds the packet that was
  packed and takes exactly its bytes; a PUBLISH with a remaining length below 4 it refuses;
* `AwaitPacket` - of a packet that has not come whole it takes nothing and reports nothing.

The functions of the codec are defined by recursion over lengths and sequences. The induction
that this needs is done with sets: a set of naturals that is not empty has a least member
(`LeastExists`, from the library's `WFMin`), hence `SetInduction`, `StrongInduction`, and that
a recursive definition defines what it says (`WellDefined`). A set takes the place of the
predicate that the induction theorems of the library have as a parameter.

**Receive buffer** (`RecvBufferProofs`). `HandedOverInStep` (`InStep`), `ErrorsJustified`
(`ErrorJustified`). `IInv` has the types, `Loop` (an error ends the loop, and who is about to
read has room to), `Stream` (the bytes in the buffer, the socket and the network are the front
of the packets not yet handled, and all of them unless the broker has closed) and
`ErrorJustified`. `InStep` alone says nothing of `pc`, and without `Loop` a call of `recvall`
might overrun the buffer. That a whole packet at the front of the buffer is the next one, that
a part of it is awaited, and that no other error than the ones of `ErrorJustified` can come of
it, are `ReadPacket` and `AwaitPacket` applied to the bytes of which `Stream` tells.

**Send stream** (`SendStreamProofs`). `SendTypes` (`TypeOK`), `BrokerUnderstands`
(`Understood`), `DupIsMarked` (`DupMarked`). `PackedSays` is about single packets: from the
bytes of any request the broker of the model, which does not use the code's functions, reads
what the request means. `IInv` has

* `Types`, and `Queueing`: the messages of the queue fit in the buffer, are of different
  requests, and hold the bytes of their next transmission (`Form`: with DUP if QoS 1 and sent
  before);
* `UnderWay`: what the broker has read of the packet it is at, followed by what is in the
  socket, is what was sent and not yet understood, followed by the part that is written of the
  message in hand - without which nothing says that a broken or retried write does not leave
  half a packet in front of another;
* `Heard`: what the broker has understood is what was sent, each PUBLISH of QoS 1 with DUP
  exactly from its second transmission on; `Sendings` and `Unsent`: what was sent are packets
  that could be packed, and none of them is requested again in the connection.

A broker that has less than a packet waits (`BrokerAwaits`), one that has more takes the first
(`TakesNext`), and the meaning of a QoS 1 PUBLISH tells which request it was (`MeaningTells`),
which is what `DupMarked` compares.

**Event loop** (`EloopProofs`). `ReadsOnlyReady`, `SignalIsSeen`, `AlarmIsCovered`. The
invariant adds that no socket is in the table twice (`Distinct`) and until where what `select`
reported is still true (`Fresh`): for all sockets before the loop over them but the `stale`
ones, then for those it has not come to, as long as no handler changed the table. `Installed`
says that a signal has one entry at most, which the mark of its system handler needs.

**Agent** (`AgentProofs`). `TypeCorrect`, `StateMachineAlive` (`SmAlive`), `ConnectionsServed`
(`ConnServed`), `StatusIsSocket` (`StatusMeansSocket`), `PublishInOrder` (`PublishOrder`),
`SafeWhenUp` (`SafeOnceUp`), `NoDeadlock` (`NoSelfDeadlock`). Its first part is about the list
of timeouts alone: registering inserts at one place (`RegisterInserts`), keeps it sorted
(`RegisterSorted`), taking the head and the passing of time do, too (`TailSorted`), and how
each changes the number of entries of a kind (`InsertedCount`, `TailCount`). `IInv` adds
`ListOK` (deferred publishes are in the order in which they were asked for, since all get the
same delay, the least there is), `Where` (what is true of the connection that is being
dialled), `UpOnce` (a client that was connected stays initialised) and `Locked`: a mutex is
held exactly at the steps between lock and unlock, unless a signal has cut them off, and then
an exit is under way. Without it nothing says that the thread finds the mutex free.

**Control interface** (`CtrlIfaceProofs`). `PathIsOwned`, `SecondStart`, `NothingIsLeft`,
`OwnAnswerTaken`. The invariant says that the path is a lock of the agents as long as no start
failed (`Lock`), what holds of it while no agent runs next to another (`Alone`), which local
names exist (`Names`), and, for a process that inherited no name of one that gave up, that one
request at most is queued, whose answer reaches the process that sent it or nobody
(`Answers`).

Only model-checked: liveness (`Acknowledged`, `LossNoticed`, `Delivered`, `SyncReturns`,
`DueRuns`, `ReadyRead`, `SignalHandled`, `StopHonoured`, `Reconnects`,
`Connects`), since the prover does not handle fairness and ENABLED. That the code of
`RecvBuffer` and `SendStream` implements the channels of `MqttClient` is an argument (what a
channel promises is `InStep` and `Understood`), not a refinement.

## 5. Not modelled

`mqtt_ping` as a call of the application, `mqtt_reconnect`, `mqtt_init_reconnect`,
`mqtt_reinit` and the inspector callback, which the agent never uses; the variants of
`mqtt_pal` for other TLS libraries, plain sockets and Windows, which the Makefile does not
build; the monitors of the control interface (`ctrl_dst`), to which nothing is ever added;
cJSON (a vendored parser without state of its own); debug output; leaks of BIO and SSL_CTX;
failing memory allocation. The delivery of QoS 1 across connections (a reconnect empties the
queue) is modelled, but nothing promises it and no property asks for it.

## 6. Plan

1. The cycle of the LFSR (`__mqtt_next_pid`) as a function of its own.
2. `EnoughPids` for each connection by itself, which needs the requests of the current
   connection in the state of `MqttClient`.
3. The composition of `Agent` with the agents of `CtrlIface`: what a pending reboot
   answers while the process is replaced.
4. A refinement of the channels of `MqttClient` by `RecvBuffer` and `SendStream`.
