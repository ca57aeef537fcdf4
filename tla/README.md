# A verification project for rapidapp

rapidapp is a C++ framework for single-threaded, event-driven servers on top of libevent, and the *connector*, a
gateway between game clients and back-end services that is built on it. This project models its core in TLA+,
checks the models with TLC on small instances and proves the invariants that matter most with TLAPS for every size.

## 1. The system and its parts

| Part | Source | State | Operations | What is hard |
|---|---|---|---|---|
| Connection pool | `framework/rapidapp_net_mgr.*`, `rapidapp_easy_net.*` | hash table fd -> `EasyNet`, counter of net ids, cursor of the walk | add, remove, look up by (fd, nid), walk a few entries | descriptors are reused, the table changes under the cursor |
| Front end | `framework/rapidapp_framework_imp.cpp` | packet, byte and activity counters of each connection | accept, read, close, asynchronous lookup, flow control in `Tick` | answers that come late; counters that are reset by the walk only |
| Life cycle | `framework/rapidapp_core.cpp`, `rapidapp_framework_imp.cpp` | pid file and its lock, `running_`, `reloading_` | start, `--stop`, `--restart`, `--reload`, signal handlers, `MainLoop`, `Tick` | concurrent processes, signals at any moment |
| Timers | `framework/rapidapp_timer_mgr.*`, `rapidapp_easy_timer.*` | sorted vector | add, remove, take the next one | callbacks that change the list |
| Connector | `server/connector/connector_app.cpp`, `connector_session.*` | session state, session id, last sequence number; round robin over back ends | the handshake, forwarding up and down, closing | three parties, any of which may be gone |
| Client API | `server/connector/client_api/*` | handshake state, sequence number, two buffers | `Start`, `Update`, `PushMessage`, `PeekMessage`, `PopMessage`, `Resume`, `Terminate` | partial sends and reads, full buffers |
| Server API | `server/connector/server_api/*` | none | `Dispatch`, `HandshakeToConn`, `SendDataToConn`, `StopConn` | answers for connections that are gone |
| Client socket | `utils/tsocket_util.*`, `utils/tcp_socket.c` | descriptor, socket state, send and receive buffer | connect, check, close, push, send, receive, peek, pop, reset | connects that fail half way; cut and compacted buffers |
| RPC, coroutines | `framework/rapidapp_easy_rpc.*`, `rapidapp_rpc_mgr.*`, `rapidapp_message_reflection.*`, `coroutine/*` | suspended calls, the coroutine table, one saved main context | `RpcCall`, `RpcFunction`, `Resume`, `DestroyRpc`; `OnFrontEndRpcMsg`, closures | answers in any order, calls nobody answers, contexts |
| Threaded client | `client_api/connector_client_api_imp.cpp`, `client_main.cpp`, `sdk/cocos_connector.cpp` | the client object, shared by two threads | `StartThread`, `TerminateThread`, `MainLoop`, push, pop | no lock |
| Control channel | `rapidapp_framework_imp.cpp`, `rapidapp_ctrl_cmd_keyword.*` | static command buffer, dictionary of listeners | `OnCtrlMsg`, `libevent_get_arguments`, `Dispatch` | what one command leaves for the next |

The framework calls the application (`OnRecvFrontEnd`, `OnRecvBackEnd`, `OnFrontEndClose`, `OnTimer`, `OnReload`) from
its event loop; the application calls back (`SendToFrontEnd`, `SendToBackEnd`, `DestroyFrontEnd`, `GetNetIds`,
`GetFrontEndByAsyncIds`). A handler runs to completion, so in the models it is one action. Concurrency is between
processes: clients, connector, back ends, and the several processes of one daemon; between a process and its
signal handlers; between the coroutines of RPC calls; and, in the threaded client, between two threads.

What makes each part correct: an answer reaches the connection it is for or none (pool); every connection is
looked at by the flow control (front end); one daemon, named by its pid file, obeying its commands (life cycle); a
timer fires when it is due (timers); the two ends of a handshake agree, messages are neither mixed up nor duplicated, and
a connection is closed for a reason only (connector); bytes are neither lost nor reordered, and no connection is
forgotten (socket); every call is answered by its own answer, once, and gives back its coroutine (RPC); what is popped is
what was sent, although two threads are at work (threaded client); a command reaches its listener (control channel).

## 2. Modules

* **NetHandlerMgr** defines the pool and its operations: no specification of its own, it is extended by the two
  modules that say when they are called. `pool[fd]` is the nid of the `EasyNet` under `fd`, 0 when there is none. The
  hash of a descriptor is the descriptor and the table is walked bucket by bucket, that is in ascending order while all
  descriptors are below the number of buckets (section 5).
* **FrontEnd** (extends NetHandlerMgr) is the framework's front end. Each handler of `AppFrameWork` is an action.
  `handles` are the (fd, nid) pairs carried by requests to back ends; `stale` (history) those whose connection has been
  deleted. Time is kept as the age of the last activity; counters are capped just above the limit they are compared with.
  `buckets` and `cursor_valid` follow the growth of the hash table and what it does to the kept iterator.
* **FrontEndProofs** proves four invariants of FrontEnd, with the length of a round of the walk among them, and when the
  walk's iterator stays valid.
* **Connector** (extends NetHandlerMgr) composes the clients, the connector and the back ends. Channels are FIFO queues that
  are cut when a side closes. `UpSide...` actions are the cases of `OnRecvFrontEnd`, `DownSide...` and
  `HandShake_On...` those of `OnRecvBackEnd`. Net ids name TCP connections, so `Nid(c)` is the id of connection `c`.
  A payload is `[conn, n]`, the n-th push of a connection, so that one can tell whose data arrives where.
  The states of `back_net` are the `NetState` values of the back-end `EasyNet`.
* **EchoService** is the abstract specification: what the users of the client API see. Connector implements it
  under the mapping at its end (`ImplementsEcho`).
* **ConnectorProofs** proves what holds of the way of a message through clients, connector and back ends;
  **ConnectorSessionProofs** extends it with sessions and sequence numbers, the uniqueness and the order of messages,
  and the refinement of EchoService.
* **AppLifecycle** is the life cycle. `pc` is where a process stands; each step is a system call or a handler.
  **AppLifecycleProofs** proves three invariants of it.
* **TSocket** is the client socket, byte by byte; a byte is named by its packet and offset. `fd`, `link` and `conns` are what
  the client and the kernel know of the connection: `Connect`, `CheckNonBlock...`, `Close`, `Resume` and `Terminate` move them.
  **TSocketProofs** proves its three invariants.
* **CoroutineScheduler** defines what `CreateCoroutine`, `ResumeCoroutine`, `YieldCoroutine`, the end of a coroutine and
  `DestroyCoroutine` do to the coroutine table, `running_cid_` and `main_ctx_`; `cpu` is the context that executes.
* **EasyRpc** (extends CoroutineScheduler) is RPC: the caller with its coroutines, the service with its closures, and the
  connection between them. An action is what one context does up to the next switch. The *kind* of a request says what
  will become of it: completed, cancelled, nobody serves it, its type is unknown, the back end is no RPC service, its name is too
  long to be packed. **EasyRpcProofs** proves its three invariants, and what a call in a callback leads to.
* **ClientThread** is the threaded client. A step is one access of one thread to what they share, so `Recycle_ATOMIC` is
  three steps and `begin += len` two. Packets have length one (TSocket looks at cut packets). `offered` (history) are the
  messages in the order they were offered to `send_buf_`, which may be full; the number of a message is used up all the same.
  `send` may fail after that, which ends the handshake but not a session that is ready.
  **ClientThreadProofs** proves its three invariants.
* **TimerMgr** is the sorted list of timers, **ControlChannel** the buffer and the parser of control commands, character by
  character: what is left by one command continues the next one, and the parser may leave the buffer, which a model of words would
  not show. `Behind` is the memory it finds there: any characters, chosen anew for each command. The delimiters are a
  constant, since `strtok_r` is given the address of a single character and takes what follows it in memory for delimiters too.
  **EventLoop** (extends both) is the loop that runs `Tick` and `OnCtrlMsg`;
  **EventLoopProofs** proves that the list stays sorted, that commands reach their listeners and when the parser
  stays inside its buffer.
* **MCFrontEnd**, **MCConnector**, **MCTSocket**, **MCEasyRpc** and **MCEventLoop** define the values of constants for TLC.
  AppLifecycle and ClientThread are checked directly.

Operators with a name such as `Tick_ReloadFirst`, under a comment that begins with "Mutant", are plausible mistakes in
the definition that follows them. They are not used by the specifications; each one, put in the place of
the definition, makes TLC report the property it is listed with in `PROJECT.json`.

## 3. Runs

Passing runs:

| Run | Instance | Properties |
|---|---|---|
| `pool` | 2 descriptors for 3 connections, 2 answers under way, a walk of 1 entry per tick, all limits on | `TypeOK`, `AsyncLookupExact`, `CursorInPool`, `WalkLagBounded`; liveness `OverSpeedIsClosed`, `IdleIsClosed` |
| `orderly` | 1 descriptor for 2 connections, new or resumed clients, 1 message each, 2 back ends that may refuse a start or message by `StopConn` and stop connections at any time | `NoCrossTalk`, `ReadyAfterAnswer`, `ClientNotAhead`, `SentIsInSequence`, `ClosedForAReason`; liveness `HandshakeEnds`, `PushIsAnswered` |
| `hostile` | 1 descriptor for 2 connections, clients that push up to 2 messages, also during the handshake, failing pushes, idle closes, a back end that assigns session ids, refuses and crashes | `AtMostOnce`, `BackEndFindsStarted`, `AnswersInOrder`, `ImplementsEcho` |
| `commands` | 3 processes in all modes | `OneDaemon`, `PidFileNamesDaemon`, `KillHitsDaemon`; liveness `StopEnds`, `ReloadIsHandled` |
| `stream` | 2 packets up and 3 down through buffers of 5 bytes, failing calls, 2 connects | `SendStreamIntact`, `RecvStreamIntact`, `DescriptorIsConnection`; liveness `SentIsTaken` |
| `rpc` | 3 calls over 2 connections, 2 coroutines at most, 3 mixes of kinds, answers at once or later | `OwnAnswerOnce`, `ListedAreSuspended`, `SlotsAreWaitingCalls`; liveness `LoopRegainsControl`, `AnswerArrives` |
| `thread` | a buffer of 2 packets, 5 packets down, 2 pushes, a send buffer that may be full, pops in `OnIncoming` (`client_main.cpp`) | `PoppedInOrder`, `HandShakeThenData`, `ListenerProtocol`; liveness `TerminateEnds`, `ArrivedIsPopped`, `CloseIsReported` |
| `loop` | 2 timers with 2 periods, 3 datagrams of 4 kinds in a buffer of 6 characters, 2 delimiters, any character behind the buffer | `ListSorted`, `CommandReachesListener`; liveness `StopEndsWithoutTimers` |

Every specification states a type invariant. FrontEnd's is checked and proved; those of Connector, AppLifecycle, TSocket,
ClientThread and EventLoop are proved (section 4). Of EasyRpc's the proofs use the part about calls and coroutines,
`CallsTypeOK`, inside the inductive invariant.

What they show, in words:

* `pool`: an asynchronous answer finds the connection its ids were taken from, or none; the kept cursor never points at an
  erased entry; although connections come and go on both sides of the cursor, none is passed over by more walks
  than a round takes plus one; bursts and silence are noticed in the end.
* `orderly`: with clients that wait for `OnHandShakeSucceed`, the two ends of a handshake never disagree about who is ahead, a
  session is ready only once a back end has answered its start (with ACK, or with the FIN of a refusal), what a client sends passes the connector's sequence check,
  answers stay in their connection, and nothing but a closing client, a FIN or a missing back end closes a connection.
* `hostile`: with clients that do not wait, and with failures, no message is duplicated, none is answered twice and answers keep the order of the requests (with one back end); a back
  end never meets a session that is still in the client's half of the handshake; the users see an EchoService.
* `commands`: the lock on the pid file does what it is for, whatever the order of the system calls of several processes.
* `stream`: wherever the kernel cuts sends and reads, bytes are neither lost, repeated, reordered nor taken over into
  the next connection, which also holds for what is pushed while the connection does not stand yet; and whichever way
  connects, resumes and terminations end, the client holds no connection but the one it has the descriptor of.
* `rpc`: although calls share a connection, a static buffer, the unpacked message and one saved context, a callback is called
  once and with the answer to its own call; coroutines, pairs and places in the
  table are exactly the calls that wait.
* `thread`: with the pops in the worker and pushes only after `OnHandShakeSucceed`, the lack of a lock does no harm: only the
  worker touches the receive buffer, and the n-th message made has number n, so that the server misses a number only where a
  push has failed. What happens when the main thread pops is `race`.
* `loop`: the list is sorted, so its head is the timer due first; a command that brings its NUL along is not spoilt by
  what earlier commands left or by what lies behind the buffer; without timers a stop signal is not put off for ever.

Runs that show a disagreement between the code and what the repository says of it (`findings` in `PROJECT.json`):

| Run | Property | What happens |
|---|---|---|
| `rehash` | `WalkOnValidCursor` | accepting a connection rehashes the table under the walk's iterator |
| `freed` | `StoppedSessionUnused` | a ready session gets a FIN; `HandShake_OnStopNotify` deletes it and `OnRecvBackEnd` sets its session id |
| `restart` | `RestartLeavesDaemon` | the new process fails on the lock the old one still holds |
| `race` | `PoppedInOrder` | the main thread pops, as `cocos_connector.cpp` does, while the worker recycles the buffer |

Further disagreements met while modelling, for which no run is kept:

* `PushMessage` takes a sequence number before the message is queued. When that fails, the connector rejects every later
  message, for which `PushMessage` returns success (in Connector: `SentIsInSequence` with failing pushes).
* A FIN that finds the session in `STATE_SYNACK` is taken for the ACK (`DriveStateMachine` does not look at the message), so a back end that
  refuses a connection by `StopConn` starts it (`connector_app.cpp:318-333`, `connector_session.cpp:345`).
* When the start cannot be sent to the back end, `OnRecvFrontEnd` destroys the front end (`connector_app.cpp:265`) and
  `OnFrontEndMsg` then counts the packet in the deleted net (`rapidapp_framework_imp.cpp:1138`). This is the other member of
  `freed_access`, kept apart from the one that `freed` reports.
* The rest of a partial send waits in the send buffer for the next push (TSocket has no action that would send it), and
  a push that is refused by `Send` (not connected, send error) is queued all the same and may be sent later.
* When `connect` fails at once, `tcpsocket_connect_nonblock` returns without closing the descriptor it has opened. A failed
  `CheckNonBlock` leaves the session in `SESSION_STATE_TCP_SYNING`; the next `Update` finds no descriptor and reports a second
  failure. A `Resume` whose connect fails leaves it in `SESSION_STATE_DONE`, where `Update` reports nothing any more.
* Timers fire whatever the clock says, and the loop of `Tick` does not end while there is one: with a timer neither stop
  signals nor control commands are honoured. AppLifecycle leaves timers out, so its `StopEnds` is about daemons
  without them. `RemoveTimer` of the last timer of the list walks past its end.
* An RPC call made in a callback stores the coroutine in `main_ctx_`; when the coroutine ends, it is continued on a stack it has
  left (EasyRpc with `CallbackCalls = TRUE` violates `LoopRegainsControl`; `CallInCallbackLosesLoop` proves that the loop is
  then lost for good). What the code does on such a stack is undefined; the model keeps the coroutine there.
* A service that keeps its closure sends through a plain pointer to a connection that may be gone (`Completes` with
  `conn = "freed"`). `DestroyRpc` in a callback frees the stack it runs on (not modelled: `DestroyRpc` is called in the loop).
* A request whose name is too long makes `RpcFunction` send the previous request again, since the failure of
  `MessageToBinary` is ignored and the buffer is static. A call that is not sent, not served or whose connection
  is lost waits for ever and keeps its coroutine until `DestroyRpc`.
* `TerminateThread` before the worker has begun makes `assert(!exit_)` abort the process; pushes before the end of the
  handshake mix with it (`EarlyCalls = TRUE`). A reset of the connection is never reported. Packets in the buffer when the server
  closes are not announced. `exit_`, the static `handshake_done` and the listeners' flags are not reset for a second session.
* `libevent_get_arguments` loses the first character of every argument but the first, keeps leading spaces in the first one, and
  goes on behind the end of the string. A datagram without a NUL is continued by what an earlier one left; one longer than
  `MAX_CTRL_MSG_LEN` is split, although a comment says "控制模式采用UDP通信，不存在分包情况" (UDP, so there is no splitting;
  `src/framework/rapidapp_framework_imp.cpp:923`).
* A datagram that leaves less than two places of `ctrl_msg` free may make the same loop look for tokens, and write NULs, in
  the memory behind it (`rapidapp_framework_imp.cpp:90-94`). `&CTRL_CMD_DELIMETER` (line 66) is not a string: what follows this
  character in memory are delimiters as well.
* Packets of several frames are added up before they are compared with `--max_pkg_speed`, while the walk is elsewhere; a
  stop signal between `InitSignalHandle` and `MainLoop` is forgotten, since `MainLoop` sets `running_`; a reload signal between
  `SetPidFile` and `InitSignalHandle` terminates the daemon; one that arrives while `OnReload` runs is forgotten, since `Tick`
  clears `reloading_` after it. `StopEnds` and `ReloadIsHandled` are stated for the remaining cases.

### Bounds

Descriptors are reused as soon as there are more connections than descriptors, which every instance with connections has.
A walk that is cut needs more entries than `kSingleRoundLoopNum` (1024 in the code, 1 or 2 here). Two connections in a row
on one descriptor suffice for an answer to meet another connection than its own, two back ends for the start and the data
of a session to take different ways. A buffer of five bytes with packets of two to four holds one whole packet and a part
of the next, so that every cut and compaction happens. Three processes are a daemon, its successor and a command; the
proofs cover any number. Three calls for two coroutines make one call wait for a place or be refused, and give a connection two
answers to mix up. Five packets through a buffer of two recycle it again and again. A command buffer of six characters is
shorter than the longest datagram and longer than the others; with `BEHIND = 1` any character may follow it before there are two NULs
in a row, which is enough for the parser to leave the buffer. `MaxNid`, `MaxPush`, `MaxHandles`, `MaxConnects`, `MaxTime`, `MaxCid`,
`Pushes`, `Downs`, `MaxDatagrams`, `BEHIND` and the "one FIN under way" in `StopConn` (not in the `StopConn` that answers a message) are bounds of the models, not of the code. Deadlock is not checked where all clients, processes or packets may be used up.

### Fairness

* FrontEnd: `Tick` is called for ever by the fps timer and the wall clock advances (`WF_vars(Tick(1))`).
* Connector: the event loops of connector and back ends serve every ready socket, TCP delivers, a client calls `Update`
  as its API asks. Nobody has to connect, push, stop, crash or close.
* AppLifecycle: a process that runs is scheduled; nobody has to be launched. Initialisation may fail, it does not have to.
* TSocket: the user calls `Update`, and `recv` returns at least one byte in the end when there are any; the peer reads. No
  fairness for connects and pushes.
* EasyRpc: a coroutine that has been resumed runs on, the event loops of both processes serve what has arrived, and a service
  completes the closures it has kept. No call has to be made, no connection has to stand.
* ClientThread: the system schedules the worker; `recv` does not withhold for ever what has arrived (strong fairness, since
  each call may return nothing); calls that have begun end. Nobody has to push or to terminate.
* EventLoop: libevent calls the fps timer again and again, and `Tick` goes on when there is no timer. No timer has to fire,
  nobody has to stop the daemon or to send a command.

## 4. Proofs

The theorems hold for all values of the constants under the named ASSUMEs of the modules, which only give the constants
their types, except where a further hypothesis is shown. Such a hypothesis restricts how the API is used or how the
connector is deployed, as the run that checks the same property does. Without it TLC finds the property violated, except in
EasyRpc, where the hypothesis excludes states in which the process has already gone wrong.

The type theorems (`...Types`, `TypeCorrect`) say as much as the types do: that the buffers of TSocket stay within their
memory is part of them.

**FrontEnd.** Assumptions: descriptors are natural numbers below `EndFd`, there are finitely many, every non-empty set of them
has a least one, the limits are natural numbers. `IInv == TypeOK /\ PoolInv /\ HandleInv /\ CursorInPool` is inductive.
`AsyncLookupExact` alone is not inductive: that a new connection cannot take the id of a stale answer needs `PoolInv` and
the first part of `HandleInv` (every id in the pool or in an answer is below `nid_seed`, and an answer's is not 0).

* `TypeCorrect`: `Spec => []TypeOK`
* `AsyncLookupCorrect`: `Spec => []AsyncLookupExact`
* `CursorCorrect`: `Spec => []CursorInPool`
* `WalkReachesEveryConnection`: `Spec => []WalkLagBounded`. `LagInv` counts: a walk that does not reach the end puts
  `kSingleRoundLoopNum` descriptors behind the cursor, first those above the entry in question and, after the walk has
  started again, those below it. The number of walks that passed an entry over is therefore bounded by the number of
  descriptors, whatever connects and disconnects in between.
* `SmallPoolKeepsCursor`: `Spec /\ []Small => WalkOnValidCursor`, where `Small` says that there are no more connections than
  the `InitBuckets` buckets the table is made with. The counterpart of the finding of `rehash`: a pool that never outgrows the library's
  default (the code reserves nothing) is never rehashed (`RoomInv`), so that growing beyond it is the only way to lose the iterator.

**AppLifecycle.** `LInv == TypeOK /\ LockInv /\ FileInv /\ TargetInv`: `LockInv` says that a process is between `SetPidFile`
and its end exactly when it holds the write lock; `FileInv` relates the text of the file to the holder and to
processes that have ended; `TargetInv` is `KillHitsDaemon`, which rests on both.

* `AtMostOneDaemon`: `Spec => []OneDaemon`
* `PidFileCorrect`: `Spec => []PidFileNamesDaemon`
* `SignalsHitDaemon`: `Spec => []KillHitsDaemon`
* `LifecycleTypes`: `Spec => []TypeOK`

**Connector.** `PathInv` describes the whole way of a message: an id in the pool is that of the connection whose descriptor it
is stored under; each hop holds only messages that name a connection by descriptor and id and carry its own data; and the
session has reached at least the state it had when the message was sent (`Reached`, which only grows: a connection that
is no longer served counts as having come to the end). The last part is what makes stale messages harmless: when a descriptor is
used again, what is still under way carries the old id. It is needed whatever the clients do, so these hold unconditionally:

* `AnswersReachTheirClient`: `Spec => []NoCrossTalk`
* `BackEndsFindStartedSessions`: `Spec => []BackEndFindsStarted`
* `ClientsFollowTheConnector`: `Spec => []ClientNotAhead`
* `ConnectorTypes`: `Spec => []TypeOK`, with `RestOK` for what no message depends on: the cursor of the walk points at an
  entry that is still in the pool or at its end, whichever handler has deleted entries

`UniqueInv` adds that no queue carries data twice and that no data is in two places (`OnePlace`), which makes a step
that takes data off one hop remove it there for good, and with it `got` of EchoService grow by new answers only:

* `ConnectorImplementsEcho`: `Spec => ImplementsEcho`, each action mapped to a step of EchoService or to a stutter
* `MessagesAreNotDuplicated`: `Spec => []AtMostOnce`

`SessionInv` adds, per connection, `PatientOK` (a client that waits speaks once per state of the handshake, so that only the
answer of a back end makes its session ready) and `SeqOK` (the numbers under way end before `seqno` and begin
after the number the session has seen). `~Eager` stands for clients that wait for `OnHandShakeSucceed`, `~MayPushFail` for
`PushMessage` not failing after it has taken a number (section 3 says what happens when it does):

* `SessionsAreAnswered`: `~Eager` implies `Spec => []ReadyAfterAnswer`. An answer is an ACK or the FIN of a back end that refuses; the code
  does not tell them apart.
* `ConnectionsCloseForAReason`: `~Eager \/ ~Stateful \/ DebugBuild` implies `Spec => ClosedForAReason`. Data is refused only when
  a client that did not wait has made its session ready without an id, the back end assigns ids, and the build compares them.
* `NumbersAreInSequence`: `~MayPushFail` implies `Spec => []SentIsInSequence`

`OrderInv` ranks the hops from the client's end: of two messages of a connection, the one on the hop of lower rank, or further
ahead in the same queue, was pushed first. With several back ends round robin lets answers overtake each other, so:

* `OneBackEndKeepsOrder`: `NumBackEnds = 1` implies `Spec => []AnswersInOrder`

**TSocket.** The assumption on packet lengths says that a packet fits into the buffer. `FdInv` adds to its property that a
connection the kernel knows of has the number of the descriptor, and that before `Start` there is none. `SendInv` and `RecvInv`
say that the buffers are buffers (`begin <= end <= buff_size`) next to the equations about the streams; `RecvInv` also needs that
what has not been taken is a sequence of whole packets (`Framed`), or the length field at `begin` would mean nothing. The
lemmas on `Put`, `Sent`, `Recycle` and `PopFromRecvQ` say what these do to the data of a buffer.

* `DescriptorIsTheConnection`: `Spec => []DescriptorIsConnection`
* `SendStreamStaysIntact`: `Spec => []SendStreamIntact`
* `RecvStreamStaysIntact`: `Spec => []RecvStreamIntact`
* `TSocketTypes`: `Spec => []TypeOK`

**EasyRpc.** `IInv == CallInv /\ MessageInv`. `CallInv` is about coroutines: the saved context is the loop's, the seeds of
coroutines and of asynchronous ids advance together, the pairs of an instance are those of its coroutines in the table.
`MessageInv` is about what is under way: the number in a request, a closure or an answer belongs to the coroutine that made
this call. Neither is inductive alone: a callback needs the message to be right, a request needs the context to be right.

A call in a callback (`CallbackCalls`) overwrites `main_ctx_`, after which `IInv` no longer holds. What holds from then on is
`Lost`: the processor is with the coroutine that is taken for the loop or with the one it has just started. Every state
satisfies `IInv \/ Lost` (`KeptOrLost`), so that:

* `CalledBackOnce`: `Spec => []OwnAnswerOnce`, also when callbacks make calls
* `CallInCallbackLosesLoop`: `Spec => [](main_ctx # Loop => [](cpu # Loop))`
* `NoCoroutineLeaks`: `~CallbackCalls` implies `Spec => []ListedAreSuspended`
* `PlacesAreForWaitingCalls`: `~CallbackCalls` implies `Spec => []SlotsAreWaitingCalls`. These two speak of states in which the
  loop runs, and after a call in a callback there is none.

**ClientThread.** `ListenerInv` says what the listener has been told at each place of the worker. `BufferInv` says where
the packets lie in the buffer at each step of `Recycle_ATOMIC`; it is kept because a pop in `OnIncoming` holds the worker in
the callback (`PopInv`). `SendInv` relates the sequence number, the message that is filled in and what has been offered to `send_buf_`; it is
kept because at most one thread has filled `up_msg_` and not queued it. `PopsInCallback` and `~EarlyCalls` are the use that
`client_main.cpp` makes of the API; `race` shows what other uses lead to.

* `ListenerIsTold`: `Spec => []ListenerProtocol`
* `PopsAreInOrder`: `PopsInCallback` implies `Spec => []PoppedInOrder`
* `SendsAreInOrder`: `~EarlyCalls` implies `Spec => []HandShakeThenData`, whether or not `send_buf_` has room
* `ClientThreadTypes`: `Spec => []TypeOK`, whichever thread pops

**EventLoop.** `ListInv` is the type of the list, in which a timer occurs once, and that it is sorted. The place `upper_bound` finds is the
number of the entries that are not later; the lemmas show by cardinality that these are a prefix of a sorted list, so that
the insertion keeps it sorted.

* `TimersStaySorted`: `Spec => []ListSorted`

`CtrlInv` is about the commands: `ctrl_msg` has its length, there are at most `MAX_ARGUMENTS_NUM` arguments, and the last command,
if it fitted, brought its NUL along and had nothing unread in front of it, went where its first word says.
`libevent_get_arguments` is a loop over an array that it changes while it reads it, written in the model as a recursive function of the number of turns (`Turns`). What it
leaves is shown by an induction over the turns: the set of the turns at which the claim fails has no smallest member
(lemma `Induction`, for a set instead of an operator). The same lemma shows that the recursive function is one. The
claims are that a turn only writes NULs behind the first word, so that the first cut of the text decides about
the listener, whatever an earlier command has left behind the NUL and whatever lies behind `ctrl_msg`. `ShortInv` is about
where the parser gets to: datagrams that leave the last two places alone leave two NULs there for good, and `strtok_r`, which
starts at most one place behind a NUL, never passes two of them:

* `CommandsReachTheirListener`: `Spec => []CommandReachesListener`
* `ShortCommandsStayInside`: when no datagram is longer than `MAX_CTRL_MSG_LEN - 2`, `Spec => [](command.inside)`: no token is looked
  for behind `ctrl_msg` and nothing is written there, for any delimiters and any memory behind it. No test of the size in the
  code says so, and for longer datagrams TLC finds it false.
* `EventLoopTypes`: `Spec => []TypeOK`

Only model-checked: the liveness properties (`OverSpeedIsClosed`, `IdleIsClosed`, `HandshakeEnds`, `PushIsAnswered`, `StopEnds`,
`ReloadIsHandled`, `SentIsTaken`, `LoopRegainsControl`, `AnswerArrives`, `TerminateEnds`, `ArrivedIsPopped`, `CloseIsReported`,
`StopEndsWithoutTimers`), since reasoning with fairness is out of the prover's reach. Every invariant of the passing runs, their
action property and their refinement are proved.

## 5. What is abstracted or left out

* Protobuf encoding and the length prefix on the server side: a message is a record. Logging, configuration, URIs.
* libevent's buffers on the server are unbounded; `bufferevent_write` does not fail.
* The runs check the release build; `DebugBuild` stands for `_DEBUG`, which lets data through without the state and session id check.
* Memory exhaustion, except where an error path uses up a net id (`OnFrontEndConnectFailed`).
* A walk of `RemoveTimer` past the end of the list is taken for the end of the process.
* ClientThread takes memory to be sequentially consistent; a weaker one only adds behaviours to those that `race` shows.
* What lies behind `ctrl_msg` in memory is arbitrary, up to two NULs in a row, and chosen anew for each command. What becomes of
  other variables when the parser writes there is not modelled.
* The pool is walked in ascending order of descriptors. That holds while they are below the number of buckets, and the table grows with the
  number of connections, but descriptors used for other things may lie above it. Then the order is that of the descriptors modulo
  the number of buckets and changes when the table grows, which `rehash` is about.
* Pids are not reused: that the pid of a daemon that has ended is another process's by the time it is signalled is not covered.
* `nid_seed` is an `int` in the code; the models do not let it wrap (after 2^31 connections).

### Not modelled

* Configuration, command line and resource limits beyond what the modes need; JSON and URI parsing: functions of
  text without state, whose results the models take as constants.
* The cutting of the server's input into messages (`OnFrontEndMsg`, `OnBackEndMsg`): a loop over libevent's buffer; the
  same algorithm with a bounded buffer is TSocket's. A message longer than the server's receive buffer never becomes complete.
* `src/sdk` (copies of the client API, generated protobuf code, the headers of protobuf itself), `src/thirdparty` (rapidjson with its
  tests and other parsers), samples and tools. These are about six sevenths of the lines under `src/`, and none of
  them is the program's own logic, so that the map covers a small share of the lines of the repository although it
  covers most of `framework/`, `coroutine/`, `server/connector/` and the sockets of `utils/`.

## 6. Plan

1. *Done*: pool, front end, connector with clients and back ends, abstract service, life cycle, client socket with
   its connection, timers, control channel and event loop, RPC on coroutines, the threaded client. 35 theorems: every
   invariant, the action property and the refinement of the passing runs, type correctness but for EasyRpc, and two results about what goes
   wrong (`CallInCallbackLosesLoop`, `SmallPoolKeepsCursor`).
2. Left to model: the server's framing; RPC calls from callbacks and closures over closed connections as runs of their own.
3. Left to prove: type correctness of EasyRpc as a theorem of its own, with and without calls in callbacks.
