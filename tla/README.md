# TLA+ model of the tentacle Service

This directory holds TLA+ models of `src/tentacle/src/service.rs`, the
event loop of the tentacle P2P framework. The loop runs alongside the tasks
it talks to over channels. `PROJECT.json` lists the components, runs,
mutants, source map, findings and hazards.

## The system

`Service` is a `Stream`, and one call of `poll_next` is one *round*:

1. **Head termination check.** If `listens` is empty, `state.is_shutdown()`
   holds, `sessions` is empty and the future-task buffer is empty, the loop
   sets the `shutdown` flag and waits for its spawned handles
   (`wait_handle_poll`). The stream then ends.
2. **One-time init** of the FutureTaskManager and the protocol handles,
   then `flush_buffer` and `try_update_listens`.
3. **`session_poll`** takes at most one `SessionEvent` from the
   session-event channel and runs `handle_session_event`.
4. **`user_task_poll`** takes at most one `ServiceTask` from the Control.
   It does not poll at all while the sessions' buffers together hold more
   than `send_event_size` items.
5. **`send_pending_task`** moves the futures held in the
   `future_task_sender` Buffer into the `SEND_SIZE` channel of the
   FutureTaskManager, as many as fit. Then comes the tail termination check.

`session_poll` itself stops reading while the protocol handles' buffers of
either class hold more than `recv_event_size` items.

The Service interacts with these tasks:

- **Control (user).** Posts `ServiceTask`s: `ProtocolMessage`, `Dial`,
  `Listen`, `Disconnect`, `FutureTask`, the notify tasks, protocol
  open/close and `Shutdown(quick)`.
- **Futures run by the FutureTaskManager.** `dial_inner`, `listen_inner`
  and the `FutureTask` task push their future into the `future_task_sender`
  Buffer. The manager spawns what reaches its channel. Handshakes and
  listener pumps send through cloned senders instead.
  - The transport dial runs, then the handshake. The result is
    `DialError`, `HandshakeSuccess` or `HandshakeError`.
  - The transport listen results in `ListenStart` or `ListenError`.
- **Listener pumps.** Accept inbound connections and handshake them.
- **One Session task per connection.** It drains its priority channel,
  which the `SessionController` buffer feeds via `try_send`. It closes on
  request or when the remote end goes away, and it reports `SessionClose`.
- **Protocol handle tasks.** One per service-level handler
  (`init_proto_handles`) and one per session and session-level handler
  (`session_handles_open`). Each reads a bounded channel that the Service
  fills from a `Buffer` via `distribute_to_user_level`. A `Disconnect`
  from a dead handle is `AbnormallyClosed` and runs `Shutdown(false)`. A
  handler that fails with a fatal error reports `ProtocolHandleError`,
  which also runs `Shutdown(false)`.
- **The `State` counter.** Counts the dial and listen attempts in flight
  and records `pre_shutdown`.
- **`dial_protocols`.** Holds the targets of dials in flight, keyed by
  address. A `Dial` to an address already in it is ignored.

Hard behaviours:

- Every one of those tasks runs concurrently with the loop.
- Results arrive in any order: late handshakes, duplicate `Listen`s,
  handshake rejections at the connection limit, and synchronous transport
  errors.
- Session ids are reused: `next_session` wraps around.
- Graceful and quick shutdown behave differently.

## Modules

- **`Service.tla`** is the model of the loop and the tasks around it. The
  variables correspond to the code as follows:
  - `sessions` is `sessions`. Each entry keeps the remote key, the
    direction, the controller buffer, and a serial number that tells one
    session apart from a later one with the same id.
  - `chan` holds the session channels. `running` is the set of live
    Session tasks; `popen` their open protocol substreams.
  - `handles` is `service_proto_handles` (keys `<<NoId, p>>`) together
    with `session_proto_handles` (keys `<<id, p>>`): each entry is the
    Buffer (`buf`), the handle task's channel (`ch`) and whether the task
    still runs (`alive`).
  - `listens` is `listens`. `ctxListens` is `service_context.listens()`.
  - `dialProtocols` holds the keys of `dial_protocols`.
  - `pending` and `preShutdown` are the `State`.
  - `ftBuf` is the `future_task_sender` Buffer and `ftChan` the manager's
    channel (capacity `FtCap`, i.e. `SEND_SIZE`). `attempts` are the
    futures the manager has spawned. A user future is `UserFuture(tid)`.
  - `evQ` and `taskQ` are the two channels. Their priorities are
    abstracted to FIFO order.
  - `phase` is the position in the round: `setup`, `head`, `session`,
    `user`, `tail` (send_pending_task), and `wait`/`done` after termination.
    `SendPendingTask` is the whole tail: the send, then the termination
    check on the buffer it leaves (`TerminatingWith`).
  - `recvClosed` records that a quick shutdown closed both receivers.
    Senders can no longer post to them, but as with `futures` channels,
    what is already buffered can still be received. Once the closed session
    receiver is drained, `session_poll` would hit `unreachable!()`. The
    invariant `ClosedReceiverNeverPolled` shows that no round reaches it.

  There is one action per handler, and it models the whole handler:
  - the `SessionEvent` handlers: `OnSessionClose`, `OnHandshakeSuccess`
    (with `SessionOpen`), `OnHandshakeError`, `OnDialError`,
    `OnListenError`, `OnListenStart`, `OnProtocolOpen`,
    `OnProtocolClose`, `OnProtocolMessageEvent` and
    `OnProtocolHandleError`;
  - the `ServiceTask` handlers: `OnProtocolMessage`, `OnDial` (with
    `DialInner`), `OnListen` (with `ListenInner`), `OnDisconnect`,
    `OnShutdown`, `OnFutureTask`, `OnProtocolNotify`, `OnProtocolOpenTask` and
    `OnProtocolCloseTask`;
  - the round steps: `PollHead`, `PollHeadTerminate`, `SessionPollIdle`,
    `UserPollIdle`, `SendPendingTask` and `WaitHandlePoll`;
  - the owner's calls `Service::listen` and `Service::dial`: `SetupListen`
    and `SetupDial`. Both take `&mut self`, so the owner makes them before
    the first poll or between two polls (phase `head`, when `LateSetup`).
    `Service::listen` inserts into `listens` without refreshing the
    context's copy, which is left to the next `try_update_listens`.

  Handlers call one another: `try_update_listens` and every notify task
  call `distribute_to_user_level`, which may run `Shutdown(false)`, which
  calls `distribute_to_session`. These calls are written as functions of
  a record `World` of the state they change (`DistOut`,
  `DistributeToUserLevel`, `GracefulClose`, `QuickClose`, `FlushBuffer`,
  `TryUpdateListens`), composed inside one action and assigned by
  `SetWorld`.

  The tasks around the loop are the remaining actions:
  - `UserPost` for the Control;
  - `ManagerSpawn` for the FutureTaskManager, and `AttemptDialError`,
    `AttemptHandshake`, `AttemptListen` and `AttemptUserDone` for the
    futures;
  - `Inbound` for the listener pumps;
  - `SessionConsume`, `SessionProtoOpen`, `SessionProtoClose`, `SessionProtoMessage`,
    `SessionCloseRequested` and `SessionRemoteClose` for the Session tasks;
  - `HandleConsume`, `HandleDie` (the handler panicked: its channel is
    dropped and nothing is reported) and `HandleFail` (it failed with a
    fatal error and sent `ProtocolHandleError`, when `HandlerErrors`) for
    the protocol handle tasks.

  Code outside `src/` is modelled from the spec and marked `spec_modelled`
  in the map: `State`, `Buffer::try_send` and `Buffer::push`, the
  FutureTaskManager, the Session
  and handle tasks, the event constructors and the transport resolution.
  `GenerateNextSession` is a `RECURSIVE` probe of at most `IdCount` steps.
  The code loops for good when every id is taken; the model's `NoId`
  stands for that outcome. It is never reached, because `session_open` runs
  only while at most `max_connection_number` sessions are open, and the
  model assumes fewer than `IdCount`.
- **`MCService.tla`** instantiates the model. It has two addresses, of
  which `a2` carries the `/p2p/` id of key `k1`, two remote keys,
  one protocol `p1`, and an inbound remote address. It also defines the
  task menus: `CoreTasks` has every connection task kind, `ShutdownTasks`
  and `BackpressureTasks` are small menus for the liveness runs, and
  `ProtocolTasks` / `HandleLiveTasks` hold the notify and protocol
  open/close tasks of session 1 (the first id handed out).

## Runs

| run | cfg | expect | shows |
|-----|-----|--------|-------|
| service_core | MCService.cfg | pass | `TypeOK`, `NoDuplicatePubkey`, `PendingCoversInFlight`, `SessionsMatchTasks` and the action property `SessionNeverReplaced` hold under every interleaving, with listen and dial also called between polls; about 508k states |
| shutdown_liveness | MCServiceShutdown.cfg | pass | under fairness, every session open at a graceful Shutdown is eventually closed (`GracefulShutdownClosesSessions`), and a quick Shutdown ends the stream (`QuickShutdownTerminates`) |
| user_task_backpressure | MCServiceBackpressure.cfg | pass | the `send_event_size` gate never keeps a queued user task unread for good (`UserTasksEventuallyPolled`) |
| protocol_handles | MCServiceProtocols.cfg | pass | with handlers that panic or fail with `ProtocolHandleError`, every session-level buffer belongs to a live session (`HandleRecordsBacked`), also after ids are reused; about 1.3M states |
| future_tasks | MCServiceFutures.cfg | pass | a future held in the `future_task_sender` Buffer while the manager channel is full is eventually spawned, because every round ends with `send_pending_task` (`HeldFuturesEventuallyRun`); after `Shutdown(true)` no round polls the closed receivers (`ClosedReceiverNeverPolled`), because the tail check of that round ends the stream, which needs `future_task_sender.clear()` |
| handle_liveness | MCServiceHandleLive.cfg | pass | a dead handle with items held shuts the Service down (`DeadHandleShutsDown`); the `recv_event_size` gate never keeps a session event unread for good (`SessionEventsEventuallyPolled`) |
| connection_limit | MCServiceLimit.cfg | violation | `ConnectionLimit`: two sessions with `max_connection_number = 1` |
| stale_dial_record | MCServiceDialRecord.cfg | violation | `DialRecordsBacked`: a `dial_protocols` entry outlives its dial |
| pending_leak | MCServicePending.cfg | violation | `PendingExact`: a duplicate Listen leaks one pending count and drops a live listen |
| shutdown_never_completes | MCServiceShutdownHang.cfg | violation | `ShutdownCompletes`: a dial completed after a graceful Shutdown keeps the Service alive forever |
| stale_context_listens | MCServiceStaleListens.cfg | violation | `ContextListensFresh`: after Shutdown drains `listens`, `Service::listen` between polls leaves `service_context.listens()` stale |
| proto_reopen | MCServiceProtoReopen.cfg | violation | `OpenHandlesTracked`: a protocol closed and reopened in one session has lost its handle buffer |

The six violations are code bugs. They are described in
`PROJECT.json` under `findings`:

1. **Connection limit off by one.** The limit check at service.rs:590 runs
   after the dial's own pending count has been removed.
2. **Stale `dial_protocols` entry.** Only `session_open` removes the entry,
   so a rejection at the limit (line 991) leaves it behind. So do a
   synchronous dial error after the insert (line 311) and a connection to a
   resolved address. After that, every `Dial` to the address is ignored.
3. **Pending leak from duplicate Listens.** Two `Listen` tasks for one
   address both pass the check at line 1156. The later `ListenError`
   removes the live listen and skips `state.decrease()` (line 1068). So
   `pending` never returns to 0: a service that is not `forever` never
   ends on its own. Only an explicit `Shutdown`, which sets `pre_shutdown`,
   still ends it.
4. **Graceful shutdown may never complete.** `Shutdown(false)` (line 1241)
   leaves dials in flight that open sessions nobody closes.
5. **Session-level handle buffer lost on protocol close.** `protocol_close`
   (line 899) removes `session_proto_handles[(id, proto)]`, which
   `session_handles_open` creates only when the session opens. When the
   substream reopens, the notify tasks for it are dropped silently (the
   TODO at line 1197), listen `Update`s no longer reach the handle, and its
   death is never detected. The trace is 14 steps: dial, open, ProtocolOpen,
   ProtocolClose, ProtocolOpen again.
6. **Stale context listens.** `try_update_listens` (line 956) refreshes
   `service_context.listens()` and sends `Update` to the handles only when
   the number of listens changed. `Service::listen` inserts at line 237
   without either. A removal (Shutdown draining `listens` at line 1244, or
   a `ListenError` at line 1063) followed by `Service::listen` before the
   next poll keeps the lengths equal. The context then lists the removed
   address for good, and the new listen is never broadcast.

Every property of a passing run has a mutant in `PROJECT.json`. The mutant
is a plausible bug of the mapped operator: a dropped capacity check, a
dropped key lookup, a dropped `is_outbound()` test, a missing `sessions.remove` or `retain`, a
probe that does not probe at all, a shutdown that does not close sessions,
a `poll_next` or `flush_buffer` that skips the user-level flush, a
`Disconnect` not turned into a shutdown, a limit check that forgets
`sessions.len()`, and a round without a user task that skips
`send_pending_task`, and a quick Shutdown that forgets
`future_task_sender.clear()`. TLC finds the property violated under each mutant.

## Bounds

These bounds are chosen so that the interesting cases happen:

- `IdWidth = 1` gives ids {0,1}. Ids wrap after two sessions, so id reuse
  and the probe past a live id are reached.
- `MaxConnectionNumber = 1` lets the limit be hit by one inbound and one
  outbound connection.
- `MaxTasks = 3` counts setup calls plus user tasks, and `MaxInbound = 1`.
  Together they allow two dials racing with an inbound connection, or two
  Listens of one address.
- `EvCap = 2` and `SessChanCap = 1` fill both channels.
- `SendEventSize = 1` makes the user-task backpressure gate reachable;
  the backpressure run uses 0, so it closes at every buffered item.
- `LateSetup` lets the owner call `listen` and `dial` between polls. It is
  off only in `handle_liveness`, whose owner makes its calls before the
  first poll; the property there is about the handles, not the setup.
- `HandlerErrors` enables `ProtocolHandleError`. It is on in
  `protocol_handles` and off elsewhere: the fatal error only runs the
  graceful shutdown that the other runs already reach through `Shutdown`.
- `SyncErrors` and `ResolveChanges` enable the synchronous transport error
  and the resolved-address paths. The liveness runs disable them to stay
  fast.
- The runs without protocols set `Protos = {}`; their state spaces are the
  same as before the handles were added. The protocol runs use one protocol
  with both handle kinds, `HandleChanCap = 1` and `RecvEventSize = 0`, so a
  second item for a handle stays in its buffer and closes the inbound gate.
  `MaxProtoEvents` (2 for `protocol_handles`, 1 for `handle_liveness`, 3
  for `proto_reopen`) bounds the substream opens and closes; 3 is exactly
  the open, close, reopen of finding 5.
- `handle_liveness` uses one address and one key (`LiveAddrs`, `LiveKeys`)
  so that the liveness check stays under a minute.
- `FtCap = 1` in every run: a dial and a `FutureTask` in the same round
  already fill the manager channel, so a future is held in the Buffer.
  `future_tasks` posts one `FutureTask`, one Dial, one Listen and either
  Shutdown, with `MaxTasks = 3`. It sets `Forever = TRUE` (the `forever`
  service flag), so the Service stays up without a setup call. That leaves
  all three tasks for a dial, a held user future and a quick Shutdown.
- `shutdown_liveness` uses `MaxInbound = 0`. Sessions come from the dial
  racing the shutdown, and an inbound session is closed by the same
  `session_close` path.

## Fairness

`FairSpec` assumes weak fairness of the Service step, of each Session
draining its channel, of each live protocol handle task draining its
channel, and of the FutureTaskManager spawning the head of its channel. The justification is that every channel and buffer change wakes
the Service through the receivers' wakers and `Buffer::try_send`, and each
Session and handle task, like the manager's `for_each` over its receiver,
is a spawned task woken by its channel.

Nothing is assumed of the user, the transports, the remote ends or the
handlers' failures. A liveness property therefore holds even if they do
nothing more.

## Not modelled

- A separate `Buffer` module with priorities: every queue is FIFO.
- The `SessionTimeout`, `MuxerError`, `ProtocolSelectError` and
  `ProtocolError` events: they only call the user handle. `ProtocolMessage`
  is modelled only as the event being consumed, because it too only calls
  the handle.
- What a user future does: it completes at some point, and its effects
  come in through the Control like any other task.
- `Block` handle errors and `SessionBlocked`, which only report. The
  `ProtocolHandleError` event is modelled, but no property is about its
  shutdown apart from `HandleRecordsBacked` holding through it.
- The handler callbacks and event payloads: `Update`, `SetNotify` and
  `RemoveNotify` are each one item kind.

These parts are deliberately left out:

- `traits.rs` declares the handler traits (`ServiceHandle`,
  `ServiceProtocol`, `SessionProtocol`, `ProtocolSpawn`, `Codec`) with
  no-op default methods and forwarding impls for boxes. It has no state; the
  model abstracts the handlers as accepting every call.
- `runtime/mod.rs` holds the `CompatStream` adapters between tokio and
  futures I/O traits. They are byte-level I/O plumbing with no control state
  that the Service depends on.
- The transports, secio, yamux and UPnP appear only as the nondeterministic
  outcomes of the attempts.
