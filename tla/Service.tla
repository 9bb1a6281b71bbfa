------------------------------ MODULE Service ------------------------------
(***************************************************************************)
(* The tentacle Service event loop (src/tentacle/src/service.rs) together  *)
(* with the tasks it talks to over channels: the user's Control (the task  *)
(* channel), the dial/listen/handshake futures run by the                  *)
(* FutureTaskManager, the listener pumps, and one Session task per open    *)
(* connection.                                                             *)
(*                                                                         *)
(* One poll round of Service::poll_next is split into the steps between    *)
(* which the other tasks may run: the head (termination check, one-time    *)
(* init, flush_buffer, try_update_listens), session_poll (at most one      *)
(* SessionEvent) and user_task_poll (at most one ServiceTask).  The tail   *)
(* termination check of a round is taken in the same step as the          *)
(* send_pending_task that precedes it (SendPendingTask).                   *)
(***************************************************************************)
EXTENDS Integers, Sequences, FiniteSets, FiniteSetsExt, SequencesExt, TLC

CONSTANTS
    Addrs,                \* multiaddresses the user dials or listens on
    RemoteAddr,           \* remote address of an inbound connection
    Keys,                 \* remote public keys a handshake may yield
    NoKey,                \* remote_pubkey = None / no /p2p/ component
    PeerIdOf,             \* [Addrs -> Keys \cup {NoKey}]: /p2p/ part of a dial address
    IdWidth,              \* bit width of SessionId (32 in the code)
    MaxConnectionNumber,  \* config.max_connection_number
    SendEventSize,        \* session_config.send_event_size()
    Forever,              \* State::new(forever)
    EvCap,                \* capacity of the session-event channel (RECEIVED_SIZE)
    SessChanCap,          \* capacity of a session's priority channel (SEND_SIZE)
    UserTasks,            \* the ServiceTasks the Control may post
    MaxTasks,             \* bound: tasks posted plus setup calls made
    MaxInbound,           \* bound: inbound connections accepted by listeners
    SyncErrors,           \* MultiTransport::dial/listen may fail synchronously
    ResolveChanges,       \* a dial may resolve to another address than requested
    Protos,               \* protocol ids of protocol_configs
    SvcProtos,            \* protocols with a service-level handle (Callback/Both)
    SessProtos,           \* protocols with a session-level handle (Callback/Both)
    RecvEventSize,        \* session_config.recv_event_size()
    HandleChanCap,        \* capacity of a protocol handle's channel (RECEIVED_SIZE)
    MaxProtoEvents,       \* bound: protocol substreams opened or closed by sessions
    FtCap,                \* capacity of the FutureTaskManager's channel (SEND_SIZE)
    HandlerErrors,        \* whether handlers may fail with a reported fatal error
    LateSetup             \* whether the owner calls listen/dial between polls

IdCount == 2 ^ IdWidth
Ids == 0 .. (IdCount - 1)
NoId == -1

ASSUME /\ PeerIdOf \in [Addrs -> Keys \cup {NoKey}]
       /\ RemoteAddr \notin Addrs
       /\ MaxConnectionNumber \in Nat /\ MaxConnectionNumber < IdCount
       /\ SendEventSize \in Nat /\ EvCap \in Nat \ {0} /\ SessChanCap \in Nat \ {0}
       /\ Forever \in BOOLEAN /\ SyncErrors \in BOOLEAN /\ ResolveChanges \in BOOLEAN
       /\ HandlerErrors \in BOOLEAN
       /\ LateSetup \in BOOLEAN
       /\ SvcProtos \subseteq Protos /\ SessProtos \subseteq Protos
       /\ RecvEventSize \in Nat /\ HandleChanCap \in Nat \ {0}

VARIABLES
    sessions,       \* sessions: SessionId -> SessionController (key, ty, serial, buffer)
    running,        \* ids whose Session task is alive
    chan,           \* per id: the Session's priority channel fed by the controller
    listens,        \* listens: HashSet<Multiaddr>
    ctxListens,     \* service_context.listens()
    listeners,      \* addresses with a spawned listener pump
    dialProtocols,  \* keys of dial_protocols
    pending,        \* state: in-flight dial/listen attempts
    preShutdown,    \* state: pre_shutdown() was called
    nextSession,    \* next_session
    attempts,       \* dial/listen/handshake futures held by the FutureTaskManager
    evQ,            \* session_event channel (SessionEvents to the Service)
    taskQ,          \* service_task channel (ServiceTasks from the Control)
    phase,          \* where poll_next is: setup, head, session, user, wait, done
    shutdown,       \* the shared AtomicBool shutdown flag
    recvClosed,     \* both receivers closed by Shutdown(true)
    issued,         \* bound counter: tasks posted and setup calls made
    inbound,        \* bound counter: inbound connections
    serial,         \* ghost: number of sessions ever opened
    closeSet,       \* ghost: serials of sessions live at a graceful Shutdown
    handles,        \* service_proto_handles (key <<NoId, p>>) and
                    \* session_proto_handles (key <<id, p>>): the Buffer, the
                    \* handle's channel, and whether the handle task is alive
    popen,          \* <<id, p>>: protocol substreams open in the Session tasks
    pevents,        \* bound counter: substream opens and closes
    ftBuf,          \* future_task_sender: futures held in the Buffer
    ftChan          \* the FutureTaskManager's channel, fed by send_pending_task

vars == <<sessions, running, chan, listens, ctxListens, listeners, dialProtocols,
          pending, preShutdown, nextSession, attempts, evQ, taskQ, phase,
          shutdown, recvClosed, issued, inbound, serial, closeSet, handles, popen,
          pevents, ftBuf, ftChan>>

-----------------------------------------------------------------------------
(* Messages.                                                               *)

Ty == {"in", "out"}
\* What a SessionController pushes to its session: protocol data, a
\* SessionClose, a ProtocolOpen or a ProtocolClose request.
Items == {"msg", "close", "popen", "pclose"}
\* What the Service pushes to a protocol handle: Update{listen_addrs} and
\* SetNotify/RemoveNotify.
HItems == {"update", "notify"}

EvSessionClose(id) == [type |-> "SessionClose", id |-> id]
\* req is a ghost field: the address the Control asked to dial, if any.
EvHandshakeSuccess(ty, a, k, req) ==
    [type |-> "HandshakeSuccess", ty |-> ty, addr |-> a, key |-> k, req |-> req]
EvHandshakeError(ty, a, req) ==
    [type |-> "HandshakeError", ty |-> ty, addr |-> a, req |-> req]
EvDialError(a) == [type |-> "DialError", ty |-> "out", addr |-> a, req |-> a]
EvListenStart(a) == [type |-> "ListenStart", addr |-> a]
EvListenError(a) == [type |-> "ListenError", addr |-> a]
EvProtocolOpen(id, p) == [type |-> "ProtocolOpen", id |-> id, proto |-> p]
EvProtocolClose(id, p) == [type |-> "ProtocolClose", id |-> id, proto |-> p]
EvProtocolMessage(id, p) == [type |-> "ProtocolMessage", id |-> id, proto |-> p]

-----------------------------------------------------------------------------
(* State (service/config.rs, outside src/): modelled from the spec.        *)

Increase(p) == p + 1
Decrease(p) == IF p > 0 THEN p - 1 ELSE 0
IsShutdown == preShutdown \/ (~Forever /\ pending = 0)

(* Buffer::try_send (buffer.rs, outside src/), modelled from the spec: move *)
(* held items into the bounded channel while it has room; Disconnect when  *)
(* the receiver is gone, in which case the held items are dropped.         *)
TrySendKept(held, ch, alive) ==
    IF ~alive THEN <<>>
    ELSE SubSeq(held, (SessChanCap - Len(ch)) + 1, Len(held))

\* Mutant: ignores the channel's remaining capacity.
TrySendSentNoRoom(held, ch, alive) == IF ~alive THEN <<>> ELSE held
TrySendSent(held, ch, alive) ==
    IF ~alive THEN <<>>
    ELSE SubSeq(held, 1, IF Len(held) < SessChanCap - Len(ch)
                         THEN Len(held) ELSE SessChanCap - Len(ch))

-----------------------------------------------------------------------------
(* Helpers of Service.                                                     *)

\* The probe of generate_next_session, at most IdCount steps. The code loops
\* for good when every id is taken; NoId stands for that outcome. It is not
\* reached: session_open runs only with at most max_connection_number
\* sessions open, fewer than IdCount (ASSUME).
RECURSIVE Probe(_, _, _)
Probe(n, used, k) ==
    IF k = 0 THEN NoId
    ELSE LET c == (n + 1) % IdCount
         IN IF c \notin used THEN c ELSE Probe(c, used, k - 1)

\* Mutant: the probe takes the next id unchecked.
GenerateNextSessionNoProbe(n, used) == (n + 1) % IdCount

\* generate_next_session: wrapping_add(1) until an id not in sessions.
GenerateNextSession(n, used) == Probe(n, used, IdCount)

ReachedMaxConnectionLimit(p) ==
    MaxConnectionNumber < Cardinality(DOMAIN sessions) + p

\* The sessions map with the controllers of ids removed / id's replaced.
Without(ss, ids) == [x \in DOMAIN ss \ ids |-> ss[x]]
Insert(ss, id, c) == [x \in DOMAIN ss \cup {id} |-> IF x = id THEN c ELSE ss[x]]

\* Push an item into the buffers of the controllers of ids.
PushTo(ss, ids, item) ==
    [x \in DOMAIN ss |-> IF x \in ids
                         THEN [ss[x] EXCEPT !.buffer = Append(@, item)]
                         ELSE ss[x]]

\* A handler of the loop may call distribute_to_user_level, which may call
\* the Shutdown(false) handler, which calls distribute_to_session: the steps
\* of one handler are composed as functions of a record w of the state they
\* change (ss sessions, ch chan, hs handles, ls listens, cl ctxListens, pre
\* preShutdown, cs closeSet, fb ftBuf).
World == [ss |-> sessions, ch |-> chan, hs |-> handles, ls |-> listens,
          cl |-> ctxListens, pre |-> preShutdown, cs |-> closeSet, fb |-> ftBuf]

SetWorld(w) ==
    /\ sessions' = w.ss /\ chan' = w.ch /\ handles' = w.hs /\ listens' = w.ls
    /\ ctxListens' = w.cl /\ preShutdown' = w.pre /\ closeSet' = w.cs
    /\ ftBuf' = w.fb

\* distribute_to_session: try_send on every controller's buffer; the
\* shutdown flag short-circuits it.
DistOut(w) ==
    IF shutdown THEN w
    ELSE [w EXCEPT
            !.ss = [x \in DOMAIN w.ss |->
                     [w.ss[x] EXCEPT !.buffer = TrySendKept(@, w.ch[x], x \in running)]],
            !.ch = [x \in Ids |->
                     IF x \in DOMAIN w.ss /\ x \in running
                     THEN w.ch[x] \o TrySendSent(w.ss[x].buffer, w.ch[x], TRUE)
                     ELSE w.ch[x]]]

DistributeToSession(ss) ==
    LET w == DistOut([World EXCEPT !.ss = ss])
    IN sessions' = w.ss /\ chan' = w.ch

\* Shutdown(false), the part after the task is taken: pre_shutdown, drain
\* listens, session_close(Source::External) for every session.
GracefulClose(w) ==
    DistOut([w EXCEPT !.ss = PushTo(w.ss, DOMAIN w.ss, "close"),
                      !.pre = TRUE, !.ls = {}, !.fb = <<>>,
                      !.cs = w.cs \cup {w.ss[x].serial : x \in DOMAIN w.ss}])

\* Buffer::try_send of a protocol handle's buffer (spec-modelled like the
\* session buffer): a dead receiver drops what is held (Disconnect).
HandleTrySend(h) ==
    IF ~h.alive THEN [h EXCEPT !.buf = <<>>]
    ELSE LET n == IF Len(h.buf) < HandleChanCap - Len(h.ch)
                  THEN Len(h.buf) ELSE HandleChanCap - Len(h.ch)
         IN [h EXCEPT !.buf = SubSeq(@, n + 1, Len(@)), !.ch = @ \o SubSeq(h.buf, 1, n)]

\* Disconnect: a dead handle with items held (try_send with nothing held
\* has nothing to send and returns Ok).
Disconnected(h) == ~h.alive /\ h.buf # <<>>

\* Mutant: a Disconnect is not turned into the AbnormallyClosed shutdown.
DistributeToUserLevelNoError(w) ==
    IF shutdown THEN w
    ELSE [w EXCEPT !.hs = [k \in DOMAIN w.hs |-> HandleTrySend(w.hs[k])]]

\* distribute_to_user_level: try_send on every handle buffer; any
\* AbnormallyClosed runs handle_service_task(Shutdown(false)).
DistributeToUserLevel(w) ==
    IF shutdown THEN w
    ELSE LET w1 == [w EXCEPT !.hs = [k \in DOMAIN w.hs |-> HandleTrySend(w.hs[k])]]
         IN IF \E k \in DOMAIN w.hs : Disconnected(w.hs[k])
            THEN GracefulClose(w1) ELSE w1

\* Push an item into the buffers of the handles ks.
PushHandles(hs, ks, item) ==
    [k \in DOMAIN hs |-> IF k \in ks THEN [hs[k] EXCEPT !.buf = Append(@, item)]
                                    ELSE hs[k]]

\* Mutant: the user-level half of flush_buffer is skipped.
FlushBufferSessionsOnly(w) ==
    IF \A x \in DOMAIN w.ss : w.ss[x].buffer = <<>> THEN w ELSE DistOut(w)

\* flush_buffer: distribute where some buffer holds items.
FlushBuffer(w) ==
    LET w1 == IF \A x \in DOMAIN w.ss : w.ss[x].buffer = <<>> THEN w ELSE DistOut(w)
    IN IF \A k \in DOMAIN w1.hs : w1.hs[k].buf = <<>> THEN w1
       ELSE DistributeToUserLevel(w1)

\* try_update_listens: on a change of the number of listens, publish them
\* and push Update to every handle, then distribute_to_user_level.
TryUpdateListens(w) ==
    IF Cardinality(w.ls) = Cardinality(w.cl) THEN w
    ELSE DistributeToUserLevel([w EXCEPT !.cl = w.ls,
                                         !.hs = PushHandles(w.hs, DOMAIN w.hs, "update")])

\* A fresh Buffer around the sender of a newly spawned handle task.
NewHandle == [buf |-> <<>>, ch |-> <<>>, alive |-> TRUE]

\* init_proto_handles: a Buffer for every service-level handle.
InitProtoHandles(w) ==
    [w EXCEPT !.hs = [k \in {<<NoId, p>> : p \in SvcProtos} |-> NewHandle]]

\* session_handles_open: a Buffer for every session-level handle of id.
SessionHandlesOpen(id) == [k \in {<<id, p>> : p \in SessProtos} |-> NewHandle]

\* The handle keys of session id / of protocol p.
HandleKeysOf(hs, id) == {k \in DOMAIN hs : k[1] = id}

TerminatingWith(buf) ==
    /\ listens = {}
    /\ IsShutdown
    /\ DOMAIN sessions = {}
    /\ buf = <<>>

Terminating == TerminatingWith(ftBuf)

PeerIdIn(a) == IF a \in Addrs THEN PeerIdOf[a] ELSE NoKey
Resolutions(a) == IF ResolveChanges THEN Addrs ELSE {a}

NewAttempt(tid, kind, a, req) == [tid |-> tid, kind |-> kind, addr |-> a, req |-> req]

\* A ServiceTask::FutureTask future (it has no address; RemoteAddr fills the
\* fields).
UserFuture(tid) == NewAttempt(tid, "user", RemoteAddr, RemoteAddr)

\* Buffer::try_send of future_task_sender into the FutureTaskManager's
\* channel (spec-modelled like the other buffers; the manager's receiver
\* lives as long as the loop).
FtTrySend(b, c) ==
    LET n == IF Len(b) < FtCap - Len(c) THEN Len(b) ELSE FtCap - Len(c)
    IN [buf |-> SubSeq(b, n + 1, Len(b)), ch |-> c \o SubSeq(b, 1, n)]

-----------------------------------------------------------------------------
Init ==
    /\ sessions = [x \in {} |-> 0]
    /\ running = {}
    /\ chan = [x \in Ids |-> <<>>]
    /\ listens = {}
    /\ ctxListens = {}
    /\ listeners = {}
    /\ dialProtocols = {}
    /\ pending = 0
    /\ preShutdown = FALSE
    /\ nextSession = 0
    /\ attempts = {}
    /\ evQ = <<>>
    /\ taskQ = <<>>
    /\ phase = "setup"
    /\ shutdown = FALSE
    /\ recvClosed = FALSE
    /\ issued = 0
    /\ inbound = 0
    /\ serial = 0
    /\ closeSet = {}
    /\ ftBuf = <<>>
    /\ ftChan = <<>>
    /\ handles = [k \in {} |-> 0]
    /\ popen = {}
    /\ pevents = 0

-----------------------------------------------------------------------------
(* Calls the owner makes on the Service (it needs &mut self): before the  *)
(* first poll or between two polls.                                       *)

\* Service::listen: the listen future succeeds, the address is recorded and
\* a listener pump is spawned (no pending count); the context's copy of the
\* listens is left to the next try_update_listens.
\* The owner's calls on the Service: before the first poll, or (LateSetup)
\* between two polls.
SetupPhases == IF LateSetup THEN {"setup", "head"} ELSE {"setup"}

SetupListen(a) ==
    /\ phase \in SetupPhases /\ issued < MaxTasks
    /\ listens' = listens \cup {a}
    /\ listeners' = listeners \cup {a}
    /\ issued' = issued + 1
    /\ UNCHANGED <<sessions, running, chan, ctxListens, dialProtocols, pending,
                   preShutdown, nextSession, attempts, evQ, taskQ, phase,
                   shutdown, recvClosed, inbound, serial, closeSet, handles, popen, pevents, ftBuf, ftChan>>

\* Service::dial: the dial future resolves to r, a handshake is spawned on
\* r, and the target is recorded under the requested address a.
SetupDial(a) ==
    /\ phase \in SetupPhases /\ issued < MaxTasks
    /\ \E r \in Resolutions(a) :
          attempts' = attempts \cup {NewAttempt(issued, "hs", r, a)}
    /\ dialProtocols' = dialProtocols \cup {a}
    /\ pending' = Increase(pending)
    /\ issued' = issued + 1
    /\ UNCHANGED <<sessions, running, chan, listens, ctxListens, listeners,
                   preShutdown, nextSession, evQ, taskQ, phase, shutdown,
                   recvClosed, inbound, serial, closeSet, handles, popen, pevents, ftBuf, ftChan>>

-----------------------------------------------------------------------------
(* Poll round, head: Service::poll_next up to try_update_listens.         *)

\* listens empty, state.is_shutdown(), sessions empty (and the future task
\* buffer empty, which it always is between steps): set the shutdown flag
\* and go to wait_handle_poll.
PollHeadTerminate ==
    /\ phase \in {"setup", "head"}
    /\ Terminating
    /\ shutdown' = TRUE
    /\ phase' = "wait"
    /\ UNCHANGED <<sessions, running, chan, listens, ctxListens, listeners,
                   dialProtocols, pending, preShutdown, nextSession, attempts,
                   evQ, taskQ, recvClosed, issued, inbound, serial, closeSet, handles, popen, pevents, ftBuf, ftChan>>

\* Mutant: flush_buffer is skipped.
PollHeadNoFlush ==
    /\ phase \in {"setup", "head"}
    /\ ~Terminating
    /\ phase' = "session"
    /\ SetWorld(TryUpdateListens(IF phase = "setup" THEN InitProtoHandles(World)
                                                    ELSE World))
    /\ UNCHANGED <<running, listeners, dialProtocols, pending, nextSession,
                   attempts, evQ, taskQ, shutdown, recvClosed, issued, inbound,
                   serial, popen, pevents, ftChan>>

\* Otherwise: the one-time init (first poll only), flush_buffer and
\* try_update_listens.
PollHead ==
    /\ phase \in {"setup", "head"}
    /\ ~Terminating
    /\ phase' = "session"
    /\ SetWorld(TryUpdateListens(FlushBuffer(
           IF phase = "setup" THEN InitProtoHandles(World) ELSE World)))
    /\ UNCHANGED <<running, listeners, dialProtocols, pending, nextSession,
                   attempts, evQ, taskQ, shutdown, recvClosed, issued, inbound,
                   serial, popen, pevents, ftChan>>

\* Poll round, tail: send_pending_task, then the tail termination check on
\* the buffer it leaves: the stream sets the shutdown flag and waits for its
\* handles, or the round ends.
SendPendingTask ==
    LET r == FtTrySend(ftBuf, ftChan)
    IN /\ phase = "tail"
       /\ ftBuf' = r.buf /\ ftChan' = r.ch
       /\ \/ /\ TerminatingWith(r.buf)
             /\ shutdown' = TRUE /\ phase' = "wait"
          \/ /\ ~TerminatingWith(r.buf)
             /\ phase' = "head" /\ UNCHANGED shutdown
       /\ UNCHANGED <<sessions, running, chan, listens, ctxListens, listeners,
                      dialProtocols, pending, preShutdown, nextSession, attempts,
                      evQ, taskQ, recvClosed, issued, inbound, serial,
                      closeSet, handles, popen, pevents>>

\* wait_handle_poll: the cancel is sent to every handle and they complete.
WaitHandlePoll ==
    /\ phase = "wait"
    /\ phase' = "done"
    /\ UNCHANGED <<sessions, running, chan, listens, ctxListens, listeners,
                   dialProtocols, pending, preShutdown, nextSession, attempts,
                   evQ, taskQ, shutdown, recvClosed, issued, inbound, serial,
                   closeSet, handles, popen, pevents, ftBuf, ftChan>>

-----------------------------------------------------------------------------
(* session_poll and handle_session_event.                                 *)

\* Items the Service holds for the service-level / session-level handles.
HeldFor(svc) ==
    MapThenSumSet(LAMBDA k : Len(handles[k].buf),
                  {k \in DOMAIN handles : (k[1] = NoId) = svc})

\* Inbound backpressure: either class holds more than recv_event_size.
RecvBlocked == HeldFor(TRUE) > RecvEventSize \/ HeldFor(FALSE) > RecvEventSize

\* session_poll finds no event: the gate is closed or the channel is empty.
\* A receiver closed by Shutdown(true) still yields what is buffered; once
\* drained it would return Ready(None), which the code marks unreachable!()
\* (ClosedReceiverNeverPolled).
SessionPollIdle ==
    /\ phase = "session"
    /\ evQ = <<>> \/ RecvBlocked
    /\ phase' = "user"
    /\ UNCHANGED <<sessions, running, chan, listens, ctxListens, listeners,
                   dialProtocols, pending, preShutdown, nextSession, attempts,
                   evQ, taskQ, shutdown, recvClosed, issued, inbound, serial,
                   closeSet, handles, popen, pevents, ftBuf, ftChan>>

RecvEvent(type) ==
    /\ phase = "session"
    /\ ~RecvBlocked
    /\ evQ # <<>>
    /\ Head(evQ).type = type
    /\ evQ' = Tail(evQ)
    /\ phase' = "user"

\* Mutant: the controller is not removed from sessions.
OnSessionCloseKeep ==
    /\ RecvEvent("SessionClose")
    /\ UNCHANGED <<sessions, running, chan, listens, ctxListens, listeners,
                   dialProtocols, pending, preShutdown, nextSession, attempts,
                   taskQ, shutdown, recvClosed, issued, inbound, serial, closeSet, handles, popen, pevents, ftBuf, ftChan>>

\* Mutant: the session's handle buffers are not cleaned.
OnSessionCloseNoRetain ==
    /\ RecvEvent("SessionClose")
    /\ sessions' = Without(sessions, {Head(evQ).id})
    /\ UNCHANGED <<running, chan, listens, ctxListens, listeners, dialProtocols,
                   pending, preShutdown, nextSession, attempts, taskQ, shutdown,
                   recvClosed, issued, inbound, serial, closeSet, handles, popen, pevents, ftBuf, ftChan>>

\* SessionEvent::SessionClose: session_close(id, Source::Internal): the
\* session's handle buffers are dropped, then its controller.
OnSessionClose ==
    LET id == Head(evQ).id
    IN /\ RecvEvent("SessionClose")
       /\ handles' = [k \in DOMAIN handles \ HandleKeysOf(handles, id) |-> handles[k]]
       /\ sessions' = Without(sessions, {id})
       /\ UNCHANGED <<running, chan, listens, ctxListens, listeners, dialProtocols,
                      pending, preShutdown, nextSession, attempts, taskQ, shutdown,
                      recvClosed, issued, inbound, serial, closeSet, popen, pevents, ftBuf, ftChan>>

\* Mutant: the lookup of the key among the sessions is skipped.
DuplicateKeyNever(e) == FALSE

\* session_open: the remote key is already the key of a live session.
DuplicateKey(e) == e.key # NoKey /\ \E x \in DOMAIN sessions : sessions[x].key = e.key

\* session_open after the limit check: duplicate key, peer id mismatch, or
\* a new SessionController under the next free id and a spawned Session.

SessionOpen(e) ==
    LET dup      == DuplicateKey(e)
        mismatch == e.key # NoKey /\ PeerIdIn(e.addr) \notin {NoKey, e.key}
        id       == GenerateNextSession(nextSession, DOMAIN sessions)
    IN /\ dialProtocols' = dialProtocols \ {e.addr}
       /\ \/ /\ dup
             /\ UNCHANGED <<sessions, running, chan, nextSession, serial, handles>>
          \/ /\ ~dup /\ mismatch
             /\ UNCHANGED <<sessions, running, chan, nextSession, serial, handles>>
          \/ /\ ~dup /\ ~mismatch
             /\ nextSession' = id
             /\ sessions' = Insert(sessions, id,
                   [key |-> e.key, ty |-> e.ty, serial |-> serial, buffer |-> <<>>])
             /\ handles' = SessionHandlesOpen(id) @@ handles
             /\ running' = running \cup {id}
             /\ chan' = [chan EXCEPT ![id] = <<>>]
             /\ serial' = serial + 1

\* SessionEvent::HandshakeSuccess: an outbound one settles a pending dial,
\* then the session is opened unless the connection limit is reached.
OnHandshakeSuccess ==
    LET e == Head(evQ)
        p == IF e.ty = "out" THEN Decrease(pending) ELSE pending
    IN /\ RecvEvent("HandshakeSuccess")
       /\ pending' = p
       /\ \/ /\ ReachedMaxConnectionLimit(p)
             /\ UNCHANGED <<sessions, running, chan, dialProtocols, nextSession,
                            serial, handles>>
          \/ /\ ~ReachedMaxConnectionLimit(p)
             /\ SessionOpen(e)
       /\ UNCHANGED <<listens, ctxListens, listeners, preShutdown, attempts,
                      taskQ, shutdown, recvClosed, issued, inbound, closeSet, popen, pevents, ftBuf, ftChan>>

\* Mutant: the is_outbound() test is dropped.
OnHandshakeErrorAnyTy ==
    /\ RecvEvent("HandshakeError")
    /\ pending' = Decrease(pending)
    /\ dialProtocols' = dialProtocols \ {Head(evQ).addr}
    /\ UNCHANGED <<sessions, running, chan, listens, ctxListens, listeners,
                   preShutdown, nextSession, attempts, taskQ, shutdown,
                   recvClosed, issued, inbound, serial, closeSet, handles, popen, pevents, ftBuf, ftChan>>

\* SessionEvent::HandshakeError: only an outbound one settles a dial.
OnHandshakeError ==
    /\ RecvEvent("HandshakeError")
    /\ \/ /\ Head(evQ).ty = "out"
          /\ pending' = Decrease(pending)
          /\ dialProtocols' = dialProtocols \ {Head(evQ).addr}
       \/ /\ Head(evQ).ty = "in"
          /\ UNCHANGED <<pending, dialProtocols>>
    /\ UNCHANGED <<sessions, running, chan, listens, ctxListens, listeners,
                   preShutdown, nextSession, attempts, taskQ, shutdown,
                   recvClosed, issued, inbound, serial, closeSet, handles, popen, pevents, ftBuf, ftChan>>

\* SessionEvent::DialError.
OnDialError ==
    /\ RecvEvent("DialError")
    /\ pending' = Decrease(pending)
    /\ dialProtocols' = dialProtocols \ {Head(evQ).addr}
    /\ UNCHANGED <<sessions, running, chan, listens, ctxListens, listeners,
                   preShutdown, nextSession, attempts, taskQ, shutdown,
                   recvClosed, issued, inbound, serial, closeSet, handles, popen, pevents, ftBuf, ftChan>>

\* SessionEvent::ListenError: a recorded address is removed (ListenClose),
\* otherwise it was a listen attempt and settles it.
OnListenError ==
    LET a == Head(evQ).addr
    IN /\ RecvEvent("ListenError")
       /\ \/ /\ a \in listens
             /\ listens' = listens \ {a}
             /\ UNCHANGED pending
          \/ /\ a \notin listens
             /\ pending' = Decrease(pending)
             /\ UNCHANGED listens
       /\ UNCHANGED <<sessions, running, chan, ctxListens, listeners, dialProtocols,
                      preShutdown, nextSession, attempts, taskQ, shutdown,
                      recvClosed, issued, inbound, serial, closeSet, handles, popen, pevents, ftBuf, ftChan>>

\* SessionEvent::ListenStart: record, settle, publish (which may run
\* Shutdown(false) on a dead handle), spawn the listener.
OnListenStart ==
    LET a == Head(evQ).addr
    IN /\ RecvEvent("ListenStart")
       /\ pending' = Decrease(pending)
       /\ SetWorld(TryUpdateListens([World EXCEPT !.ls = listens \cup {a}]))
       /\ listeners' = listeners \cup {a}
       /\ UNCHANGED <<running, dialProtocols, nextSession, attempts, taskQ,
                      shutdown, recvClosed, issued, inbound, serial, popen, pevents, ftChan>>

-----------------------------------------------------------------------------
(* user_task_poll and handle_service_task.                                *)

\* Sum of the controllers' buffer lengths (outbound backpressure).
OutboundHeld == MapThenSumSet(LAMBDA x : Len(sessions[x].buffer), DOMAIN sessions)

CanPollUser == OutboundHeld <= SendEventSize /\ taskQ # <<>>

\* user_task_poll returns without a task (send credit exhausted, receiver
\* closed or empty); the round ends.
\* Mutant: a round without a user task skips send_pending_task.
UserPollIdleSkipSend ==
    /\ phase = "user"
    /\ ~CanPollUser
    /\ phase' = "head"
    /\ UNCHANGED <<sessions, running, chan, listens, ctxListens, listeners,
                   dialProtocols, pending, preShutdown, nextSession, attempts,
                   evQ, taskQ, shutdown, recvClosed, issued, inbound, serial,
                   closeSet, handles, popen, pevents, ftBuf, ftChan>>

UserPollIdle ==
    /\ phase = "user"
    /\ ~CanPollUser
    /\ phase' = "tail"
    /\ UNCHANGED <<sessions, running, chan, listens, ctxListens, listeners,
                   dialProtocols, pending, preShutdown, nextSession, attempts,
                   evQ, taskQ, shutdown, recvClosed, issued, inbound, serial,
                   closeSet, handles, popen, pevents, ftBuf, ftChan>>

RecvTask(type) ==
    /\ phase = "user"
    /\ CanPollUser
    /\ Head(taskQ).type = type
    /\ taskQ' = Tail(taskQ)
    /\ phase' = "tail"

\* ServiceTask::ProtocolMessage: handle_message pushes into the target
\* controllers (absent ones are skipped) and distributes.
OnProtocolMessage ==
    LET t == Head(taskQ).arg
    IN /\ RecvTask("ProtocolMessage")
       /\ \/ /\ t = "All"
             /\ DistributeToSession(PushTo(sessions, DOMAIN sessions, "msg"))
          \/ /\ t # "All"
             /\ DistributeToSession(PushTo(sessions, {t} \cap DOMAIN sessions, "msg"))
       /\ UNCHANGED <<running, listens, ctxListens, listeners, dialProtocols,
                      pending, preShutdown, nextSession, attempts, evQ, shutdown,
                      recvClosed, issued, inbound, serial, closeSet, handles, popen, pevents, ftBuf, ftChan>>

\* dial_inner: the target is recorded before the transport is asked; a
\* synchronous transport error returns before the task is pushed.
DialInner(a, tid) ==
    /\ dialProtocols' = dialProtocols \cup {a}
    /\ \/ /\ SyncErrors
          /\ UNCHANGED <<ftBuf, pending>>
       \/ /\ ftBuf' = Append(ftBuf, NewAttempt(tid, "dial", a, a))
          /\ pending' = Increase(pending)

\* ServiceTask::Dial: ignored while a dial to the address is recorded.
OnDial ==
    LET a == Head(taskQ).arg
    IN /\ RecvTask("Dial")
       /\ \/ /\ a \in dialProtocols
             /\ UNCHANGED <<dialProtocols, ftBuf, pending>>
          \/ /\ a \notin dialProtocols
             /\ DialInner(a, Head(taskQ).tid)
       /\ UNCHANGED <<sessions, running, chan, listens, ctxListens, listeners,
                      preShutdown, nextSession, attempts, evQ, shutdown, recvClosed,
                      issued, inbound, serial, closeSet, handles, popen, pevents, ftChan>>

\* listen_inner: a synchronous transport error returns before the push.
ListenInner(a, tid) ==
    \/ /\ SyncErrors
       /\ UNCHANGED <<ftBuf, pending>>
    \/ /\ ftBuf' = Append(ftBuf, NewAttempt(tid, "listen", a, a))
       /\ pending' = Increase(pending)

\* ServiceTask::Listen: ignored when the address is already listened on.
OnListen ==
    LET a == Head(taskQ).arg
    IN /\ RecvTask("Listen")
       /\ \/ /\ a \in listens
             /\ UNCHANGED <<ftBuf, pending>>
          \/ /\ a \notin listens
             /\ ListenInner(a, Head(taskQ).tid)
       /\ UNCHANGED <<sessions, running, chan, listens, ctxListens, listeners,
                      dialProtocols, preShutdown, nextSession, attempts, evQ, shutdown,
                      recvClosed, issued, inbound, serial, closeSet, handles, popen, pevents, ftChan>>

\* ServiceTask::Disconnect: session_close(id, Source::External) pushes a
\* high-priority SessionClose to the session and distributes.
OnDisconnect ==
    LET id == Head(taskQ).arg
    IN /\ RecvTask("Disconnect")
       /\ \/ /\ id \in DOMAIN sessions
             /\ DistributeToSession(PushTo(sessions, {id}, "close"))
          \/ /\ id \notin DOMAIN sessions
             /\ UNCHANGED <<sessions, chan>>
       /\ UNCHANGED <<running, listens, ctxListens, listeners, dialProtocols,
                      pending, preShutdown, nextSession, attempts, evQ, shutdown,
                      recvClosed, issued, inbound, serial, closeSet, handles, popen, pevents, ftBuf, ftChan>>

LiveSerials == {sessions[x].serial : x \in DOMAIN sessions}

\* Mutant: the quick branch forgets future_task_sender.clear().
QuickCloseKeepFutures(w) ==
    [w EXCEPT !.pre = TRUE, !.ls = {}, !.ss = Without(w.ss, DOMAIN w.ss),
              !.hs = [k \in {} |-> 0]]

\* Shutdown(true): both receivers closed, both handle maps cleared, every
\* session closed internally.
QuickClose(w) ==
    [w EXCEPT !.pre = TRUE, !.ls = {}, !.fb = <<>>, !.ss = Without(w.ss, DOMAIN w.ss),
              !.hs = [k \in {} |-> 0]]

\* Mutants: the graceful branch does not close the sessions; the quick
\* branch closes the receivers but does not close the sessions.
OnShutdownNoClose ==
    LET quick == Head(taskQ).arg
    IN /\ RecvTask("Shutdown")
       /\ recvClosed' = quick
       /\ SetWorld(IF quick THEN QuickClose(World)
                   ELSE [World EXCEPT !.pre = TRUE, !.ls = {}, !.fb = <<>>,
                                      !.cs = closeSet \cup LiveSerials])
       /\ UNCHANGED <<running, listeners, dialProtocols, pending, nextSession,
                      attempts, evQ, shutdown, issued, inbound, serial, popen, pevents, ftChan>>

OnShutdownQuickKeepSessions ==
    LET quick == Head(taskQ).arg
    IN /\ RecvTask("Shutdown")
       /\ recvClosed' = quick
       /\ SetWorld(IF quick THEN [World EXCEPT !.pre = TRUE, !.ls = {}, !.fb = <<>>]
                   ELSE GracefulClose(World))
       /\ UNCHANGED <<running, listeners, dialProtocols, pending, nextSession,
                      attempts, evQ, shutdown, issued, inbound, serial, popen, pevents, ftChan>>

\* ServiceTask::Shutdown(quick): pre_shutdown, drain listens; quick closes
\* both receivers, clears the handle buffers and closes every session
\* internally, otherwise every session is asked to close (Source::External).
OnShutdown ==
    LET quick == Head(taskQ).arg
    IN /\ RecvTask("Shutdown")
       /\ recvClosed' = quick
       /\ SetWorld(IF quick THEN QuickClose(World) ELSE GracefulClose(World))
       /\ UNCHANGED <<running, listeners, dialProtocols, pending, nextSession,
                      attempts, evQ, shutdown, issued, inbound, serial, popen, pevents, ftChan>>

\* ServiceTask::FutureTask: send_future_task pushes the user's future into
\* future_task_sender and calls send_pending_task at once.
OnFutureTask ==
    LET r == FtTrySend(Append(ftBuf, UserFuture(Head(taskQ).tid)), ftChan)
    IN /\ RecvTask("FutureTask")
       /\ ftBuf' = r.buf /\ ftChan' = r.ch
       /\ UNCHANGED <<sessions, running, chan, listens, ctxListens, listeners,
                      dialProtocols, pending, preShutdown, nextSession, attempts,
                      evQ, shutdown, recvClosed, issued, inbound, serial, closeSet,
                      handles, popen, pevents>>

\* ServiceTask::Set/RemoveProtocolNotify (key <<NoId, p>>) and
\* Set/RemoveProtocolSessionNotify (key <<id, p>>): push into the handle's
\* buffer if there is one, then distribute_to_user_level; otherwise dropped.
NotifyTasks == {"SetProtocolNotify", "RemoveProtocolNotify",
                "SetProtocolSessionNotify", "RemoveProtocolSessionNotify"}
NotifyKey(t) ==
    IF t.type \in {"SetProtocolNotify", "RemoveProtocolNotify"}
    THEN <<NoId, t.arg>> ELSE t.arg

OnProtocolNotify ==
    LET k == NotifyKey(Head(taskQ))
    IN /\ \E ty \in NotifyTasks : RecvTask(ty)
       /\ \/ /\ k \in DOMAIN handles
             /\ SetWorld(DistributeToUserLevel(
                    [World EXCEPT !.hs = PushHandles(handles, {k}, "notify")]))
          \/ /\ k \notin DOMAIN handles
             /\ UNCHANGED <<sessions, chan, handles, listens, ctxListens,
                            preShutdown, closeSet, ftBuf>>
       /\ UNCHANGED <<running, listeners, dialProtocols, pending, nextSession,
                      attempts, evQ, shutdown, recvClosed, issued, inbound, serial,
                      popen, pevents, ftChan>>

\* protocol_open(Source::External) for n protocol ids of session id: a
\* high-priority ProtocolOpen request per id pushed into its controller
\* (the distribute_to_session after each push is the caller's).
ProtocolOpenExternal(ss, id, n) ==
    [ss EXCEPT ![id].buffer = @ \o [i \in 1 .. n |-> "popen"]]

\* ServiceTask::ProtocolOpen{session_id, target}: protocol_open(Source::
\* External) for every target protocol id: a ProtocolOpen request pushed
\* to a live session and distributed.  arg.ps is the target's id set.
OnProtocolOpenTask ==
    LET id == Head(taskQ).arg.id
        n  == Cardinality(Head(taskQ).arg.ps)
    IN /\ RecvTask("ProtocolOpen")
       /\ \/ /\ id \in DOMAIN sessions /\ n > 0
             /\ DistributeToSession(ProtocolOpenExternal(sessions, id, n))
          \/ /\ id \notin DOMAIN sessions \/ n = 0
             /\ UNCHANGED <<sessions, chan>>
       /\ UNCHANGED <<running, listens, ctxListens, listeners, dialProtocols,
                      pending, preShutdown, nextSession, attempts, evQ, shutdown,
                      recvClosed, issued, inbound, serial, closeSet, handles,
                      popen, pevents, ftBuf, ftChan>>

\* ServiceTask::ProtocolClose: protocol_close(Source::External).
OnProtocolCloseTask ==
    LET id == Head(taskQ).arg[1]
    IN /\ RecvTask("ProtocolClose")
       /\ \/ /\ id \in DOMAIN sessions
             /\ DistributeToSession(PushTo(sessions, {id}, "pclose"))
          \/ /\ id \notin DOMAIN sessions
             /\ UNCHANGED <<sessions, chan>>
       /\ UNCHANGED <<running, listens, ctxListens, listeners, dialProtocols,
                      pending, preShutdown, nextSession, attempts, evQ, shutdown,
                      recvClosed, issued, inbound, serial, closeSet, handles,
                      popen, pevents, ftBuf, ftChan>>

\* SessionEvent::ProtocolOpen: protocol_open(Source::Internal) only reports
\* to the user handle.
OnProtocolOpen ==
    /\ RecvEvent("ProtocolOpen")
    /\ UNCHANGED <<sessions, running, chan, listens, ctxListens, listeners,
                   dialProtocols, pending, preShutdown, nextSession, attempts,
                   taskQ, shutdown, recvClosed, issued, inbound, serial, closeSet,
                   handles, popen, pevents, ftBuf, ftChan>>

\* SessionEvent::ProtocolMessage: protocol_message only reports the data to
\* the user handle.
OnProtocolMessageEvent ==
    /\ RecvEvent("ProtocolMessage")
    /\ UNCHANGED <<sessions, running, chan, listens, ctxListens, listeners,
                   dialProtocols, pending, preShutdown, nextSession, attempts,
                   taskQ, shutdown, recvClosed, issued, inbound, serial, closeSet,
                   handles, popen, pevents, ftBuf, ftChan>>

\* SessionEvent::ProtocolClose: protocol_close(Source::Internal) reports
\* and removes the (session, protocol) handle buffer.
OnProtocolClose ==
    LET e == Head(evQ)
    IN /\ RecvEvent("ProtocolClose")
       /\ handles' = [k \in DOMAIN handles \ {<<e.id, e.proto>>} |-> handles[k]]
       /\ UNCHANGED <<sessions, running, chan, listens, ctxListens, listeners,
                      dialProtocols, pending, preShutdown, nextSession, attempts,
                      taskQ, shutdown, recvClosed, issued, inbound, serial,
                      closeSet, popen, pevents, ftBuf, ftChan>>

\* SessionEvent::ProtocolHandleError: the error is reported and, since a
\* handler failed, Shutdown(false) is handled at once.
OnProtocolHandleError ==
    /\ RecvEvent("ProtocolHandleError")
    /\ SetWorld(GracefulClose(World))
    /\ UNCHANGED <<running, listeners, dialProtocols, pending, nextSession,
                   attempts, taskQ, shutdown, recvClosed, issued, inbound, serial,
                   popen, pevents, ftChan>>

ServiceStep ==
    \/ PollHeadTerminate \/ PollHead \/ WaitHandlePoll
    \/ SessionPollIdle \/ OnSessionClose \/ OnHandshakeSuccess
    \/ OnHandshakeError \/ OnDialError \/ OnListenError \/ OnListenStart
    \/ OnProtocolOpen \/ OnProtocolClose \/ OnProtocolMessageEvent
    \/ OnProtocolHandleError
    \/ UserPollIdle \/ OnProtocolMessage \/ OnDial \/ OnListen
    \/ OnDisconnect \/ OnShutdown \/ OnProtocolNotify \/ OnFutureTask
    \/ SendPendingTask
    \/ OnProtocolOpenTask \/ OnProtocolCloseTask

-----------------------------------------------------------------------------
(* The other tasks.                                                        *)

\* The Control posts a ServiceTask (dropped once the receiver is closed).
UserPost(t) ==
    /\ phase # "done" /\ ~recvClosed
    /\ issued < MaxTasks
    /\ taskQ' = Append(taskQ, [type |-> t.type, arg |-> t.arg, tid |-> issued])
    /\ issued' = issued + 1
    /\ UNCHANGED <<sessions, running, chan, listens, ctxListens, listeners,
                   dialProtocols, pending, preShutdown, nextSession, attempts,
                   evQ, phase, shutdown, recvClosed, inbound, serial, closeSet, handles, popen, pevents, ftBuf, ftChan>>

\* A task sends a SessionEvent into the bounded session-event channel.
Emit(e) ==
    /\ phase # "done" /\ ~recvClosed
    /\ Len(evQ) < EvCap
    /\ evQ' = Append(evQ, e)

AttemptUnchanged ==
    UNCHANGED <<sessions, running, chan, listens, ctxListens, listeners,
                dialProtocols, pending, preShutdown, nextSession, taskQ, phase,
                shutdown, recvClosed, issued, inbound, serial, closeSet, handles, popen,
          pevents, ftBuf, ftChan>>

\* The dial task of dial_inner: the transport dial fails.
AttemptDialError(t) ==
    /\ t.kind = "dial"
    /\ Emit(EvDialError(t.req))
    /\ attempts' = attempts \ {t}
    /\ AttemptUnchanged

\* The dial connects (to the resolved address) and the handshake ends.
AttemptHandshake(t) ==
    /\ t.kind \in {"dial", "hs"}
    /\ \E r \in (IF t.kind = "hs" THEN {t.addr} ELSE Resolutions(t.req)) :
          \/ \E k \in Keys : Emit(EvHandshakeSuccess("out", r, k, t.req))
          \/ Emit(EvHandshakeError("out", r, t.req))
    /\ attempts' = attempts \ {t}
    /\ AttemptUnchanged

\* The listen task of listen_inner.
AttemptListen(t) ==
    /\ t.kind = "listen"
    /\ \/ Emit(EvListenStart(t.addr))
       \/ Emit(EvListenError(t.addr))
    /\ attempts' = attempts \ {t}
    /\ AttemptUnchanged

\* A listener pump accepts a connection and its handshake ends.
Inbound(a) ==
    /\ a \in listeners
    /\ inbound < MaxInbound
    /\ \/ \E k \in Keys : Emit(EvHandshakeSuccess("in", RemoteAddr, k, RemoteAddr))
       \/ Emit(EvHandshakeError("in", RemoteAddr, RemoteAddr))
    /\ inbound' = inbound + 1
    /\ UNCHANGED <<sessions, running, chan, listens, ctxListens, listeners,
                   dialProtocols, pending, preShutdown, nextSession, attempts,
                   taskQ, phase, shutdown, recvClosed, issued, serial, closeSet, handles, popen, pevents, ftBuf, ftChan>>

\* Session (session.rs, outside src/), modelled from the spec: it consumes
\* its channel, and when it ends it reports SessionClose to the Service.
SessionUnchanged ==
    UNCHANGED <<sessions, listens, ctxListens, listeners, dialProtocols, pending,
                preShutdown, nextSession, attempts, taskQ, phase, shutdown,
                recvClosed, issued, inbound, serial, closeSet, handles, pevents, ftBuf, ftChan>>

\* The session takes data or a protocol open/close request from its
\* channel (the substream it may open or close is the next two actions).
SessionUnchanged2 ==
    UNCHANGED <<sessions, listens, ctxListens, listeners, dialProtocols, pending,
                preShutdown, nextSession, attempts, taskQ, phase, shutdown,
                recvClosed, issued, inbound, serial, closeSet, handles, ftBuf, ftChan>>

SessionConsume(id) ==
    /\ phase # "done"
    /\ id \in running /\ chan[id] # <<>>
    /\ Head(chan[id]) \in {"msg", "popen", "pclose"}
    /\ chan' = [chan EXCEPT ![id] = Tail(@)]
    /\ UNCHANGED <<running, evQ, popen>>
    /\ SessionUnchanged

\* A protocol substream of the session opens (on request or remotely).
SessionProtoOpen(id, p) ==
    /\ id \in running /\ <<id, p>> \notin popen
    /\ pevents < MaxProtoEvents
    /\ Emit(EvProtocolOpen(id, p))
    /\ popen' = popen \cup {<<id, p>>}
    /\ pevents' = pevents + 1
    /\ UNCHANGED <<running, chan>>
    /\ SessionUnchanged2

\* An open protocol substream closes.
SessionProtoClose(id, p) ==
    /\ id \in running /\ <<id, p>> \in popen
    /\ pevents < MaxProtoEvents
    /\ Emit(EvProtocolClose(id, p))
    /\ popen' = popen \ {<<id, p>>}
    /\ pevents' = pevents + 1
    /\ UNCHANGED <<running, chan>>
    /\ SessionUnchanged2

\* An open protocol substream receives a frame and reports it.
SessionProtoMessage(id, p) ==
    /\ id \in running /\ <<id, p>> \in popen
    /\ pevents < MaxProtoEvents
    /\ Emit(EvProtocolMessage(id, p))
    /\ pevents' = pevents + 1
    /\ UNCHANGED <<running, chan, popen>>
    /\ SessionUnchanged2

SessionExit(id) ==
    /\ running' = running \ {id}
    /\ chan' = [chan EXCEPT ![id] = <<>>]
    /\ popen' = {k \in popen : k[1] # id}
    /\ \/ /\ recvClosed /\ phase # "done"
          /\ UNCHANGED evQ
       \/ Emit(EvSessionClose(id))

\* The session takes a SessionClose request from its channel.
SessionCloseRequested(id) ==
    /\ id \in running /\ chan[id] # <<>>
    /\ Head(chan[id]) = "close"
    /\ SessionExit(id)
    /\ SessionUnchanged

\* The remote end, the muxer or the session timeout ends the session.
SessionRemoteClose(id) ==
    /\ id \in running
    /\ SessionExit(id)
    /\ SessionUnchanged

\* A protocol handle task takes an event from its channel.
HandleConsume(k) ==
    /\ k \in DOMAIN handles
    /\ handles[k].alive /\ handles[k].ch # <<>>
    /\ handles' = [handles EXCEPT ![k].ch = Tail(@)]
    /\ UNCHANGED <<sessions, running, chan, listens, ctxListens, listeners,
                   dialProtocols, pending, preShutdown, nextSession, attempts,
                   evQ, taskQ, phase, shutdown, recvClosed, issued, inbound,
                   serial, closeSet, popen, pevents, ftBuf, ftChan>>

\* A protocol handle task ends because its handler panicked: its receiver
\* is dropped and nothing is reported.
HandleDie(k) ==
    /\ k \in DOMAIN handles
    /\ handles[k].alive
    /\ handles' = [handles EXCEPT ![k].alive = FALSE, ![k].ch = <<>>]
    /\ UNCHANGED <<sessions, running, chan, listens, ctxListens, listeners,
                   dialProtocols, pending, preShutdown, nextSession, attempts,
                   evQ, taskQ, phase, shutdown, recvClosed, issued, inbound,
                   serial, closeSet, popen, pevents, ftBuf, ftChan>>

\* A handler returns a fatal error: the handle task reports
\* ProtocolHandleError on the session-event channel and ends.
EvProtocolHandleError(p) == [type |-> "ProtocolHandleError", proto |-> p]
HandleFail(k) ==
    /\ HandlerErrors
    /\ k \in DOMAIN handles
    /\ handles[k].alive
    /\ Emit(EvProtocolHandleError(k[2]))
    /\ handles' = [handles EXCEPT ![k].alive = FALSE, ![k].ch = <<>>]
    /\ UNCHANGED <<sessions, running, chan, listens, ctxListens, listeners,
                   dialProtocols, pending, preShutdown, nextSession, attempts,
                   taskQ, phase, shutdown, recvClosed, issued, inbound,
                   serial, closeSet, popen, pevents, ftBuf, ftChan>>

\* The FutureTaskManager (spawned at the first poll, cancelled by
\* wait_handle_poll) takes a future from its channel and runs it.
ManagerSpawn ==
    /\ phase \notin {"setup", "done"}
    /\ ftChan # <<>>
    /\ attempts' = attempts \cup {Head(ftChan)}
    /\ ftChan' = Tail(ftChan)
    /\ UNCHANGED <<sessions, running, chan, listens, ctxListens, listeners,
                   dialProtocols, pending, preShutdown, nextSession, evQ, taskQ,
                   phase, shutdown, recvClosed, issued, inbound, serial, closeSet,
                   handles, popen, pevents, ftBuf>>

\* A user's future run by the manager completes.
AttemptUserDone(t) ==
    /\ t.kind = "user" /\ phase # "done"
    /\ attempts' = attempts \ {t}
    /\ UNCHANGED evQ
    /\ AttemptUnchanged

\* After the stream has ended nothing happens any more.
Terminated ==
    /\ phase = "done"
    /\ UNCHANGED vars

Next ==
    \/ \E a \in Addrs : SetupListen(a) \/ SetupDial(a)
    \/ ServiceStep
    \/ \E t \in UserTasks : UserPost(t)
    \/ \E t \in attempts : AttemptDialError(t) \/ AttemptHandshake(t) \/ AttemptListen(t)
                           \/ AttemptUserDone(t)
    \/ ManagerSpawn
    \/ \E a \in listeners : Inbound(a)
    \/ \E id \in Ids : SessionConsume(id) \/ SessionCloseRequested(id) \/ SessionRemoteClose(id)
    \/ \E id \in Ids, p \in Protos : SessionProtoOpen(id, p) \/ SessionProtoClose(id, p)
                                   \/ SessionProtoMessage(id, p)
    \/ \E k \in DOMAIN handles : HandleConsume(k) \/ HandleDie(k) \/ HandleFail(k)
    \/ Terminated

Spec == Init /\ [][Next]_vars

\* The Service is woken whenever one of its channels or buffers changes
\* (wakers of the mpsc receivers and of Buffer::try_send), so it keeps
\* polling; every Session task and every live protocol handle task keeps
\* draining its channel (each is a spawned task woken by its receiver).
\* The user, the transports, the remote ends and the handlers' failures
\* are not assumed to do anything.
HandleKeys == {<<i, p>> : i \in Ids \cup {NoId}, p \in Protos}

FairSpec ==
    /\ Spec
    /\ WF_vars(ServiceStep)
    /\ \A id \in Ids : WF_vars(SessionConsume(id) \/ SessionCloseRequested(id))
    /\ \A k \in HandleKeys : WF_vars(HandleConsume(k))
    /\ WF_vars(ManagerSpawn)

-----------------------------------------------------------------------------
(* Properties.                                                             *)

Events ==
    [type : {"SessionClose"}, id : Ids]
    \cup [type : {"HandshakeSuccess"}, ty : Ty, addr : Addrs \cup {RemoteAddr},
          key : Keys \cup {NoKey}, req : Addrs \cup {RemoteAddr}]
    \cup [type : {"HandshakeError"}, ty : Ty, addr : Addrs \cup {RemoteAddr},
          req : Addrs \cup {RemoteAddr}]
    \cup [type : {"DialError"}, ty : {"out"}, addr : Addrs, req : Addrs]
    \cup [type : {"ListenStart", "ListenError"}, addr : Addrs]
    \cup [type : {"ProtocolHandleError"}, proto : Protos]
    \cup [type : {"ProtocolOpen", "ProtocolClose", "ProtocolMessage"}, id : Ids, proto : Protos]

TypeOK ==
    /\ DOMAIN sessions \subseteq Ids
    /\ \A x \in DOMAIN sessions :
          sessions[x] \in [key : Keys \cup {NoKey}, ty : Ty, serial : Nat,
                           buffer : Seq(Items)]
    /\ running \subseteq Ids
    /\ chan \in [Ids -> Seq(Items)]
    /\ \A x \in Ids : Len(chan[x]) <= SessChanCap
    /\ listens \cup ctxListens \cup listeners \cup dialProtocols \subseteq Addrs
    /\ pending \in Nat
    /\ nextSession \in Ids
    /\ \A t \in attempts \cup ToSet(ftBuf) \cup ToSet(ftChan) :
          \/ t.kind \in {"dial", "hs", "listen"} /\ t.addr \in Addrs
          \/ t = UserFuture(t.tid)
    /\ Len(ftChan) <= FtCap
    /\ evQ \in Seq(Events) /\ Len(evQ) <= EvCap
    /\ phase \in {"setup", "head", "session", "user", "tail", "wait", "done"}
    /\ {shutdown, recvClosed, preShutdown} \subseteq BOOLEAN
    /\ closeSet \subseteq 0 .. serial
    /\ DOMAIN handles \subseteq HandleKeys
    /\ \A k \in DOMAIN handles :
          /\ handles[k] \in [buf : Seq(HItems), ch : Seq(HItems), alive : BOOLEAN]
          /\ Len(handles[k].ch) <= HandleChanCap
    /\ popen \subseteq Ids \X Protos
    /\ pevents \in 0 .. MaxProtoEvents

\* Results of dial/listen attempts still on their way to the Service.
AttemptResult(e) ==
    \/ e.type \in {"DialError", "ListenStart", "ListenError"}
    \/ e.type \in {"HandshakeSuccess", "HandshakeError"} /\ e.ty = "out"
\* The dial, listen and handshake futures: held in future_task_sender, in
\* the manager's channel, or run by the manager.
Futures ==
    {t \in attempts \cup ToSet(ftBuf) \cup ToSet(ftChan) : t.kind # "user"}

InFlight ==
    Cardinality(Futures) + Cardinality({i \in DOMAIN evQ : AttemptResult(evQ[i])})

\* Dials (requested addresses) not yet settled at the Service.
InFlightDials ==
    {t.req : t \in {u \in Futures : u.kind \in {"dial", "hs"}}}
    \cup {evQ[i].req : i \in {j \in DOMAIN evQ :
              evQ[j].type \in {"DialError", "HandshakeSuccess", "HandshakeError"}
              /\ evQ[j].ty = "out"}}

\* Spec 3.8.4, session_open's duplicate check: no two live sessions carry
\* the same remote public key, whatever order handshakes complete in.
NoDuplicatePubkey ==
    \A x, y \in DOMAIN sessions :
        x # y /\ sessions[x].key # NoKey => sessions[x].key # sessions[y].key

\* Spec 8.3, generate_next_session: an opened session never takes the id of
\* a live one (which would drop that session's controller), also once the
\* id counter has wrapped around.
SessionNeverReplaced ==
    [][\A x \in DOMAIN sessions \cap DOMAIN sessions' :
          sessions'[x].serial = sessions[x].serial]_vars

\* Spec 8.2, the State counter: until shutdown, pending never counts fewer
\* dial/listen attempts than are in flight, so a non-forever service never
\* ends while a dial or listen is still running.
PendingCoversInFlight == ~preShutdown => pending >= InFlight

\* Spec 8.2 as stated: every Dial/Listen increments pending once and its
\* result decrements it once, so until shutdown pending equals the attempts
\* in flight.
PendingExact == ~preShutdown => pending = InFlight

\* Whenever the loop handles an event, the listen list handlers see
\* (service_context.listens(), refreshed by try_update_listens) equals the
\* Service's listens, also after Service::listen between two polls.
ContextListensFresh == phase = "session" => ctxListens = listens

\* dial_protocols: every recorded dial target belongs to a dial still in
\* flight; a stale record makes every later Dial of the address a no-op.
DialRecordsBacked == ~recvClosed => dialProtocols \subseteq InFlightDials

\* session_open / session_close: until a quick shutdown, the controllers in
\* sessions are exactly the live Session tasks plus the ones whose
\* SessionClose is still queued (no leaked or missing controller).
SessionsMatchTasks ==
    ~recvClosed =>
        DOMAIN sessions =
            running \cup {evQ[i].id : i \in {j \in DOMAIN evQ : evQ[j].type = "SessionClose"}}

\* Spec 8.1 / session_close's retain and the quick shutdown's clear: every
\* session-level handle buffer belongs to a live controller, also after
\* ids are reused, so no Update or notify goes to a closed session's key.
HandleRecordsBacked ==
    \A k \in DOMAIN handles : k[1] = NoId \/ k[1] \in DOMAIN sessions

\* session_handles_open spawns one session-level handle per protocol for
\* the whole session: while a protocol of a live session is open, the
\* Service still holds that handle's buffer (else Update and
\* SetProtocolSessionNotify for it are silently dropped).
OpenHandlesTracked ==
    \A k \in popen :
        k[2] \in SessProtos /\ k[1] \in DOMAIN sessions /\ ~recvClosed
            => k \in DOMAIN handles

\* Spec 4.7 step 3: a protocol handle that died while the Service holds
\* items for it is detected as AbnormallyClosed by flush_buffer, and the
\* Service shuts down (or the handle's record is gone with its session).
DeadHandleShutsDown ==
    \A k \in HandleKeys :
        (k \in DOMAIN handles /\ Disconnected(handles[k]))
            ~> (preShutdown \/ shutdown \/ k \notin DOMAIN handles)

\* send_pending_task runs in every round: a future that future_task_sender
\* holds (the manager's channel was full) is eventually run by the
\* FutureTaskManager, unless Shutdown's clear dropped it or the loop ended.
HeldFuture(i) == \E j \in DOMAIN ftBuf : ftBuf[j].tid = i
FutureSpawned(i) == \E t \in attempts : t.tid = i
HeldFuturesEventuallyRun ==
    \A i \in 0 .. (MaxTasks - 1) :
        HeldFuture(i) ~> (FutureSpawned(i) \/ preShutdown \/ phase = "done")

\* Spec 8 scenario 4: while handles lag, session_poll stops reading
\* (recv_event_size); once they catch up, flush_buffer delivers what is
\* held and every queued SessionEvent is eventually read.
SessionEventsEventuallyPolled ==
    []<>(evQ = <<>> \/ recvClosed \/ phase = "done")

\* max_connection_number bounds the open sessions.
ConnectionLimit == Cardinality(DOMAIN sessions) <= MaxConnectionNumber

\* Spec 8, graceful shutdown: every session live when Shutdown(false) is
\* handled is eventually closed and removed.
GracefulShutdownClosesSessions ==
    \A n \in 0 .. (MaxTasks + MaxInbound) :
        n \in closeSet ~> n \notin LiveSerials

\* Spec 8, abrupt shutdown: after Shutdown(true) the stream ends.
QuickShutdownTerminates == (preShutdown /\ recvClosed) ~> phase = "done"

\* user_task_poll stops reading tasks while the controllers' buffers hold
\* more than send_event_size items; flush_buffer at the head of every round
\* must drain them as the sessions read, so a posted task is eventually
\* taken (or dropped by a quick shutdown, or the stream has ended).
Queued(i) == \E j \in DOMAIN taskQ : taskQ[j].tid = i
UserTasksEventuallyPolled ==
    \A i \in 0 .. (MaxTasks - 1) :
        Queued(i) ~> (~Queued(i) \/ recvClosed \/ phase = "done")

\* Shutdown(true) closes both receivers, and session_poll treats the end of
\* the closed session-event channel as unreachable!(). The code relies on
\* the tail check of the same round ending the stream: Shutdown drains the
\* listens, clears the future-task buffer and closes every session. No
\* round may therefore reach session_poll or user_task_poll afterwards.
ClosedReceiverNeverPolled == recvClosed => phase \notin {"session", "user"}

\* Spec 4.7.6: once Shutdown is handled the stream eventually ends.
ShutdownCompletes == preShutdown ~> phase = "done"

=============================================================================
