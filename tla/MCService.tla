----------------------------- MODULE MCService -----------------------------
(* Constants for checking Service with TLC.                                *)
EXTENDS Service

CONSTANTS a1, a2, k1, k2, p1

MCAddrs == {a1, a2}
MCKeys == {k1, k2}
\* a2 carries the /p2p/ id of k1; a1 carries none.
MCPeerIdOf == (a1 :> NoKey) @@ (a2 :> k1)

\* The tasks the Control may post in the core run.
CoreTasks ==
    {[type |-> "Dial", arg |-> a] : a \in MCAddrs}
    \cup {[type |-> "Listen", arg |-> a1]}
    \cup {[type |-> "Disconnect", arg |-> 1]}
    \cup {[type |-> "ProtocolMessage", arg |-> "All"]}
    \cup {[type |-> "Shutdown", arg |-> q] : q \in BOOLEAN}

\* The tasks of the shutdown runs: a dial racing the shutdown, outbound
\* traffic that fills the controllers' buffers, and both shutdowns.
ShutdownTasks ==
    {[type |-> "Dial", arg |-> a1]}
    \cup {[type |-> "ProtocolMessage", arg |-> "All"]}
    \cup {[type |-> "Shutdown", arg |-> q] : q \in BOOLEAN}

\* The tasks of the backpressure run: broadcasts that fill the controllers'
\* buffers past send_event_size while more broadcasts wait to be read.
BackpressureTasks == {[type |-> "ProtocolMessage", arg |-> "All"]}

\* The tasks of the protocol-handle runs, against the first session (id 1,
\* the first id generate_next_session yields): notify tasks for the
\* service-level and the session-level handle of p1, and a ProtocolOpen
\* and ProtocolClose of p1 on that session.
ProtocolTasks ==
    {[type |-> "SetProtocolNotify", arg |-> p1],
     [type |-> "SetProtocolSessionNotify", arg |-> <<1, p1>>],
     [type |-> "ProtocolOpen", arg |-> [id |-> 1, ps |-> {p1}]],
     [type |-> "ProtocolClose", arg |-> <<1, p1>>]}

\* The handle liveness run has one address, without a /p2p/ id, and one key.
LiveAddrs == {a1}
LiveKeys == {k1}
LivePeerIdOf == a1 :> NoKey

\* The tasks of the handle liveness run: session-level notifies that back up
\* the handle of p1 in session 1 while its session reports events.
HandleLiveTasks == {[type |-> "SetProtocolSessionNotify", arg |-> <<1, p1>>]}

\* The tasks of the future-task run: a user future, a dial and a listen that
\* compete for the manager's channel, and both shutdowns, which clear what
\* is still held.
FutureTasks ==
    {[type |-> "FutureTask", arg |-> "none"],
     [type |-> "Dial", arg |-> a1],
     [type |-> "Listen", arg |-> a2]}
    \cup {[type |-> "Shutdown", arg |-> q] : q \in BOOLEAN}
=============================================================================
