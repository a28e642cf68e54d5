-------------------------- MODULE ConnectionRegistry --------------------------
(***************************************************************************)
(* Who is connected: the registries that ocpp16/server.py (_connections)   *)
(* and main.py (_handlers_16) keep of a charger's connection, the status   *)
(* that boot, heartbeat and disconnect write, and the commands sent        *)
(* through state/charger_registry.py.  Everything is keyed by the charge   *)
(* point id, so one charger is modelled, with its connections over time.   *)
(*                                                                         *)
(* Every connection has a task: the server's _handler, which runs the      *)
(* message loop and then the clean-up.  An action is what a task does      *)
(* between two awaits.                                                     *)
(***************************************************************************)
EXTENDS Naturals

CONSTANTS
    MaxConns,   \* bound on the connections the charger opens over time
    Calls,      \* message ids of the commands sent to it
    MaxFails    \* bound on failed statements and restarts

ASSUME BoundsAssumption == MaxConns \in Nat /\ MaxFails \in Nat

Conns == 1..MaxConns    \* numbered in the order they are opened
None == 0               \* no connection under the charger's id

VARIABLES
    sock,        \* the server's end of the socket
    pc,          \* the next step of a connection's task
    connections, \* OCPP16Server._connections[cp_id]
    handlers,    \* main._handlers_16[cp_id], named by its connection
    status,      \* the charger's status in Redis, in the database, and as the
                 \* last lifecycle event has it
    calls,       \* _pending_calls of each connection's handler
    wire,        \* commands written to a socket and not answered
    overlapped,  \* has the charger ever connected while a loop of its was running?
    fails        \* failures so far

registries == <<connections, handlers>>
vars == <<sock, pc, connections, handlers, status, calls, wire, overlapped, fails>>

Places == {"redis", "db", "events"}
LoopSteps == {"idle", "boot_redis", "boot_event", "beat_db", "beat_event"}
CleanUpSteps == {"off_redis", "off_db", "off_event"}

\* Connections whose message loop is running.
Served == {c \in Conns : pc[c] \in LoopSteps}

TypeOK ==
    /\ sock \in [Conns -> {"unused", "open", "closed"}]
    /\ pc \in [Conns -> LoopSteps \cup CleanUpSteps \cup {"none", "done"}]
    /\ connections \in Conns \cup {None}
    /\ handlers \in Conns \cup {None}
    /\ status \in [Places -> {"unknown", "online", "offline"}]
    /\ calls \in [Conns -> SUBSET Calls]
    /\ wire \in [Conns -> SUBSET Calls]
    /\ overlapped \in BOOLEAN
    /\ fails \in Nat

Init ==
    /\ sock = [c \in Conns |-> "unused"]
    /\ pc = [c \in Conns |-> "none"]
    /\ connections = None
    /\ handlers = None
    /\ status = [p \in Places |-> "unknown"]
    /\ calls = [c \in Conns |-> {}]
    /\ wire = [c \in Conns |-> {}]
    /\ overlapped = FALSE
    /\ fails = 0

\* Task c writes value to a place and goes on with step next.
Write(c, place, value, next) ==
    /\ status' = [status EXCEPT ![place] = value]
    /\ pc' = [pc EXCEPT ![c] = next]
    /\ UNCHANGED <<sock, registries, calls, wire, overlapped, fails>>

-----------------------------------------------------------------------------
(* Connections *)

\* Connections are opened in the order of their numbers.
IsNext(c) == pc[c] = "none" /\ \A k \in Conns : k < c => pc[k] # "none"

\* The operators named Wrong... are what a slip in the definition that follows
\* would make of it; the specification does not use them.

\* The handler is registered by its first BootNotification only.
WrongConnect(c) ==
    /\ IsNext(c)
    /\ sock' = [sock EXCEPT ![c] = "open"]
    /\ pc' = [pc EXCEPT ![c] = "idle"]
    /\ connections' = c
    /\ handlers' = IF handlers = None THEN c ELSE handlers
    /\ overlapped' = (overlapped \/ Served # {})
    /\ UNCHANGED <<status, calls, wire, fails>>

\* _handler registers the socket and on_connect_16 its handler, over whatever is
\* registered, without an await in between.
Connect(c) ==
    /\ IsNext(c)
    /\ sock' = [sock EXCEPT ![c] = "open"]
    /\ pc' = [pc EXCEPT ![c] = "idle"]
    /\ connections' = c
    /\ handlers' = c
    /\ overlapped' = (overlapped \/ Served # {})
    /\ UNCHANGED <<status, calls, wire, fails>>

\* The socket closes.  (A charger that vanishes without a word leaves it open:
\* the server sends no pings.)
Drop(c) ==
    /\ sock[c] = "open"
    /\ sock' = [sock EXCEPT ![c] = "closed"]
    /\ UNCHANGED <<pc, registries, status, calls, wire, overlapped, fails>>

\* Leaves the socket registered when no handler is left to tell.
WrongLeave(c) ==
    /\ pc[c] = "idle" /\ sock[c] = "closed"
    /\ connections' = IF handlers = c THEN connections ELSE None
    /\ handlers' = None
    /\ pc' = [pc EXCEPT ![c] = IF handlers = None THEN "done" ELSE "off_redis"]
    /\ UNCHANGED <<sock, status, calls, wire, overlapped, fails>>

\* The loop ends.  Both pops go by the charge point id, whoever is registered
\* under it; without a handler nobody is told.
Leave(c) ==
    /\ pc[c] = "idle" /\ sock[c] = "closed"
    /\ connections' = None
    /\ handlers' = None
    /\ pc' = [pc EXCEPT ![c] = IF handlers = None THEN "done" ELSE "off_redis"]
    /\ UNCHANGED <<sock, status, calls, wire, overlapped, fails>>

\* Deletes the hash of the charger (redis_state.del_charger).
WrongOffRedis(c) == pc[c] = "off_redis" /\ Write(c, "redis", "absent", "off_db")

\* ChargePointHandler.on_disconnect
OffRedis(c) == pc[c] = "off_redis" /\ Write(c, "redis", "offline", "off_db")

\* Clean-up ends with the live state.
WrongOffDb(c) == pc[c] = "off_db" /\ Write(c, "events", "offline", "done")

OffDb(c) == pc[c] = "off_db" /\ Write(c, "db", "offline", "off_event")

\* The pops come last, after everything that awaits.
WrongOffEvent(c) ==
    /\ pc[c] = "off_event"
    /\ connections' = None
    /\ handlers' = None
    /\ status' = [status EXCEPT !["events"] = "offline"]
    /\ pc' = [pc EXCEPT ![c] = "done"]
    /\ UNCHANGED <<sock, calls, wire, overlapped, fails>>

OffEvent(c) == pc[c] = "off_event" /\ Write(c, "events", "offline", "done")

-----------------------------------------------------------------------------
(* Messages *)

Boot(c) ==
    /\ pc[c] = "idle" /\ sock[c] = "open"
    /\ Write(c, "db", "online", "boot_redis")

BootRedis(c) == pc[c] = "boot_redis" /\ Write(c, "redis", "online", "boot_event")
BootEvent(c) == pc[c] = "boot_event" /\ Write(c, "events", "online", "idle")

Heartbeat(c) ==
    /\ pc[c] = "idle" /\ sock[c] = "open"
    /\ Write(c, "redis", "online", "beat_db")

\* Only last_heartbeat is updated in the database.
WrongBeatDb(c) == pc[c] = "beat_db" /\ Write(c, "redis", "online", "beat_event")

BeatDb(c) == pc[c] = "beat_db" /\ Write(c, "db", "online", "beat_event")
BeatEvent(c) == pc[c] = "beat_event" /\ Write(c, "events", "online", "idle")

\* send_command and send_remote_start: the call is recorded with the registered
\* handler, then written to the registered socket, which fails when that is closed.
\* (send_reset records nothing, and its answer is only logged as unknown.)
Send(m) ==
    /\ connections # None
    /\ \A c \in Conns : m \notin calls[c] \cup wire[c]
    /\ calls' = IF handlers # None THEN [calls EXCEPT ![handlers] = @ \cup {m}] ELSE calls
    /\ wire' = IF sock[connections] = "open"
               THEN [wire EXCEPT ![connections] = @ \cup {m}] ELSE wire
    /\ UNCHANGED <<sock, pc, registries, status, overlapped, fails>>

\* CALL_RESULT or CALL_ERROR: the handler of this connection forgets the call.
Answer(c, m) ==
    /\ pc[c] = "idle" /\ sock[c] = "open"
    /\ m \in wire[c]
    /\ wire' = [wire EXCEPT ![c] = @ \ {m}]
    /\ calls' = [calls EXCEPT ![c] = @ \ {m}]
    /\ UNCHANGED <<sock, pc, registries, status, overlapped, fails>>

-----------------------------------------------------------------------------
(* Failures *)

\* A statement raises.  In the loop the charger gets a CALL_ERROR; in the
\* clean-up the rest is skipped.
Fail(c) ==
    /\ pc[c] \in LoopSteps \cup CleanUpSteps
    /\ pc[c] # "idle"
    /\ fails < MaxFails
    /\ fails' = fails + 1
    /\ pc' = [pc EXCEPT ![c] = IF @ \in LoopSteps THEN "idle" ELSE "done"]
    /\ UNCHANGED <<sock, registries, status, calls, wire, overlapped>>

\* The process dies with its registries; Redis and the database keep the status,
\* which no start-up code resets.
Restart ==
    /\ fails < MaxFails
    /\ fails' = fails + 1
    /\ sock' = [c \in Conns |-> IF sock[c] = "open" THEN "closed" ELSE sock[c]]
    /\ pc' = [c \in Conns |-> IF pc[c] = "none" THEN "none" ELSE "done"]
    /\ connections' = None
    /\ handlers' = None
    /\ calls' = [c \in Conns |-> {}]
    /\ wire' = [c \in Conns |-> {}]
    /\ UNCHANGED <<status, overlapped>>

Continue(c) ==
    \/ BootRedis(c) \/ BootEvent(c)
    \/ BeatDb(c) \/ BeatEvent(c)
    \/ Leave(c) \/ OffRedis(c) \/ OffDb(c) \/ OffEvent(c)

Next ==
    \/ \E c \in Conns : Connect(c) \/ Drop(c) \/ Boot(c) \/ Heartbeat(c) \/ Continue(c) \/ Fail(c)
    \/ \E m \in Calls : Send(m) \/ \E c \in Conns : Answer(c, m)
    \/ Restart

Spec == Init /\ [][Next]_vars

\* The event loop resumes every task, and a connected charger goes on sending
\* heartbeats, as the interval in its BootNotification.conf tells it to.
FairSpec ==
    /\ Spec
    /\ \A c \in Conns : WF_vars(Continue(c)) /\ WF_vars(Boot(c) \/ Heartbeat(c))

-----------------------------------------------------------------------------
(* Properties *)

\* A command is never written to a connection whose loop has ended, however the
\* clean-ups and the reconnects of a charger interleave.
RegisteredIsServed == connections \in Served \cup {None}

\* Whatever is answered on a connection is recorded with the handler that reads
\* the answer, also after takeovers: the two registries move in step.
AnswersAreTracked == \A c \in Conns : wire[c] \subseteq calls[c]

\* A charger that opened one connection at a time is connected for the rest of the
\* system (is_connected, send_command) exactly as long as it is served.
ReachableUnlessOverlapped ==
    ~overlapped => \A c \in Conns : c \in Served <=> connections = c

Gone == (\E c \in Conns : sock[c] = "closed") /\ \A c \in Conns : sock[c] # "open"
ShownOffline == \A p \in Places : status[p] = "offline"

\* A charger that is gone and stays away is eventually offline in Redis, in the
\* database and in the event stream, if it opened one connection at a time: a
\* clean-up still under way and the next connection's boot do not undo it.
GoneShownUnlessOverlapped ==
    Gone ~> ~Gone \/ ShownOffline \/ overlapped \/ fails > 0

\* docs/architecture.md: after "WebSocket disconnect" the handler does "Set status
\* = offline" in both stores and "Publish CHARGER_OFFLINE event".
GoneShown == Gone ~> ~Gone \/ ShownOffline \/ fails > 0

\* A charger with an open connection is shown online again after the clean-up of
\* its former connection, in either order of their writes.
ServedShown ==
    \A c \in Conns :
        sock[c] = "open" ~>
            \/ sock[c] # "open" \/ fails > 0
            \/ status["redis"] = "online" /\ status["db"] = "online"

-----------------------------------------------------------------------------
(* The inductive invariant behind the safety properties *)

\* The two registries name the same connection.
RegistriesAgree == connections = handlers

RegistryInv ==
    /\ RegistriesAgree
    /\ RegisteredIsServed
    /\ AnswersAreTracked
    /\ ReachableUnlessOverlapped
==============================================================================
