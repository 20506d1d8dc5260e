------------------------- MODULE CoordinatorSocket -------------------------
(***************************************************************************)
(* The socket a call keeps to the coordinator: the handshake with its      *)
(* deadline, the connection id that the requests of the user carry, and    *)
(* the two tasks that listen and ping.  A join opens the first socket of a *)
(* generation, a rejoin the next ones; a leave may overtake either between *)
(* any two of its steps.  A socket is a number, as is a generation.        *)
(***************************************************************************)
EXTENDS Naturals

CONSTANTS
    MaxSockets, \* bound: sockets opened
    MaxJoins    \* bound: joins

VARIABLES
    epoch,        \* lifecycle.generation
    joined,       \* history: whether the running generation is that of a join
    connectionId, \* coordinator_connection_id: generation and socket
    kept,         \* coordinator_tasks: the sockets whose tasks are in it
    socket,       \* each socket: its generation, the place of its opener, its tasks
    overwritten   \* history: an overtaken opener stored its id

coordinatorVars == <<epoch, joined, connectionId, kept, socket, overwritten>>

Sockets == 1..MaxSockets
NoId == [gen |-> 0, socket |-> 0]
Frames == {"ok", "noId", "error", "garbage", "large", "close"}
Unopened == [gen |-> 0, at |-> "none", listens |-> FALSE, pings |-> FALSE]
Opened(gen) == [gen |-> gen, at |-> "connect", listens |-> FALSE, pings |-> FALSE]
Opening == {"connect", "shake", "checked", "stored", "spawned"}

SocketTypeOK ==
    /\ epoch \in 0..(2 * MaxJoins) /\ connectionId.gen \in 0..epoch /\ kept \subseteq Sockets
    /\ \A s \in Sockets : socket[s].at \in Opening \cup {"none", "open", "failed"}

SocketInit ==
    /\ epoch = 0 /\ joined = FALSE /\ connectionId = NoId /\ kept = {}
    /\ socket = [s \in Sockets |-> Unopened] /\ overwritten = FALSE

Fresh(s) == socket[s].at = "none" /\ \A r \in 1..(s - 1) : socket[r].at # "none"
IsCurrent(s) == socket[s].gen = epoch
Goes(s, place) == socket' = [socket EXCEPT ![s].at = place]

\* begin_join, and the first connect_coordinator_events.
JoinOpens(s) ==
    /\ ~joined /\ epoch < 2 * MaxJoins - 1 /\ Fresh(s)
    /\ epoch' = epoch + 1 /\ joined' = TRUE
    /\ socket' = [socket EXCEPT ![s] = Opened(epoch')]
    /\ UNCHANGED <<connectionId, kept, overwritten>>

\* user_request_query: the id counts only in its own generation.
HasId == connectionId.socket # 0 /\ connectionId.gen = epoch

\* ensure_coordinator_events of a rejoin or a migration; stop_coordinator_tasks
\* takes every task that is kept, and ends each before the next socket opens.
Aborted(all, tasks) ==
    [s \in Sockets |-> IF s \in tasks THEN [all[s] EXCEPT !.listens = FALSE, !.pings = FALSE] ELSE all[s]]

RejoinOpens(s) ==
    /\ joined /\ ~HasId /\ Fresh(s)
    /\ \A r \in Sockets : IsCurrent(r) => socket[r].at \notin Opening
    /\ \E r \in Sockets : IsCurrent(r) /\ socket[r].at = "open"
    /\ kept' = {}
    /\ socket' = [Aborted(socket, kept) EXCEPT ![s] = Opened(epoch)]
    /\ UNCHANGED <<epoch, joined, connectionId, overwritten>>

\* connect_inner: the generation is checked, the socket opens, the auth goes out.
Connects(s) ==
    /\ socket[s].at = "connect"
    /\ \/ IsCurrent(s) /\ Goes(s, "shake")
       \/ Goes(s, "failed") \* cancelled, refused, or the deadline of the handshake
    /\ UNCHANGED <<epoch, joined, connectionId, kept, overwritten>>

\* await_connection_ok: frames of any other type are skipped.
Shakes(s, frame) ==
    /\ socket[s].at = "shake"
    /\ Goes(s, IF frame = "ok" /\ IsCurrent(s) THEN "checked" ELSE "failed")
    /\ UNCHANGED <<epoch, joined, connectionId, kept, overwritten>>

\* The coordinator says nothing, or the future is dropped with its join.
ShakeEnds(s) ==
    /\ socket[s].at = "shake" /\ Goes(s, "failed")
    /\ UNCHANGED <<epoch, joined, connectionId, kept, overwritten>>

\* The id is stored under its own lock, after the check.
Stores(s) ==
    /\ socket[s].at = "checked" /\ Goes(s, "stored")
    /\ connectionId' = [gen |-> socket[s].gen, socket |-> s]
    /\ overwritten' = (overwritten \/ ~IsCurrent(s))
    /\ UNCHANGED <<epoch, joined, kept>>

\* spawn_generation_task: a task of an ended generation ends at once.
Spawns(s) ==
    /\ socket[s].at = "stored"
    /\ socket' = [socket EXCEPT ![s] = [gen |-> socket[s].gen, at |-> "spawned",
                                        listens |-> IsCurrent(s), pings |-> IsCurrent(s)]]
    /\ UNCHANGED <<epoch, joined, connectionId, kept, overwritten>>

\* Mutant: the id is cleared whoever stored it.
MutClears(gen) == connectionId' = NoId
\* clear_coordinator_connection
Clears(gen) == connectionId' = IF connectionId.gen = gen THEN NoId ELSE connectionId

Keeps(s) ==
    /\ socket[s].at = "spawned"
    /\ IF IsCurrent(s)
       THEN kept' = kept \cup {s} /\ Goes(s, "open") /\ UNCHANGED connectionId
       ELSE /\ socket' = [Aborted(socket, {s}) EXCEPT ![s].at = "failed"]
            /\ Clears(socket[s].gen) /\ UNCHANGED kept
    /\ UNCHANGED <<epoch, joined, overwritten>>

\* The event task reads a close or an error.
SocketCloses(s) ==
    /\ socket[s].listens /\ socket' = [socket EXCEPT ![s].listens = FALSE]
    /\ Clears(socket[s].gen)
    /\ UNCHANGED <<epoch, joined, kept, overwritten>>

\* The health task cannot send.
PingFails(s) ==
    /\ socket[s].pings /\ socket' = [socket EXCEPT ![s].pings = FALSE]
    /\ Clears(socket[s].gen)
    /\ UNCHANGED <<epoch, joined, kept, overwritten>>

\* while_generation: a task notices the end of its generation.
TaskEnds(s) ==
    /\ ~IsCurrent(s) /\ (socket[s].listens \/ socket[s].pings)
    /\ socket' = Aborted(socket, {s})
    /\ UNCHANGED <<epoch, joined, connectionId, kept, overwritten>>

\* stop_coordinator_events of a failed join.
JoinFails(s) ==
    /\ joined /\ IsCurrent(s) /\ socket[s].at = "failed"
    /\ \A r \in Sockets : IsCurrent(r) => socket[r].at = "failed"
    /\ joined' = FALSE /\ connectionId' = NoId /\ kept' = {} /\ socket' = Aborted(socket, kept)
    /\ UNCHANGED <<epoch, overwritten>>

\* cancel_generation, and the stop_coordinator_events of the teardown: nothing if
\* another generation has begun meanwhile.
Leaves ==
    /\ joined /\ joined' = FALSE /\ epoch' = epoch + 1
    /\ UNCHANGED <<connectionId, kept, socket, overwritten>>

LeaveStops ==
    /\ ~joined /\ epoch > 0 /\ (connectionId # NoId \/ kept # {})
    /\ connectionId' = NoId /\ kept' = {} /\ socket' = Aborted(socket, kept)
    /\ UNCHANGED <<epoch, joined, overwritten>>

SocketNext ==
    \/ \E s \in Sockets :
        \/ JoinOpens(s) \/ RejoinOpens(s) \/ Connects(s) \/ ShakeEnds(s) \/ Stores(s) \/ Spawns(s)
        \/ Keeps(s) \/ SocketCloses(s) \/ PingFails(s) \/ TaskEnds(s) \/ JoinFails(s)
        \/ \E f \in Frames : Shakes(s, f)
    \/ Leaves \/ LeaveStops

SocketSpec == SocketInit /\ [][SocketNext]_coordinatorVars

-----------------------------------------------------------------------------

\* The requests of a user carry the id of a socket of the running generation
\* that someone listens to, and while such a socket is open and healthy they
\* have its id, however late the tasks of sockets that went before it end.
\* (Overwritten: the check of the generation and the store are two steps.)
IdIsOfOpenSocket ==
    /\ HasId => LET s == connectionId.socket IN
                IsCurrent(s) /\ (socket[s].listens \/ socket[s].at = "stored")
    /\ \A s \in Sockets :
        IsCurrent(s) /\ socket[s].at = "open" /\ socket[s].listens /\ socket[s].pings /\ ~overwritten
            => HasId /\ connectionId.socket = s
=============================================================================
