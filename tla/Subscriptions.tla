--------------------------- MODULE Subscriptions ----------------------------
(***************************************************************************)
(* One generation of a call: the participants that the SFU reports, the    *)
(* tracks the client asks it for, and the tracks it hands to the user.     *)
(* Several tasks compute the list of subscriptions and send it without a   *)
(* lock: the event loop of each connection, the calls of the user, the     *)
(* restore of a reconnect, and the task of a track that the user dropped.  *)
(* The reads that one computation makes without an await are one step.     *)
(***************************************************************************)
EXTENDS Naturals, SequencesExt, FiniteSetsExt

CONSTANTS
    Sessions,    \* the sessions of the other participants
    Types,       \* TrackType
    Policies,    \* what the user can ask for: targets, or None, of
                 \* update_subscription_targets; rule_for each session; max_subscriptions
    None,        \* Option::None
    MaxEpochs,   \* bound: connections of the generation
    MaxSpent     \* bound: changes in the call, calls of the user, reconnects and failures

Keys == Sessions \X Types
Epochs == 1..MaxEpochs

VARIABLES
    world,         \* the SFU: the tracks that each present session publishes
    sfu,           \* the SFU: the subscriptions of each connection
    wire,          \* the events on the way on each socket
    fastWire,      \* the events on the way on the socket that a FAST opened
    participants,  \* RtcCore.participants, in their order
    policy,        \* sub_config and manual_subscriptions
    subsActive,    \* subs_active
    manualUnsub,   \* manual_unsub
    activeSubs,    \* active_subs
    delivered,     \* delivered_tracks: the connection of the latest track
    conn,          \* the epoch of RtcCore.connection
    session,       \* the session id of each connection
    enabled,       \* reconnect_enabled of each connection
    phase,         \* where the reconnect task is, and of which kind
    doing,         \* the computations: idle, compute or rpc; off for a closed loop
    rpcs,          \* the UpdateSubscriptions requests on their way
    track,         \* the inbound track of a connection and key: its place
    spent,         \* what was used of the bound
    doubt,         \* history: the connections whose last requests crossed, or failed
    raced,         \* history: the latest computation began while a request was on its way
    late           \* history: a socket that is to be closed reported after its successor

sfuVars == <<world, sfu, wire, fastWire>>
stateVars == <<participants, policy, subsActive, manualUnsub>>
linkVars == <<conn, session, enabled, phase>>
vars == <<sfuVars, stateVars, activeSubs, delivered, linkVars, doing, rpcs, track, spent, doubt, raced, late>>

Loop(e) == <<"loop", e>>
User == <<"user">>
Restore == <<"restore">>
Dropper(e, k) == <<"drop", e, k>>
Procs == {Loop(e) : e \in Epochs} \cup {User, Restore}
            \cup {Dropper(e, k) : e \in Epochs, k \in Keys}

Places == {"none", "held", "dropped", "unsubscribed", "waiting", "gone"}
Spends == spent < MaxSpent /\ spent' = spent + 1
Idle == [at |-> "idle", kind |-> None, old |-> 0]

\* A SubscriptionConfig, a rule for each participant and a limit, or a list of
\* targets in its place.
Policy == [targets : {None} \cup SUBSET Keys, rule : [Sessions -> SUBSET Types], max : Nat]

TypeOK ==
    /\ world \in [Sessions -> (SUBSET Types) \cup {{None}}]
    /\ sfu \in [Epochs -> SUBSET Keys]
    /\ \A i \in DOMAIN participants :
        participants[i].session \in Sessions /\ participants[i].tracks \subseteq Types
    /\ \A i, j \in DOMAIN participants :
        participants[i].session = participants[j].session => i = j
    /\ manualUnsub \subseteq Keys /\ activeSubs \subseteq Keys
    /\ delivered \in [Keys -> 0..MaxEpochs]
    /\ conn \in Epochs
    /\ doing \in [Procs -> {"off", "idle", "compute", "rpc"}]
    /\ \A p \in Procs : doing[p] = "rpc" <=> \E r \in rpcs : r.by = p
    /\ \A r, s \in rpcs : r.by = s.by => r = s
    /\ track \in [Epochs \X Keys -> Places]
    /\ policy \in Policy

-----------------------------------------------------------------------------
(* The participants. *)

Absent == {None}

Lists(list, s) == \E i \in DOMAIN list : list[i].session = s
Place(list, s) == CHOOSE i \in DOMAIN list : list[i].session = s

Known(s) == Lists(participants, s)
TracksOf(s) == UNION {participants[i].tracks : i \in {j \in DOMAIN participants :
                                                          participants[j].session = s}}

\* upsert_participant, and the entry of a participant in a join response.
Upserted(list, s, tracks) ==
    IF Lists(list, s)
    THEN [i \in DOMAIN list |-> IF list[i].session = s THEN [list[i] EXCEPT !.tracks = tracks]
                                ELSE list[i]]
    ELSE Append(list, [session |-> s, tracks |-> tracks])

Removed(list, s) == IF Lists(list, s) THEN RemoveAt(list, Place(list, s)) ELSE list

\* Who was known keeps its place before those who were not.
KeepsPlaces(list, order) ==
    \A i, j \in DOMAIN order :
        i < j /\ Lists(list, order[j]) =>
            Lists(list, order[i]) /\ Place(list, order[i]) < Place(list, order[j])

Entries(order) == [i \in DOMAIN order |-> [session |-> order[i], tracks |-> world[order[i]]]]

\* Mutant: a join response is added to what was known.
MutAnswered(list) ==
    {list \o Entries(order) :
        order \in SetToSeqs({s \in Sessions : world[s] # Absent /\ ~Lists(list, s)})}

\* apply_join_call_state_if_current: who is not in the response goes, and who was
\* not known follows in the order of the response.
Answered(list) ==
    {Entries(order) : order \in {o \in SetToSeqs({s \in Sessions : world[s] # Absent}) :
                                    KeepsPlaces(list, o)}}

Init ==
    /\ world \in [Sessions -> {Absent, Types}]
    /\ sfu = [e \in Epochs |-> {}]
    /\ wire = [e \in Epochs |-> <<>>] /\ fastWire = None
    /\ participants \in Answered(<<>>)
    /\ policy \in Policies /\ subsActive = FALSE /\ manualUnsub = {}
    /\ activeSubs = {} /\ delivered = [k \in Keys |-> 0]
    /\ conn = 1 /\ session = [e \in Epochs |-> 1] /\ enabled = [e \in Epochs |-> TRUE]
    /\ phase = Idle
    /\ doing = [p \in Procs |-> IF p \in {Loop(e) : e \in Epochs \ {1}} THEN "off" ELSE "idle"]
    /\ rpcs = {} /\ track = [ek \in Epochs \X Keys |-> "none"]
    /\ spent = 0 /\ doubt = {}
    /\ raced = FALSE /\ late = FALSE

\* handle_event: what an event does before the computation of the list.
Applies(ev) ==
    CASE ev.kind = "upsert" ->
            participants' = Upserted(participants, ev.session, ev.tracks)
            /\ UNCHANGED manualUnsub
      [] ev.kind = "left" ->
            participants' = Removed(participants, ev.session) /\ UNCHANGED manualUnsub
      [] ev.kind = "published" ->
            /\ participants' = Upserted(participants, ev.session, TracksOf(ev.session) \cup ev.tracks)
            /\ manualUnsub' = manualUnsub \ ({ev.session} \X ev.tracks)
      [] ev.kind = "unpublished" ->
            /\ participants' = IF Known(ev.session)
                               THEN Upserted(participants, ev.session,
                                             TracksOf(ev.session) \ ev.tracks)
                               ELSE participants
            /\ UNCHANGED manualUnsub

-----------------------------------------------------------------------------
(* The list. *)

\* SubscriptionConfig::track_subscriptions of one participant.
RuleKeys(p) ==
    {k \in {p.session} \X (p.tracks \cap policy.rule[p.session]) : k \notin manualUnsub}

\* The order in which a participant lists its tracks.
Rank == CHOOSE rank \in [Types -> 1..Cardinality(Types)] : \A t, u \in Types : rank[t] = rank[u] => t = u

Earlier(l, k) ==
    \/ Place(participants, l[1]) < Place(participants, k[1])
    \/ l[1] = k[1] /\ Rank[l[2]] < Rank[k[2]]

\* The policy: the tracks in the order of the participants, up to the limit.
PolicyList ==
    LET all == UNION {RuleKeys(participants[i]) : i \in DOMAIN participants}
    IN  {k \in all : Cardinality({l \in all : Earlier(l, k)}) < policy.max}

\* The targets of the user that are published and not dropped.
TargetList ==
    {k \in policy.targets : Known(k[1]) /\ k[2] \in TracksOf(k[1]) /\ k \notin manualUnsub}

Wanted == IF policy.targets = None THEN PolicyList ELSE TargetList

Crossing == \E r \in rpcs : r.to = conn

\* An identical list is not sent again.
Unchanged == Wanted = activeSubs

Goes(p, place) == doing' = [doing EXCEPT ![p] = place]

\* The task of a dropped track waits for a new publication after its computation.
TrackAfter(p) ==
    IF Len(p) = 3 THEN [track EXCEPT ![<<p[2], p[3]>>] = "waiting"] ELSE track
PhaseAfter(p, ok) ==
    IF p # Restore THEN phase
    ELSE IF ok THEN [phase EXCEPT !.at = "restored"] ELSE [phase EXCEPT !.at = "failed"]

\* recompute_subscriptions: nothing to send, or the request without a lock.
Computes(p) ==
    /\ doing[p] = "compute"
    /\ IF ~subsActive \/ Unchanged
       THEN /\ Goes(p, "idle") /\ UNCHANGED <<rpcs, doubt>>
            /\ track' = TrackAfter(p) /\ phase' = PhaseAfter(p, TRUE)
       ELSE /\ Goes(p, "rpc") /\ UNCHANGED <<track, phase>>
            /\ rpcs' = rpcs \cup {[by |-> p, to |-> conn, session |-> session[conn],
                                   list |-> Wanted, applied |-> FALSE]}
            /\ doubt' = IF Crossing THEN doubt \cup {conn} ELSE doubt
    /\ raced' = (rpcs # {})
    /\ UNCHANGED <<sfuVars, stateVars, activeSubs, delivered, conn, session, enabled, spent, late>>

\* The SFU takes the requests in any order.
SfuApplies ==
    /\ \E r \in {q \in rpcs : ~q.applied} :
        /\ sfu' = [sfu EXCEPT ![r.to] = r.list]
        /\ rpcs' = (rpcs \ {r}) \cup {[r EXCEPT !.applied = TRUE]}
    /\ UNCHANGED <<world, wire, fastWire, stateVars, activeSubs, delivered, linkVars, doing, track, spent,
                   doubt, raced, late>>

\* Mutant: the answer is stored whatever the connection.
MutStores(r) == TRUE

\* The answer is stored if the connection still has the session.
Stores(r) == session[conn] = r.session

\* An answer to a request of another connection.
Misplaced(r) == session[conn] = r.session /\ r.to # conn

Answers(p) ==
    /\ doing[p] = "rpc"
    /\ \E r \in rpcs :
        /\ r.by = p /\ r.applied
        /\ rpcs' = rpcs \ {r}
        /\ activeSubs' = IF Stores(r) THEN r.list ELSE activeSubs
        /\ doubt' = IF Misplaced(r) THEN doubt \cup {conn}
                    ELSE IF \E q \in rpcs' : q.to = r.to THEN doubt \cup {r.to}
                    ELSE IF Stores(r) /\ sfu[conn] = r.list THEN doubt \ {conn} ELSE doubt
    /\ Goes(p, "idle") /\ track' = TrackAfter(p) /\ phase' = PhaseAfter(p, TRUE)
    /\ UNCHANGED <<sfuVars, stateVars, delivered, conn, session, enabled, spent, raced, late>>

\* A failed request, whether the SFU took it or not: an event loop ends, the
\* user gets the error, and the task of a dropped track only logs it.
Fails(p) ==
    /\ doing[p] = "rpc" /\ Spends
    /\ \E r \in rpcs : r.by = p /\ rpcs' = rpcs \ {r} /\ doubt' = doubt \cup {r.to}
    /\ Goes(p, IF p[1] = "loop" THEN "off" ELSE "idle")
    /\ track' = TrackAfter(p) /\ phase' = PhaseAfter(p, FALSE)
    /\ UNCHANGED <<sfuVars, stateVars, activeSubs, delivered, conn, session, enabled,
                   raced, late>>

-----------------------------------------------------------------------------
(* The SFU and the event loops. *)

\* The sockets on which the SFU reports: those of the connections it has.
Listening(e) == doing[Loop(e)] # "off"

\* A change in the call, reported to every connection of the client.
Reports(ev) ==
    /\ Spends
    /\ wire' = [e \in Epochs |-> IF Listening(e) THEN Append(wire[e], ev) ELSE wire[e]]
    /\ fastWire' = IF fastWire = None THEN None ELSE Append(fastWire, ev)
    /\ UNCHANGED <<sfu, stateVars, activeSubs, delivered, linkVars, doing, rpcs, track,
                   doubt, raced, late>>

Event(kind, s, tracks) == [kind |-> kind, session |-> s, tracks |-> tracks]

Joins(s) ==
    /\ world[s] = Absent /\ world' = [world EXCEPT ![s] = {}]
    /\ Reports(Event("upsert", s, {}))

Leaves(s) ==
    /\ world[s] # Absent /\ world' = [world EXCEPT ![s] = Absent]
    /\ Reports(Event("left", s, {}))

Updates(s) ==
    /\ world[s] # Absent /\ UNCHANGED world
    /\ Reports(Event("upsert", s, world[s]))

Publishes(s, t) ==
    /\ world[s] # Absent /\ t \notin world[s]
    /\ world' = [world EXCEPT ![s] = @ \cup {t}]
    /\ Reports(Event("published", s, {t}))

Unpublishes(s, t) ==
    /\ world[s] # Absent /\ t \in world[s]
    /\ world' = [world EXCEPT ![s] = @ \ {t}]
    /\ Reports(Event("unpublished", s, {t}))

\* handle_event, up to the computation.
LoopTakes(e) ==
    /\ doing[Loop(e)] = "idle" /\ wire[e] # <<>>
    /\ Applies(Head(wire[e]))
    /\ wire' = [wire EXCEPT ![e] = Tail(@)]
    /\ Goes(Loop(e), "compute")
    /\ late' = (late \/ e # conn \/ phase.at = "answered")
    /\ UNCHANGED <<world, sfu, fastWire, policy, subsActive, activeSubs, delivered, linkVars, rpcs,
                   track, spent, doubt, raced>>

-----------------------------------------------------------------------------
(* The user. *)

Calls == doing[User] = "idle" /\ Spends /\ Goes(User, "compute")

\* update_subscriptions and update_subscription_targets.
UpdateSubscriptions ==
    /\ Calls /\ subsActive' = TRUE /\ policy' \in Policies
    /\ UNCHANGED <<sfuVars, participants, manualUnsub, activeSubs, delivered, linkVars, rpcs, track,
                   doubt, raced, late>>

\* set_incoming_video_enabled: in every rule; a list of targets goes.
SetIncomingVideo(enable) ==
    /\ Calls /\ subsActive' = TRUE
    /\ policy' = [policy EXCEPT !.targets = None,
                                !.rule = [s \in Sessions |-> IF enable THEN @[s] \cup {"video"}
                                                             ELSE @[s] \ {"video"}]]
    /\ UNCHANGED <<sfuVars, participants, manualUnsub, activeSubs, delivered, linkVars, rpcs, track,
                   doubt, raced, late>>

\* handle_incoming_track: on_track fires once for each receiver.
Incoming(e, k) ==
    IF enabled[e]
    THEN /\ track' = [track EXCEPT ![<<e, k>>] = "held"]
         /\ delivered' = [delivered EXCEPT ![k] = e]
    ELSE track' = [track EXCEPT ![<<e, k>>] = "gone"] /\ UNCHANGED delivered

TrackArrives(e, k) ==
    /\ track[<<e, k>>] = "none" /\ k \in sfu[e] /\ (Listening(e) \/ e = conn)
    /\ Incoming(e, k)
    /\ UNCHANGED <<sfuVars, stateVars, activeSubs, linkVars, doing, rpcs, spent, doubt, raced, late>>

\* The user drops the RemoteTrack, which spawns a task.
UserDrops(e, k) ==
    /\ track[<<e, k>>] = "held" /\ Spends
    /\ track' = [track EXCEPT ![<<e, k>>] = "dropped"]
    /\ UNCHANGED <<sfuVars, stateVars, activeSubs, delivered, linkVars, doing, rpcs,
                   doubt, raced, late>>

\* Mutant: the drop of a track of a replaced connection counts.
MutIsLatest(e, k) == delivered[k] = e

\* Whether the dropped track is of the current connection, and the latest one.
IsLatest(e, k) == conn = e /\ delivered[k] = e

\* on_remote_track_dropped, under the lock of the connection.
DropTakes(e, k) ==
    /\ track[<<e, k>>] = "dropped"
    /\ IF IsLatest(e, k)
       THEN /\ track' = [track EXCEPT ![<<e, k>>] = "unsubscribed"]
            /\ delivered' = [delivered EXCEPT ![k] = 0]
            /\ manualUnsub' = manualUnsub \cup {k}
       ELSE track' = [track EXCEPT ![<<e, k>>] = "gone"] /\ UNCHANGED <<delivered, manualUnsub>>
    /\ UNCHANGED <<sfuVars, participants, policy, subsActive, activeSubs, linkVars, doing, rpcs, spent,
                   doubt, raced, late>>

\* The connection is looked at again before the computation.
DropChecks(e, k) ==
    /\ track[<<e, k>>] = "unsubscribed" /\ doing[Dropper(e, k)] = "idle"
    /\ IF conn = e THEN Goes(Dropper(e, k), "compute") /\ UNCHANGED track
       ELSE track' = [track EXCEPT ![<<e, k>>] = "gone"] /\ UNCHANGED doing
    /\ UNCHANGED <<sfuVars, stateVars, activeSubs, delivered, linkVars, rpcs, spent, doubt, raced, late>>

\* The drop put the key there, and only a publication takes it away.
KeepsWaiting(k) == k \in manualUnsub

\* deliver_again_when_published, at a packet.
PacketArrives(e, k) ==
    /\ track[<<e, k>>] = "waiting" /\ k \in sfu[e]
    /\ IF delivered[k] # 0 \/ conn # e
       THEN track' = [track EXCEPT ![<<e, k>>] = "gone"] /\ UNCHANGED delivered
       ELSE ~KeepsWaiting(k) /\ Incoming(e, k)
    /\ UNCHANGED <<sfuVars, stateVars, activeSubs, linkVars, doing, rpcs, spent, doubt, raced, late>>

-----------------------------------------------------------------------------
(* The reconnect. *)

\* The epoch of the connection that an attempt opens.
Fresh == conn + 1

\* A MIGRATE that could not restore closes the old connection before it returns.
NoAttempt == phase.at = "idle" \/ (phase.at = "failed" /\ phase.kind # "migrate")

\* A task of the connection is aborted where it awaits; its request got to the
\* SFU or it did not.
Aborts(e) ==
    /\ rpcs' = {r \in rpcs : r.by # Loop(e)}
    /\ LET lost == {r \in rpcs : r.by = Loop(e)} IN
        /\ doubt' = doubt \cup {r.to : r \in lost}
        /\ \/ UNCHANGED sfu
           \/ \E r \in lost : ~r.applied /\ sfu' = [sfu EXCEPT ![r.to] = r.list]
    /\ wire' = [wire EXCEPT ![e] = <<>>]

\* MIGRATE detaches the old connection before it joins the new SFU.
MigrateBegins ==
    /\ NoAttempt /\ Fresh \in Epochs /\ Spends
    /\ enabled' = [enabled EXCEPT ![conn] = FALSE]
    /\ phase' = [at |-> "joining", kind |-> "migrate", old |-> conn]
    /\ UNCHANGED <<sfuVars, stateVars, activeSubs, delivered, conn, session, doing, rpcs, track,
                   doubt, raced, late>>

MigrateFails ==
    /\ phase.at = "joining"
    /\ enabled' = [enabled EXCEPT ![conn] = TRUE]
    /\ phase' = [Idle EXCEPT !.at = "failed"]
    /\ UNCHANGED <<sfuVars, stateVars, activeSubs, delivered, conn, session, doing, rpcs, track,
                   spent, doubt, raced, late>>

\* establish: the answer of the new SFU is applied while the old connection is
\* in the slot and its event loop runs; the new event loop starts.
Joined(kind) ==
    /\ participants' \in Answered(participants)
    /\ session' = [session EXCEPT ![Fresh] = IF kind = "migrate" THEN session[conn] ELSE Fresh]
    /\ Goes(Loop(Fresh), "idle")
    /\ phase' = [at |-> "answered", kind |-> kind, old |-> conn]
    /\ UNCHANGED <<sfuVars, policy, subsActive, manualUnsub, activeSubs, delivered, conn, enabled,
                   rpcs, track, doubt, raced, late>>

Migrates == phase.at = "joining" /\ Joined("migrate") /\ UNCHANGED spent
Rejoins == NoAttempt /\ Fresh \in Epochs /\ Joined("rejoin") /\ Spends

\* join_once: the new connection takes the slot.
Installs ==
    /\ phase.at = "answered" /\ phase.kind # "fast"
    /\ conn' = Fresh
    /\ phase' = [phase EXCEPT !.at = IF phase.kind = "rejoin" THEN "closing" ELSE "installed"]
    /\ UNCHANGED <<sfuVars, stateVars, activeSubs, delivered, session, enabled, doing, rpcs, track,
                   spent, doubt, raced, late>>

\* teardown of the old connection: at once after a REJOIN, at the end of a MIGRATE.
ClosesOld ==
    /\ \/ phase.at = "closing" /\ phase' = [phase EXCEPT !.at = "installed"]
       \/ phase.at \in {"restored", "failed"} /\ phase.kind = "migrate"
            /\ phase' = IF phase.at = "restored" THEN Idle ELSE [Idle EXCEPT !.at = "failed"]
    /\ Aborts(phase.old) /\ Goes(Loop(phase.old), "off")
    /\ UNCHANGED <<world, fastWire, stateVars, activeSubs, delivered, conn, session, enabled, track,
                   spent, raced, late>>

\* Mutant: what was sent to the old SFU is not forgotten.
MutForgets == UNCHANGED activeSubs

\* The fresh SFU has no subscriptions yet.
Forgets == activeSubs' = {}

Clears ==
    /\ phase.at = "installed" /\ Forgets
    /\ phase' = [phase EXCEPT !.at = "restoring"]
    /\ doubt' = IF Crossing \/ sfu[conn] # {} THEN doubt \cup {conn} ELSE doubt
    /\ UNCHANGED <<sfuVars, stateVars, delivered, conn, session, enabled, doing, rpcs, track, spent,
                   raced, late>>

\* reopen_fast_signal: a second socket, whose answer is applied while the event
\* loop of the first one runs.
FastAnswered ==
    /\ NoAttempt /\ Spends
    /\ participants' \in Answered(participants) /\ fastWire' = <<>>
    /\ phase' = [at |-> "answered", kind |-> "fast", old |-> conn]
    /\ UNCHANGED <<world, sfu, wire, policy, subsActive, manualUnsub, activeSubs, delivered, conn,
                   session, enabled, doing, rpcs, track, doubt, raced, late>>

\* The tasks of the first socket are aborted, and the loop of the second starts.
FastSwitches ==
    /\ phase.at = "answered" /\ phase.kind = "fast"
    /\ rpcs' = {r \in rpcs : r.by # Loop(conn)}
    /\ LET lost == {r \in rpcs : r.by = Loop(conn)} IN
        /\ doubt' = doubt \cup {r.to : r \in lost}
        /\ \/ UNCHANGED sfu
           \/ \E r \in lost : ~r.applied /\ sfu' = [sfu EXCEPT ![r.to] = r.list]
    /\ wire' = [wire EXCEPT ![conn] = fastWire] /\ fastWire' = None
    /\ Goes(Loop(conn), "idle") /\ enabled' = [enabled EXCEPT ![conn] = TRUE]
    /\ phase' = [phase EXCEPT !.at = "restoring"]
    /\ UNCHANGED <<world, stateVars, activeSubs, delivered, conn, session, track, spent, raced, late>>

\* restore_subscribed_tracks.
RestoreBegins ==
    /\ phase.at = "restoring" /\ doing[Restore] = "idle"
    /\ Goes(Restore, "compute") /\ phase' = [phase EXCEPT !.at = "recomputing"]
    /\ UNCHANGED <<sfuVars, stateVars, activeSubs, delivered, conn, session, enabled, rpcs, track,
                   spent, doubt, raced, late>>

\* The published tracks are restored before, and a MIGRATE then waits for its end.
RestoreFails ==
    /\ \/ phase.at = "restoring" /\ doing[Restore] = "idle"
       \/ phase.at = "restored" /\ phase.kind = "migrate"
    /\ Spends /\ phase' = [phase EXCEPT !.at = "failed"]
    /\ UNCHANGED <<sfuVars, stateVars, activeSubs, delivered, conn, session, enabled, doing, rpcs,
                   track, doubt, raced, late>>

Ends ==
    /\ phase.at = "restored" /\ phase.kind # "migrate" /\ phase' = Idle
    /\ UNCHANGED <<sfuVars, stateVars, activeSubs, delivered, conn, session, enabled, doing, rpcs,
                   track, spent, doubt, raced, late>>

Next ==
    \/ \E p \in Procs : Computes(p) \/ Answers(p) \/ Fails(p)
    \/ SfuApplies
    \/ \E s \in Sessions : Joins(s) \/ Leaves(s) \/ Updates(s)
    \/ \E s \in Sessions, t \in Types : Publishes(s, t) \/ Unpublishes(s, t)
    \/ \E e \in Epochs : LoopTakes(e)
    \/ UpdateSubscriptions \/ \E enable \in BOOLEAN : SetIncomingVideo(enable)
    \/ \E e \in Epochs, k \in Keys : \/ TrackArrives(e, k) \/ UserDrops(e, k) \/ DropTakes(e, k)
                                     \/ DropChecks(e, k) \/ PacketArrives(e, k)
    \/ MigrateBegins \/ MigrateFails \/ Migrates \/ Rejoins \/ Installs \/ ClosesOld \/ Clears
    \/ FastAnswered \/ FastSwitches \/ RestoreBegins \/ RestoreFails \/ Ends

Spec == Init /\ [][Next]_vars

-----------------------------------------------------------------------------
(* Properties. *)

\* A connection in the slot whose list was reset for it.
Settled == phase.at \notin {"closing", "installed"}

\* What the client believes it is subscribed to is what the SFU of its
\* connection has, once no request is on its way and unless two requests of
\* this connection crossed or one failed.  A wrong belief makes the check
\* against an identical list skip a request that is needed.
Agrees == rpcs = {} /\ Settled /\ conn \notin doubt => activeSubs = sfu[conn]

Quiet ==
    /\ rpcs = {} /\ \A p \in Procs : doing[p] \in {"idle", "off"}
    /\ Listening(conn) /\ wire[conn] = <<>> /\ phase.at = "idle"
    /\ \A ek \in Epochs \X Keys : track[ek] \notin {"dropped", "unsubscribed"}

\* When nothing is under way, the SFU sends an active subscriber the tracks that
\* its policy, the participants and the dropped tracks call for, across events,
\* calls and reconnects, unless a computation raced with another one or an
\* event of a replaced socket came after the answer of its successor.
SubscriptionsSettle ==
    Quiet /\ subsActive /\ ~late /\ conn \notin doubt /\ ~raced => sfu[conn] = Wanted

\* A track that the user holds, the latest of its key, was not taken for one
\* that the user dropped: the drop of a track of an earlier connection or of
\* an earlier delivery never unsubscribes from the one in use.
HeldIsWanted ==
    \A k \in Keys : track[<<conn, k>>] = "held" /\ delivered[k] = conn => k \notin manualUnsub

\* When nothing is under way, the participants are those of the SFU, unless an
\* event of a replaced socket was applied after the answer of its successor.
ParticipantsFollow ==
    Quiet /\ ~late =>
        \A s \in Sessions : IF Known(s) THEN world[s] = TracksOf(s) ELSE world[s] = Absent
=============================================================================
