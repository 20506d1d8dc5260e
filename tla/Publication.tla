---------------------------- MODULE Publication ----------------------------
(***************************************************************************)
(* Publishing the local tracks of one kind (audio, say): publish, stop,    *)
(* mute, the revoked permission, the change of publish options, and what a *)
(* FAST and a REJOIN restore.  A call holds the media lock over its        *)
(* requests to the SFU; set_track_muted does not, a reconnect can replace  *)
(* the connection under the lock, and a caller can drop its future at any  *)
(* await.  The connection, its slot and its generation are those of        *)
(* RtcLifecycle; here a connection is a number and the senders (m-lines)   *)
(* of its publisher.                                                       *)
(***************************************************************************)
EXTENDS Naturals, SequencesExt, FiniteSetsExt

CONSTANTS
    Callers,    \* tasks of the user
    Tracks,     \* local tracks of the kind
    Simulcast,  \* those with more than one encoding
    NumOptions, \* publish options of the kind: ids 1..NumOptions
    None,
    MaxCalls,   \* bound: calls of the user
    Faults,     \* bound: requests that fail, and futures dropped
    Swaps,      \* bound: connections after the first
    Events      \* bound: permission and option events

VARIABLES
    media,     \* the holder of the media lock
    pubs,      \* MediaState.publications: [track, status, option]
    retired,   \* MediaState.retired: [track, option]
    senders,   \* of the current publisher: [track, announced]
    conn,      \* number of the current connection
    connected, \* connection state of its publisher
    notify,    \* its callback has not run start_audio_pacing_if_connected yet
    stopped, muted, held,   \* sets of tracks
    capable,   \* own_capabilities has the capability of the kind
    sfuMuted,  \* what the SFU was told of the kind, in the current session
    listed,    \* the kind is in `published` of the local participant
    call,      \* [Procs -> [at, ...]]
    restoring, \* the reconnect: none, swapped, fast, sync, stops, failed
    astray, \* history: a sender is left that nothing names, or is retired before it
               \* was announced, a restore publishes a track that stays held, a retired
               \* track is published again, or the options change while a sender is kept
    due,       \* history: restore_published_tracks has not run for the connection
    doubt,     \* history: a mute crossed another request, or its answer was lost
    calls, faults, events  \* bounds

lists == <<pubs, retired, senders>>
link == <<conn, connected, notify, restoring>>
flags == <<stopped, muted, held>>
told == <<sfuMuted, listed>>
bounds == <<calls, faults, events>>
vars == <<media, lists, link, flags, capable, told, call, astray, due, doubt, bounds>>

Revoker == "apply_permissions_updated"
Restore == "restore_published_tracks"
Procs == Callers \cup {Revoker}

Statuses == {"PendingPublishNegotiation", "PendingPublishMute", "Published", "PendingStopMute"}
Places == {"idle", "publish", "replace", "register", "add", "added", "negotiate", "announce",
           "unmute", "stop", "stopMute", "mute", "answer", "list"}

IdleCall == [at |-> "idle", track |-> None, option |-> 0, conn |-> 0, to |-> FALSE, tracks |-> {}]

TypeOK ==
    /\ media \in Procs \cup {Restore, None}
    /\ \A i \in DOMAIN pubs : pubs[i].track \in Tracks /\ pubs[i].status \in Statuses
                              /\ pubs[i].option \in 1..NumOptions
    /\ \A i, j \in DOMAIN pubs :
            i # j => pubs[i].track # pubs[j].track /\ pubs[i].option # pubs[j].option
    /\ \A i \in DOMAIN retired : retired[i].track \in stopped
    /\ conn \in 1..Swaps + 1 /\ {connected, notify, capable, sfuMuted, listed} \subseteq BOOLEAN
    /\ stopped \cup muted \cup held \subseteq Tracks
    /\ \A p \in Procs : call[p].at \in Places
    /\ restoring \in {"none", "swapped", "fast", "sync", "stops", "failed"}

Init ==
    /\ media = None /\ pubs = <<>> /\ retired = <<>> /\ senders = <<>>
    /\ conn = 1 /\ connected = FALSE /\ notify = FALSE /\ restoring = "none"
    /\ stopped = {} /\ muted = {} /\ held = {} /\ capable = TRUE
    /\ sfuMuted = TRUE /\ listed = FALSE
    /\ call = [p \in Procs |-> IdleCall]
    /\ astray = FALSE /\ due = FALSE /\ doubt = FALSE
    /\ calls = 0 /\ faults = 0 /\ events = 0

-----------------------------------------------------------------------------
(* MediaState *)

IsActive(status) == status # "PendingStopMute"
Active == {pubs[i].track : i \in {j \in DOMAIN pubs : IsActive(pubs[j].status)}}
Position(t) == {i \in DOMAIN pubs : pubs[i].track = t}
StatusOf(t) == pubs[CHOOSE i \in Position(t) : TRUE].status
OptionOf(t) == pubs[CHOOSE i \in Position(t) : TRUE].option

\* What retain, remove and filter leave of a list: what is at these places, in order.
Filtered(list, places) ==
    [n \in 1..Cardinality(places) |->
        list[CHOOSE i \in places : Cardinality({j \in places : j <= i}) = n]]

Without(t) == Filtered(pubs, DOMAIN pubs \ Position(t))
WithStatus(t, status) ==
    [i \in DOMAIN pubs |-> IF pubs[i].track = t THEN [pubs[i] EXCEPT !.status = status] ELSE pubs[i]]

\* begin_publish: the track is held until the publisher connects.
Begun(t, option, status) ==
    Append(pubs, [track |-> t, status |-> status, option |-> option])

Unused == (1..NumOptions) \ {pubs[i].option : i \in DOMAIN pubs}
RetiredFor(option) == {i \in DOMAIN retired : retired[i].option = option}

\* refresh_publish_options: in order of publication, the first unused option.
Refreshed == [i \in DOMAIN pubs |-> [pubs[i] EXCEPT !.option = i]]

SenderOf(t) == {i \in DOMAIN senders : senders[i].track = t}
\* A retired track keeps its option and its sender.
IsRetired(t) == \E i \in DOMAIN retired : retired[i].track = t
Stays == \E i \in DOMAIN retired : SenderOf(retired[i].track) # {}

AllPublished ==
    [i \in DOMAIN pubs |-> IF IsActive(pubs[i].status) THEN [pubs[i] EXCEPT !.status = "Published"]
                           ELSE pubs[i]]

\* add_transceiver_for_track: a new m-line.
WithSender(t) == Append(senders, [track |-> t, announced |-> FALSE])
\* remove_sender_for_track
WithoutSender(t) == Filtered(senders, DOMAIN senders \ SenderOf(t))
\* negotiate_publish announces the senders of the active tracks.
Announced(all) ==
    [i \in DOMAIN all |-> IF all[i].track \in Active THEN [all[i] EXCEPT !.announced = TRUE]
                          ELSE all[i]]

Current(p) == call[p].conn = conn
Fault == faults < Faults /\ faults' = faults + 1

Go(p, place) == call' = [call EXCEPT ![p].at = place]
\* The revoker goes on with its next track.
Return(p) ==
    call' = [call EXCEPT ![p] = IF p = Revoker /\ @.tracks # {} THEN [@ EXCEPT !.at = "list"]
                                ELSE IdleCall]
Unlock == media' = None

\* The requests that tell the SFU whether the kind is muted.
Telling == {p \in Procs : call[p].at \in {"unmute", "stopMute", "answer"}}
Crosses(p) ==
    doubt' = (doubt \/ restoring \in {"sync", "stops"}
                    \/ \E q \in Telling \ {p} : "answer" \in {call[p].at, call[q].at})

-----------------------------------------------------------------------------
(* publish *)

PublishBegins(c, t) ==
    /\ call[c].at = "idle" /\ calls < MaxCalls /\ calls' = calls + 1
    /\ call' = [call EXCEPT ![c] = [IdleCall EXCEPT !.at = "publish", !.track = t]]
    /\ UNCHANGED <<media, lists, link, flags, capable, told, astray, due, doubt, faults, events>>

\* Mutant: the permission is looked at before the lock, so not here.
MutMayPublish == TRUE

MayPublish == capable

Layered(t, option) ==
    \E i \in RetiredFor(option) :
        /\ i = Max(RetiredFor(option))
        /\ retired[i].track \in Simulcast \/ t \in Simulcast

\* Where the call goes with the lock held, or that it returns.
PublishPlan(t) ==
    IF ~MayPublish THEN [at |-> "idle", option |-> 0]
    ELSE IF Position(t) # {}
    THEN [at |-> CASE StatusOf(t) = "PendingPublishNegotiation" -> "negotiate"
                   [] StatusOf(t) = "PendingPublishMute" -> "announce"
                   [] OTHER -> "idle", option |-> OptionOf(t)]
    ELSE IF Unused = {} THEN [at |-> "idle", option |-> 0]
    ELSE LET option == Min(Unused) IN
         [at |-> IF Layered(t, option) THEN "idle"
                 ELSE IF RetiredFor(option) # {} THEN "replace" ELSE "add",
          option |-> option]

PublishLocks(c) ==
    /\ call[c].at = "publish" /\ media = None
    /\ LET plan == PublishPlan(call[c].track) IN
       IF plan.at = "idle" THEN Return(c) /\ UNCHANGED <<media, astray>>
       ELSE /\ media' = c
            /\ call' = [call EXCEPT ![c].at = plan.at, ![c].option = plan.option, ![c].conn = conn]
            /\ astray' = (astray \/ IsRetired(call[c].track))
    /\ UNCHANGED <<lists, link, flags, capable, told, due, doubt, bounds>>

\* replace_retired_track: the track takes over the first sender of the retired one,
\* unless its layers differ or the sender is gone; take_retired.
PublishReplaces(c) ==
    /\ call[c].at = "replace"
    /\ LET i == Max(RetiredFor(call[c].option))
           mine == IF Current(c) THEN SenderOf(retired[i].track) ELSE {}
           taken == Filtered(retired, DOMAIN retired \ {i})
       IN  \/ /\ mine # {}
              /\ senders' = [senders EXCEPT ![Min(mine)].track = call[c].track]
              /\ retired' = taken /\ Go(c, "register") /\ UNCHANGED media
           \/ /\ mine = {}
              /\ retired' = taken /\ Go(c, "add") /\ UNCHANGED <<senders, media>>
           \/ Return(c) /\ Unlock /\ UNCHANGED <<senders, retired>>
    /\ UNCHANGED <<pubs, link, flags, capable, told, astray, due, doubt, bounds>>

\* register_publisher_tasks waits for the connection, then begin_publish.
PublishRegisters(c) ==
    /\ call[c].at = "register"
    /\ pubs' = Begun(call[c].track, call[c].option, "PendingPublishMute")
    /\ held' = held \cup {call[c].track}
    /\ Go(c, "announce")
    /\ UNCHANGED <<media, retired, senders, link, stopped, muted, capable, told, astray, due, doubt,
                   bounds>>

PublishAdds(c) ==
    /\ call[c].at = "add"
    /\ senders' = IF Current(c) THEN WithSender(call[c].track) ELSE senders
    /\ Go(c, "added")
    /\ UNCHANGED <<media, pubs, retired, link, flags, capable, told, astray, due, doubt, bounds>>

\* The encodings are added, then begin_publish; a failure takes the sender back.
PublishAdded(c) ==
    /\ call[c].at = "added"
    /\ \/ /\ pubs' = Begun(call[c].track, call[c].option, "PendingPublishNegotiation")
          /\ held' = held \cup {call[c].track}
          /\ Go(c, "negotiate") /\ UNCHANGED <<due, senders, media, faults>>
       \/ /\ Fault /\ Return(c) /\ Unlock
          /\ senders' = IF Current(c) THEN WithoutSender(call[c].track) ELSE senders
          /\ UNCHANGED <<pubs, held>>
    /\ UNCHANGED <<retired, link, stopped, muted, capable, told, astray, due, doubt, calls, events>>

\* Mutant: a negotiation that fails keeps its sender.
MutRolledBack(t) == senders

RolledBack(t) == WithoutSender(t)

\* SetPublisher; if it fails the sender and the publication are removed, or
\* neither when the sender cannot be.
PublishNegotiates(c) ==
    /\ call[c].at = "negotiate"
    /\ LET t == call[c].track IN
       \/ /\ senders' = IF Current(c) THEN Announced(senders) ELSE senders
          /\ pubs' = WithStatus(t, "PendingPublishMute")
          /\ Go(c, "announce") /\ UNCHANGED <<due, media, held, faults>>
       \/ /\ Fault /\ Return(c) /\ Unlock
          /\ \/ /\ senders' = IF Current(c) THEN RolledBack(t) ELSE senders
                /\ pubs' = Without(t) /\ held' = held \ {t}
             \/ UNCHANGED <<senders, pubs, held>>
    /\ UNCHANGED <<retired, link, stopped, muted, capable, told, astray, due, doubt, calls, events>>

\* Mutant: whether the publisher has connected is left to its callback.
MutHeldStill(t) == held

HeldStill(t) == IF connected THEN held \ {t} ELSE held

\* add_published_track, and the pacing of a publisher that has connected.
PublishAnnounces(c) ==
    /\ call[c].at = "announce" /\ Go(c, "unmute")
    /\ IF Current(c) THEN listed' = TRUE /\ held' = HeldStill(call[c].track)
       ELSE UNCHANGED <<listed, held>>
    /\ UNCHANGED <<media, lists, link, stopped, muted, capable, sfuMuted, astray, due, doubt, bounds>>

PublishUnmutes(c) ==
    /\ call[c].at = "unmute" /\ Return(c) /\ Unlock /\ Crosses(c)
    /\ \/ /\ sfuMuted' = IF Current(c) THEN FALSE ELSE sfuMuted
          /\ pubs' = WithStatus(call[c].track, "Published") /\ UNCHANGED faults
       \/ Fault /\ UNCHANGED <<sfuMuted, pubs>>
    /\ UNCHANGED <<retired, senders, link, flags, capable, listed, astray, due, calls, events>>

PublishStep(c) ==
    \/ PublishLocks(c) \/ PublishReplaces(c) \/ PublishRegisters(c) \/ PublishAdds(c)
    \/ PublishAdded(c) \/ PublishNegotiates(c) \/ PublishAnnounces(c) \/ PublishUnmutes(c)

\* The future of a publish is dropped.  With the sender changed and no
\* publication begun the sender goes astray.
PublishDropped(c) ==
    /\ call[c].at \in {"publish", "replace", "register", "add", "added", "negotiate", "announce",
                       "unmute"}
    /\ Fault /\ call' = [call EXCEPT ![c] = IdleCall]
    /\ media' = IF media = c THEN None ELSE media
    /\ astray' = (astray \/ call[c].at \in {"register", "added"})
    /\ UNCHANGED <<lists, link, flags, capable, told, due, doubt, calls, events>>

-----------------------------------------------------------------------------
(* stop_publish *)

StopBegins(c, t) ==
    /\ call[c].at = "idle" /\ calls < MaxCalls /\ calls' = calls + 1
    /\ call' = [call EXCEPT ![c] = [IdleCall EXCEPT !.at = "stop", !.track = t]]
    /\ UNCHANGED <<media, lists, link, flags, capable, told, astray, due, doubt, faults, events>>

LastActive(t) == Active \ {t} = {}

\* The track is stopped before the SFU is told; the kind is muted with its
\* last active track.
StopLocks(p) ==
    /\ call[p].at = "stop" /\ media = None
    /\ LET t == call[p].track IN
       IF Position(t) = {} THEN Return(p) /\ UNCHANGED <<media, pubs, stopped>>
       ELSE /\ media' = p
            /\ pubs' = WithStatus(t, "PendingStopMute") /\ stopped' = stopped \cup {t}
            /\ call' = [call EXCEPT ![p].at = "stopMute", ![p].conn = conn,
                                    ![p].to = LastActive(t)]
    /\ UNCHANGED <<retired, senders, link, muted, held, capable, told, astray, due, doubt, bounds>>

\* Then the publication is retired, its sender stays.
StopMutes(p) ==
    /\ call[p].at = "stopMute" /\ Return(p) /\ Unlock /\ Crosses(p)
    /\ LET t == call[p].track IN
       \/ /\ sfuMuted' = IF Current(p) THEN call[p].to ELSE sfuMuted
          /\ listed' = (listed /\ ~(Current(p) /\ call[p].to))
          /\ retired' = Append(retired, [track |-> t, option |-> OptionOf(t)])
          /\ pubs' = Without(t) /\ held' = held \ {t} /\ UNCHANGED faults
          /\ astray' = (astray \/ \E k \in SenderOf(t) : ~senders[k].announced)
       \/ Fault /\ UNCHANGED <<sfuMuted, listed, retired, pubs, held, astray>>
    /\ UNCHANGED <<senders, link, stopped, muted, capable, due, calls, events>>

StopDropped(c) ==
    /\ call[c].at \in {"stop", "stopMute"} /\ Fault
    /\ call' = [call EXCEPT ![c] = IdleCall]
    /\ media' = IF media = c THEN None ELSE media
    /\ UNCHANGED <<lists, link, flags, capable, told, astray, due, doubt, calls, events>>

-----------------------------------------------------------------------------
(* set_track_muted *)

MuteBegins(c, to) ==
    /\ call[c].at = "idle" /\ calls < MaxCalls /\ calls' = calls + 1
    /\ to \/ capable
    /\ call' = [call EXCEPT ![c] = [IdleCall EXCEPT !.at = "mute", !.to = to]]
    /\ UNCHANGED <<media, lists, link, flags, capable, told, astray, due, doubt, faults, events>>

\* The lock is taken for the list of active tracks only; nothing to change
\* returns at once.
MuteSets(c) ==
    /\ call[c].at = "mute" /\ media = None
    /\ LET to == call[c].to IN
       IF Active = {} \/ (to /\ Active \subseteq muted) \/ (~to /\ Active \cap muted = {})
       THEN Return(c) /\ UNCHANGED muted
       ELSE /\ muted' = IF to THEN muted \cup Active ELSE muted \ Active
            /\ call' = [call EXCEPT ![c].at = "answer", ![c].conn = conn, ![c].tracks = Active]
    /\ UNCHANGED <<media, lists, link, stopped, held, capable, told, astray, due, doubt, bounds>>

\* A request that fails, or whose answer is lost, is undone for every track.
MuteAnswers(c) ==
    /\ call[c].at = "answer" /\ call' = [call EXCEPT ![c] = IdleCall]
    /\ LET to == call[c].to IN
       \/ /\ sfuMuted' = IF Current(c) THEN to ELSE sfuMuted
          /\ listed' = IF Current(c) THEN ~to ELSE listed
          /\ Crosses(c) /\ UNCHANGED <<due, muted, faults>>
       \/ /\ Fault /\ doubt' = TRUE
          /\ muted' = IF to THEN muted \ call[c].tracks ELSE muted \cup call[c].tracks
          /\ sfuMuted' \in {sfuMuted, IF Current(c) THEN to ELSE sfuMuted}
          /\ UNCHANGED listed
    /\ UNCHANGED <<media, lists, link, stopped, held, capable, astray, due, calls, events>>

-----------------------------------------------------------------------------
(* The events *)

\* apply_permissions_updated: the capabilities first, then the active tracks
\* that lost theirs are stopped one by one.  The event task takes one event
\* after the other.
PermissionUpdated ==
    /\ events < Events /\ events' = events + 1 /\ call[Revoker].at = "idle"
    /\ capable' = ~capable
    /\ IF capable THEN Go(Revoker, "list") ELSE UNCHANGED call
    /\ UNCHANGED <<media, lists, link, flags, told, astray, due, doubt, calls, faults>>

RevokerLists ==
    /\ call[Revoker].at = "list"
    /\ IF call[Revoker].tracks = {}
       THEN /\ media = None
            /\ IF Active = {} THEN call' = [call EXCEPT ![Revoker] = IdleCall]
               ELSE call' = [call EXCEPT ![Revoker].tracks = Active]
       ELSE \E t \in call[Revoker].tracks :
               call' = [call EXCEPT ![Revoker].at = "stop", ![Revoker].track = t,
                                    ![Revoker].tracks = @ \ {t}]
    /\ UNCHANGED <<media, lists, link, flags, capable, told, astray, due, doubt, bounds>>

\* apply_publish_options: options are assigned anew and all is negotiated
\* again; a failure leaves the options.
OptionsChange ==
    /\ events < Events /\ events' = events + 1 /\ media = None /\ Active # {}
    /\ pubs' = Refreshed
    /\ astray' = (astray \/ Stays)
    /\ senders' \in {senders, Announced(senders)}
    /\ UNCHANGED <<media, retired, link, flags, capable, told, call, due, doubt, calls, faults>>

\* The publisher connects; its callback comes later.
PublisherConnects ==
    /\ ~connected /\ Range([i \in DOMAIN senders |-> senders[i].announced]) # {FALSE}
    /\ senders # <<>> /\ connected' = TRUE /\ notify' = TRUE
    /\ UNCHANGED <<media, lists, conn, restoring, flags, capable, told, call, astray, due, doubt, bounds>>

\* start_audio_pacing_if_connected
PacingStarts ==
    /\ notify /\ media = None /\ notify' = FALSE
    /\ held' = IF connected THEN held \ Active ELSE held
    /\ UNCHANGED <<media, lists, conn, connected, restoring, stopped, muted, capable, told, call,
                   astray, due, doubt, bounds>>

-----------------------------------------------------------------------------
(* The reconnect *)

\* A REJOIN or a MIGRATE has put a new connection into the slot; its join
\* response brings the capabilities.
Swap ==
    /\ restoring \in {"none", "failed"} /\ conn <= Swaps
    /\ conn' = conn + 1 /\ senders' = <<>> /\ connected' = FALSE
    /\ capable' \in BOOLEAN
    /\ sfuMuted' = TRUE /\ listed' = FALSE /\ restoring' = "swapped" /\ due' = TRUE
    /\ UNCHANGED <<media, pubs, retired, notify, flags, call, astray, doubt, bounds>>

\* The permission is looked at again.
Allowed == IF capable THEN pubs ELSE <<>>

\* Mutant: a publisher that has a sender was restored already.
MutMissing ==
    IF senders # <<>> THEN <<>> ELSE Filtered(pubs, {i \in DOMAIN pubs : IsActive(pubs[i].status)})

\* A publish after the swap can have added its sender first.
Missing ==
    Filtered(pubs, {i \in DOMAIN pubs : IsActive(pubs[i].status) /\ SenderOf(pubs[i].track) = {}})

\* restore_published_tracks, to the end of its negotiation, which can fail
\* before or after the senders were added.
RestoreAdds ==
    /\ restoring = "swapped" /\ media = None
    /\ stopped' = IF capable THEN stopped ELSE stopped \cup {pubs[i].track : i \in DOMAIN pubs}
    /\ LET all == senders \o [i \in DOMAIN Missing |->
                                 [track |-> Missing[i].track, announced |-> FALSE]]
       IN  \/ /\ Allowed = <<>>
              /\ pubs' = Allowed /\ restoring' = "none" /\ due' = FALSE
              /\ UNCHANGED <<media, senders, faults>>
           \/ /\ Allowed # <<>>
              /\ pubs' = Refreshed /\ media' = Restore /\ senders' = Announced(all)
              /\ restoring' = IF Active = {} THEN "stops" ELSE "sync"
              /\ due' = FALSE /\ UNCHANGED faults
           \/ /\ Allowed # <<>> /\ Active # {} /\ Fault
              /\ pubs' = Refreshed /\ senders' \in {senders, all} /\ restoring' = "failed"
              /\ UNCHANGED <<media, due>>
    /\ astray' = (astray \/ Stays \/ \E i \in DOMAIN pubs : ~capable /\ SenderOf(pubs[i].track) # {})
    /\ UNCHANGED <<retired, conn, connected, notify, muted, held, capable, told, call,
                   doubt, calls, events>>

\* A FAST reconnect keeps the publisher and restarts its ICE, which connects
\* anew.
FastBegins ==
    /\ restoring \in {"none", "failed"} /\ events < Events /\ events' = events + 1
    /\ restoring' = "fast"
    /\ UNCHANGED <<media, lists, conn, connected, notify, flags, capable, told, call, astray, due,
                   doubt, calls, faults>>

FastRestarts ==
    /\ restoring = "fast" /\ media = None /\ media' = Restore
    /\ senders' = Announced(senders) /\ connected' = (connected /\ Active = {})
    /\ restoring' = IF Active = {} THEN "stops" ELSE "sync"
    /\ UNCHANGED <<pubs, retired, conn, notify, flags, capable, told, call, astray, due,
                   doubt, bounds>>

\* sync_published_state; then every active publication is Published.
RestoreSyncs ==
    /\ restoring = "sync" /\ restoring' = "stops"
    /\ sfuMuted' = (Active \subseteq muted) /\ listed' = ~(Active \subseteq muted)
    /\ pubs' = AllPublished
    /\ astray' = (astray \/ (connected /\ ~notify /\ Active \cap held # {}))
    /\ doubt' = (doubt \/ \E p \in Procs : call[p].at = "answer")
    /\ UNCHANGED <<media, retired, senders, conn, connected, notify, flags, capable, call, due,
                   bounds>>

\* finish_pending_stops removes the publications whose stop the SFU did not
\* confirm.
Left == Filtered(pubs, {i \in DOMAIN pubs : IsActive(pubs[i].status)})

RestoreStops ==
    /\ restoring = "stops" /\ restoring' = "none" /\ Unlock
    /\ LET none == Len(Left) = Len(pubs) IN
       /\ sfuMuted' = IF none THEN sfuMuted ELSE Active = {}
       /\ listed' = (listed /\ (none \/ Active # {}))
       /\ pubs' = Left
       /\ held' = held \ {pubs[i].track : i \in {j \in DOMAIN pubs : ~IsActive(pubs[j].status)}}
       /\ astray' = (astray \/ \E i \in DOMAIN pubs :
                            ~IsActive(pubs[i].status) /\ SenderOf(pubs[i].track) # {})
    /\ doubt' = (doubt \/ \E p \in Procs : call[p].at = "answer")
    /\ UNCHANGED <<due, retired, senders, conn, connected, notify, stopped, muted, capable, call, bounds>>

\* A later request of the restore fails; the reconnect loop tries again.
RestoreFails ==
    /\ restoring \in {"fast", "sync", "stops"} /\ Fault
    /\ restoring' = "failed" /\ media' = IF media = Restore THEN None ELSE media
    /\ UNCHANGED <<lists, conn, connected, notify, flags, capable, told, call, astray, due, doubt,
                   calls, events>>

Next ==
    \/ \E c \in Callers : \/ \E t \in Tracks : PublishBegins(c, t) \/ StopBegins(c, t)
                          \/ PublishStep(c) \/ PublishDropped(c) \/ StopDropped(c)
                          \/ \E to \in BOOLEAN : MuteBegins(c, to)
                          \/ MuteSets(c) \/ MuteAnswers(c)
    \/ \E p \in Procs : StopLocks(p) \/ StopMutes(p)
    \/ PermissionUpdated \/ RevokerLists \/ OptionsChange \/ PublisherConnects \/ PacingStarts
    \/ Swap \/ RestoreAdds \/ FastBegins \/ FastRestarts \/ RestoreSyncs \/ RestoreStops
    \/ RestoreFails

Spec == Init /\ [][Next]_vars

-----------------------------------------------------------------------------
(* Properties. *)

\* No call is under way and no reconnect has to be finished.
Quiet == media = None /\ restoring = "none" /\ \A p \in Procs : call[p].at = "idle"

\* A publisher has one m-line for each publish option at most: a publish takes
\* over the sender that a stop has kept.
KeptSenderIsReused == ~astray => Len(senders) <= NumOptions

\* Without the permission nothing is published, also when it was revoked while
\* a publish or a reconnect was under way.
RevokedIsStopped == Quiet /\ ~capable => Active = {}

\* The hold of a new audio track ends once the publisher has connected, whether
\* it connects before, while or after the track is published.
HoldEnds ==
    Quiet /\ connected /\ ~notify /\ ~astray =>
        \A i \in DOMAIN pubs : pubs[i].status = "Published" => pubs[i].track \notin held

\* A published track has its sender in the current connection and the SFU
\* knows of it, whatever was published, stopped or replaced while a reconnect
\* swapped the connection.  Unless it is muted it is not muted at the SFU
\* either, nor missing from the tracks of the local participant, if no mute
\* crossed another request or failed.
PublishedIsHeard ==
    Quiet =>
        \A i \in {j \in DOMAIN pubs : pubs[j].status = "Published"} :
            /\ ~due /\ ~astray => \E k \in SenderOf(pubs[i].track) : senders[k].announced
            /\ ~doubt /\ pubs[i].track \notin muted => ~sfuMuted /\ listed
=============================================================================
