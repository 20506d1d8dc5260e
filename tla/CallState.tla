----------------------------- MODULE CallState -----------------------------
(***************************************************************************)
(* The participants a call knows, and the events that tell the application *)
(* about them.  The SFU reports changes on the event stream; a handler     *)
(* applies one to the list, recomputes the subscriptions (an await), and   *)
(* only then broadcasts it.  A join response of a reconnect replaces the   *)
(* list and broadcasts the differences, while the event loop of the old    *)
(* connection may stand in such an await.  roster is what an application   *)
(* that folds the events would show.                                       *)
(*                                                                         *)
(* Left out: the order of the list, pins, counts and grants, the leave     *)
(* that clears the list.  One mark, speaking, stands for the fields that   *)
(* have events of their own; paused stands for the reports about known     *)
(* sessions only.                                                          *)
(***************************************************************************)
EXTENDS Integers, Sequences, Functions

CONSTANTS
    Remotes,        \* the sessions of the other participants
    Locals,         \* the local sessions, one after the other: a sequence that is longer than
                    \* MaxResponses
    MaxReports,     \* bound: events the SFU sends
    MaxResponses    \* bound: join responses after the first

VARIABLES
    truth,          \* what the SFU knows of the remote participants
    reports,        \* how many events it sent
    wire,           \* conn -> the events sent on it that no handler took
    handling,       \* conn -> the event whose handler awaits, if any
    loop,           \* conn -> its event loop runs
    responses,      \* join responses after the first
    resumed,        \* the last of them was of a FAST reconnect
    local,          \* index of the local session of the last response
    before,         \* and of the one it replaced
    known,          \* participants: session -> its entry
    roster,         \* what the events told
    misreported     \* sessions of which an event was lost or overtaken

stateVars == <<truth, reports, wire, handling, loop, responses, resumed, local, before, known,
               roster, misreported>>

Conns == {"old", "new"}
Sessions == Remotes \cup Range(Locals)
Info == [data : {"none", "first", "second"}, video : BOOLEAN, speaking : BOOLEAN]
Entry == [info : Info, paused : BOOLEAN]
Nobody == <<>>
Default == [data |-> "none", video |-> FALSE, speaking |-> FALSE]
NoReport == [type |-> "none"]
Reports == {"joined", "left", "updated", "published", "unpublished"}

IsPartial(f, S, T) == DOMAIN f \subseteq S /\ Range(f) \subseteq T

TypeOK ==
    /\ IsPartial(truth, Remotes, Info)
    /\ reports \in 0..MaxReports /\ responses \in 0..MaxResponses
    /\ resumed \in BOOLEAN /\ loop \in [Conns -> BOOLEAN]
    /\ local \in DOMAIN Locals /\ before \in DOMAIN Locals
    /\ IsPartial(known, Sessions, Entry)
    /\ IsPartial(roster, Sessions, Info)
    /\ misreported \subseteq Remotes
    /\ \A c \in Conns : handling[c] = NoReport \/ handling[c].type \in Reports

Init ==
    /\ truth = Nobody /\ reports = 0
    /\ wire = [c \in Conns |-> <<>>]
    /\ handling = [c \in Conns |-> NoReport]
    /\ loop = [c \in Conns |-> c = "new"]
    /\ responses = 0 /\ resumed = FALSE
    /\ local = 1 /\ before = 1
    /\ known = [s \in {Locals[1]} |-> [info |-> Default, paused |-> FALSE]]
    /\ roster = Nobody
    /\ misreported = {}

Without(f, s) == Restrict(f, DOMAIN f \ {s})
With(f, s, x) == [t \in DOMAIN f \cup {s} |-> IF t = s THEN x ELSE f[t]]

-----------------------------------------------------------------------------
(* The SFU.                                                                *)

Tell(report) ==
    /\ reports < MaxReports
    /\ reports' = reports + 1
    /\ wire' = [wire EXCEPT !["new"] = Append(@, report)]
    /\ UNCHANGED <<handling, loop, responses, resumed, local, before, known, roster, misreported>>

Enter(s) ==
    LET info == [Default EXCEPT !.data = "first"]
    IN  /\ s \notin DOMAIN truth
        /\ truth' = With(truth, s, info)
        /\ Tell([type |-> "joined", who |-> s, info |-> info])

Exit(s) ==
    /\ s \in DOMAIN truth
    /\ truth' = Without(truth, s)
    /\ Tell([type |-> "left", who |-> s])

Rename(s) ==
    /\ s \in DOMAIN truth /\ truth[s].data = "first"
    /\ truth' = [truth EXCEPT ![s].data = "second"]
    /\ Tell([type |-> "updated", who |-> s, info |-> truth'[s]])

Publish(s) ==
    /\ s \in DOMAIN truth
    /\ truth' = [truth EXCEPT ![s].video = ~@]
    /\ Tell([type |-> IF truth[s].video THEN "unpublished" ELSE "published", who |-> s])

Speak(s) ==
    /\ s \in DOMAIN truth
    /\ truth' = [t \in DOMAIN truth |-> [truth[t] EXCEPT !.speaking = t = s]]
    /\ Tell([type |-> "speaking", who |-> s])

Pause(s) ==
    /\ s \in DOMAIN truth
    /\ Tell([type |-> "paused", who |-> s])
    /\ UNCHANGED truth

-----------------------------------------------------------------------------
(* The handlers.                                                           *)

\* upsert_participant: the pause of an entry is kept.
Upserted(f, s, info) ==
    With(f, s, [info |-> info, paused |-> s \in DOMAIN f /\ f[s].paused])

EntryOf(f, s) == IF s \in DOMAIN f THEN f[s] ELSE [info |-> Default, paused |-> FALSE]

\* An announcement of a track makes an entry for a session that is not known; its
\* end, the audio levels and the inbound state change the entries there are.
TrackAdded(f, s) == With(f, s, [EntryOf(f, s) EXCEPT !.info.video = TRUE])
TrackRemoved(f, s) == IF s \in DOMAIN f THEN [f EXCEPT ![s].info.video = FALSE] ELSE f
Spoke(f, s) == [t \in DOMAIN f |-> [f[t] EXCEPT !.info.speaking = t = s]]
PausedBy(f, s) == IF s \in DOMAIN f THEN [f EXCEPT ![s].paused = TRUE] ELSE f

\* What the report changes in the list.
Applied(f, report) ==
    CASE report.type \in {"joined", "updated"} -> Upserted(f, report.who, report.info)
      [] report.type = "left" -> Without(f, report.who)
      [] report.type = "published" -> TrackAdded(f, report.who)
      [] report.type = "unpublished" -> TrackRemoved(f, report.who)
      [] report.type = "speaking" -> Spoke(f, report.who)
      [] report.type = "paused" -> PausedBy(f, report.who)

Other(c) == IF c = "old" THEN "new" ELSE "old"
Handles(c, s) == handling[c] # NoReport /\ handling[c].who = s
Handled(c) == IF handling[c] = NoReport THEN {} ELSE {handling[c].who}

\* handle_event up to its await: the loop of a FAST reconnect starts when the
\* old one is gone, that of a REJOIN or MIGRATE runs beside it.
Handle(c) ==
    LET report == Head(wire[c])
    IN  /\ loop[c] /\ handling[c] = NoReport /\ wire[c] # <<>>
        /\ c = "new" /\ resumed => ~loop["old"]
        /\ wire' = [wire EXCEPT ![c] = Tail(@)]
        /\ known' = Applied(known, report)
        /\ handling' = IF report.type \in Reports THEN [handling EXCEPT ![c] = report]
                       ELSE handling
        /\ misreported' = IF report.type \in Reports /\ Handles(Other(c), report.who)
                     THEN misreported \cup {report.who} ELSE misreported
        /\ UNCHANGED <<truth, reports, loop, responses, resumed, local, before, roster>>

\* The roster of an application that heard the report.
Heard(r, report) ==
    LET s == report.who
        told == IF s \in DOMAIN r THEN r[s] ELSE Default
    IN  CASE report.type \in {"joined", "updated"} -> With(r, s, report.info)
          [] report.type = "left" -> Without(r, s)
          [] report.type = "published" -> With(r, s, [told EXCEPT !.video = TRUE])
          [] report.type = "unpublished" ->
               IF s \in DOMAIN r THEN [r EXCEPT ![s].video = FALSE] ELSE r

\* The subscriptions are recomputed: the event is broadcast.
Broadcast(c) ==
    /\ handling[c] # NoReport
    /\ roster' = Heard(roster, handling[c])
    /\ handling' = [handling EXCEPT ![c] = NoReport]
    /\ UNCHANGED <<truth, reports, wire, loop, responses, resumed, local, before, known, misreported>>

\* The request for the subscriptions fails, or the loop is aborted in it: the
\* loop ends and its event is not broadcast.
EndLoop(c) ==
    /\ loop[c]
    /\ c = "new" => handling[c] # NoReport
    /\ loop' = [loop EXCEPT ![c] = FALSE]
    /\ handling' = [handling EXCEPT ![c] = NoReport]
    /\ misreported' = misreported \cup Handled(c)
    /\ wire' = IF c = "old" THEN [wire EXCEPT ![c] = <<>>] ELSE wire
    /\ UNCHANGED <<truth, reports, responses, resumed, local, before, known, roster>>

-----------------------------------------------------------------------------
(* A join response.                                                        *)

\* The fields that have events of their own do not make a participant changed.
SameBut(a, b) == a.data = b.data /\ a.video = b.video

\* The sessions that joined, changed or left since the list was last written.
New(listed) == DOMAIN listed \ DOMAIN known
Changed(listed) == {s \in DOMAIN listed \cap DOMAIN known : ~SameBut(known[s].info, listed[s])}

\* Mutant: only those who are new and those who changed are reported.
MutGone(listed) == {}

Gone(listed) == DOMAIN known \ DOMAIN listed

\* The roster after the events of the response; the local sessions have none.
Reported(listed, own) ==
    LET told == (New(listed) \cup Changed(listed)) \ own
        gone == Gone(listed) \ own
    IN  [s \in (DOMAIN roster \cup told) \ gone |-> IF s \in told THEN listed[s] ELSE roster[s]]

\* apply_join_call_state_if_current.  A FAST reconnect and a MIGRATE keep the
\* session, a REJOIN takes a new one, whose predecessor the SFU may still list;
\* the list of a large call is truncated.
Respond(fast, rejoin, lingers, left) ==
    LET me == IF rejoin THEN local + 1 ELSE local
        own == {Locals[me], Locals[local]}
        others == DOMAIN truth \ left
        listed == [s \in others \cup (IF lingers THEN own ELSE {Locals[me]}) |->
                      IF s \in others THEN truth[s] ELSE Default]
    IN  /\ responses < MaxResponses
        /\ ~loop["old"]
        /\ fast => ~rejoin /\ left = {}
        /\ lingers => rejoin
        /\ responses' = responses + 1
        /\ local' = me /\ before' = local
        /\ resumed' = fast
        /\ known' = [s \in DOMAIN listed |-> [info |-> listed[s], paused |-> FALSE]]
        /\ roster' = Reported(listed, own)
        /\ misreported' = misreported \cup Handled("new")
        /\ wire' = [old |-> IF loop["new"] THEN wire["new"] ELSE <<>>, new |-> <<>>]
        /\ handling' = [old |-> handling["new"], new |-> NoReport]
        /\ loop' = [old |-> loop["new"], new |-> TRUE]
        /\ UNCHANGED <<truth, reports>>

Next ==
    \/ \E s \in Remotes : Enter(s) \/ Exit(s) \/ Rename(s) \/ Publish(s) \/ Speak(s) \/ Pause(s)
    \/ \E c \in Conns : Handle(c) \/ Broadcast(c) \/ EndLoop(c)
    \/ \E fast, rejoin, lingers \in BOOLEAN, left \in SUBSET Remotes :
           Respond(fast, rejoin, lingers, left)

Spec == Init /\ [][Next]_stateVars

-----------------------------------------------------------------------------
(* Properties.                                                             *)

\* An application that keeps its own list from the events shows the
\* participants that the call knows, with their data and tracks, except those
\* whose event waits for its broadcast and those of which an event was lost or
\* overtaken in such a wait; and it never hears of the two local sessions of a
\* REJOIN.
RosterFollows ==
    /\ \A s \in Remotes \ misreported :
           (\A c \in Conns : ~Handles(c, s)) =>
               /\ s \in DOMAIN roster <=> s \in DOMAIN known
               /\ s \in DOMAIN roster => SameBut(roster[s], known[s].info)
    /\ {Locals[local], Locals[before]} \cap DOMAIN roster = {}
=============================================================================
