----------------------------- MODULE SfuSocket -----------------------------
(***************************************************************************)
(* The socket to the SFU: the handshake of a join and of a FAST reconnect, *)
(* which resumes the session on a new socket under the old connection, and *)
(* the two tasks that read the socket and ping it.  A frame is what recv   *)
(* makes of it; events of the call are numbered in the order the SFU sent  *)
(* them.  Time is counted from the moment the request was sent.            *)
(***************************************************************************)
EXTENDS Naturals, Sequences

CONSTANTS
    MaxLinks,       \* bound: sockets opened
    MaxFrames,      \* bound: frames of the SFU
    ResponseTimeout \* join_response_timeout

VARIABLES
    opener,    \* establish or reopen_fast_signal: its place, socket and outcome
    waiting,   \* ticks since the request was sent
    wireOf,    \* frames of each socket that nobody has read
    sent,      \* frames that the SFU sent
    reader,    \* the socket that the event loop reads; 0 once it has ended
    pinger,    \* the same of ping_loop
    sender,    \* the socket that sfu_sender writes to
    wsHealthy, \* ws_healthy
    shown      \* history: events of the call, in the order they took effect

sfuVars == <<opener, waiting, wireOf, sent, reader, pinger, sender, wsHealthy, shown>>

Links == 1..MaxLinks
Handshaking == {"connect", "await", "answered", "abort", "swap", "store"}

\* What recv yields.  skip: a ping, a text or an event without a payload.  A
\* response resumes the session or does not; an error has a join error code, or
\* asks for a disconnect, or says that the participant is gone; control is an
\* offer, a candidate or a restart, which needs the RPCs of the SFU; bad is too
\* large, does not decode, or is a failed read.
Frames ==
    [kind : {"skip", "event", "control", "bad", "close"}] \cup [kind : {"response"}, resumed : BOOLEAN]
        \cup [kind : {"error"}, code : {"joinCode", "gone", "other"}, disconnect : BOOLEAN]

TypeOK ==
    /\ opener.at \in Handshaking \cup {"idle", "failed"} /\ waiting \in 0..(ResponseTimeout + 1)
    /\ reader \in 0..MaxLinks /\ pinger \in 0..MaxLinks /\ sender \in 0..MaxLinks
    /\ wsHealthy \in BOOLEAN /\ sent \in 0..MaxFrames

Init ==
    /\ opener = [at |-> "connect", socket |-> 1, fast |-> FALSE, outcome |-> "none"]
    /\ waiting = 0 /\ wireOf = [s \in Links |-> <<>>] /\ sent = 0
    /\ reader = 0 /\ pinger = 0 /\ sender = 0 /\ wsHealthy = FALSE /\ shown = <<>>

Opens(place) == opener' = [opener EXCEPT !.at = place]

\* A join that fails gives its connection up; a FAST leaves the old one as it is.
FailsWith(outcome) ==
    opener' = [opener EXCEPT !.at = IF opener.fast THEN "idle" ELSE "failed", !.outcome = outcome]

\* The join request is over the limit of a message, or the socket does not take it.
RequestFails == FailsWith("request")

\* connect_with_limit, then send_join within the limit of a message.
Connects ==
    /\ opener.at = "connect"
    /\ \/ Opens("await") /\ waiting' = 0
       \/ FailsWith("connection") /\ UNCHANGED waiting
       \/ RequestFails /\ UNCHANGED waiting
    /\ UNCHANGED <<wireOf, sent, reader, pinger, sender, wsHealthy, shown>>

\* The SFU sends to a socket whose request it has, and to the one before until it
\* has resumed the session on the new one.
Resumed ==
    \/ opener.at \in {"answered", "abort", "swap", "store"}
    \/ \E i \in DOMAIN wireOf[opener.socket] : wireOf[opener.socket][i].f.kind = "response"

SfuSends(f) ==
    /\ sent < MaxFrames /\ sent' = sent + 1
    /\ \E s \in Links :
        /\ \/ s = reader /\ (s = opener.socket \/ ~Resumed)
           \/ s = opener.socket /\ opener.at \in Handshaking \ {"connect"}
        /\ wireOf' = [wireOf EXCEPT ![s] = Append(@, [f |-> f, n |-> sent'])]
    /\ UNCHANGED <<opener, waiting, reader, pinger, sender, wsHealthy, shown>>

\* SfuJoinError: only a code without a disconnect sends the loop to another edge,
\* and only a FAST tells a session that is gone from other errors.
Refusal(f) ==
    IF f.disconnect THEN "unrecoverable"
    ELSE IF f.code = "gone" /\ opener.fast THEN "rejected" ELSE f.code

\* await_join_response
AwaitReads ==
    /\ opener.at = "await" /\ wireOf[opener.socket] # <<>>
    /\ wireOf' = [wireOf EXCEPT ![opener.socket] = Tail(@)]
    /\ LET f == Head(wireOf[opener.socket]).f IN
       CASE f.kind \in {"skip", "event", "control"} -> UNCHANGED opener
         [] f.kind = "response" /\ (f.resumed \/ ~opener.fast) -> Opens("answered")
         [] f.kind = "response" /\ opener.fast /\ ~f.resumed -> FailsWith("rejected")
         [] f.kind = "error" -> FailsWith(Refusal(f))
         [] f.kind \in {"bad", "close"} -> FailsWith("connection")
    /\ UNCHANGED <<waiting, sent, reader, pinger, sender, wsHealthy, shown>>

\* The deadline is ready once the time is up; a frame may be read first.
Due == opener.at = "await" /\ waiting = ResponseTimeout
TimesOut ==
    /\ Due /\ FailsWith("timeout")
    /\ UNCHANGED <<waiting, wireOf, sent, reader, pinger, sender, wsHealthy, shown>>

Tick ==
    /\ opener.at = "await" /\ ~Due /\ waiting' = waiting + 1
    /\ UNCHANGED <<opener, wireOf, sent, reader, pinger, sender, wsHealthy, shown>>

\* establish: the tasks of a new connection; its first event loop reads on from
\* the response.
JoinSpawns ==
    /\ opener.at = "answered" /\ ~opener.fast
    /\ reader' = opener.socket /\ pinger' = opener.socket /\ sender' = opener.socket
    /\ wsHealthy' = TRUE /\ Opens("idle")
    /\ UNCHANGED <<waiting, wireOf, sent, shown>>

\* reconnect_fast: a healthy socket is kept.
FastOpens ==
    /\ opener.at = "idle" /\ ~wsHealthy /\ opener.socket < MaxLinks
    /\ opener' = [at |-> "connect", socket |-> opener.socket + 1, fast |-> TRUE, outcome |-> "none"]
    /\ UNCHANGED <<waiting, wireOf, sent, reader, pinger, sender, wsHealthy, shown>>

\* reopen_fast_signal takes the old tasks from the connection and aborts them; a
\* task runs on to its next await.
FastTakes ==
    /\ opener.at = "answered" /\ opener.fast /\ Opens("abort")
    /\ UNCHANGED <<waiting, wireOf, sent, reader, pinger, sender, wsHealthy, shown>>

\* Mutant: the aborted tasks are not awaited.
MutEnds(task) == TRUE
\* abort_tasks returns when the tasks are gone.
Ends(task) == task = 0
TaskGone ==
    /\ opener.at = "abort"
    /\ \/ reader' = 0 /\ UNCHANGED pinger
       \/ pinger' = 0 /\ UNCHANGED reader
    /\ UNCHANGED <<opener, waiting, wireOf, sent, sender, wsHealthy, shown>>

FastSwaps ==
    /\ opener.at = "abort" /\ Ends(reader) /\ Ends(pinger)
    /\ sender' = opener.socket /\ Opens("swap")
    /\ UNCHANGED <<waiting, wireOf, sent, reader, pinger, wsHealthy, shown>>

FastStores ==
    /\ opener.at = "swap" /\ wsHealthy' = TRUE /\ Opens("store")
    /\ UNCHANGED <<waiting, wireOf, sent, reader, pinger, sender, shown>>

FastSpawns ==
    /\ opener.at = "store" /\ Opens("idle")
    /\ reader' = opener.socket /\ pinger' = opener.socket
    /\ UNCHANGED <<waiting, wireOf, sent, sender, wsHealthy, shown>>

\* rpc and the methods of SignalClient: an answer counts only with a status of
\* success, a body that is whole and decodes, and no error inside.
RpcOutcomes == {"ok", "transport", "tooLarge", "twirp", "decode", "signal"}

\* event_loop: a close, a failed read or a command that fails ends the loop.
LoopReads ==
    /\ reader # 0 /\ wireOf[reader] # <<>>
    /\ wireOf' = [wireOf EXCEPT ![reader] = Tail(@)]
    /\ LET e == Head(wireOf[reader]) IN
       \E outcome \in RpcOutcomes :
         /\ e.f.kind = "control" \/ outcome = "ok"
         /\ IF e.f.kind \in {"bad", "close"} \/ outcome # "ok"
            THEN wsHealthy' = FALSE /\ reader' = 0
            ELSE UNCHANGED <<wsHealthy, reader>>
         /\ shown' = IF e.f.kind = "event" THEN Append(shown, e.n) ELSE shown
    /\ UNCHANGED <<opener, waiting, sent, pinger, sender>>

\* ping_loop: sfu_sender cannot send.
PingFails ==
    /\ pinger # 0 /\ wsHealthy' = FALSE /\ pinger' = 0
    /\ UNCHANGED <<opener, waiting, wireOf, sent, reader, sender, shown>>

Next ==
    \/ Connects \/ AwaitReads \/ TimesOut \/ Tick \/ JoinSpawns
    \/ FastOpens \/ FastTakes \/ TaskGone \/ FastSwaps \/ FastStores \/ FastSpawns
    \/ LoopReads \/ PingFails
    \/ \E f \in Frames : SfuSends(f)

Spec == Init /\ [][Next]_sfuVars

-----------------------------------------------------------------------------

\* Between two handshakes the flag that a FAST reads tells the truth: it is set
\* exactly while one socket is read, pinged and written to, whatever the tasks of
\* the socket before it do last; and the events of the call take effect in the
\* order the SFU sent them, across the change of sockets.
HealthIsTrue ==
    /\ opener.at = "idle" =>
        /\ wsHealthy <=> (reader # 0 /\ pinger # 0)
        /\ wsHealthy => reader = sender /\ pinger = sender
    /\ \A i, j \in DOMAIN shown : i < j => shown[i] < shown[j]
=============================================================================
