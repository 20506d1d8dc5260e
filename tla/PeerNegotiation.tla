-------------------------- MODULE PeerNegotiation --------------------------
(***************************************************************************)
(* The negotiation of the two peer connections of each SFU connection, and *)
(* the queues that hold the candidates of the SFU until a remote           *)
(* description is set.  The event loop of a connection answers offers,     *)
(* takes candidates, and offers when the SFU asks for it; publishes and    *)
(* reconnects offer too, one at a time under the media lock.  Each of them *)
(* can be dropped or aborted at an await, and a rejoin can replace the     *)
(* connection under them.  A candidate is a number, in the order the SFU   *)
(* sent it.                                                                *)
(***************************************************************************)
EXTENDS Naturals, Sequences

CONSTANTS
    MaxConns,      \* bound: connections
    MaxCandidates, \* bound: candidates that the SFU trickles
    MaxOffers      \* bound: offers of either side, and demands for one

VARIABLES
    active,      \* the connection in the slot
    remoteSet,   \* each peer connection: whether its remote description is set
    queue,       \* PendingIce: remote_set and pending of each CandidateQueue
    inbox,       \* frames of the SFU that the event loop has not read
    loop,        \* the event loop: its place and the candidates in its hands
    negotiating, \* the holder of the media lock, a loop or 0 for another task:
                 \* its place, its connection and the candidates in its hands
    answering,   \* connections whose SetPublisher reached the SFU
    trickled, offered,
    fate,        \* history: the candidates that each peer connection's queue took,
                 \* and those that were added, refused, or lost with their holder
    early,       \* history: connections whose queue was opened with no description
    undone       \* history: peer connections whose flush was dropped

peerVars == <<active, remoteSet, queue, inbox, loop, negotiating, answering, trickled, offered,
              fate, early, undone>>

Conns == 1..MaxConns
Peers == {"publisher", "subscriber"}
NoLock == [at |-> "free", conn |-> 0, by |-> 0, held |-> {}]
Reading == [at |-> "idle", peer |-> "subscriber", held |-> {}]
Off == [Reading EXCEPT !.at = "off"]

PeerTypeOK ==
    /\ active \in Conns /\ answering \subseteq Conns
    /\ \A c \in Conns : loop[c].at \in {"idle", "flush", "give", "answer", "add", "negotiate", "off"}
    /\ negotiating.at \in {"free", "offer", "sent", "flush", "give"}
    /\ trickled \in 0..MaxCandidates /\ offered \in 0..MaxOffers

PeerInit ==
    /\ active = 1 /\ remoteSet = [c \in Conns |-> [p \in Peers |-> FALSE]]
    /\ queue = [c \in Conns |-> [p \in Peers |-> [ready |-> FALSE, pending |-> {}]]]
    /\ inbox = [c \in Conns |-> <<>>] /\ loop = [c \in Conns |-> Reading]
    /\ negotiating = NoLock /\ answering = {}
    /\ trickled = 0 /\ offered = 0
    /\ fate = [c \in Conns |-> [p \in Peers |-> [taken |-> {}, added |-> {}, refused |-> {}, lost |-> {}]]]
    /\ early = {} /\ undone = {}

\* A connection that was replaced ignores what its SFU still sends.
Live(c) == c = active /\ loop[c].at # "off"

Arrives(c, frame) == inbox' = [inbox EXCEPT ![c] = Append(@, frame)]

\* The SFU offers to the subscriber, or changes the options or asks for an ICE
\* restart, upon which the client offers; and it trickles at any time, for the
\* publisher once it has an offer.
SfuAsks(c, kind) ==
    /\ Live(c) /\ offered < MaxOffers /\ offered' = offered + 1
    /\ Arrives(c, [kind |-> kind, peer |-> "subscriber", n |-> 0])
    /\ UNCHANGED <<active, remoteSet, queue, loop, negotiating, answering, trickled, fate, early, undone>>

SfuTrickles(c, p) ==
    /\ Live(c) /\ trickled < MaxCandidates /\ (p = "publisher" => c \in answering)
    /\ trickled' = trickled + 1
    /\ Arrives(c, [kind |-> "ice", peer |-> p, n |-> trickled'])
    /\ UNCHANGED <<active, remoteSet, queue, loop, negotiating, answering, offered, fate, early, undone>>

Reads(c, kind) ==
    /\ Live(c) /\ loop[c].at = "idle" /\ inbox[c] # <<>> /\ Head(inbox[c]).kind = kind
    /\ inbox' = [inbox EXCEPT ![c] = Tail(@)]

\* Mutant: a candidate is queued although the queue was flushed.
MutQueueIsReady(c, p) == FALSE
\* CandidateQueue::offer asks under the lock of the queue.
QueueIsReady(c, p) == queue[c][p].ready

\* PendingIce::add_remote
LoopTakesCandidate(c) ==
    /\ Reads(c, "ice")
    /\ LET p == Head(inbox[c]).peer
           n == Head(inbox[c]).n
       IN  /\ fate' = [fate EXCEPT ![c][p].taken = @ \cup {n}]
           /\ IF QueueIsReady(c, p)
              THEN loop' = [loop EXCEPT ![c] = [at |-> "add", peer |-> p, held |-> {n}]] /\ UNCHANGED queue
              ELSE queue' = [queue EXCEPT ![c][p].pending = @ \cup {n}] /\ UNCHANGED loop
    /\ UNCHANGED <<active, remoteSet, negotiating, answering, trickled, offered, early, undone>>

\* add_ice_candidate is refused without a remote description.
Given(c, p, held) ==
    fate' = IF remoteSet[c][p] THEN [fate EXCEPT ![c][p].added = @ \cup held]
            ELSE [fate EXCEPT ![c][p].refused = @ \cup held]

\* A candidate that is refused ends the loop.
LoopAdds(c) ==
    /\ loop[c].at = "add" /\ Given(c, loop[c].peer, loop[c].held)
    /\ loop' = [loop EXCEPT ![c] = IF remoteSet[c][loop[c].peer] THEN Reading ELSE Off]
    /\ UNCHANGED <<active, remoteSet, queue, inbox, negotiating, answering, trickled, offered, early, undone>>

\* negotiate_subscriber: the description of the SFU is set, or refused.
LoopTakesOffer(c) ==
    /\ Reads(c, "offer")
    /\ \/ /\ remoteSet' = [remoteSet EXCEPT ![c]["subscriber"] = TRUE]
          /\ loop' = [loop EXCEPT ![c].at = "flush"]
       \/ UNCHANGED remoteSet /\ loop' = [loop EXCEPT ![c] = Off]
    /\ UNCHANGED <<active, queue, negotiating, answering, trickled, offered, fate, early, undone>>

\* CandidateQueue::mark_ready opens the queue, whether there is a description or not.
MarkReady(c, p) ==
    /\ queue' = [queue EXCEPT ![c][p] = [ready |-> TRUE, pending |-> {}]]
    /\ early' = IF remoteSet[c][p] THEN early ELSE early \cup {c}
    /\ undone' = undone \ {<<c, p>>}

\* PendingIce::flush: the queue is emptied, then its candidates are added.
LoopFlushes(c) ==
    /\ loop[c].at = "flush" /\ MarkReady(c, "subscriber")
    /\ loop' = [loop EXCEPT ![c].at = "give", ![c].held = queue[c]["subscriber"].pending]
    /\ UNCHANGED <<active, remoteSet, inbox, negotiating, answering, trickled, offered, fate>>

LoopGives(c) ==
    /\ loop[c].at = "give" /\ Given(c, "subscriber", loop[c].held)
    /\ loop' = [loop EXCEPT ![c] = [Reading EXCEPT !.at = "answer"]]
    /\ UNCHANGED <<active, remoteSet, queue, inbox, negotiating, answering, trickled, offered, early, undone>>

\* The answer is made and sent; any step of that can fail.
LoopAnswers(c) ==
    /\ loop[c].at = "answer"
    /\ \E next \in {Reading, Off} : loop' = [loop EXCEPT ![c] = next]
    /\ UNCHANGED <<active, remoteSet, queue, inbox, negotiating, answering, trickled, offered, fate,
                   early, undone>>

Offers(by) == negotiating' = [at |-> "offer", conn |-> active, by |-> by, held |-> {}]

\* A publish, the restore of a rejoin or a FAST, with publisher_handles under the
\* media lock; a closed connection cannot offer.
NegotiationBegins ==
    /\ negotiating = NoLock /\ offered < MaxOffers /\ offered' = offered + 1
    /\ Offers(0)
    /\ UNCHANGED <<active, remoteSet, queue, inbox, loop, answering, trickled, fate, early, undone>>

\* apply_publish_options and restart_publisher_ice, in the event loop.  With no
\* active track there is no offer; the restart then flushes all the same.
LoopNegotiates(c, kind) ==
    /\ Reads(c, kind) /\ negotiating = NoLock
    /\ \/ Offers(c) /\ loop' = [loop EXCEPT ![c].at = "negotiate"]
       \/ /\ kind = "restart" /\ loop' = [loop EXCEPT ![c].at = "negotiate"]
          /\ negotiating' = [at |-> "flush", conn |-> active, by |-> c, held |-> {}]
       \/ kind = "options" /\ UNCHANGED <<loop, negotiating>>
    /\ UNCHANGED <<active, remoteSet, queue, answering, trickled, offered, fate, early, undone>>

\* The connection of a negotiation is not torn down; the slot may hold another by now.
IsUp == negotiating.conn = active \/ loop[negotiating.conn].at # "off"

\* negotiate_publish: SetPublisher reaches the SFU; its answer may be lost.
SfuAnswers ==
    /\ negotiating.at = "offer" /\ IsUp
    /\ negotiating' = [negotiating EXCEPT !.at = "sent"]
    /\ answering' = answering \cup {negotiating.conn}
    /\ UNCHANGED <<active, remoteSet, queue, inbox, loop, trickled, offered, fate, early, undone>>

AppliesAnswer ==
    /\ negotiating.at = "sent" /\ IsUp
    /\ negotiating' = [negotiating EXCEPT !.at = "flush"]
    /\ remoteSet' = [remoteSet EXCEPT ![negotiating.conn]["publisher"] = TRUE]
    /\ UNCHANGED <<active, queue, inbox, loop, answering, trickled, offered, fate, early, undone>>

\* The holder of the lock lets go of it; a loop goes on, or ends with an error.
Releases(next) ==
    /\ negotiating' = NoLock
    /\ loop' = [c \in Conns |-> IF c = negotiating.by THEN next ELSE loop[c]]

\* The local offer is rolled back; the ICE gathering of a restart can time out
\* before there is an offer.
NegotiationFails ==
    /\ negotiating.at \in {"offer", "sent"} /\ Releases(Off)
    /\ UNCHANGED <<active, remoteSet, queue, inbox, answering, trickled, offered, fate, early, undone>>

\* flush_publisher_ice asks for the connection again.
FlushPublisherIce ==
    /\ negotiating.at = "flush" /\ MarkReady(active, "publisher")
    /\ negotiating' = [negotiating EXCEPT !.at = "give", !.conn = active,
                                          !.held = queue[active]["publisher"].pending]
    /\ UNCHANGED <<active, remoteSet, inbox, loop, answering, trickled, offered, fate>>

FlushGives ==
    /\ negotiating.at = "give" /\ Given(negotiating.conn, "publisher", negotiating.held)
    /\ Releases(Reading)
    /\ UNCHANGED <<active, remoteSet, queue, inbox, answering, trickled, offered, early, undone>>

\* What a dropped future had in its hands is lost, and its flush does not come.
Drops(c, p, at, held) ==
    /\ fate' = [fate EXCEPT ![c][p].lost = @ \cup held]
    /\ undone' = IF at = "flush" THEN undone \cup {<<c, p>>} ELSE undone

\* The future of a publish is dropped.
PublishIsDropped ==
    /\ negotiating.at # "free" /\ negotiating.by = 0 /\ negotiating' = NoLock
    /\ Drops(negotiating.conn, "publisher", negotiating.at, negotiating.held)
    /\ UNCHANGED <<active, remoteSet, queue, inbox, loop, answering, trickled, offered, early>>

\* The loop is aborted, wherever it is; a loop that negotiates holds nothing of its own.
LoopIsAborted(c, next) ==
    /\ loop' = [loop EXCEPT ![c] = next]
    /\ IF negotiating.by = c
       THEN /\ negotiating' = NoLock
            /\ Drops(negotiating.conn, "publisher", negotiating.at, negotiating.held)
       ELSE Drops(c, loop[c].peer, loop[c].at, loop[c].held) /\ UNCHANGED negotiating

\* reopen_fast_signal: the loop is aborted and another reads the new socket.
FastReopens(c) ==
    /\ c = active /\ LoopIsAborted(c, Reading)
    /\ inbox' = [inbox EXCEPT ![c] = <<>>]
    /\ UNCHANGED <<active, remoteSet, queue, answering, trickled, offered, early>>

\* join_once of a rejoin, which does not wait for the media lock, and the teardown
\* of the old connection after it.
Replaces ==
    /\ active < MaxConns /\ active' = active + 1
    /\ UNCHANGED <<remoteSet, queue, inbox, loop, negotiating, answering, trickled, offered, fate,
                   early, undone>>

TearsDown(c) ==
    /\ c < active /\ loop[c].at # "off" /\ LoopIsAborted(c, Off)
    /\ UNCHANGED <<active, remoteSet, queue, inbox, answering, trickled, offered, early>>

PeerNext ==
    \/ \E c \in Conns :
        \/ \E kind \in {"offer", "options", "restart"} : SfuAsks(c, kind)
        \/ \E kind \in {"options", "restart"} : LoopNegotiates(c, kind)
        \/ \E p \in Peers : SfuTrickles(c, p)
        \/ LoopTakesCandidate(c) \/ LoopAdds(c) \/ LoopTakesOffer(c) \/ LoopFlushes(c) \/ LoopGives(c)
        \/ LoopAnswers(c) \/ FastReopens(c) \/ TearsDown(c)
    \/ NegotiationBegins \/ SfuAnswers \/ AppliesAnswer \/ NegotiationFails \/ FlushPublisherIce
    \/ FlushGives \/ PublishIsDropped \/ Replaces

PeerSpec == PeerInit /\ [][PeerNext]_peerVars

-----------------------------------------------------------------------------

\* No flush of the peer connection is under way, and no candidate in any hands.
AtRest(c, p) ==
    /\ loop[c].at \in {"idle", "off"}
    /\ p = "publisher" => negotiating.at \notin {"flush", "give"}

\* A candidate that was taken reaches its peer connection once that has its remote
\* description, although trickles race with offers, publishes are dropped and
\* loops aborted at every await, and connections are replaced under them.  There
\* are three ways around it, and no others: the queue of a publisher was opened
\* with no description, and the candidate was refused; the flush after the
\* description was dropped, and no other has followed yet; a flush or an add was
\* dropped with the candidate in its hands.
CandidatesArrive ==
    \A c \in Conns, p \in Peers :
        /\ fate[c][p].refused # {} => p = "publisher" /\ c \in early
        /\ Live(c) /\ remoteSet[c][p] /\ AtRest(c, p) /\ <<c, p>> \notin undone
           => fate[c][p].taken = fate[c][p].added \cup fate[c][p].refused \cup fate[c][p].lost
=============================================================================
