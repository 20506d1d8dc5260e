---------------------------- MODULE CallingStates ---------------------------
(***************************************************************************)
(* What a call handle promises about CallingStateChanged events: the       *)
(* diagram of CallingState, and that each join is a new one.               *)
(***************************************************************************)
EXTENDS Integers

VARIABLES
    state,  \* the state of the last CallingStateChanged event
    joins   \* join() calls accepted so far

Init == state = "Idle" /\ joins = 0

\* join() is accepted only when the call is idle or left.
Begin == state \in {"Idle", "Left"} /\ state' = "Joining" /\ joins' = joins + 1

\* The join failed or was dropped, or it succeeded.
JoinEnds == state = "Joining" /\ state' \in {"Idle", "Joined"} /\ UNCHANGED joins

\* A connected call loses its connection.  A trigger that read Joined before a
\* reconnect of the same generation gave up starts one more reconnect after it.
Loses ==
    /\ state \in {"Joined", "ReconnectingFailed"}
    /\ state' \in {"Reconnecting", "Migrating"}
    /\ UNCHANGED joins

\* A reconnect changes its strategy, succeeds or gives up.
Recovers ==
    /\ state \in {"Reconnecting", "Migrating"}
    /\ state' \in {"Reconnecting", "Migrating", "Joined", "ReconnectingFailed"}
    /\ UNCHANGED joins

\* leave() succeeds from any state.
Departs == state' = "Left" /\ UNCHANGED joins

Next == Begin \/ JoinEnds \/ Loses \/ Recovers \/ Departs

Spec == Init /\ [][Next]_<<state, joins>>
=============================================================================
