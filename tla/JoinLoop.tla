------------------------------ MODULE JoinLoop ------------------------------
(***************************************************************************)
(* The attempts of one join (join_loop, evaluate_join_failure): the retry  *)
(* budget, the one retry with a refreshed token, and the edges that the    *)
(* coordinator is asked to avoid.  Cancellation is RtcLifecycle's subject: *)
(* there this whole module is the two places attempt and establish.        *)
(***************************************************************************)
EXTENDS Naturals, SequencesExt

CONSTANTS
    Edges,      \* SFU edges that the coordinator may answer with
    NoEdge,     \* the attempt failed before the coordinator named an edge
    MaxRetries  \* JoinCallData.max_join_retries, as configured: 0 counts as 1

ASSUME EdgesAssumption == NoEdge \notin Edges
ASSUME RetriesAssumption == MaxRetries \in Nat

VARIABLES
    at,            \* request, asked, failed, refresh, or the end: joined, error
    attempt,       \* of the for loop
    edgeFailures,  \* edge_failures
    confirmed,     \* confirmed_bad_sfus
    migratingFrom, \* migrating_from
    refreshed,     \* expired_retry_used
    failure,       \* the error of the last join_once and its edge
    requests       \* history: calls of join_once, counted up to one too many

vars == <<at, attempt, edgeFailures, confirmed, migratingFrom, refreshed, failure, requests>>

Budget == IF MaxRetries = 0 THEN 1 ELSE MaxRetries

\* What the loop tells apart in an error.  An API error with the code of an
\* expired token can be unrecoverable too.
Kind == {"plain", "joinCode", "unrecoverable", "expired", "expiredUnrecoverable"}

Expired == {"expired", "expiredUnrecoverable"}
Unrecoverable == {"unrecoverable", "expiredUnrecoverable"}

TypeOK ==
    /\ at \in {"request", "failed", "refresh", "joined", "error"}
    /\ attempt \in 0..Budget - 1
    /\ edgeFailures \in [Edges -> Nat]
    /\ confirmed \in Seq(Edges)
    /\ migratingFrom \in Edges \cup {NoEdge}
    /\ refreshed \in BOOLEAN
    /\ failure \in [kind : Kind, edge : Edges \cup {NoEdge}]
    /\ requests \in 0..Budget + 2

Init ==
    /\ at = "request" /\ attempt = 0
    /\ edgeFailures = [e \in Edges |-> 0]
    /\ confirmed = <<>> /\ migratingFrom = NoEdge
    /\ refreshed = FALSE
    /\ failure = [kind |-> "plain", edge |-> NoEdge]
    /\ requests = 0

Requested == requests' = IF requests < Budget + 2 THEN requests + 1 ELSE requests

\* join_once with the request built from migrating_from and confirmed_bad_sfus.
JoinOnceSucceeds ==
    /\ at = "request"
    /\ at' = "joined" /\ Requested
    /\ UNCHANGED <<attempt, edgeFailures, confirmed, migratingFrom, refreshed, failure>>

\* Mutant: the retry with a refreshed token is not used up.
MutRetriesExpired(k) == k \in Expired

RetriesExpired(k) == k \in Expired /\ ~refreshed

\* The SFU answers with its join codes, so an edge is known with them.
JoinOnceFails ==
    /\ at = "request"
    /\ \E k \in Kind, e \in Edges \cup {NoEdge} :
        /\ k = "joinCode" => e # NoEdge
        /\ failure' = [kind |-> k, edge |-> e]
        /\ at' = IF RetriesExpired(k) THEN "refresh" ELSE "failed"
    /\ Requested
    /\ UNCHANGED <<attempt, edgeFailures, confirmed, migratingFrom, refreshed>>

\* refresh_expired_user_token: a failure ends the join, success repeats the attempt.
TokenRefreshed ==
    /\ at = "refresh"
    /\ \/ at' = "request" /\ refreshed' = TRUE
       \/ at' = "error" /\ UNCHANGED refreshed
    /\ UNCHANGED <<attempt, edgeFailures, confirmed, migratingFrom, failure, requests>>

Edge == failure.edge
Counted == IF Edge = NoEdge THEN edgeFailures ELSE [edgeFailures EXCEPT ![Edge] = @ + 1]
Failures == IF Edge = NoEdge THEN 1 ELSE Counted[Edge]

\* Mutant: only a join code of the SFU switches the edge.
MutSwitchesSfu == failure.kind = "joinCode"

SwitchesSfu == failure.kind = "joinCode" \/ Failures >= 2

LastAttempt == attempt + 1 >= Budget

\* evaluate_join_failure and what the loop does with its outcome.
Evaluated ==
    /\ at = "failed"
    /\ edgeFailures' = Counted
    /\ IF failure.kind \in Unrecoverable \/ LastAttempt
       THEN at' = "error" /\ UNCHANGED <<attempt, confirmed, migratingFrom>>
       ELSE /\ at' = "request" /\ attempt' = attempt + 1
            /\ IF SwitchesSfu /\ Edge # NoEdge
               THEN /\ migratingFrom' = Edge
                    /\ confirmed' = IF Contains(confirmed, Edge) THEN confirmed
                                    ELSE Append(confirmed, Edge)
               ELSE UNCHANGED <<confirmed, migratingFrom>>
    /\ UNCHANGED <<refreshed, failure, requests>>

Next == JoinOnceSucceeds \/ JoinOnceFails \/ TokenRefreshed \/ Evaluated

Spec == Init /\ [][Next]_vars

\* Every join_once and every sleep ends.
FairSpec == Spec /\ WF_vars(Next)

-----------------------------------------------------------------------------
(* Properties. *)

\* A join asks at most one time more than max_join_retries, whatever mix of
\* expired tokens and other errors it meets.
RequestBudget == requests <= Budget + (IF refreshed THEN 1 ELSE 0)

\* An edge that failed twice is on the list of every later request, once.
BadEdgesAreReported ==
    at \in {"request", "joined"} =>
        /\ \A e \in Edges : edgeFailures[e] >= 2 => Contains(confirmed, e)
        /\ \A i, k \in DOMAIN confirmed : i # k => confirmed[i] # confirmed[k]
        /\ migratingFrom # NoEdge => Contains(confirmed, migratingFrom)

\* The join ends.
JoinEnds == <>(at \in {"joined", "error"})
=============================================================================
