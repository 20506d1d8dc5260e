----------------------------- MODULE MCRequests -----------------------------
(***************************************************************************)
(* The modules about what a client asks of the coordinator and of the SFU, *)
(* each checked on its own: part says which of them runs, and the          *)
(* variables of the others stay as they began.                             *)
(***************************************************************************)
EXTENDS JoinLoop, RateLimiter, UserTokens, HttpClient

CONSTANTS
    Sessions, Types, Policies, None, MaxEpochs, MaxSpent

VARIABLES
    part,
    world, sfu, wire, fastWire, participants, policy, subsActive, manualUnsub, activeSubs, delivered,
    conn, session, enabled, phase, doing, rpcs, track, spent, doubt, raced, late

subscribing == <<world, sfu, wire, fastWire, participants, policy, subsActive, manualUnsub, activeSubs,
                 delivered, conn, session, enabled, phase, doing, rpcs, track, spent, doubt, raced,
                 late>>

Subs == INSTANCE Subscriptions

\* What the user subscribes to: one track at most, everything, or a list.
Everything == [s \in Sessions |-> Types]
SomePolicies ==
    {[targets |-> None, rule |-> Everything, max |-> n] : n \in {1, 2}}
        \cup {[targets |-> {}, rule |-> Everything, max |-> 2]}

\* The other participants are interchangeable.
Symmetry == Permutations(Sessions)

SuiteInit ==
    /\ part \in {"join", "limiter", "subscriptions", "tokens", "http"}
    /\ Init /\ LimiterInit /\ TokensInit
    /\ Subs!Init /\ (part # "subscriptions" => /\ \A s \in Sessions : world[s] = {None}
                                               /\ policy = CHOOSE p \in Policies : TRUE)
    /\ HttpInit /\ (part # "http" => /\ method = "GET"
                                      /\ retry = CHOOSE c \in Configs : TRUE)

SuiteNext ==
    /\ UNCHANGED part
    /\ \/ part = "join" /\ Next
          /\ UNCHANGED <<limiterVars, subscribing, tokensVars, httpVars>>
       \/ part = "limiter" /\ LimiterNext
          /\ UNCHANGED <<vars, subscribing, tokensVars, httpVars>>
       \/ part = "subscriptions" /\ Subs!Next
          /\ UNCHANGED <<vars, limiterVars, tokensVars, httpVars>>
       \/ part = "tokens" /\ TokensNext
          /\ UNCHANGED <<vars, limiterVars, subscribing, httpVars>>
       \/ part = "http" /\ HttpNext
          /\ UNCHANGED <<vars, limiterVars, subscribing, tokensVars>>

Suite ==
    SuiteInit /\ [][SuiteNext]_<<part, vars, limiterVars, subscribing, tokensVars, httpVars>>

\* The workers of the join loop report bad edges; with the types of the variables
\* of every module here.
EdgesAreReported ==
    TypeOK /\ LimiterTypeOK /\ TokensTypeOK /\ HttpTypeOK /\ BadEdgesAreReported

\* The client knows what it is subscribed to.
Agrees == part = "subscriptions" => Subs!TypeOK /\ Subs!Agrees

\* The subscriptions become those that the policy calls for.
SubscriptionsSettle == part = "subscriptions" => Subs!SubscriptionsSettle

\* A track in use was not taken for a dropped one.
HeldIsWanted == part = "subscriptions" => Subs!HeldIsWanted

\* The participants become those of the SFU.
ParticipantsFollow == part = "subscriptions" => Subs!ParticipantsFollow
=============================================================================
