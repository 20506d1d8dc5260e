----------------------------- MODULE UserTokens -----------------------------
(***************************************************************************)
(* The user token of a call: where it comes from, when it is loaded again, *)
(* and which checks it passes before it is used.  The joins and the        *)
(* reconnects of the call load it under one lock; a leave ends the         *)
(* generation of whoever is loading.  Times are seconds of the clock.      *)
(***************************************************************************)
EXTENDS Integers

CONSTANTS
    MaxLoads, \* bound: loads by joins and reconnect tasks
    Users,
    Kinds,    \* UserTokenSource: Static, Provider, ServerMinted
    Lifetime, \* expiration of a minted token; 0 for none
    Skew,     \* JWT_CLOCK_SKEW_SECONDS
    LastSecond       \* bound: the last second

VARIABLES
    clock,
    generation,  \* lifecycle.generation
    userOf,      \* the user of each generation
    joinUser,    \* join_data.user_id
    source,      \* token_source
    refreshLock, \* the holder of token_refresh
    userToken,   \* user_token
    load,        \* the loads: place, generation, kind of load, user and source read, token
    issued,      \* history: tokens that a source was asked for
    outdated     \* history: join_data or token_source of an overtaken join were stored

tokensVars == <<clock, generation, userOf, joinUser, source, refreshLock, userToken, load, issued,
          outdated>>

Never == LastSecond + Skew + Lifetime + 1
Nobody == "nobody"
Loaders == 1..MaxLoads
Unloaded == [n |-> 0, user |-> "nobody", exp |-> Never, early |-> FALSE, server |-> FALSE]
Idle == [at |-> "idle", gen |-> 0, user |-> "nobody", source |-> "Static", token |-> Unloaded,
         calls |-> 0]

\* The claims that the checks look at.  early: nbf or iat lies in the future.
Token(n, user, exp, early, server) ==
    [n |-> n, user |-> user, exp |-> exp, early |-> early, server |-> server]

\* create_user_token_at: no exp claim without a whole second of lifetime.
Minted(n, user) ==
    Token(n, user, IF Lifetime > 0 THEN clock + Lifetime ELSE Never, FALSE, FALSE)

\* A provider answers with a token of some user, expired, about to expire or
\* lasting, or with one that no check lets through.
Provided(n, user) ==
    {Token(n, user, exp, FALSE, FALSE) : exp \in {clock - Skew - 1, clock}}
        \cup {Token(n, u, Never, FALSE, FALSE) : u \in Users}
        \cup {Token(n, user, Never, TRUE, FALSE), Token(n, user, Never, FALSE, TRUE)}

\* validate_operational_token_at: the first check that fails, or none.
Error(t, user) ==
    IF t.user # user THEN "mismatch"
    ELSE IF t.server THEN "claims"
    ELSE IF t.exp < clock - Skew THEN "expired"
    ELSE IF t.early THEN "early" ELSE "none"

CanRefresh(kind) == kind # "Static"

TokensTypeOK ==
    /\ clock \in 0..LastSecond /\ generation \in Nat
    /\ refreshLock \in 0..MaxLoads
    /\ \A l \in Loaders : load[l].at \in {"idle", "begun", "wait", "load", "again", "got", "done", "error"}
    /\ source \in Kinds \cup {Nobody} /\ issued \in Nat

TokensInit ==
    /\ clock = 0 /\ generation = 0 /\ userOf = [g \in 0..MaxLoads |-> Nobody]
    /\ joinUser = Nobody /\ source = Nobody /\ refreshLock = 0
    /\ userToken = Unloaded /\ load = [l \in Loaders |-> Idle]
    /\ issued = 0 /\ outdated = FALSE

\* The join of the running generation loaded its token: only then its requests
\* and its reconnects run.
Joined == \E l \in Loaders : load[l].gen = generation /\ load[l].at = "done"

\* Loads are numbered in the order in which they begin.
Idles(l) == load[l].at = "idle" /\ \A k \in 1..(l - 1) : load[k].at # "idle"

Goes(l, place) == load' = [load EXCEPT ![l].at = place]
Returns(l, place) == load' = [load EXCEPT ![l] = [Idle EXCEPT !.at = place, !.gen = load[l].gen]]

\* begin_join of a call that was left.
JoinBegins(l, user, kind) ==
    /\ Idles(l)
    /\ generation' = generation + 1
    /\ userOf' = [userOf EXCEPT ![generation'] = user]
    /\ load' = [load EXCEPT ![l] = [Idle EXCEPT !.at = "begun", !.gen = generation',
                                                !.user = user, !.source = kind]]
    /\ UNCHANGED <<clock, joinUser, source, refreshLock, userToken, issued, outdated>>

\* join_with_token_source: both are stored with no look at the generation.
JoinStores(l) ==
    /\ load[l].at = "begun" /\ Goes(l, "wait")
    /\ joinUser' = load[l].user /\ source' = load[l].source
    /\ outdated' = (outdated \/ load[l].gen # generation)
    /\ UNCHANGED <<clock, generation, userOf, refreshLock, userToken, issued>>

\* refresh_before_full_reconnect of a reconnect task: a minted token is made
\* anew, another one only when it has expired.
FullReconnect(l) ==
    /\ Idles(l) /\ Joined
    /\ \/ source = "ServerMinted"
       \/ Error(userToken, joinUser) = "expired" /\ CanRefresh(source)
    /\ load' = [load EXCEPT ![l] = [Idle EXCEPT !.at = "wait", !.gen = generation]]
    /\ UNCHANGED <<clock, generation, userOf, joinUser, source, refreshLock, userToken, issued,
                   outdated>>

\* refresh_expired_user_token: the server refused the token.
ServerRefuses(l) ==
    /\ Idles(l) /\ Joined /\ CanRefresh(source)
    /\ load' = [load EXCEPT ![l] = [Idle EXCEPT !.at = "wait", !.gen = generation]]
    /\ UNCHANGED <<clock, generation, userOf, joinUser, source, refreshLock, userToken, issued,
                   outdated>>

\* Mutant: loads do not exclude one another.
MutMayLoad == TRUE
MayLoad == refreshLock = 0

\* reload_user_token: what the load reads is read under the lock.
LoadBegins(l) ==
    /\ load[l].at = "wait" /\ MayLoad
    /\ refreshLock' = l
    /\ issued' = issued + 1
    /\ load' = [load EXCEPT ![l].at = "load", ![l].user = joinUser, ![l].source = source,
                            ![l].token = [Unloaded EXCEPT !.n = issued + 1], ![l].calls = 1]
    /\ UNCHANGED <<clock, generation, userOf, joinUser, source, userToken, outdated>>

SourceAnswers(l) ==
    LET n == load[l].token.n
        user == load[l].user
    IN  CASE load[l].source = "Static" -> {Token(n, user, 0, FALSE, FALSE)}
          [] load[l].source = "Provider" -> Provided(n, user)
          [] load[l].source = "ServerMinted" -> {Minted(n, user)}

Unlocks(l) == refreshLock' = IF refreshLock = l THEN 0 ELSE refreshLock

\* load_with_expiry_retry: an expired token is loaded once more.
Retries(l, error) == error = "expired" /\ CanRefresh(load[l].source) /\ load[l].calls = 1

\* The source answers, or a provider fails.
Loaded(l) ==
    /\ load[l].at \in {"load", "again"}
    /\ \/ /\ load[l].source = "Provider" /\ Returns(l, "error") /\ Unlocks(l) /\ UNCHANGED issued
       \/ \E t \in SourceAnswers(l) :
            LET error == Error(t, load[l].user) IN
            IF error = "none"
            THEN load' = [load EXCEPT ![l].at = "got", ![l].token = t] /\ UNCHANGED <<refreshLock, issued>>
            ELSE IF Retries(l, error)
            THEN /\ load' = [load EXCEPT ![l].at = "again", ![l].calls = 2, ![l].token.n = issued + 1]
                 /\ issued' = issued + 1 /\ UNCHANGED refreshLock
            ELSE Returns(l, "error") /\ Unlocks(l) /\ UNCHANGED issued
    /\ UNCHANGED <<clock, generation, userOf, joinUser, source, userToken, outdated>>

IsCurrent(l) == load[l].gen = generation

Stores(l) ==
    /\ load[l].at = "got"
    /\ IF IsCurrent(l) THEN userToken' = load[l].token /\ Returns(l, "done")
       ELSE UNCHANGED userToken /\ Returns(l, "error")
    /\ Unlocks(l)
    /\ UNCHANGED <<clock, generation, userOf, joinUser, source, issued, outdated>>

\* while_generation: a load of an ended generation is dropped at its awaits.
Cancelled(l) ==
    /\ load[l].at \in {"wait", "load", "again"} /\ ~IsCurrent(l)
    /\ Returns(l, "error") /\ Unlocks(l)
    /\ UNCHANGED <<clock, generation, userOf, joinUser, source, userToken, issued, outdated>>

SecondPasses ==
    /\ clock < LastSecond /\ clock' = clock + 1
    /\ UNCHANGED <<generation, userOf, joinUser, source, refreshLock, userToken, load, issued,
                   outdated>>

TokensNext ==
    \/ \E l \in Loaders, u \in Users, k \in Kinds : JoinBegins(l, u, k)
    \/ \E l \in Loaders : \/ JoinStores(l) \/ FullReconnect(l) \/ ServerRefuses(l) \/ LoadBegins(l)
                          \/ Loaded(l) \/ Stores(l) \/ Cancelled(l)
    \/ SecondPasses

TokensSpec == TokensInit /\ [][TokensNext]_tokensVars

-----------------------------------------------------------------------------

\* A token is replaced only by one that its source was asked for later and that
\* passed the checks for the user of the running generation: a slow answer of
\* the provider, of this generation or of one that a leave ended, never takes
\* the place of a newer token.  (An overtaken join that stores its user over
\* that of its successor is a hazard of its own.)
NewestTokenStays ==
    [][userToken' # userToken =>
          /\ userToken'.n > userToken.n
          /\ outdated \/ userToken'.user = userOf[generation]]_tokensVars
=============================================================================
