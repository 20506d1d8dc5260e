----------------------------- MODULE HttpClient -----------------------------
(***************************************************************************)
(* One request of the HTTP client: its attempts, what an answer becomes,   *)
(* the bounded read of a body, and the waits between attempts.  Waits are  *)
(* seconds, sizes are chunks of the body.                                  *)
(***************************************************************************)
EXTENDS Integers, FiniteSetsExt

CONSTANTS
    MaxTries, \* bound: the largest max_attempts
    Backoffs, \* max_backoff
    BodyLimit \* max_response_body_bytes

VARIABLES
    retry,   \* RetryConfig, and who asks: the server token or a user
    method,
    attemptNo, \* attempt of request
    step,    \* the place of request: send, body, wait, ok, err
    answer,  \* the answer that is being read
    body,    \* bytes read of it
    lastError, \* the error of the last attempt
    sends,   \* history: requests sent
    waited   \* history: seconds slept

httpVars == <<retry, method, attemptNo, step, answer, body, lastError, sends, waited>>

Configs ==
    [enabled : BOOLEAN, tries : 0..MaxTries, backoff : Backoffs, user : BOOLEAN]

\* The status of a response, what its body says, and the Retry-After header.
\* declared: its Content-Length, -1 for none.  An envelope may name a status of
\* its own.
Answers ==
    {a \in [status : {200, 429, 500}, parses : BOOLEAN, named : {0, 429, 500},
            unrecoverable : BOOLEAN, hint : {-1, 2}, declared : {-1, BodyLimit + 1}] :
        a.parses \/ (a.named = 0 /\ ~a.unrecoverable)}
NoAnswer == [status |-> 0, parses |-> FALSE, named |-> 0, unrecoverable |-> FALSE, hint |-> -1,
             declared |-> -1]
NoFailure == [kind |-> "none", status |-> 0, unrecoverable |-> FALSE, hint |-> -1]
Failure(kind) == [NoFailure EXCEPT !.kind = kind]

HttpTypeOK ==
    /\ method \in {"GET", "POST"} /\ attemptNo \in 0..MaxTries
    /\ step \in {"send", "body", "wait", "ok", "err"} /\ body \in 0..BodyLimit
    /\ lastError.kind \in {"none", "transport", "serde", "large", "api"}

HttpInit ==
    /\ retry \in Configs /\ method \in {"GET", "POST"}
    /\ attemptNo = 0 /\ step = "send" /\ answer = NoAnswer /\ body = 0 /\ lastError = NoFailure
    /\ sends = 0 /\ waited = 0

\* build_api_error: an envelope that names no status gets that of the response;
\* the hint of the header counts for a response of 429 only.
ApiError ==
    [kind |-> "api",
     status |-> IF answer.parses /\ answer.named # 0 THEN answer.named ELSE answer.status,
     unrecoverable |-> answer.parses /\ answer.unrecoverable,
     hint |-> IF answer.status = 429 THEN answer.hint ELSE -1]

\* Error::is_retryable
Retryable(error) ==
    \/ error.kind = "transport"
    \/ error.kind = "api" /\ ~error.unrecoverable /\ error.status = 429

\* Mutant: the budget is checked before the attempt that is over is counted.
MutHasBudget == attemptNo < retry.tries
HasBudget == attemptNo + 1 < retry.tries

\* should_retry.  request_as_user has no loop.
ShouldRetry(error) ==
    /\ ~retry.user /\ retry.enabled /\ method = "GET" /\ HasBudget
    /\ Retryable(error)

\* The end of an attempt.
Fails(error) ==
    /\ lastError' = error /\ answer' = NoAnswer /\ body' = 0
    /\ step' = IF ShouldRetry(error) THEN "wait" ELSE "err"
    /\ UNCHANGED <<retry, method, attemptNo>>

\* attempt, request_as_user: the request goes out, and no response comes.
Unanswered ==
    /\ step = "send" /\ sends' = sends + 1
    /\ Fails(Failure("transport"))
    /\ UNCHANGED waited

\* read_response_body_limited: a length that is declared is checked first.
Answered(a) ==
    /\ step = "send" /\ sends' = sends + 1
    /\ IF a.declared > BodyLimit THEN Fails(Failure("large"))
       ELSE step' = "body" /\ answer' = a /\ UNCHANGED <<retry, method, attemptNo, body, lastError>>
    /\ UNCHANGED waited

\* A chunk of n bytes, whatever was declared; checked_body_size.
Chunk(n) ==
    /\ step = "body"
    /\ IF body + n > BodyLimit THEN Fails(Failure("large"))
       ELSE body' = body + n /\ UNCHANGED <<retry, method, attemptNo, step, answer, lastError>>
    /\ UNCHANGED <<sends, waited>>

BodyBreaks ==
    /\ step = "body" /\ Fails(Failure("transport"))
    /\ UNCHANGED <<sends, waited>>

\* The body is complete.
Complete ==
    /\ step = "body"
    /\ IF answer.status >= 399 THEN Fails(ApiError)
       ELSE IF ~answer.parses THEN Fails(Failure("serde"))
       ELSE step' = "ok" /\ UNCHANGED <<retry, method, attemptNo, answer, body, lastError>>
    /\ UNCHANGED <<sends, waited>>

\* retry_delay: the hint of the server, or up to 2^attempt seconds, never more
\* than max_backoff.
Delays ==
    IF lastError.hint >= 0 THEN {Min({lastError.hint, retry.backoff})}
    ELSE {d \in 0..retry.backoff : d <= 2 ^ attemptNo}

Sleeps(d) ==
    /\ step = "wait" /\ d \in Delays
    /\ waited' = waited + d /\ attemptNo' = attemptNo + 1 /\ step' = "send"
    /\ UNCHANGED <<retry, method, answer, body, lastError, sends>>

HttpNext ==
    \/ Unanswered \/ BodyBreaks \/ Complete
    \/ \E a \in Answers : Answered(a)
    \/ \E n \in 1..BodyLimit : Chunk(n)
    \/ \E d \in 0..Max(Backoffs) : Sleeps(d)

HttpSpec == HttpInit /\ [][HttpNext]_httpVars

-----------------------------------------------------------------------------

\* One call sends at most max_attempts requests, and one if it may not be
\* repeated; its waits, whatever a server asks for, add up to at most max_backoff
\* for each request after the first; and it gives up only over an error that
\* another attempt would not mend or with its attempts used up.
RetriesAreBounded ==
    LET may == retry.enabled /\ ~retry.user /\ method = "GET"
        budget == IF may THEN Max({1, retry.tries}) ELSE 1
    IN  /\ sends <= budget
        /\ waited <= attemptNo * retry.backoff
        /\ step = "err" /\ Retryable(lastError) => sends = budget
=============================================================================
