------------------------------ MODULE RestClient ------------------------------
(***************************************************************************)
(* The REST client of the exchange: KalshiRateLimiter, a token bucket that *)
(* all tasks share, and KalshiClient._request, which takes its tokens once *)
(* and retries with a growing pause.  One of the two buckets is modelled;  *)
(* a tick is the time in which it gains one token.                         *)
(***************************************************************************)
EXTENDS Integers

CONSTANTS
    Callers,    \* the tasks that send requests
    Burst,      \* tokens the bucket holds, and gains in a second
    Costs,      \* what a request may cost
    Retries,    \* max_retries
    MaxWindow   \* bound: ticks a window of the history lasts

ASSUME RestAssumption ==
    /\ Burst \in Nat \ {0}
    /\ Costs \subseteq Nat \ {0}
    /\ Retries \in Nat \ {0}
    /\ MaxWindow \in Nat

VARIABLES
    tokens,    \* _Bucket.tokens as of last_refill
    since,     \* ticks since last_refill, up to those that fill the bucket
    calls,     \* caller -> its request: where it is, cost, pause and attempt
    window,    \* history: ticks since a moment that is chosen anew at any time
    spent      \* history: tokens taken in this window

restVars == <<tokens, since, calls, window, spent>>

AtRest == [at |-> "idle", cost |-> 0, pause |-> 0, attempt |-> 0]

RestInit ==
    /\ tokens = Burst
    /\ since = 0
    /\ calls = [c \in Callers |-> AtRest]
    /\ window = 0
    /\ spent = 0

Lesser2(a, b) == IF a <= b THEN a ELSE b

\* Mutant of Refilled: the bucket overflows its capacity.
RefilledUncapped == tokens + since

\* _Bucket.refill.
Refilled == Lesser2(Burst, tokens + since)

Requests(c) ==
    /\ calls[c].at = "idle"
    /\ \E cost \in Costs :
         calls' = [calls EXCEPT ![c] = [AtRest EXCEPT !.at = "acquiring", !.cost = cost]]
    /\ UNCHANGED <<tokens, since, window, spent>>

Ready(c) == calls[c].at = "acquiring" /\ calls[c].pause = 0

\* _acquire, in the lock: the tokens are taken and the request goes out.
Acquires(c) ==
    /\ Ready(c)
    /\ Refilled >= calls[c].cost
    /\ tokens' = Refilled - calls[c].cost
    /\ since' = 0
    /\ spent' = spent + calls[c].cost
    /\ calls' = [calls EXCEPT ![c].at = "sent"]
    /\ UNCHANGED window

\* The lock is given back for the time the missing tokens take.
Waits(c) ==
    /\ Ready(c)
    /\ Refilled < calls[c].cost
    /\ tokens' = Refilled
    /\ since' = 0
    /\ calls' = [calls EXCEPT ![c].pause = calls[c].cost - Refilled]
    /\ UNCHANGED <<window, spent>>

\* An answer, or an error that is not retried.
Returns(c) ==
    /\ calls[c].at = "sent"
    /\ calls' = [calls EXCEPT ![c] = AtRest]
    /\ UNCHANGED <<tokens, since, window, spent>>

\* _BACKOFF_BASE_S * 2 ** attempt.
Backoff(attempt) == 2 ^ attempt

\* A 429, a server or a transport error: a pause, after the last attempt too.
Fails(c) ==
    /\ calls[c].at = "sent"
    /\ calls' = [calls EXCEPT ![c].at = "backoff", ![c].pause = Backoff(calls[c].attempt),
                              ![c].attempt = @ + 1]
    /\ UNCHANGED <<tokens, since, window, spent>>

\* The next attempt takes no tokens; after the last one the caller gets the
\* error.
Retried(c) ==
    /\ calls[c].at = "backoff" /\ calls[c].pause = 0
    /\ calls' = [calls EXCEPT ![c] = IF calls[c].attempt < Retries
                                     THEN [calls[c] EXCEPT !.at = "sent"] ELSE AtRest]
    /\ UNCHANGED <<tokens, since, window, spent>>

\* stats() refills the bucket to show it.
Shown ==
    /\ tokens' = Refilled
    /\ since' = 0
    /\ UNCHANGED <<calls, window, spent>>

\* A second's worth of ticks fills the bucket.
RestTick ==
    /\ window < MaxWindow
    /\ window' = window + 1
    /\ since' = Lesser2(Burst, since + 1)
    /\ calls' = [c \in Callers |->
         [calls[c] EXCEPT !.pause = IF @ > 0 THEN @ - 1 ELSE 0]]
    /\ UNCHANGED <<tokens, spent>>

\* The history starts a new window.
Marked ==
    /\ window' = 0
    /\ spent' = 0
    /\ UNCHANGED <<tokens, since, calls>>

CallerSteps(c) ==
    \/ Requests(c) \/ Acquires(c) \/ Waits(c)
    \/ Returns(c) \/ Fails(c) \/ Retried(c)

RestNext == Shown \/ RestTick \/ Marked \/ \E c \in Callers : CallerSteps(c)

\* Time passes, tasks that can go on do, and a window comes to its end.
RestFairness ==
    /\ WF_restVars(RestTick)
    /\ WF_restVars(window = MaxWindow /\ Marked)
    /\ \A c \in Callers : WF_restVars(Acquires(c) \/ Waits(c) \/ Returns(c) \/ Retried(c))

RestSpec == RestInit /\ [][RestNext]_restVars
FairRestSpec == RestSpec /\ RestFairness

-----------------------------------------------------------------------------
\* However the tasks interleave, wake up and are refused, over any span of time
\* the requests take no more tokens than the bucket holds and gains meanwhile.
RateHolds == spent <= Burst + window

\* "Wait until cost write tokens are available, then consume them": a request
\* that waits for its tokens is sent in the end.
RequestsAreSent == \A c \in Callers : (calls[c].at = "acquiring") ~> (calls[c].at = "sent")
=============================================================================
