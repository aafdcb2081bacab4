------------------------------- MODULE KalshiWs -------------------------------
(***************************************************************************)
(* The websocket client of the market data feed (feeds/kalshi/ws.py): one  *)
(* subscribe command per channel and the wait for its confirmation, the    *)
(* message loop, and run_forever, which reconnects and subscribes again.   *)
(*                                                                         *)
(* One task uses the client: it connects, subscribes to the channels of    *)
(* Wishes in order and calls run_forever.  A handler, called in the middle *)
(* of the loop or of a wait, may unsubscribe the channel of its event.     *)
(* Subscription ids are the server's and start again on every connection.  *)
(***************************************************************************)
EXTENDS Integers, Sequences, SequencesExt

CONSTANTS
    WantedChannels,  \* the channels the caller subscribes to, a sequence
    MaxAttempts,     \* max_reconnect_attempts
    MaxConnects      \* bound: connections made

\* subscribe() is given each channel once, as in the class's own usage.
ASSUME WsAssumption ==
    /\ WantedChannels \in Seq(STRING)
    /\ \A i, j \in DOMAIN WantedChannels : WantedChannels[i] = WantedChannels[j] => i = j
    /\ MaxAttempts \in Nat
    /\ MaxConnects \in Nat \ {0}

VARIABLES
    socket,    \* _ws: "none", "open", or "closed" by the other end
    feedAt,    \* what the task is doing
    todo,      \* channels still to be subscribed, the one asked for first
    subs,      \* _subscriptions, in order: the channel and its sid
    serves,    \* the server's subscriptions on this connection, in sid order
    attempt,   \* run_forever's attempt
    connects,  \* connections made
    dropped,   \* channels a handler has unsubscribed
    cutShort   \* a resubscription did not reach its end

wsVars == <<socket, feedAt, todo, subs, serves, attempt, connects, dropped, cutShort>>

Channels == ToSet(WantedChannels)

WsInit ==
    /\ socket = "none"
    /\ feedAt = "fresh"
    /\ todo = <<>>
    /\ subs = <<>>
    /\ serves = <<>>
    /\ attempt = 0
    /\ connects = 0
    /\ dropped = {}
    /\ cutShort = FALSE

Tracked == {subs[i].channel : i \in DOMAIN subs}

\* A new socket, on which the channels are asked for one after the other; only
\* when all are confirmed do the attempts start again.
Connected(channels, then) ==
    /\ connects < MaxConnects
    /\ connects' = connects + 1
    /\ socket' = "open"
    /\ serves' = <<>>
    /\ todo' = channels
    /\ feedAt' = IF channels = <<>> THEN "looping" ELSE then
    /\ attempt' = IF channels = <<>> THEN 0 ELSE attempt

\* connect() and the caller's own subscribe() calls.
FirstConnect ==
    /\ feedAt = "fresh"
    /\ Connected(WantedChannels, "subscribing")
    /\ UNCHANGED <<subs, dropped, cutShort>>

\* Mutant of Retracked: the list is not copied before it is cleared.
RetrackedUncopied == <<>>

\* _resubscribe_all works from a copy of the list, in its order.
Retracked == [i \in DOMAIN subs |-> subs[i].channel]

\* The next turn of run_forever, after its sleep: the old socket is forgotten,
\* open or not.
Reconnect ==
    /\ feedAt = "waiting"
    /\ Connected(Retracked, "resubscribing")
    /\ subs' = <<>>
    /\ UNCHANGED <<dropped, cutShort>>

\* An exception in the turn, or its end: the next attempt or the last.
TurnOver ==
    /\ attempt' = attempt + 1
    /\ feedAt' = IF attempt' > MaxAttempts THEN "failed" ELSE "waiting"

ConnectFails ==
    /\ feedAt = "waiting"
    /\ TurnOver
    /\ socket' = "none"
    /\ UNCHANGED <<todo, subs, serves, connects, dropped, cutShort>>

Asking == feedAt \in {"subscribing", "resubscribing"}

\* The command has reached the server and its confirmation comes: its place
\* among the server's subscriptions is the sid.
Confirmed ==
    /\ Asking
    /\ socket = "open"
    /\ serves' = Append(serves, Head(todo))
    /\ subs' = Append(subs, [channel |-> Head(todo), sid |-> Len(serves')])
    /\ todo' = Tail(todo)
    /\ IF todo' = <<>> THEN feedAt' = "looping" /\ attempt' = 0
                        ELSE UNCHANGED <<feedAt, attempt>>
    /\ UNCHANGED <<socket, connects, dropped, cutShort>>

\* The connection ends, the confirmation does not come in time (the server may
\* have acted on it), the command is refused, or a message in between cannot be
\* handled.  The caller's own subscribe() raises to it.
SubscribeFails ==
    /\ Asking
    /\ socket' \in {"open", "closed"}
    /\ serves' \in {serves, Append(serves, Head(todo))}
    /\ IF feedAt = "subscribing"
       THEN feedAt' = "failed" /\ UNCHANGED <<attempt, cutShort>>
       ELSE TurnOver /\ cutShort' = TRUE
    /\ todo' = <<>>
    /\ UNCHANGED <<subs, connects, dropped>>

\* An authentication error of the exchange ends run_forever.
Refused ==
    /\ feedAt \in {"resubscribing", "looping", "waiting"}
    /\ feedAt' = "failed"
    /\ cutShort' = (cutShort \/ feedAt = "resubscribing")
    /\ UNCHANGED <<socket, todo, subs, serves, attempt, connects, dropped>>

\* run() returns when the connection has closed or been silent for too long,
\* and raises at a message it cannot handle.
LoopEnds ==
    /\ feedAt = "looping"
    /\ socket' \in {"open", "closed"}
    /\ TurnOver
    /\ UNCHANGED <<todo, subs, serves, connects, dropped, cutShort>>

\* unsubscribe([sid]), from a handler that has its sid from the event: no two
\* subscriptions have the same.
Unsubscribe(i) ==
    /\ feedAt = "looping" \/ Asking
    /\ socket = "open"
    /\ dropped' = dropped \cup {subs[i].channel}
    /\ serves' = [serves EXCEPT ![subs[i].sid] = "nothing"]
    /\ subs' = RemoveAt(subs, i)
    /\ UNCHANGED <<socket, feedAt, todo, attempt, connects, cutShort>>

\* close(), from a handler or another task: whatever is under way raises or
\* returns, and run_forever with it.
CloseFeed ==
    /\ feedAt \notin {"fresh", "failed", "closed"}
    /\ feedAt' = "closed"
    /\ socket' = "none"
    /\ cutShort' = (cutShort \/ feedAt = "resubscribing")
    /\ UNCHANGED <<todo, subs, serves, attempt, connects, dropped>>

WsNext ==
    \/ FirstConnect \/ Reconnect \/ ConnectFails
    \/ Confirmed \/ SubscribeFails \/ Refused
    \/ LoopEnds \/ \E i \in DOMAIN subs : Unsubscribe(i)
    \/ CloseFeed

-----------------------------------------------------------------------------
\* However often the connection is made anew, the client receives under each
\* sid the channel it believes, and the channels it was asked for and has not
\* dropped, unless a resubscription was cut short: what that one had not come
\* to is forgotten (_resubscribe_all has cleared the list).
SubscriptionsKept ==
    /\ feedAt = "looping" =>
         \A i \in DOMAIN subs : serves[subs[i].sid] = subs[i].channel
    /\ feedAt = "looping" /\ ~cutShort => Tracked = Channels \ dropped
=============================================================================
