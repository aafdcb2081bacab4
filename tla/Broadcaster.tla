------------------------------ MODULE Broadcaster ------------------------------
(***************************************************************************)
(* The dashboard's broadcaster (lipmm/control/broadcaster.py) and the tabs *)
(* that listen to it.  Command handlers, the periodic runtime snapshot and *)
(* the coming and going of tabs each send to the tabs in turn, awaiting    *)
(* every one, and overlap.  A tab that does not take a frame in time is    *)
(* dropped from the pool.                                                  *)
(*                                                                         *)
(* What is sent is abstracted to the version of the control state it       *)
(* shows; -1 stands for a frame or a screen without one.                    *)
(***************************************************************************)
EXTENDS Integers, Sequences

CONSTANTS
    Tabs,        \* websocket connections, each used once
    Handlers,    \* command handlers
    MaxVersion   \* bound: commands

Snapshotter == "runtime"   \* the periodic task of the server
Blank == -1

ASSUME BroadcastAssumption == MaxVersion \in Nat

VARIABLES
    shownVersion,  \* ControlState.version
    link,          \* tab -> its connection
    pool,          \* Broadcaster._connections, in order
    screen,        \* tab -> the version it shows
    sending,       \* sender -> the broadcast it is in
    wire           \* tab -> the senders that wait for its socket, in order

broadcastVars == <<shownVersion, link, pool, screen, sending, wire>>

Senders == Handlers \cup Tabs \cup {Snapshotter}

\* A send goes through todo in order; dead are the tabs that failed.
NoSend == [version |-> Blank, todo |-> <<>>, dead |-> {}, on |-> FALSE]

BroadcastInit ==
    /\ shownVersion = 0
    /\ link = [t \in Tabs |-> "away"]
    /\ pool = <<>>
    /\ screen = [t \in Tabs |-> Blank]
    /\ sending = [s \in Senders |-> NoSend]
    /\ wire = [t \in Tabs |-> <<>>]

Without(list, tabs) == SelectSeq(list, LAMBDA t : t \notin tabs)

\* HtmlWebSocketAdapter: a frame with a snapshot replaces what the tab shows.
\* Frames arrive in the order in which they are written.
Shows(t, version) ==
    IF version = Blank THEN screen ELSE [screen EXCEPT ![t] = version]

\* _broadcast_event_excluding, up to its first await: the pool as it is now,
\* and the first tab's frame is written.  To nobody, it is over at once.
BeginSend(s, version, excluded, list) ==
    LET todo == Without(list, excluded)
    IN  IF todo = <<>> THEN UNCHANGED <<sending, wire, screen>>
        ELSE /\ sending' = [sending EXCEPT ![s] =
                  [version |-> version, todo |-> todo, dead |-> {}, on |-> TRUE]]
             /\ wire' = [wire EXCEPT ![Head(todo)] = Append(@, s)]
             /\ screen' = Shows(Head(todo), version)

\* A mutation, and the broadcast of the snapshot that it left.
CommandSent(h) ==
    /\ ~sending[h].on
    /\ shownVersion < MaxVersion
    /\ shownVersion' = shownVersion + 1
    /\ BeginSend(h, shownVersion', {}, pool)
    /\ UNCHANGED <<link, pool>>

\* Mutant of RuntimeSent: the snapshot that rides along is one command old.
RuntimeSentCached ==
    /\ ~sending[Snapshotter].on
    /\ BeginSend(Snapshotter, IF shownVersion = 0 THEN 0 ELSE shownVersion - 1, {}, pool)
    /\ UNCHANGED <<shownVersion, link, pool>>

\* broadcast_runtime: the state's snapshot rides along.
RuntimeSent ==
    /\ ~sending[Snapshotter].on
    /\ BeginSend(Snapshotter, shownVersion, {}, pool)
    /\ UNCHANGED <<shownVersion, link, pool>>

\* control_stream: accept and register; the others hear of it later.
TabOpens(t) ==
    /\ link[t] = "away"
    /\ link' = [link EXCEPT ![t] = "joining"]
    /\ pool' = Append(pool, t)
    /\ UNCHANGED <<shownVersion, screen, sending, wire>>

\* The initial frame is written, with the state as it is now.
TabInitial(t) ==
    /\ link[t] = "joining"
    /\ link' = [link EXCEPT ![t] = "open"]
    /\ screen' = Shows(t, shownVersion)
    /\ UNCHANGED <<shownVersion, pool, sending, wire>>

\* It has been taken: notify_join.
TabJoins(t) ==
    /\ link[t] = "open"
    /\ link' = [link EXCEPT ![t] = "joined"]
    /\ BeginSend(t, Blank, {t}, pool)
    /\ UNCHANGED <<shownVersion, pool>>

\* The browser goes away: unregister, which is silent for a tab that the
\* broadcaster has dropped already.
TabLeaves(t) ==
    /\ link[t] \in {"joining", "open", "joined"}
    /\ ~sending[t].on
    /\ link' = [link EXCEPT ![t] = "gone"]
    /\ pool' = Without(pool, {t})
    /\ IF \E k \in 1 .. Len(pool) : pool[k] = t
       THEN BeginSend(t, Blank, {}, pool')
       ELSE UNCHANGED <<sending, wire, screen>>
    /\ UNCHANGED shownVersion

\* The sender leaves one socket and queues for the next.
NextOnWire(now, rest, s) ==
    [t \in Tabs |-> LET left == IF t = now THEN Tail(wire[t]) ELSE wire[t]
                   IN  IF rest # <<>> /\ t = Head(rest) THEN Append(left, s) ELSE left]

\* The first wait on a tab's socket is over, or has timed out (all wait equally
\* long, so they end in the order they began in), and the next tab's frame is
\* written.  After a sender's last tab, the tabs that failed leave the pool;
\* their sockets stay open.
SendStep(s) ==
    LET now == Head(sending[s].todo)
        rest == Tail(sending[s].todo)
    IN  /\ sending[s].on
        /\ Head(wire[now]) = s
        /\ wire' = NextOnWire(now, rest, s)
        /\ \E taken \in IF link[now] = "gone" THEN {FALSE} ELSE BOOLEAN :
             LET dead == sending[s].dead \cup IF taken THEN {} ELSE {now}
             IN  IF rest = <<>>
                 THEN /\ sending' = [sending EXCEPT ![s] = NoSend]
                      /\ pool' = Without(pool, dead)
                      /\ UNCHANGED screen
                 ELSE /\ sending' = [sending EXCEPT ![s].todo = rest, ![s].dead = dead]
                      /\ screen' = Shows(Head(rest), sending[s].version)
                      /\ UNCHANGED pool
        /\ UNCHANGED <<shownVersion, link>>

BroadcastNext ==
    \/ \E h \in Handlers : CommandSent(h)
    \/ RuntimeSent
    \/ \E t \in Tabs : TabOpens(t) \/ TabInitial(t) \/ TabJoins(t) \/ TabLeaves(t)
    \/ \E s \in Senders : SendStep(s)

\* Sends end by their timeout; the snapshot task comes back every few seconds;
\* a tab that was accepted is sent its initial frame.
BroadcastFairness ==
    /\ \A s \in Senders : WF_broadcastVars(SendStep(s))
    /\ WF_broadcastVars(RuntimeSent)
    /\ \A t \in Tabs : WF_broadcastVars(TabInitial(t) \/ TabJoins(t))

-----------------------------------------------------------------------------
InPool(t) == \E k \in 1 .. Len(pool) : pool[k] = t

\* The frames of overlapping broadcasts may reach a tab out of order, an older
\* state after a newer one; a tab that stays in the pool nevertheless comes to
\* show the state as it is, for the snapshot that rides along heals it.
ScreensCatchUp ==
    \A t \in Tabs : InPool(t) ~> (~InPool(t) \/ screen[t] = shownVersion)
=============================================================================
