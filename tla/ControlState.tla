---------------------------- MODULE ControlState ----------------------------
(***************************************************************************)
(* lipmm/control/state.py and the handlers of lipmm/control/server.py that *)
(* change it: the pauses, the kill switch, the side locks, the overrides   *)
(* and the set of events, which the operator commands and the runner       *)
(* consults.                                                               *)
(*                                                                         *)
(* A mutation holds the state's asyncio lock and never awaits while it     *)
(* does, and a handler reaches it without awaiting: one action is a whole  *)
(* command up to its broadcast.  Handlers that await an exchange request   *)
(* first are in OrderTools and LipRunner.                                  *)
(***************************************************************************)
EXTENDS Strikes, Integers

CONSTANTS
    Events,      \* event tickers
    EventOf,     \* strike -> the event it belongs to
    KnobValues,  \* the values within the knob's bounds
    Terms,       \* how long locks and overrides run: "held" and "timed"
    MaxVersion   \* bound: the version from which no command is given

ASSUME ControlAssumption ==
    /\ EventOf \in [Tickers -> Events]
    /\ None \notin KnobValues
    /\ Terms \subseteq {"held", "timed"}
    /\ MaxVersion \in Nat

\* All strikes belong to one event.
OneEvent == [t \in Tickers |-> CHOOSE e \in Events : TRUE]

VARIABLES
    version,        \* bumped by every mutation, for optimistic concurrency
    killState,      \* off -> killed -> armed -> off
    globalPaused,
    pausedTickers,
    pausedSides,
    sideLock,       \* key -> its lock, by the term it was given
    theoOverride,   \* ticker -> its manual theo, by the term it was given
    knob,           \* scope -> the override of one knob
    activeEvents

control == <<version, killState, globalPaused, pausedTickers, pausedSides,
             sideLock, theoOverride, knob, activeEvents>>
settings == <<theoOverride, knob>>

\* "lapsed": the expiry time of a timed record has passed; the record is there.
Records == {"none", "held", "timed", "lapsed"}

Global == <<"global">>
EventScope(e) == <<"event", e>>
StrikeScope(t) == <<"strike", t>>
SideScope(k) == <<"side", k[1], k[2]>>

Scopes == {Global} \cup {EventScope(e) : e \in Events}
            \cup {StrikeScope(t) : t \in Tickers} \cup {SideScope(k) : k \in Keys}

ControlTypeOK ==
    /\ version \in Nat
    /\ killState \in {"off", "killed", "armed"}
    /\ globalPaused \in BOOLEAN
    /\ pausedTickers \subseteq Tickers
    /\ pausedSides \subseteq Keys
    /\ sideLock \in [Keys -> Records]
    /\ theoOverride \in [Tickers -> Records]
    /\ knob \in [Scopes -> KnobValues \cup {None}]
    /\ activeEvents \subseteq Events

\* A new process has no pauses, locks or overrides, and the events it was
\* started with.
ControlInit ==
    /\ version = 0
    /\ killState = "off"
    /\ globalPaused = FALSE
    /\ pausedTickers = {}
    /\ pausedSides = {}
    /\ sideLock = [k \in Keys |-> "none"]
    /\ theoOverride = [t \in Tickers |-> "none"]
    /\ knob = [s \in Scopes |-> None]
    /\ activeEvents = Events

-----------------------------------------------------------------------------
(* What the runner reads.                                                  *)

ShouldSkipCycle == killState = "killed" \/ globalPaused

ShouldSkipTicker(t) == ShouldSkipCycle \/ t \in pausedTickers

\* is_side_locked(), without what the read does to an expired lock.
Locked(k) == sideLock[k] \in {"held", "timed"}

\* The layers of the knob for one side of a strike, narrowest first.
Layers(k) ==
    <<SideScope(k), StrikeScope(k[1]), EventScope(EventOf[k[1]]), Global>>

Lowest(set) == CHOOSE i \in set : \A j \in set : i <= j

\* The override of the first layer that has one; None is the strategy's own
\* default.
FirstOf(layers) ==
    LET set == {i \in DOMAIN layers : knob[layers[i]] # None}
    IN  IF set = {} THEN None ELSE knob[layers[Lowest(set)]]

\* Mutant of EffectiveKnob: an event's override beats its strikes'.
EffectiveKnobEventFirst(k) ==
    FirstOf(<<Layers(k)[3], Layers(k)[1], Layers(k)[2], Layers(k)[4]>>)

\* The narrowest override wins.
EffectiveKnob(k) == FirstOf(Layers(k))

ActiveTickers == {t \in Tickers : EventOf[t] \in activeEvents}

-----------------------------------------------------------------------------
(* Commands.                                                               *)

\* The bound on the commands of a behaviour.
MoreCommands == version < MaxVersion

Bump == version' = version + 1

\* POST /control/pause
PauseGlobal ==
    /\ Bump
    /\ globalPaused' = TRUE
    /\ UNCHANGED <<killState, pausedTickers, pausedSides, sideLock, settings,
                   activeEvents>>

PauseTicker(t) ==
    /\ Bump
    /\ pausedTickers' = pausedTickers \cup {t}
    /\ UNCHANGED <<killState, globalPaused, pausedSides, sideLock, settings,
                   activeEvents>>

PauseSide(k) ==
    /\ Bump
    /\ pausedSides' = pausedSides \cup {k}
    /\ UNCHANGED <<killState, globalPaused, pausedTickers, sideLock, settings,
                   activeEvents>>

\* Mutant of ResumeGlobal: a resume is accepted while killed.
ResumeGlobalKilled ==
    /\ killState # "armed"
    /\ Bump
    /\ globalPaused' = FALSE
    /\ UNCHANGED <<killState, pausedTickers, pausedSides, sideLock, settings,
                   activeEvents>>

\* POST /control/resume, global scope: refused while killed; the resume of an
\* armed bot is ResumeAfterKill.
ResumeGlobal ==
    /\ killState = "off"
    /\ Bump
    /\ globalPaused' = FALSE
    /\ UNCHANGED <<killState, pausedTickers, pausedSides, sideLock, settings,
                   activeEvents>>

ResumeAfterKill ==
    /\ killState = "armed"
    /\ Bump
    /\ killState' = "off"
    /\ globalPaused' = FALSE
    /\ UNCHANGED <<pausedTickers, pausedSides, sideLock, settings, activeEvents>>

ResumeTicker(t) ==
    /\ Bump
    /\ pausedTickers' = pausedTickers \ {t}
    /\ UNCHANGED <<killState, globalPaused, pausedSides, sideLock, settings,
                   activeEvents>>

ResumeSide(k) ==
    /\ Bump
    /\ pausedSides' = pausedSides \ {k}
    /\ UNCHANGED <<killState, globalPaused, pausedTickers, sideLock, settings,
                   activeEvents>>

\* POST /control/kill: the state; the sweep it starts is in OrderTools.
Kill ==
    /\ Bump
    /\ killState' = "killed"
    /\ globalPaused' = TRUE
    /\ UNCHANGED <<pausedTickers, pausedSides, sideLock, settings, activeEvents>>

\* POST /control/arm: refused unless killed.
Arm ==
    /\ killState = "killed"
    /\ Bump
    /\ killState' = "armed"
    /\ UNCHANGED <<globalPaused, pausedTickers, pausedSides, sideLock, settings,
                   activeEvents>>

\* Mutant of LockSide: the lock is set without a version bump.
LockSideSilently(k, term) ==
    /\ sideLock' = [sideLock EXCEPT ![k] = term]
    /\ UNCHANGED <<version, killState, globalPaused, pausedTickers, pausedSides,
                   settings, activeEvents>>

\* POST /control/lock_side, and the locks that manual orders and cancels leave.
LockSide(k, term) ==
    /\ Bump
    /\ sideLock' = [sideLock EXCEPT ![k] = term]
    /\ UNCHANGED <<killState, globalPaused, pausedTickers, pausedSides, settings,
                   activeEvents>>

\* POST /control/cancel_order, once the order is cancelled: the auto-lock if one
\* is asked for ("none" if not), and a bump of the handler's own.
OrderCancelled(k, term) ==
    /\ version' = version + (IF term = "none" THEN 1 ELSE 2)
    /\ sideLock' = IF term = "none" THEN sideLock
                   ELSE [sideLock EXCEPT ![k] = term]
    /\ UNCHANGED <<killState, globalPaused, pausedTickers, pausedSides, settings,
                   activeEvents>>

UnlockSide(k) ==
    /\ Bump
    /\ sideLock' = [sideLock EXCEPT ![k] = "none"]
    /\ UNCHANGED <<killState, globalPaused, pausedTickers, pausedSides, settings,
                   activeEvents>>

\* POST /control/set_theo_override and its clear ("none").
SetTheoOverride(t, r) ==
    /\ Bump
    /\ theoOverride' = [theoOverride EXCEPT ![t] = r]
    /\ UNCHANGED <<killState, globalPaused, pausedTickers, pausedSides, sideLock,
                   knob, activeEvents>>

\* The set and clear (None) commands of the four layers of knobs: a value out
\* of bounds is refused.
SetKnob(s, v) ==
    /\ v \in KnobValues \cup {None}
    /\ Bump
    /\ knob' = [knob EXCEPT ![s] = v]
    /\ UNCHANGED <<killState, globalPaused, pausedTickers, pausedSides, sideLock,
                   theoOverride, activeEvents>>

AddEvent(e) ==
    /\ Bump
    /\ activeEvents' = activeEvents \cup {e}
    /\ UNCHANGED <<killState, globalPaused, pausedTickers, pausedSides, sideLock,
                   settings>>

RemoveEvent(e) ==
    /\ Bump
    /\ activeEvents' = activeEvents \ {e}
    /\ UNCHANGED <<killState, globalPaused, pausedTickers, pausedSides, sideLock,
                   settings>>

-----------------------------------------------------------------------------
(* Time, and what reading does.                                            *)

LockLapses(k) ==
    /\ sideLock[k] = "timed"
    /\ sideLock' = [sideLock EXCEPT ![k] = "lapsed"]
    /\ UNCHANGED <<version, killState, globalPaused, pausedTickers, pausedSides,
                   settings, activeEvents>>

OverrideLapses(t) ==
    /\ theoOverride[t] = "timed"
    /\ theoOverride' = [theoOverride EXCEPT ![t] = "lapsed"]
    /\ UNCHANGED <<version, killState, globalPaused, pausedTickers, pausedSides,
                   sideLock, knob, activeEvents>>

\* is_side_locked() drops the expired locks it meets; ks are the keys read.
DropLapsed(ks) ==
    /\ sideLock' = [k \in Keys |->
           IF k \in ks /\ sideLock[k] = "lapsed" THEN "none" ELSE sideLock[k]]
    /\ UNCHANGED <<version, killState, globalPaused, pausedTickers, pausedSides,
                   settings, activeEvents>>
=============================================================================
