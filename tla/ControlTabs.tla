----------------------------- MODULE ControlTabs -----------------------------
(***************************************************************************)
(* Dashboard tabs that command one ControlState.  A tab keeps the last     *)
(* snapshot it was sent and may make a command conditional on that         *)
(* snapshot's version (if_version); the server compares versions only.     *)
(***************************************************************************)
EXTENDS ControlState

CONSTANTS
    Tabs,
    KnobInputs  \* the knob values tabs may send

VARIABLE tabs  \* tab -> the snapshot it shows

vars == <<version, killState, globalPaused, pausedTickers, pausedSides,
          sideLock, theoOverride, knob, activeEvents, tabs>>

\* A record past its expiry time is shown as it was set.
Shown(r) == IF r = "lapsed" THEN "timed" ELSE r

Snapshot ==
    [version |-> version, killState |-> killState, globalPaused |-> globalPaused,
     pausedTickers |-> pausedTickers, pausedSides |-> pausedSides,
     sideLocks |-> [k \in Keys |-> Shown(sideLock[k])],
     theoOverrides |-> [t \in Tickers |-> Shown(theoOverride[t])],
     knobs |-> knob, activeEvents |-> activeEvents]

\* _check_if_version() lets a command that is conditional on v pass.
IfVersionPasses(v) == v = version

TypeOK ==
    /\ ControlTypeOK
    /\ \A b \in Tabs : tabs[b].version \in 0 .. version

Init ==
    /\ ControlInit
    /\ tabs = [b \in Tabs |-> Snapshot]

\* GET /control/state, or the state_change message of a broadcast.
Refresh(b) ==
    /\ tabs' = [tabs EXCEPT ![b] = Snapshot]
    /\ UNCHANGED control

\* The runner's reads, once per side of a ticker it quotes.
RunnerReads(t) == DropLapsed({t} \X Sides) /\ UNCHANGED tabs

Command ==
    /\ MoreCommands
    /\ \/ PauseGlobal \/ ResumeGlobal \/ Kill \/ Arm \/ ResumeAfterKill
       \/ \E t \in Tickers :
            \/ PauseTicker(t) \/ ResumeTicker(t)
            \/ \E r \in Terms \cup {"none"} : SetTheoOverride(t, r)
       \/ \E k \in Keys :
            \/ PauseSide(k) \/ ResumeSide(k) \/ UnlockSide(k)
            \/ \E term \in Terms : LockSide(k, term)
            \/ \E term \in {"none"} \cup (Terms \cap {"held"}) : OrderCancelled(k, term)
       \/ \E s \in Scopes, v \in KnobInputs \cup {None} : SetKnob(s, v)
       \/ \E e \in Events : AddEvent(e) \/ RemoveEvent(e)
    /\ UNCHANGED tabs

Clock ==
    /\ \E k \in Keys : LockLapses(k)
       \/ \E t \in Tickers : OverrideLapses(t)
    /\ UNCHANGED tabs

Next ==
    \/ Command
    \/ Clock
    \/ \E t \in Tickers : RunnerReads(t)
    \/ \E b \in Tabs : Refresh(b)

Spec == Init /\ [][Next]_vars

-----------------------------------------------------------------------------
\* The tab shows the state as it is, but may show timed locks that have lapsed
\* and been dropped since.
SeesAllButLapses(b) ==
    /\ \A f \in DOMAIN Snapshot \ {"sideLocks"} : tabs[b][f] = Snapshot[f]
    /\ \A k \in Keys :
         \/ tabs[b].sideLocks[k] = Shown(sideLock[k])
         \/ tabs[b].sideLocks[k] = "timed" /\ sideLock[k] = "none"

\* What optimistic concurrency is worth: the only change that a conditional
\* command can overwrite unseen is the end of a timed lock.
OnlyLapsesUnseen ==
    \A b \in Tabs :
        IfVersionPasses(tabs[b].version) => SeesAllButLapses(b)

\* A killed or armed bot stays stopped: whatever pauses and resumes come in
\* between, the cycle is skipped until an armed bot is resumed globally.
KilledStaysStopped == killState # "off" => ShouldSkipCycle

\* The override in force on a side changes only through a command on a layer
\* that covers the side, and only when no narrower layer hides that layer.
NarrowerWins ==
    [][\A k \in Keys : EffectiveKnob(k)' # EffectiveKnob(k) =>
         \E i \in DOMAIN Layers(k) :
           /\ knob'[Layers(k)[i]] # knob[Layers(k)[i]]
           /\ \A j \in 1 .. i - 1 : knob[Layers(k)[j]] = None]_vars
=============================================================================
