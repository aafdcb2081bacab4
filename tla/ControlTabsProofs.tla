-------------------------- MODULE ControlTabsProofs --------------------------
(***************************************************************************)
(* Proofs about the control state and the tabs that command it: a killed   *)
(* bot stays stopped, what optimistic concurrency is worth, and which      *)
(* override is in force.                                                   *)
(***************************************************************************)
EXTENDS ControlTabs, TLAPS

\* Every tab keeps one snapshot.
OneSnapshot == tabs = [b \in Tabs |-> tabs[b]]

\* KilledStaysStopped is not inductive: arming a killed bot must find it paused.
StoppedIsPaused == killState # "off" => globalPaused

TabsInv ==
    /\ ControlTypeOK
    /\ OneSnapshot
    /\ \A b \in Tabs : tabs[b].version \in 0 .. version
    /\ StoppedIsPaused
    /\ OnlyLapsesUnseen

-----------------------------------------------------------------------------
(* The control state.                                                      *)

\* A command keeps the types and raises the version.
LEMMA CommandEffect ==
    ASSUME ControlTypeOK, Command
    PROVE  ControlTypeOK' /\ version' > version
<1> USE ControlAssumption DEF ControlTypeOK, Bump, settings, Records
<1>1. CASE PauseGlobal
  BY <1>1 DEF PauseGlobal
<1>2. CASE ResumeGlobal
  <2>1. version' > version /\ version' \in Nat
    BY <1>2 DEF ResumeGlobal
  <2>2. killState' \in {"off", "killed", "armed"}
    BY <1>2 DEF ResumeGlobal
  <2>3. globalPaused' \in BOOLEAN
    BY <1>2 DEF ResumeGlobal
  <2> QED
    BY <1>2, <2>1, <2>2, <2>3 DEF ResumeGlobal
<1>3. CASE Kill
  BY <1>3 DEF Kill
<1>4. CASE Arm
  BY <1>4 DEF Arm
<1>5. CASE ResumeAfterKill
  <2>1. version' > version /\ version' \in Nat
    BY <1>5 DEF ResumeAfterKill
  <2>2. killState' \in {"off", "killed", "armed"}
    BY <1>5 DEF ResumeAfterKill
  <2>3. globalPaused' \in BOOLEAN
    BY <1>5 DEF ResumeAfterKill
  <2> QED
    BY <1>5, <2>1, <2>2, <2>3 DEF ResumeAfterKill
<1>6. ASSUME NEW t \in Tickers, PauseTicker(t) \/ ResumeTicker(t)
      PROVE  ControlTypeOK' /\ version' > version
  BY <1>6 DEF PauseTicker, ResumeTicker
<1>7. ASSUME NEW t \in Tickers, NEW r \in Terms \cup {"none"},
             SetTheoOverride(t, r)
      PROVE  ControlTypeOK' /\ version' > version
  BY <1>7 DEF SetTheoOverride
<1>8. ASSUME NEW k \in Keys, PauseSide(k) \/ ResumeSide(k) \/ UnlockSide(k)
      PROVE  ControlTypeOK' /\ version' > version
  BY <1>8 DEF PauseSide, ResumeSide, UnlockSide
<1>9. ASSUME NEW k \in Keys, NEW term \in Terms, LockSide(k, term)
      PROVE  ControlTypeOK' /\ version' > version
  BY <1>9 DEF LockSide
<1>10. ASSUME NEW s \in Scopes, NEW v \in KnobInputs \cup {None}, SetKnob(s, v)
      PROVE  ControlTypeOK' /\ version' > version
  BY <1>10 DEF SetKnob
<1>11. ASSUME NEW e \in Events, AddEvent(e) \/ RemoveEvent(e)
      PROVE  ControlTypeOK' /\ version' > version
  BY <1>11 DEF AddEvent, RemoveEvent
<1>12. ASSUME NEW k \in Keys, NEW term \in {"none"} \cup (Terms \cap {"held"}),
              OrderCancelled(k, term)
       PROVE  ControlTypeOK' /\ version' > version
  BY <1>12 DEF OrderCancelled
<1> QED
  BY <1>1, <1>2, <1>3, <1>4, <1>5, <1>6,
     <1>7, <1>8, <1>9, <1>10, <1>11, <1>12
  DEF Command

\* A command leaves a killed or armed bot paused.
LEMMA CommandKeepsPaused ==
    ASSUME ControlTypeOK, StoppedIsPaused, Command
    PROVE  StoppedIsPaused'
<1> USE DEF StoppedIsPaused, ControlTypeOK, settings
<1>1. CASE PauseGlobal
  BY <1>1 DEF PauseGlobal
<1>2. CASE ResumeGlobal
  BY <1>2 DEF ResumeGlobal
<1>3. CASE Kill
  BY <1>3 DEF Kill
<1>4. CASE Arm
  BY <1>4 DEF Arm
<1>5. CASE ResumeAfterKill
  BY <1>5 DEF ResumeAfterKill
<1>6. ASSUME NEW t \in Tickers, PauseTicker(t) \/ ResumeTicker(t)
      PROVE  StoppedIsPaused'
  BY <1>6 DEF PauseTicker, ResumeTicker
<1>7. ASSUME NEW t \in Tickers, NEW r \in Terms \cup {"none"},
             SetTheoOverride(t, r)
      PROVE  StoppedIsPaused'
  BY <1>7 DEF SetTheoOverride
<1>8. ASSUME NEW k \in Keys, PauseSide(k) \/ ResumeSide(k) \/ UnlockSide(k)
      PROVE  StoppedIsPaused'
  BY <1>8 DEF PauseSide, ResumeSide, UnlockSide
<1>9. ASSUME NEW k \in Keys, NEW term \in Terms, LockSide(k, term)
      PROVE  StoppedIsPaused'
  BY <1>9 DEF LockSide
<1>10. ASSUME NEW s \in Scopes, NEW v \in KnobInputs \cup {None}, SetKnob(s, v)
      PROVE  StoppedIsPaused'
  BY <1>10 DEF SetKnob
<1>11. ASSUME NEW e \in Events, AddEvent(e) \/ RemoveEvent(e)
      PROVE  StoppedIsPaused'
  BY <1>11 DEF AddEvent, RemoveEvent
<1>12. ASSUME NEW k \in Keys, NEW term \in {"none"} \cup (Terms \cap {"held"}),
              OrderCancelled(k, term)
       PROVE  StoppedIsPaused'
  BY <1>12 DEF OrderCancelled
<1> QED
  BY <1>1, <1>2, <1>3, <1>4, <1>5, <1>6,
     <1>7, <1>8, <1>9, <1>10, <1>11, <1>12
  DEF Command

\* A lock or an override that lapses is shown as it was.
LEMMA ClockEffect ==
    ASSUME ControlTypeOK, Clock
    PROVE  /\ ControlTypeOK'
           /\ UNCHANGED <<version, killState, globalPaused, tabs>>
           /\ Snapshot' = Snapshot
<1> USE DEF ControlTypeOK, Records
<1>1. ASSUME NEW k \in Keys, LockLapses(k)
      PROVE  /\ ControlTypeOK'
             /\ UNCHANGED <<version, killState, globalPaused>>
             /\ Snapshot' = Snapshot
  <2>1. \A j \in Keys : Shown(sideLock[j])' = Shown(sideLock[j])
    BY <1>1 DEF LockLapses, Shown
  <2> QED
    BY <1>1, <2>1 DEF LockLapses, Snapshot, settings
<1>2. ASSUME NEW t \in Tickers, OverrideLapses(t)
      PROVE  /\ ControlTypeOK'
             /\ UNCHANGED <<version, killState, globalPaused>>
             /\ Snapshot' = Snapshot
  <2>1. \A j \in Tickers : Shown(theoOverride[j])' = Shown(theoOverride[j])
    BY <1>2 DEF OverrideLapses, Shown
  <2> QED
    BY <1>2, <2>1 DEF OverrideLapses, Snapshot
<1> QED
  BY <1>1, <1>2 DEF Clock

-----------------------------------------------------------------------------
(* What the tabs see.                                                      *)

\* A snapshot just taken shows everything.
LEMMA FreshSnapshot ==
    ASSUME NEW b \in Tabs, tabs[b] = Snapshot
    PROVE  SeesAllButLapses(b) /\ tabs[b].version = version
BY DEF SeesAllButLapses, Snapshot

\* A read of the runner drops lapsed locks, which a tab shows as timed.
LEMMA ReadEffect ==
    ASSUME TabsInv, NEW t \in Tickers, RunnerReads(t)
    PROVE  TabsInv'
<1> USE DEF RunnerReads, DropLapsed, settings
<1>1. ControlTypeOK' /\ StoppedIsPaused'
  BY DEF TabsInv, ControlTypeOK, Records, StoppedIsPaused
<1>2. OneSnapshot' /\ \A b \in Tabs : tabs'[b].version \in 0 .. version'
  BY DEF TabsInv, OneSnapshot
<1>3. ASSUME NEW b \in Tabs, tabs[b].version = version
      PROVE  SeesAllButLapses(b)'
  <2>1. SeesAllButLapses(b)
    BY <1>3 DEF TabsInv, OnlyLapsesUnseen, IfVersionPasses
  <2>2. \A f \in DOMAIN Snapshot' \ {"sideLocks"} : tabs'[b][f] = Snapshot'[f]
    <3>1. DOMAIN Snapshot' = DOMAIN Snapshot
      BY DEF Snapshot
    <3>2. \A f \in DOMAIN Snapshot \ {"sideLocks"} : Snapshot'[f] = Snapshot[f]
      BY DEF Snapshot
    <3> QED
      BY <2>1, <3>1, <3>2 DEF SeesAllButLapses
  <2>3. ASSUME NEW k \in Keys
        PROVE  \/ tabs'[b].sideLocks[k] = Shown(sideLock'[k])
               \/ tabs'[b].sideLocks[k] = "timed" /\ sideLock'[k] = "none"
    BY <2>1 DEF SeesAllButLapses, Shown
  <2> QED
    BY <2>2, <2>3 DEF SeesAllButLapses, Shown
<1>4. OnlyLapsesUnseen'
  BY <1>3 DEF OnlyLapsesUnseen, IfVersionPasses
<1> QED
  BY <1>1, <1>2, <1>4 DEF TabsInv

\* The invariant is inductive.
LEMMA TabsStep ==
    ASSUME TabsInv, [Next]_vars
    PROVE  TabsInv'
<1>1. CASE Command
  <2>1. ControlTypeOK' /\ version' > version /\ StoppedIsPaused'
    BY <1>1, CommandEffect, CommandKeepsPaused DEF TabsInv
  <2>2. tabs' = tabs
    BY <1>1 DEF Command
  <2>3. \A b \in Tabs : tabs'[b].version \in 0 .. version'
                        /\ tabs'[b].version # version'
    BY <2>1, <2>2 DEF TabsInv, ControlTypeOK
  <2> QED
    BY <2>1, <2>2, <2>3 DEF TabsInv, OneSnapshot, OnlyLapsesUnseen,
       IfVersionPasses
<1>2. CASE Clock
  <2>1. /\ ControlTypeOK'
        /\ UNCHANGED <<version, killState, globalPaused, tabs>>
        /\ Snapshot' = Snapshot
    BY <1>2, ClockEffect DEF TabsInv
  <2>2. ASSUME NEW b \in Tabs, SeesAllButLapses(b)
        PROVE  SeesAllButLapses(b)'
    <3>1. \A k \in Keys : sideLock[k] = "none" => sideLock'[k] = "none"
      BY <1>2 DEF Clock, LockLapses, OverrideLapses, TabsInv, ControlTypeOK
    <3>2. \A k \in Keys : Shown(sideLock'[k]) = Shown(sideLock[k])
      BY <1>2 DEF Clock, LockLapses, OverrideLapses, TabsInv, ControlTypeOK, Shown
    <3> QED
      BY <2>1, <2>2, <3>1, <3>2 DEF SeesAllButLapses
  <2> QED
    BY <2>1, <2>2 DEF TabsInv, OneSnapshot, OnlyLapsesUnseen, IfVersionPasses,
       StoppedIsPaused
<1>3. ASSUME NEW t \in Tickers, RunnerReads(t)
      PROVE  TabsInv'
  BY <1>3, ReadEffect
<1>4. ASSUME NEW b \in Tabs, Refresh(b)
      PROVE  TabsInv'
  <2>1. UNCHANGED control /\ Snapshot' = Snapshot
    BY <1>4 DEF Refresh, control, Snapshot, Shown
  <2>2. /\ tabs' = [tabs EXCEPT ![b] = Snapshot]
        /\ tabs'[b] = Snapshot'
        /\ \A a \in Tabs \ {b} : tabs'[a] = tabs[a]
    BY <1>4, <2>1 DEF Refresh, TabsInv, OneSnapshot
  <2>3. SeesAllButLapses(b)' /\ tabs'[b].version = version'
    BY <2>2 DEF SeesAllButLapses, Snapshot
  <2>4. ASSUME NEW a \in Tabs \ {b}, SeesAllButLapses(a)
        PROVE  SeesAllButLapses(a)'
    BY <2>1, <2>2, <2>4 DEF SeesAllButLapses, control
  <2>5. OneSnapshot'
    BY <2>2 DEF TabsInv, OneSnapshot
  <2>6. OnlyLapsesUnseen'
    BY <2>1, <2>2, <2>3, <2>4 DEF TabsInv, OnlyLapsesUnseen, IfVersionPasses,
       control
  <2> QED
    BY <2>1, <2>2, <2>3, <2>5, <2>6 DEF TabsInv, control, ControlTypeOK,
       StoppedIsPaused
<1>5. CASE UNCHANGED vars
  BY <1>5 DEF vars, TabsInv, ControlTypeOK, OneSnapshot, StoppedIsPaused,
     OnlyLapsesUnseen, IfVersionPasses, SeesAllButLapses,
     Snapshot, Shown
<1> QED
  BY <1>1, <1>2, <1>3, <1>4, <1>5 DEF Next

LEMMA TabsInit ==
    ASSUME Init
    PROVE  TabsInv
<1>1. ControlTypeOK
  BY ControlAssumption DEF Init, ControlInit, ControlTypeOK, Records
<1>2. OneSnapshot /\ \A b \in Tabs : tabs[b] = Snapshot
  BY DEF Init, OneSnapshot
<1>3. \A b \in Tabs : SeesAllButLapses(b) /\ tabs[b].version = version
  BY <1>2, FreshSnapshot
<1> QED
  BY <1>1, <1>2, <1>3 DEF TabsInv, OnlyLapsesUnseen, StoppedIsPaused, Init,
     ControlInit, ControlTypeOK

LEMMA TabsInductive == Spec => []TabsInv
<1>1. Init => TabsInv
  BY TabsInit
<1>2. TabsInv /\ [Next]_vars => TabsInv'
  BY TabsStep
<1> QED
  BY <1>1, <1>2, PTL DEF Spec

-----------------------------------------------------------------------------
(* The theorems.                                                           *)

\* The types of the control state, and a tab never shows a version that the
\* server has not reached.
THEOREM TabsTypeCorrect == Spec => []TypeOK
<1>1. TabsInv => TypeOK
  BY DEF TabsInv, TypeOK
<1> QED
  BY <1>1, TabsInductive, PTL

\* A killed or armed bot skips every cycle until it is resumed from armed.
THEOREM StaysStopped == Spec => []KilledStaysStopped
<1>1. TabsInv => KilledStaysStopped
  BY DEF TabsInv, StoppedIsPaused, KilledStaysStopped, ShouldSkipCycle
<1> QED
  BY <1>1, TabsInductive, PTL

\* A conditional command overwrites nothing unseen but the end of a timed lock.
THEOREM OptimisticConcurrency == Spec => []OnlyLapsesUnseen
<1>1. TabsInv => OnlyLapsesUnseen
  BY DEF TabsInv
<1> QED
  BY <1>1, TabsInductive, PTL

-----------------------------------------------------------------------------
(* The layers of knobs.                                                    *)

\* The lowest of some layers.
LEMMA LowestLayer ==
    ASSUME NEW set \in SUBSET (1 .. 4), set # {}
    PROVE  Lowest(set) \in set /\ \A j \in set : Lowest(set) <= j
<1>1. \E i \in set : \A j \in set : i <= j
  <2>1. CASE 1 \in set
    BY <2>1
  <2>2. CASE 1 \notin set /\ 2 \in set
    BY <2>2
  <2>3. CASE 1 \notin set /\ 2 \notin set /\ 3 \in set
    BY <2>3
  <2>4. CASE 1 \notin set /\ 2 \notin set /\ 3 \notin set
    <3>1. set = {4}
      <4>1. \A i \in 1 .. 4 : i = 1 \/ i = 2 \/ i = 3 \/ i = 4
        OBVIOUS
      <4>2. \A i \in set : i = 4
        BY <2>4, <4>1
      <4> QED
        BY <4>2, Zenon
    <3> QED
      BY <3>1
  <2> QED
    BY <2>1, <2>2, <2>3, <2>4
<1> QED
  BY <1>1 DEF Lowest

\* The override in force changes only through a layer that no narrower one
\* hides.
LEMMA NarrowerWinsStep ==
    ASSUME NEW k \in Keys, EffectiveKnob(k)' # EffectiveKnob(k)
    PROVE  \E i \in DOMAIN Layers(k) :
             /\ knob'[Layers(k)[i]] # knob[Layers(k)[i]]
             /\ \A j \in 1 .. i - 1 : knob[Layers(k)[j]] = None
<1>1. PICK L : L = Layers(k)
  OBVIOUS
<1>2. DOMAIN L = 1 .. 4
  BY <1>1 DEF Layers
<1>3. PICK before \in SUBSET (1 .. 4) :
        before = {i \in 1 .. 4 : knob[L[i]] # None}
  OBVIOUS
<1>4. PICK after \in SUBSET (1 .. 4) :
        after = {i \in 1 .. 4 : knob'[L[i]] # None}
  OBVIOUS
<1>5. EffectiveKnob(k) = IF before = {} THEN None ELSE knob[L[Lowest(before)]]
  BY <1>1, <1>2, <1>3 DEF EffectiveKnob, FirstOf
<1>6. EffectiveKnob(k)' = IF after = {} THEN None ELSE knob'[L[Lowest(after)]]
  <2>1. Layers(k)' = L
    BY <1>1 DEF Layers, SideScope, StrikeScope, EventScope, Global
  <2> QED
    BY <1>2, <1>4, <2>1 DEF EffectiveKnob, FirstOf
<1> SUFFICES \E i \in 1 .. 4 : /\ knob'[L[i]] # knob[L[i]]
                               /\ \A j \in 1 .. i - 1 : knob[L[j]] = None
  BY <1>1, <1>2
<1>7. CASE before = {}
  <2>1. Lowest(after) \in after
    BY <1>5, <1>6, <1>7, LowestLayer
  <2>2. \A j \in 1 .. 4 : knob[L[j]] = None
    BY <1>3, <1>7
  <2> QED
    BY <1>4, <2>1, <2>2
<1>8. CASE before # {}
  <2>1. PICK i \in 1 .. 4 : i = Lowest(before) /\ i \in before
    BY <1>8, LowestLayer
  <2>2. \A j \in 1 .. i - 1 : knob[L[j]] = None
    BY <1>3, <1>8, <2>1, LowestLayer
  <2>3. CASE i \notin after
    BY <1>3, <1>4, <2>1, <2>2, <2>3
  <2>4. CASE i \in after
    <3>1. PICK m \in 1 .. 4 : m = Lowest(after) /\ m \in after /\ m <= i
      BY <2>4, LowestLayer
    <3>2. knob'[L[m]] # knob[L[i]]
      BY <1>5, <1>6, <1>8, <2>1, <2>4, <3>1
    <3>3. CASE m = i
      <4>1. knob'[L[i]] # knob[L[i]]
        BY <3>2, <3>3
      <4> QED
        BY <2>2, <4>1
    <3>4. CASE m < i
      <4>1. knob[L[m]] = None /\ knob'[L[m]] # None
        BY <1>4, <2>2, <3>1, <3>4
      <4> QED
        BY <2>2, <3>4, <4>1
    <3> QED
      BY <3>1, <3>3, <3>4
  <2> QED
    BY <2>3, <2>4
<1> QED
  BY <1>7, <1>8

\* Precedence of the knob layers, as an action property.
THEOREM KnobPrecedence == Spec => NarrowerWins
<1>1. [Next]_vars => [\A k \in Keys : EffectiveKnob(k)' # EffectiveKnob(k) =>
          \E i \in DOMAIN Layers(k) :
            /\ knob'[Layers(k)[i]] # knob[Layers(k)[i]]
            /\ \A j \in 1 .. i - 1 : knob[Layers(k)[j]] = None]_vars
  BY NarrowerWinsStep
<1> QED
  BY <1>1, PTL DEF Spec, NarrowerWins
=============================================================================
