------------------------------ MODULE LipRunner ------------------------------
(***************************************************************************)
(* The bot at work: the runner's cycle (lipmm/runner/runner.py) quotes     *)
(* through the order manager under the control state, while an operator    *)
(* sends orders, cancels, locks, pauses, kills and removes events          *)
(* (lipmm/control/server.py, manual_orders.py) and sweeps run.             *)
(*                                                                         *)
(* The runner's phases are the stretches between its awaits; an HTTP       *)
(* request of the operator that awaits the exchange is a task of its own.  *)
(***************************************************************************)
EXTENDS OrderTools, ControlState, SequencesExt

CONSTANTS
    Operators,  \* tasks that serve manual orders and cancels
    Requests    \* bound: the kinds of request the operator sends

ASSUME RunnerAssumption ==
    /\ IsFiniteSet(Tickers) /\ IsFiniteSet(Operators)
    /\ Operators = Cancellers
    /\ Operators \cap Sweepers = {}
    /\ "held" \in Terms
    /\ Requests \subseteq {"manual", "cancel", "kill", "pause", "lock", "events"}

VARIABLES
    run,     \* the runner's place in its cycle
    job,     \* task -> the request it serves
    atKill,  \* history: the orders issued before the last kill
    owed,    \* history: the orders that were under way at the last kill
    missed,  \* history: orders in the hands of a call when a kill's sweep began
    late     \* history: sides locked since the runner checked their ticker

lipVars == <<open, issued, resting, lock, call, cash, booted, crashes, sweep,
             slipped, spared, version, killState, globalPaused, pausedTickers,
             pausedSides, sideLock, theoOverride, knob, activeEvents, run, job,
             atKill, owed, missed, late>>

history == <<atKill, owed, missed, late>>

NoJob == [kind |-> "none", term |-> "none", event |-> None]

Asleep == [phase |-> "asleep", left |-> <<>>, ticker |-> None, sides |-> <<>>,
           plan |-> [s \in Sides |-> Skip]]

LipInit ==
    /\ ToolsInit
    /\ ControlInit
    /\ run = [Asleep EXCEPT !.phase = "boot"]
    /\ job = [t \in Operators \cup Sweepers |-> NoJob]
    /\ atKill = 0
    /\ owed = 0
    /\ missed = {}
    /\ late = {}

-----------------------------------------------------------------------------
(* The runner.                                                             *)

\* run(): reconcile, then the first cycle.  The server is up by then, and may
\* have placed an order that the listing does not show.
StartUp ==
    /\ run.phase = "boot"
    /\ \/ ~booted /\ Reconcile(Booter) /\ UNCHANGED <<tools, run>>
       \/ SweepRebuild(Booter) /\ run' = Asleep
    /\ UNCHANGED <<control, job, history>>

\* Mutant of Continue: the loop does not look at the kill switch again.
ContinueUnchecked(left) ==
    LET live(i) == left[i] \notin pausedTickers
    IN  \/ /\ \A i \in DOMAIN left : ~live(i)
           /\ run' = Asleep
        \/ \E i \in DOMAIN left :
             /\ live(i)
             /\ \A j \in 1 .. i - 1 : ~live(j)
             /\ run' = [Asleep EXCEPT !.phase = "quoting", !.ticker = left[i],
                          !.left = SubSeq(left, i + 1, Len(left))]

\* The loop over the tickers that are left: a killed or paused bot ends its
\* cycle here, and a paused ticker is passed over.
Continue(left) ==
    LET live(i) == ~ShouldSkipTicker(left[i])
    IN  \/ /\ \A i \in DOMAIN left : ~live(i)
           /\ run' = Asleep
        \/ \E i \in DOMAIN left :
             /\ live(i)
             /\ \A j \in 1 .. i - 1 : ~live(j)
             /\ run' = [Asleep EXCEPT !.phase = "quoting", !.ticker = left[i],
                          !.left = SubSeq(left, i + 1, Len(left))]

\* The top of a cycle: while killed or paused the cycle is over at once.  The
\* tickers are those of the active events, in an order that rotates.
Wake ==
    /\ run.phase = "asleep"
    /\ IF ShouldSkipCycle THEN UNCHANGED run
       ELSE \E seq \in SetToSeqs(ActiveTickers) :
              run' = [Asleep EXCEPT !.phase = "refresh", !.left = seq]
    /\ UNCHANGED <<book, manager, tools, control, job, history>>

\* The balance and the positions have been read: the cash is pushed into the
\* order manager, and the loop begins.
Refreshed ==
    /\ run.phase = "refresh"
    /\ \E c \in CashLevels : SetAvailableCash(c)
    /\ Continue(run.left)
    /\ UNCHANGED <<tools, control, job, history>>

\* The ticker source failed; or one ticker did (its event was not listed, no
\* book, no theo, a strategy's exception), and the next one follows.
CycleFailed ==
    /\ run.phase = "refresh"
    /\ run' = Asleep
    /\ UNCHANGED <<book, manager, tools, control, job, history>>

TickerFailed ==
    /\ run.phase = "quoting"
    /\ Continue(run.left)
    /\ UNCHANGED <<book, manager, tools, control, job, history>>

\* Bid first.
InOrder(sides) ==
    LET only(s) == IF s \in sides THEN <<s>> ELSE <<>>
    IN  only("bid") \o only("ask")

\* Mutant of SidesToApply: a locked side is handled like a paused one.
SidesToApplyLocked(bypass) == InOrder(Sides)

\* The sides that go to the order manager.
SidesToApply(bypass) == InOrder(Sides \ bypass)

\* Mutant of PlannedSide: a pause does not turn the decision into a skip.
PlannedSideUnpaused(k, d) == IF Locked(k) THEN Skip ELSE d

\* Pauses and locks turn the strategy's decision into a skip.
PlannedSide(k, d) == IF k \in pausedSides \/ Locked(k) THEN Skip ELSE d

\* The strategy has quoted and the gates have vetoed what they veto: pauses and
\* locks are looked at, here and not again.  A lock that expires while the book
\* was being read may count either way.
Judge ==
    /\ run.phase = "quoting"
    /\ \E plan \in [Sides -> Decisions],
          gone \in SUBSET {k \in {run.ticker} \X Sides : sideLock[k] = "lapsed"} :
         /\ DropLapsed(gone)
         /\ LET key(s) == <<run.ticker, s>>
                bypass == {s \in Sides :
                             sideLock[key(s)] # "none" /\ key(s) \notin gone}
            IN  run' = [run EXCEPT
                    !.phase = "applying",
                    !.sides = SidesToApply(bypass),
                    !.plan = [s \in Sides |-> PlannedSide(key(s), plan[s])]]
    /\ late' = {}
    /\ UNCHANGED <<book, manager, tools, job, atKill, owed, missed>>

\* apply() of the next side; the kill switch is not looked at between sides.
ApplySide ==
    /\ run.phase = "applying"
    /\ run.sides # <<>>
    /\ Apply(Booter, <<run.ticker, Head(run.sides)>>, run.plan[Head(run.sides)])
    /\ run' = [run EXCEPT !.sides = Tail(@)]
    /\ UNCHANGED <<tools, control, job, history>>

TickerDone ==
    /\ run.phase = "applying"
    /\ run.sides = <<>>
    /\ call[Booter].stage = "idle"
    /\ Continue(run.left)
    /\ UNCHANGED <<book, manager, tools, control, job, history>>

RunnerSteps ==
    \/ StartUp \/ Refreshed \/ CycleFailed \/ TickerFailed \/ Judge
    \/ ApplySide \/ TickerDone

RunnerCalls ==
    /\ Acquire(Booter) \/ Answer(Booter) \/ Resume(Booter)
    /\ UNCHANGED <<tools, control, run, job, history>>

-----------------------------------------------------------------------------
(* The operator's requests that await the exchange.                        *)

\* POST /control/manual_order: refused while killed, not while armed or paused;
\* may ask for a lock afterwards.
ManualOrder(t, k, q, term) ==
    /\ "manual" \in Requests /\ MoreCommands
    /\ term # "none" => "lock" \in Requests
    /\ job[t] = NoJob
    /\ killState # "killed"
    /\ Apply(t, k, q)
    /\ job' = [job EXCEPT ![t] = [NoJob EXCEPT !.kind = "manual", !.term = term]]
    /\ UNCHANGED <<tools, control, run, history>>

\* What submit_manual_order takes for success: the action is place_new, amend,
\* or cancel_and_replace, the last whether or not the replacement was placed.
Succeeded(t) ==
    /\ call[t].stage # "queued"
    /\ call[t].stage = "place" => call[t].reply = "ok"

\* The request is over: the lock that was asked for is set, whoever has worked
\* on the key since the order was placed.
ThenLock(t, term) ==
    /\ job' = [job EXCEPT ![t] = NoJob]
    /\ IF term = "none" THEN UNCHANGED <<control, late>>
       ELSE /\ LockSide(call[t].key, term)
            /\ late' = late \cup {call[t].key}

ManualSteps(t) ==
    /\ job[t].kind = "manual"
    /\ Acquire(t) \/ Answer(t) \/ Resume(t)
    /\ IF call'[t].stage = "idle"
       THEN ThenLock(t, IF Succeeded(t) THEN job[t].term ELSE "none")
       ELSE UNCHANGED <<job, control, late>>
    /\ UNCHANGED <<tools, run, atKill, owed, missed>>

\* POST /control/cancel_order: with auto_lock the side is locked for good.
CancelOrder(t, k, term) ==
    /\ "cancel" \in Requests /\ MoreCommands
    /\ term # "none" => "lock" \in Requests
    /\ job[t] = NoJob
    /\ FindOrder(t, k)
    /\ job' = [job EXCEPT ![t] = [NoJob EXCEPT !.kind = "cancel", !.term = term]]
    /\ UNCHANGED <<control, run, history>>

CancelOrderSteps(t) ==
    /\ job[t].kind = "cancel"
    /\ \/ /\ PullOrder(t) \/ (Answer(t) /\ UNCHANGED tools)
          /\ UNCHANGED <<control, job, late>>
       \/ /\ OrderPulled(t)
          /\ job' = [job EXCEPT ![t] = NoJob]
          /\ IF call[t].reply = "error" THEN UNCHANGED <<control, late>>
             ELSE /\ OrderCancelled(call[t].key, job[t].term)
                  /\ late' = IF job[t].term = "none" THEN late
                             ELSE late \cup {call[t].key}
    /\ UNCHANGED <<run, atKill, owed, missed>>

-----------------------------------------------------------------------------
(* The commands that sweep.                                                *)

\* The orders that may still be placed without another look at the kill switch:
\* the rest of the ticker in progress, and what the operator has sent.
UnderWay ==
    Cardinality({t \in Operators : job[t].kind = "manual"})
      + CASE run.phase = "quoting" -> Cardinality(Sides)
          [] run.phase = "applying" ->
               Len(run.sides) + (IF call[Booter].stage = "idle" THEN 0 ELSE 1)
          [] OTHER -> 0

\* POST /control/kill: the state at once; the sweep is a background task that
\* starts once the kill has been broadcast.
KillCommand(t) ==
    /\ "kill" \in Requests /\ MoreCommands
    /\ job[t] = NoJob
    /\ Kill
    /\ job' = [job EXCEPT ![t] = [NoJob EXCEPT !.kind = "killing"]]
    /\ atKill' = issued
    /\ owed' = UnderWay
    /\ UNCHANGED <<book, manager, tools, run, missed, late>>

StartKillSweep(t) ==
    /\ job[t].kind = "killing"
    /\ StartSweep(t, Keys)
    /\ job' = [job EXCEPT ![t] =
                  IF sweep'[t] = NoSweep THEN NoJob ELSE [@ EXCEPT !.kind = "kill"]]
    /\ missed' = missed \cup {o.id : o \in {p \in open : InHand(p)}}
    /\ UNCHANGED <<book, manager, control, run, atKill, owed, late>>

\* POST /control/remove_event with cancel_resting: the event's orders are swept
\* first, and the event leaves the set when the sweep is over.
RemoveAndSweep(t, e) ==
    /\ "events" \in Requests /\ MoreCommands
    /\ job[t] = NoJob
    /\ StartSweep(t, {k \in Keys : EventOf[k[1]] = e})
    /\ IF sweep'[t] = NoSweep THEN RemoveEvent(e) /\ UNCHANGED job
       ELSE /\ job' = [job EXCEPT ![t] =
                          [NoJob EXCEPT !.kind = "remove", !.event = e]]
            /\ UNCHANGED control
    /\ UNCHANGED <<book, manager, run, history>>

\* A step of a sweep; the one that ends it ends the job.
SweepOn(t) ==
    /\ SweepSteps(t)
    /\ IF sweep'[t] = NoSweep /\ call'[t] = Idle
       THEN /\ job' = [job EXCEPT ![t] = NoJob]
            /\ IF job[t].kind = "remove" THEN RemoveEvent(job[t].event)
               ELSE UNCHANGED control
       ELSE UNCHANGED <<job, control>>
    /\ UNCHANGED <<run, history>>

SweeperSteps(t) == StartKillSweep(t) \/ SweepOn(t)

-----------------------------------------------------------------------------
(* The other commands, and time.                                           *)

PauseCommand ==
    /\ "pause" \in Requests /\ MoreCommands
    /\ \/ PauseGlobal \/ ResumeGlobal
       \/ \E t \in Tickers : PauseTicker(t) \/ ResumeTicker(t)
       \/ \E k \in Keys : PauseSide(k) \/ ResumeSide(k)
    /\ UNCHANGED <<book, manager, tools, run, job, history>>

RecoverCommand ==
    /\ MoreCommands
    /\ Arm \/ ResumeAfterKill
    /\ UNCHANGED <<book, manager, tools, run, job, history>>

LockCommand ==
    /\ "lock" \in Requests /\ MoreCommands
    /\ \E k \in Keys :
         \/ UnlockSide(k) /\ UNCHANGED late
         \/ \E term \in Terms : LockSide(k, term) /\ late' = late \cup {k}
    /\ UNCHANGED <<book, manager, tools, run, job, atKill, owed, missed>>

\* A removal without cancel_resting leaves the orders.
EventCommand ==
    /\ "events" \in Requests /\ MoreCommands
    /\ \E e \in Events : AddEvent(e) \/ RemoveEvent(e)
    /\ UNCHANGED <<book, manager, tools, run, job, history>>

Clock ==
    /\ \E k \in Keys : LockLapses(k)
    /\ UNCHANGED <<book, manager, tools, run, job, history>>

LipNext ==
    \/ RunnerSteps
    \/ Wake
    \/ RunnerCalls
    \/ \E t \in Operators, k \in Keys, q \in Quotes, term \in Terms \cup {"none"} :
         ManualOrder(t, k, q, term)
    \/ \E t \in Operators, k \in Keys, term \in {"held", "none"} :
         CancelOrder(t, k, term)
    \/ \E t \in Operators : ManualSteps(t) \/ CancelOrderSteps(t)
    \/ \E t \in Sweepers : KillCommand(t) \/ SweeperSteps(t)
    \/ \E t \in Sweepers, e \in Events : RemoveAndSweep(t, e)
    \/ PauseCommand \/ RecoverCommand \/ LockCommand \/ EventCommand
    \/ Clock
    \/ MarketMoves /\ UNCHANGED <<tools, control, run, job, history>>

\* The event loop resumes whatever can go on, requests are answered or raise,
\* the runner's sleep ends, a key's lock goes round its waiters, and neither the
\* ticker source nor the reading of any one ticker fails for ever.
LipFairness ==
    /\ WF_lipVars(RunnerSteps) /\ WF_lipVars(Wake)
    /\ SF_lipVars(Refreshed)
    /\ \A i \in Tickers : SF_lipVars(run.ticker = i /\ Judge)
    /\ SF_lipVars(RunnerCalls)
    /\ \A t \in Operators :
         SF_lipVars(ManualSteps(t)) /\ SF_lipVars(CancelOrderSteps(t))
    /\ \A t \in Sweepers : WF_lipVars(SweeperSteps(t))

LipSpec == LipInit /\ [][LipNext]_lipVars /\ LipFairness

-----------------------------------------------------------------------------
(* Properties.                                                             *)

\* After a kill only what was under way can still place an order: the sides of
\* the ticker in progress, and the orders the operator had sent.
FewOrdersAfterKill ==
    killState = "killed" => issued - atKill <= owed

\* A sweep has yet to begin, or the order is in its list.
SweepToCome(o) ==
    \E t \in Sweepers :
        \/ job[t].kind = "killing"
        \/ sweep[t].stage # "idle" /\ o.id \in sweep[t].ids

\* After a kill an order from before it still rests for a reason: a sweep is to
\* come or has it in its list, a sweep had it there and its requests failed it
\* (a batch that cancels some, a cancel that is refused or raises and takes the
\* rest of the loop with it), a call had it in hand when the kill's sweep looked
\* at what is tracked, or an order has slipped from view.
KillTriesEverything ==
    killState = "killed" /\ ~slipped =>
        \A o \in open : o.id <= atKill => o.id \in spared \cup missed \/ SweepToCome(o)

\* The runner acts on an order: its request on the key is executed.
RunnerTouches(k) ==
    /\ Waiting(Booter)
    /\ call[Booter].key = k
    /\ RunnerCalls
    /\ open' # open

\* Hands off: the runner leaves a locked side alone, but for the ticker that it
\* had already checked when the lock was set.
HandsOff == [][\A k \in Keys : RunnerTouches(k) /\ Locked(k) => k \in late]_lipVars

\* Every cycle ends, whatever its calls have to wait for.
CyclesEnd == run.phase # "asleep" ~> run.phase = "asleep"

\* The runner quotes the side's ticker, and the operator's hands are off it.
Quoted(k) ==
    /\ ~ShouldSkipTicker(k[1])
    /\ k[1] \in ActiveTickers
    /\ sideLock[k] = "none"

\* A paused side is cleared: as long as the bot runs, its cancels reach the
\* exchange, answered or not, and no order has slipped from view, what rests on
\* the side is pulled.
PauseClears ==
    \A k \in Keys :
        (k \in pausedSides /\ Quoted(k))
          ~> \/ \A o \in open : o.key # k
             \/ k \notin pausedSides \/ ~Quoted(k)
             \/ slipped
=============================================================================
