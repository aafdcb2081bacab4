--------------------------- MODULE LipRunnerProofs ---------------------------
(***************************************************************************)
(* The whole bot: what a kill leaves under way, whose hands are off a      *)
(* locked side, and that no order is lost from view, for any set of        *)
(* strikes, operators, sweeps and commands.                                *)
(***************************************************************************)
EXTENDS OrderToolsProofs, LipRunner, FiniteSetTheorems, SequenceTheorems

-----------------------------------------------------------------------------
(* What the runner, the operators and the sweeps are doing.                *)

Phases == {"boot", "asleep", "refresh", "quoting", "applying"}

Runs == [phase : Phases, left : Seq(Tickers), ticker : Tickers \cup {None},
         sides : Seq(Sides), plan : [Sides -> Decisions]]

\* A cycle in a given phase.
RunOK(r) == r \in Runs /\ (r.phase \in {"quoting", "applying"} => r.ticker \in Tickers)

\* The runner has a call under way at startup, and while it applies a ticker.
RunnerShape ==
    /\ RunOK(run)
    /\ run.phase = "boot" => call[Booter].stage \in {"idle", "list"}
    /\ run.phase \in {"asleep", "refresh", "quoting"} => call[Booter].stage = "idle"
    /\ run.phase = "applying" => call[Booter].stage # "list"

\* An operator's task serves a manual order or a cancel.
ServesWell(j, f) ==
    \/ j.kind = "none" /\ f.stage = "idle"
    \/ /\ j.kind = "manual" /\ j.term \in Terms \cup {"none"}
       /\ f.stage \in Holding \cup {"queued"}
    \/ /\ j.kind = "cancel" /\ j.term \in {"held", "none"}
       /\ f.stage \in {"queued", "cancel"} /\ f.oid \in OrderIds

OperatorsShape ==
    /\ job = [t \in Operators \cup Sweepers |-> job[t]]
    /\ \A t \in Operators : ServesWell(job[t], call[t])

ControlShape ==
    /\ sideLock \in [Keys -> Records]
    /\ killState \in {"off", "killed", "armed"}

LipShape ==
    TInv /\ RunnerShape /\ SweepersShape /\ OperatorsShape /\ ControlShape

\* The runner, the operators and the sweeps are different tasks.
LEMMA Actors ==
  /\ Booter \in Tasks \ (Operators \cup Sweepers)
  /\ Operators \subseteq Tasks \ {Booter} /\ Sweepers \subseteq Tasks \ {Booter}
  /\ \A t \in Operators : t \notin Sweepers
  BY ManagerAssumption, ToolsAssumption, RunnerAssumption

LEMMA SkipPlan == [s \in Sides |-> Skip] \in [Sides -> Decisions]
  BY DEF Decisions

LEMMA AsleepOK ==
  /\ RunOK(Asleep) /\ Asleep.phase = "asleep"
  /\ \A left \in Seq(Tickers) :
       LET r == [Asleep EXCEPT !.phase = "refresh", !.left = left]
       IN  RunOK(r) /\ r.phase = "refresh"
  /\ \A left \in Seq(Tickers), i \in Tickers :
       LET r == [Asleep EXCEPT !.phase = "quoting", !.ticker = i, !.left = left]
       IN  RunOK(r) /\ r.phase = "quoting"
<1>1. <<>> \in Seq(Tickers) /\ <<>> \in Seq(Sides)
  OBVIOUS
<1> QED
  BY <1>1, SkipPlan DEF Asleep, RunOK, Runs, Phases

\* The loop goes on with a ticker, or the cycle is over; killed, it is over.
LEMMA ContinueOK ==
  ASSUME NEW left \in Seq(Tickers), Continue(left)
  PROVE  /\ RunOK(run')
         /\ run'.phase \in {"asleep", "quoting"}
         /\ killState = "killed" => run'.phase = "asleep"
<1>1. left \in [1 .. Len(left) -> Tickers] /\ Len(left) \in Nat /\ DOMAIN left = 1 .. Len(left)
  BY LenProperties
<1>2. CASE run' = Asleep
  BY <1>2, AsleepOK
<1>3. CASE \E i \in DOMAIN left :
             /\ ~ShouldSkipTicker(left[i])
             /\ run' = [Asleep EXCEPT !.phase = "quoting", !.ticker = left[i],
                          !.left = SubSeq(left, i + 1, Len(left))]
  <2>1. PICK i \in DOMAIN left :
             /\ ~ShouldSkipTicker(left[i])
             /\ run' = [Asleep EXCEPT !.phase = "quoting", !.ticker = left[i],
                          !.left = SubSeq(left, i + 1, Len(left))]
    BY <1>3
  <2>2. SubSeq(left, i + 1, Len(left)) \in Seq(Tickers)
    <3>1. i + 1 \in Int /\ Len(left) \in Int /\ \A j \in i + 1 .. Len(left) : left[j] \in Tickers
      BY <1>1, <2>1
    <3> QED
      BY <3>1, SubSeqProperties
  <2>3. left[i] \in Tickers
    BY <1>1, <2>1
  <2>4. killState # "killed"
    BY <2>1 DEF ShouldSkipTicker, ShouldSkipCycle
  <2> QED
    BY <2>1, <2>2, <2>3, <2>4, AsleepOK
<1> QED
  BY <1>2, <1>3 DEF Continue

LEMMA TwoSides ==
  IsFiniteSet({"bid", "ask"}) /\ Cardinality({"bid", "ask"}) = 2
<1>1. {"bid", "ask"} = {"bid"} \cup {"ask"} /\ "ask" \notin {"bid"}
  OBVIOUS
<1>2. IsFiniteSet({"bid"}) /\ Cardinality({"bid"}) = 1
  BY FS_Singleton
<1>3. /\ IsFiniteSet({"bid"} \cup {"ask"})
      /\ Cardinality({"bid"} \cup {"ask"}) = Cardinality({"bid"}) + 1
  BY <1>1, <1>2, FS_AddElement
<1> QED
  BY <1>1, <1>2, <1>3

LEMMA OrderedSides ==
  /\ InOrder({}) = <<>>
  /\ InOrder({"bid"}) = <<"bid">> /\ InOrder({"ask"}) = <<"ask">>
  /\ InOrder({"bid", "ask"}) = <<"bid", "ask">>
<1> DEFINE S == {"bid", "ask"}
<1>1. /\ <<>> \in Seq(S) /\ <<"bid">> \in Seq(S) /\ <<"ask">> \in Seq(S)
      /\ <<"bid", "ask">> \in Seq(S)
  OBVIOUS
<1>2. \A s \in Seq(S) : s \o <<>> = s /\ <<>> \o s = s
  BY ConcatEmptySeq
<1>3. <<"bid">> \o <<"ask">> = <<"bid", "ask">>
  <2>1. /\ <<"bid">> \o <<"ask">> \in Seq(S) /\ Len(<<"bid">> \o <<"ask">>) = 2
        /\ \A i \in 1 .. 2 : (<<"bid">> \o <<"ask">>)[i] = <<"bid", "ask">>[i]
    BY <1>1, ConcatProperties
  <2> QED
    BY <1>1, <2>1, SeqEqual
<1> HIDE DEF S
<1>4. InOrder({}) = <<>>
  BY <1>1, <1>2 DEF InOrder
<1>5. InOrder({"bid"}) = <<"bid">>
  BY <1>1, <1>2 DEF InOrder
<1>6. InOrder({"ask"}) = <<"ask">>
  BY <1>1, <1>2 DEF InOrder
<1>7. InOrder({"bid", "ask"}) = <<"bid", "ask">>
  BY <1>3 DEF InOrder
<1> QED
  BY <1>4, <1>5, <1>6, <1>7

\* The sides that are applied, in order: no more than there are, and none of the
\* bypassed.
LEMMA SidesApplied ==
  ASSUME NEW bypass
  PROVE  /\ SidesToApply(bypass) \in Seq(Sides)
         /\ Len(SidesToApply(bypass)) <= Cardinality(Sides)
         /\ \A i \in 1 .. Len(SidesToApply(bypass)) : SidesToApply(bypass)[i] \notin bypass
<1> DEFINE live == Sides \ bypass
<1>1. IsFiniteSet(Sides) /\ Cardinality(Sides) \in Nat
  <2>1. IsFiniteSet({"bid", "ask"})
    BY TwoSides
  <2> QED
    BY <2>1, StrikesAssumption, FS_Subset, FS_CardinalityType
<1>2. live \subseteq Sides /\ live \subseteq {"bid", "ask"}
  BY StrikesAssumption
<1> HIDE DEF live
<1>3. CASE "bid" \in live /\ "ask" \in live
  <2>1. live = {"bid", "ask"} /\ SidesToApply(bypass) = <<"bid", "ask">>
    BY <1>2, <1>3, OrderedSides DEF SidesToApply, live
  <2>2. {"bid", "ask"} \in SUBSET Sides
    BY <1>2, <1>3
  <2>3. 2 <= Cardinality(Sides)
    BY <1>1, <2>2, TwoSides, FS_Subset
  <2> QED
    BY <1>2, <1>3, <2>1, <2>3 DEF live
<1>4. ASSUME NEW s \in live, SidesToApply(bypass) = <<s>>
      PROVE  /\ SidesToApply(bypass) \in Seq(Sides)
             /\ Len(SidesToApply(bypass)) <= Cardinality(Sides)
             /\ \A i \in 1 .. Len(SidesToApply(bypass)) : SidesToApply(bypass)[i] \notin bypass
  <2>1. Cardinality({s}) = 1 /\ {s} \in SUBSET Sides
    BY <1>2, FS_Singleton
  <2>2. 1 <= Cardinality(Sides)
    BY <1>1, <2>1, FS_Subset
  <2> QED
    BY <1>2, <1>4, <2>2 DEF live
<1>5. CASE "bid" \in live /\ "ask" \notin live
  <2>1. live = {"bid"} /\ SidesToApply(bypass) = <<"bid">>
    BY <1>2, <1>5, OrderedSides DEF SidesToApply, live
  <2> QED
    BY <1>4, <1>5, <2>1
<1>6. CASE "bid" \notin live /\ "ask" \in live
  <2>1. live = {"ask"} /\ SidesToApply(bypass) = <<"ask">>
    BY <1>2, <1>6, OrderedSides DEF SidesToApply, live
  <2> QED
    BY <1>4, <1>6, <2>1
<1>7. CASE "bid" \notin live /\ "ask" \notin live
  <2>1. live = {} /\ SidesToApply(bypass) = <<>>
    BY <1>2, <1>7, OrderedSides DEF SidesToApply, live
  <2> QED
    BY <1>1, <2>1
<1> QED
  BY <1>3, <1>5, <1>6, <1>7

-----------------------------------------------------------------------------
(* What a step leaves alone.                                               *)

LEMMA SweepersStand ==
  ASSUME LipShape, NEW t \in Tasks \ Sweepers, \A u \in Tasks \ {t} : call'[u] = call[u],
         UNCHANGED sweep, slipped' \in BOOLEAN
  PROVE  SweepersShape'
  BY Actors DEF LipShape, SweepersShape

LEMMA OperatorsStand ==
  ASSUME LipShape, NEW t \in Tasks \ Operators, \A u \in Tasks \ {t} : call'[u] = call[u],
         \/ UNCHANGED job
         \/ t \in Sweepers /\ \E j : job' = [job EXCEPT ![t] = j]
  PROVE  OperatorsShape'
<1>1. \A u \in Operators : call'[u] = call[u]
  BY Actors
<1>2. job = [u \in Operators \cup Sweepers |-> job[u]]
  BY DEF LipShape, OperatorsShape
<1>3. job' = [u \in Operators \cup Sweepers |-> job'[u]] /\ \A u \in Operators : job'[u] = job[u]
  <2>1. CASE UNCHANGED job
    BY <1>2, <2>1
  <2>2. CASE t \in Sweepers /\ \E j : job' = [job EXCEPT ![t] = j]
    BY <1>2, <2>2, Actors
  <2> QED
    BY <2>1, <2>2
<1> QED
  BY <1>1, <1>3 DEF LipShape, OperatorsShape

LEMMA RunnerStands ==
  ASSUME LipShape, NEW t \in Tasks \ {Booter}, \A u \in Tasks \ {t} : call'[u] = call[u],
         UNCHANGED run
  PROVE  RunnerShape' /\ call'[Booter] = call[Booter]
  BY Actors DEF LipShape, RunnerShape

\* Nothing happens to the orders.
LEMMA OrdersStand ==
  ASSUME LipShape, UNCHANGED <<book, manager, tools>>
  PROVE  /\ TInv' /\ SweepersShape'
         /\ UNCHANGED <<open, issued, resting, lock, call, cash, booted, crashes, sweep, slipped>>
<1>1. UNCHANGED <<open, issued, resting, lock, call, cash, booted, crashes, sweep, slipped>>
  BY DEF book, manager, tools
<1>2. TInv'
  BY <1>1, OtherTInv DEF LipShape, vars
<1> QED
  BY <1>1, <1>2 DEF LipShape, SweepersShape

\* Only a kill and its recovery move the kill switch, and only locks, and time,
\* the locks.
LEMMA ControlStands ==
  ASSUME ControlShape,
         \/ UNCHANGED control
         \/ PauseGlobal \/ ResumeGlobal
         \/ \E t \in Tickers : PauseTicker(t) \/ ResumeTicker(t)
         \/ \E k \in Keys : PauseSide(k) \/ ResumeSide(k)
         \/ \E e : AddEvent(e) \/ RemoveEvent(e)
  PROVE  UNCHANGED <<killState, sideLock>> /\ ControlShape'
  BY DEF ControlShape, control, PauseGlobal, ResumeGlobal, PauseTicker, ResumeTicker,
     PauseSide, ResumeSide, AddEvent, RemoveEvent

LEMMA LocksMove ==
  ASSUME ControlShape,
         \/ \E k \in Keys, term \in Terms : LockSide(k, term)
         \/ \E k \in Keys, term \in {"held", "none"} : OrderCancelled(k, term)
         \/ \E k \in Keys : UnlockSide(k) \/ LockLapses(k)
         \/ \E ks : DropLapsed(ks)
  PROVE  UNCHANGED killState /\ ControlShape'
  BY ControlAssumption DEF ControlShape, LockSide, OrderCancelled, UnlockSide, LockLapses,
     DropLapsed, Records

-----------------------------------------------------------------------------
(* The runner's own steps.                                                 *)

\* The runner's cycle goes on, and nothing happens to the orders.
LEMMA RunMoves ==
  ASSUME LipShape, Wake \/ Refreshed \/ CycleFailed \/ TickerFailed \/ Judge \/ TickerDone
  PROVE  /\ TInv' /\ RunOK(run')
         /\ UNCHANGED <<open, issued, resting, lock, call, booted, sweep, slipped, job, killState>>
         /\ UNCHANGED <<atKill, owed>>
         /\ run'.phase \in {"asleep", "refresh", "quoting", "applying"}
         /\ call[Booter].stage = "idle"
         /\ ControlShape'
<1> USE DEF LipShape
<1>1. RunOK(run) /\ run.left \in Seq(Tickers)
  BY DEF RunnerShape, RunOK, Runs
<1>2. CASE Wake
  <2>1. CASE UNCHANGED run
    BY <1>1, <1>2, <2>1, OrdersStand, ControlStands DEF Wake, RunnerShape, history, control
  <2>2. CASE \E seq \in SetToSeqs(ActiveTickers) :
               run' = [Asleep EXCEPT !.phase = "refresh", !.left = seq]
    <3>1. Cardinality(ActiveTickers) \in Nat /\ ActiveTickers \in SUBSET Tickers
      BY RunnerAssumption, FS_Subset, FS_CardinalityType DEF ActiveTickers
    <3>2. PICK seq \in [1 .. Cardinality(ActiveTickers) -> ActiveTickers] :
               run' = [Asleep EXCEPT !.phase = "refresh", !.left = seq]
      BY <2>2 DEF SetToSeqs
    <3>3. seq \in Seq(Tickers)
      BY <3>1, <3>2
    <3> QED
      BY <1>2, <3>2, <3>3, AsleepOK, OrdersStand, ControlStands DEF Wake, RunnerShape, history, control
  <2> QED
    BY <1>2, <2>1, <2>2 DEF Wake
<1>3. CASE Refreshed
  <2>1. TInv' /\ UNCHANGED <<open, issued, resting, lock, call, booted>>
    BY <1>3, OtherTInv DEF Refreshed, SetAvailableCash, book
  <2>2. RunOK(run') /\ run'.phase \in {"asleep", "quoting"}
    BY <1>1, <1>3, ContinueOK DEF Refreshed
  <2> QED
    BY <1>3, <2>1, <2>2, ControlStands DEF Refreshed, tools, control, history, RunnerShape
<1>4. CASE CycleFailed
  BY <1>4, AsleepOK, OrdersStand, ControlStands DEF CycleFailed, RunnerShape, history, control
<1>5. CASE TickerFailed
  <2>1. RunOK(run') /\ run'.phase \in {"asleep", "quoting"}
    BY <1>1, <1>5, ContinueOK DEF TickerFailed
  <2> QED
    BY <1>5, <2>1, OrdersStand, ControlStands DEF TickerFailed, RunnerShape, history, control
<1>6. CASE TickerDone
  <2>1. RunOK(run') /\ run'.phase \in {"asleep", "quoting"}
    BY <1>1, <1>6, ContinueOK DEF TickerDone
  <2> QED
    BY <1>6, <2>1, OrdersStand, ControlStands DEF TickerDone, RunnerShape, history, control
<1>7. CASE Judge
  <2>1. /\ run.phase = "quoting"
        /\ UNCHANGED <<book, manager, tools, job, atKill, owed, missed>>
    BY <1>7 DEF Judge
  <2>2. PICK plan \in [Sides -> Decisions] : \E bypass :
           run' = [run EXCEPT
              !.phase = "applying", !.sides = SidesToApply(bypass),
              !.plan = [s \in Sides |-> PlannedSide(<<run.ticker, s>>, plan[s])]]
    BY <1>7 DEF Judge
  <2>3. [s \in Sides |-> PlannedSide(<<run.ticker, s>>, plan[s])] \in [Sides -> Decisions]
    BY <2>2 DEF PlannedSide, Decisions
  <2>4. RunOK(run') /\ run'.phase = "applying"
    <3>1. PICK bypass :
             run' = [run EXCEPT
                !.phase = "applying", !.sides = SidesToApply(bypass),
                !.plan = [s \in Sides |-> PlannedSide(<<run.ticker, s>>, plan[s])]]
      BY <2>2
    <3>2. SidesToApply(bypass) \in Seq(Sides)
      BY SidesApplied
    <3> QED
      BY <1>1, <2>1, <2>3, <3>1, <3>2 DEF RunOK, Runs, Phases
  <2>5. UNCHANGED killState /\ ControlShape'
    BY <1>7, LocksMove DEF Judge
  <2> QED
    BY <2>1, <2>4, <2>5, OrdersStand DEF RunnerShape
<1> QED
  BY <1>2, <1>3, <1>4, <1>5, <1>6, <1>7

\* apply() of the next side.
LEMMA SideMoves ==
  ASSUME LipShape, ApplySide
  PROVE  /\ run.phase = "applying" /\ run.sides # <<>> /\ run.sides \in Seq(Sides)
         /\ <<run.ticker, Head(run.sides)>> \in Keys
         /\ run.plan[Head(run.sides)] \in Decisions
         /\ Apply(Booter, <<run.ticker, Head(run.sides)>>, run.plan[Head(run.sides)])
         /\ call[Booter].stage = "idle" /\ call'[Booter].stage = "queued"
         /\ call'[Booter].key = <<run.ticker, Head(run.sides)>>
         /\ \A u \in Tasks \ {Booter} : call'[u] = call[u]
         /\ TInv' /\ RunOK(run') /\ run' = [run EXCEPT !.sides = Tail(run.sides)]
         /\ UNCHANGED <<book, resting, booted, sweep, slipped, control, job, history>>
<1>1. /\ run.phase = "applying" /\ run.sides # <<>> /\ run.sides \in Seq(Sides)
      /\ run.ticker \in Tickers /\ run.plan \in [Sides -> Decisions] /\ run \in Runs
  BY DEF ApplySide, LipShape, RunnerShape, RunOK, Runs
<1>2. Head(run.sides) \in Sides /\ Tail(run.sides) \in Seq(Sides)
  BY <1>1, HeadTailProperties
<1>3. /\ <<run.ticker, Head(run.sides)>> \in Keys
      /\ run.plan[Head(run.sides)] \in Decisions
  BY <1>1, <1>2 DEF Keys
<1> DEFINE k == <<run.ticker, Head(run.sides)>>
           d == run.plan[Head(run.sides)]
<1>4. Apply(Booter, k, d) /\ TInv
  BY DEF ApplySide, LipShape
<1>5. TInv' /\ \A u \in Tasks \ {Booter} : call'[u] = call[u]
  BY <1>3, <1>4, Actors, OtherTInv, OwnFrame
<1> HIDE DEF k, d
<1>6. call[Booter].stage = "idle" /\ call'[Booter].stage = "queued" /\ call'[Booter].key = k
  <2>1. call[Booter] \in Frame /\ call'[Booter] = [call[Booter] EXCEPT !.stage = "queued", !.key = k, !.want = d]
    BY <1>4, Actors DEF Apply, TInv, TypeOK
  <2>2. call[Booter].stage = "idle"
    BY <1>4 DEF Apply
  <2> DEFINE f == call[Booter]
  <2>3. f \in Frame /\ call'[Booter] = [f EXCEPT !.stage = "queued", !.key = k, !.want = d]
    BY <2>1
  <2> HIDE DEF f
  <2>4. call'[Booter].stage = "queued" /\ call'[Booter].key = k
    BY <2>3 DEF Frame
  <2> QED
    BY <2>2, <2>4
<1>7. run' = [run EXCEPT !.sides = Tail(run.sides)]
  BY DEF ApplySide
<1>8. RunOK(run')
  BY <1>1, <1>2, <1>7 DEF RunOK, Runs
<1> QED
  BY <1>1, <1>3, <1>4, <1>5, <1>6, <1>7, <1>8 DEF k, d, ApplySide, Apply, tools

LEMMA StartUpMoves ==
  ASSUME LipShape, StartUp
  PROVE  /\ TInv' /\ slipped' \in BOOLEAN
         /\ \A u \in Tasks \ {Booter} : call'[u] = call[u]
         /\ run.phase = "boot"
         /\ \/ call'[Booter].stage = "list" /\ UNCHANGED run
            \/ call'[Booter].stage = "idle" /\ run' = Asleep
         /\ UNCHANGED <<issued, sweep, control, job, history>>
<1> USE DEF LipShape
<1>1. TInv /\ Booter \in Tasks
  BY Actors
<1>2. CASE ~booted /\ Reconcile(Booter) /\ UNCHANGED <<tools, run>>
  <2>1. TInv' /\ call' = [call EXCEPT ![Booter] = [@ EXCEPT !.stage = "list"]] /\ issued' = issued
    BY <1>1, <1>2, OtherTInv DEF Reconcile, book
  <2>2. call'[Booter].stage = "list" /\ \A u \in Tasks \ {Booter} : call'[u] = call[u]
    BY <1>1, <2>1 DEF TInv, TypeOK, Frame
  <2> QED
    BY <1>2, <2>1, <2>2 DEF StartUp, tools, SweepersShape
<1>3. CASE SweepRebuild(Booter) /\ run' = Asleep
  <2>1. /\ TInv' /\ call' = [call EXCEPT ![Booter] = Idle] /\ issued' = issued
        /\ slipped' \in BOOLEAN /\ UNCHANGED sweep
    BY <1>1, <1>3, OtherTInv DEF SweepRebuild, Rebuild, book, SweepersShape
  <2>2. call'[Booter].stage = "idle" /\ \A u \in Tasks \ {Booter} : call'[u] = call[u]
    BY <1>1, <2>1, IdleType DEF TInv, TypeOK
  <2> QED
    BY <1>3, <2>1, <2>2 DEF StartUp
<1> QED
  BY <1>2, <1>3 DEF StartUp

-----------------------------------------------------------------------------
(* A call under way.                                                       *)

\* A call keeps its key until it returns, and a listing stays a listing.
LEMMA UnderWayMoves ==
  ASSUME LipShape, NEW t \in Tasks, Acquire(t) \/ Answer(t) \/ Resume(t)
  PROVE  /\ TInv'
         /\ \A u \in Tasks \ {t} : call'[u] = call[u]
         /\ call[t].stage \in Holding \cup {"queued"} =>
              /\ call'[t].stage \in Holding \cup {"idle"}
              /\ call'[t].stage # "idle" => call'[t].key = call[t].key
         /\ call[t].stage \notin Holding \cup {"queued"} =>
              /\ call[t].stage = "list" /\ call'[t].stage = "list"
              /\ UNCHANGED <<open, issued>>
<1>1. TInv
  BY DEF LipShape
<1>2. TInv' /\ \A u \in Tasks \ {t} : call'[u] = call[u]
  BY <1>1, AcquireTInv, AnswerTInv, ResumeTInv, OwnFrame
<1>3. CASE Acquire(t) \/ Resume(t)
  BY <1>1, <1>2, <1>3, CallMoves, IdleType
<1>4. CASE Answer(t)
  <2>1. /\ call'[t].stage = call[t].stage /\ call'[t].key = call[t].key
        /\ call[t].stage \in Holding \cup {"list"}
    BY <1>1, <1>4, AnswerStays DEF Waiting, Request, Holding
  <2>2. CASE call[t].stage = "list"
    <3>1. UNCHANGED book
      BY <1>4, <2>2, ListAnswer
    <3> QED
      BY <1>2, <2>1, <2>2, <3>1 DEF book, Holding
  <2>3. CASE call[t].stage \in Holding
    BY <1>2, <2>1, <2>3
  <2> QED
    BY <2>1, <2>2, <2>3
<1> QED
  BY <1>3, <1>4

\* One placement rests as one order at most: it is tried once, or the exchange
\* answers every placement that it executes.
PlacesOnce == MaxTries = 1 \/ <<"place", "unanswered">> \notin Faults

\* A call can place no order any more.
Spent(f) ==
    \/ f.stage = "idle"
    \/ f.stage \in {"place", "instead"} /\ f.reply # "none"

LEMMA AnswerIssues ==
  ASSUME TInv, NEW t \in Tasks, Answer(t)
  PROVE  /\ \/ issued' = issued
            \/ /\ issued' = issued + 1
               /\ call[t].stage \in {"place", "instead"}
               /\ PlacesOnce => Spent(call'[t])
         /\ ~Spent(call[t])
<1>1. /\ Waiting(t) /\ call'[t].stage = call[t].stage /\ ~Spent(call[t])
      /\ call \in [Tasks -> Frame] /\ call[t] \in Frame
  BY AnswerStays DEF Waiting, Request, Spent, TInv, TypeOK
<1>2. CASE PlaceAccepted(t)
  <2>1. issued' = issued + 1 /\ call[t].stage \in {"place", "instead"}
    BY <1>1, <1>2 DEF PlaceAccepted, Execute, Rest, Request, Waiting
  <2>2. call'[t] = [call[t] EXCEPT !.reply = "ok", !.oid = issued + 1]
    BY <1>1, <1>2 DEF PlaceAccepted, Reply
  <2> QED
    BY <1>1, <2>1, <2>2 DEF Spent, Frame
<1>3. CASE ResponseLost(t)
  <2>1. CASE Request[call[t].stage] = "place"
    <3>1. issued' = issued + 1 /\ call[t].stage \in {"place", "instead"}
      BY <1>1, <1>3, <2>1 DEF ResponseLost, Execute, Rest, Request, Waiting
    <3>2. MaxTries = 1 /\ PlacesOnce => Spent(call'[t])
      <4>1. ASSUME MaxTries = 1 PROVE ~(call[t].tries + 1 < MaxTries)
        BY <1>1, <4>1 DEF Frame
      <4>2. ASSUME MaxTries = 1 PROVE call'[t] = [call[t] EXCEPT !.reply = "error", !.oid = call[t].oid]
        BY <1>1, <1>3, <4>1, <4>2 DEF ResponseLost, Unanswered, Reply
      <4> QED
        BY <1>1, <3>1, <4>2 DEF Spent, Frame
    <3>3. MaxTries # 1 => ~PlacesOnce
      BY <1>3, <2>1 DEF ResponseLost, PlacesOnce
    <3> QED
      BY <1>1, <3>1, <3>2, <3>3
  <2>2. CASE Request[call[t].stage] # "place"
    BY <1>1, <1>3, <2>2 DEF ResponseLost, Execute, Reprice, Pull, book
  <2> QED
    BY <2>1, <2>2
<1>4. CASE ~PlaceAccepted(t) /\ ~ResponseLost(t)
  BY <1>1, <1>4 DEF Answer, AmendAccepted, CancelAcknowledged, OrderRejected, CancelRejected,
     ListAnswered, RequestLost, Execute, Reprice, Pull, book
<1> QED
  BY <1>2, <1>3, <1>4

LEMMA RunnerCallsMove ==
  ASSUME LipShape, RunnerCalls
  PROVE  /\ TInv' /\ UNCHANGED <<sweep, slipped, control, run, job, history>>
         /\ \A u \in Tasks \ {Booter} : call'[u] = call[u]
         /\ RunnerShape'
<1>1. Booter \in Tasks
  BY Actors
<1>2. UNCHANGED <<sweep, slipped, control, run, job, history>>
  BY DEF RunnerCalls, tools
<1>3. Acquire(Booter) \/ Answer(Booter) \/ Resume(Booter)
  BY DEF RunnerCalls
<1>4. run' = run
  BY <1>2
<1>5. RunnerShape'
  BY <1>1, <1>3, <1>4, UnderWayMoves DEF LipShape, RunnerShape, Holding, RunOK, Runs, Phases
<1> QED
  BY <1>1, <1>2, <1>3, <1>5, UnderWayMoves

-----------------------------------------------------------------------------
(* The operators' requests.                                                *)

\* A step of an operator's request; with it may come a lock of the side.
LEMMA OperatorMoves ==
  ASSUME LipShape, NEW t \in Operators,
         \/ \E k \in Keys, q \in Quotes, term \in Terms \cup {"none"} :
              ManualOrder(t, k, q, term)
         \/ \E k \in Keys, term \in {"held", "none"} : CancelOrder(t, k, term)
         \/ ManualSteps(t) \/ CancelOrderSteps(t)
  PROVE  /\ TInv' /\ slipped' \in BOOLEAN
         /\ \A u \in Tasks \ {t} : call'[u] = call[u]
         /\ UNCHANGED <<sweep, run, atKill, owed, killState>>
         /\ \A u \in (Operators \cup Sweepers) \ {t} : job'[u] = job[u]
         /\ job' = [u \in Operators \cup Sweepers |-> job'[u]]
         /\ ServesWell(job'[t], call'[t])
         /\ job[t].kind # "manual" =>
              issued' = issued /\ (killState = "killed" => job'[t].kind # "manual")
         /\ job[t].kind = "manual" => Acquire(t) \/ Answer(t) \/ Resume(t)
         /\ ControlShape'
<1> USE DEF LipShape
<1>1. /\ t \in Tasks \ Sweepers /\ ServesWell(job[t], call[t]) /\ t \in Operators \cup Sweepers
      /\ job = [u \in Operators \cup Sweepers |-> job[u]]
      /\ TInv /\ call[t] \in Frame /\ slipped \in BOOLEAN
  BY Actors DEF OperatorsShape, TInv, TypeOK, SweepersShape
<1>2. \A j : job' = [job EXCEPT ![t] = j] =>
        /\ job' = [u \in Operators \cup Sweepers |-> job'[u]]
        /\ \A u \in (Operators \cup Sweepers) \ {t} : job'[u] = job[u]
        /\ job'[t] = j
  BY <1>1
<1>3. NoJob.kind = "none"
  BY DEF NoJob
<1>4. ASSUME NEW k \in Keys, NEW q \in Quotes, NEW term \in Terms \cup {"none"},
             ManualOrder(t, k, q, term)
      PROVE  /\ TInv' /\ \A u \in Tasks \ {t} : call'[u] = call[u]
             /\ ServesWell(job'[t], call'[t]) /\ killState # "killed" /\ issued' = issued
             /\ job[t].kind = "none"
             /\ job' = [u \in Operators \cup Sweepers |-> job'[u]]
             /\ \A u \in (Operators \cup Sweepers) \ {t} : job'[u] = job[u]
             /\ UNCHANGED <<tools, control, run, atKill, owed>>
  <2>1. Apply(t, k, q) /\ q \in Decisions
    BY <1>4 DEF ManualOrder, Decisions
  <2>2. TInv' /\ \A u \in Tasks \ {t} : call'[u] = call[u]
    BY <1>1, <2>1, OtherTInv, OwnFrame
  <2>3. call'[t].stage = "queued" /\ issued' = issued
    <3>1. call'[t] = [call[t] EXCEPT !.stage = "queued", !.key = k, !.want = q]
      BY <1>1, <2>1 DEF Apply, TInv, TypeOK
    <3> QED
      BY <1>1, <2>1, <3>1 DEF Frame, Apply, book
  <2>4. job' = [job EXCEPT ![t] = [NoJob EXCEPT !.kind = "manual", !.term = term]]
    BY <1>4 DEF ManualOrder
  <2>5. job'[t].kind = "manual" /\ job'[t].term = term
    BY <1>2, <2>4 DEF NoJob
  <2> QED
    BY <1>2, <1>3, <1>4, <2>2, <2>3, <2>4, <2>5 DEF ManualOrder, ServesWell, history
<1>5. ASSUME NEW k \in Keys, NEW term \in {"held", "none"}, CancelOrder(t, k, term)
      PROVE  /\ TInv' /\ \A u \in Tasks \ {t} : call'[u] = call[u]
             /\ ServesWell(job'[t], call'[t]) /\ issued' = issued
             /\ job[t].kind = "none" /\ job'[t].kind = "cancel"
             /\ job' = [u \in Operators \cup Sweepers |-> job'[u]]
             /\ \A u \in (Operators \cup Sweepers) \ {t} : job'[u] = job[u]
             /\ UNCHANGED <<tools, control, run, atKill, owed>>
  <2>1. FindOrder(t, k)
    BY <1>5 DEF CancelOrder
  <2>2. TInv' /\ \A u \in Tasks \ {t} : call'[u] = call[u]
    BY <1>1, <2>1, FindTInv, OwnFrame
  <2>3. call'[t].stage = "queued" /\ call'[t].oid \in OrderIds
    BY <1>1, <2>1, FindTInv
  <2>4. job' = [job EXCEPT ![t] = [NoJob EXCEPT !.kind = "cancel", !.term = term]]
    BY <1>5 DEF CancelOrder
  <2>5. job'[t].kind = "cancel" /\ job'[t].term = term
    BY <1>2, <2>4 DEF NoJob
  <2> QED
    BY <1>2, <1>3, <1>5, <2>1, <2>2, <2>3, <2>4, <2>5
    DEF CancelOrder, FindOrder, book, ServesWell, history
<1>6. ASSUME ManualSteps(t)
      PROVE  /\ TInv' /\ \A u \in Tasks \ {t} : call'[u] = call[u]
             /\ ServesWell(job'[t], call'[t]) /\ killState' = killState
             /\ job[t].kind = "manual"
             /\ Acquire(t) \/ Answer(t) \/ Resume(t)
             /\ job' = [u \in Operators \cup Sweepers |-> job'[u]]
             /\ \A u \in (Operators \cup Sweepers) \ {t} : job'[u] = job[u]
             /\ UNCHANGED <<tools, run, atKill, owed>>
             /\ ControlShape'
  <2>1. /\ job[t].kind = "manual"
        /\ Acquire(t) \/ Answer(t) \/ Resume(t)
        /\ UNCHANGED <<tools, run, atKill, owed>>
    BY <1>6 DEF ManualSteps
  <2>2. /\ call[t].stage \in Holding \cup {"queued"} /\ call[t].key \in Keys
        /\ job[t].term \in Terms \cup {"none"}
    BY <1>1, <2>1 DEF ServesWell, TInv, Shape, ShapeOf, Holding
  <2>3. /\ TInv' /\ call'[t].stage \in Holding \cup {"idle"}
        /\ \A u \in Tasks \ {t} : call'[u] = call[u]
    BY <1>1, <2>1, <2>2, UnderWayMoves
  <2>4. CASE call'[t].stage = "idle"
    <3>1. PICK term \in {"none", job[t].term} : ThenLock(t, term)
      BY <1>6, <2>4 DEF ManualSteps
    <3>2. job' = [job EXCEPT ![t] = NoJob]
      BY <3>1 DEF ThenLock
    <3>3. CASE term = "none"
      BY <1>2, <1>3, <2>1, <2>3, <2>4, <3>1, <3>2, <3>3, ControlStands DEF ServesWell, ThenLock, control
    <3>4. CASE term # "none"
      <4>1. LockSide(call[t].key, term) /\ term \in Terms
        BY <2>2, <3>1, <3>4 DEF ThenLock
      <4>2. UNCHANGED killState /\ ControlShape'
        BY <2>2, <4>1, LocksMove
      <4> QED
        BY <1>2, <1>3, <2>1, <2>3, <2>4, <3>2, <4>2 DEF ServesWell
    <3> QED
      BY <3>3, <3>4
  <2>5. CASE call'[t].stage # "idle"
    <3>1. UNCHANGED <<job, control>>
      BY <1>6, <2>5 DEF ManualSteps
    <3> QED
      BY <1>1, <2>1, <2>2, <2>3, <2>5, <3>1, ControlStands DEF ServesWell, control
  <2> QED
    BY <2>4, <2>5
<1>7. ASSUME CancelOrderSteps(t)
      PROVE  /\ TInv' /\ \A u \in Tasks \ {t} : call'[u] = call[u]
             /\ ServesWell(job'[t], call'[t]) /\ killState' = killState
             /\ slipped' \in BOOLEAN /\ issued' = issued
             /\ job[t].kind = "cancel" /\ job'[t].kind # "manual"
             /\ job' = [u \in Operators \cup Sweepers |-> job'[u]]
             /\ \A u \in (Operators \cup Sweepers) \ {t} : job'[u] = job[u]
             /\ UNCHANGED <<sweep, run, atKill, owed>>
             /\ ControlShape'
  <2>1. /\ job[t].kind = "cancel" /\ job[t].term \in {"held", "none"}
        /\ call[t].stage \in {"queued", "cancel"} /\ call[t].oid \in OrderIds
        /\ UNCHANGED <<run, atKill, owed>>
        /\ call[t].key \in Keys
    BY <1>1, <1>7 DEF CancelOrderSteps, ServesWell, TInv, Shape, ShapeOf
  <2>2. CASE PullOrder(t) /\ UNCHANGED <<control, job, late>>
    <3>1. TInv' /\ \A u \in Tasks \ {t} : call'[u] = call[u]
      BY <1>1, <2>1, <2>2, PullTInv, OwnFrame
    <3>2. call'[t].stage = "cancel" /\ call'[t].oid = call[t].oid
      BY <1>1, <2>1, <2>2, PullTInv DEF PullOrder, Enter, TInv, TypeOK, Frame
    <3> QED
      BY <1>1, <2>1, <2>2, <3>1, <3>2, ControlStands DEF ServesWell, PullOrder, book, tools, control
  <2>3. CASE Answer(t) /\ UNCHANGED tools /\ UNCHANGED <<control, job, late>>
    <3>1. TInv' /\ \A u \in Tasks \ {t} : call'[u] = call[u]
      BY <1>1, <2>3, AnswerTInv, OwnFrame
    <3>2. call[t].stage = "cancel" /\ call'[t].stage = "cancel"
      BY <1>1, <2>1, <2>3, AnswerStays DEF Waiting, Request
    <3>3. call'[t].oid \in OrderIds
      BY <1>1, <3>1, <3>2 DEF TInv, Shape, ShapeOf
    <3>4. issued' = issued
      BY <1>1, <2>3, <3>2, AnswerIssues
    <3> QED
      BY <1>1, <2>1, <2>3, <3>1, <3>2, <3>3, <3>4, ControlStands DEF ServesWell, tools, control
  <2>4. CASE /\ OrderPulled(t)
             /\ job' = [job EXCEPT ![t] = NoJob]
             /\ IF call[t].reply = "error" THEN UNCHANGED <<control, late>>
                ELSE OrderCancelled(call[t].key, job[t].term)
    <3>1. OnSkipCancel(t) /\ UNCHANGED sweep /\ slipped' \in BOOLEAN
      BY <1>1, <2>4 DEF OrderPulled
    <3>2. TInv' /\ \A u \in Tasks \ {t} : call'[u] = call[u]
      BY <1>1, <3>1, ResumeTInv, OwnFrame DEF Resume
    <3>3. call'[t].stage = "idle" /\ issued' = issued
      BY <1>1, <3>1, IdleType DEF OnSkipCancel, Return, TInv, TypeOK, book
    <3>4. killState' = killState /\ ControlShape'
      <4>1. CASE call[t].reply = "error"
        BY <2>4, <4>1, ControlStands DEF control
      <4>2. CASE call[t].reply # "error"
        BY <2>1, <2>4, <4>2, LocksMove
      <4> QED
        BY <4>1, <4>2
    <3> QED
      BY <1>2, <1>3, <2>1, <2>4, <3>1, <3>2, <3>3, <3>4 DEF ServesWell
  <2> QED
    BY <1>7, <2>2, <2>3, <2>4 DEF CancelOrderSteps
<1>8. UNCHANGED control => killState' = killState /\ ControlShape'
  BY ControlStands DEF control
<1>9. UNCHANGED tools => UNCHANGED sweep /\ slipped' \in BOOLEAN
  BY <1>1 DEF tools
<1> QED
  BY <1>4, <1>5, <1>6, <1>7, <1>8, <1>9

-----------------------------------------------------------------------------
(* The sweeps, the other commands, the clock and the market.               *)

LEMMA SweeperMoves ==
  ASSUME LipShape, NEW t \in Sweepers,
         \/ KillCommand(t) \/ SweeperSteps(t)
         \/ \E e \in Events : RemoveAndSweep(t, e)
  PROVE  /\ TInv' /\ SweepersShape' /\ ControlShape'
         /\ \A u \in Tasks \ {t} : call'[u] = call[u]
         /\ UNCHANGED <<issued, booted, run, sideLock, late>>
         /\ UNCHANGED job \/ \E j : job' = [job EXCEPT ![t] = j]
         /\ \/ UNCHANGED <<killState, atKill, owed>>
            \/ /\ killState' = "killed" /\ atKill' = issued /\ owed' = UnderWay
               /\ UNCHANGED call
<1> USE DEF LipShape
<1>1. CASE KillCommand(t)
  <2>1. /\ Kill /\ UNCHANGED <<book, manager, tools>>
        /\ job' = [job EXCEPT ![t] = [NoJob EXCEPT !.kind = "killing"]]
        /\ atKill' = issued /\ owed' = UnderWay /\ UNCHANGED <<run, late>>
    BY <1>1 DEF KillCommand
  <2>2. ControlShape' /\ killState' = "killed" /\ UNCHANGED sideLock
    BY <2>1 DEF Kill, ControlShape
  <2> QED
    BY <2>1, <2>2, OrdersStand
<1>2. ASSUME NEW ks \in SUBSET Keys, StartSweep(t, ks), UNCHANGED <<book, manager>>
      PROVE  /\ TInv' /\ SweepersShape' /\ UNCHANGED <<issued, booted, call>>
  BY <1>2, StartMoves, SweptShape DEF SweptWell, SweepersShape
<1>3. CASE StartKillSweep(t)
  <2>1. /\ StartSweep(t, Keys)
        /\ UNCHANGED <<book, manager, control, run, atKill, owed, late>>
        /\ \E j : job' = [job EXCEPT ![t] = j]
    <3>1. job' = [job EXCEPT ![t] =
                    IF sweep'[t] = NoSweep THEN NoJob ELSE [@ EXCEPT !.kind = "kill"]]
      BY <1>3 DEF StartKillSweep
    <3> QED
      BY <1>3, <3>1 DEF StartKillSweep
  <2> QED
    BY <1>2, <2>1, ControlStands DEF control
<1>4. ASSUME NEW e \in Events, RemoveAndSweep(t, e)
      PROVE  /\ TInv' /\ SweepersShape' /\ ControlShape'
             /\ UNCHANGED <<issued, booted, call, run, history, sideLock, killState>>
             /\ UNCHANGED job \/ \E j : job' = [job EXCEPT ![t] = j]
  <2>1. /\ StartSweep(t, {k \in Keys : EventOf[k[1]] = e})
        /\ UNCHANGED <<book, manager, run, history>>
        /\ RemoveEvent(e) \/ UNCHANGED control
        /\ UNCHANGED job \/ job' = [job EXCEPT ![t] = [NoJob EXCEPT !.kind = "remove", !.event = e]]
    BY <1>4 DEF RemoveAndSweep
  <2> QED
    BY <1>2, <2>1, ControlStands
<1>5. CASE SweepOn(t)
  <2>1. /\ SweepSteps(t) /\ UNCHANGED <<run, history>>
        /\ UNCHANGED job \/ job' = [job EXCEPT ![t] = NoJob]
        /\ UNCHANGED control \/ \E e : RemoveEvent(e)
    BY <1>5 DEF SweepOn
  <2>2. /\ SweptWell(t) /\ slipped' \in BOOLEAN
        /\ UNCHANGED <<issued, booted>>
    BY <2>1, SweepMoves
  <2>3. TInv' /\ SweepersShape' /\ \A u \in Tasks \ {t} : call'[u] = call[u]
    BY <2>2, SweptShape DEF SweptWell
  <2>4. UNCHANGED <<killState, sideLock>> /\ ControlShape'
    BY <2>1, ControlStands
  <2> QED
    BY <2>1, <2>2, <2>3, <2>4 DEF history
<1> QED
  BY <1>1, <1>3, <1>4, <1>5 DEF SweeperSteps, history

LEMMA RestMoves ==
  ASSUME LipShape,
         \/ PauseCommand \/ RecoverCommand \/ LockCommand \/ EventCommand \/ Clock
         \/ MarketMoves /\ UNCHANGED <<tools, control, run, job, history>>
         \/ UNCHANGED lipVars
  PROVE  /\ TInv' /\ SweepersShape' /\ ControlShape'
         /\ UNCHANGED <<call, issued, booted, resting, run, job, atKill, owed, slipped>>
         /\ killState' = killState \/ killState' # "killed"
<1> USE DEF LipShape
<1>1. ASSUME UNCHANGED <<book, manager, tools, run, job, atKill, owed>>,
             ControlShape', killState' = killState \/ killState' # "killed"
      PROVE  /\ TInv' /\ SweepersShape' /\ ControlShape'
             /\ UNCHANGED <<call, issued, booted, resting, run, job, atKill, owed, slipped>>
             /\ killState' = killState \/ killState' # "killed"
  BY <1>1, OrdersStand
<1>2. CASE PauseCommand
  <2>1. /\ UNCHANGED <<book, manager, tools, run, job, history>>
        /\ \/ PauseGlobal \/ ResumeGlobal
           \/ \E t \in Tickers : PauseTicker(t) \/ ResumeTicker(t)
           \/ \E k \in Keys : PauseSide(k) \/ ResumeSide(k)
    BY <1>2 DEF PauseCommand
  <2> QED
    BY <1>1, <2>1, ControlStands DEF history
<1>3. CASE RecoverCommand
  BY <1>1, <1>3 DEF RecoverCommand, Arm, ResumeAfterKill, ControlShape, history
<1>4. CASE LockCommand
  <2>1. /\ UNCHANGED <<book, manager, tools, run, job, atKill, owed>>
        /\ \E k \in Keys : UnlockSide(k) \/ \E term \in Terms : LockSide(k, term)
    BY <1>4 DEF LockCommand
  <2>2. UNCHANGED killState /\ ControlShape'
    BY <2>1, LocksMove
  <2> QED
    BY <1>1, <2>1, <2>2
<1>5. CASE EventCommand
  <2>1. /\ UNCHANGED <<book, manager, tools, run, job, history>>
        /\ \E e : AddEvent(e) \/ RemoveEvent(e)
    BY <1>5 DEF EventCommand
  <2> QED
    BY <1>1, <2>1, ControlStands DEF history
<1>6. CASE Clock
  <2>1. /\ UNCHANGED <<book, manager, tools, run, job, history>>
        /\ \E k \in Keys : LockLapses(k)
    BY <1>6 DEF Clock
  <2>2. UNCHANGED killState /\ ControlShape'
    BY <2>1, LocksMove
  <2> QED
    BY <1>1, <2>1, <2>2 DEF history
<1>7. CASE MarketMoves /\ UNCHANGED <<tools, control, run, job, history>>
  <2>1. TInv' /\ ControlShape' /\ killState' = killState
    BY <1>7, OtherTInv, ControlStands
  <2>2. UNCHANGED <<resting, lock, call, booted>>
    BY <1>7 DEF MarketMoves, manager
  <2>3. issued' = issued
    BY <1>7, MarketType DEF MarketMoves, TInv, TypeOK
  <2> QED
    BY <1>7, <2>1, <2>2, <2>3 DEF tools, history, SweepersShape
<1>8. CASE UNCHANGED lipVars
  <2>1. UNCHANGED <<book, manager, tools, run, job, atKill, owed, control>>
    BY <1>8 DEF lipVars, book, manager, tools, control, settings
  <2> QED
    BY <1>1, <2>1, ControlStands
<1> QED
  BY <1>2, <1>3, <1>4, <1>5, <1>6, <1>7, <1>8

-----------------------------------------------------------------------------
(* The shape is kept.                                                      *)

LEMMA LipShapeInit == LipInit => LipShape
<1> SUFFICES ASSUME LipInit PROVE LipShape
  OBVIOUS
<1>1. \A t \in Tasks : call[t] = Idle
  BY DEF LipInit, ToolsInit, Init
<1>2. TInv
  BY TInvInit DEF LipInit, ToolsInit
<1>3. SweepersShape
  <2>1. NoSweep \in SweepStates /\ NoSweep.stage = "idle"
    BY DEF NoSweep, SweepStates
  <2> QED
    BY <1>1, <2>1, Actors, IdleType DEF LipInit, ToolsInit, SweepersShape
<1>4. RunnerShape
  <2>1. RunOK(run) /\ run.phase = "boot"
    BY AsleepOK DEF LipInit, RunOK, Runs, Phases, Asleep
  <2> QED
    BY <1>1, <2>1, Actors, IdleType DEF RunnerShape
<1>5. OperatorsShape
  BY <1>1, Actors, IdleType DEF LipInit, OperatorsShape, ServesWell, NoJob
<1>6. ControlShape
  BY DEF LipInit, ControlInit, ControlShape, Records
<1> QED
  BY <1>2, <1>3, <1>4, <1>5, <1>6 DEF LipShape

LEMMA LipShapeStep ==
  ASSUME LipShape, [LipNext]_lipVars
  PROVE  LipShape'
<1> USE DEF LipShape
<1>1. CASE Wake \/ Refreshed \/ CycleFailed \/ TickerFailed \/ Judge \/ TickerDone
  <2>1. RunnerShape' /\ SweepersShape' /\ OperatorsShape'
    BY <1>1, RunMoves DEF RunnerShape, SweepersShape, OperatorsShape
  <2> QED
    BY <1>1, <2>1, RunMoves
<1>2. CASE ApplySide
  <2>1. RunnerShape'
    BY <1>2, SideMoves DEF RunnerShape, RunOK, Runs
  <2> QED
    BY <1>2, <2>1, SideMoves, SweepersStand, OperatorsStand, ControlStands, Actors DEF SweepersShape
<1>3. CASE StartUp
  <2>1. RunnerShape'
    BY <1>3, StartUpMoves, AsleepOK DEF RunnerShape, RunOK, Runs
  <2> QED
    BY <1>3, <2>1, StartUpMoves, SweepersStand, OperatorsStand, ControlStands, Actors
<1>4. CASE RunnerCalls
  BY <1>4, RunnerCallsMove, SweepersStand, OperatorsStand, ControlStands, Actors DEF SweepersShape
<1>5. ASSUME NEW t \in Operators,
             \/ \E k \in Keys, q \in Quotes, term \in Terms \cup {"none"} :
                  ManualOrder(t, k, q, term)
             \/ \E k \in Keys, term \in {"held", "none"} : CancelOrder(t, k, term)
             \/ ManualSteps(t) \/ CancelOrderSteps(t)
      PROVE  LipShape'
  <2>1. OperatorsShape'
    BY <1>5, OperatorMoves, Actors DEF OperatorsShape
  <2> QED
    BY <1>5, <2>1, OperatorMoves, SweepersStand, RunnerStands, Actors
<1>6. ASSUME NEW t \in Sweepers,
             \/ KillCommand(t) \/ SweeperSteps(t)
             \/ \E e \in Events : RemoveAndSweep(t, e)
      PROVE  LipShape'
  BY <1>6, SweeperMoves, OperatorsStand, RunnerStands, Actors
<1>7. CASE \/ PauseCommand \/ RecoverCommand \/ LockCommand \/ EventCommand \/ Clock
           \/ MarketMoves /\ UNCHANGED <<tools, control, run, job, history>>
           \/ UNCHANGED lipVars
  <2>1. RunnerShape' /\ OperatorsShape'
    BY <1>7, RestMoves DEF RunnerShape, OperatorsShape
  <2> QED
    BY <1>7, <2>1, RestMoves
<1> QED
  BY <1>1, <1>2, <1>3, <1>4, <1>5, <1>6, <1>7 DEF LipNext, RunnerSteps

-----------------------------------------------------------------------------
(* What a kill leaves under way.                                           *)

\* A call places one order at most: one that did is spent, and stays so.
LEMMA CallSpends ==
  ASSUME LipShape, NEW t \in Tasks, call[t].stage # "list",
         Acquire(t) \/ Answer(t) \/ Resume(t)
  PROVE  \/ issued' = issued /\ (Spent(call[t]) => Spent(call'[t]))
         \/ /\ issued' = issued + 1 /\ ~Spent(call[t])
            /\ PlacesOnce => Spent(call'[t])
<1>1. TInv /\ IdleType
  BY IdleType DEF LipShape
<1>2. CASE Answer(t)
  BY <1>1, <1>2, AnswerIssues
<1>3. CASE Acquire(t)
  <2>1. issued' = issued /\ call[t].stage = "queued"
    BY <1>1, <1>3, CallMoves DEF book, Acquire, ReturnAtOnce, SkipCancel, TryAmend, TryPlace, Granted
  <2> QED
    BY <2>1 DEF Spent
<1>4. CASE Resume(t)
  <2>1. issued' = issued /\ call[t].stage \in Holding /\ call \in [Tasks -> Frame]
    BY <1>1, <1>4, CallMoves
    DEF book, Resume, OnSkipCancel, OnAmended, OnAmendFailed, OnReplaceCancel, OnPlaced,
        OnPlaceFailed, Answered, Request, Holding, TInv, TypeOK
  <2>2. ASSUME Spent(call[t]) PROVE Spent(call'[t])
    <3>1. OnPlaced(t) \/ OnPlaceFailed(t)
      BY <1>4, <2>1, <2>2
      DEF Spent, Holding, Resume, OnSkipCancel, OnAmended, OnAmendFailed, OnReplaceCancel
    <3>2. call'[t].stage = "idle"
      BY <2>1, <3>1, IdleType DEF OnPlaced, OnPlaceFailed, Return
    <3> QED
      BY <3>2 DEF Spent
  <2> QED
    BY <2>1, <2>2
<1> QED
  BY <1>2, <1>3, <1>4

\* The operators' requests that can still place an order, and how many orders
\* the runner may still place before it looks at the kill switch again.
CouldPlace == {t \in Operators : job[t].kind = "manual" /\ ~Spent(call[t])}

May(r, f) ==
    IF r.phase = "quoting" THEN Cardinality(Sides)
    ELSE IF r.phase = "applying"
    THEN Len(r.sides) + (IF Spent(f) THEN 0 ELSE 1)
    ELSE 0

MayPlace == May(run, call[Booter])

\* The orders issued since the kill, and those that may still be, are no more
\* than what was owed at the kill.
KillBound ==
    /\ issued \in Nat /\ atKill \in Nat /\ owed \in Nat
    /\ killState = "killed" =>
         issued - atKill + Cardinality(CouldPlace) + MayPlace <= owed

LEMMA MayType ==
  ASSUME NEW r, RunOK(r), NEW f
  PROVE  /\ May(r, f) \in Nat
         /\ Cardinality(Sides) \in Nat /\ Len(r.sides) \in Nat
<1>1. Cardinality(Sides) \in Nat
  BY TwoSides, StrikesAssumption, FS_Subset, FS_CardinalityType
<1>2. r.sides \in Seq(Sides)
  BY DEF RunOK, Runs
<1>3. Len(r.sides) \in Nat
  BY <1>2, LenProperties
<1>4. \A n \in Nat : n + (IF Spent(f) THEN 0 ELSE 1) \in Nat
  <2>1. \A n \in Nat : n + 0 \in Nat /\ n + 1 \in Nat
    OBVIOUS
  <2> QED
    BY <2>1, Zenon
<1> QED
  BY <1>1, <1>3, <1>4 DEF May

LEMMA Counts ==
  ASSUME LipShape
  PROVE  IsFiniteSet(CouldPlace) /\ Cardinality(CouldPlace) \in Nat
<1>1. CouldPlace \in SUBSET Operators
  BY DEF CouldPlace
<1> QED
  BY <1>1, RunnerAssumption, FS_Subset, FS_CardinalityType

LEMMA FewerCould ==
  ASSUME LipShape, CouldPlace' \subseteq CouldPlace
  PROVE  /\ Cardinality(CouldPlace') <= Cardinality(CouldPlace)
         /\ Cardinality(CouldPlace)' \in Nat
         /\ \A t \in CouldPlace \ CouldPlace' :
              Cardinality(CouldPlace') <= Cardinality(CouldPlace) - 1
<1>1. IsFiniteSet(CouldPlace) /\ Cardinality(CouldPlace) \in Nat
  BY Counts
<1>2. CouldPlace' \in SUBSET CouldPlace
  OBVIOUS
<1>3. /\ IsFiniteSet(CouldPlace') /\ Cardinality(CouldPlace') \in Nat
      /\ Cardinality(CouldPlace') <= Cardinality(CouldPlace)
  BY <1>1, <1>2, FS_Subset, FS_CardinalityType
<1>4. ASSUME NEW t \in CouldPlace \ CouldPlace'
      PROVE  Cardinality(CouldPlace') <= Cardinality(CouldPlace) - 1
  <2>1. /\ IsFiniteSet(CouldPlace \ {t})
        /\ Cardinality(CouldPlace \ {t}) = Cardinality(CouldPlace) - 1
    BY <1>1, FS_RemoveElement
  <2>2. CouldPlace' \in SUBSET (CouldPlace \ {t})
    BY <1>2
  <2> QED
    BY <2>1, <2>2, FS_Subset
<1> QED
  BY <1>3, <1>4

\* No order is issued, and the runner has no more to place than before.
LEMMA BoundStep ==
  ASSUME LipShape, KillBound, LipShape', UNCHANGED <<atKill, owed>>,
         killState' = killState \/ killState' # "killed",
         killState = "killed" =>
            /\ CouldPlace' \subseteq CouldPlace
            /\ \/ issued' = issued /\ MayPlace' <= MayPlace
               \/ issued' = issued + 1 /\ MayPlace' <= MayPlace - 1
               \/ issued' = issued + 1 /\ MayPlace' <= MayPlace /\ CouldPlace' # CouldPlace
  PROVE  KillBound'
<1>1. /\ issued \in Nat /\ issued' \in Nat /\ Cardinality(CouldPlace) \in Nat
      /\ issued \in Int /\ issued' \in Int
  <2>1. issued' \in Nat
    BY ExchangeAssumption DEF LipShape, TInv, TypeOK, BookTypeOK
  <2> QED
    BY <2>1, Counts DEF KillBound
<1>2. MayPlace \in Nat /\ MayPlace' \in Nat
  BY MayType DEF MayPlace, LipShape, RunnerShape
<1> HIDE DEF MayPlace
<1>3. /\ Cardinality(CouldPlace') = Cardinality(CouldPlace)'
      /\ CouldPlace' \subseteq CouldPlace =>
           /\ Cardinality(CouldPlace') <= Cardinality(CouldPlace)
           /\ Cardinality(CouldPlace)' \in Nat
           /\ CouldPlace' # CouldPlace =>
                Cardinality(CouldPlace') <= Cardinality(CouldPlace) - 1
  BY FewerCould
<1> QED
  BY <1>1, <1>2, <1>3 DEF KillBound

\* Killed, the runner finishes the ticker it is at and no other.
LEMMA RunSpends ==
  ASSUME LipShape, killState = "killed",
         Wake \/ Refreshed \/ CycleFailed \/ TickerFailed \/ Judge \/ TickerDone
  PROVE  MayPlace' <= MayPlace
<1>1. /\ call[Booter].stage = "idle" /\ call' = call
      /\ MayPlace \in Nat /\ MayPlace' \in Nat
      /\ RunOK(run) /\ run.left \in Seq(Tickers)
  <2>1. MayPlace \in Nat /\ MayPlace' \in Nat
    BY RunMoves, MayType DEF MayPlace, LipShape, RunnerShape
  <2> QED
    BY <2>1, RunMoves DEF LipShape, RunnerShape, RunOK, Runs
<1>2. run'.phase = "asleep" => MayPlace' = 0
  BY DEF MayPlace, May
<1>3. Spent(call[Booter]) /\ Spent(call[Booter])'
  BY <1>1 DEF Spent
<1>4. CASE Wake
  <2>1. run' = run
    BY <1>4 DEF Wake, ShouldSkipCycle
  <2>2. MayPlace' = MayPlace
    BY <1>1, <2>1 DEF MayPlace
  <2> QED
    BY <1>1, <2>2
<1>5. CASE Refreshed \/ TickerFailed \/ TickerDone
  <2>1. run'.phase = "asleep"
    BY <1>1, <1>5, ContinueOK DEF Refreshed, TickerFailed, TickerDone
  <2>2. MayPlace' = 0 /\ MayPlace \in Nat
    BY <1>1, <1>2, <2>1, Zenon
  <2> QED
    BY <2>2
<1>6. CASE CycleFailed
  <2>1. run'.phase = "asleep"
    BY <1>6, AsleepOK DEF CycleFailed
  <2>2. MayPlace' = 0 /\ MayPlace \in Nat
    BY <1>1, <1>2, <2>1, Zenon
  <2> QED
    BY <2>2
<1>7. CASE Judge
  <2>1. PICK bypass :
          /\ run.phase = "quoting" /\ run'.phase = "applying"
          /\ run'.sides = SidesToApply(bypass)
    BY <1>1, <1>7 DEF Judge, RunOK, Runs
  <2>2. MayPlace = Cardinality(Sides)
    BY <2>1 DEF MayPlace, May
  <2>3. MayPlace' = Len(run'.sides) + 0
    BY <1>3, <2>1 DEF MayPlace, May
  <2>4. Len(run'.sides) <= Cardinality(Sides) /\ Len(run'.sides) \in Nat
    <3>1. Len(SidesToApply(bypass)) \in Nat
      BY SidesApplied, LenProperties
    <3> QED
      BY <2>1, <3>1, SidesApplied
  <2> QED
    BY <2>2, <2>3, <2>4
<1> QED
  BY <1>4, <1>5, <1>6, <1>7

LEMMA KillBoundStep ==
  ASSUME PlacesOnce, LipShape, KillBound, [LipNext]_lipVars
  PROVE  KillBound'
<1> USE DEF LipShape
<1>1. LipShape'
  BY LipShapeStep
<1>2. /\ MayPlace \in Nat /\ MayPlace' \in Nat
      /\ issued \in Nat /\ Cardinality(CouldPlace) \in Nat
  BY <1>1, MayType, Counts DEF MayPlace, RunnerShape, KillBound
<1>3. CASE Wake \/ Refreshed \/ CycleFailed \/ TickerFailed \/ Judge \/ TickerDone
  <2>1. /\ UNCHANGED <<issued, killState, atKill, owed>> /\ CouldPlace' = CouldPlace
        /\ killState = "killed" => MayPlace' <= MayPlace
    BY <1>3, RunMoves, RunSpends DEF CouldPlace
  <2> QED
    BY <1>1, <2>1, BoundStep
<1>4. CASE ApplySide
  <2>1. CouldPlace' = CouldPlace
    BY <1>4, SideMoves, Actors DEF CouldPlace
  <2>2. Spent(call[Booter]) /\ ~Spent(call[Booter])'
    BY <1>4, SideMoves DEF Spent
  <2>3. /\ run.phase = "applying" /\ run'.phase = "applying" /\ run'.sides = Tail(run.sides)
        /\ run.sides \in Seq(Sides) /\ run.sides # <<>>
    BY <1>4, SideMoves DEF RunOK, Runs, RunnerShape
  <2>4. Len(run'.sides) = Len(run.sides) - 1 /\ Len(run.sides) \in Nat
    BY <2>3, HeadTailProperties, LenProperties
  <2>5. MayPlace = Len(run.sides) + 0 /\ MayPlace' = Len(run'.sides) + 1
    BY <2>2, <2>3 DEF MayPlace, May
  <2>6. MayPlace' <= MayPlace
    BY <2>4, <2>5
  <2>7. UNCHANGED <<issued, killState, atKill, owed>>
    BY <1>4, SideMoves DEF book, control, history
  <2> QED
    BY <1>1, <2>1, <2>6, <2>7, BoundStep
<1>5. CASE StartUp
  <2>1. CouldPlace' = CouldPlace
    BY <1>5, StartUpMoves, Actors DEF CouldPlace
  <2>2. MayPlace' = 0
    BY <1>5, StartUpMoves, AsleepOK DEF MayPlace, May
  <2>3. UNCHANGED <<issued, killState, atKill, owed>>
    BY <1>5, StartUpMoves DEF control, history
  <2> QED
    BY <1>1, <1>2, <2>1, <2>2, <2>3, BoundStep
<1>6. CASE RunnerCalls
  <2>1. /\ Booter \in Tasks /\ (Acquire(Booter) \/ Answer(Booter) \/ Resume(Booter))
        /\ UNCHANGED <<run, job, killState, atKill, owed>>
    BY <1>6, Actors DEF RunnerCalls, control, history
  <2>2. CouldPlace' = CouldPlace
    BY <1>6, RunnerCallsMove, Actors DEF CouldPlace
  <2>3. CASE call[Booter].stage = "list"
    <3>1. issued' = issued /\ run.phase \notin {"quoting", "applying"}
      BY <2>1, <2>3, UnderWayMoves DEF RunnerShape, Holding
    <3>2. MayPlace' = 0
      BY <2>1, <3>1 DEF MayPlace, May
    <3> QED
      BY <1>1, <1>2, <2>1, <2>2, <3>1, <3>2, BoundStep
  <2>4. CASE call[Booter].stage # "list"
    <3>1. run.phase = "applying"
      <4>1. call[Booter].stage \in Holding \cup {"queued"}
        BY <2>1, <2>4, UnderWayMoves
      <4> QED
        BY <4>1 DEF RunnerShape, Holding, RunOK, Runs, Phases
    <3>2. Len(run.sides) \in Nat
      BY MayType DEF RunnerShape
    <3>3. /\ Spent(call[Booter]) => MayPlace = Len(run.sides) + 0
          /\ ~Spent(call[Booter]) => MayPlace = Len(run.sides) + 1
          /\ Spent(call'[Booter]) => MayPlace' = Len(run.sides) + 0
          /\ ~Spent(call'[Booter]) => MayPlace' = Len(run.sides) + 1
      BY <2>1, <3>1 DEF MayPlace, May
    <3>4. \/ issued' = issued /\ MayPlace' <= MayPlace
          \/ issued' = issued + 1 /\ MayPlace' <= MayPlace - 1
      <4>1. \/ issued' = issued /\ (Spent(call[Booter]) => Spent(call'[Booter]))
            \/ issued' = issued + 1 /\ ~Spent(call[Booter]) /\ Spent(call'[Booter])
        BY <2>1, <2>4, CallSpends
      <4> QED
        BY <3>2, <3>3, <4>1
    <3> QED
      BY <1>1, <2>1, <2>2, <3>4, BoundStep
  <2> QED
    BY <2>3, <2>4
<1>7. ASSUME NEW t \in Operators,
             \/ \E k \in Keys, q \in Quotes, term \in Terms \cup {"none"} :
                  ManualOrder(t, k, q, term)
             \/ \E k \in Keys, term \in {"held", "none"} : CancelOrder(t, k, term)
             \/ ManualSteps(t) \/ CancelOrderSteps(t)
      PROVE  KillBound'
  <2>1. /\ UNCHANGED <<run, killState, atKill, owed>>
        /\ call'[Booter] = call[Booter]
        /\ \A u \in Operators \ {t} : call'[u] = call[u] /\ job'[u] = job[u]
    BY <1>7, OperatorMoves, Actors
  <2>2. MayPlace' = MayPlace
    BY <2>1 DEF MayPlace
  <2>3. t \in Tasks /\ ServesWell(job[t], call[t])
    BY Actors DEF OperatorsShape
  <2>4. CASE job[t].kind # "manual"
    <3>1. issued' = issued /\ (killState = "killed" => job'[t].kind # "manual")
      BY <1>7, <2>4, OperatorMoves
    <3>2. killState = "killed" => CouldPlace' \subseteq CouldPlace
      BY <2>1, <3>1 DEF CouldPlace
    <3> QED
      BY <1>1, <1>2, <2>1, <2>2, <3>1, <3>2, BoundStep
  <2>5. CASE job[t].kind = "manual"
    <3>1. Acquire(t) \/ Answer(t) \/ Resume(t)
      BY <1>7, <2>5, OperatorMoves
    <3>2. call[t].stage # "list"
      BY <2>3, <2>5 DEF ServesWell, Holding
    <3>3. \/ issued' = issued /\ (Spent(call[t]) => Spent(call'[t]))
          \/ issued' = issued + 1 /\ ~Spent(call[t]) /\ Spent(call'[t])
      BY <2>3, <3>1, <3>2, CallSpends
    <3>4. CouldPlace' \subseteq CouldPlace
      BY <2>1, <2>5, <3>3 DEF CouldPlace
    <3>5. issued' # issued => CouldPlace' # CouldPlace
      <4>1. issued' # issued => t \in CouldPlace /\ t \notin CouldPlace'
        BY <2>5, <3>3 DEF CouldPlace
      <4> QED
        BY <4>1
    <3> QED
      BY <1>1, <1>2, <2>1, <2>2, <3>3, <3>4, <3>5, BoundStep
  <2> QED
    BY <2>4, <2>5
<1>8. ASSUME NEW t \in Sweepers,
             \/ KillCommand(t) \/ SweeperSteps(t)
             \/ \E e \in Events : RemoveAndSweep(t, e)
      PROVE  KillBound'
  <2>1. /\ UNCHANGED <<issued, run>> /\ call'[Booter] = call[Booter]
        /\ \A u \in Operators : call'[u] = call[u]
    BY <1>8, SweeperMoves, Actors
  <2>2. \A u \in Operators : job'[u] = job[u]
    <3>1. job = [u \in Operators \cup Sweepers |-> job[u]]
      BY DEF OperatorsShape
    <3>2. UNCHANGED job \/ \E j : job' = [job EXCEPT ![t] = j]
      BY <1>8, SweeperMoves
    <3> QED
      BY <3>1, <3>2, Actors
  <2>3. CouldPlace' = CouldPlace /\ MayPlace' = MayPlace
    BY <2>1, <2>2 DEF CouldPlace, MayPlace
  <2>4. CASE UNCHANGED <<killState, atKill, owed>>
    BY <1>1, <1>2, <2>1, <2>3, <2>4, BoundStep
  <2>5. CASE atKill' = issued /\ owed' = UnderWay /\ UNCHANGED call
    <3> DEFINE Manual == {u \in Operators : job[u].kind = "manual"}
               May1 == CASE run.phase = "quoting" -> Cardinality(Sides)
                         [] run.phase = "applying" ->
                              Len(run.sides) + (IF call[Booter].stage = "idle" THEN 0 ELSE 1)
                         [] OTHER -> 0
    <3>1. Manual \in SUBSET Operators /\ CouldPlace \in SUBSET Manual
      BY DEF CouldPlace
    <3>2. /\ Cardinality(Manual) \in Nat
          /\ Cardinality(CouldPlace) <= Cardinality(Manual)
      BY <3>1, RunnerAssumption, FS_Subset, FS_CardinalityType
    <3>3. UnderWay = Cardinality(Manual) + May1
      BY DEF UnderWay
    <3>4. May1 \in Nat /\ MayPlace <= May1
      <4>1. Cardinality(Sides) \in Nat /\ Len(run.sides) \in Nat
        BY MayType DEF RunnerShape
      <4>2. call[Booter].stage = "idle" => Spent(call[Booter])
        BY DEF Spent
      <4>3. CASE run.phase = "quoting"
        BY <4>1, <4>3 DEF MayPlace, May
      <4>4. CASE run.phase = "applying"
        <5>1. /\ call[Booter].stage = "idle" => May1 = Len(run.sides) + 0
              /\ call[Booter].stage # "idle" => May1 = Len(run.sides) + 1
          BY <4>4
        <5>2. \/ MayPlace = Len(run.sides) + 0
              \/ MayPlace = Len(run.sides) + 1 /\ call[Booter].stage # "idle"
          BY <4>2, <4>4 DEF MayPlace, May
        <5> HIDE DEF May1
        <5> QED
          BY <4>1, <5>1, <5>2
      <4>5. CASE run.phase \notin {"quoting", "applying"}
        <5>1. May1 = 0
          BY <4>5
        <5>2. MayPlace = 0
          BY <4>5 DEF MayPlace, May
        <5> HIDE DEF May1
        <5> QED
          BY <5>1, <5>2
      <4> HIDE DEF May1
      <4> QED
        BY <4>3, <4>4, <4>5
    <3> HIDE DEF Manual, May1
    <3>5. owed' \in Nat /\ Cardinality(CouldPlace) + MayPlace <= owed'
      BY <1>2, <2>5, <3>2, <3>3, <3>4
    <3>6. /\ issued' \in Nat /\ atKill' \in Nat
          /\ issued' - atKill' = 0
      BY <1>2, <2>1, <2>5
    <3>7. /\ Cardinality(CouldPlace)' = Cardinality(CouldPlace)
          /\ MayPlace' = MayPlace
      BY <2>3
    <3>8. \A c, m \in Nat, w \in Nat : c + m <= w => 0 + c + m <= w
      OBVIOUS
    <3>9. 0 + Cardinality(CouldPlace) + MayPlace <= owed'
      BY <1>2, <3>5, <3>8
    <3> QED
      BY <3>5, <3>6, <3>7, <3>9, Zenon DEF KillBound
  <2> QED
    BY <1>8, <2>4, <2>5, SweeperMoves
<1>9. CASE \/ PauseCommand \/ RecoverCommand \/ LockCommand \/ EventCommand \/ Clock
           \/ MarketMoves /\ UNCHANGED <<tools, control, run, job, history>>
           \/ UNCHANGED lipVars
  <2>1. /\ UNCHANGED <<call, issued, run, job, atKill, owed>>
        /\ killState' = killState \/ killState' # "killed"
    BY <1>9, RestMoves
  <2>2. CouldPlace' = CouldPlace /\ MayPlace' = MayPlace
    BY <2>1 DEF CouldPlace, MayPlace
  <2> QED
    BY <1>1, <1>2, <2>1, <2>2, BoundStep
<1> QED
  BY <1>3, <1>4, <1>5, <1>6, <1>7, <1>8, <1>9 DEF LipNext, RunnerSteps

\* After a kill only what was under way at the kill can still place an order,
\* with any number of strikes, operators and sweeps (lipmm/runner/runner.py,
\* _process_ticker): as long as one placement rests as one order.  (One that
\* the exchange executes and does not answer is sent again, and may rest twice:
\* feeds/kalshi/client.py, _request.)
THEOREM KillLeavesLittle ==
  ASSUME PlacesOnce PROVE LipSpec => []FewOrdersAfterKill
<1>1. LipInit => LipShape /\ KillBound
  <2>1. LipInit => KillBound
    BY ExchangeAssumption
    DEF LipInit, ToolsInit, Init, EmptyBook, ControlInit, KillBound
  <2> QED
    BY <2>1, LipShapeInit
<1>2. LipShape /\ KillBound /\ [LipNext]_lipVars => (LipShape /\ KillBound)'
  BY PlacesOnce, LipShapeStep, KillBoundStep
<1>3. LipShape /\ KillBound => FewOrdersAfterKill
  <2>1. LipShape => MayPlace \in Nat /\ Cardinality(CouldPlace) \in Nat
    BY MayType, Counts DEF MayPlace, LipShape, RunnerShape
  <2>2. \A a, b, c, d, e \in Nat : a - b + c + d <= e => a - b <= e
    OBVIOUS
  <2> QED
    BY <2>1, <2>2 DEF KillBound, FewOrdersAfterKill
<1> QED
  BY <1>1, <1>2, <1>3, PTL DEF LipSpec

-----------------------------------------------------------------------------
(* Hands off a locked side.                                                *)

\* A lock on the side is one that was set since the runner looked.
LockedLate(k) == Locked(k) => k \in late

\* The sides the runner has still to apply, and the one it is at, were not locked
\* when it looked.
HandsInv ==
    run.phase = "applying" =>
      /\ \A i \in 1 .. Len(run.sides) : LockedLate(<<run.ticker, run.sides[i]>>)
      /\ call[Booter].stage # "idle" => LockedLate(call[Booter].key)

\* Whoever locks a side notes it.
LEMMA LocksNoted ==
  ASSUME LipShape, [LipNext]_lipVars, ~Judge
  PROVE  /\ late \subseteq late'
         /\ \A k \in Keys : Locked(k)' => Locked(k) \/ k \in late'
<1> USE DEF LipShape, ControlShape
<1>1. ASSUME UNCHANGED sideLock, late \subseteq late'
      PROVE  /\ late \subseteq late'
             /\ \A k \in Keys : Locked(k)' => Locked(k) \/ k \in late'
  BY <1>1 DEF Locked
<1>2. UNCHANGED <<control, late>> => UNCHANGED sideLock
  BY DEF control
<1>3. ASSUME NEW j \in Keys, NEW r,
             sideLock' = [sideLock EXCEPT ![j] = r],
             late' = late \cup {j} \/ (r \in {"none", "lapsed"} /\ late' = late)
      PROVE  /\ late \subseteq late'
             /\ \A k \in Keys : Locked(k)' => Locked(k) \/ k \in late'
  BY <1>3 DEF Locked
<1>4. CASE Wake \/ Refreshed \/ CycleFailed \/ TickerFailed \/ TickerDone \/ ApplySide
           \/ StartUp \/ RunnerCalls
  BY <1>1, <1>4
  DEF Wake, Refreshed, CycleFailed, TickerFailed, TickerDone, ApplySide, StartUp, RunnerCalls,
      control, history
<1>5. ASSUME NEW t \in Operators,
             \/ \E k \in Keys, q \in Quotes, term \in Terms \cup {"none"} :
                  ManualOrder(t, k, q, term)
             \/ \E k \in Keys, term \in {"held", "none"} : CancelOrder(t, k, term)
      PROVE  UNCHANGED <<control, late>>
  BY <1>5 DEF ManualOrder, CancelOrder, history
<1>6. ASSUME NEW t \in Operators, ManualSteps(t)
      PROVE  /\ late \subseteq late'
             /\ \A k \in Keys : Locked(k)' => Locked(k) \/ k \in late'
  <2>1. CASE UNCHANGED <<control, late>>
    BY <1>1, <1>2, <2>1
  <2>2. CASE \E term : ThenLock(t, term) /\ term # "none"
    <3>1. /\ \E r : sideLock' = [sideLock EXCEPT ![call[t].key] = r]
          /\ late' = late \cup {call[t].key}
      BY <2>2 DEF ThenLock, LockSide
    <3>2. call[t].key \in Keys
      <4>1. t \in Tasks /\ ServesWell(job[t], call[t]) /\ job[t].kind = "manual"
        BY <1>6, Actors DEF OperatorsShape, ManualSteps
      <4>2. call[t].stage \in Holding \cup {"queued"}
        BY <4>1 DEF ServesWell
      <4> QED
        BY <4>1, <4>2 DEF TInv, Shape, ShapeOf, Holding
    <3> QED
      BY <1>3, <3>1, <3>2
  <2> QED
    BY <1>6, <2>1, <2>2 DEF ManualSteps, ThenLock
<1>7. ASSUME NEW t \in Operators, CancelOrderSteps(t)
      PROVE  /\ late \subseteq late'
             /\ \A k \in Keys : Locked(k)' => Locked(k) \/ k \in late'
  <2>1. CASE UNCHANGED <<control, late>>
    BY <1>1, <1>2, <2>1
  <2>2. CASE /\ OrderCancelled(call[t].key, job[t].term)
             /\ late' = IF job[t].term = "none" THEN late ELSE late \cup {call[t].key}
    <3>1. call[t].key \in Keys
      <4>1. t \in Tasks /\ ServesWell(job[t], call[t]) /\ job[t].kind = "cancel"
        BY <1>7, Actors DEF OperatorsShape, CancelOrderSteps
      <4>2. call[t].stage \in {"queued", "cancel"}
        BY <4>1 DEF ServesWell
      <4> QED
        BY <4>1, <4>2 DEF TInv, Shape, ShapeOf
    <3>2. CASE job[t].term = "none"
      BY <1>1, <2>2, <3>2 DEF OrderCancelled
    <3>3. CASE job[t].term # "none"
      BY <1>3, <2>2, <3>1, <3>3 DEF OrderCancelled
    <3> QED
      BY <3>2, <3>3
  <2> QED
    BY <1>7, <2>1, <2>2 DEF CancelOrderSteps
<1>8. ASSUME NEW t \in Sweepers,
             \/ KillCommand(t) \/ SweeperSteps(t)
             \/ \E e \in Events : RemoveAndSweep(t, e)
      PROVE  UNCHANGED <<sideLock, late>>
  BY <1>8, SweeperMoves
<1>9. CASE PauseCommand \/ EventCommand
  <2>1. /\ \/ PauseGlobal \/ ResumeGlobal
           \/ \E t \in Tickers : PauseTicker(t) \/ ResumeTicker(t)
           \/ \E k \in Keys : PauseSide(k) \/ ResumeSide(k)
           \/ \E e : AddEvent(e) \/ RemoveEvent(e)
        /\ UNCHANGED history
    BY <1>9 DEF PauseCommand, EventCommand
  <2> QED
    BY <1>1, <2>1, ControlStands DEF history
<1>10. CASE RecoverCommand
  BY <1>1, <1>10 DEF RecoverCommand, Arm, ResumeAfterKill, history
<1>11. CASE LockCommand
  <2>1. PICK k \in Keys :
           \/ UnlockSide(k) /\ UNCHANGED late
           \/ \E term \in Terms : LockSide(k, term) /\ late' = late \cup {k}
    BY <1>11 DEF LockCommand
  <2> QED
    BY <1>3, <2>1 DEF UnlockSide, LockSide
<1>12. CASE Clock
  BY <1>3, <1>12 DEF Clock, LockLapses, history
<1>13. CASE \/ MarketMoves /\ UNCHANGED <<tools, control, run, job, history>>
            \/ UNCHANGED lipVars
  <2>1. UNCHANGED <<sideLock, late>>
    BY <1>13 DEF lipVars, control, history
  <2> QED
    BY <1>1, <2>1
<1> QED
  BY <1>1, <1>2, <1>4, <1>5, <1>6, <1>7, <1>8, <1>9, <1>10, <1>11, <1>12, <1>13
  DEF LipNext, RunnerSteps

LEMMA HandsInvStep ==
  ASSUME LipShape, HandsInv, [LipNext]_lipVars
  PROVE  HandsInv'
<1> USE DEF LipShape
<1>1. RunOK(run) /\ run.sides \in Seq(Sides) /\ Len(run.sides) \in Nat /\ Booter \in Tasks
  BY MayType, Actors DEF RunnerShape, RunOK, Runs
<1>2. CASE Judge
  <2>1. PICK plan \in [Sides -> Decisions],
             gone \in SUBSET {k \in {run.ticker} \X Sides : sideLock[k] = "lapsed"} :
           /\ DropLapsed(gone)
           /\ run' = [run EXCEPT
                !.phase = "applying",
                !.sides = SidesToApply({s \in Sides : /\ sideLock[<<run.ticker, s>>] # "none"
                                                      /\ <<run.ticker, s>> \notin gone}),
                !.plan = [s \in Sides |-> PlannedSide(<<run.ticker, s>>, plan[s])]]
    BY <1>2 DEF Judge
  <2> DEFINE bypass == {s \in Sides : /\ sideLock[<<run.ticker, s>>] # "none"
                                      /\ <<run.ticker, s>> \notin gone}
  <2>2. /\ run'.sides = SidesToApply(bypass) /\ run'.ticker = run.ticker
        /\ run.ticker \in Tickers /\ call'[Booter].stage = "idle"
    <3>1. run.ticker \in Tickers /\ call'[Booter].stage = "idle"
      BY <1>1, <1>2, RunMoves DEF RunOK, Judge
    <3> HIDE DEF bypass
    <3> QED
      BY <1>1, <2>1, <3>1 DEF RunOK, Runs, bypass
  <2>3. ASSUME NEW i \in 1 .. Len(run'.sides)
        PROVE  sideLock'[<<run.ticker, run'.sides[i]>>] = "none"
    <3>1. run'.sides[i] \notin bypass /\ run'.sides[i] \in Sides
      <4>1. SidesToApply(bypass) \in Seq(Sides)
        BY SidesApplied
      <4>2. i \in 1 .. Len(SidesToApply(bypass))
        BY <2>2, <2>3
      <4> HIDE DEF bypass
      <4>3. SidesToApply(bypass)[i] \notin bypass
        BY <4>2, SidesApplied
      <4>4. SidesToApply(bypass)[i] \in Sides
        BY <4>1, <4>2, ElementOfSeq
      <4> QED
        BY <2>2, <4>3, <4>4
    <3> DEFINE k == <<run.ticker, run'.sides[i]>>
    <3>2. k \in Keys /\ (sideLock[k] = "none" \/ k \in gone)
      BY <2>2, <3>1 DEF Keys
    <3>3. sideLock[k] = "none" \/ (k \in gone /\ sideLock[k] = "lapsed")
      BY <2>1, <3>2
    <3> QED
      BY <2>1, <3>2, <3>3 DEF DropLapsed
  <2> HIDE DEF bypass
  <2> QED
    BY <2>2, <2>3 DEF HandsInv, LockedLate, Locked
<1>3. ASSUME ~Judge
      PROVE  /\ late \subseteq late'
             /\ \A k \in Keys : LockedLate(k) => LockedLate(k)'
  BY <1>3, LocksNoted DEF LockedLate
<1>4. CASE Wake \/ Refreshed \/ CycleFailed \/ TickerFailed \/ TickerDone
  <2>1. run'.phase # "applying"
    <3>1. run.left \in Seq(Tickers)
      BY <1>1 DEF RunOK, Runs
    <3>2. CASE Wake
      BY <3>2, AsleepOK DEF Wake, Asleep
    <3>3. CASE Refreshed \/ TickerFailed \/ TickerDone
      BY <3>1, <3>3, ContinueOK DEF Refreshed, TickerFailed, TickerDone
    <3>4. CASE CycleFailed
      BY <3>4, AsleepOK DEF CycleFailed
    <3> QED
      BY <1>4, <3>2, <3>3, <3>4
  <2> QED
    BY <2>1 DEF HandsInv
<1>5. CASE ApplySide
  <2>1. /\ run.phase = "applying" /\ run'.phase = "applying"
        /\ run'.ticker = run.ticker /\ run'.sides = Tail(run.sides)
        /\ run.sides # <<>> /\ UNCHANGED <<sideLock, late>>
        /\ call'[Booter].key = <<run.ticker, Head(run.sides)>>
    BY <1>1, <1>5, SideMoves DEF RunOK, Runs, control, history
  <2>2. /\ Len(run'.sides) = Len(run.sides) - 1 /\ Len(run.sides) >= 1
        /\ \A i \in 1 .. Len(run'.sides) : run'.sides[i] = run.sides[i + 1]
        /\ Head(run.sides) = run.sides[1]
    BY <1>1, <2>1, HeadTailProperties
  <2>3. \A i \in 1 .. Len(run'.sides) : i + 1 \in 1 .. Len(run.sides)
    BY <1>1, <2>2
  <2>4. 1 \in 1 .. Len(run.sides)
    BY <1>1, <2>2
  <2> QED
    BY <2>1, <2>2, <2>3, <2>4 DEF HandsInv, LockedLate, Locked
<1>6. CASE StartUp
  <2>1. run'.phase # "applying"
    BY <1>6, StartUpMoves, AsleepOK
  <2> QED
    BY <2>1 DEF HandsInv
<1>7. CASE RunnerCalls
  <2>1. UNCHANGED <<run, sideLock, late>> /\ (Acquire(Booter) \/ Answer(Booter) \/ Resume(Booter))
    BY <1>7 DEF RunnerCalls, control, history
  <2>2. ASSUME run.phase = "applying", call'[Booter].stage # "idle"
        PROVE  call[Booter].stage # "idle" /\ call'[Booter].key = call[Booter].key
    <3>1. call[Booter].stage \in Holding \cup {"queued"}
      BY <1>1, <2>1, <2>2, UnderWayMoves DEF RunnerShape
    <3> QED
      BY <1>1, <2>1, <2>2, <3>1, UnderWayMoves DEF Holding
  <2> QED
    BY <2>1, <2>2 DEF HandsInv, LockedLate, Locked
<1>8. ASSUME ~Judge, UNCHANGED run, call'[Booter] = call[Booter]
      PROVE  HandsInv'
  <2>1. SUFFICES ASSUME run.phase = "applying" PROVE HandsInv'
    BY <1>8 DEF HandsInv
  <2>2. \A i \in 1 .. Len(run.sides) : <<run.ticker, run.sides[i]>> \in Keys
    BY <1>1, <2>1 DEF Keys, RunOK
  <2>3. call[Booter].stage # "idle" => call[Booter].key \in Keys
    BY <1>1, <2>1 DEF RunnerShape, TInv, Shape, ShapeOf
  <2>4. \A k \in Keys : LockedLate(k) => LockedLate(k)'
    BY <1>3, <1>8
  <2>5. \A i \in 1 .. Len(run.sides) : LockedLate(<<run.ticker, run.sides[i]>>)'
    BY <1>8, <2>1, <2>2, <2>4 DEF HandsInv
  <2>6. call[Booter].stage # "idle" => LockedLate(call[Booter].key)'
    BY <1>8, <2>1, <2>3, <2>4 DEF HandsInv
  <2> QED
    BY <1>8, <2>5, <2>6 DEF HandsInv, LockedLate, Locked
<1>9. ASSUME NEW t \in Operators, ~Judge,
             \/ \E k \in Keys, q \in Quotes, term \in Terms \cup {"none"} :
                  ManualOrder(t, k, q, term)
             \/ \E k \in Keys, term \in {"held", "none"} : CancelOrder(t, k, term)
             \/ ManualSteps(t) \/ CancelOrderSteps(t)
      PROVE  HandsInv'
  BY <1>8, <1>9, OperatorMoves, Actors
<1>10. ASSUME NEW t \in Sweepers, ~Judge,
              \/ KillCommand(t) \/ SweeperSteps(t)
              \/ \E e \in Events : RemoveAndSweep(t, e)
       PROVE  HandsInv'
  BY <1>8, <1>10, SweeperMoves, Actors
<1>11. CASE /\ ~Judge
            /\ \/ PauseCommand \/ RecoverCommand \/ LockCommand \/ EventCommand \/ Clock
               \/ MarketMoves /\ UNCHANGED <<tools, control, run, job, history>>
               \/ UNCHANGED lipVars
  BY <1>8, <1>11, RestMoves
<1> QED
  BY <1>2, <1>4, <1>5, <1>6, <1>7, <1>9, <1>10, <1>11 DEF LipNext, RunnerSteps

\* The runner leaves a locked side alone, but for the ticker that it had already
\* checked when the lock was set, whatever operators and sweeps do beside it
\* (lipmm/runner/runner.py, _process_ticker and _apply_control_overlay).
THEOREM HandsAreOff == LipSpec => HandsOff
<1>1. LipInit => LipShape /\ HandsInv
  <2>1. LipInit => HandsInv
    BY AsleepOK DEF LipInit, HandsInv, Asleep
  <2> QED
    BY <2>1, LipShapeInit
<1>2. LipShape /\ HandsInv /\ [LipNext]_lipVars => (LipShape /\ HandsInv)'
  BY LipShapeStep, HandsInvStep
<1>3. LipShape /\ HandsInv =>
        [\A k \in Keys : RunnerTouches(k) /\ Locked(k) => k \in late]_lipVars
  <2> SUFFICES ASSUME LipShape, HandsInv, NEW k \in Keys, RunnerTouches(k), Locked(k)
               PROVE  k \in late
    OBVIOUS
  <2>1. /\ Waiting(Booter) /\ call[Booter].key = k /\ open' # open
        /\ Acquire(Booter) \/ Answer(Booter) \/ Resume(Booter)
    BY DEF RunnerTouches, RunnerCalls
  <2>2. call[Booter].stage \in Holding \cup {"queued"}
    BY <2>1, UnderWayMoves, Actors
  <2>3. run.phase = "applying" /\ call[Booter].stage # "idle"
    BY <2>2 DEF LipShape, RunnerShape, RunOK, Runs, Phases, Holding
  <2> QED
    BY <2>1, <2>3 DEF HandsInv, LockedLate
<1> QED
  BY <1>1, <1>2, <1>3, PTL DEF LipSpec, HandsOff

-----------------------------------------------------------------------------
(* No order is lost from view.                                             *)

\* Until a tool lets an order slip: as in OrderToolsProofs, and the calls of the
\* runner and of the manual orders are aimed at what rests on their key.
LipUnslipped ==
    ~slipped =>
      /\ Safe
      /\ SkipOK(call[Booter], open)
      /\ \A t \in Operators : job[t].kind = "manual" => SkipOK(call[t], open)

\* A step that keeps the orders safe, and the aim of every call but one.
LEMMA AimKept ==
  ASSUME LipShape, LipUnslipped, NEW t \in Tasks, slipped \in BOOLEAN, slipped => slipped',
         Safe /\ ~slipped' =>
           /\ Safe'
           /\ \A u \in Tasks \ {t} : SkipOK(call[u], open) => SkipOK(call[u], open)',
         Safe /\ ~slipped' /\ (t = Booter \/ (t \in Operators /\ job'[t].kind = "manual")) =>
           SkipOK(call[t], open)',
         \A u \in Operators \ {t} : job'[u] = job[u]
  PROVE  LipUnslipped'
<1>1. Booter \in Tasks /\ Operators \subseteq Tasks
  BY Actors
<1> QED
  BY <1>1 DEF LipUnslipped

LEMMA NothingMoves ==
  ASSUME LipUnslipped, UNCHANGED <<open, issued, resting, call, slipped>>,
         \A u \in Operators : job'[u] = job[u]
  PROVE  LipUnslipped'
  BY DEF LipUnslipped, Safe, Reached, Tracks, InHand

LEMMA LipUnslippedStep ==
  ASSUME NothingLost, LipShape, LipUnslipped, [LipNext]_lipVars
  PROVE  LipUnslipped'
<1> USE DEF LipShape
<1>1. /\ slipped \in BOOLEAN /\ Booter \in Tasks /\ Booter \notin Operators \cup Sweepers
      /\ Operators \subseteq Tasks /\ Sweepers \subseteq Tasks
  BY Actors DEF SweepersShape
<1>2. CASE Wake \/ Refreshed \/ CycleFailed \/ TickerFailed \/ Judge \/ TickerDone
  BY <1>2, RunMoves, NothingMoves
<1>3. CASE ApplySide
  <2>1. PICK k \in Keys, d \in Decisions : Apply(Booter, k, d)
    BY <1>3, SideMoves
  <2>2. UNCHANGED <<slipped, job>>
    BY <1>3, SideMoves
  <2>3. Safe => Safe' /\ \A u \in Tasks : SkipOK(call[u], open) => SkipOK(call[u], open)'
    BY <1>1, <2>1, ApplySafe
  <2>4. SkipOK(call[Booter], open)
    BY <2>1 DEF Apply, SkipOK
  <2> QED
    BY <1>1, <2>2, <2>3, <2>4, AimKept
<1>4. CASE StartUp
  <2>1. CASE ~booted /\ Reconcile(Booter) /\ UNCHANGED <<tools, run>>
    <3>1. /\ call[Booter].stage = "idle"
          /\ call' = [call EXCEPT ![Booter] = [@ EXCEPT !.stage = "list"]]
          /\ UNCHANGED <<open, issued, resting, slipped, job>>
      BY <1>4, <2>1 DEF Reconcile, StartUp, book, tools
    <3>2. Safe => Thins(open, open')
      BY <3>1, SameThins DEF Safe, book
    <3>3. Safe => Safe' /\ \A u \in Tasks : SkipOK(call[u], open) => SkipOK(call[u], open)'
      BY <1>1, <3>1, <3>2, ListSafe
    <3> QED
      BY <1>1, <3>1, <3>3, AimKept DEF SkipOK
  <2>2. CASE SweepRebuild(Booter)
    <3>1. /\ Rebuild(Booter) /\ (slipped => slipped')
          /\ ~slipped' /\ call[Booter].reply # "error" => ~StaleListing(Booter)
          /\ call[Booter].stage = "list" /\ UNCHANGED job
      BY <1>4, <2>2 DEF SweepRebuild, Rebuild, StartUp
    <3>2. Safe /\ ~slipped' =>
            Safe' /\ \A u \in Tasks : SkipOK(call[u], open) => SkipOK(call[u], open)'
      BY <1>1, <3>1, RebuildSafe
    <3>3. SkipOK(call[Booter], open)
      BY <3>1 DEF SkipOK
    <3> QED
      BY <1>1, <3>1, <3>2, <3>3, AimKept
  <2> QED
    BY <1>4, <2>1, <2>2 DEF StartUp
\* A step of a call of apply(), aimed before.
<1>5. ASSUME NEW t \in Tasks, Acquire(t) \/ Answer(t) \/ Resume(t), Safe, SkipOK(call[t], open)
      PROVE  /\ Safe' /\ SkipOK(call[t], open)'
             /\ \A u \in Tasks : SkipOK(call[u], open) => SkipOK(call[u], open)'
  BY <1>5, AcquireSafe, AnswerSafe, ResumeSafe
<1>6. CASE RunnerCalls
  <2>1. UNCHANGED <<slipped, job>> /\ (Acquire(Booter) \/ Answer(Booter) \/ Resume(Booter))
    BY <1>6 DEF RunnerCalls, tools
  <2> QED
    BY <1>1, <1>5, <2>1 DEF LipUnslipped
<1>7. ASSUME NEW t \in Operators
      PROVE  /\ t \in Tasks /\ t # Booter
             /\ \A u \in Operators \ {t} : \A j :
                  job' = [job EXCEPT ![t] = j] => job'[u] = job[u]
             /\ (\A j : job' = [job EXCEPT ![t] = j] => job'[t] = j)
  <2>1. job = [u \in Operators \cup Sweepers |-> job[u]]
    BY DEF OperatorsShape
  <2> QED
    BY <1>1, <2>1
<1>8. ASSUME NEW t \in Operators, NEW k \in Keys, NEW q \in Quotes,
             NEW term \in Terms \cup {"none"}, ManualOrder(t, k, q, term)
      PROVE  LipUnslipped'
  <2>1. /\ Apply(t, k, q) /\ q \in Decisions /\ UNCHANGED slipped
        /\ \A u \in Operators \ {t} : job'[u] = job[u]
    BY <1>7, <1>8 DEF ManualOrder, tools, Decisions
  <2>2. Safe => Safe' /\ \A u \in Tasks : SkipOK(call[u], open) => SkipOK(call[u], open)'
    BY <1>7, <2>1, ApplySafe
  <2>3. SkipOK(call[t], open)
    BY <2>1 DEF Apply, SkipOK
  <2> QED
    BY <1>1, <1>7, <2>1, <2>2, <2>3, AimKept
<1>9. ASSUME NEW t \in Operators, NEW k \in Keys, NEW term \in {"held", "none"},
             CancelOrder(t, k, term)
      PROVE  LipUnslipped'
  <2>1. /\ FindOrder(t, k) /\ UNCHANGED slipped
        /\ job' = [job EXCEPT ![t] = [NoJob EXCEPT !.kind = "cancel", !.term = term]]
    BY <1>9 DEF CancelOrder, FindOrder, tools
  <2>2. job'[t].kind # "manual" /\ \A u \in Operators \ {t} : job'[u] = job[u]
    <3>1. job'[t] = [NoJob EXCEPT !.kind = "cancel", !.term = term]
      BY <1>7, <2>1
    <3>2. job'[t].kind = "cancel"
      BY <3>1 DEF NoJob
    <3> QED
      BY <1>7, <2>1, <3>2
  <2>3. Safe => Safe' /\ \A u \in Tasks : SkipOK(call[u], open) => SkipOK(call[u], open)'
    BY <1>7, <2>1, FindSafe
  <2> QED
    BY <1>1, <1>7, <2>1, <2>2, <2>3, AimKept
<1>10. ASSUME NEW t \in Operators, ManualSteps(t)
       PROVE  LipUnslipped'
  <2>1. /\ job[t].kind = "manual" /\ UNCHANGED slipped
        /\ Acquire(t) \/ Answer(t) \/ Resume(t)
    BY <1>10 DEF ManualSteps, tools
  <2>2. \A u \in Operators \ {t} : job'[u] = job[u]
    BY <1>10, OperatorMoves
  <2> QED
    BY <1>1, <1>5, <1>7, <2>1, <2>2 DEF LipUnslipped
<1>11. ASSUME NEW t \in Operators, CancelOrderSteps(t)
       PROVE  LipUnslipped'
  <2>1. /\ \A u \in Operators \ {t} : job'[u] = job[u]
        /\ job'[t].kind # "manual"
    <3>1. job[t].kind = "cancel"
      BY <1>11 DEF CancelOrderSteps
    <3>2. UNCHANGED job \/ job' = [job EXCEPT ![t] = NoJob]
      BY <1>11 DEF CancelOrderSteps
    <3> QED
      BY <1>7, <3>1, <3>2 DEF NoJob
  <2>2. CASE PullOrder(t)
    <3>1. UNCHANGED slipped
      BY <2>2 DEF PullOrder, tools
    <3> QED
      BY <1>1, <1>7, <2>1, <2>2, <3>1, PullSafe, AimKept
  <2>3. CASE Answer(t) /\ UNCHANGED tools
    <3>1. UNCHANGED slipped
      BY <2>3 DEF tools
    <3> QED
      BY <1>1, <1>7, <2>1, <2>3, <3>1, AnswerSafe, AimKept
  <2>4. CASE OrderPulled(t)
    <3>1. /\ OnSkipCancel(t) /\ (slipped => slipped')
          /\ ~slipped' /\ call[t].reply # "error" => ~StaleForget(t)
      BY <2>4 DEF OrderPulled
    <3> QED
      BY <1>1, <1>7, <2>1, <3>1, CancelDone, AimKept
  <2> QED
    BY <1>11, <2>2, <2>3, <2>4 DEF CancelOrderSteps
<1>12. ASSUME NEW t \in Sweepers,
              \/ KillCommand(t) \/ SweeperSteps(t)
              \/ \E e \in Events : RemoveAndSweep(t, e)
       PROVE  LipUnslipped'
  <2>1. \A u \in Operators : job'[u] = job[u]
    <3>1. job = [u \in Operators \cup Sweepers |-> job[u]]
      BY DEF OperatorsShape
    <3>2. UNCHANGED job \/ \E j : job' = [job EXCEPT ![t] = j]
      BY <1>12, SweeperMoves
    <3> QED
      BY <3>1, <3>2, Actors
  <2>2. t \in Tasks /\ t # Booter /\ t \notin Operators
    BY Actors
  <2>3. CASE KillCommand(t)
    <3>1. UNCHANGED <<open, issued, resting, call, slipped>>
      BY <2>3 DEF KillCommand, book, manager, tools
    <3> QED
      BY <2>1, <3>1, NothingMoves
  <2>4. ASSUME NEW ks \in SUBSET Keys, StartSweep(t, ks), UNCHANGED <<book, manager>>
        PROVE  LipUnslipped'
    BY <2>1, <2>4, NothingMoves DEF StartSweep, book, manager
  <2>5. CASE StartKillSweep(t)
    BY <2>4, <2>5 DEF StartKillSweep
  <2>6. ASSUME NEW e \in Events, RemoveAndSweep(t, e)
        PROVE  LipUnslipped'
    <3>1. {k \in Keys : EventOf[k[1]] = e} \in SUBSET Keys
      OBVIOUS
    <3> QED
      BY <2>4, <2>6, <3>1 DEF RemoveAndSweep
  <2>7. CASE SweepOn(t)
    <3>1. /\ slipped => slipped'
          /\ Safe /\ ~slipped' =>
               Safe' /\ \A u \in Tasks : SkipOK(call[u], open) => SkipOK(call[u], open)'
      BY <2>7, SweepMoves DEF SweepOn
    <3> QED
      BY <1>1, <2>1, <2>2, <3>1, AimKept
  <2> QED
    BY <1>12, <2>3, <2>5, <2>6, <2>7 DEF SweeperSteps
<1>13. CASE PauseCommand \/ RecoverCommand \/ LockCommand \/ EventCommand \/ Clock
  <2>1. UNCHANGED <<open, issued, resting, call, slipped, job>>
    BY <1>13
    DEF PauseCommand, RecoverCommand, LockCommand, EventCommand, Clock, book, manager, tools
  <2> QED
    BY <2>1, NothingMoves
<1>14. CASE MarketMoves /\ UNCHANGED <<tools, control, run, job, history>>
  <2>1. Market /\ UNCHANGED <<resting, call, slipped, job>> /\ BookTypeOK
    BY <1>14 DEF MarketMoves, manager, tools, TInv, TypeOK
  <2>2. Safe => Thins(open, open') /\ issued' = issued
    BY <2>1, MarketThins DEF Safe
  <2> QED
    BY <1>1, <2>1, <2>2, ThinStep DEF LipUnslipped
<1>15. CASE UNCHANGED lipVars
  BY <1>15, NothingMoves DEF lipVars
<1> QED
  BY <1>2, <1>3, <1>4, <1>6, <1>8, <1>9, <1>10, <1>11, <1>12, <1>13, <1>14, <1>15
  DEF LipNext, RunnerSteps

LEMMA UnslippedInit == LipInit => LipUnslipped
<1> SUFFICES ASSUME LipInit PROVE LipUnslipped
  OBVIOUS
<1>1. open = {} /\ issued = 0 /\ \A k \in Keys : resting[k] = None
  BY DEF LipInit, ToolsInit, Init, EmptyBook
<1>2. \A t \in Tasks : call[t] = Idle
  BY DEF LipInit, ToolsInit, Init
<1>3. FrameOK(Idle, open, issued) /\ SkipOK(Idle, open)
  BY <1>1 DEF FrameOK, SkipOK, Idle
<1> QED
  BY <1>1, <1>2, <1>3, Actors DEF LipUnslipped, Safe, BookOK, Reached

\* The whole bot loses no order from view and doubles no quote until a cancel by
\* id or a sweep lets one slip, with any number of strikes, operators, sweeps and
\* commands; a listing at startup counts as a sweep, as a manual order may have
\* been placed before it.
THEOREM BotLosesNothing ==
  ASSUME NothingLost PROVE LipSpec => []SafeUntilSlip
<1>1. LipInit => LipShape /\ LipUnslipped
  BY LipShapeInit, UnslippedInit
<1>2. LipShape /\ LipUnslipped /\ [LipNext]_lipVars => (LipShape /\ LipUnslipped)'
  BY NothingLost, LipShapeStep, LipUnslippedStep
<1>3. LipUnslipped => SafeUntilSlip
  BY DEF LipUnslipped, Safe, Reached, Tracks, BookOK, SafeUntilSlip, NothingUntracked,
     OneOrderPerKey
<1> QED
  BY <1>1, <1>2, <1>3, PTL DEF LipSpec

-----------------------------------------------------------------------------
(* What a kill leaves at the exchange, and why.                            *)

SweeperJobs == [kind : {"none", "killing", "kill", "remove"}, term : {"none"},
                event : Events \cup {None}]

\* A sweeper that has no sweep to run, or has still to start it, does nothing.
SweepersRest ==
    \A t \in Sweepers :
        /\ job[t] \in SweeperJobs
        /\ job[t].kind \in {"none", "killing"} =>
              sweep[t].stage = "idle" /\ call[t].stage = "idle"

KillInv ==
    /\ SweepersRest
    /\ atKill \in Nat /\ atKill <= issued
    /\ KillTriesEverything

\* A step brings no order to the book but new ones.
OnlyNew == \A p \in open' : p.id > issued \/ \E o \in open : o.id = p.id

LEMMA SameOrders ==
  ASSUME open' \subseteq open
  PROVE  OnlyNew
  BY DEF OnlyNew

LEMMA MarketOnlyNew ==
  ASSUME BookTypeOK, Market
  PROVE  OnlyNew
<1>1. PICK o \in open : Vanish(o) \/ PartFill(o)
  BY DEF Market
<1>2. CASE PartFill(o)
  <2> DEFINE n == [o EXCEPT !.quote.sz = @ - 1]
  <2>1. n.id = o.id
    BY DEF BookTypeOK, Orders
  <2>2. open' = (open \ {o}) \cup {n}
    BY <1>2 DEF PartFill
  <2> HIDE DEF n
  <2> QED
    BY <2>1, <2>2 DEF OnlyNew
<1> QED
  BY <1>1, <1>2 DEF Vanish, OnlyNew

LEMMA AnswerOnlyNew ==
  ASSUME TInv, NEW t \in Tasks, Answer(t)
  PROVE  OnlyNew /\ issued' >= issued
<1>1. issued \in Nat /\ BookTypeOK
  BY ExchangeAssumption DEF TInv, TypeOK, BookTypeOK
<1>2. ASSUME NEW k, NEW q, Rest(k, q) PROVE OnlyNew
  <2> DEFINE n == [id |-> issued + 1, key |-> k, quote |-> q]
  <2>1. n.id > issued
    BY <1>1
  <2>2. open' = open \cup {n}
    BY <1>2 DEF Rest
  <2> HIDE DEF n
  <2> QED
    BY <2>1, <2>2 DEF OnlyNew
<1>3. ASSUME NEW id, NEW q, Reprice(id, q) PROVE OnlyNew
  <2>1. \A o \in open : [o EXCEPT !.quote = q].id = o.id
    BY <1>1 DEF BookTypeOK, Orders
  <2>2. \A p \in open' : \E o \in open : p = o \/ p = [o EXCEPT !.quote = q]
    BY <1>3 DEF Reprice
  <2> QED
    BY <2>1, <2>2 DEF OnlyNew
<1>4. ASSUME NEW id, Pull(id) PROVE OnlyNew
  BY <1>4 DEF Pull, OnlyNew
<1>5. UNCHANGED book => OnlyNew
  BY DEF book, OnlyNew
<1>6. Execute(t) \/ UNCHANGED book
  BY DEF Answer, PlaceAccepted, AmendAccepted, CancelAcknowledged, OrderRejected,
     CancelRejected, ListAnswered, RequestLost, ResponseLost
<1>7. OnlyNew
  BY <1>2, <1>3, <1>4, <1>5, <1>6 DEF Execute
<1> QED
  BY <1>1, <1>7, AnswerIssues

\* A step that takes no order from a sweep but to cancel it or to spare it.
LEMMA KillStands ==
  ASSUME KillInv, issued \in Nat, issued' \in Nat, OnlyNew, issued' >= issued, UNCHANGED atKill,
         killState' = "killed" => killState = "killed",
         slipped => slipped', spared \subseteq spared', missed \subseteq missed',
         SweepersRest', BookTypeOK',
         \A o \in open, p \in open' : o.id = p.id /\ SweepToCome(o) =>
           SweepToCome(p)' \/ p.id \in spared' \cup missed'
  PROVE  KillInv'
<1>1. ASSUME killState' = "killed", ~slipped', NEW p \in open', p.id <= atKill
      PROVE  p.id \in spared' \cup missed' \/ SweepToCome(p)'
  <2>1. killState = "killed" /\ ~slipped /\ ~(p.id > issued)
    <3>1. p.id \in Nat /\ atKill \in Nat /\ atKill <= issued
      BY <1>1, ExchangeAssumption DEF KillInv, BookTypeOK, Orders, OrderIds
    <3> QED
      BY <1>1, <3>1
  <2>2. PICK o \in open : o.id = p.id
    BY <1>1, <2>1 DEF OnlyNew
  <2>3. o.id \in spared \cup missed \/ SweepToCome(o)
    BY <1>1, <2>1, <2>2 DEF KillInv, KillTriesEverything
  <2> QED
    BY <2>2, <2>3
<1>2. KillTriesEverything'
  BY <1>1 DEF KillTriesEverything
<1> QED
  BY <1>2 DEF KillInv

\* A step that is none of the sweeps'.
LEMMA SweepsStand ==
  ASSUME KillInv, issued \in Nat, issued' \in Nat, OnlyNew, issued' >= issued,
         UNCHANGED <<atKill, sweep, spared, missed>>,
         killState' = "killed" => killState = "killed", slipped => slipped',
         BookTypeOK',
         \A u \in Sweepers : job'[u] = job[u] /\ call'[u] = call[u]
  PROVE  KillInv'
<1>1. SweepersRest'
  BY DEF KillInv, SweepersRest
<1>2. \A o \in open, p \in open' : o.id = p.id /\ SweepToCome(o) => SweepToCome(p)'
  BY DEF SweepToCome
<1> QED
  BY <1>1, <1>2, KillStands

\* The sweeps of a kill have in their list whatever no call has in hand.
LEMMA SweepListsAll ==
  ASSUME TInv, Safe, SweepersShape, NEW t \in Sweepers, StartSweep(t, Keys), NEW o \in open
  PROVE  InHand(o) \/ (sweep'[t].stage # "idle" /\ o.id \in sweep'[t].ids)
<1> DEFINE ids == {resting[k].id : k \in {j \in Keys : resting[j] # None}}
<1>1. sweep' = [sweep EXCEPT ![t] =
                 IF ids = {} THEN NoSweep ELSE [stage |-> "batch", ids |-> ids]]
  BY DEF StartSweep
<1>2. o.key \in Keys
  BY DEF TInv, TypeOK, BookTypeOK, Orders
<1>3. Tracks(o) => o.id \in ids
  BY <1>2 DEF Tracks
<1>4. sweep'[t] = IF ids = {} THEN NoSweep ELSE [stage |-> "batch", ids |-> ids]
  BY <1>1 DEF SweepersShape
<1> HIDE DEF ids
<1>5. ids # {} => sweep'[t].stage # "idle" /\ sweep'[t].ids = ids
  BY <1>4
<1> QED
  BY <1>3, <1>5 DEF Safe, Reached

\* What a step of a sweep does to its list.
LEMMA SweepingLeaves ==
  ASSUME SweepersShape, NEW t \in Sweepers, Sweeping(t)
  PROVE  /\ open' \subseteq open /\ spared \subseteq spared'
         /\ \A o \in open' : sweep[t].stage # "idle" /\ o.id \in sweep[t].ids =>
              \/ sweep'[t].stage # "idle" /\ o.id \in sweep'[t].ids
              \/ o.id \in spared'
<1>1. sweep \in [Sweepers -> SweepStates]
  BY DEF SweepersShape
<1>2. CASE BatchAnswered(t)
  BY <1>2 DEF BatchAnswered, Drop, Spare
<1>3. CASE BatchRaised(t)
  <2>1. sweep'[t].stage = "each" /\ sweep'[t].ids = sweep[t].ids
    BY <1>1, <1>3 DEF BatchRaised, SweepStates
  <2> QED
    BY <1>3, <2>1 DEF BatchRaised, Drop
<1>4. ASSUME NEW id \in OrderIds, PullOne(t, id)
      PROVE  /\ open' \subseteq open /\ spared \subseteq spared'
             /\ \A o \in open' : o.id \in sweep[t].ids =>
                  \/ sweep'[t].stage # "idle" /\ o.id \in sweep'[t].ids
                  \/ o.id \in spared'
  <2>1. /\ open' \subseteq open /\ spared \subseteq spared'
        /\ \A o \in open' : o.id = id => o.id \in spared'
    BY <1>4 DEF PullOne, Drop, Spare, book
  <2>2. sweep[t].ids # {id} => sweep'[t].stage = "each" /\ sweep'[t].ids = sweep[t].ids \ {id}
    BY <1>1, <1>4 DEF PullOne, SweepStates
  <2> QED
    BY <2>1, <2>2
<1>5. ASSUME NEW id \in OrderIds, PullOneRaised(t, id)
      PROVE  /\ open' \subseteq open /\ spared \subseteq spared'
             /\ \A o \in open' : o.id \in sweep[t].ids => o.id \in spared'
  BY <1>5 DEF PullOneRaised, Drop, Spare, book
<1> QED
  BY <1>2, <1>3, <1>4, <1>5 DEF Sweeping

LEMMA KillInvStep ==
  ASSUME NothingLost, LipShape, LipUnslipped, KillInv, [LipNext]_lipVars
  PROVE  KillInv'
<1> USE DEF LipShape
<1>1. LipShape'
  BY LipShapeStep
<1>2. issued \in Nat /\ issued' \in Nat /\ BookTypeOK /\ BookTypeOK'
  BY <1>1, ExchangeAssumption DEF TInv, TypeOK, BookTypeOK
<1>3. \A u \in Sweepers : u \in Tasks /\ u # Booter /\ u \notin Operators
  BY Actors
<1>4. CASE Wake \/ Refreshed \/ CycleFailed \/ TickerFailed \/ Judge \/ TickerDone
  <2>1. UNCHANGED <<spared, missed>>
    BY <1>4 DEF Wake, Refreshed, CycleFailed, TickerFailed, Judge, TickerDone, tools, history
  <2>2. /\ UNCHANGED <<open, issued, call, sweep, slipped, job, killState, atKill>>
    BY <1>4, RunMoves
  <2> QED
    BY <1>2, <2>1, <2>2, SameOrders, SweepsStand
<1>5. CASE ApplySide
  <2>1. UNCHANGED <<spared, missed, open, issued, sweep, slipped, job, killState, atKill>>
    BY <1>5, SideMoves DEF ApplySide, tools, history, control, book
  <2> QED
    BY <1>2, <1>3, <1>5, <2>1, SideMoves, SameOrders, SweepsStand
<1>6. CASE StartUp
  <2>1. UNCHANGED <<missed, job, killState, atKill>>
    BY <1>6 DEF StartUp, history, control
  <2>2. UNCHANGED <<spared, open, issued, sweep>> /\ (slipped => slipped')
    <3>1. CASE Reconcile(Booter) /\ UNCHANGED tools
      BY <3>1 DEF Reconcile, tools, book
    <3>2. CASE SweepRebuild(Booter)
      BY <3>2 DEF SweepRebuild, Rebuild, book
    <3> QED
      BY <1>6, <3>1, <3>2 DEF StartUp
  <2> QED
    BY <1>2, <1>3, <1>6, <2>1, <2>2, StartUpMoves, SameOrders, SweepsStand
\* A step of a call of apply().
<1>7. ASSUME NEW t \in Tasks, Acquire(t) \/ Answer(t) \/ Resume(t)
      PROVE  OnlyNew /\ issued' >= issued
  BY <1>2, <1>7, CallMoves, AnswerOnlyNew, SameOrders DEF book
<1>8. CASE RunnerCalls
  <2>1. UNCHANGED <<spared, missed, sweep, slipped, job, killState, atKill>>
    BY <1>8 DEF RunnerCalls, tools, history, control
  <2>2. OnlyNew /\ issued' >= issued
    BY <1>7, <1>8, Actors DEF RunnerCalls
  <2> QED
    BY <1>2, <1>3, <1>8, <2>1, <2>2, RunnerCallsMove, SweepsStand
<1>9. ASSUME NEW t \in Operators,
             \/ \E k \in Keys, q \in Quotes, term \in Terms \cup {"none"} :
                  ManualOrder(t, k, q, term)
             \/ \E k \in Keys, term \in {"held", "none"} : CancelOrder(t, k, term)
             \/ ManualSteps(t) \/ CancelOrderSteps(t)
      PROVE  KillInv'
  <2>1. t \in Tasks
    BY Actors
  <2>2. /\ UNCHANGED <<sweep, atKill, killState>>
        /\ \A u \in Sweepers : job'[u] = job[u] /\ call'[u] = call[u]
    BY <1>3, <1>9, OperatorMoves
  <2>3. CASE \/ \E k \in Keys, q \in Quotes, term \in Terms \cup {"none"} :
                  ManualOrder(t, k, q, term)
             \/ \E k \in Keys, term \in {"held", "none"} : CancelOrder(t, k, term)
    <3>1. ASSUME NEW k \in Keys, NEW q \in Quotes, NEW term \in Terms \cup {"none"},
                 ManualOrder(t, k, q, term)
          PROVE  UNCHANGED <<open, issued, spared, missed, slipped>>
      BY <3>1 DEF ManualOrder, Apply, tools, history, book
    <3>2. ASSUME NEW k \in Keys, NEW term \in {"held", "none"}, CancelOrder(t, k, term)
          PROVE  UNCHANGED <<open, issued, spared, missed, slipped>>
      BY <3>2 DEF CancelOrder, FindOrder, tools, history, book
    <3>3. UNCHANGED <<open, issued, spared, missed, slipped>>
      BY <2>3, <3>1, <3>2
    <3> QED
      BY <1>2, <2>2, <3>3, SameOrders, SweepsStand
  <2>4. CASE ManualSteps(t)
    <3>1. UNCHANGED <<spared, missed, slipped>> /\ (Acquire(t) \/ Answer(t) \/ Resume(t))
      BY <2>4 DEF ManualSteps, tools
    <3> QED
      BY <1>2, <1>7, <2>1, <2>2, <3>1, SweepsStand
  <2>5. CASE CancelOrderSteps(t)
    <3>1. UNCHANGED missed
      BY <2>5 DEF CancelOrderSteps
    <3>2. CASE PullOrder(t)
      BY <1>2, <2>2, <3>1, <3>2, SameOrders, SweepsStand DEF PullOrder, tools, book
    <3>3. CASE Answer(t) /\ UNCHANGED tools
      BY <1>2, <1>7, <2>1, <2>2, <3>1, <3>3, SweepsStand DEF tools
    <3>4. CASE OrderPulled(t)
      <4>1. /\ UNCHANGED <<open, issued, spared>>
            /\ slipped => slipped'
        BY <3>4 DEF OrderPulled, OnSkipCancel, book
      <4> QED
        BY <1>2, <2>2, <3>1, <4>1, SameOrders, SweepsStand
    <3> QED
      BY <2>5, <3>2, <3>3, <3>4 DEF CancelOrderSteps
  <2> QED
    BY <1>9, <2>3, <2>4, <2>5
\* A step of a sweeper: what it does not touch, and what is left to show.
<1>10. job = [u \in Operators \cup Sweepers |-> job[u]]
  BY DEF OperatorsShape
<1>11. ASSUME NEW t \in Sweepers, KillCommand(t)
       PROVE  KillInv'
  <2>1. /\ job' = [job EXCEPT ![t] = [NoJob EXCEPT !.kind = "killing"]]
        /\ job[t] = NoJob /\ atKill' = issued
        /\ UNCHANGED <<open, issued, call, sweep>>
    BY <1>11 DEF KillCommand, book, manager, tools
  <2>2. /\ job'[t] \in SweeperJobs /\ job'[t].kind = "killing"
        /\ \A u \in Sweepers \ {t} : job'[u] = job[u]
    BY <1>10, <2>1 DEF NoJob, SweeperJobs
  <2>3. SweepersRest'
    BY <2>1, <2>2 DEF KillInv, SweepersRest, NoJob
  <2>4. \A o : SweepToCome(o)'
    BY <2>2 DEF SweepToCome
  <2> QED
    BY <1>2, <2>1, <2>3, <2>4 DEF KillInv, KillTriesEverything
<1>12. ASSUME NEW t \in Sweepers, NEW ks \in SUBSET Keys, StartSweep(t, ks),
              UNCHANGED <<book, manager, killState, atKill>>, missed \subseteq missed',
              UNCHANGED job \/ \E j \in SweeperJobs : job' = [job EXCEPT ![t] = j],
              sweep'[t].stage # "idle" => job'[t].kind \notin {"none", "killing"},
              job[t].kind = "killing" => ks = Keys /\ \A o \in open : InHand(o) => o.id \in missed'
       PROVE  KillInv'
  <2>1. /\ SweptWell(t) /\ sweep[t].stage = "idle"
        /\ UNCHANGED <<open, issued, call, slipped, spared>>
    BY <1>12, StartMoves DEF StartSweep
  <2>2. /\ \A u \in Sweepers \ {t} : job'[u] = job[u] /\ sweep'[u] = sweep[u]
        /\ job'[t] \in SweeperJobs
    BY <1>10, <1>12, <2>1 DEF SweptWell, KillInv, SweepersRest
  <2>3. SweepersRest'
    <3>1. call[t].stage = "idle"
      BY <1>12 DEF StartSweep
    <3> QED
      BY <1>12, <2>1, <2>2, <3>1 DEF KillInv, SweepersRest
  <2>4. ASSUME ~slipped, NEW o \in open, SweepToCome(o)
        PROVE  SweepToCome(o)' \/ o.id \in missed'
    <3>1. CASE job[t].kind = "killing"
      BY <1>12, <2>4, <3>1, SweepListsAll DEF SweepToCome, LipUnslipped
    <3>2. CASE job[t].kind # "killing"
      <4>1. PICK u \in Sweepers :
              \/ job[u].kind = "killing"
              \/ sweep[u].stage # "idle" /\ o.id \in sweep[u].ids
        BY <2>4 DEF SweepToCome
      <4>2. u # t
        BY <2>1, <3>2, <4>1
      <4> QED
        BY <2>2, <4>1, <4>2 DEF SweepToCome
    <3> QED
      BY <3>1, <3>2
  <2>5. KillTriesEverything'
    BY <1>12, <2>1, <2>4 DEF KillInv, KillTriesEverything
  <2> QED
    BY <1>12, <2>1, <2>3, <2>5 DEF KillInv
<1>13. ASSUME NEW t \in Sweepers, StartKillSweep(t)
       PROVE  KillInv'
  <2>1. /\ StartSweep(t, Keys) /\ UNCHANGED <<book, manager, killState, atKill>>
        /\ job' = [job EXCEPT ![t] =
                     IF sweep'[t] = NoSweep THEN NoJob ELSE [@ EXCEPT !.kind = "kill"]]
        /\ missed' = missed \cup {o.id : o \in {p \in open : InHand(p)}}
        /\ job[t].kind = "killing"
    BY <1>13 DEF StartKillSweep, control
  <2>2. PICK j \in SweeperJobs :
          /\ job' = [job EXCEPT ![t] = j]
          /\ sweep'[t] # NoSweep => j.kind = "kill"
    <3>1. NoJob \in SweeperJobs /\ [job[t] EXCEPT !.kind = "kill"] \in SweeperJobs
      BY DEF NoJob, SweeperJobs, KillInv, SweepersRest
    <3>2. job[t] \in SweeperJobs => [job[t] EXCEPT !.kind = "kill"].kind = "kill"
      BY DEF SweeperJobs
    <3>3. CASE sweep'[t] = NoSweep
      BY <2>1, <3>1, <3>3
    <3>4. CASE sweep'[t] # NoSweep
      BY <2>1, <3>1, <3>2, <3>4 DEF KillInv, SweepersRest
    <3> QED
      BY <3>3, <3>4
  <2>3. sweep'[t].stage # "idle" => job'[t].kind \notin {"none", "killing"}
    BY <1>10, <2>2 DEF NoSweep
  <2> QED
    BY <1>12, <2>1, <2>2, <2>3
<1>14. ASSUME NEW t \in Sweepers, NEW e \in Events, RemoveAndSweep(t, e)
       PROVE  KillInv'
  <2>1. /\ StartSweep(t, {k \in Keys : EventOf[k[1]] = e}) /\ job[t] = NoJob
        /\ UNCHANGED <<book, manager, history>>
        /\ \/ sweep'[t] = NoSweep /\ UNCHANGED job
           \/ job' = [job EXCEPT ![t] = [NoJob EXCEPT !.kind = "remove", !.event = e]]
    BY <1>14 DEF RemoveAndSweep
  <2>2. UNCHANGED killState
    BY <1>14, ControlStands DEF RemoveAndSweep
  <2> DEFINE j == [NoJob EXCEPT !.kind = "remove", !.event = e]
  <2>3. /\ UNCHANGED job \/ \E i \in SweeperJobs : job' = [job EXCEPT ![t] = i]
        /\ sweep'[t].stage # "idle" => job'[t].kind \notin {"none", "killing"}
    <3>1. j \in SweeperJobs /\ j.kind = "remove"
      BY DEF NoJob, SweeperJobs
    <3>2. \/ sweep'[t] = NoSweep /\ UNCHANGED job
          \/ job' = [job EXCEPT ![t] = j]
      BY <2>1
    <3> HIDE DEF j
    <3>3. job' = [job EXCEPT ![t] = j] => job'[t] = j
      BY <1>10
    <3> QED
      BY <3>1, <3>2, <3>3 DEF NoSweep
  <2>4. job[t].kind # "killing"
    BY <2>1 DEF NoJob
  <2>5. {k \in Keys : EventOf[k[1]] = e} \in SUBSET Keys
    OBVIOUS
  <2> QED
    BY <1>12, <2>1, <2>2, <2>3, <2>4, <2>5 DEF history
<1>15. ASSUME NEW t \in Sweepers, SweepOn(t)
       PROVE  KillInv'
  <2>1. /\ SweepSteps(t) /\ UNCHANGED <<atKill, missed>>
        /\ \/ UNCHANGED job
           \/ job' = [job EXCEPT ![t] = NoJob] /\ sweep'[t] = NoSweep /\ call'[t] = Idle
    BY <1>15 DEF SweepOn, history
  <2>2. /\ SweptWell(t) /\ (slipped => slipped') /\ issued' = issued
        /\ sweep[t].stage # "idle" \/ call[t].stage = "list"
    BY <2>1, SweepMoves
  <2>3. UNCHANGED killState
    BY <1>15, ControlStands DEF SweepOn
  <2>4. \A u \in Sweepers \ {t} : job'[u] = job[u] /\ sweep'[u] = sweep[u] /\ call'[u] = call[u]
    BY <1>3, <1>10, <2>1, <2>2 DEF SweptWell
  <2>5. job[t].kind \notin {"none", "killing"}
    BY <2>2 DEF KillInv, SweepersRest
  <2>6. SweepersRest'
    BY <1>10, <2>1, <2>4, <2>5, IdleType DEF KillInv, SweepersRest, NoSweep, NoJob, SweeperJobs
  <2>7. /\ open' \subseteq open /\ spared \subseteq spared'
        /\ \A o \in open' : sweep[t].stage # "idle" /\ o.id \in sweep[t].ids =>
             \/ sweep'[t].stage # "idle" /\ o.id \in sweep'[t].ids
             \/ o.id \in spared'
    <3>1. CASE Sweeping(t)
      BY <3>1, SweepingLeaves
    <3>2. CASE Answer(t) /\ UNCHANGED tools
      <4>1. call[t].stage = "list"
        BY <1>3, <3>2, AnswerStays DEF SweepersShape, Waiting, Request
      <4> QED
        BY <1>3, <3>2, <4>1, ListAnswer DEF tools, book
    <3>3. CASE SweepRebuild(t)
      BY <3>3 DEF SweepRebuild, Rebuild, book
    <3> QED
      BY <2>1, <3>1, <3>2, <3>3 DEF SweepSteps
  <2>8. \A o \in open, p \in open' : o.id = p.id /\ SweepToCome(o) =>
          SweepToCome(p)' \/ p.id \in spared' \cup missed'
    <3> SUFFICES ASSUME NEW o \in open, NEW p \in open', o.id = p.id, SweepToCome(o)
                 PROVE  SweepToCome(p)' \/ p.id \in spared'
      OBVIOUS
    <3>1. PICK u \in Sweepers :
            job[u].kind = "killing" \/ (sweep[u].stage # "idle" /\ o.id \in sweep[u].ids)
      BY DEF SweepToCome
    <3> QED
      BY <2>4, <2>5, <2>7, <3>1 DEF SweepToCome
  <2> QED
    BY <1>2, <2>1, <2>2, <2>3, <2>6, <2>7, <2>8, SameOrders, KillStands
<1>16. CASE \/ PauseCommand \/ RecoverCommand \/ LockCommand \/ EventCommand \/ Clock
            \/ MarketMoves /\ UNCHANGED <<tools, control, run, job, history>>
            \/ UNCHANGED lipVars
  <2>1. UNCHANGED <<sweep, spared, missed>>
    BY <1>16 DEF PauseCommand, RecoverCommand, LockCommand, EventCommand, Clock, tools,
       history, lipVars
  <2>2. OnlyNew
    <3>1. UNCHANGED book \/ Market
      BY <1>16 DEF PauseCommand, RecoverCommand, LockCommand, EventCommand, Clock,
         MarketMoves, lipVars, book
    <3> QED
      BY <1>2, <3>1, MarketOnlyNew, SameOrders DEF book
  <2>3. /\ UNCHANGED <<call, issued, job, atKill, slipped>>
        /\ killState' = "killed" => killState = "killed"
    BY <1>16, RestMoves
  <2> QED
    BY <1>2, <2>1, <2>2, <2>3, SweepsStand
<1> QED
  BY <1>4, <1>5, <1>6, <1>8, <1>9, <1>11, <1>13, <1>14, <1>15, <1>16
  DEF LipNext, RunnerSteps, SweeperSteps

\* A kill's sweep tries to cancel whatever rests, with any number of strikes,
\* operators and sweeps: an order from before the kill that still rests is in
\* the list of a sweep, or was there and its cancel failed or was given up, or
\* was in the hands of a call when the sweep looked (lipmm/runner/runner.py,
\* cancel_all_resting; lipmm/execution/adapters/kalshi.py, cancel_orders).
THEOREM KillTriesAll ==
  ASSUME NothingLost PROVE LipSpec => []KillTriesEverything
<1>1. LipInit => LipShape /\ LipUnslipped /\ KillInv
  <2> SUFFICES ASSUME LipInit PROVE KillInv
    BY LipShapeInit, UnslippedInit
  <2>1. open = {} /\ issued = 0 /\ atKill = 0
    BY DEF LipInit, ToolsInit, Init, EmptyBook
  <2>2. SweepersRest
    BY ToolsAssumption, IdleType
    DEF LipInit, ToolsInit, Init, SweepersRest, NoSweep, NoJob, SweeperJobs
  <2> QED
    BY <2>1, <2>2 DEF KillInv, KillTriesEverything
<1>2. LipShape /\ LipUnslipped /\ KillInv /\ [LipNext]_lipVars
        => (LipShape /\ LipUnslipped /\ KillInv)'
  BY NothingLost, LipShapeStep, LipUnslippedStep, KillInvStep
<1> QED
  BY <1>1, <1>2, PTL DEF LipSpec, KillInv
=============================================================================
