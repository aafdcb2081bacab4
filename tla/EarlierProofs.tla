---------------------------- MODULE EarlierProofs ----------------------------
(***************************************************************************)
(* Proofs about the earlier bots and the tools beside the LIP bot: what a  *)
(* process that is cut short, stopped, or run twice at once leaves behind. *)
(* Each component has an inductive invariant of its own.                   *)
(***************************************************************************)
EXTENDS QuickRounds, Reanchor, PoolStore, FeedCapture, LipMode, PennyBot,
        GrainBot, LipModeQuote, KalshiWs, ScoreTracker,
        GrainQuotes, EventGrid, SequenceTheorems, SumLemmas

-----------------------------------------------------------------------------
(* QuickRounds: the one-shot script.                                       *)

QuickSides == {"bid", "ask"}
NoBaits == [l \in QuickSides |-> 0]
Unpulled == {e[1] : e \in unpulled}

QuickStages == {"between", "leg", "clearing", "placing", "watching", "pulling",
                "taking", "done", "failed", "ended"}

QuickShape ==
    /\ quickAt \in QuickStages
    /\ legs \in Seq(QuickSides)
    /\ quickIds \in Nat
    /\ ours \subseteq 1 .. quickIds
    /\ baitIds \in [QuickSides -> 0 .. quickIds]

\* Where a leg is under way there is a leg to do, and the script knows no bait
\* but this leg's; where none is under way it knows none, unless it has failed.
QuickLegs ==
    /\ quickAt \in {"clearing", "placing", "watching", "pulling", "taking"} => legs # <<>>
    /\ quickAt \in {"watching", "pulling"} =>
         \A l \in QuickSides : l # Head(legs) => baitIds[l] = 0
    /\ quickAt \notin {"watching", "pulling", "failed"} => baitIds = NoBaits

\* Every order of ours is a bait the script knows, or one it cannot cancel.
QuickKnows ==
    \A o \in ours : o \in Unpulled \/ o = baitIds["bid"] \/ o = baitIds["ask"]

QuickInv == QuickShape /\ QuickLegs /\ QuickKnows

\* What _cancel_quiet leaves of the orders it is given is recorded.
LEMMA CancelledLeaves ==
    ASSUME NEW orders, Cancelled(orders)
    PROVE  /\ ours' \subseteq ours
           /\ Unpulled \subseteq Unpulled'
           /\ \A o \in orders : o \in ours' => o \in Unpulled'
<1>1. PICK left \in SUBSET (orders \cap ours) :
        /\ ours' = ours \ (orders \ left)
        /\ unpulled' = unpulled \cup {<<o, "not cancelled">> : o \in left}
  BY DEF Cancelled
<1>2. \A o \in left : o \in Unpulled'
  <2> TAKE o \in left
  <2>1. <<o, "not cancelled">> \in unpulled'
    BY <1>1
  <2>2. <<o, "not cancelled">>[1] = o
    OBVIOUS
  <2> QED
    BY <2>1, <2>2, Zenon DEF Unpulled
<1>3. Unpulled \subseteq Unpulled'
  BY <1>1 DEF Unpulled
<1> QED
  BY <1>1, <1>2, <1>3

LEMMA QuickStarts == QuickInit => QuickInv
BY DEF QuickInit, QuickInv, QuickShape, QuickLegs, QuickKnows, QuickStages, QuickSides,
       NoBaits

LEMMA QuickSteps ==
    ASSUME QuickInv, [QuickNext]_quickVars
    PROVE  QuickInv'
<1> USE QuickAssumption DEF QuickInv
<1>0. Legs \in Seq(QuickSides) /\ Legs # <<>>
  <2>1. CASE Legs = <<"bid", "ask">>
    BY <2>1 DEF QuickSides
  <2>2. CASE Legs = <<"bid">>
    BY <2>2 DEF QuickSides
  <2>3. CASE Legs = <<"ask">>
    BY <2>3 DEF QuickSides
  <2> QED
    BY <2>1, <2>2, <2>3 DEF QuickArgs
<1>i. 1 .. quickIds \subseteq 1 .. quickIds + 1 /\ 0 .. quickIds \subseteq 0 .. quickIds + 1
  BY DEF QuickShape
<1>h. legs # <<>> => Head(legs) \in QuickSides /\ Tail(legs) \in Seq(QuickSides)
  BY HeadTailProperties DEF QuickShape
<1>1. CASE QuickSignal
  BY <1>1 DEF QuickSignal, QuickShape, QuickLegs, QuickKnows, Unpulled
<1>2. CASE OursFilled
  BY <1>2 DEF OursFilled, QuickShape, QuickLegs, QuickKnows, Unpulled
<1>3. CASE RoundBegins
  BY <1>0, <1>3 DEF RoundBegins, QuickShape, QuickLegs, QuickKnows, Unpulled, QuickStages
<1>4. CASE LegBegins
  BY <1>4 DEF LegBegins, QuickShape, QuickLegs, QuickKnows, Unpulled, QuickStages
<1>5. CASE BookCleared
  BY <1>5 DEF BookCleared, QuickShape, QuickLegs, QuickKnows, Unpulled, QuickStages
<1>6. CASE BaitPlaced
  <2> USE DEF BaitPlaced, SentOrder
  <2>1. QuickShape'
    <3>1. quickIds' \in Nat /\ quickAt' \in QuickStages /\ legs' \in Seq(QuickSides)
      BY <1>6 DEF QuickShape, QuickStages
    <3>2. quickIds' = quickIds \/ quickIds' = quickIds + 1
      BY <1>6
    <3>4. /\ ours' \subseteq ours \cup {quickIds + 1}
          /\ quickIds' = quickIds => ours' = ours /\ baitIds' = baitIds
      BY <1>6 DEF QuickShape
    <3>5. ours' \subseteq 1 .. quickIds'
      BY <3>2, <3>4, <1>i DEF QuickShape
    <3>3. baitIds' \in [QuickSides -> 0 .. quickIds']
      BY <1>6, <1>h, <1>i, <3>2, <3>4 DEF QuickShape
    <3> QED
      BY <3>1, <3>5, <3>3 DEF QuickShape
  <2>2. QuickLegs'
    BY <1>6, <1>h DEF QuickShape, QuickLegs, NoBaits, QuickSides
  <2>3. QuickKnows'
    <3>1. CASE quickIds' = quickIds + 1 /\ quickAt' = "watching"
      BY <1>6, <1>h, <3>1, ZenonT(60) DEF QuickShape, QuickLegs, QuickKnows, NoBaits, QuickSides, Unpulled
    <3>2. CASE UNCHANGED <<ours, baitIds, unpulled>>
      BY <3>2 DEF QuickKnows, Unpulled
    <3>3. CASE /\ ours' = ours \cup {quickIds + 1}
               /\ unpulled' = unpulled \cup {<<quickIds + 1, "unanswered">>}
               /\ UNCHANGED baitIds
      <4>1. <<quickIds + 1, "unanswered">> \in unpulled' /\ unpulled \subseteq unpulled'
        BY <3>3
      <4>2. quickIds + 1 \in Unpulled' /\ Unpulled \subseteq Unpulled'
        BY <4>1 DEF Unpulled
      <4> QED
        BY <3>3, <4>2 DEF QuickKnows
    <3> QED
      BY <1>6, <3>1, <3>2, <3>3
  <2> QED
    BY <2>1, <2>2, <2>3
<1>7. CASE PriceSeen
  BY <1>7 DEF PriceSeen, QuickShape, QuickLegs, QuickKnows, Unpulled, QuickStages
<1>8. CASE BaitPulled
  <2> DEFINE bait == baitIds[Head(legs)]
  <2>1. Head(legs) \in QuickSides
    BY <1>8, <1>h DEF BaitPulled, QuickLegs
  <2>2. /\ ours' \subseteq ours /\ Unpulled \subseteq Unpulled'
        /\ bait \in ours' => bait \in Unpulled'
    BY <1>8, CancelledLeaves DEF BaitPulled
  <2>3. baitIds' = NoBaits
    BY <1>8, <2>1 DEF BaitPulled, QuickShape, QuickLegs, NoBaits, QuickSides
  <2>4. QuickShape' /\ QuickLegs'
    <3>1. quickAt' \in QuickStages /\ legs' \in Seq(QuickSides) /\ quickIds' = quickIds
      BY <1>8 DEF BaitPulled, QuickShape, QuickStages
    <3>3. NoBaits \in [QuickSides -> 0 .. quickIds]
      BY DEF NoBaits, QuickShape
    <3>4. QuickShape'
      BY <2>2, <2>3, <3>1, <3>3 DEF QuickShape
    <3>2. QuickLegs'
      BY <1>8, <2>3 DEF BaitPulled, QuickLegs, QuickStages
    <3> QED
      BY <3>2, <3>4
  <2>5. \A l \in QuickSides : baitIds[l] = bait \/ baitIds[l] = 0
    BY <1>8, <2>1 DEF BaitPulled, QuickLegs
  <2>6. 0 \notin ours
    BY DEF QuickShape
  <2>7. QuickKnows'
    BY <2>2, <2>5, <2>6 DEF QuickKnows, QuickSides
  <2> QED
    BY <2>4, <2>7
<1>9. CASE PriceTaken
  <2>0. /\ quickAt = "taking" /\ UNCHANGED <<quickRound, stopping>>
        /\ \/ /\ quickIds' = quickIds + 1
              /\ \/ UNCHANGED <<ours, unpulled>>
                 \/ /\ ours' = ours \cup {quickIds + 1}
                    /\ \/ unpulled' = unpulled \cup {<<quickIds + 1, "unanswered">>}
                       \/ unpulled' = unpulled \cup {<<quickIds + 1, "taken for filled">>}
           \/ UNCHANGED <<quickIds, ours, unpulled>>
        /\ UNCHANGED baitIds
        /\ quickAt' \in {"leg", "failed"}
        /\ legs' \in {legs, Tail(legs)}
    BY <1>9 DEF PriceTaken, SentOrder
  <2>1. QuickShape' /\ QuickLegs'
    <3>1. quickIds' \in Nat /\ quickAt' \in QuickStages /\ legs' \in Seq(QuickSides)
      <4>1. legs # <<>>
        BY <2>0 DEF QuickLegs
      <4>2. legs' \in Seq(QuickSides)
        BY <2>0, <1>h, <4>1 DEF QuickShape
      <4>3. quickIds' \in {quickIds, quickIds + 1}
        BY <2>0
      <4>4. quickIds' \in Nat
        BY <4>3 DEF QuickShape
      <4>5. quickAt' \in QuickStages
        BY <2>0 DEF QuickStages
      <4> QED
        BY <4>2, <4>4, <4>5
    <3>2. ours' \subseteq 1 .. quickIds'
      <4>1. ours \subseteq 1 .. quickIds /\ quickIds \in Nat
        BY DEF QuickShape
      <4>2. \/ quickIds' = quickIds + 1 /\ ours' \subseteq ours \cup {quickIds + 1}
            \/ quickIds' = quickIds /\ ours' = ours
        BY <2>0
      <4>3. CASE quickIds' = quickIds + 1 /\ ours' \subseteq ours \cup {quickIds + 1}
        <5>1. quickIds + 1 \in 1 .. quickIds'
          BY <4>1, <4>3
        <5> QED
          BY <4>1, <4>3, <5>1, <1>i
      <4>4. CASE quickIds' = quickIds /\ ours' = ours
        BY <4>1, <4>4
      <4> QED
        BY <4>2, <4>3, <4>4
    <3>3. baitIds' \in [QuickSides -> 0 .. quickIds']
      BY <2>0, <1>i DEF QuickShape
    <3>4. QuickLegs'
      BY <2>0 DEF QuickLegs
    <3> QED
      BY <3>1, <3>2, <3>3, <3>4 DEF QuickShape
  <2>3. ASSUME NEW why,
               ours' = ours \cup {quickIds + 1},
               unpulled' = unpulled \cup {<<quickIds + 1, why>>},
               UNCHANGED baitIds
        PROVE  QuickKnows'
    <3>1. <<quickIds + 1, why>> \in unpulled' /\ unpulled \subseteq unpulled'
      BY <2>3
    <3>2. quickIds + 1 \in Unpulled' /\ Unpulled \subseteq Unpulled'
      BY <3>1 DEF Unpulled
    <3> QED
      BY <2>3, <3>2 DEF QuickKnows
  <2>4. QuickKnows'
    BY <2>0, <2>3 DEF QuickKnows, Unpulled
  <2> QED
    BY <2>1, <2>4
<1>10. CASE RoundEnds
  <2> DEFINE all == ToSet(<<baitIds["bid"], baitIds["ask"]>>) \ {0}
  <2>1. all = {baitIds["bid"], baitIds["ask"]} \ {0}
    BY DEF ToSet
  <2>2. /\ ours' \subseteq ours /\ Unpulled \subseteq Unpulled'
        /\ \A o \in all : o \in ours' => o \in Unpulled'
    BY <1>10, CancelledLeaves DEF RoundEnds
  <2>3. QuickShape' /\ QuickLegs'
    BY <1>10, <2>2 DEF RoundEnds, QuickShape, QuickLegs, NoBaits, QuickStages, QuickSides
  <2>4. 0 \notin ours
    BY DEF QuickShape
  <2>5. QuickKnows'
    BY <2>1, <2>2, <2>4 DEF QuickKnows
  <2> QED
    BY <2>3, <2>5
<1>11. CASE UNCHANGED quickVars
  BY <1>11 DEF quickVars, QuickShape, QuickLegs, QuickKnows, Unpulled
<1> QED
  BY <1>1, <1>2, <1>3, <1>4, <1>5, <1>6, <1>7, <1>8, <1>9, <1>10, <1>11 DEF QuickNext

\* Whatever the legs, the rounds and the requests that fail: when the script
\* has ended, what still rests is an order whose request or cancel was not
\* answered, or a crossing order it took for filled.
THEOREM ScriptPullsItsOrders ==
    QuickInit /\ [][QuickNext]_quickVars => []OutstandingPulled
<1>1. QuickInv => OutstandingPulled
  BY DEF QuickInv, QuickShape, QuickLegs, QuickKnows, OutstandingPulled, Unpulled, NoBaits,
         QuickSides
<1> QED
  BY QuickStarts, QuickSteps, <1>1, PTL

-----------------------------------------------------------------------------
(* Reanchor: jobs that rewrite the anchor.                                 *)

JobStages == {"off", "waiting", "pricing", "backing up", "saving", "emptying", "writing",
              "validating", "restoring", "copying"}

JobStates == [at : JobStages, day : Nat, name : Seconds]
Early == {"off", "waiting", "pricing", "backing up", "saving"}

\* A job past its wait holds a day that has settled; what is in the files is no
\* later than that.
ReanchorShape ==
    /\ settledDays \in Nat /\ second \in Seconds
    /\ anchor \in Int /\ anchor <= settledDays
    /\ saved \in [Seconds -> Int] /\ \A t \in Seconds : saved[t] <= settledDays
    /\ job \in [Jobs -> JobStates]
    /\ \A j \in Jobs : job[j].at \notin {"off", "waiting"} => job[j].day <= settledDays

\* A backup that is being written is one job's alone, and not whole yet.
OwnBackups ==
    \A j \in Jobs : job[j].at = "saving" =>
        /\ saved[job[j].name] = Cut
        /\ \A k \in Jobs \ {j} : job[k].at = "saving" => job[k].name # job[j].name

\* Until a whole anchor has been backed up no job has touched the file.
Untouched ==
    /\ anchor >= 0
    /\ \A j \in Jobs : job[j].at \in Early

WholeBackup == \E t \in Seconds : saved[t] >= 0

ReanchorInv ==
    ReanchorShape /\ (clashed \/ (OwnBackups /\ (WholeBackup \/ Untouched)))

LEMMA ReanchorStarts == ReanchorInit => ReanchorInv
<1> SUFFICES ASSUME ReanchorInit
             PROVE  ReanchorInv
  OBVIOUS
<1>1. JobOff \in JobStates /\ JobOff.at = "off"
  BY ReanchorAssumption DEF JobOff, JobStates, JobStages, Seconds
<1>2. job \in [Jobs -> JobStates] /\ \A j \in Jobs : job[j].at = "off"
  BY <1>1 DEF ReanchorInit
<1>3. ReanchorShape
  BY <1>2, ReanchorAssumption DEF ReanchorInit, ReanchorShape, Seconds, NoFile
<1>4. Untouched
  <2>1. anchor >= 0
    BY DEF ReanchorInit
  <2> QED
    BY <1>2, <2>1 DEF Untouched, Early
<1>5. OwnBackups
  BY <1>2 DEF OwnBackups
<1> QED
  BY <1>3, <1>4, <1>5 DEF ReanchorInv

\* Only j moves, and what it is then is something that a job may be.
OnlyMoves(j) ==
    /\ job' \in [Jobs -> JobStates]
    /\ \A k \in Jobs : k # j => job'[k] = job[k]
    /\ job'[j].at \notin {"off", "waiting"} => job'[j].day <= settledDays

\* What a step of one job may change without harm, if it opens no backup: the
\* file, or its own backup.
LEMMA OneJobMoves ==
    ASSUME ReanchorInv, NEW j \in Jobs, OnlyMoves(j), job'[j].at # "saving",
           UNCHANGED <<settledDays, second, clashed>>,
           anchor' \in Int, anchor' <= settledDays,
           \/ saved' = saved
           \/ job[j].at = "saving" /\ saved' = [saved EXCEPT ![job[j].name] = anchor],
           clashed \/ WholeBackup' \/ (Untouched /\ anchor' = anchor /\ job'[j].at \in Early)
    PROVE  ReanchorInv'
<1>1. ReanchorShape'
  BY DEF ReanchorInv, ReanchorShape, OnlyMoves, JobStates
<1>2. Untouched /\ anchor' = anchor /\ job'[j].at \in Early => Untouched'
  BY DEF Untouched, OnlyMoves
<1>3. ASSUME OwnBackups
      PROVE  OwnBackups'
  <2> SUFFICES ASSUME NEW k \in Jobs, job'[k].at = "saving"
               PROVE  /\ saved'[job'[k].name] = Cut
                      /\ \A i \in Jobs \ {k} : job'[i].at = "saving" => job'[i].name # job'[k].name
    BY DEF OwnBackups
  <2>1. k # j /\ job'[k] = job[k] /\ job[k].name \in Seconds
    BY DEF OnlyMoves, ReanchorInv, ReanchorShape, JobStates
  <2>2. \A i \in Jobs \ {k} : job'[i].at = "saving" => job'[i] = job[i]
    BY DEF OnlyMoves
  <2>3. saved'[job[k].name] = saved[job[k].name]
    BY <1>3, <2>1 DEF OwnBackups, ReanchorInv, ReanchorShape
  <2> QED
    BY <1>3, <2>1, <2>2, <2>3 DEF OwnBackups
<1> QED
  BY <1>1, <1>2, <1>3 DEF ReanchorInv

\* What a job holds when it ends, or goes on to another stage.
LEMMA JobMoves ==
    ASSUME ReanchorInv, NEW j \in Jobs
    PROVE  /\ job' = [job EXCEPT ![j] = JobOff]
                => OnlyMoves(j) /\ job'[j].at = "off"
           /\ \A to \in JobStages :
                Moves(j, to) /\ (to \notin {"off", "waiting"} => job[j].day <= settledDays)
                => OnlyMoves(j) /\ job'[j].at = to
<1>1. JobOff \in JobStates /\ JobOff.at = "off"
  BY ReanchorAssumption DEF JobOff, JobStates, JobStages, Seconds
<1> USE DEF ReanchorInv, ReanchorShape
<1>2. ASSUME job' = [job EXCEPT ![j] = JobOff]
      PROVE  OnlyMoves(j) /\ job'[j].at = "off"
  <2>1. job' \in [Jobs -> JobStates] /\ job'[j] = JobOff
    BY <1>1, <1>2
  <2> QED
    BY <1>1, <1>2, <2>1 DEF OnlyMoves
<1>3. ASSUME NEW to \in JobStages, Moves(j, to),
             to \notin {"off", "waiting"} => job[j].day <= settledDays
      PROVE  OnlyMoves(j) /\ job'[j].at = to
  <2> DEFINE r == [job[j] EXCEPT !.at = to]
  <2>1. r \in JobStates /\ r.at = to /\ r.day = job[j].day
    BY DEF JobStates
  <2>2. job'[j] = r /\ job' = [job EXCEPT ![j] = r]
    BY <1>3 DEF Moves
  <2> HIDE DEF r
  <2> QED
    BY <1>3, <2>1, <2>2 DEF OnlyMoves
<1> QED
  BY <1>2, <1>3

\* The backup is opened: under a name that was free it is this job's alone.
LEMMA BackupOpens ==
    ASSUME ReanchorInv, NEW j \in Jobs, BackupOpened(j)
    PROVE  ReanchorInv'
<1>s. /\ settledDays \in Nat /\ second \in Seconds /\ saved \in [Seconds -> Int]
      /\ \A t \in Seconds : saved[t] <= settledDays
      /\ job \in [Jobs -> JobStates] /\ job[j].day <= settledDays
  BY DEF ReanchorInv, ReanchorShape, BackupOpened
<1> DEFINE r == [job[j] EXCEPT !.at = "saving", !.name = second]
<1>1. /\ r \in JobStates /\ r.at = "saving" /\ r.day = job[j].day /\ r.name = second
      /\ job' = [job EXCEPT ![j] = r]
  BY <1>s DEF JobStates, JobStages, BackupOpened
<1> HIDE DEF r
<1>2. /\ job' \in [Jobs -> JobStates] /\ job'[j] = r
      /\ \A k \in Jobs : k # j => job'[k] = job[k]
  BY <1>1, <1>s
<1>3. /\ saved' = [saved EXCEPT ![second] = -1] /\ UNCHANGED <<settledDays, anchor, second>>
      /\ clashed' = (clashed \/ saved[second] # -3)
  BY DEF BackupOpened, Cut, NoFile
<1>4. ReanchorShape'
  BY <1>s, <1>1, <1>2, <1>3 DEF ReanchorInv, ReanchorShape
<1>5. ASSUME ~clashed'
      PROVE  OwnBackups' /\ (WholeBackup \/ Untouched)'
  <2>1. ~clashed /\ saved[second] = -3 /\ OwnBackups /\ (WholeBackup \/ Untouched)
    BY <1>3, <1>5 DEF ReanchorInv
  <2>2. \A k \in Jobs : job[k].at = "saving" => saved[job[k].name] = -1 /\ job[k].name # second
    BY <2>1 DEF OwnBackups, Cut
  <2>3. OwnBackups'
    <3> SUFFICES ASSUME NEW k \in Jobs, job'[k].at = "saving"
                 PROVE  /\ saved'[job'[k].name] = -1
                        /\ \A i \in Jobs \ {k} :
                             job'[i].at = "saving" => job'[i].name # job'[k].name
      BY DEF OwnBackups, Cut
    <3>1. CASE k = j
      BY <1>s, <1>1, <1>2, <1>3, <2>2, <3>1
    <3>2. CASE k # j
      <4>1. job'[k] = job[k] /\ job[k].name \in Seconds /\ job[k].name # second
        BY <1>s, <1>2, <2>2, <3>2 DEF JobStates
      <4>2. saved'[job[k].name] = -1
        BY <1>s, <1>3, <2>2, <4>1
      <4>3. \A i \in Jobs \ {k} : job'[i].at = "saving" => job'[i].name # job[k].name
        BY <1>1, <1>2, <2>1, <4>1 DEF OwnBackups
      <4> QED
        BY <4>1, <4>2, <4>3
    <3> QED
      BY <3>1, <3>2
  <2>4. ASSUME WholeBackup PROVE WholeBackup'
    <3>1. PICK t \in Seconds : saved[t] >= 0
      BY <2>4 DEF WholeBackup
    <3>2. t # second
      BY <2>1, <3>1
    <3>3. saved'[t] = saved[t]
      BY <1>s, <1>3, <3>2
    <3> QED
      BY <3>1, <3>3 DEF WholeBackup
  <2>5. ASSUME Untouched PROVE Untouched'
    <3>1. \A k \in Jobs : job'[k].at = "saving" \/ job'[k].at = job[k].at
      BY <1>1, <1>2
    <3>2. anchor' >= 0
      BY <1>3, <2>5 DEF Untouched
    <3> QED
      BY <2>5, <3>1, <3>2 DEF Untouched, Early
  <2> QED
    BY <2>1, <2>3, <2>4, <2>5
<1> QED
  BY <1>4, <1>5 DEF ReanchorInv

LEMMA ReanchorSteps ==
    ASSUME ReanchorInv, [ReanchorNext]_reanchorVars
    PROVE  ReanchorInv'
<1>s. /\ settledDays \in Nat /\ anchor \in Int /\ anchor <= settledDays
      /\ saved \in [Seconds -> Int] /\ \A t \in Seconds : saved[t] <= settledDays
  BY DEF ReanchorInv, ReanchorShape
<1>u. clashed \/ (OwnBackups /\ (WholeBackup \/ Untouched))
  BY DEF ReanchorInv
<1>p. ASSUME NEW j \in Jobs, job[j].at \notin {"off", "waiting"}
      PROVE  job[j].day <= settledDays
  BY <1>p DEF ReanchorInv, ReanchorShape
<1>w. ASSUME NEW j \in Jobs, job[j].at \notin Early
      PROVE  clashed \/ WholeBackup
  BY <1>w, <1>u DEF Untouched
<1>k. saved' = saved => (WholeBackup => WholeBackup')
  BY DEF WholeBackup
\* A job goes where it may go while the files stay as they are.
<1>a. ASSUME NEW j \in Jobs, OnlyMoves(j), job'[j].at # "saving",
             UNCHANGED <<settledDays, anchor, second, saved, clashed>>,
             job'[j].at \in Early \/ job[j].at \notin Early
      PROVE  ReanchorInv'
  BY <1>a, <1>s, <1>k, <1>u, <1>w, OneJobMoves
<1>f. ASSUME NEW j \in Jobs, job' = [job EXCEPT ![j] = JobOff],
             UNCHANGED <<settledDays, anchor, second, saved, clashed>>
      PROVE  ReanchorInv'
  BY <1>f, <1>a, JobMoves DEF Early
<1>1. CASE DaySettles
  BY <1>1, <1>s, <1>u DEF DaySettles, ReanchorInv, ReanchorShape, JobStates, OwnBackups,
                          Untouched, WholeBackup
<1>2. CASE SecondPasses
  <2>1. second' \in Seconds
    BY <1>2, ReanchorAssumption DEF SecondPasses, Seconds, ReanchorInv, ReanchorShape
  <2> QED
    BY <1>2, <1>s, <1>u, <2>1 DEF SecondPasses, ReanchorInv, ReanchorShape, OwnBackups,
                                 Untouched, WholeBackup
<1>3. ASSUME NEW j \in Jobs, JobStarts(j)
      PROVE  ReanchorInv'
  <2>1. PICK day \in 1 .. LastDay :
          job' = [job EXCEPT ![j] = [at |-> "waiting", day |-> day, name |-> 0]]
    BY <1>3 DEF JobStarts
  <2>2. [at |-> "waiting", day |-> day, name |-> 0] \in JobStates
    BY ReanchorAssumption DEF JobStates, JobStages, Seconds
  <2>3. OnlyMoves(j) /\ job'[j].at = "waiting"
    BY <2>1, <2>2 DEF OnlyMoves, ReanchorInv, ReanchorShape
  <2>4. UNCHANGED <<settledDays, anchor, second, saved, clashed>>
    BY <1>3 DEF JobStarts
  <2> QED
    BY <1>a, <2>3, <2>4 DEF Early
<1>4. ASSUME NEW j \in Jobs, Settled(j)
      PROVE  ReanchorInv'
  <2>1. CASE job' = [job EXCEPT ![j] = JobOff]
    BY <2>1, <1>4, <1>f DEF Settled
  <2>2. CASE Moves(j, "pricing")
    BY <2>2, <1>4, <1>a, JobMoves DEF Settled, Early, JobStages
  <2> QED
    BY <2>1, <2>2, <1>4 DEF Settled
<1>5. ASSUME NEW j \in Jobs, PricesPulled(j)
      PROVE  ReanchorInv'
  <2>1. CASE job' = [job EXCEPT ![j] = JobOff]
    BY <2>1, <1>5, <1>f DEF PricesPulled
  <2>2. CASE Moves(j, "backing up")
    BY <2>2, <1>5, <1>p, <1>a, JobMoves DEF PricesPulled, Early, JobStages
  <2> QED
    BY <2>1, <2>2, <1>5 DEF PricesPulled
<1>6. ASSUME NEW j \in Jobs, BackedUp(j)
      PROVE  ReanchorInv'
  <2>1. /\ UNCHANGED <<settledDays, anchor, second, clashed>> /\ job[j].at = "saving"
        /\ saved' = [saved EXCEPT ![job[j].name] = anchor] /\ job[j].name \in Seconds
        /\ OnlyMoves(j) /\ job'[j].at = "emptying"
    BY <1>6, <1>p, JobMoves DEF BackedUp, JobStages, ReanchorInv, ReanchorShape, JobStates
  <2>2. clashed \/ WholeBackup'
    <3>1. CASE Untouched
      BY <2>1, <3>1, <1>s DEF Untouched, WholeBackup
    <3>2. CASE OwnBackups /\ WholeBackup
      <4>1. PICK t \in Seconds : saved[t] >= 0
        BY <3>2 DEF WholeBackup
      <4>2. t # job[j].name
        BY <2>1, <3>2, <4>1 DEF OwnBackups, Cut
      <4> QED
        BY <2>1, <4>1, <4>2, <1>s DEF WholeBackup
    <3> QED
      BY <1>u, <3>1, <3>2
  <2> QED
    BY <2>1, <2>2, <1>s, OneJobMoves
<1>7. ASSUME NEW j \in Jobs, Emptied(j)
      PROVE  ReanchorInv'
  <2>1. /\ anchor' = -1 /\ UNCHANGED <<saved, settledDays, second, clashed>>
        /\ (clashed \/ WholeBackup) /\ job[j].day <= settledDays
    BY <1>7, <1>w, <1>p DEF Emptied, Cut, Early
  <2>2. Moves(j, "writing") \/ Moves(j, "copying")
    BY <1>7 DEF Emptied
  <2>3. OnlyMoves(j) /\ job'[j].at # "saving"
    BY <2>1, <2>2, JobMoves DEF JobStages
  <2> QED
    BY <2>1, <2>3, <1>s, <1>k, OneJobMoves
<1>8. ASSUME NEW j \in Jobs, Written(j)
      PROVE  ReanchorInv'
  <2>1. /\ UNCHANGED <<saved, settledDays, second, clashed>>
        /\ (clashed \/ WholeBackup) /\ job[j].day <= settledDays
        /\ anchor' \in {job[j].day, -2, saved[job[j].name]}
    BY <1>8, <1>w, <1>p DEF Written, Broken, Early
  <2>2. anchor' \in Int /\ anchor' <= settledDays
    BY <2>1, <1>s DEF ReanchorInv, ReanchorShape, JobStates
  <2>3. OnlyMoves(j) /\ job'[j].at # "saving"
    BY <1>8, <2>1, JobMoves DEF Written, JobStages
  <2> QED
    BY <2>1, <2>2, <2>3, <1>s, <1>k, OneJobMoves
<1>9. ASSUME NEW j \in Jobs, Validated(j)
      PROVE  ReanchorInv'
  <2>1. CASE job' = [job EXCEPT ![j] = JobOff]
    BY <2>1, <1>9, <1>f DEF Validated
  <2>2. CASE Moves(j, "restoring")
    BY <2>2, <1>9, <1>p, <1>a, JobMoves DEF Validated, Early, JobStages
  <2> QED
    BY <2>1, <2>2, <1>9 DEF Validated
<1>10. ASSUME NEW j \in Jobs, JobDies(j)
      PROVE  ReanchorInv'
  BY <1>10, <1>f DEF JobDies
<1>11. CASE UNCHANGED reanchorVars
  BY <1>11 DEF reanchorVars, ReanchorInv, ReanchorShape, OwnBackups, Untouched, WholeBackup
<1> QED
  BY <1>1, <1>2, <1>3, <1>4, <1>5, <1>6, <1>7, <1>8, <1>9, <1>10, <1>11, BackupOpens
     DEF ReanchorNext

\* However many jobs overlap and wherever they die, a whole anchor remains in the file
\* or in a backup (update_anchor_file), unless two backups were made in the same second;
\* and the one in the file is of a settled event.
THEOREM AnchorCanBeRestored ==
    ReanchorInit /\ [][ReanchorNext]_reanchorVars => []AnchorRecoverable
<1>1. ReanchorInv => AnchorRecoverable
  BY DEF ReanchorInv, ReanchorShape, Untouched, WholeBackup, AnchorRecoverable
<1> QED
  BY ReanchorStarts, ReanchorSteps, <1>1, PTL

-----------------------------------------------------------------------------
(* PoolStore: the operator's reward periods.                               *)

Rows == [pool : Nat, active : BOOLEAN, source : {"none", "config", "api"}]
Pages == [key : Periods, pool : Nat]

\* What a reward file may say: pools of some periods.
EntriesOnly(f) == DOMAIN f \subseteq Periods /\ \A k \in DOMAIN f : f[k] \in Nat

PoolShape ==
    /\ date \in Nat
    /\ EntriesOnly(file.pools)
    /\ listing \in [Periods -> [pool : Nat, paid : BOOLEAN]]
    /\ rows \in [Periods -> Rows]
    /\ refresh = [at |-> refresh.at, entries |-> refresh.entries, pages |-> refresh.pages]
    /\ EntriesOnly(refresh.entries)
    /\ refresh.pages \in Seq(Pages)

PoolInv == PoolShape /\ OperatorsPoolsHold

LEMMA PoolStarts == PoolInit => PoolInv
<1> SUFFICES ASSUME PoolInit
             PROVE  PoolInv
  OBVIOUS
<1>1. EntriesOnly(<<>>)
  BY DEF EntriesOnly
<1>2. refresh.entries = <<>> /\ refresh.pages = <<>> /\ file.pools = <<>>
  BY DEF PoolInit, Idle
<1>3. listing \in [Periods -> [pool : Nat, paid : BOOLEAN]]
  BY DEF PoolInit, Unlisted
<1>4. rows \in [Periods -> Rows]
  BY DEF PoolInit, NoRow, Rows
<1>5. date \in Nat /\ refresh.pages \in Seq(Pages)
  BY <1>2 DEF PoolInit
<1>6. PoolShape
  BY <1>1, <1>2, <1>3, <1>4, <1>5 DEF PoolInit, PoolShape, Idle
<1>7. outcome.date = 0
  BY DEF PoolInit, NoOutcome
<1>8. OperatorsPoolsHold
  BY <1>7 DEF OperatorsPoolsHold
<1> QED
  BY <1>6, <1>8 DEF PoolInv

\* The row an upsert leaves is a row, and the file's entry where there is one.
LEMMA UpsertedRows ==
    ASSUME PoolShape, NEW k \in Periods
    PROVE  /\ Expired(k, Upserted(k)) \in Rows
           /\ k \in DOMAIN refresh.entries =>
                /\ Expired(k, Upserted(k)).source = "config"
                /\ Expired(k, Upserted(k)).pool = refresh.entries[k]
           /\ Expired(k, Upserted(k)).active => k.end >= date
<1> DEFINE pages == {p \in ToSet(refresh.pages) : p.key = k}
           row == Upserted(k)
<1>1. ASSUME NEW p \in pages
      PROVE  p.pool \in Nat
  <2>1. PICK i \in DOMAIN refresh.pages : p = refresh.pages[i]
    BY <1>1 DEF ToSet
  <2>2. p \in Pages
    BY <2>1 DEF PoolShape
  <2> QED
    BY <2>2 DEF Pages
<1>2. pages # {} => (CHOOSE p \in pages : TRUE).pool \in Nat
  BY <1>1
<1>3. k.end \in Nat /\ date \in Nat
  BY PoolAssumption DEF PoolShape
<1>6. ASSUME NEW r \in Rows
      PROVE  /\ Expired(k, r) \in Rows
             /\ Expired(k, r).source = r.source /\ Expired(k, r).pool = r.pool
             /\ Expired(k, r).active => k.end >= date
  <2>1. CASE k.end < date
    <3>1. Expired(k, r) = [r EXCEPT !.active = FALSE]
      BY <2>1 DEF Expired
    <3> QED
      BY <3>1 DEF Rows
  <2>2. CASE k.end >= date
    <3>1. ~(k.end < date)
      BY <2>2, <1>3
    <3> QED
      BY <2>2, <3>1 DEF Expired
  <2> QED
    BY <1>3, <2>1, <2>2
<1>4. CASE k \in DOMAIN refresh.entries
  <2>1. row = [pool |-> refresh.entries[k], active |-> k.end >= date, source |-> "config"]
    BY <1>4 DEF Upserted, FromFile
  <2>2. refresh.entries[k] \in Nat
    BY <1>4 DEF PoolShape, EntriesOnly
  <2>3. row \in Rows /\ row.source = "config" /\ row.pool = refresh.entries[k]
    BY <2>1, <2>2 DEF Rows
  <2> QED
    BY <2>3, <1>6
<1>5. CASE k \notin DOMAIN refresh.entries
  <2>1. row \in Rows
    <3>1. CASE pages # {}
      <4>1. row = [pool |-> (CHOOSE p \in pages : TRUE).pool,
                   active |-> k.end >= date, source |-> "api"]
        BY <1>5, <3>1 DEF Upserted, FromListing
      <4> QED
        BY <4>1, <1>2, <3>1 DEF Rows
    <3>2. CASE pages = {}
      <4>1. row = rows[k]
        BY <1>5, <3>2 DEF Upserted
      <4> QED
        BY <4>1 DEF PoolShape
    <3> QED
      BY <3>1, <3>2
  <2> QED
    BY <2>1, <1>5, <1>6
<1> QED
  BY <1>4, <1>5

LEMMA PoolSteps ==
    ASSUME PoolInv, [PoolNext]_poolVars
    PROVE  PoolInv'
<1> USE PoolAssumption DEF PoolInv
<1>h. ASSUME UNCHANGED <<rows, outcome>>
      PROVE  OperatorsPoolsHold'
  BY <1>h DEF OperatorsPoolsHold, ActivePeriods
<1>1. CASE DatePasses
  <2>1. date' \in Nat
    BY <1>1 DEF DatePasses, PoolShape
  <2> QED
    BY <1>1, <1>h, <2>1 DEF DatePasses, PoolShape
<1>2. CASE FileEdited
  <2>1. EntriesOnly(file'.pools)
    <3>1. CASE file' = [state |-> "malformed", pools |-> <<>>]
      BY <3>1 DEF EntriesOnly
    <3>2. ASSUME NEW keys \in SUBSET Periods, NEW pools \in [keys -> PoolSizes \ {0}],
                 file' = [state |-> "entries", pools |-> pools]
          PROVE  EntriesOnly(file'.pools)
      <4>1. EntriesOnly(pools)
        BY DEF EntriesOnly
      <4> QED
        BY <3>2, <4>1
    <3> QED
      BY <1>2, <3>1, <3>2 DEF FileEdited
  <2> QED
    BY <1>2, <1>h, <2>1 DEF FileEdited, PoolShape
<1>3. CASE ProgramChanges
  <2>1. listing' \in [Periods -> [pool : Nat, paid : BOOLEAN]]
    <3>1. PICK k \in Periods :
            \/ \E p \in PoolSizes : listing' = [listing EXCEPT ![k] = [pool |-> p, paid |-> FALSE]]
            \/ listing' = [listing EXCEPT ![k].paid = TRUE]
      BY <1>3 DEF ProgramChanges
    <3>2. listing[k] \in [pool : Nat, paid : BOOLEAN]
      BY DEF PoolShape
    <3>3. [listing[k] EXCEPT !.paid = TRUE] \in [pool : Nat, paid : BOOLEAN]
      BY <3>2
    <3>4. \A p \in PoolSizes : [pool |-> p, paid |-> FALSE] \in [pool : Nat, paid : BOOLEAN]
      OBVIOUS
    <3> QED
      BY <3>1, <3>3, <3>4 DEF PoolShape
  <2> QED
    BY <1>3, <1>h, <2>1 DEF ProgramChanges, PoolShape
<1>4. CASE RefreshBegins
  <2>1. /\ refresh' = [at |-> refresh'.at, entries |-> refresh'.entries,
                       pages |-> refresh'.pages]
        /\ refresh'.entries = file.pools /\ refresh'.pages \in Seq(Pages)
    BY <1>4 DEF RefreshBegins
  <2> QED
    BY <1>4, <1>h, <2>1 DEF RefreshBegins, PoolShape
<1>5. CASE PageRead
  <2>1. PICK k \in Periods :
          refresh' = [refresh EXCEPT !.pages = Append(@, [key |-> k, pool |-> listing[k].pool])]
    BY <1>5 DEF PageRead
  <2>2. [key |-> k, pool |-> listing[k].pool] \in Pages
    BY DEF PoolShape, Pages
  <2>3. /\ refresh' = [at |-> refresh'.at, entries |-> refresh'.entries,
                       pages |-> refresh'.pages]
        /\ refresh'.entries = refresh.entries
        /\ refresh'.pages = Append(refresh.pages, [key |-> k, pool |-> listing[k].pool])
    BY <2>1 DEF PoolShape
  <2>4. refresh'.pages \in Seq(Pages)
    BY <2>2, <2>3, AppendProperties DEF PoolShape
  <2> QED
    BY <1>5, <1>h, <2>3, <2>4 DEF PageRead, PoolShape
<1>6. CASE RefreshEnds
  <2>1. \A k \in Periods : rows'[k] = Expired(k, Upserted(k))
    BY <1>6 DEF RefreshEnds
  <2>2. rows' \in [Periods -> Rows]
    <3>1. rows' = [k \in Periods |-> Expired(k, Upserted(k))]
      BY <1>6 DEF RefreshEnds
    <3> QED
      BY <3>1, UpsertedRows
  <2>3. refresh' = Idle /\ EntriesOnly(<<>>)
    BY <1>6 DEF RefreshEnds, EntriesOnly
  <2>4. PoolShape'
    BY <1>6, <2>2, <2>3 DEF RefreshEnds, PoolShape, Idle
  <2>5. outcome' = [date |-> date, entries |-> refresh.entries]
    BY <1>6 DEF RefreshEnds
  <2>6. OperatorsPoolsHold'
    <3>1. outcome'.date = date /\ outcome'.entries = refresh.entries
      BY <2>5
    <3>2. \A k \in DOMAIN refresh.entries :
            k \in Periods /\ rows'[k].source = "config" /\ rows'[k].pool = refresh.entries[k]
      BY <2>1, UpsertedRows DEF PoolShape, EntriesOnly
    <3>3. \A k \in Periods : rows'[k].active => k.end >= date
      BY <2>1, UpsertedRows
    <3> QED
      BY <3>1, <3>2, <3>3 DEF OperatorsPoolsHold, ActivePeriods
  <2> QED
    BY <2>4, <2>6
<1>7. CASE UNCHANGED poolVars
  BY <1>7, <1>h DEF poolVars, PoolShape
<1> QED
  BY <1>1, <1>2, <1>3, <1>4, <1>5, <1>6, <1>7 DEF PoolNext

\* Whatever the exchange lists meanwhile and however far the walk comes: after a
\* refresh the operator's entries are in force and nothing that had ended is.
THEOREM OperatorHasTheLastWord ==
    PoolInit /\ [][PoolNext]_poolVars => []OperatorsPoolsHold
<1>1. PoolInv => OperatorsPoolsHold
  BY DEF PoolInv
<1> QED
  BY PoolStarts, PoolSteps, <1>1, PTL

-----------------------------------------------------------------------------
(* LipMode: the earlier LIP bot.                                           *)

Resting == [strike : ModeStrikes, side : ModeSides, px : Int]
Entries == [id : Nat, px : Int]
Flushing == at \in {"list", "batch", "each"}
AtSide == at \in {"side", "pull", "amend", "replace", "place"}

ModeShape ==
    /\ modeIds \in Nat
    /\ DOMAIN onBook \subseteq 1 .. modeIds
    /\ \A o \in DOMAIN onBook : onBook[o] \in Resting
    /\ event \in 1 .. Len(EventStrikes)
    /\ known \in [ModeStrikes -> [ModeSides -> Entries]]
    /\ agenda \in Seq(ModeStrikes)
    /\ wants \in [strike : ModeStrikes \cup {"none"}, bid : Int, ask : Int]
    /\ flush \in [ids : SUBSET Nat, then : {"gate", "event", "down", "none"},
                  verified : BOOLEAN, clean : BOOLEAN, many : BOOLEAN]
    /\ AtSide => wants.strike \in ModeStrikes
    /\ Flushing => flush.then \in {"gate", "event", "down"}

\* No identifier is known before it is given out, and one that is known and
\* rests, rests on the side it is known for.
KnownAreOurs ==
    \A s \in ModeStrikes, d \in ModeSides :
        /\ known[s][d].id <= modeIds
        /\ known[s][d].id \in DOMAIN onBook =>
             onBook[known[s][d].id].strike = s /\ onBook[known[s][d].id].side = d

\* Of the orders that no failed request has left behind, only the one whose
\* amendment has failed may rest at another price than the bot knows.
OthersFaithful ==
    \A o \in DOMAIN onBook \ slipped :
        /\ known[onBook[o].strike][onBook[o].side].id = o
        /\ \/ known[onBook[o].strike][onBook[o].side].px = onBook[o].px
           \/ at = "replace" /\ o = Mine.id

\* Before an order is placed, the one it replaces is gone or was left behind.
ReplacedIsGone == at = "place" => Mine.id \notin DOMAIN onBook \ slipped

\* A listing of a cancel-all that began with few enough orders shows them all;
\* what has survived its second round, it knows of.
FlushSees ==
    /\ at = "batch" => ~flush.verified
    /\ Flushing /\ ~flush.many => Cardinality(DOMAIN onBook) <= ListLimit
    /\ at = "each" /\ flush.verified /\ flush.clean /\ ~flush.many =>
         DOMAIN onBook \subseteq flush.ids

ModeInv == ModeShape /\ KnownAreOurs /\ OthersFaithful /\ ReplacedIsGone /\ FlushSees

LEMMA StrikesOfEvents ==
    \A e \in 1 .. Len(EventStrikes) :
        EventStrikes[e] \in Seq(ModeStrikes) /\ EventStrikes[e] # <<>>
BY ModeAssumption

LEMMA SomeEvent == 1 \in 1 .. Len(EventStrikes) /\ EventStrikes[1][1] \in ModeStrikes
<1>1. Len(EventStrikes) \in Nat /\ Len(EventStrikes) # 0
  BY ModeAssumption, EmptySeq, LenProperties
<1>2. 1 \in 1 .. Len(EventStrikes)
  BY <1>1
<1>3. EventStrikes[1] \in Seq(ModeStrikes) /\ EventStrikes[1] # <<>>
  BY <1>2, StrikesOfEvents
<1>4. Head(EventStrikes[1]) \in ModeStrikes
  BY <1>3, HeadTailProperties
<1> QED
  BY <1>2, <1>3, <1>4

\* The book is finite.
LEMMA BookFinite ==
    ASSUME ModeShape
    PROVE  /\ IsFiniteSet(DOMAIN onBook)
           /\ Cardinality(DOMAIN onBook) \in Nat
<1>1. IsFiniteSet(1 .. modeIds)
  BY FS_Interval DEF ModeShape
<1> QED
  BY <1>1, FS_Subset, FS_CardinalityType DEF ModeShape

LEMMA ModeStarts == ModeInit => ModeInv
<1> SUFFICES ASSUME ModeInit
             PROVE  ModeInv
  OBVIOUS
<1>1. DOMAIN onBook = 1 .. Leftovers /\ slipped = 1 .. Leftovers /\ modeIds = Leftovers
  BY DEF ModeInit
<1>2. Leftovers \in Nat
  BY ModeAssumption
<1>3. \A o \in DOMAIN onBook : onBook[o] \in Resting
  BY <1>1, SomeEvent DEF ModeInit, Resting, ModeSides
<1>4. \A s \in ModeStrikes, d \in ModeSides : known[s][d] = [id |-> 0, px |-> 0]
  BY DEF ModeInit, Unknown
<1>5. known \in [ModeStrikes -> [ModeSides -> Entries]]
  BY DEF ModeInit, Unknown, Entries
<1>6. wants \in [strike : ModeStrikes \cup {"none"}, bid : Int, ask : Int]
  BY DEF ModeInit, NoWants, Leave
<1>7. flush \in [ids : SUBSET Nat, then : {"gate", "event", "down", "none"},
               verified : BOOLEAN, clean : BOOLEAN, many : BOOLEAN]
      /\ flush.then = "gate" /\ flush.many = (Leftovers > ListLimit)
  <2> DEFINE large == Leftovers > ListLimit
  <2>1. flush = [ids |-> {}, then |-> "gate", verified |-> FALSE, clean |-> TRUE,
                 many |-> large]
    BY DEF ModeInit, NoFlush
  <2>2. large \in BOOLEAN
    OBVIOUS
  <2> HIDE DEF large
  <2>3. /\ flush \in [ids : SUBSET Nat, then : {"gate", "event", "down", "none"},
                      verified : BOOLEAN, clean : BOOLEAN, many : BOOLEAN]
        /\ flush.then = "gate" /\ flush.many = large
    BY <2>1, <2>2
  <2> QED
    BY <2>3 DEF large
<1>a. at = "list" /\ agenda = <<>> /\ event = 1
  BY DEF ModeInit
<1>b. agenda \in Seq(ModeStrikes) /\ event \in 1 .. Len(EventStrikes)
  BY <1>a, SomeEvent
<1>8. ModeShape
  BY <1>1, <1>2, <1>3, <1>5, <1>6, <1>7, <1>a, <1>b DEF ModeShape, AtSide
<1>9. KnownAreOurs
  BY <1>1, <1>2, <1>4 DEF KnownAreOurs
<1>10. Cardinality(1 .. Leftovers) = Leftovers
  BY <1>2, FS_Interval
<1>11. FlushSees
  <2>1. ~flush.many => Leftovers <= ListLimit
    BY <1>2, <1>7, ModeAssumption
  <2> QED
    BY <1>1, <1>a, <1>10, <2>1 DEF FlushSees
<1>12. OthersFaithful /\ ReplacedIsGone
  BY <1>1, <1>a DEF OthersFaithful, ReplacedIsGone
<1> QED
  BY <1>8, <1>9, <1>11, <1>12 DEF ModeInv

\* No order is added to the book, and those that stay are as they were.
Shrinks ==
    /\ DOMAIN onBook' \subseteq DOMAIN onBook
    /\ \A o \in DOMAIN onBook' : onBook'[o] = onBook[o]

LEMMA GoneShrinks ==
    ASSUME NEW ids, onBook' = Gone(ids)
    PROVE  Shrinks /\ DOMAIN onBook' = DOMAIN onBook \ ids
BY DEF Gone, Shrinks

\* A book that shrinks fits the orders known and a listing as well as before.
LEMMA BookShrinks ==
    ASSUME ModeInv, Shrinks, UNCHANGED <<modeIds, known>>
    PROVE  /\ KnownAreOurs'
           /\ DOMAIN onBook' \subseteq 1 .. modeIds'
           /\ \A o \in DOMAIN onBook' : onBook'[o] \in Resting
           /\ Cardinality(DOMAIN onBook) <= ListLimit => Cardinality(DOMAIN onBook') <= ListLimit
<1>1. KnownAreOurs'
  BY DEF ModeInv, KnownAreOurs, Shrinks
<1>2. DOMAIN onBook' \subseteq 1 .. modeIds' /\ \A o \in DOMAIN onBook' : onBook'[o] \in Resting
  BY DEF ModeInv, ModeShape, Shrinks
<1>3. IsFiniteSet(DOMAIN onBook) /\ Cardinality(DOMAIN onBook) \in Nat
  BY BookFinite DEF ModeInv
<1>4. /\ Cardinality(DOMAIN onBook') <= Cardinality(DOMAIN onBook)
      /\ IsFiniteSet(DOMAIN onBook')
  BY <1>3, FS_Subset DEF Shrinks
<1>5. Cardinality(DOMAIN onBook') \in Nat
  BY <1>4, FS_CardinalityType
<1>6. Cardinality(DOMAIN onBook) <= ListLimit => Cardinality(DOMAIN onBook') <= ListLimit
  BY <1>3, <1>4, <1>5, ModeAssumption
<1> QED
  BY <1>1, <1>2, <1>6

\* While the bot's view stays, so does its faith in it.
LEMMA FaithStays ==
    ASSUME ModeInv, Shrinks, UNCHANGED <<known, slipped>>,
           at = "replace" => UNCHANGED <<at, wants>>,
           at' = "place" => UNCHANGED <<at, wants>>
    PROVE  OthersFaithful' /\ ReplacedIsGone'
<1>1. at = "replace" => Mine' = Mine
  BY DEF Mine, Side
<1>2. OthersFaithful'
  BY <1>1 DEF ModeInv, OthersFaithful, Shrinks
<1>3. at' = "place" => Mine' = Mine
  BY DEF Mine, Side
<1>4. ReplacedIsGone'
  BY <1>3 DEF ModeInv, ReplacedIsGone, Shrinks
<1> QED
  BY <1>2, <1>4

\* A cancel-all ends with a view that knows nothing, of a book that is empty or
\* all of whose orders were left behind.
LEMMA FlushEnds ==
    ASSUME ModeInv, Flushing, NEW clean \in BOOLEAN, EndFlush(clean),
           UNCHANGED <<onBook, modeIds, event, agenda, wants>>,
           clean /\ ~flush.many => DOMAIN onBook = {}
    PROVE  ModeInv'
<1>1. at' \in {"gate", "event", "down"}
  BY DEF EndFlush, ModeInv, ModeShape
<1>2. \A s \in ModeStrikes, d \in ModeSides : known'[s][d] = [id |-> 0, px |-> 0]
  BY DEF EndFlush, Unknown
<1>3. known' \in [ModeStrikes -> [ModeSides -> Entries]]
  BY DEF EndFlush, Unknown, Entries
<1>4. flush' \in [ids : SUBSET Nat, then : {"gate", "event", "down", "none"},
                 verified : BOOLEAN, clean : BOOLEAN, many : BOOLEAN]
  <2>1. flush' = [flush EXCEPT !.ids = {}, !.clean = clean]
    BY DEF EndFlush
  <2> QED
    BY <2>1 DEF ModeInv, ModeShape
<1>5. ModeShape'
  BY <1>1, <1>3, <1>4 DEF ModeInv, ModeShape, AtSide, Flushing
<1>6. KnownAreOurs'
  <2>1. modeIds \in Nat /\ 0 \notin DOMAIN onBook
    BY DEF ModeInv, ModeShape
  <2> QED
    BY <1>2, <2>1 DEF KnownAreOurs
<1>7. DOMAIN onBook' \subseteq slipped'
  BY DEF EndFlush
<1> QED
  BY <1>1, <1>5, <1>6, <1>7 DEF ModeInv, OthersFaithful, ReplacedIsGone, FlushSees, Flushing

FlushStates == [ids : SUBSET Nat, then : {"gate", "event", "down", "none"},
                verified : BOOLEAN, clean : BOOLEAN, many : BOOLEAN]

\* A step of a cancel-all that goes on: the book may shrink, the rest waits.
LEMMA FlushGoesOn ==
    ASSUME ModeInv, Flushing, Shrinks, UNCHANGED <<modeIds, event, known, agenda, wants, slipped>>,
           at' \in {"list", "batch", "each"},
           flush' \in FlushStates, flush'.then = flush.then, flush'.many = flush.many,
           at' = "batch" => ~flush'.verified,
           at' = "each" /\ flush'.verified /\ flush'.clean /\ ~flush'.many =>
             DOMAIN onBook' \subseteq flush'.ids
    PROVE  ModeInv'
<1>1. KnownAreOurs' /\ OthersFaithful' /\ ReplacedIsGone'
  BY BookShrinks, FaithStays DEF Flushing
<1>2. ModeShape'
  BY BookShrinks DEF ModeInv, ModeShape, FlushStates, AtSide, Flushing
<1>3. FlushSees'
  BY BookShrinks DEF ModeInv, FlushSees, Flushing
<1> QED
  BY <1>1, <1>2, <1>3 DEF ModeInv

\* A listing shows every order, if there are few enough.
LEMMA ListingsShowAll ==
    ASSUME ModeInv, NEW ids \in Listing
    PROVE  /\ ids \subseteq DOMAIN onBook
           /\ ids = {} => DOMAIN onBook = {}
           /\ Cardinality(DOMAIN onBook) <= ListLimit => ids = DOMAIN onBook
<1> DEFINE all == Cardinality(DOMAIN onBook)
<1>1. IsFiniteSet(DOMAIN onBook) /\ all \in Nat
  BY BookFinite DEF ModeInv
<1>2. /\ ids \subseteq DOMAIN onBook
      /\ all < ListLimit => Cardinality(ids) = all
      /\ ~(all < ListLimit) => Cardinality(ids) = ListLimit
  BY DEF Listing
<1>3. ListLimit \in Nat /\ ListLimit # 0
  BY ModeAssumption
<1>4. all <= ListLimit => Cardinality(ids) = all
  BY <1>1, <1>2, <1>3
<1>5. all <= ListLimit => ids = DOMAIN onBook
  BY <1>1, <1>2, <1>4, FS_Subset
<1>6. ids = {} => DOMAIN onBook = {}
  <2>1. ids = {} => Cardinality(ids) = 0
    BY FS_EmptySet
  <2>2. ids = {} => all = 0
    BY <1>2, <1>3, <2>1
  <2> QED
    BY <1>1, <2>2, FS_EmptySet
<1> QED
  BY <1>2, <1>5, <1>6

LEMMA ListedAllKeeps ==
    ASSUME ModeInv, ListedAll
    PROVE  ModeInv'
<1> USE DEF ListedAll, market0
<1>1. at = "list" /\ Flushing
  BY DEF Flushing
<1>2. CASE EndFlush(FALSE)
  BY <1>1, <1>2, FlushEnds
<1>3. ASSUME NEW ids \in Listing, ids = {}, EndFlush(flush.clean)
      PROVE  ModeInv'
  <2>1. flush.clean \in BOOLEAN
    BY DEF ModeInv, ModeShape
  <2> QED
    BY <1>1, <1>3, <2>1, ListingsShowAll, FlushEnds
<1>4. ASSUME NEW ids \in Listing,
             at' = IF flush.verified THEN "each" ELSE "batch",
             flush' = [flush EXCEPT !.ids = ids],
             UNCHANGED <<known, slipped>>
      PROVE  ModeInv'
  <2>1. ids \subseteq DOMAIN onBook /\ DOMAIN onBook \subseteq Nat
    BY ListingsShowAll DEF ModeInv, ModeShape
  <2>2. /\ flush' \in FlushStates /\ flush'.then = flush.then /\ flush'.many = flush.many
        /\ flush'.ids = ids /\ flush'.verified = flush.verified
    BY <1>4, <2>1 DEF ModeInv, ModeShape, FlushStates
  <2>3. ~flush.many => DOMAIN onBook = ids
    BY <1>1, ListingsShowAll DEF ModeInv, FlushSees
  <2>4. Shrinks
    BY DEF Shrinks
  <2> QED
    BY <1>1, <1>4, <2>2, <2>3, <2>4, FlushGoesOn
<1> QED
  BY <1>2, <1>3, <1>4

LEMMA BatchSentKeeps ==
    ASSUME ModeInv, BatchSent
    PROVE  ModeInv'
<1> USE DEF BatchSent
<1>1. at = "batch" /\ Flushing
  BY DEF Flushing
<1>2. Shrinks
  BY GoneShrinks
<1>3. CASE at' = "list" /\ flush' = [flush EXCEPT !.ids = {}, !.verified = TRUE]
  <2>1. flush' \in FlushStates /\ flush'.then = flush.then /\ flush'.many = flush.many
    BY <1>3 DEF ModeInv, ModeShape, FlushStates
  <2> QED
    BY <1>1, <1>2, <1>3, <2>1, FlushGoesOn
<1>4. CASE at' = "each" /\ UNCHANGED flush
  <2>1. flush' \in FlushStates /\ ~flush'.verified
    BY <1>1, <1>4 DEF ModeInv, ModeShape, FlushSees, FlushStates
  <2> QED
    BY <1>1, <1>2, <1>4, <2>1, FlushGoesOn
<1> QED
  BY <1>3, <1>4

LEMMA EachCancelledKeeps ==
    ASSUME ModeInv, EachCancelled
    PROVE  ModeInv'
<1> USE DEF EachCancelled
<1>1. at = "each" /\ at' = "each" /\ Flushing
  BY DEF Flushing
<1>2. PICK o \in flush.ids :
        \/ onBook' = Gone({o}) /\ flush' = [flush EXCEPT !.ids = @ \ {o}]
        \/ /\ flush' = [flush EXCEPT !.ids = @ \ {o}, !.clean = ~flush.verified]
           /\ UNCHANGED onBook
  OBVIOUS
<1>3. flush \in FlushStates
  BY DEF ModeInv, ModeShape, FlushStates
<1>4. CASE onBook' = Gone({o}) /\ flush' = [flush EXCEPT !.ids = @ \ {o}]
  <2>1. Shrinks /\ DOMAIN onBook' = DOMAIN onBook \ {o}
    BY <1>4, GoneShrinks
  <2>2. /\ flush' \in FlushStates /\ flush'.ids = flush.ids \ {o}
        /\ flush'.then = flush.then /\ flush'.many = flush.many
        /\ flush'.verified = flush.verified /\ flush'.clean = flush.clean
    BY <1>3, <1>4 DEF FlushStates
  <2>3. flush.verified /\ flush.clean /\ ~flush.many => DOMAIN onBook \subseteq flush.ids
    BY <1>1 DEF ModeInv, FlushSees
  <2> QED
    BY <1>1, <2>1, <2>2, <2>3, FlushGoesOn
<1>5. CASE /\ flush' = [flush EXCEPT !.ids = @ \ {o}, !.clean = ~flush.verified]
           /\ UNCHANGED onBook
  <2>1. Shrinks
    BY <1>5 DEF Shrinks
  <2>2. /\ flush' \in FlushStates
        /\ flush'.then = flush.then /\ flush'.many = flush.many
        /\ flush'.verified = flush.verified /\ flush'.clean = ~flush.verified
    BY <1>3, <1>5 DEF FlushStates
  <2> QED
    BY <1>1, <2>1, <2>2, FlushGoesOn
<1> QED
  BY <1>2, <1>4, <1>5

LEMMA EachDoneKeeps ==
    ASSUME ModeInv, EachDone
    PROVE  ModeInv'
<1> USE DEF EachDone, market0
<1>1. at = "each" /\ Flushing
  BY DEF Flushing
<1>2. flush \in FlushStates
  BY DEF ModeInv, ModeShape, FlushStates
<1>3. CASE flush.verified
  <2>1. flush.clean \in BOOLEAN
    BY <1>2 DEF FlushStates
  <2>2. flush.clean /\ ~flush.many => DOMAIN onBook = {}
    BY <1>1, <1>3 DEF ModeInv, FlushSees
  <2> QED
    BY <1>1, <1>3, <2>1, <2>2, FlushEnds
<1>4. CASE ~flush.verified
  <2>1. at' = "list" /\ flush' = [flush EXCEPT !.verified = TRUE]
    BY <1>4
  <2>2. flush' \in FlushStates /\ flush'.then = flush.then /\ flush'.many = flush.many
    BY <1>2, <2>1 DEF FlushStates
  <2>3. Shrinks
    BY DEF Shrinks
  <2> QED
    BY <1>1, <1>4, <2>1, <2>2, <2>3, FlushGoesOn
<1> QED
  BY <1>3, <1>4

\* Steps between the strikes touch neither the book nor what is known of it.
LEMMA TaskGoesOn ==
    ASSUME ModeInv, UNCHANGED <<onBook, modeIds, known, slipped>>,
           at # "replace", at' \notin {"place", "batch", "each"},
           ModeShape',
           at' = "list" /\ ~flush'.many => Cardinality(DOMAIN onBook) <= ListLimit
    PROVE  ModeInv'
<1>1. Shrinks
  BY DEF Shrinks
<1>2. KnownAreOurs' /\ OthersFaithful' /\ ReplacedIsGone'
  BY <1>1, BookShrinks, FaithStays
<1>3. FlushSees'
  BY DEF FlushSees, Flushing
<1> QED
  BY <1>2, <1>3 DEF ModeInv

LEMMA GateKeeps ==
    ASSUME ModeInv, Gate
    PROVE  ModeInv'
<1> USE DEF Gate, market0
<1>1. at = "gate"
  OBVIOUS
<1>2. ASSUME NEW next \in {"down", "gate", "event"}, BeginFlush(next)
      PROVE  ModeInv'
  <2> DEFINE large == Cardinality(DOMAIN onBook) > ListLimit
  <2>1. at' = "list" /\ flush' = [NoFlush EXCEPT !.then = next, !.many = large]
    BY <1>2 DEF BeginFlush
  <2>2. large \in BOOLEAN /\ (~large => Cardinality(DOMAIN onBook) <= ListLimit)
    BY ModeAssumption, BookFinite DEF ModeInv
  <2> HIDE DEF large
  <2>3. flush' \in FlushStates /\ flush'.then = next /\ flush'.many = large
    BY <2>1, <2>2 DEF NoFlush, FlushStates
  <2>4. ModeShape'
    BY <2>1, <2>3 DEF ModeInv, ModeShape, FlushStates, AtSide, Flushing
  <2> QED
    BY <1>1, <2>1, <2>2, <2>3, <2>4, TaskGoesOn
<1>3. CASE at' \in {"gate", "event"} /\ UNCHANGED flush
  <2>1. ModeShape'
    BY <1>1, <1>3 DEF ModeInv, ModeShape, AtSide, Flushing
  <2> QED
    BY <1>1, <1>3, <2>1, TaskGoesOn
<1> QED
  BY <1>2, <1>3

LEMMA SideTypes ==
    ASSUME ModeShape, AtSide
    PROVE  /\ Side \in ModeSides /\ wants.strike \in ModeStrikes
           /\ Mine \in Entries /\ Wish \in Int
           /\ Mine.id \in Nat /\ Mine.px \in Int
<1>1. Side \in ModeSides
  BY DEF Side, ModeSides
<1>2. wants.strike \in ModeStrikes
  BY DEF ModeShape
<1>3. Mine \in Entries
  BY <1>1, <1>2 DEF ModeShape, Mine
<1>4. Wish = IF Side = "bid" THEN wants.bid ELSE wants.ask
  BY <1>1 DEF Wish, ModeSides
<1>5. Wish \in Int
  BY <1>4 DEF ModeShape
<1> QED
  BY <1>1, <1>2, <1>3, <1>5 DEF Entries

\* What SideDone makes of the view and of what is wanted.
LEMMA SideDoneTypes ==
    ASSUME ModeShape, AtSide, NEW entry \in Entries, SideDone(entry)
    PROVE  /\ known' \in [ModeStrikes -> [ModeSides -> Entries]]
           /\ known'[wants.strike][Side] = entry
           /\ \A s \in ModeStrikes, d \in ModeSides :
                s # wants.strike \/ d # Side => known'[s][d] = known[s][d]
           /\ wants' \in [strike : ModeStrikes \cup {"none"}, bid : Int, ask : Int]
           /\ wants'.strike = wants.strike
           /\ at' = "side"
<1>1. Side \in ModeSides /\ wants.strike \in ModeStrikes
  BY SideTypes
<1>2. known' = [known EXCEPT ![wants.strike][Side] = entry]
  BY DEF SideDone
<1>3. known \in [ModeStrikes -> [ModeSides -> Entries]]
  BY DEF ModeShape
<1>4. wants' = [wants EXCEPT ![Side] = Leave] /\ Leave \in Int
  BY DEF SideDone, Leave
<1>5. wants \in [strike : ModeStrikes \cup {"none"}, bid : Int, ask : Int]
  BY DEF ModeShape
<1>6. CASE Side = "bid"
  <2>1. wants' = [wants EXCEPT !.bid = Leave]
    BY <1>4, <1>6
  <2> QED
    BY <1>1, <1>2, <1>3, <1>4, <1>5, <2>1 DEF SideDone
<1>7. CASE Side = "ask"
  <2>1. wants' = [wants EXCEPT !.ask = Leave]
    BY <1>4, <1>7
  <2> QED
    BY <1>1, <1>2, <1>3, <1>4, <1>5, <2>1 DEF SideDone
<1> QED
  BY <1>1, <1>6, <1>7 DEF ModeSides

\* A side is dealt with: the bot knows a new entry for it, and no order that the
\* exchange has and no request left behind is the one it knew before.
LEMMA SideSettled ==
    ASSUME ModeInv, AtSide, NEW entry \in Entries, SideDone(entry),
           UNCHANGED <<event, agenda, flush>>,
           modeIds' \in Nat, modeIds <= modeIds', entry.id <= modeIds',
           DOMAIN onBook' \subseteq 1 .. modeIds',
           \A o \in DOMAIN onBook' : onBook'[o] \in Resting,
           \A o \in DOMAIN onBook' : o <= modeIds =>
             /\ o \in DOMAIN onBook
             /\ onBook'[o].strike = onBook[o].strike /\ onBook'[o].side = onBook[o].side,
           \A o \in DOMAIN onBook' \ slipped' : o # entry.id =>
             o \in DOMAIN onBook \ slipped /\ onBook'[o] = onBook[o] /\ o # Mine.id,
           entry.id \in DOMAIN onBook' =>
             /\ onBook'[entry.id].strike = wants.strike /\ onBook'[entry.id].side = Side
             /\ onBook'[entry.id].px = entry.px
    PROVE  ModeInv'
<1>1. Side \in ModeSides /\ wants.strike \in ModeStrikes
  BY SideTypes DEF ModeInv
<1>2. /\ known' \in [ModeStrikes -> [ModeSides -> Entries]]
      /\ known'[wants.strike][Side] = entry
      /\ \A s \in ModeStrikes, d \in ModeSides :
           s # wants.strike \/ d # Side => known'[s][d] = known[s][d]
      /\ wants' \in [strike : ModeStrikes \cup {"none"}, bid : Int, ask : Int]
      /\ wants'.strike = wants.strike
      /\ at' = "side"
  BY SideDoneTypes DEF ModeInv
<1>3. ModeShape'
  BY <1>1, <1>2 DEF ModeInv, ModeShape, AtSide, Flushing
<1>4. KnownAreOurs'
  <2> SUFFICES ASSUME NEW s \in ModeStrikes, NEW d \in ModeSides
               PROVE  /\ known'[s][d].id <= modeIds'
                      /\ known'[s][d].id \in DOMAIN onBook' =>
                           /\ onBook'[known'[s][d].id].strike = s
                           /\ onBook'[known'[s][d].id].side = d
    BY DEF KnownAreOurs
  <2>1. CASE s = wants.strike /\ d = Side
    BY <1>2, <2>1
  <2>2. CASE s # wants.strike \/ d # Side
    <3>1. known'[s][d] = known[s][d]
      BY <1>2, <2>2
    <3>2. known[s][d].id \in Nat /\ known[s][d].id <= modeIds /\ modeIds \in Nat
      BY DEF ModeInv, ModeShape, KnownAreOurs, Entries
    <3>3. known[s][d].id <= modeIds'
      BY <3>2
    <3> QED
      BY <3>1, <3>2, <3>3 DEF ModeInv, KnownAreOurs
  <2> QED
    BY <2>1, <2>2
<1>5. OthersFaithful'
  <2> SUFFICES ASSUME NEW o \in DOMAIN onBook' \ slipped'
               PROVE  /\ known'[onBook'[o].strike][onBook'[o].side].id = o
                      /\ known'[onBook'[o].strike][onBook'[o].side].px = onBook'[o].px
    BY DEF OthersFaithful
  <2>1. CASE o = entry.id
    BY <1>2, <2>1
  <2>2. CASE o # entry.id
    <3>1. o \in DOMAIN onBook \ slipped /\ onBook'[o] = onBook[o] /\ o # Mine.id
      BY <2>2
    <3>2. /\ known[onBook[o].strike][onBook[o].side].id = o
          /\ known[onBook[o].strike][onBook[o].side].px = onBook[o].px
      BY <3>1 DEF ModeInv, OthersFaithful
    <3>3. onBook[o].strike \in ModeStrikes /\ onBook[o].side \in ModeSides
      BY <3>1 DEF ModeInv, ModeShape, Resting
    <3>4. onBook[o].strike # wants.strike \/ onBook[o].side # Side
      BY <3>1, <3>2 DEF Mine
    <3> QED
      BY <1>2, <3>1, <3>2, <3>3, <3>4
  <2> QED
    BY <2>1, <2>2
<1>6. ReplacedIsGone' /\ FlushSees'
  BY <1>2 DEF ReplacedIsGone, FlushSees, Flushing
<1> QED
  BY <1>3, <1>4, <1>5, <1>6 DEF ModeInv

LEMMA EventPulledKeeps ==
    ASSUME ModeInv, EventPulled
    PROVE  ModeInv'
<1> USE DEF EventPulled, market0
<1>1. agenda' \in Seq(ModeStrikes)
  BY StrikesOfEvents DEF ModeInv, ModeShape
<1>2. ModeShape'
  BY <1>1 DEF ModeInv, ModeShape, AtSide, Flushing
<1> QED
  BY <1>2, TaskGoesOn

LEMMA StrikePulledKeeps ==
    ASSUME ModeInv, StrikePulled
    PROVE  ModeInv'
<1> USE DEF StrikePulled, market0
<1> DEFINE s == Head(agenda)
           Kept(w, d) == IF w = known[s][d].px THEN Leave ELSE w
<1>1. s \in ModeStrikes /\ agenda' \in Seq(ModeStrikes)
  BY HeadTailProperties DEF ModeInv, ModeShape
<1>2. PICK bid, ask \in Wishes :
        wants' = [strike |-> s,
                  bid |-> IF bid = 0 THEN 0 ELSE Kept(bid, "bid"),
                  ask |-> IF ask = 0 THEN 0 ELSE Kept(ask, "ask")]
  OBVIOUS
<1>3. bid \in Int /\ ask \in Int /\ Leave \in Int
  BY ModeAssumption DEF Wishes, Leave
<1>4. wants' \in [strike : ModeStrikes \cup {"none"}, bid : Int, ask : Int]
      /\ wants'.strike = s
  BY <1>1, <1>2, <1>3
<1> HIDE DEF s
<1>5. ModeShape'
  BY <1>1, <1>4 DEF ModeInv, ModeShape, AtSide, Flushing
<1> QED
  BY <1>5, TaskGoesOn

LEMMA CycleDoneKeeps ==
    ASSUME ModeInv, CycleDone
    PROVE  ModeInv'
<1> USE DEF CycleDone, market0
<1>1. ModeShape'
  BY DEF ModeInv, ModeShape, AtSide, Flushing
<1> QED
  BY <1>1, TaskGoesOn

LEMMA SideBeginsKeeps ==
    ASSUME ModeInv, SideBegins
    PROVE  ModeInv'
<1> USE DEF SideBegins, market0
<1>1. AtSide /\ at = "side"
  BY DEF AtSide
<1>2. Mine \in Entries /\ Mine.id \in Nat
  BY <1>1, SideTypes DEF ModeInv
<1>3. 0 \notin DOMAIN onBook /\ modeIds \in Nat
  BY DEF ModeInv, ModeShape
<1>4. CASE SideDone(Mine) /\ Mine.id = 0
  <2>1. \A o \in DOMAIN onBook \ slipped : o # Mine.id
    BY <1>3, <1>4
  <2>2. /\ DOMAIN onBook \subseteq 1 .. modeIds
        /\ \A o \in DOMAIN onBook : onBook[o] \in Resting
    BY DEF ModeInv, ModeShape
  <2>3. UNCHANGED <<onBook, modeIds, slipped, event, agenda, flush>>
    OBVIOUS
  <2>4. Mine.id <= modeIds /\ Mine.id \notin DOMAIN onBook
    BY <1>3, <1>4
  <2> QED
    BY <1>1, <1>2, <1>3, <1>4, <2>1, <2>2, <2>3, <2>4, SideSettled
<1>5. CASE /\ UNCHANGED <<known, wants>>
           /\ \/ at' \in {"strike", "pull", "amend"}
              \/ at' = "place" /\ Mine.id = 0
  <2>1. Shrinks
    BY DEF Shrinks
  <2>2. KnownAreOurs'
    BY <1>5, <2>1, BookShrinks
  <2>3. OthersFaithful'
    BY <1>1, <1>5 DEF ModeInv, OthersFaithful
  <2>4. ReplacedIsGone'
    BY <1>3, <1>5 DEF ReplacedIsGone, Mine, Side
  <2>5. ModeShape'
    BY <1>1, <1>5 DEF ModeInv, ModeShape, AtSide, Flushing
  <2>6. FlushSees'
    BY <1>5 DEF FlushSees, Flushing
  <2> QED
    BY <2>2, <2>3, <2>4, <2>5, <2>6 DEF ModeInv
<1>6. \/ SideDone(Mine) /\ Mine.id = 0
      \/ /\ UNCHANGED <<known, wants>>
         /\ \/ at' \in {"strike", "pull", "amend"}
            \/ at' = "place" /\ Mine.id = 0
  OBVIOUS
<1> QED
  BY <1>4, <1>5, <1>6

LEMMA SidePulledKeeps ==
    ASSUME ModeInv, SidePulled
    PROVE  ModeInv'
<1>1. AtSide
  BY DEF SidePulled, AtSide
<1>2. Mine \in Entries /\ modeIds \in Nat /\ 0 \notin DOMAIN onBook
  BY <1>1, SideTypes DEF ModeInv, ModeShape
<1> DEFINE entry == [id |-> 0, px |-> 0]
<1>e. SideDone(entry)
  BY DEF SidePulled
<1>f. entry \in Entries /\ entry.id = 0
  BY DEF Entries
<1>3. entry \in Entries /\ entry.id = 0 /\ SideDone(entry)
  BY <1>e, <1>f
<1> HIDE DEF entry
<1>4. Shrinks
  BY GoneShrinks DEF SidePulled, Shrinks
<1>5. \A o \in DOMAIN onBook' \ slipped' : o \in DOMAIN onBook \ slipped /\ o # Mine.id
  <2>1. CASE onBook' = Gone({Mine.id}) /\ UNCHANGED slipped
    BY <2>1, GoneShrinks
  <2>2. CASE slipped' = slipped \cup ({Mine.id} \cap DOMAIN onBook) /\ UNCHANGED onBook
    BY <2>2
  <2> QED
    BY <2>1, <2>2 DEF SidePulled
<1>6. /\ DOMAIN onBook' \subseteq 1 .. modeIds
      /\ \A o \in DOMAIN onBook' : onBook'[o] \in Resting
  BY <1>4 DEF ModeInv, ModeShape, Shrinks
<1>7. UNCHANGED <<modeIds, event, agenda, flush>>
  BY DEF SidePulled
<1>8. entry.id <= modeIds /\ entry.id \notin DOMAIN onBook'
  BY <1>2, <1>3, <1>4 DEF Shrinks
<1>9. \A o \in DOMAIN onBook' : o \in DOMAIN onBook /\ onBook'[o] = onBook[o]
  BY <1>4 DEF Shrinks
<1> QED
  BY <1>1, <1>2, <1>3, <1>5, <1>6, <1>7, <1>8, <1>9, SideSettled

LEMMA SideAmendedKeeps ==
    ASSUME ModeInv, SideAmended
    PROVE  ModeInv'
<1> DEFINE moved == [o \in DOMAIN onBook |-> IF o = Mine.id
                       THEN [onBook[o] EXCEPT !.px = Wish] ELSE onBook[o]]
<1>1. AtSide /\ at = "amend" /\ UNCHANGED <<modeIds, event, agenda, flush, slipped>>
  BY DEF SideAmended, AtSide
<1>2. /\ Mine \in Entries /\ Wish \in Int /\ modeIds \in Nat
      /\ Side \in ModeSides /\ wants.strike \in ModeStrikes
  BY <1>1, SideTypes DEF ModeInv, ModeShape
<1>3. /\ DOMAIN onBook \subseteq 1 .. modeIds
      /\ \A o \in DOMAIN onBook : onBook[o] \in Resting
  BY DEF ModeInv, ModeShape
<1>4. /\ DOMAIN moved = DOMAIN onBook
      /\ \A o \in DOMAIN onBook :
           /\ moved[o] \in Resting
           /\ moved[o].strike = onBook[o].strike /\ moved[o].side = onBook[o].side
           /\ o # Mine.id => moved[o] = onBook[o]
           /\ o = Mine.id => moved[o].px = Wish
  BY <1>2, <1>3 DEF Resting
<1>5. /\ Mine.id <= modeIds
      /\ Mine.id \in DOMAIN onBook =>
           onBook[Mine.id].strike = wants.strike /\ onBook[Mine.id].side = Side
  BY <1>2 DEF ModeInv, KnownAreOurs, Mine
<1>6. \/ /\ Mine.id \in DOMAIN onBook /\ onBook' = moved
         /\ SideDone([Mine EXCEPT !.px = Wish])
      \/ /\ onBook' = onBook \/ onBook' = moved
         /\ at' = "replace" /\ UNCHANGED <<known, wants>>
  BY DEF SideAmended
<1> HIDE DEF moved
<1>7. CASE /\ Mine.id \in DOMAIN onBook /\ onBook' = moved
           /\ SideDone([Mine EXCEPT !.px = Wish])
  <2> DEFINE entry == [Mine EXCEPT !.px = Wish]
  <2>1. entry \in Entries /\ entry.id = Mine.id /\ entry.px = Wish /\ SideDone(entry)
    BY <1>2, <1>7 DEF Entries
  <2> HIDE DEF entry
  <2>2. \A o \in DOMAIN onBook' : onBook'[o] \in Resting
    BY <1>4, <1>7
  <2>3. \A o \in DOMAIN onBook' : /\ o \in DOMAIN onBook
                                  /\ onBook'[o].strike = onBook[o].strike
                                  /\ onBook'[o].side = onBook[o].side
    BY <1>4, <1>7
  <2>4. \A o \in DOMAIN onBook' \ slipped' : o # entry.id =>
          o \in DOMAIN onBook \ slipped /\ onBook'[o] = onBook[o] /\ o # Mine.id
    BY <1>1, <1>4, <1>7, <2>1
  <2>5. /\ onBook'[entry.id].strike = wants.strike /\ onBook'[entry.id].side = Side
        /\ onBook'[entry.id].px = entry.px
    BY <1>4, <1>5, <1>7, <2>1
  <2>6. DOMAIN onBook' \subseteq 1 .. modeIds' /\ modeIds' \in Nat /\ modeIds <= modeIds'
        /\ entry.id <= modeIds'
    BY <1>1, <1>2, <1>3, <1>4, <1>5, <1>7, <2>1
  <2> QED
    BY <1>1, <2>1, <2>2, <2>3, <2>4, <2>5, <2>6, SideSettled
<1>8. CASE /\ onBook' = onBook \/ onBook' = moved
           /\ at' = "replace" /\ UNCHANGED <<known, wants>>
  <2>1. /\ DOMAIN onBook' = DOMAIN onBook
        /\ \A o \in DOMAIN onBook :
             /\ onBook'[o] \in Resting
             /\ onBook'[o].strike = onBook[o].strike /\ onBook'[o].side = onBook[o].side
             /\ o # Mine.id => onBook'[o] = onBook[o]
    BY <1>3, <1>4, <1>8
  <2>2. Mine' = Mine
    BY <1>8 DEF Mine, Side
  <2>3. KnownAreOurs'
    BY <1>1, <1>8, <2>1 DEF ModeInv, KnownAreOurs
  <2>4. OthersFaithful'
    <3> SUFFICES ASSUME NEW o \in DOMAIN onBook \ slipped
                 PROVE  /\ known[onBook'[o].strike][onBook'[o].side].id = o
                        /\ \/ known[onBook'[o].strike][onBook'[o].side].px = onBook'[o].px
                           \/ o = Mine.id
      BY <1>1, <1>8, <2>1, <2>2 DEF OthersFaithful
    <3>1. /\ known[onBook[o].strike][onBook[o].side].id = o
          /\ known[onBook[o].strike][onBook[o].side].px = onBook[o].px
      BY <1>1 DEF ModeInv, OthersFaithful
    <3> QED
      BY <2>1, <3>1
  <2>5. ModeShape'
    BY <1>1, <1>8, <2>1 DEF ModeInv, ModeShape, AtSide, Flushing
  <2>6. ReplacedIsGone' /\ FlushSees'
    BY <1>8 DEF ReplacedIsGone, FlushSees, Flushing
  <2> QED
    BY <2>3, <2>4, <2>5, <2>6 DEF ModeInv
<1> QED
  BY <1>6, <1>7, <1>8

LEMMA SideCancelledKeeps ==
    ASSUME ModeInv, SideCancelled
    PROVE  ModeInv'
<1> USE DEF SideCancelled
<1>1. /\ at = "replace" /\ at' = "place"
      /\ UNCHANGED <<modeIds, event, known, agenda, wants, flush>>
  OBVIOUS
<1>2. Shrinks
  BY GoneShrinks DEF Shrinks
<1>3. Mine' = Mine
  BY <1>1 DEF Mine, Side
<1>4. \A o \in DOMAIN onBook' \ slipped' : o \in DOMAIN onBook \ slipped /\ o # Mine.id
  <2>1. CASE onBook' = Gone({Mine.id}) /\ UNCHANGED slipped
    BY <2>1, GoneShrinks
  <2>2. CASE slipped' = slipped \cup ({Mine.id} \cap DOMAIN onBook) /\ UNCHANGED onBook
    BY <2>2
  <2> QED
    BY <2>1, <2>2
<1>5. KnownAreOurs' /\ DOMAIN onBook' \subseteq 1 .. modeIds'
      /\ \A o \in DOMAIN onBook' : onBook'[o] \in Resting
  BY <1>1, <1>2, BookShrinks
<1>6. ModeShape'
  BY <1>1, <1>5 DEF ModeInv, ModeShape, AtSide, Flushing
<1>7. OthersFaithful'
  BY <1>1, <1>2, <1>4 DEF ModeInv, OthersFaithful, Shrinks
<1>8. ReplacedIsGone' /\ FlushSees'
  BY <1>1, <1>3, <1>4 DEF ReplacedIsGone, FlushSees, Flushing
<1> QED
  BY <1>5, <1>6, <1>7, <1>8 DEF ModeInv

LEMMA SidePlacedKeeps ==
    ASSUME ModeInv, SidePlaced
    PROVE  ModeInv'
<1>1. AtSide /\ at = "place" /\ UNCHANGED <<event, agenda, flush>>
  BY DEF SidePlaced, AtSide
<1>2. /\ Mine \in Entries /\ Wish \in Int /\ modeIds \in Nat
      /\ Side \in ModeSides /\ wants.strike \in ModeStrikes
  BY <1>1, SideTypes DEF ModeInv, ModeShape
<1>3. /\ DOMAIN onBook \subseteq 1 .. modeIds
      /\ \A o \in DOMAIN onBook : onBook[o] \in Resting
  BY DEF ModeInv, ModeShape
<1>4. Mine.id \notin DOMAIN onBook \ slipped
  BY <1>1 DEF ModeInv, ReplacedIsGone
<1>5. [id |-> 0, px |-> 0] \in Entries
  BY DEF Entries
<1>6. CASE SideDone([id |-> 0, px |-> 0]) /\ UNCHANGED <<onBook, modeIds, slipped>>
  <2> DEFINE entry == [id |-> 0, px |-> 0]
  <2>1. entry \in Entries /\ entry.id = 0 /\ SideDone(entry)
    BY <1>5, <1>6
  <2> HIDE DEF entry
  <2>2. entry.id <= modeIds' /\ entry.id \notin DOMAIN onBook' /\ modeIds' \in Nat
        /\ modeIds <= modeIds'
    BY <1>2, <1>3, <1>6, <2>1
  <2>3. \A o \in DOMAIN onBook' \ slipped' :
          o \in DOMAIN onBook \ slipped /\ onBook'[o] = onBook[o] /\ o # Mine.id
    BY <1>4, <1>6
  <2>4. DOMAIN onBook' \subseteq 1 .. modeIds'
        /\ \A o \in DOMAIN onBook' : o \in DOMAIN onBook /\ onBook'[o] \in Resting
                                     /\ onBook'[o] = onBook[o]
    BY <1>3, <1>6
  <2> QED
    BY <1>1, <2>1, <2>2, <2>3, <2>4, SideSettled
<1>7. ASSUME modeIds' = modeIds + 1, Accepted(modeIds')
      PROVE  /\ DOMAIN onBook' = DOMAIN onBook \cup {modeIds'}
             /\ modeIds' \notin DOMAIN onBook /\ modeIds' \in Nat /\ modeIds <= modeIds'
             /\ DOMAIN onBook' \subseteq 1 .. modeIds'
             /\ \A o \in DOMAIN onBook : onBook'[o] = onBook[o]
             /\ onBook'[modeIds'] = [strike |-> wants.strike, side |-> Side, px |-> Wish]
             /\ \A o \in DOMAIN onBook' : onBook'[o] \in Resting
  <2>1. modeIds' \notin DOMAIN onBook /\ modeIds' \in Nat /\ modeIds <= modeIds'
        /\ DOMAIN onBook \subseteq 1 .. modeIds' /\ modeIds' \in 1 .. modeIds'
    BY <1>2, <1>3, <1>7
  <2>2. /\ DOMAIN onBook' = DOMAIN onBook \cup {modeIds'}
        /\ onBook'[modeIds'] = [strike |-> wants.strike, side |-> Side, px |-> Wish]
        /\ \A o \in DOMAIN onBook : o # modeIds' => onBook'[o] = onBook[o]
    BY <1>7 DEF Accepted
  <2>3. [strike |-> wants.strike, side |-> Side, px |-> Wish] \in Resting
    BY <1>2 DEF Resting
  <2> QED
    BY <1>3, <2>1, <2>2, <2>3
<1>8. ASSUME modeIds' = modeIds + 1, Accepted(modeIds'),
             NEW entry \in Entries, SideDone(entry),
             \/ entry.id = modeIds' /\ entry.px = Wish /\ UNCHANGED slipped
             \/ entry.id = 0 /\ slipped' = slipped \cup {modeIds'}
      PROVE  ModeInv'
  <2>1. /\ DOMAIN onBook' = DOMAIN onBook \cup {modeIds'}
        /\ modeIds' \notin DOMAIN onBook /\ modeIds' \in Nat /\ modeIds <= modeIds'
        /\ DOMAIN onBook' \subseteq 1 .. modeIds'
        /\ \A o \in DOMAIN onBook : onBook'[o] = onBook[o]
        /\ onBook'[modeIds'] = [strike |-> wants.strike, side |-> Side, px |-> Wish]
        /\ \A o \in DOMAIN onBook' : onBook'[o] \in Resting
    BY <1>7, <1>8
  <2>2. entry.id <= modeIds' /\ (entry.id \in DOMAIN onBook' => entry.id = modeIds')
    BY <1>3, <1>8, <2>1
  <2>3. \A o \in DOMAIN onBook' : o <= modeIds => o \in DOMAIN onBook
    BY <1>2, <1>8, <2>1
  <2>4. \A o \in DOMAIN onBook' \ slipped' : o # entry.id =>
          o \in DOMAIN onBook \ slipped /\ o # Mine.id
    BY <1>4, <1>8, <2>1
  <2>5. entry.id \in DOMAIN onBook' => entry.px = Wish
    BY <1>3, <1>8, <2>1, <2>2
  <2> QED
    BY <1>1, <1>8, <2>1, <2>2, <2>3, <2>4, <2>5, SideSettled
<1>9. CASE /\ modeIds' = modeIds + 1 /\ Accepted(modeIds')
           /\ SideDone([id |-> modeIds', px |-> Wish]) /\ UNCHANGED slipped
  <2>1. [id |-> modeIds', px |-> Wish] \in Entries
    BY <1>2, <1>9 DEF Entries
  <2> QED
    BY <1>8, <1>9, <2>1
<1>10. CASE /\ modeIds' = modeIds + 1 /\ Accepted(modeIds')
            /\ SideDone([id |-> 0, px |-> 0]) /\ slipped' = slipped \cup {modeIds'}
  BY <1>5, <1>8, <1>10
<1> QED
  BY <1>6, <1>9, <1>10 DEF SidePlaced

\* Fills touch only the book.
LEMMA ModeFilledKeeps ==
    ASSUME ModeInv, ModeFilled
    PROVE  ModeInv'
<1> USE DEF ModeFilled
<1>1. Shrinks
  BY GoneShrinks
<1>2. KnownAreOurs' /\ OthersFaithful' /\ ReplacedIsGone'
  BY <1>1, BookShrinks, FaithStays
<1>3. ModeShape'
  BY <1>1, BookShrinks DEF ModeInv, ModeShape, AtSide, Flushing
<1>4. FlushSees'
  <2>1. DOMAIN onBook' \subseteq DOMAIN onBook
    BY <1>1 DEF Shrinks
  <2>2. Cardinality(DOMAIN onBook) <= ListLimit => Cardinality(DOMAIN onBook') <= ListLimit
    BY <1>1, BookShrinks
  <2> QED
    BY <2>1, <2>2 DEF ModeInv, FlushSees, Flushing
<1> QED
  BY <1>2, <1>3, <1>4 DEF ModeInv

\* Neither the event nor a signal touches what the invariant speaks of.
LEMMA OutsideKeeps ==
    ASSUME ModeInv,
           UNCHANGED <<onBook, modeIds, known, at, agenda, wants, flush, slipped>>,
           event' \in 1 .. Len(EventStrikes)
    PROVE  ModeInv'
<1>1. ModeShape' /\ KnownAreOurs'
  BY DEF ModeInv, ModeShape, KnownAreOurs, AtSide, Flushing
<1>2. OthersFaithful' /\ ReplacedIsGone' /\ FlushSees'
  BY DEF ModeInv, OthersFaithful, ReplacedIsGone, FlushSees, Flushing, Mine, Side
<1> QED
  BY <1>1, <1>2 DEF ModeInv

LEMMA ModeSteps == ModeInv /\ [ModeNext]_modeVars => ModeInv'
<1> SUFFICES ASSUME ModeInv, [ModeNext]_modeVars
             PROVE  ModeInv'
  OBVIOUS
<1>1. CASE ListedAll \/ BatchSent \/ EachCancelled \/ EachDone \/ Gate
  BY <1>1, ListedAllKeeps, BatchSentKeeps, EachCancelledKeeps, EachDoneKeeps, GateKeeps
<1>2. CASE EventPulled \/ StrikePulled \/ CycleDone \/ SideBegins
  BY <1>2, EventPulledKeeps, StrikePulledKeeps, CycleDoneKeeps, SideBeginsKeeps
<1>3. CASE SidePulled \/ SideAmended \/ SideCancelled \/ SidePlaced \/ ModeFilled
  BY <1>3, SidePulledKeeps, SideAmendedKeeps, SideCancelledKeeps, SidePlacedKeeps,
     ModeFilledKeeps
<1>4. event \in 1 .. Len(EventStrikes) /\ Len(EventStrikes) \in Nat
  BY ModeAssumption, LenProperties DEF ModeInv, ModeShape
<1>5. CASE EventRolls
  <2>1. event' \in 1 .. Len(EventStrikes)
    BY <1>4, <1>5 DEF EventRolls
  <2> QED
    BY <1>5, <2>1, OutsideKeeps DEF EventRolls
<1>6. CASE Signalled \/ UNCHANGED modeVars
  BY <1>4, <1>6, OutsideKeeps DEF Signalled, modeVars, market0
<1> QED
  BY <1>1, <1>2, <1>3, <1>5, <1>6 DEF ModeNext

\* Whatever the exchange fills and whichever requests fail, every order that
\* rests at the exchange is the one its side is known by, at the price it is
\* known by unless its amendment has just failed, or a failed request has left
\* it behind: run, _reposition and _cancel_all of deploy/lip_mode.py, with any
\* number of events, strikes, orders and leftovers, and any listing limit.
THEOREM ModeBotKnowsItsOrders ==
    ModeInit /\ [][ModeNext]_modeVars => []ModeViewFaithful
<1>1. ModeInv => ModeViewFaithful
  BY DEF ModeInv, OthersFaithful, ModeViewFaithful
<1> QED
  BY ModeStarts, ModeSteps, <1>1, PTL

-----------------------------------------------------------------------------
(* FeedCapture: the capture sentinel.                                      *)

IsPoll(p) == p = [all |-> p.all, todo |-> p.todo, upTo |-> p.upTo,
                  next |-> p.next, missed |-> p.missed]

CaptureShape ==
    /\ open \in Seq(Listable) /\ markets \in Seq(Listable) /\ tape \in Seq(Listable)
    /\ DOMAIN poll = Pollers /\ DOMAIN polls = Pollers
    /\ \A l \in Pollers :
         /\ IsPoll(poll[l])
         /\ poll[l].todo \in Seq(Listable)
         /\ poll[l].upTo \in Int /\ poll[l].upTo <= Len(tape)

\* What a poll owes the store for one market.
OwedFor(l, m) ==
    IF l = "books" THEN {<<"book", m, polls[l]>>}
    ELSE {<<"trade", i>> : i \in {j \in 1 .. poll[l].upTo : tape[j] = m}}

\* A market is still to be asked, or has not given a full answer, or what the
\* poll owes for it is stored.
WalkStores ==
    \A l \in Pollers : \A m \in ToSet(poll[l].all) \ poll[l].missed :
        m \in ToSet(poll[l].todo) \/ OwedFor(l, m) \subseteq stored

CaptureInv == CaptureShape /\ WalkStores /\ CaptureIsComplete

LEMMA CaptureStarted == CaptureInit => CaptureInv
<1> SUFFICES ASSUME CaptureInit
             PROVE  CaptureInv
  OBVIOUS
<1>1. /\ open \in EventLists /\ markets = <<>> /\ tape = <<>> /\ due = {}
      /\ poll = [l \in Pollers |-> NoPoll] /\ polls = [l \in Pollers |-> 0]
  BY DEF CaptureInit
<1>2. open \in Seq(Listable) /\ Len(tape) = 0
  BY <1>1, CaptureAssumption
<1>3. \A l \in Pollers : poll[l] = NoPoll
  BY <1>1
<1>a. IsPoll(NoPoll) /\ NoPoll.todo = <<>> /\ NoPoll.upTo = -1
  BY DEF NoPoll, IsPoll
<1>b. NoPoll.upTo \in Int /\ NoPoll.upTo <= Len(tape)
  BY <1>2, <1>a
<1>c. /\ DOMAIN poll = Pollers /\ DOMAIN polls = Pollers
      /\ <<>> \in Seq(Listable)
  BY <1>1
<1>4. CaptureShape
  <2>1. markets \in Seq(Listable) /\ tape \in Seq(Listable)
    BY <1>1, <1>c
  <2>2. \A l \in Pollers : /\ IsPoll(poll[l]) /\ poll[l].todo \in Seq(Listable)
                           /\ poll[l].upTo \in Int /\ poll[l].upTo <= Len(tape)
    BY <1>3, <1>a, <1>b, <1>c
  <2> QED
    BY <1>2, <1>c, <2>1, <2>2 DEF CaptureShape
<1>5. WalkStores
  BY <1>3 DEF WalkStores, NoPoll, ToSet
<1> QED
  BY <1>1, <1>4, <1>5 DEF CaptureInv, CaptureIsComplete

\* The first of a list is one of its elements, and the rest are the others.
LEMMA WalkedOn ==
    ASSUME NEW S, NEW list \in Seq(S), list # <<>>
    PROVE  /\ Tail(list) \in Seq(S)
           /\ \A m \in ToSet(list) : m = Head(list) \/ m \in ToSet(Tail(list))
<1>1. Tail(list) \in Seq(S) /\ Head(list) = list[1] /\ Len(list) \in Nat
      /\ Len(Tail(list)) = Len(list) - 1
      /\ \A i \in 1 .. Len(Tail(list)) : Tail(list)[i] = list[i + 1]
  BY HeadTailProperties, LenProperties
<1>2. ASSUME NEW i \in DOMAIN list, i # 1
      PROVE  list[i] \in ToSet(Tail(list))
  <2>1. i \in 1 .. Len(list)
    BY LenProperties
  <2>2. i - 1 \in 1 .. Len(Tail(list)) /\ Tail(list)[i - 1] = list[i]
    BY <1>1, <1>2, <2>1
  <2>3. i - 1 \in DOMAIN Tail(list)
    BY <1>1, <2>2, LenProperties
  <2> QED
    BY <2>2, <2>3 DEF ToSet
<1> QED
  BY <1>1, <1>2 DEF ToSet

\* One market is answered, or is not: its rows are stored, or it is missed.
LEMMA WalkStep ==
    ASSUME CaptureInv, NEW l \in Pollers, Polling(l), NEW next, NEW missed,
           WalkGoesOn(l, next, missed),
           UNCHANGED <<open, markets, tape, polls, due>>,
           stored \subseteq stored',
           Asked(l) \in missed \/ OwedFor(l, Asked(l)) \subseteq stored'
    PROVE  CaptureInv'
<1>1. /\ poll[l] = [all |-> poll[l].all, todo |-> poll[l].todo, upTo |-> poll[l].upTo,
                    next |-> poll[l].next, missed |-> poll[l].missed]
      /\ poll[l].todo \in Seq(Listable) /\ poll[l].todo # <<>>
  BY DEF CaptureInv, CaptureShape, Polling, IsPoll
<1>2. /\ poll'[l] = [all |-> poll[l].all, todo |-> Tail(poll[l].todo), upTo |-> poll[l].upTo,
                     next |-> next, missed |-> poll[l].missed \cup missed]
      /\ DOMAIN poll' = DOMAIN poll /\ \A k \in Pollers \ {l} : poll'[k] = poll[k]
  BY <1>1 DEF WalkGoesOn, CaptureInv, CaptureShape
<1>3. /\ Tail(poll[l].todo) \in Seq(Listable)
      /\ \A m \in ToSet(poll[l].todo) : m = Asked(l) \/ m \in ToSet(Tail(poll[l].todo))
  BY <1>1, WalkedOn DEF Asked
<1>a. /\ IsPoll(poll'[l]) /\ poll'[l].todo = Tail(poll[l].todo) /\ poll'[l].upTo = poll[l].upTo
      /\ poll'[l].all = poll[l].all /\ poll'[l].missed = poll[l].missed \cup missed
  BY <1>2 DEF IsPoll
<1>4. CaptureShape'
  BY <1>2, <1>3, <1>a DEF CaptureInv, CaptureShape
<1>b. \A k \in Pollers : poll'[k].upTo = poll[k].upTo
  BY <1>2, <1>a
<1>5. \A k \in Pollers : \A m : OwedFor(k, m)' = OwedFor(k, m)
  BY <1>b DEF OwedFor
<1>6. WalkStores'
  <2> SUFFICES ASSUME NEW k \in Pollers, NEW m \in ToSet(poll'[k].all) \ poll'[k].missed,
                      m \notin ToSet(poll'[k].todo)
               PROVE  OwedFor(k, m) \subseteq stored'
    BY <1>5 DEF WalkStores
  <2>1. CASE k # l
    BY <1>2, <2>1 DEF CaptureInv, WalkStores
  <2>2. CASE k = l
    <3>1. /\ m \in ToSet(poll[l].all) \ poll[l].missed /\ m \notin missed
          /\ m \notin ToSet(Tail(poll[l].todo))
      BY <1>a, <2>2
    <3>2. CASE m = Asked(l)
      BY <2>2, <3>1, <3>2
    <3>3. CASE m # Asked(l)
      BY <1>3, <2>2, <3>1, <3>3 DEF CaptureInv, WalkStores
    <3> QED
      BY <3>2, <3>3
  <2> QED
    BY <2>1, <2>2
<1> QED
  BY <1>4, <1>6 DEF CaptureInv, CaptureIsComplete

\* A step that lets the polls go on, or cuts them off.
LEMMA PollsGoOn ==
    ASSUME CaptureInv, CaptureShape', UNCHANGED <<stored, due, polls>>,
           \A l \in Pollers : poll'[l] \in {poll[l], NoPoll},
           \A i \in DOMAIN tape : tape'[i] = tape[i]
    PROVE  CaptureInv'
<1> SUFFICES ASSUME NEW l \in Pollers, NEW m \in ToSet(poll'[l].all) \ poll'[l].missed,
                    m \notin ToSet(poll'[l].todo)
             PROVE  OwedFor(l, m)' \subseteq stored
  BY DEF CaptureInv, CaptureIsComplete, WalkStores
<1>1. poll'[l] = poll[l]
  BY DEF NoPoll, ToSet
<1>2. OwedFor(l, m) \subseteq stored
  BY <1>1 DEF CaptureInv, WalkStores
<1>3. \A j \in 1 .. poll[l].upTo : j \in DOMAIN tape
  <2>1. poll[l].upTo \in Int /\ poll[l].upTo <= Len(tape)
    BY DEF CaptureInv, CaptureShape
  <2>2. DOMAIN tape = 1 .. Len(tape) /\ Len(tape) \in Nat
    BY LenProperties DEF CaptureInv, CaptureShape
  <2> QED
    BY <2>1, <2>2
<1>4. OwedFor(l, m)' = OwedFor(l, m)
  BY <1>1, <1>3 DEF OwedFor
<1> QED
  BY <1>2, <1>4

LEMMA CaptureSteps == CaptureInv /\ [CaptureNext]_captureVars => CaptureInv'
<1> SUFFICES ASSUME CaptureInv, [CaptureNext]_captureVars
             PROVE  CaptureInv'
  OBVIOUS
<1>1. /\ open \in Seq(Listable) /\ markets \in Seq(Listable) /\ tape \in Seq(Listable)
      /\ DOMAIN poll = Pollers /\ DOMAIN polls = Pollers
  BY DEF CaptureInv, CaptureShape
<1>2. DOMAIN tape = 1 .. Len(tape) /\ Len(tape) \in Nat
  BY <1>1, LenProperties
<1>3. CASE Relists \/ CaptureStarts \/ EventsRefreshed \/ UNCHANGED captureVars
  <2>1. /\ UNCHANGED <<tape, stored, poll, polls, due>>
        /\ open' = open \/ open' \in EventLists
        /\ markets' \in {markets, open}
    BY <1>3 DEF Relists, CaptureStarts, EventsRefreshed, Refreshed, captureVars
  <2>2. open' \in Seq(Listable) /\ markets' \in Seq(Listable)
    BY <1>1, <2>1, CaptureAssumption
  <2>3. CaptureShape'
    BY <2>1, <2>2 DEF CaptureInv, CaptureShape
  <2> QED
    BY <2>1, <2>3, PollsGoOn
<1>4. CASE Trades
  <2>1. PICK m \in ToSet(open) : tape' = Append(tape, m)
    BY <1>4 DEF Trades
  <2>2. m \in Listable
    BY <1>1, ElementOfSeq DEF ToSet
  <2>3. tape' \in Seq(Listable) /\ Len(tape') = Len(tape) + 1
        /\ \A i \in 1 .. Len(tape) : tape'[i] = tape[i]
    BY <1>1, <2>1, <2>2, AppendProperties
  <2>4. UNCHANGED <<open, markets, stored, poll, polls, due>>
    BY <1>4 DEF Trades
  <2>5. \A l \in Pollers : poll[l].upTo \in Int /\ poll[l].upTo <= Len(tape')
    <3>1. \A l \in Pollers : poll[l].upTo \in Int /\ poll[l].upTo <= Len(tape)
      BY DEF CaptureInv, CaptureShape
    <3> QED
      BY <1>2, <2>3, <3>1
  <2>6. CaptureShape'
    BY <2>3, <2>4, <2>5 DEF CaptureInv, CaptureShape
  <2> QED
    BY <1>2, <2>3, <2>4, <2>6, PollsGoOn
<1>5. CASE CaptureStops
  <2>1. /\ poll' = [l \in Pollers |-> NoPoll] /\ markets' = <<>>
        /\ UNCHANGED <<open, tape, stored, polls, due>>
    BY <1>5 DEF CaptureStops
  <2>2. IsPoll(NoPoll) /\ NoPoll.todo = <<>>
    BY DEF NoPoll, IsPoll
  <2>3. NoPoll.upTo \in Int /\ NoPoll.upTo <= Len(tape)
    BY <1>2 DEF NoPoll
  <2>a. /\ DOMAIN poll' = Pollers /\ DOMAIN polls' = Pollers
        /\ \A l \in Pollers : poll'[l] = NoPoll
        /\ markets' \in Seq(Listable)
    BY <1>1, <2>1
  <2>4. CaptureShape'
    BY <1>1, <2>1, <2>2, <2>3, <2>a DEF CaptureShape
  <2> QED
    BY <2>1, <2>4, PollsGoOn
<1>6. CASE BookStored
  BY <1>6, WalkStep DEF BookStored, OwedFor, Pollers
<1>7. CASE TradesStored
  <2> DEFINE m == Asked("trades")
             partial == Newest(m) # Eligible(m)
             next == IF partial THEN Min(Newest(m)) ELSE poll["trades"].next
             missed == IF partial \/ cursor > 0 THEN {m} ELSE {}
  <2>1. /\ Polling("trades") /\ stored' = stored \cup {<<"trade", i>> : i \in Newest(m)}
        /\ WalkGoesOn("trades", next, missed)
        /\ UNCHANGED <<open, markets, tape, polls, due>>
    BY <1>7 DEF TradesStored
  <2>2. CASE m \notin missed
    <3>1. Newest(m) = {i \in DOMAIN tape : tape[i] = m}
      BY <2>2 DEF Eligible
    <3>2. poll["trades"].upTo \in Int /\ poll["trades"].upTo <= Len(tape)
      BY DEF CaptureInv, CaptureShape, Pollers
    <3>3. \A j \in 1 .. poll["trades"].upTo : j \in DOMAIN tape
      BY <1>2, <3>2
    <3>4. OwedFor("trades", m) \subseteq stored'
      BY <2>1, <3>1, <3>3 DEF OwedFor
    <3> HIDE DEF next, missed
    <3> QED
      BY <2>1, <3>4, WalkStep DEF Pollers
  <2>3. CASE m \in missed
    <3> HIDE DEF next, missed
    <3> QED
      BY <2>1, <2>3, WalkStep DEF Pollers
  <2> QED
    BY <2>2, <2>3
<1>8. ASSUME NEW l \in Pollers, PollBegins(l)
      PROVE  CaptureInv'
  <2>1. /\ poll' = [poll EXCEPT ![l] = [all |-> markets, todo |-> markets, upTo |-> Len(tape),
                                        next |-> cursor, missed |-> {}]]
        /\ poll[l] = NoPoll /\ polls' = [polls EXCEPT ![l] = @ + 1]
        /\ UNCHANGED <<open, markets, tape, stored, due>>
    BY <1>8 DEF PollBegins
  <2>2. /\ poll'[l] = [all |-> markets, todo |-> markets, upTo |-> Len(tape),
                       next |-> cursor, missed |-> {}]
        /\ \A k \in Pollers \ {l} : poll'[k] = poll[k] /\ polls'[k] = polls[k]
        /\ DOMAIN poll' = Pollers /\ DOMAIN polls' = Pollers
    BY <1>1, <2>1
  <2>a. IsPoll(poll'[l]) /\ poll'[l].todo = markets /\ poll'[l].upTo = Len(tape)
    BY <2>2 DEF IsPoll
  <2>b. poll'[l].upTo \in Int /\ poll'[l].upTo <= Len(tape)
    BY <1>2, <2>a
  <2>3. CaptureShape'
    BY <1>1, <2>1, <2>2, <2>a, <2>b DEF CaptureInv, CaptureShape
  <2>4. WalkStores'
    BY <2>1, <2>2 DEF CaptureInv, WalkStores, OwedFor
  <2> QED
    BY <2>1, <2>3, <2>4 DEF CaptureInv, CaptureIsComplete
<1>9. ASSUME NEW l \in Pollers, AnswerFails(l)
      PROVE  CaptureInv'
  BY <1>9, WalkStep DEF AnswerFails
<1>10. ASSUME NEW l \in Pollers, PollEnds(l)
       PROVE  CaptureInv'
  <2>1. /\ poll[l].todo = <<>> /\ due' = due \cup Owed(l)
        /\ poll' = [poll EXCEPT ![l] = NoPoll]
        /\ UNCHANGED <<open, markets, tape, stored, polls>>
    BY <1>10 DEF PollEnds, Polling
  <2>2. \A m \in ToSet(poll[l].all) \ poll[l].missed : OwedFor(l, m) \subseteq stored
    BY <2>1 DEF CaptureInv, WalkStores, ToSet
  <2>3. Owed(l) \subseteq stored
    <3>1. CASE l = "books"
      BY <2>2, <3>1 DEF Owed, OwedFor
    <3>2. CASE l = "trades"
      BY <2>2, <3>2 DEF Owed, OwedFor
    <3> QED
      BY <3>1, <3>2 DEF Pollers
  <2>4. /\ poll'[l] = NoPoll /\ DOMAIN poll' = Pollers
        /\ \A k \in Pollers \ {l} : poll'[k] = poll[k]
    BY <1>1, <2>1
  <2>5. CaptureShape'
    <3>1. IsPoll(NoPoll) /\ NoPoll.todo = <<>>
      BY DEF NoPoll, IsPoll
    <3>2. NoPoll.upTo \in Int /\ NoPoll.upTo <= Len(tape)
      BY <1>2 DEF NoPoll
    <3> QED
      BY <2>1, <2>4, <3>1, <3>2 DEF CaptureInv, CaptureShape
  <2>6. WalkStores'
    BY <2>1, <2>4 DEF CaptureInv, WalkStores, OwedFor, NoPoll, ToSet
  <2> QED
    BY <2>1, <2>3, <2>5, <2>6 DEF CaptureInv, CaptureIsComplete
<1> QED
  BY <1>3, <1>4, <1>5, <1>6, <1>7, <1>8, <1>9, <1>10 DEF CaptureNext

\* A poll that goes through has stored all that it owes, whatever is listed and
\* delisted under it, with lists of any length and answers of any size:
\* _refresh_events, _capture_orderbook and _capture_trades of
\* feeds/kalshi/capture.py.
THEOREM CaptureMissesNothing ==
    CaptureInit /\ [][CaptureNext]_captureVars => []CaptureIsComplete
<1>1. CaptureInv => CaptureIsComplete
  BY DEF CaptureInv
<1> QED
  BY CaptureStarted, CaptureSteps, <1>1, PTL

-----------------------------------------------------------------------------
(* PennyBot: the rewards web app.                                          *)

PennyBids == [id : Nat, key : Keys, price : 1 .. 99, by : {"bot", "hand"}, sure : BOOLEAN]
Snaps == [at : {"none", "listed", "full"}, bids : SUBSET PennyBids,
          blocked : SUBSET PennyMarkets, fresh : BOOLEAN]
Sided == PennyMarkets \X {"yes", "no"}
PennyJobs == [what : {"none", "block", "unblock", "orders", "arbs"},
              on : Sided \cup {<<"none", "none">>}, keys : SUBSET Sided,
              ids : SUBSET Nat, price : 0 .. 99]
Actors == {"operator", "sweeper"}

PennyShape ==
    /\ bids \subseteq PennyBids /\ placedBids \in Nat /\ blocked \subseteq PennyMarkets
    /\ cache \in Snaps /\ build \in Snaps
    /\ bot \in [enabled : BOOLEAN, at : {"asleep", "cycle"}, snap : Snaps,
                rows : SUBSET Keys, pending : SUBSET [key : Keys, price : 1 .. 99]]

JobsShape ==
    /\ jobs \in [Actors -> PennyJobs]
    /\ jobs["operator"].price # 0 => jobs["operator"].on \in Keys

\* While the bot sleeps, a snapshot begun in that sleep has all its bids; in a
\* cycle its bids are in the snapshot, or among the pending ones, or unsure.
SnapshotsCover ==
    /\ bot.at = "asleep" => \A snap \in {cache, build} :
         snap.fresh => \A b \in bids : b.by = "bot" => b \in snap.bids
    /\ bot.at = "cycle" => \A b \in bids : b.by = "bot" /\ b.sure =>
         b \in bot.snap.bids \/ [key |-> b.key, price |-> b.price] \in bot.pending

PennyInv == PennyShape /\ JobsShape /\ SnapshotsCover /\ BotArbsExplained

LEMMA NothingSeen == None \in Snaps /\ ~None.fresh /\ NoJob \in PennyJobs /\ NoJob.price = 0
BY DEF None, NoJob, Snaps, PennyJobs

LEMMA PennyStarts == PennyInit => PennyInv
<1> SUFFICES ASSUME PennyInit
             PROVE  PennyInv
  OBVIOUS
<1>1. PennyShape
  BY NothingSeen DEF PennyInit, PennyShape, Asleep
<1>2. JobsShape
  BY NothingSeen DEF PennyInit, JobsShape, Actors
<1>3. SnapshotsCover /\ BotArbsExplained
  BY DEF PennyInit, SnapshotsCover, BotArbsExplained
<1> QED
  BY <1>1, <1>2, <1>3 DEF PennyInv

\* What the others do: bids go, or the operator's come.
LEMMA OthersTurn ==
    ASSUME PennyInv, bids' \subseteq bids \cup {b \in PennyBids : b.by = "hand"},
           placedBids' \in Nat, UNCHANGED <<build, bot>>, cache' \in {cache, None},
           blocked' \subseteq PennyMarkets, JobsShape'
    PROVE  PennyInv'
<1>1. PennyShape'
  BY NothingSeen DEF PennyInv, PennyShape
<1>2. \A b \in bids' : b.by = "bot" => b \in bids
  OBVIOUS
<1>3. SnapshotsCover'
  BY <1>2, NothingSeen DEF PennyInv, SnapshotsCover
<1>4. BotArbsExplained'
  BY <1>2 DEF PennyInv, BotArbsExplained
<1> QED
  BY <1>1, <1>3, <1>4 DEF PennyInv

LEMMA JobTypes ==
    ASSUME JobsShape, NEW a \in Actors
    PROVE  jobs[a] \in PennyJobs /\ jobs[a].keys \subseteq Sided /\ jobs[a].ids \subseteq Nat
BY DEF JobsShape, PennyJobs

LEMMA JobsChange ==
    ASSUME JobsShape, NEW a \in Actors, NEW work \in PennyJobs,
           work.price # 0 /\ a = "operator" => work.on \in Keys,
           jobs' = [jobs EXCEPT ![a] = work]
    PROVE  JobsShape'
BY DEF JobsShape, Actors

\* Less to be done than before, on the same side at the same price or at none.
LEMMA JobGoesOn ==
    ASSUME JobsShape, NEW a \in Actors, NEW keys \in SUBSET Sided, NEW ids \in SUBSET Nat,
           jobs' = [jobs EXCEPT ![a] = [jobs[a] EXCEPT !.keys = keys, !.ids = ids]]
    PROVE  JobsShape'
<1> DEFINE work == [jobs[a] EXCEPT !.keys = keys, !.ids = ids]
<1>1. work \in PennyJobs /\ work.price = jobs[a].price /\ work.on = jobs[a].on
  BY JobTypes, ZenonT(60) DEF PennyJobs
<1>2. jobs["operator"].price # 0 => jobs["operator"].on \in Keys
  BY DEF JobsShape
<1> HIDE DEF work
<1>3. jobs' = [jobs EXCEPT ![a] = work]
  BY DEF work
<1> QED
  BY <1>1, <1>2, <1>3, JobsChange

LEMMA OrdersOfSides ==
    ASSUME PennyShape
    PROVE  Keys \subseteq Sided /\ \A key : {b.id : b \in On(key, bids)} \subseteq Nat
BY PennyAssumption DEF PennyShape, PennyBids, Sided, PennyMarkets, On

LEMMA RequestsKeep ==
    ASSUME PennyInv,
           \/ BidGone \/ CacheExpires \/ SweepStarts \/ SweepEnds \/ JobPlaces \/ Answered
           \/ \E m \in PennyMarkets : Blocks(m) \/ Unblocks(m)
           \/ \E key \in Keys : Orders(key)
           \/ \E a \in Actors : JobLists(a) \/ JobCancels(a) \/ JobRaises(a)
    PROVE  PennyInv'
<1>1. PennyShape /\ JobsShape
  BY DEF PennyInv
<1>2. placedBids \in Nat /\ blocked \subseteq PennyMarkets
  BY <1>1 DEF PennyShape
<1>3. CASE BidGone \/ CacheExpires
  <2>1. /\ bids' \subseteq bids /\ cache' \in {cache, None}
        /\ UNCHANGED <<placedBids, blocked, build, bot, jobs>>
    BY <1>3 DEF BidGone, CacheExpires
  <2>2. JobsShape'
    BY <1>1, <2>1 DEF JobsShape
  <2> QED
    BY <1>2, <2>1, <2>2, OthersTurn
<1>4. CASE SweepEnds \/ Answered \/ \E a \in Actors : JobRaises(a)
  <2>1. /\ \E a \in Actors : jobs' = [jobs EXCEPT ![a] = NoJob]
        /\ cache' \in {cache, None}
        /\ UNCHANGED <<bids, placedBids, blocked, build, bot>>
    BY <1>4 DEF SweepEnds, Answered, JobRaises, Actors
  <2>2. JobsShape'
    BY <1>1, <2>1, NothingSeen, JobsChange
  <2> QED
    BY <1>2, <2>1, <2>2, OthersTurn
<1>5. ASSUME NEW m \in PennyMarkets, Blocks(m) \/ Unblocks(m)
      PROVE  PennyInv'
  <2>1. <<m, "yes">> \in Sided /\ <<m, "no">> \in Sided
    BY DEF Sided
  <2>2. CASE Blocks(m)
    <3> DEFINE work == [NoJob EXCEPT !.what = "block", !.on = <<m, "yes">>,
                                     !.keys = {<<m, "yes">>, <<m, "no">>}]
    <3>1. work \in PennyJobs /\ work.price = 0
      BY <2>1, NothingSeen DEF PennyJobs
    <3>2. jobs' = [jobs EXCEPT !["operator"] = work]
      BY <2>2 DEF Blocks, Begins
    <3> HIDE DEF work
    <3>3. JobsShape'
      BY <1>1, <3>1, <3>2, JobsChange DEF Actors
    <3> QED
      BY <1>2, <2>2, <3>3, OthersTurn DEF Blocks
  <2>3. CASE Unblocks(m)
    <3> DEFINE work == [NoJob EXCEPT !.what = "unblock", !.on = <<m, "yes">>]
    <3>1. work \in PennyJobs /\ work.price = 0
      BY <2>1, NothingSeen DEF PennyJobs
    <3>2. jobs' = [jobs EXCEPT !["operator"] = work]
      BY <2>3 DEF Unblocks, Begins
    <3> HIDE DEF work
    <3>3. JobsShape'
      BY <1>1, <3>1, <3>2, JobsChange DEF Actors
    <3> QED
      BY <1>2, <2>3, <3>3, OthersTurn DEF Unblocks
  <2> QED
    BY <1>5, <2>2, <2>3
<1>6. ASSUME NEW key \in Keys, Orders(key)
      PROVE  PennyInv'
  <2>1. PICK price \in MovePrices \cup {0} : jobs' = [jobs EXCEPT !["operator"] =
          [NoJob EXCEPT !.what = "orders", !.on = key, !.keys = {key}, !.price = price]]
    BY <1>6 DEF Orders, Begins
  <2>2. UNCHANGED <<bids, placedBids, blocked, cache, build, bot>>
    BY <1>6 DEF Orders
  <2> DEFINE work == [NoJob EXCEPT !.what = "orders", !.on = key, !.keys = {key}, !.price = price]
  <2>3. key \in Sided /\ price \in 0 .. 99
    BY <1>1, OrdersOfSides, PennyAssumption
  <2>4. work \in PennyJobs /\ work.on = key
    BY <2>3 DEF NoJob, PennyJobs
  <2> HIDE DEF work
  <2>5. jobs' = [jobs EXCEPT !["operator"] = work]
    BY <2>1 DEF work
  <2>6. JobsShape'
    BY <1>1, <2>4, <2>5, JobsChange DEF Actors
  <2> QED
    BY <1>2, <2>2, <2>6, OthersTurn
<1>7. CASE SweepStarts
  <2> DEFINE losing == {(IF pair[1].price <= pair[2].price THEN pair[1] ELSE pair[2]).key :
                        pair \in ArbsIn(cache.bids)}
             work == [NoJob EXCEPT !.what = "arbs", !.keys = losing]
  <2>1. jobs' = [jobs EXCEPT !["sweeper"] = work]
        /\ UNCHANGED <<bids, placedBids, blocked, cache, build, bot>>
    BY <1>7 DEF SweepStarts
  <2>2. \A pair \in ArbsIn(cache.bids) : pair[1].key \in Keys /\ pair[2].key \in Keys
    BY DEF ArbsIn
  <2>3. losing \subseteq Sided
    BY <1>1, <2>2, OrdersOfSides
  <2> HIDE DEF losing
  <2>4. work \in PennyJobs
    BY <2>3, NothingSeen DEF PennyJobs
  <2> HIDE DEF work
  <2>5. JobsShape'
    BY <1>1, <2>1, <2>4, JobsChange DEF Actors
  <2> QED
    BY <1>2, <2>1, <2>5, OthersTurn
<1>8. CASE JobPlaces
  <2> DEFINE work == jobs["operator"]
             done == [work EXCEPT !.price = 0]
  <2>1. work \in PennyJobs /\ (work.price # 0 => work.on \in Keys /\ work.price \in 1 .. 99)
    BY <1>1 DEF JobsShape, PennyJobs, Actors
  <2>2. PICK answer \in Outcomes : Places("hand", work.on, work.price, answer)
    BY <1>8 DEF JobPlaces
  <2>3. /\ work.price # 0 /\ jobs' = [jobs EXCEPT !["operator"] = done]
        /\ UNCHANGED <<blocked, cache, build, bot>>
    BY <1>8 DEF JobPlaces
  <2>4. [id |-> placedBids, key |-> work.on, price |-> work.price, by |-> "hand",
         sure |-> answer = "accepted"] \in {b \in PennyBids : b.by = "hand"}
    <3> DEFINE heard == answer = "accepted"
    <3>1. heard \in BOOLEAN
      OBVIOUS
    <3> HIDE DEF heard
    <3>2. [id |-> placedBids, key |-> work.on, price |-> work.price, by |-> "hand",
           sure |-> heard] \in {b \in PennyBids : b.by = "hand"}
      BY <1>2, <2>1, <2>3, <3>1 DEF PennyBids
    <3> QED
      BY <3>2 DEF heard
  <2>5. bids' \subseteq bids \cup {b \in PennyBids : b.by = "hand"} /\ placedBids' \in Nat
    <3>1. placedBids' = placedBids + 1
      BY <2>2 DEF Places
    <3>2. bids' \subseteq bids \cup {b \in PennyBids : b.by = "hand"}
      BY <2>2, <2>4 DEF Places
    <3> QED
      BY <1>2, <3>1, <3>2
  <2>6. done \in PennyJobs /\ done.price = 0
    BY <2>1 DEF PennyJobs
  <2> HIDE DEF done
  <2>7. JobsShape'
    BY <1>1, <2>3, <2>6, JobsChange DEF Actors
  <2> QED
    BY <1>2, <2>3, <2>5, <2>7, OthersTurn
<1>9. ASSUME NEW a \in Actors, JobLists(a)
      PROVE  PennyInv'
  <2>1. PICK key \in jobs[a].keys :
          jobs' = [jobs EXCEPT ![a].keys = @ \ {key}, ![a].ids = {b.id : b \in On(key, bids)}]
    BY <1>9 DEF JobLists
  <2> DEFINE keys == jobs[a].keys \ {key}
             ids == {b.id : b \in On(key, bids)}
  <2>2. keys \in SUBSET Sided /\ ids \in SUBSET Nat
    BY <1>1, JobTypes, OrdersOfSides
  <2> HIDE DEF ids
  <2>3. jobs' = [jobs EXCEPT ![a] = [jobs[a] EXCEPT !.keys = keys, !.ids = ids]]
    BY <2>1 DEF ids
  <2> HIDE DEF keys
  <2>4. JobsShape'
    BY <1>1, <2>2, <2>3, JobGoesOn
  <2> QED
    BY <1>2, <1>9, <2>4, OthersTurn DEF JobLists
<1>10. ASSUME NEW a \in Actors, JobCancels(a)
       PROVE  PennyInv'
  <2>1. PICK id \in jobs[a].ids : jobs' = [jobs EXCEPT ![a].ids = @ \ {id}]
    BY <1>10 DEF JobCancels
  <2> DEFINE ids == jobs[a].ids \ {id}
  <2>2. jobs[a].keys \in SUBSET Sided /\ ids \in SUBSET Nat
    BY <1>1, JobTypes
  <2>3. jobs' = [jobs EXCEPT ![a] = [jobs[a] EXCEPT !.ids = ids]]
    BY <2>1
  <2> HIDE DEF ids
  <2>4. [jobs[a] EXCEPT !.ids = ids] = [jobs[a] EXCEPT !.keys = jobs[a].keys, !.ids = ids]
    BY <1>1, JobTypes DEF PennyJobs
  <2>5. JobsShape'
    BY <1>1, <2>2, <2>3, <2>4, JobGoesOn
  <2>6. bids' \subseteq bids /\ UNCHANGED <<placedBids, blocked, cache, build, bot>>
    BY <1>10 DEF JobCancels
  <2> QED
    BY <1>2, <2>5, <2>6, OthersTurn
<1> QED
  BY <1>3, <1>4, <1>5, <1>6, <1>7, <1>8, <1>9, <1>10

\* A row's best bid is at least as good as each of its bids.
LEMMA TopBidBounds ==
    ASSUME NEW key, NEW some \in SUBSET PennyBids
    PROVE  /\ TopBid(key, some) \in 0 .. 99
           /\ \A b \in some : b.key = key => b.price <= TopBid(key, some)
<1> DEFINE prices == {0} \cup {b.price : b \in On(key, some)}
<1>1. prices \in SUBSET (0 .. 99) /\ prices # {}
  BY DEF On, PennyBids
<1>2. Max(prices) \in prices /\ \A y \in prices : y <= Max(prices)
  BY <1>1, GreatestExists
<1>3. TopBid(key, some) = Max(prices)
  BY DEF TopBid
<1>4. \A b \in some : b.key = key => b.price \in prices
  BY DEF On
<1> HIDE DEF prices
<1> QED
  BY <1>1, <1>2, <1>3, <1>4

\* A bid that makes no losing pair with the rows' best bids and the pending ones
\* makes none with a bid of the snapshot, and none with a pending one.
LEMMA ChecksSuffice ==
    ASSUME PennyShape, NEW key \in Keys, NEW price \in 1 .. 99,
           ~WouldCreateArb(key, price),
           NEW asked, asked.key = key, asked.price = price,
           NEW b \in PennyBids,
           b \in bot.snap.bids \/ [key |-> b.key, price |-> b.price] \in bot.pending
    PROVE  ~Conflict(asked, b) /\ ~Conflict(b, asked)
<1> DEFINE me == [key |-> key, price |-> price]
           TopOf(k) == [key |-> k, price |-> TopBid(k, bot.snap.bids)]
           tops == {TopOf(k) : k \in {k \in Keys : On(k, bot.snap.bids) # {}}}
<1>1. \A other \in tops \cup bot.pending : ~(Conflict(me, other) \/ Conflict(other, me))
  BY DEF WouldCreateArb
<1>2. b.key \in Keys /\ b.price \in 1 .. 99
  BY DEF PennyBids
<1>3. CASE b \in bot.snap.bids
  <2>1. bot.snap.bids \in SUBSET PennyBids
    BY DEF PennyShape, Snaps
  <2>2. b \in On(b.key, bot.snap.bids)
    BY <1>3 DEF On
  <2>3. TopOf(b.key) \in tops
    BY <1>2, <2>2
  <2>4. /\ TopBid(b.key, bot.snap.bids) \in 0 .. 99
        /\ b.price <= TopBid(b.key, bot.snap.bids)
    BY <1>3, <2>1, TopBidBounds
  <2>5. ~Conflict(me, TopOf(b.key)) /\ ~Conflict(TopOf(b.key), me)
    BY <1>1, <2>3
  <2> DEFINE top == TopBid(b.key, bot.snap.bids)
  <2> HIDE DEF top
  <2>6. price + b.price > 100 => price + top > 100
    BY <1>2, <2>4, SMTT(30) DEF top
  <2>7. b.price + price > 100 => top + price > 100
    BY <1>2, <2>4 DEF top
  <2> QED
    BY <2>5, <2>6, <2>7 DEF Conflict, top
<1>4. CASE [key |-> b.key, price |-> b.price] \in bot.pending
  <2>1. ~Conflict(me, [key |-> b.key, price |-> b.price])
        /\ ~Conflict([key |-> b.key, price |-> b.price], me)
    BY <1>1, <1>4
  <2> QED
    BY <2>1 DEF Conflict
<1> QED
  BY <1>3, <1>4

\* The target of a row that calls for a bid is a price.
LEMMA TargetIsPrice ==
    ASSUME PennyShape, NEW key \in Keys, NEW top \in PennyTops, Bids(key, top)
    PROVE  Target(top) \in 1 .. 99
<1>1. top[1] \in 1 .. 99 /\ top[2] \in 1 .. 99 /\ top[1] < top[2]
  BY PennyAssumption
<1> DEFINE spread == top[2] - top[1]
<1>2. spread \div 8 \in 0 .. 99 /\ spread \in Int
  <2>1. spread \in 1 .. 98
    BY <1>1, SMTT(30)
  <2>2. \A n \in 1 .. 98 : n \div 8 \in 0 .. 99
    OBVIOUS
  <2> HIDE DEF spread
  <2> QED
    BY <2>1, <2>2
<1>3. Max({1, spread \div 8}) \in 0 .. 99
  <2>1. {1, spread \div 8} \in SUBSET (0 .. 99) /\ {1, spread \div 8} # {}
    BY <1>2
  <2>2. Max({1, spread \div 8}) \in {1, spread \div 8}
    BY <2>1, GreatestExists
  <2> QED
    BY <2>1, <2>2
<1>4. Target(top) = top[1] + IF spread <= 1 THEN 0 ELSE Max({1, spread \div 8})
  BY DEF Target
<1> HIDE DEF spread
<1>5. Target(top) \in Int /\ Target(top) >= top[1]
  BY <1>1, <1>3, <1>4, SMTT(30)
<1>6. Target(top) < top[2]
  BY DEF Bids
<1> QED
  BY <1>1, <1>5, <1>6

LEMMA AgedSnaps ==
    ASSUME NEW snap \in Snaps
    PROVE  Aged(snap) \in Snaps /\ ~Aged(snap).fresh
BY DEF Aged, Snaps

\* The bot goes to sleep: it has kept no faith in the snapshots it left behind.
LEMMA BotSleeps ==
    ASSUME PennyInv, Sleeps, bids' \subseteq PennyBids, placedBids' \in Nat,
           UNCHANGED <<blocked, jobs>>, BotArbsExplained'
    PROVE  PennyInv'
<1>1. /\ bot' = [Asleep EXCEPT !.enabled = bot.enabled]
      /\ cache' = Aged(cache) /\ build' = Aged(build)
  BY DEF Sleeps
<1>2. bot' \in [enabled : BOOLEAN, at : {"asleep", "cycle"}, snap : Snaps,
                rows : SUBSET Keys, pending : SUBSET [key : Keys, price : 1 .. 99]]
      /\ bot'.at = "asleep"
  <2>1. bot.enabled \in BOOLEAN
    BY DEF PennyInv, PennyShape
  <2> QED
    BY <1>1, <2>1, NothingSeen DEF Asleep
<1>3. cache' \in Snaps /\ build' \in Snaps /\ ~cache'.fresh /\ ~build'.fresh
  BY <1>1, AgedSnaps DEF PennyInv, PennyShape
<1>4. PennyShape'
  BY <1>2, <1>3 DEF PennyInv, PennyShape
<1>5. SnapshotsCover'
  BY <1>2, <1>3 DEF SnapshotsCover
<1>6. JobsShape'
  BY DEF PennyInv, JobsShape
<1> QED
  BY <1>4, <1>5, <1>6 DEF PennyInv

LEMMA RowBidKeeps ==
    ASSUME PennyInv, RowBid
    PROVE  PennyInv'
<1>1. PICK key \in bot.rows, top \in PennyTops, answer \in Outcomes :
        /\ Bids(key, top)
        /\ Places("bot", key, Target(top), answer)
        /\ IF answer \in {"raised", "silent"} THEN Sleeps
           ELSE /\ bot' = [RowDone(key) EXCEPT !.pending = IF answer = "accepted"
                                 THEN @ \cup {[key |-> key, price |-> Target(top)]} ELSE @]
                /\ UNCHANGED <<cache, build>>
  BY DEF RowBid
<1>2. bot.at = "cycle" /\ UNCHANGED <<blocked, jobs>>
  BY DEF RowBid
<1>3. PennyShape /\ key \in Keys /\ placedBids \in Nat /\ bids \subseteq PennyBids
      /\ bot.rows \subseteq Keys /\ bot.pending \subseteq [key : Keys, price : 1 .. 99]
  BY DEF PennyInv, PennyShape
<1>4. Target(top) \in 1 .. 99 /\ ~WouldCreateArb(key, Target(top))
  BY <1>1, <1>3, TargetIsPrice DEF Bids
<1> DEFINE heard == answer = "accepted"
           new == [id |-> placedBids, key |-> key, price |-> Target(top), by |-> "bot",
                   sure |-> heard]
<1>5. heard \in BOOLEAN
  OBVIOUS
<1>6. placedBids' = placedBids + 1 /\ bids' \subseteq bids \cup {new}
      /\ (~Rests(answer) => bids' = bids)
  BY <1>1 DEF Places
<1> HIDE DEF heard
<1>7. new \in PennyBids /\ new.key = key /\ new.price = Target(top) /\ new.sure = heard
      /\ new.by = "bot"
  BY <1>3, <1>4, <1>5 DEF PennyBids
<1> HIDE DEF new
<1>8. bids' \subseteq PennyBids /\ placedBids' \in Nat
  BY <1>3, <1>6, <1>7
<1>9. \A b \in bids : b.by = "bot" /\ b.sure => ~Conflict(new, b) /\ ~Conflict(b, new)
  <2> SUFFICES ASSUME NEW b \in bids, b.by = "bot", b.sure
               PROVE  ~Conflict(new, b) /\ ~Conflict(b, new)
    OBVIOUS
  <2>1. b \in bot.snap.bids \/ [key |-> b.key, price |-> b.price] \in bot.pending
    BY <1>2 DEF PennyInv, SnapshotsCover
  <2> QED
    BY <1>3, <1>4, <1>7, <2>1, ChecksSuffice
<1>10. ~Conflict(new, new)
  BY DEF Conflict
<1>11. BotArbsExplained'
  <2> SUFFICES ASSUME NEW y \in bids', NEW n \in bids', Conflict(y, n),
                      y.by = "bot", n.by = "bot", y.sure, n.sure
               PROVE  FALSE
    BY <1>8 DEF BotArbsExplained, PennyBids
  <2>1. CASE y \in bids /\ n \in bids
    BY <2>1 DEF PennyInv, BotArbsExplained
  <2>2. CASE y = new \/ n = new
    BY <1>6, <1>9, <1>10, <2>2
  <2> QED
    BY <1>6, <2>1, <2>2
<1>12. CASE answer \in {"raised", "silent"}
  BY <1>1, <1>2, <1>8, <1>11, <1>12, BotSleeps
<1>13. CASE answer \notin {"raised", "silent"}
  <2> DEFINE more == IF heard THEN bot.pending \cup {[key |-> key, price |-> Target(top)]}
                     ELSE bot.pending
  <2>1. bot' = [bot EXCEPT !.rows = bot.rows \ {key}, !.pending = more]
        /\ UNCHANGED <<cache, build>>
    BY <1>1, <1>13 DEF RowDone, heard
  <2>2. more \subseteq [key : Keys, price : 1 .. 99]
    BY <1>3, <1>4
  <2>3. bot.pending \subseteq more
        /\ (heard => [key |-> key, price |-> Target(top)] \in more)
    OBVIOUS
  <2> HIDE DEF more
  <2>4. bot' \in [enabled : BOOLEAN, at : {"asleep", "cycle"}, snap : Snaps,
                  rows : SUBSET Keys, pending : SUBSET [key : Keys, price : 1 .. 99]]
        /\ bot'.at = "cycle" /\ bot'.snap = bot.snap /\ bot'.pending = more
    BY <1>2, <1>3, <2>1, <2>2 DEF PennyShape
  <2>5. PennyShape'
    BY <1>2, <1>8, <2>1, <2>4 DEF PennyInv, PennyShape
  <2>6. SnapshotsCover'
    <3> SUFFICES ASSUME NEW b \in bids', b.by = "bot", b.sure
                 PROVE  b \in bot.snap.bids \/ [key |-> b.key, price |-> b.price] \in more
      BY <2>4 DEF SnapshotsCover
    <3>1. CASE b \in bids
      BY <1>2, <2>3, <3>1 DEF PennyInv, SnapshotsCover
    <3>2. CASE b = new
      BY <1>7, <2>3, <3>2
    <3> QED
      BY <1>6, <3>1, <3>2
  <2>7. JobsShape'
    BY <1>2 DEF PennyInv, JobsShape
  <2> QED
    BY <1>11, <2>5, <2>6, <2>7 DEF PennyInv
<1> QED
  BY <1>12, <1>13

\* The other steps of the bot, and of the snapshots.
LEMMA BotStepsKeep ==
    ASSUME PennyInv,
           BuildStarts \/ BuildGoesOn \/ CycleStarts \/ RowPassed \/ CycleEnds \/ Toggled
    PROVE  PennyInv'
<1>1. PennyShape /\ cache \in Snaps /\ build \in Snaps /\ bids \subseteq PennyBids
      /\ blocked \subseteq PennyMarkets
  BY DEF PennyInv, PennyShape
<1>2. UNCHANGED <<bids, placedBids, blocked, jobs>>
  BY DEF BuildStarts, BuildGoesOn, CycleStarts, RowPassed, CycleEnds, Toggled
<1>3. JobsShape' /\ BotArbsExplained'
  BY <1>2 DEF PennyInv, JobsShape, BotArbsExplained
<1>4. CASE BuildStarts
  <2> DEFINE asleep == bot.at = "asleep"
  <2>1. build' = [at |-> "listed", bids |-> bids, blocked |-> {}, fresh |-> asleep]
        /\ UNCHANGED <<cache, bot>>
    BY <1>4 DEF BuildStarts
  <2>2. asleep \in BOOLEAN
    OBVIOUS
  <2> HIDE DEF asleep
  <2>3. build' \in Snaps /\ build'.bids = bids
    BY <1>1, <2>1, <2>2 DEF Snaps
  <2>4. PennyShape'
    BY <1>2, <2>1, <2>3 DEF PennyInv, PennyShape
  <2>5. SnapshotsCover'
    BY <1>2, <2>1, <2>3 DEF PennyInv, SnapshotsCover
  <2> QED
    BY <1>3, <2>4, <2>5 DEF PennyInv
<1>5. CASE BuildGoesOn
  <2>1. /\ cache' \in {cache, build} /\ UNCHANGED bot
        /\ build' = None \/ build' = [build EXCEPT !.at = "full", !.blocked = blocked]
    BY <1>5 DEF BuildGoesOn
  <2>2. \/ build' = None
        \/ build' \in Snaps /\ build'.bids = build.bids /\ build'.fresh = build.fresh
    BY <1>1, <2>1 DEF Snaps
  <2>3. PennyShape'
    BY <1>1, <1>2, <2>1, <2>2, NothingSeen DEF PennyShape
  <2>4. SnapshotsCover'
    BY <1>2, <2>1, <2>2, NothingSeen DEF PennyInv, SnapshotsCover
  <2> QED
    BY <1>3, <2>3, <2>4 DEF PennyInv
<1>6. CASE CycleStarts
  <2> DEFINE free == {k \in Keys : k[1] \notin cache.blocked}
  <2>1. /\ bot' = [bot EXCEPT !.at = "cycle", !.snap = cache, !.pending = {}, !.rows = free]
        /\ bot.at = "asleep" /\ cache.fresh /\ UNCHANGED <<cache, build>>
    BY <1>6 DEF CycleStarts
  <2>2. free \subseteq Keys
    OBVIOUS
  <2> HIDE DEF free
  <2>3. bot' \in [enabled : BOOLEAN, at : {"asleep", "cycle"}, snap : Snaps,
                  rows : SUBSET Keys, pending : SUBSET [key : Keys, price : 1 .. 99]]
        /\ bot'.at = "cycle" /\ bot'.snap = cache
    BY <1>1, <2>1, <2>2 DEF PennyShape
  <2>4. PennyShape'
    BY <1>2, <2>1, <2>3 DEF PennyInv, PennyShape
  <2>5. SnapshotsCover'
    BY <1>2, <2>1, <2>3 DEF PennyInv, SnapshotsCover
  <2> QED
    BY <1>3, <2>4, <2>5 DEF PennyInv
<1>7. CASE RowPassed \/ Toggled
  <2>1. UNCHANGED <<cache, build>>
        /\ \/ \E key \in bot.rows : bot' = [bot EXCEPT !.rows = @ \ {key}]
           \/ bot' = [bot EXCEPT !.enabled = ~@]
    BY <1>7 DEF RowPassed, RowDone, Toggled
  <2>2. bot' \in [enabled : BOOLEAN, at : {"asleep", "cycle"}, snap : Snaps,
                  rows : SUBSET Keys, pending : SUBSET [key : Keys, price : 1 .. 99]]
        /\ bot'.at = bot.at /\ bot'.snap = bot.snap /\ bot'.pending = bot.pending
    <3> DEFINE Bot == [enabled : BOOLEAN, at : {"asleep", "cycle"}, snap : Snaps,
                       rows : SUBSET Keys, pending : SUBSET [key : Keys, price : 1 .. 99]]
    <3>1. bot \in Bot
      BY <1>1 DEF PennyShape
    <3>2. CASE \E key \in bot.rows : bot' = [bot EXCEPT !.rows = @ \ {key}]
      BY <3>1, <3>2
    <3>3. CASE bot' = [bot EXCEPT !.enabled = ~@]
      BY <3>1, <3>3
    <3> QED
      BY <2>1, <3>2, <3>3
  <2>3. PennyShape'
    BY <1>2, <2>1, <2>2 DEF PennyInv, PennyShape
  <2>4. SnapshotsCover'
    BY <1>2, <2>1, <2>2 DEF PennyInv, SnapshotsCover
  <2> QED
    BY <1>3, <2>3, <2>4 DEF PennyInv
<1>8. CASE CycleEnds
  <2>1. Sleeps /\ placedBids \in Nat
    BY <1>1, <1>8 DEF CycleEnds, PennyShape
  <2> QED
    BY <1>1, <1>2, <1>3, <2>1, BotSleeps
<1> QED
  BY <1>4, <1>5, <1>6, <1>7, <1>8

LEMMA PennySteps == PennyInv /\ [PennyNext]_pennyVars => PennyInv'
<1> SUFFICES ASSUME PennyInv, [PennyNext]_pennyVars
             PROVE  PennyInv'
  OBVIOUS
<1>1. DOMAIN jobs = Actors
  BY DEF PennyInv, JobsShape
<1>2. CASE UNCHANGED pennyVars
  BY <1>2 DEF pennyVars, PennyInv, PennyShape, JobsShape, SnapshotsCover, BotArbsExplained
<1> QED
  BY <1>1, <1>2, RequestsKeep, RowBidKeeps, BotStepsKeep DEF PennyNext

\* Whatever the page's requests and the sweeper do beside its cycles, the bot
\* does not build a losing pair of bids of its own, unless the answer to one of
\* them was lost: _cycle, would_create_arb and get_data of the rewards app, with
\* any number of strikes, rows and orders, any books and any prices moved to.
THEOREM BotMakesNoArbs ==
    PennyInit /\ [][PennyNext]_pennyVars => []BotArbsExplained
<1>1. PennyInv => BotArbsExplained
  BY DEF PennyInv
<1> QED
  BY PennyStarts, PennySteps, <1>1, PTL

-----------------------------------------------------------------------------
(* GrainBot: the grain bot's cycle.                                        *)

IsCycle(c) == c = [at |-> c.at, ids |-> c.ids, quotes |-> c.quotes, new |-> c.new,
                   tries |-> c.tries, then |-> c.then, missed |-> c.missed]

GrainStages == {"top", "clearing", "quoting", "placing", "fills", "hedging", "refreshing",
                "cancelling", "asleep", "failed", "down"}
Endings == {"asleep", "failed", "down"}

GrainShape ==
    /\ IsCycle(cyc)
    /\ cyc.at \in GrainStages
    /\ cyc.at = "cancelling" => cyc.then \in Endings

\* While the cycle clears, an order on the book is still to be cancelled or was
\* missed; from then on it is the cycle's own, or was missed.
OrdersExplained ==
    /\ cyc.at = "clearing" => Ids \subseteq cyc.ids \cup cyc.missed
    /\ cyc.at \notin {"top", "clearing"} => Ids \subseteq cyc.new \cup cyc.missed

GrainInv == GrainShape /\ OrdersExplained

LEMMA CyclesTop == IsCycle(Top) /\ Top.at = "top"
BY DEF Top, IsCycle

LEMMA GrainStarts == GrainInit => GrainInv
BY CyclesTop DEF GrainInit, GrainInv, GrainShape, GrainStages, OrdersExplained

LEMMA OffTakes == \A ids : Off(ids) \subseteq grainBook /\ {o.id : o \in Off(ids)} = Ids \ ids
BY DEF Off, Ids

\* A step past the clearing that keeps what the cycle has placed and missed.
LEMMA CycleGoesOn ==
    ASSUME GrainInv, cyc.at \notin {"top", "clearing"}, Ids' \subseteq Ids,
           GrainShape', cyc'.new = cyc.new, cyc'.missed = cyc.missed, cyc'.at # "clearing"
    PROVE  GrainInv'
BY DEF GrainInv, OrdersExplained

LEMMA GoesTo ==
    ASSUME GrainShape, NEW where \in GrainStages \ {"cancelling"}, Go(where)
    PROVE  /\ GrainShape' /\ cyc'.at = where
           /\ cyc'.new = cyc.new /\ cyc'.missed = cyc.missed
BY DEF GrainShape, IsCycle, Go, Endings

LEMMA CancelsAll ==
    ASSUME GrainShape, NEW ids, NEW then \in Endings, CancelAll(ids, then)
    PROVE  /\ GrainShape' /\ cyc'.at # "clearing"
           /\ cyc'.new = cyc.new /\ cyc'.missed = cyc.missed
<1> DEFINE next == IF ids = {} THEN then ELSE "cancelling"
<1>1. cyc' = [cyc EXCEPT !.at = next, !.ids = ids, !.tries = 0, !.then = then]
  BY DEF CancelAll
<1>2. next \in {"cancelling"} \cup Endings
  OBVIOUS
<1> HIDE DEF next
<1>3. /\ IsCycle(cyc') /\ cyc'.at = next /\ cyc'.then = then
      /\ cyc'.new = cyc.new /\ cyc'.missed = cyc.missed
  BY <1>1 DEF GrainShape, IsCycle
<1> QED
  BY <1>2, <1>3 DEF GrainShape, GrainStages, Endings

LEMMA GrainSteps == GrainInv /\ [GrainNext]_grainVars => GrainInv'
<1> SUFFICES ASSUME GrainInv, [GrainNext]_grainVars
             PROVE  GrainInv'
  OBVIOUS
<1>1. GrainShape /\ IsCycle(cyc)
  BY DEF GrainInv, GrainShape
<1>2. CASE CycleLists
  <2>1. /\ UNCHANGED grainBook
        /\ \/ \E seen \in Listings : cyc' = [Top EXCEPT !.at = "clearing", !.ids = seen,
                                                        !.missed = Ids \ seen]
           \/ cyc' = [Top EXCEPT !.at = "clearing", !.missed = Ids]
    BY <1>2 DEF CycleLists
  <2>2. IsCycle(cyc') /\ cyc'.at = "clearing" /\ Ids \subseteq cyc'.ids \cup cyc'.missed
    <3>1. ASSUME NEW seen, cyc' = [Top EXCEPT !.at = "clearing", !.ids = seen, !.missed = Ids \ seen]
          PROVE  IsCycle(cyc') /\ cyc'.at = "clearing" /\ cyc'.ids = seen /\ cyc'.missed = Ids \ seen
      BY <3>1 DEF Top, IsCycle
    <3>2. ASSUME cyc' = [Top EXCEPT !.at = "clearing", !.missed = Ids]
          PROVE  IsCycle(cyc') /\ cyc'.at = "clearing" /\ cyc'.missed = Ids
      BY <3>2 DEF Top, IsCycle
    <3> QED
      BY <2>1, <3>1, <3>2, ZenonT(60)
  <2>3. Ids' = Ids
    BY <2>1 DEF Ids
  <2> QED
    BY <2>2, <2>3 DEF GrainInv, GrainShape, GrainStages, OrdersExplained
<1>3. CASE ClearOne
  <2> DEFINE id == Min(cyc.ids)
  <2>1. cyc.at = "clearing" /\ Ids \subseteq cyc.ids \cup cyc.missed
    BY <1>3 DEF ClearOne, GrainInv, OrdersExplained
  <2>2. \/ grainBook' = Off({id}) /\ cyc' = [cyc EXCEPT !.ids = @ \ {id}]
        \/ /\ cyc' = [cyc EXCEPT !.ids = @ \ {id}, !.missed = @ \cup {id}]
           /\ UNCHANGED grainBook
    BY <1>3 DEF ClearOne
  <2> HIDE DEF id
  <2>3. CASE grainBook' = Off({id}) /\ cyc' = [cyc EXCEPT !.ids = @ \ {id}]
    <3>1. Ids' = Ids \ {id}
      BY <2>3, OffTakes DEF Ids
    <3>2. /\ IsCycle(cyc') /\ cyc'.at = cyc.at /\ cyc'.ids = cyc.ids \ {id}
          /\ cyc'.missed = cyc.missed
      BY <1>1, <2>3 DEF IsCycle
    <3> QED
      BY <2>1, <3>1, <3>2 DEF GrainInv, GrainShape, GrainStages, OrdersExplained
  <2>4. CASE /\ cyc' = [cyc EXCEPT !.ids = @ \ {id}, !.missed = @ \cup {id}]
             /\ UNCHANGED grainBook
    <3>1. Ids' = Ids
      BY <2>4 DEF Ids
    <3>2. /\ IsCycle(cyc') /\ cyc'.at = cyc.at /\ cyc'.ids = cyc.ids \ {id}
          /\ cyc'.missed = cyc.missed \cup {id}
      BY <1>1, <2>4 DEF IsCycle
    <3> QED
      BY <2>1, <3>1, <3>2 DEF GrainInv, GrainShape, GrainStages, OrdersExplained
  <2> QED
    BY <2>2, <2>3, <2>4
<1>4. CASE Cleared
  <2>1. /\ cyc.at = "clearing" /\ cyc.ids = {} /\ UNCHANGED grainBook
        /\ Go("quoting") \/ Go("asleep")
    BY <1>4 DEF Cleared
  <2>2. GrainShape' /\ cyc'.at \in {"quoting", "asleep"} /\ cyc'.missed = cyc.missed
    BY <1>1, <2>1, GoesTo DEF GrainStages
  <2>3. Ids' = Ids /\ Ids \subseteq cyc.missed
    BY <2>1 DEF Ids, GrainInv, OrdersExplained
  <2> QED
    BY <2>2, <2>3 DEF GrainInv, OrdersExplained
<1>5. CASE Quoting
  <2>1. /\ cyc.at = "quoting" /\ UNCHANGED grainBook
        /\ \E wish : cyc' = [cyc EXCEPT !.at = "placing", !.quotes = wish]
    BY <1>5 DEF Quoting
  <2>2. /\ IsCycle(cyc') /\ cyc'.at = "placing"
        /\ cyc'.new = cyc.new /\ cyc'.missed = cyc.missed
    BY <1>1, <2>1 DEF IsCycle
  <2> QED
    BY <2>1, <2>2, CycleGoesOn DEF GrainShape, GrainStages, Ids
<1>6. CASE PlaceOne
  <2> DEFINE id == issued + 1
  <2>1. cyc.at = "placing" /\ Ids \subseteq cyc.new \cup cyc.missed
    BY <1>6 DEF PlaceOne, GrainInv, OrdersExplained
  <2>2. PICK q \in cyc.quotes :
          LET rest == [cyc EXCEPT !.quotes = @ \ {q}]
          IN  \/ /\ grainBook' = grainBook \cup {[id |-> id, mkt |-> q[1], side |-> q[2]]}
                 /\ \/ cyc' = [rest EXCEPT !.new = @ \cup {id}]
                    \/ cyc' = [rest EXCEPT !.missed = @ \cup {id}]
              \/ cyc' = rest /\ UNCHANGED grainBook
    BY <1>6 DEF PlaceOne
  <2> HIDE DEF id
  <2>3. /\ IsCycle(cyc') /\ cyc'.at = cyc.at
        /\ \/ /\ grainBook' = grainBook \cup {[id |-> id, mkt |-> q[1], side |-> q[2]]}
              /\ cyc'.new \cup cyc'.missed = cyc.new \cup cyc.missed \cup {id}
           \/ UNCHANGED grainBook /\ cyc'.new \cup cyc'.missed = cyc.new \cup cyc.missed
    BY <1>1, <2>2 DEF IsCycle
  <2>4. Ids' \subseteq cyc'.new \cup cyc'.missed
    BY <2>1, <2>3 DEF Ids
  <2> QED
    BY <2>1, <2>3, <2>4 DEF GrainInv, GrainShape, GrainStages, OrdersExplained
<1>7. CASE Placed \/ FillsPolled \/ Hedging
  <2>1. /\ cyc.at \in {"placing", "fills", "hedging"} /\ UNCHANGED grainBook
        /\ Go("fills") \/ Go("hedging") \/ Go("refreshing")
    BY <1>7 DEF Placed, FillsPolled, Hedging
  <2>2. /\ GrainShape' /\ cyc'.at \in {"fills", "hedging", "refreshing"}
        /\ cyc'.new = cyc.new /\ cyc'.missed = cyc.missed
    BY <1>1, <2>1, GoesTo DEF GrainStages
  <2> QED
    BY <2>1, <2>2, CycleGoesOn DEF Ids
<1>8. CASE CycleRaises
  <2>1. /\ cyc.at \in {"quoting", "hedging"} /\ UNCHANGED grainBook
        /\ CancelAll(listed, "failed")
    BY <1>8 DEF CycleRaises
  <2> QED
    BY <1>1, <2>1, CancelsAll, CycleGoesOn DEF Endings, Ids
<1>9. CASE KillCheck
  <2>1. /\ cyc.at = "refreshing" /\ UNCHANGED grainBook
        /\ \/ \E seen : CancelAll(seen, "asleep")
           \/ Go("asleep")
    BY <1>9 DEF KillCheck
  <2>2. /\ GrainShape' /\ cyc'.at # "clearing"
        /\ cyc'.new = cyc.new /\ cyc'.missed = cyc.missed
    BY <1>1, <2>1, CancelsAll, GoesTo DEF Endings, GrainStages
  <2> QED
    BY <2>1, <2>2, CycleGoesOn DEF Ids
<1>10. CASE CancelAttempt
  <2>1. PICK bad \in Attempt(cyc.ids) :
          /\ cyc.at = "cancelling" /\ grainBook' = Off(cyc.ids \ bad)
          /\ cyc' = [cyc EXCEPT !.ids = bad, !.tries = @ + 1]
    BY <1>10 DEF CancelAttempt
  <2>2. Ids' \subseteq Ids
    BY <2>1, OffTakes DEF Ids
  <2>3. /\ IsCycle(cyc') /\ cyc'.at = cyc.at /\ cyc'.then = cyc.then
        /\ cyc'.new = cyc.new /\ cyc'.missed = cyc.missed
    BY <1>1, <2>1 DEF IsCycle
  <2>4. GrainShape'
    BY <1>1, <2>1, <2>3 DEF GrainShape
  <2> QED
    BY <2>1, <2>2, <2>3, <2>4, CycleGoesOn
<1>11. CASE CancelsEnd
  <2>1. cyc.at = "cancelling" /\ Go(cyc.then) /\ UNCHANGED grainBook
    BY <1>11 DEF CancelsEnd
  <2>2. cyc.then \in Endings /\ cyc.then \in GrainStages \ {"cancelling"}
        /\ cyc.then # "clearing"
    BY <1>1, <2>1 DEF GrainShape, Endings, GrainStages
  <2>3. /\ GrainShape' /\ cyc'.at = cyc.then
        /\ cyc'.new = cyc.new /\ cyc'.missed = cyc.missed
    BY <1>1, <2>1, <2>2, GoesTo
  <2> QED
    BY <2>1, <2>2, <2>3, CycleGoesOn DEF Ids
<1>12. CASE NextCycle
  <2>1. cyc.at \in {"asleep", "failed"} /\ UNCHANGED grainBook
        /\ (cyc' = Top \/ CancelAll(listed, "down"))
    BY <1>12 DEF NextCycle
  <2>2. CASE cyc' = Top
    BY <2>2, CyclesTop DEF GrainInv, GrainShape, GrainStages, OrdersExplained
  <2>3. CASE CancelAll(listed, "down")
    BY <1>1, <2>1, <2>3, CancelsAll, CycleGoesOn DEF Endings, Ids
  <2> QED
    BY <2>1, <2>2, <2>3
<1>13. CASE Restarted
  BY <1>13, CyclesTop DEF Restarted, GrainInv, GrainShape, GrainStages, OrdersExplained
<1>14. CASE SignalReceived \/ IbTurns \/ OrderFills \/ UNCHANGED grainVars
  <2>1. UNCHANGED cyc /\ grainBook' \subseteq grainBook
    BY <1>14 DEF SignalReceived, IbTurns, OrderFills, grainVars
  <2>2. Ids' \subseteq Ids
    BY <2>1 DEF Ids
  <2> QED
    BY <2>1, <2>2 DEF GrainInv, GrainShape, OrdersExplained
<1> QED
  BY <1>2, <1>3, <1>4, <1>5, <1>6, <1>7, <1>8, <1>9, <1>10, <1>11, <1>12, <1>13, <1>14
  DEF GrainNext

\* No quote of the grain bot outlives the next cycle unless a request has
\* failed, whatever is filled, killed, interrupted or restarted in between:
\* _cycle and shutdown of deploy/main.py, with any number of markets, orders
\* and fills, and listings and retries of any size.
THEOREM GrainLeavesOnlyFailures == GrainSpec => []LeftoversExplained
<1>1. GrainInv => LeftoversExplained
  BY DEF GrainInv, OrdersExplained, LeftoversExplained
<1> QED
  BY GrainStarts, GrainSteps, <1>1, PTL DEF GrainSpec

-----------------------------------------------------------------------------
(* LipModeQuote: how the earlier LIP bot prices a strike.                  *)

\* Onto the scale, and never beyond a bound on the way.
LEMMA ScaleBounds ==
    ASSUME NEW p \in Int, NEW q \in Int
    PROVE  /\ OnScale(p) \in 1 .. 99
           /\ p <= q => OnScale(p) <= Ceil(1, q)
           /\ q <= p => OnScale(p) >= Floor(99, q)
BY DEF OnScale, Ceil, Floor

\* Prices that are capped stay within the caps when they are clamped, and are not
\* given up for fair values inside the scale.
LEMMA ClampedWithin ==
    ASSUME NEW fair \in 1 .. 99, NEW bid \in Int, NEW ask \in Int, NEW tolerance \in Nat,
           bid <= fair - 1 + tolerance, ask >= fair + 1 - tolerance
    PROVE  LET final == Clamped2(fair, [bid |-> bid, ask |-> ask])
           IN  /\ final.bid \in 1 .. 99 /\ final.ask \in 1 .. 99
               /\ final.bid < final.ask
               /\ final.bid <= Ceil(1, fair - 1 + tolerance)
               /\ final.ask >= Floor(99, fair + 1 - tolerance)
<1> DEFINE p == [bid |-> bid, ask |-> ask]
<1>1. CASE OnScale(bid) < OnScale(ask)
  <2>1. Clamped2(fair, p) = [bid |-> OnScale(bid), ask |-> OnScale(ask)]
    BY <1>1 DEF Clamped2
  <2>2. /\ OnScale(bid) <= Ceil(1, fair - 1 + tolerance)
        /\ OnScale(ask) >= Floor(99, fair + 1 - tolerance)
    BY ScaleBounds
  <2> QED
    BY <1>1, <2>1, <2>2, ScaleBounds
<1>2. CASE ~(OnScale(bid) < OnScale(ask))
  <2>1. Clamped2(fair, p) = [bid |-> OnScale(fair - 1), ask |-> OnScale(fair + 1)]
    BY <1>2 DEF Clamped2
  <2>2. OnScale(fair - 1) < OnScale(fair + 1)
    BY DEF OnScale, Ceil, Floor
  <2>3. /\ OnScale(fair - 1) <= Ceil(1, fair - 1 + tolerance)
        /\ OnScale(fair + 1) >= Floor(99, fair + 1 - tolerance)
    BY ScaleBounds
  <2> QED
    BY <2>1, <2>2, <2>3, ScaleBounds
<1> QED
  BY <1>1, <1>2

\* The natural prices are whole cents, within the caps.
LEMMA NaturalWithin ==
    ASSUME NEW fair \in ModeFairs, NEW bestBid \in ModeBests, NEW bestAsk \in 1 .. 100,
           NEW dist \in Int, NEW crowded \in BOOLEAN
    PROVE  LET bid == Floor(BidWanted(fair, bestBid, dist, crowded), fair - 1 + ModeTolerance)
               ask == Ceil(AskWanted(fair, bestAsk, dist, crowded), fair + 1 - ModeTolerance)
           IN  /\ bid \in Int /\ bid <= fair - 1 + ModeTolerance
               /\ ask \in Int /\ ask >= fair + 1 - ModeTolerance
<1>1. fair \in Int /\ bestBid \in Int /\ bestAsk \in Int /\ ModeTolerance \in Nat
      /\ ModeHalfSpread \in Nat
  BY ModeQuoteAssumption
<1>2. BidWanted(fair, bestBid, dist, crowded) \in Int
  BY <1>1 DEF BidWanted
<1>3. AskWanted(fair, bestAsk, dist, crowded) \in Int
  BY <1>1 DEF AskWanted
<1> QED
  BY <1>1, <1>2, <1>3 DEF Floor, Ceil

\* Anti-spoofing: after a look that refreshes, and without the sticky machine, neither
\* side is posted beyond the fair value by more than the tolerance, in deserts too
\* (_process_single_strike_impl), for any prices, tolerance and distances.
THEOREM RefreshStaysWithin ==
    ModeQuoteInit /\ [][ModeQuoteNext]_modeQuoteVars => []RefreshedWithinTolerance
<1>1. ModeQuoteInit => RefreshedWithinTolerance
  BY DEF ModeQuoteInit, RefreshedWithinTolerance
<1>2. RefreshedWithinTolerance /\ [ModeQuoteNext]_modeQuoteVars => RefreshedWithinTolerance'
  <2> SUFFICES ASSUME RefreshedWithinTolerance, ModeLook
               PROVE  RefreshedWithinTolerance'
    BY DEF ModeQuoteNext, modeQuoteVars, RefreshedWithinTolerance
  <2>1. PICK fair \in ModeFairs, bestBid \in ModeBests, bestNo \in ModeBests,
             toxic \in BOOLEAN, crowded \in BOOLEAN, buried \in BOOLEAN,
             refreshing \in BOOLEAN, asked \in BOOLEAN :
        LET bestAsk == IF bestNo = 0 THEN 100 ELSE 100 - bestNo
            dist == IF toxic THEN MaxDist * ToxicFactor ELSE MaxDist
            natural == Capped(fair, BidWanted(fair, bestBid, dist, crowded),
                                    AskWanted(fair, bestAsk, dist, crowded))
        IN  \E wanted \in Answers(asked, fair, natural) :
            LET final == Clamped2(fair, wanted)  skip == wanted.skip
            IN  /\ look' = [fair |-> fair, refreshed |-> refreshing,
                            machine |-> asked /\ MachineApplies(fair)]
                /\ IF final.bid >= final.ask /\ skip = {}
                   THEN UNCHANGED posted
                   ELSE posted' =
                     [bid |-> IF "bid" \in skip THEN 0
                              ELSE IF refreshing \/ ~BidEarns(bestBid, buried) THEN final.bid
                              ELSE posted.bid,
                      ask |-> IF "ask" \in skip THEN 0
                              ELSE IF refreshing \/ ~AskEarns(bestAsk, buried) THEN final.ask
                              ELSE posted.ask]
    BY DEF ModeLook
  <2> DEFINE bestAsk == IF bestNo = 0 THEN 100 ELSE 100 - bestNo
             dist == IF toxic THEN MaxDist * ToxicFactor ELSE MaxDist
             bid == Floor(BidWanted(fair, bestBid, dist, crowded), fair - 1 + ModeTolerance)
             ask == Ceil(AskWanted(fair, bestAsk, dist, crowded), fair + 1 - ModeTolerance)
             natural == [bid |-> bid, ask |-> ask]
  <2>2. bestAsk \in 1 .. 100 /\ dist \in Int
    BY ModeQuoteAssumption
  <2>3. /\ bid \in Int /\ bid <= fair - 1 + ModeTolerance
        /\ ask \in Int /\ ask >= fair + 1 - ModeTolerance
    BY <2>2, NaturalWithin
  <2> HIDE DEF bid, ask
  <2>4. PICK wanted \in Answers(asked, fair, natural) :
            LET final == Clamped2(fair, wanted)  skip == wanted.skip
            IN  /\ look' = [fair |-> fair, refreshed |-> refreshing,
                            machine |-> asked /\ MachineApplies(fair)]
                /\ IF final.bid >= final.ask /\ skip = {}
                   THEN UNCHANGED posted
                   ELSE posted' =
                     [bid |-> IF "bid" \in skip THEN 0
                              ELSE IF refreshing \/ ~BidEarns(bestBid, buried) THEN final.bid
                              ELSE posted.bid,
                      ask |-> IF "ask" \in skip THEN 0
                              ELSE IF refreshing \/ ~AskEarns(bestAsk, buried) THEN final.ask
                              ELSE posted.ask]
    BY <2>1 DEF Capped, bid, ask
  <2> HIDE DEF bestAsk, dist
  <2>5. SUFFICES ASSUME refreshing, ~(asked /\ MachineApplies(fair)), fair \in 1 .. 99
                 PROVE  /\ posted'.bid <= Ceil(1, fair - 1 + ModeTolerance)
                        /\ posted'.ask >= Floor(99, fair + 1 - ModeTolerance)
    BY <2>4 DEF RefreshedWithinTolerance
  <2>6. wanted = [bid |-> bid, ask |-> ask, skip |-> {}]
    BY <2>4, <2>5 DEF Answers
  <2>7. wanted.skip = {} /\ Clamped2(fair, wanted) = Clamped2(fair, natural)
    BY <2>6 DEF Clamped2
  <2> DEFINE final == Clamped2(fair, natural)
  <2>8. /\ final.bid \in 1 .. 99 /\ final.ask \in 1 .. 99
        /\ final.bid < final.ask
        /\ final.bid <= Ceil(1, fair - 1 + ModeTolerance)
        /\ final.ask >= Floor(99, fair + 1 - ModeTolerance)
    BY <2>3, <2>5, ModeQuoteAssumption, ClampedWithin
  <2> HIDE DEF final
  <2>9. posted'.bid = final.bid /\ posted'.ask = final.ask
    BY <2>4, <2>5, <2>7, <2>8, SMTT(30) DEF final
  <2> QED
    BY <2>8, <2>9
<1> QED
  BY <1>1, <1>2, PTL

-----------------------------------------------------------------------------
(* KalshiWs: the websocket client's subscriptions.                         *)

Subscriptions == [channel : Channels, sid : Nat]
WsStages == {"fresh", "subscribing", "resubscribing", "looping", "waiting", "failed", "closed"}

WsShape ==
    /\ feedAt \in WsStages
    /\ todo \in Seq(Channels)
    /\ subs \in Seq(Subscriptions)
    /\ serves \in Seq(Channels \cup {"nothing"})
    /\ cutShort \in BOOLEAN
    /\ dropped \subseteq Channels

\* What the client holds about its subscriptions: each is the server's under its
\* sid, none is held twice, and none that a handler has dropped.
SubsKnown ==
    /\ \A i \in 1 .. Len(subs) :
         /\ subs[i].sid \in 1 .. Len(serves)
         /\ serves[subs[i].sid] = subs[i].channel
         /\ subs[i].channel \notin dropped
    /\ \A i, j \in 1 .. Len(subs) :
         subs[i].sid = subs[j].sid \/ subs[i].channel = subs[j].channel => i = j

\* What is still to be asked for is asked for once, and is not held yet.
TodoApart ==
    /\ \A i \in 1 .. Len(todo) :
         todo[i] \notin dropped /\ \A j \in 1 .. Len(subs) : subs[j].channel # todo[i]
    /\ \A i, j \in 1 .. Len(todo) : todo[i] = todo[j] => i = j

\* Between them they are all that was asked for and not dropped.
Wanted(c) ==
    \/ \E i \in 1 .. Len(subs) : subs[i].channel = c
    \/ \E i \in 1 .. Len(todo) : todo[i] = c

\* SubscriptionsKept speaks of the loop only: what a connection starts with is what
\* the one before it held, and what the caller's own calls have still to come to.
WsInv ==
    /\ WsShape /\ SubsKnown /\ TodoApart
    /\ feedAt = "fresh" => subs = <<>> /\ dropped = {} /\ ~cutShort
    /\ feedAt \in {"subscribing", "resubscribing"} => todo # <<>>
    /\ feedAt \in {"fresh", "looping", "waiting"} => todo = <<>>
    /\ feedAt \in {"subscribing", "resubscribing", "looping", "waiting"} /\ ~cutShort
         => \A c \in Channels : c \notin dropped => Wanted(c)

\* A list without one of its elements.
LEMMA Without ==
    ASSUME NEW S, NEW s \in Seq(S), NEW i \in 1 .. Len(s)
    PROVE  /\ RemoveAt(s, i) \in Seq(S)
           /\ Len(RemoveAt(s, i)) = Len(s) - 1
           /\ \A j \in 1 .. Len(s) - 1 :
                RemoveAt(s, i)[j] = IF j < i THEN s[j] ELSE s[j + 1]
<1> DEFINE before == SubSeq(s, 1, i - 1)
           after == SubSeq(s, i + 1, Len(s))
<1>1. Len(s) \in Nat /\ s \in [1 .. Len(s) -> S]
  BY LenProperties
<1>2. /\ before \in Seq(S) /\ Len(before) = i - 1
      /\ \A j \in 1 .. i - 1 : before[j] = s[j]
  <2>1. \A j \in 1 .. i - 1 : s[j] \in S
    BY <1>1
  <2>2. /\ before \in Seq(S)
        /\ Len(before) = IF 1 <= i - 1 THEN (i - 1) - 1 + 1 ELSE 0
        /\ \A j \in 1 .. (i - 1) - 1 + 1 : before[j] = s[1 + j - 1]
    BY <2>1, SubSeqProperties
  <2> HIDE DEF before
  <2>3. (i - 1) - 1 + 1 = i - 1 /\ \A j \in 1 .. i - 1 : 1 + j - 1 = j
    OBVIOUS
  <2> QED
    BY <1>1, <2>2, <2>3
<1>3. /\ after \in Seq(S) /\ Len(after) = Len(s) - i
      /\ \A j \in 1 .. Len(s) - i : after[j] = s[i + j]
  <2>1. \A j \in i + 1 .. Len(s) : s[j] \in S
    BY <1>1
  <2>2. /\ after \in Seq(S)
        /\ Len(after) = IF i + 1 <= Len(s) THEN Len(s) - (i + 1) + 1 ELSE 0
        /\ \A j \in 1 .. Len(s) - (i + 1) + 1 : after[j] = s[(i + 1) + j - 1]
    BY <1>1, <2>1, SubSeqProperties
  <2> HIDE DEF after
  <2>3. Len(s) - (i + 1) + 1 = Len(s) - i /\ \A j \in 1 .. Len(s) - i : (i + 1) + j - 1 = i + j
    BY <1>1
  <2>4. CASE i + 1 <= Len(s)
    BY <1>1, <2>2, <2>3, <2>4
  <2>5. CASE ~(i + 1 <= Len(s))
    <3>0. Len(s) \in Nat /\ i \in Nat /\ i <= Len(s)
      BY <1>1
    <3> HIDE DEF after
    <3>1. Len(s) - i = 0
      BY <2>5, <3>0
    <3>2. Len(after) = 0
      BY <2>2, <2>5
    <3>3. \A j \in 1 .. Len(s) - i : FALSE
      BY <3>1
    <3> QED
      BY <2>2, <3>1, <3>2, <3>3
  <2> QED
    BY <2>4, <2>5
<1>4. RemoveAt(s, i) = before \o after
  BY DEF RemoveAt
<1> HIDE DEF before, after
<1>5. /\ before \o after \in Seq(S)
      /\ Len(before \o after) = Len(before) + Len(after)
      /\ \A j \in 1 .. Len(before) + Len(after) :
           (before \o after)[j] = IF j <= Len(before) THEN before[j] ELSE after[j - Len(before)]
  BY <1>2, <1>3, ConcatProperties
<1>6. ASSUME NEW j \in 1 .. Len(s) - 1
      PROVE  (before \o after)[j] = IF j < i THEN s[j] ELSE s[j + 1]
  <2>1. j \in 1 .. Len(before) + Len(after)
    BY <1>1, <1>2, <1>3
  <2>2. CASE j < i
    BY <1>2, <1>5, <2>1, <2>2
  <2>3. CASE ~(j < i)
    <3>1. j - (i - 1) \in 1 .. Len(s) - i /\ i + (j - (i - 1)) = j + 1 /\ ~(j <= i - 1)
      BY <1>1, <2>3
    <3>2. (before \o after)[j] = after[j - (i - 1)]
      BY <1>2, <1>5, <2>1, <3>1
    <3>3. after[j - (i - 1)] = s[i + (j - (i - 1))]
      BY <1>3, <3>1
    <3> QED
      BY <2>3, <3>1, <3>2, <3>3
  <2> QED
    BY <2>2, <2>3
<1> QED
  BY <1>1, <1>2, <1>3, <1>4, <1>5, <1>6

LEMMA ChannelsListed ==
    /\ WantedChannels \in Seq(Channels)
    /\ \A c \in Channels : \E i \in 1 .. Len(WantedChannels) : WantedChannels[i] = c
    /\ \A i, j \in 1 .. Len(WantedChannels) :
         WantedChannels[i] = WantedChannels[j] => i = j
BY WsAssumption DEF Channels, ToSet

LEMMA SubsTyped ==
    ASSUME WsInv
    PROVE  /\ Len(subs) \in Nat /\ DOMAIN subs = 1 .. Len(subs)
           /\ \A i \in 1 .. Len(subs) : subs[i].channel \in Channels /\ subs[i].sid \in Nat
<1>1. subs \in Seq(Subscriptions)
  BY DEF WsInv, WsShape
<1>2. /\ Len(subs) \in Nat /\ DOMAIN subs = 1 .. Len(subs)
      /\ subs \in [1 .. Len(subs) -> Subscriptions]
  BY <1>1, LenProperties
<1>3. \A s \in Subscriptions : s.channel \in Channels /\ s.sid \in Nat
  BY DEF Subscriptions
<1> QED
  BY <1>2, <1>3

LEMMA WsStarts == WsInit => WsInv
<1> SUFFICES ASSUME WsInit PROVE WsInv
  OBVIOUS
<1>1. Len(<<>>) = 0 /\ \A S : <<>> \in Seq(S)
  OBVIOUS
<1>2. WsShape
  BY <1>1 DEF WsInit, WsShape, WsStages
<1> QED
  BY <1>1, <1>2 DEF WsInit, WsInv, SubsKnown, TodoApart

\* A connection with nothing subscribed on it yet, and these channels to ask for.
LEMMA ConnectedRight ==
    ASSUME WsInv, NEW channels \in Seq(Channels), NEW then \in {"subscribing", "resubscribing"},
           Connected(channels, then), subs' = <<>>, UNCHANGED <<dropped, cutShort>>,
           \A i, j \in 1 .. Len(channels) : channels[i] = channels[j] => i = j,
           \A i \in 1 .. Len(channels) : channels[i] \notin dropped,
           ~cutShort => \A c \in Channels :
             c \notin dropped => \E i \in 1 .. Len(channels) : channels[i] = c
    PROVE  WsInv'
<1>1. /\ serves' = <<>> /\ todo' = channels
      /\ feedAt' = IF channels = <<>> THEN "looping" ELSE then
  BY DEF Connected
<1>2. Len(<<>>) = 0 /\ \A S : <<>> \in Seq(S)
  OBVIOUS
<1>3. WsShape'
  BY <1>1, <1>2 DEF WsInv, WsShape, WsStages
<1>4. SubsKnown' /\ TodoApart'
  BY <1>1, <1>2 DEF SubsKnown, TodoApart
<1>5. ~cutShort' => \A c \in Channels : c \notin dropped' => Wanted(c)'
  BY <1>1 DEF Wanted
<1>6. /\ feedAt' # "fresh"
      /\ feedAt' \in {"subscribing", "resubscribing"} => todo' # <<>>
      /\ feedAt' \in {"looping", "waiting"} => todo' = <<>>
  BY <1>1
<1> QED
  BY <1>3, <1>4, <1>5, <1>6 DEF WsInv

LEMMA FirstConnectRight == WsInv /\ FirstConnect => WsInv'
<1> SUFFICES ASSUME WsInv, FirstConnect PROVE WsInv'
  OBVIOUS
<1>1. /\ Connected(WantedChannels, "subscribing")
      /\ subs' = <<>> /\ UNCHANGED <<dropped, cutShort>> /\ dropped = {}
  BY DEF FirstConnect, WsInv
<1> QED
  BY <1>1, ChannelsListed, ConnectedRight

LEMMA ReconnectRight == WsInv /\ Reconnect => WsInv'
<1> SUFFICES ASSUME WsInv, Reconnect PROVE WsInv'
  OBVIOUS
<1>1. /\ Connected(Retracked, "resubscribing") /\ feedAt = "waiting"
      /\ subs' = <<>> /\ UNCHANGED <<dropped, cutShort>>
  BY DEF Reconnect
<1>2. /\ Len(subs) \in Nat /\ DOMAIN subs = 1 .. Len(subs)
      /\ \A i \in 1 .. Len(subs) : subs[i].channel \in Channels
  BY SubsTyped
<1>3. /\ Retracked \in Seq(Channels) /\ Len(Retracked) = Len(subs)
      /\ \A i \in 1 .. Len(subs) : Retracked[i] = subs[i].channel
  BY <1>2 DEF Retracked
<1>4. todo = <<>> /\ Len(<<>>) = 0
  BY <1>1 DEF WsInv
<1>5. ~cutShort => \A c \in Channels :
        c \notin dropped => \E i \in 1 .. Len(Retracked) : Retracked[i] = c
  BY <1>1, <1>3, <1>4 DEF WsInv, Wanted
<1>6. /\ \A i, j \in 1 .. Len(Retracked) : Retracked[i] = Retracked[j] => i = j
      /\ \A i \in 1 .. Len(Retracked) : Retracked[i] \notin dropped
  BY <1>3 DEF WsInv, SubsKnown
<1> QED
  BY <1>1, <1>3, <1>5, <1>6, ConnectedRight

LEMMA ConfirmedRight == WsInv /\ Confirmed => WsInv'
<1> SUFFICES ASSUME WsInv, Confirmed PROVE WsInv'
  OBVIOUS
<1> DEFINE n == Len(subs)
           m == Len(serves)
           c == Head(todo)
           sub == [channel |-> c, sid |-> Len(serves')]
<1>1. /\ feedAt \in {"subscribing", "resubscribing"} /\ todo # <<>>
      /\ serves' = Append(serves, c) /\ subs' = Append(subs, sub) /\ todo' = Tail(todo)
      /\ IF todo' = <<>> THEN feedAt' = "looping" ELSE feedAt' = feedAt
      /\ UNCHANGED <<dropped, cutShort>>
  BY DEF Confirmed, Asking, WsInv
<1>2. /\ n \in Nat /\ m \in Nat /\ Len(todo) \in Nat /\ Len(todo) >= 1
      /\ c \in Channels /\ c = todo[1]
  BY <1>1, LenProperties DEF WsInv, WsShape
<1>3. /\ todo' \in Seq(Channels) /\ Len(todo') = Len(todo) - 1
      /\ \A i \in 1 .. Len(todo') : todo'[i] = todo[i + 1]
  BY <1>1, HeadTailProperties DEF WsInv, WsShape
<1>4. /\ serves' \in Seq(Channels \cup {"nothing"}) /\ Len(serves') = m + 1
      /\ serves'[m + 1] = c /\ \A i \in 1 .. m : serves'[i] = serves[i]
  BY <1>1, <1>2, AppendProperties DEF WsInv, WsShape
<1>5. /\ sub \in Subscriptions /\ sub.channel = c /\ sub.sid = m + 1
  BY <1>2, <1>4 DEF Subscriptions
<1> HIDE DEF sub
<1>6. /\ subs' \in Seq(Subscriptions) /\ Len(subs') = n + 1
      /\ subs'[n + 1] = sub /\ \A i \in 1 .. n : subs'[i] = subs[i]
  BY <1>1, <1>2, <1>5, AppendProperties DEF WsInv, WsShape
<1> HIDE DEF c, n, m
<1>7. \A i \in 1 .. n : subs[i].sid \in 1 .. m /\ subs[i].channel # c
  BY <1>2 DEF WsInv, SubsKnown, TodoApart, n, m
<1>8. SubsKnown'
  <2>1. ASSUME NEW i \in 1 .. n + 1
        PROVE  /\ subs'[i].sid \in 1 .. m + 1
               /\ serves'[subs'[i].sid] = subs'[i].channel
               /\ subs'[i].channel \notin dropped
    <3>1. CASE i = n + 1
      <4>1. c \notin dropped
        BY <1>2 DEF WsInv, TodoApart
      <4> QED
        BY <1>2, <1>4, <1>5, <1>6, <3>1, <4>1
    <3>2. CASE i \in 1 .. n
      <4>1. subs'[i] = subs[i] /\ subs[i].sid \in 1 .. m
        BY <1>6, <1>7, <3>2
      <4>2. serves[subs[i].sid] = subs[i].channel /\ subs[i].channel \notin dropped
        BY <3>2 DEF WsInv, SubsKnown, n
      <4> QED
        BY <1>2, <1>4, <4>1, <4>2
    <3> QED
      BY <1>2, <3>1, <3>2
  <2>2. ASSUME NEW i \in 1 .. n + 1, NEW j \in 1 .. n + 1,
               subs'[i].sid = subs'[j].sid \/ subs'[i].channel = subs'[j].channel
        PROVE  i = j
    <3>1. CASE i \in 1 .. n /\ j \in 1 .. n
      BY <1>6, <2>2, <3>1 DEF WsInv, SubsKnown, n
    <3>2. CASE ~(i \in 1 .. n /\ j \in 1 .. n)
      BY <1>2, <1>5, <1>6, <1>7, <2>2, <3>2
    <3> QED
      BY <3>1, <3>2
  <2> QED
    BY <1>1, <1>4, <1>6, <2>1, <2>2 DEF SubsKnown
<1>9. TodoApart'
  <2>1. \A i \in 1 .. Len(todo') : i + 1 \in 1 .. Len(todo) /\ todo'[i] # c
    BY <1>2, <1>3 DEF WsInv, TodoApart
  <2>2. \A i \in 1 .. Len(todo') :
          todo'[i] \notin dropped /\ \A j \in 1 .. n : subs[j].channel # todo'[i]
    BY <1>3, <2>1 DEF WsInv, TodoApart, n
  <2>3. \A i, j \in 1 .. Len(todo') : todo'[i] = todo'[j] => i + 1 = j + 1
    BY <1>3, <2>1 DEF WsInv, TodoApart
  <2>4. \A i \in 1 .. Len(todo'), j \in 1 .. n + 1 : subs'[j].channel # todo'[i]
    <3> SUFFICES ASSUME NEW i \in 1 .. Len(todo'), NEW j \in 1 .. n + 1
                 PROVE  subs'[j].channel # todo'[i]
      OBVIOUS
    <3>1. CASE j = n + 1
      BY <1>5, <1>6, <2>1, <3>1
    <3>2. CASE j \in 1 .. n
      BY <1>6, <2>2, <3>2
    <3> QED
      BY <1>2, <3>1, <3>2
  <2>5. \A i, j \in 1 .. Len(todo') : todo'[i] = todo'[j] => i = j
    BY <1>2, <1>3, <2>3
  <2> HIDE DEF n
  <2> QED
    BY <1>1, <1>6, <2>2, <2>4, <2>5 DEF TodoApart
<1>10. ASSUME ~cutShort, NEW d \in Channels, d \notin dropped
       PROVE  Wanted(d)'
  <2>1. CASE \E i \in 1 .. n : subs[i].channel = d
    <3>1. PICK i \in 1 .. n : subs[i].channel = d
      BY <2>1
    <3>2. i \in 1 .. n + 1
      BY <1>2
    <3> QED
      BY <1>6, <3>1, <3>2 DEF Wanted
  <2>2. CASE d = c
    <3>1. n + 1 \in 1 .. n + 1
      BY <1>2
    <3> QED
      BY <1>5, <1>6, <2>2, <3>1 DEF Wanted
  <2>3. CASE \E i \in 1 .. Len(todo) : todo[i] = d /\ i # 1
    <3>1. PICK i \in 1 .. Len(todo) : todo[i] = d /\ i # 1
      BY <2>3
    <3>2. i - 1 \in 1 .. Len(todo') /\ (i - 1) + 1 = i
      BY <1>2, <1>3, <3>1
    <3> QED
      BY <1>3, <3>1, <3>2 DEF Wanted
  <2> QED
    BY <1>1, <1>2, <1>10, <2>1, <2>2, <2>3 DEF WsInv, Wanted, n
<1>11. WsShape'
  BY <1>1, <1>3, <1>4, <1>6 DEF WsInv, WsShape, WsStages
<1>12. /\ feedAt' # "fresh"
       /\ feedAt' \in {"subscribing", "resubscribing"} => todo' # <<>>
       /\ feedAt' \in {"looping", "waiting"} => todo' = <<>>
  BY <1>1
<1> QED
  BY <1>1, <1>8, <1>9, <1>10, <1>11, <1>12 DEF WsInv

\* The client knows what it knew, and asks for nothing: a step that is not a
\* connection, an answer or a handler's.
LEMMA NothingAsked ==
    ASSUME WsInv, UNCHANGED <<subs, serves, dropped, todo>>,
           feedAt' \in {"looping", "waiting", "failed", "closed"}, cutShort' \in BOOLEAN,
           feedAt' \in {"looping", "waiting"} /\ ~cutShort' =>
             feedAt \in {"looping", "waiting"} /\ ~cutShort,
           feedAt' \in {"looping", "waiting"} => todo = <<>>
    PROVE  WsInv'
<1>2. WsShape'
  BY DEF WsInv, WsShape, WsStages
<1>3. SubsKnown' /\ TodoApart'
  BY DEF WsInv, SubsKnown, TodoApart
<1>4. feedAt' \in {"looping", "waiting"} /\ ~cutShort'
        => \A c \in Channels : c \notin dropped' => Wanted(c)'
  BY DEF WsInv, Wanted
<1>5. feedAt' # "fresh" /\ ~(feedAt' \in {"subscribing", "resubscribing"})
  OBVIOUS
<1> QED
  BY <1>2, <1>3, <1>4, <1>5 DEF WsInv

LEMMA SubscribeFailsRight == WsInv /\ SubscribeFails => WsInv'
<1> SUFFICES ASSUME WsInv, SubscribeFails PROVE WsInv'
  OBVIOUS
<1>1. /\ todo # <<>> /\ todo' = <<>> /\ UNCHANGED <<subs, dropped>>
      /\ serves' \in {serves, Append(serves, Head(todo))}
      /\ \/ feedAt' = "failed" /\ cutShort' = cutShort
         \/ feedAt' \in {"waiting", "failed"} /\ cutShort' = TRUE
  BY DEF SubscribeFails, WsInv, Asking, TurnOver
<1>2. Len(serves) \in Nat /\ Head(todo) \in Channels
  BY <1>1, LenProperties, HeadTailProperties DEF WsInv, WsShape
<1>3. /\ serves' \in Seq(Channels \cup {"nothing"}) /\ Len(serves') >= Len(serves)
      /\ Len(serves') \in Nat
      /\ \A i \in 1 .. Len(serves) : serves'[i] = serves[i]
  <2>1. CASE serves' = serves
    BY <1>2, <2>1 DEF WsInv, WsShape
  <2>2. CASE serves' = Append(serves, Head(todo))
    BY <1>2, <2>2, AppendProperties DEF WsInv, WsShape
  <2> QED
    BY <1>1, <2>1, <2>2
<1>4. Len(<<>>) = 0 /\ \A S : <<>> \in Seq(S)
  OBVIOUS
<1>5. WsShape'
  BY <1>1, <1>3, <1>4 DEF WsInv, WsShape, WsStages
<1>6. SubsKnown'
  <2>1. \A i \in 1 .. Len(subs) : /\ subs[i].sid \in 1 .. Len(serves)
                                  /\ serves[subs[i].sid] = subs[i].channel
                                  /\ subs[i].channel \notin dropped
    BY DEF WsInv, SubsKnown
  <2>2. \A i \in 1 .. Len(subs) : /\ subs[i].sid \in 1 .. Len(serves')
                                  /\ serves'[subs[i].sid] = subs[i].channel
    BY <1>2, <1>3, <2>1
  <2> QED
    BY <1>1, <2>1, <2>2 DEF WsInv, SubsKnown
<1>7. TodoApart'
  BY <1>1, <1>4 DEF TodoApart
<1>8. /\ feedAt' \in {"waiting", "failed"}
      /\ ~(feedAt' \in {"waiting"} /\ ~cutShort')
  BY <1>1
<1> QED
  BY <1>1, <1>5, <1>6, <1>7, <1>8 DEF WsInv

LEMMA UnsubscribeRight ==
    ASSUME WsInv, NEW i \in DOMAIN subs, Unsubscribe(i)
    PROVE  WsInv'
<1> DEFINE n == Len(subs)
           sid == subs[i].sid
           gone == subs[i].channel
<1>1. /\ feedAt' = feedAt /\ todo' = todo /\ cutShort' = cutShort
      /\ feedAt \in {"looping", "subscribing", "resubscribing"}
      /\ dropped' = dropped \cup {gone}
      /\ serves' = [serves EXCEPT ![sid] = "nothing"]
      /\ subs' = RemoveAt(subs, i)
  BY DEF Unsubscribe, Asking
<1>2. n \in Nat /\ i \in 1 .. n /\ gone \in Channels /\ sid \in 1 .. Len(serves)
  BY SubsTyped DEF WsInv, SubsKnown
<1>3. /\ subs' \in Seq(Subscriptions) /\ Len(subs') = n - 1
      /\ \A j \in 1 .. n - 1 : subs'[j] = IF j < i THEN subs[j] ELSE subs[j + 1]
  BY <1>1, <1>2, Without DEF WsInv, WsShape
<1>4. \A j \in 1 .. n - 1 : \E k \in 1 .. n : /\ k # i /\ subs'[j] = subs[k]
                                             /\ k = IF j < i THEN j ELSE j + 1
  BY <1>2, <1>3
<1>5. /\ serves' \in Seq(Channels \cup {"nothing"}) /\ Len(serves') = Len(serves)
      /\ \A k \in 1 .. Len(serves) : k # sid => serves'[k] = serves[k]
  BY <1>1, <1>2, ExceptSeq DEF WsInv, WsShape
<1>6. WsShape'
  BY <1>1, <1>2, <1>3, <1>5 DEF WsInv, WsShape
<1>7. \A k \in 1 .. n : k # i => /\ subs[k].sid # sid /\ subs[k].channel # gone
                                /\ subs[k].sid \in 1 .. Len(serves)
                                /\ serves[subs[k].sid] = subs[k].channel
                                /\ subs[k].channel \notin dropped
  BY <1>2 DEF WsInv, SubsKnown
<1> HIDE DEF sid, gone
<1>8. SubsKnown'
  <2>1. ASSUME NEW j \in 1 .. n - 1
        PROVE  /\ subs'[j].sid \in 1 .. Len(serves)
               /\ serves'[subs'[j].sid] = subs'[j].channel
               /\ subs'[j].channel \notin dropped'
    <3>1. PICK k \in 1 .. n : k # i /\ subs'[j] = subs[k]
      BY <1>4
    <3> QED
      BY <1>1, <1>5, <1>7, <3>1
  <2>2. ASSUME NEW j \in 1 .. n - 1, NEW l \in 1 .. n - 1,
               subs'[j].sid = subs'[l].sid \/ subs'[j].channel = subs'[l].channel
        PROVE  j = l
    <3>1. PICK k \in 1 .. n : subs'[j] = subs[k] /\ k = IF j < i THEN j ELSE j + 1
      BY <1>4
    <3>2. PICK h \in 1 .. n : subs'[l] = subs[h] /\ h = IF l < i THEN l ELSE l + 1
      BY <1>4
    <3>3. k = h
      BY <2>2, <3>1, <3>2 DEF WsInv, SubsKnown
    <3>4. (k = IF j < i THEN j ELSE j + 1) /\ (k = IF l < i THEN l ELSE l + 1)
      BY <3>1, <3>2, <3>3
    <3> QED
      BY <1>2, <3>4
  <2> QED
    BY <1>3, <1>5, <2>1, <2>2 DEF SubsKnown
<1>9. TodoApart'
  <2>1. \A k \in 1 .. Len(todo) : todo[k] # gone
    BY <1>2 DEF WsInv, TodoApart, gone
  <2>2. \A k \in 1 .. Len(todo), j \in 1 .. n - 1 : subs'[j].channel # todo[k]
    BY <1>4, SMTT(30) DEF WsInv, TodoApart
  <2> QED
    BY <1>1, <1>3, <2>1, <2>2 DEF WsInv, TodoApart
<1>10. ASSUME ~cutShort, NEW c \in Channels, c \notin dropped'
       PROVE  Wanted(c)'
  <2>1. c # gone /\ c \notin dropped
    BY <1>1, <1>10
  <2>2. CASE \E k \in 1 .. Len(todo) : todo[k] = c
    BY <1>1, <2>2 DEF Wanted
  <2>3. CASE \E k \in 1 .. n : subs[k].channel = c
    <3>1. PICK k \in 1 .. n : subs[k].channel = c
      BY <2>3
    <3>2. k # i
      BY <2>1, <3>1 DEF gone
    <3>3. CASE k < i
      <4>1. k \in 1 .. n - 1
        BY <1>2, <3>3
      <4> QED
        BY <1>3, <3>1, <3>3, <4>1 DEF Wanted
    <3>4. CASE k > i
      <4>1. k - 1 \in 1 .. n - 1 /\ ~(k - 1 < i) /\ (k - 1) + 1 = k
        BY <1>2, <3>4
      <4> QED
        BY <1>3, <3>1, <4>1 DEF Wanted
    <3> QED
      BY <1>2, <3>2, <3>3, <3>4
  <2> QED
    BY <1>1, <1>10, <2>1, <2>2, <2>3 DEF WsInv, Wanted, n
<1> QED
  BY <1>1, <1>6, <1>8, <1>9, <1>10 DEF WsInv

\* Under each sid the client receives the channel it believes, and it is subscribed
\* to what it was asked for and has not dropped, unless a resubscription was cut
\* short, however often the connection is made anew (KalshiWebSocket.subscribe,
\* unsubscribe, run_forever, _resubscribe_all).
THEOREM FeedKeepsItsSubscriptions == WsInit /\ [][WsNext]_wsVars => []SubscriptionsKept
<1>1. WsInv /\ [WsNext]_wsVars => WsInv'
  <2> SUFFICES ASSUME WsInv, [WsNext]_wsVars PROVE WsInv'
    OBVIOUS
  <2>1. CASE FirstConnect
    BY <2>1, FirstConnectRight
  <2>2. CASE Reconnect
    BY <2>2, ReconnectRight
  <2>3. CASE ConnectFails
    <3>1. todo = <<>> /\ todo' = todo /\ feedAt' \in {"waiting", "failed"} /\ feedAt = "waiting"
          /\ UNCHANGED <<subs, serves, dropped>> /\ cutShort' = cutShort /\ cutShort \in BOOLEAN
      BY <2>3 DEF ConnectFails, TurnOver, WsInv, WsShape
    <3> QED
      BY <3>1, NothingAsked
  <2>4. CASE Confirmed
    BY <2>4, ConfirmedRight
  <2>5. CASE SubscribeFails
    BY <2>5, SubscribeFailsRight
  <2>6. CASE Refused
    <3>1. feedAt' = "failed" /\ UNCHANGED <<todo, subs, serves, dropped>>
          /\ cutShort' \in BOOLEAN
      BY <2>6 DEF Refused
    <3> QED
      BY <3>1, NothingAsked
  <2>7. CASE LoopEnds
    <3>1. todo = <<>> /\ todo' = todo /\ feedAt' \in {"waiting", "failed"} /\ feedAt = "looping"
          /\ UNCHANGED <<subs, serves, dropped>> /\ cutShort' = cutShort /\ cutShort \in BOOLEAN
      BY <2>7 DEF LoopEnds, TurnOver, WsInv, WsShape
    <3> QED
      BY <3>1, NothingAsked
  <2>8. CASE \E i \in DOMAIN subs : Unsubscribe(i)
    BY <2>8, UnsubscribeRight
  <2>9. CASE CloseFeed
    <3>1. feedAt' = "closed" /\ UNCHANGED <<todo, subs, serves, dropped>>
          /\ cutShort' \in BOOLEAN
      BY <2>9 DEF CloseFeed
    <3> QED
      BY <3>1, NothingAsked
  <2>10. CASE UNCHANGED wsVars
    BY <2>10 DEF wsVars, WsInv, WsShape, SubsKnown, TodoApart, Wanted
  <2> QED
    BY <2>1, <2>2, <2>3, <2>4, <2>5, <2>6, <2>7, <2>8, <2>9, <2>10 DEF WsNext
<1>2. WsInv => SubscriptionsKept
  <2> SUFFICES ASSUME WsInv PROVE SubscriptionsKept
    OBVIOUS
  <2>1. DOMAIN subs = 1 .. Len(subs) /\ Len(<<>>) = 0
    BY SubsTyped
  <2>2. \A i \in DOMAIN subs : /\ serves[subs[i].sid] = subs[i].channel
                               /\ subs[i].channel \in Channels \ dropped
    BY <2>1, SubsTyped DEF WsInv, SubsKnown
  <2>3. ASSUME feedAt = "looping", ~cutShort
        PROVE  Tracked = Channels \ dropped
    <3>1. todo = <<>>
      BY <2>3 DEF WsInv
    <3>2. \A c \in Channels \ dropped : \E i \in DOMAIN subs : subs[i].channel = c
      BY <2>1, <2>3, <3>1 DEF WsInv, Wanted
    <3> QED
      BY <2>2, <3>2 DEF Tracked
  <2> QED
    BY <2>2, <2>3 DEF SubscriptionsKept
<1> QED
  BY <1>1, <1>2, WsStarts, PTL


-----------------------------------------------------------------------------
(* PositionBook: the grain bot's positions.                                *)

\* A product grows with its first factor.
LEMMA Products ==
    ASSUME NEW a \in Int, NEW b \in Int, NEW d \in Nat, a <= b
    PROVE  a * d <= b * d /\ a * d \in Int /\ b * d \in Int
<1> DEFINE k == b - a
<1>1. k \in Nat /\ b = a + k
  OBVIOUS
<1> HIDE DEF k
<1>2. k * d \in Nat
  BY <1>1
<1>3. (a + k) * d = a * d + k * d
  BY <1>1
<1>4. a * d \in Int
  OBVIOUS
<1> QED
  BY <1>1, <1>2, <1>3, <1>4

LEMMA Division ==
    ASSUME NEW x \in Nat, NEW d \in Nat \ {0}
    PROVE  /\ x \div d \in Nat /\ x % d \in 0 .. d - 1
           /\ x = (x \div d) * d + (x % d)
  OBVIOUS

\* A rounded quotient keeps to every whole bound of the quotient.
LEMMA RoundingKeepsBounds ==
    ASSUME NEW cost \in Nat, NEW n \in Nat, NEW size \in Nat \ {0}
    PROVE  /\ ClosedCost(cost, n, size) \in Nat
           /\ \A bound \in Int : bound * size <= cost * n => bound <= ClosedCost(cost, n, size)
           /\ \A bound \in Int : cost * n <= bound * size => ClosedCost(cost, n, size) <= bound
<1> DEFINE x == cost * n
           q == x \div size
           rem == x % size
           r == ClosedCost(cost, n, size)
<1>1. x \in Nat
  OBVIOUS
<1>2. q \in Nat /\ rem \in 0 .. size - 1 /\ x = q * size + rem
  <2> HIDE DEF x
  <2> QED
    BY <1>1, Division
<1>3. r = q \/ (r = q + 1 /\ 2 * rem >= size)
  <2>1. r = IF 2 * rem < size \/ (2 * rem = size /\ ~TieUp(cost, n, size)) THEN q ELSE q + 1
    BY DEF ClosedCost
  <2> HIDE DEF q, rem, r
  <2>2. CASE 2 * rem < size
    BY <2>1, <2>2
  <2>3. CASE ~(2 * rem < size)
    <3>1. 2 * rem >= size
      BY <1>2, <2>3
    <3> QED
      BY <2>1, <3>1
  <2> QED
    BY <2>2, <2>3
<1> HIDE DEF x, q, rem, r
<1>4. ASSUME NEW bound \in Int, bound * size <= x
      PROVE  bound <= r
  <2>1. CASE bound > q
    <3>1. (q + 1) * size <= bound * size /\ (q + 1) * size \in Int /\ bound * size \in Int
      BY <1>2, <2>1, Products
    <3>2. (q + 1) * size = q * size + size /\ q * size \in Int
      BY <1>2
    <3> QED
      BY <1>1, <1>2, <1>4, <3>1, <3>2
  <2>2. CASE ~(bound > q)
    BY <1>2, <1>3, <2>2
  <2> QED
    BY <2>1, <2>2
<1>5. ASSUME NEW bound \in Int, x <= bound * size
      PROVE  r <= bound
  <2>1. CASE bound < q
    <3>1. (bound + 1) * size <= q * size /\ (bound + 1) * size \in Int /\ q * size \in Int
      <4>1. bound + 1 \in Int /\ bound + 1 <= q /\ q \in Int
        BY <1>2, <2>1
      <4> QED
        BY <4>1, Products
    <3>2. (bound + 1) * size = bound * size + size /\ bound * size \in Int
      OBVIOUS
    <3> QED
      BY <1>2, <1>5, <3>1, <3>2
  <2>2. CASE bound = q
    <3>1. q * size \in Int
      BY <1>2
    <3>2. rem <= 0
      BY <1>2, <1>5, <2>2, <3>1
    <3>3. ~(2 * rem >= size)
      BY <1>2, <3>2
    <3> QED
      BY <1>2, <1>3, <2>2, <3>3
  <2>3. CASE bound > q
    BY <1>2, <1>3, <2>3
  <2> QED
    BY <1>2, <2>1, <2>2, <2>3
<1>6. r \in Nat
  BY <1>2, <1>3
<1> QED
  BY <1>4, <1>5, <1>6 DEF x, r

\* Of a cost, a part is closed, all of it with all that was held, and what is left
\* is within the payout of what is left.
LEMMA CostSplits ==
    ASSUME NEW cost \in Nat, NEW n \in Nat, NEW size \in Nat \ {0}, n <= size,
           cost <= 100 * size
    PROVE  LET c == ClosedCost(cost, n, size)
           IN  /\ c \in Nat /\ c <= cost /\ cost - c <= 100 * (size - n)
               /\ n = size => c = cost
<1> DEFINE c == ClosedCost(cost, n, size)
           k == size - n
           bound == cost - 100 * k
<1>1. /\ c \in Nat
      /\ \A b \in Int : b * size <= cost * n => b <= c
      /\ \A b \in Int : cost * n <= b * size => c <= b
  BY RoundingKeepsBounds
<1>2. k \in Nat /\ n = size - k /\ bound \in Int
  OBVIOUS
<1>3. c <= cost
  <2>1. n * cost <= size * cost
    BY Products
  <2>2. cost * n = n * cost /\ cost * size = size * cost
    OBVIOUS
  <2>3. cost * n <= cost * size
    BY <2>1, <2>2
  <2> HIDE DEF c
  <2> QED
    BY <1>1, <2>3
<1>4. bound <= c
  <2>1. cost * k <= (100 * size) * k /\ cost * k \in Int /\ (100 * size) * k \in Int
    BY <1>2, Products
  <2>2. cost * n = cost * size - cost * k
    BY <1>2
  <2>3. bound * size = cost * size - (100 * size) * k
    BY <1>2
  <2>4. cost * size \in Int
    OBVIOUS
  <2> HIDE DEF bound, k, c
  <2>5. bound * size <= cost * n
    BY <2>1, <2>2, <2>3, <2>4
  <2> QED
    BY <1>1, <1>2, <2>5
<1>5. ASSUME n = size
      PROVE  c = cost
  <2>1. cost * size <= cost * n
    BY <1>5
  <2>2. cost <= c
    BY <1>1, <2>1
  <2> QED
    BY <1>1, <1>3, <2>2
<1> HIDE DEF c
<1>6. cost - c <= 100 * k
  BY <1>1, <1>2, <1>4
<1> QED
  BY <1>1, <1>3, <1>5, <1>6 DEF c

-----------------------------------------------------------------------------
(* One position.                                                           *)

Position == [qty : Int, cost : Nat, realized : Int]

\* The cost is within the payout of what is held.
Sound(p) == p \in Position /\ p.cost <= 100 * Size(p.qty)

\* What a trade of delta at this price leaves, and what it pays or costs.
Carries(q, p, delta, price) == Sound(q) /\ Balance(q) = Balance(p) - delta * price

\* The value of a trade.
LEMMA Value ==
    ASSUME NEW delta \in Int, NEW price \in 1 .. 99
    PROVE  /\ Size(delta) \in Nat /\ Size(delta) * price \in Nat
           /\ Size(delta) * price <= 100 * Size(delta)
           /\ delta * price = IF delta < 0 THEN -(Size(delta) * price) ELSE Size(delta) * price
<1>1. Size(delta) \in Nat
  BY DEF Size
<1>2. price * Size(delta) <= 100 * Size(delta) /\ Size(delta) * price = price * Size(delta)
  BY <1>1, Products
<1>3. Size(delta) * price \in Nat
  BY <1>1
<1>4. delta * price = IF delta < 0 THEN -(Size(delta) * price) ELSE Size(delta) * price
  BY DEF Size
<1> QED
  BY <1>1, <1>2, <1>3, <1>4

LEMMA OpenedCarries ==
    ASSUME NEW p, Sound(p), p.qty = 0, NEW delta \in Int \ {0}, NEW price \in 1 .. 99
    PROVE  Carries(Opened(p, delta, price), p, delta, price)
<1> DEFINE w == Size(delta) * price
           q == Opened(p, delta, price)
<1>1. /\ Size(delta) \in Nat /\ w \in Nat /\ w <= 100 * Size(delta)
      /\ delta * price = IF delta < 0 THEN -w ELSE w
  BY Value
<1>2. q = [p EXCEPT !.qty = delta, !.cost = w]
  BY DEF Opened
<1> HIDE DEF w, q
<1>3. q \in Position /\ q.qty = delta /\ q.cost = w /\ q.realized = p.realized
  BY <1>1, <1>2 DEF Sound, Position
<1>4. p.cost = 0 /\ p.realized \in Int
  BY DEF Sound, Position, Size
<1>5. Balance(q) = Balance(p) - delta * price
  BY <1>1, <1>3, <1>4 DEF Balance
<1> QED
  BY <1>1, <1>3, <1>5 DEF Carries, Sound, q

LEMMA IncreasedCarries ==
    ASSUME NEW p, Sound(p), NEW delta \in Int \ {0}, NEW price \in 1 .. 99,
           p.qty # 0, (p.qty > 0) = (delta > 0)
    PROVE  Carries(Increased(p, delta, price), p, delta, price)
<1> DEFINE w == Size(delta) * price
           q == Increased(p, delta, price)
<1>1. /\ Size(delta) \in Nat /\ w \in Nat /\ w <= 100 * Size(delta)
      /\ delta * price = IF delta < 0 THEN -w ELSE w
  BY Value
<1>2. q = [p EXCEPT !.qty = p.qty + delta, !.cost = p.cost + w]
  BY DEF Increased
<1>0. p.qty \in Int /\ p.cost \in Nat /\ p.realized \in Int /\ p.cost <= 100 * Size(p.qty)
  BY DEF Sound, Position
<1> HIDE DEF w, q
<1>3. q \in Position /\ q.qty = p.qty + delta /\ q.cost = p.cost + w /\ q.realized = p.realized
  <2>1. p.qty + delta \in Int /\ p.cost + w \in Nat
    BY <1>0, <1>1
  <2> QED
    BY <1>2, <2>1 DEF Sound, Position
<1>4. Size(p.qty + delta) = Size(p.qty) + Size(delta) /\ Size(p.qty) \in Nat
  BY <1>0 DEF Size
<1>5. Balance(q) = Balance(p) - delta * price
  BY <1>0, <1>1, <1>3 DEF Balance
<1>6. q.cost <= 100 * Size(q.qty)
  BY <1>0, <1>1, <1>3, <1>4
<1> QED
  BY <1>3, <1>5, <1>6 DEF Carries, Sound, q

LEMMA ReducedCarries ==
    ASSUME NEW p, Sound(p), NEW delta \in Int \ {0}, NEW price \in 1 .. 99,
           p.qty # 0, (p.qty > 0) # (delta > 0), Size(delta) <= Size(p.qty)
    PROVE  Carries(Reduced(p, delta, price), p, delta, price)
<1> DEFINE n == Size(delta)
           w == n * price
           c == ClosedCost(p.cost, n, Size(p.qty))
           q == Reduced(p, delta, price)
<1>0. p.qty \in Int /\ p.cost \in Nat /\ p.realized \in Int /\ p.cost <= 100 * Size(p.qty)
  BY DEF Sound, Position
<1>1. /\ n \in Nat /\ w \in Nat
      /\ delta * price = IF delta < 0 THEN -w ELSE w
  BY Value
<1>2. Size(p.qty) \in Nat \ {0}
  BY <1>0 DEF Size
<1>3. /\ c \in Nat /\ c <= p.cost /\ p.cost - c <= 100 * (Size(p.qty) - n)
      /\ n = Size(p.qty) => c = p.cost
  BY <1>0, <1>1, <1>2, CostSplits
<1>4. q = [qty |-> p.qty + delta, realized |-> p.realized + Gain(p, n, c, price),
           cost |-> IF p.qty + delta = 0 THEN 0 ELSE p.cost - c]
  BY DEF Reduced
<1>5. /\ Size(p.qty + delta) = Size(p.qty) - n
      /\ p.qty + delta = 0 <=> n = Size(p.qty)
      /\ p.qty > 0 => p.qty + delta >= 0 /\ delta < 0
      /\ p.qty < 0 => p.qty + delta <= 0 /\ delta > 0
  BY <1>0 DEF Size
<1>6. Gain(p, n, c, price) = IF p.qty > 0 THEN w - c ELSE c - w
  BY DEF Gain
<1> HIDE DEF n, w, c, q
<1>7. q.cost = p.cost - c /\ q.qty = p.qty + delta
      /\ q.realized = p.realized + IF p.qty > 0 THEN w - c ELSE c - w
  BY <1>0, <1>3, <1>4, <1>5, <1>6
<1>8. q \in Position
  <2>1. p.cost - c \in Nat /\ p.qty + delta \in Int
        /\ p.realized + (IF p.qty > 0 THEN w - c ELSE c - w) \in Int
    BY <1>0, <1>1, <1>3
  <2> QED
    BY <1>4, <1>6, <2>1 DEF Position
<1>9. q.cost <= 100 * Size(q.qty)
  BY <1>3, <1>5, <1>7
<1>10. Balance(q) = Balance(p) - delta * price
  BY <1>0, <1>1, <1>3, <1>5, <1>7 DEF Balance
<1> QED
  BY <1>8, <1>9, <1>10 DEF Carries, Sound, q

LEMMA FlippedCarries ==
    ASSUME NEW p, Sound(p), NEW delta \in Int \ {0}, NEW price \in 1 .. 99,
           p.qty # 0, (p.qty > 0) # (delta > 0), ~(Size(delta) <= Size(p.qty))
    PROVE  Carries(Flipped(p, delta, price), p, delta, price)
<1> DEFINE all == Size(delta) * price
           old == Size(p.qty) * price
           new == (Size(delta) - Size(p.qty)) * price
           q == Flipped(p, delta, price)
<1>0. p.qty \in Int /\ p.cost \in Nat /\ p.realized \in Int /\ p.cost <= 100 * Size(p.qty)
  BY DEF Sound, Position
<1>1. Size(delta) \in Nat /\ delta * price = IF delta < 0 THEN -all ELSE all
  BY Value
<1>2. Size(p.qty) \in Nat /\ old \in Nat
  BY <1>0, Value
<1>3. /\ Size(p.qty + delta) = Size(delta) - Size(p.qty)
      /\ p.qty > 0 => p.qty + delta < 0 /\ delta < 0
      /\ p.qty < 0 => p.qty + delta > 0 /\ delta > 0
      /\ p.qty + delta \in Int
  BY <1>0 DEF Size
<1>4. new \in Nat /\ new <= 100 * Size(p.qty + delta)
  BY <1>3, Value
<1>5. all = old + new
  BY <1>1, <1>2
<1>6. q = [qty |-> p.qty + delta, cost |-> new,
           realized |-> p.realized + IF p.qty > 0 THEN old - p.cost ELSE p.cost - old]
  BY DEF Flipped, Gain
<1> HIDE DEF all, old, new, q
<1>7. /\ q \in Position /\ q.qty = p.qty + delta /\ q.cost = new
      /\ q.realized = p.realized + IF p.qty > 0 THEN old - p.cost ELSE p.cost - old
  <2>1. p.realized + (IF p.qty > 0 THEN old - p.cost ELSE p.cost - old) \in Int
    BY <1>0, <1>2
  <2> QED
    BY <1>3, <1>4, <1>6, <2>1 DEF Position
<1>8. Balance(q) = Balance(p) - delta * price
  <2>1. new \in Nat /\ all = old + new /\ old \in Nat
    BY <1>2, <1>4, <1>5
  <2>2. CASE p.qty > 0
    <3>1. /\ delta * price = -all /\ ~(q.qty > 0) /\ q.cost = new
          /\ q.realized = p.realized + (old - p.cost)
      BY <1>1, <1>3, <1>7, <2>2
    <3>2. Balance(q) = p.realized + (old - p.cost) + new
      BY <1>0, <2>1, <3>1 DEF Balance
    <3>3. Balance(p) = p.realized - p.cost
      BY <1>0, <2>2 DEF Balance
    <3> QED
      BY <1>0, <2>1, <3>1, <3>2, <3>3
  <2>3. CASE p.qty < 0
    <3>1. /\ delta * price = all /\ q.qty > 0 /\ q.cost = new
          /\ q.realized = p.realized + (p.cost - old)
      BY <1>0, <1>1, <1>3, <1>7, <2>3
    <3>2. Balance(q) = p.realized + (p.cost - old) - new
      BY <1>0, <2>1, <3>1 DEF Balance
    <3>3. Balance(p) = p.realized + p.cost
      BY <1>0, <2>3 DEF Balance
    <3> QED
      BY <1>0, <2>1, <3>1, <3>2, <3>3
  <2> QED
    BY <1>0, <2>2, <2>3
<1> QED
  BY <1>3, <1>4, <1>7, <1>8 DEF Carries, Sound, q

LEMMA AppliedCarries ==
    ASSUME NEW p, Sound(p), NEW delta \in Int \ {0}, NEW price \in 1 .. 99
    PROVE  Carries(Applied(p, delta, price), p, delta, price)
<1>1. CASE p.qty = 0
  BY <1>1, OpenedCarries DEF Applied
<1>2. CASE p.qty # 0 /\ (p.qty > 0) = (delta > 0)
  BY <1>2, IncreasedCarries DEF Applied
<1>3. CASE p.qty # 0 /\ (p.qty > 0) # (delta > 0) /\ Size(delta) <= Size(p.qty)
  BY <1>3, ReducedCarries DEF Applied
<1>4. CASE p.qty # 0 /\ (p.qty > 0) # (delta > 0) /\ ~(Size(delta) <= Size(p.qty))
  BY <1>4, FlippedCarries DEF Applied
<1> QED
  BY <1>1, <1>2, <1>3, <1>4

-----------------------------------------------------------------------------
(* The gate.                                                               *)

\* The estimate of what an order adds to the worst case is too low by no more
\* than Underestimate says.
LEMMA EstimateCovers ==
    ASSUME NEW m \in Markets, Sound(holdings[m]), NEW delta \in Int \ {0}, NEW price \in 1 .. 99,
           Adds(m, delta)
    PROVE  MaxLoss(Applied(holdings[m], delta, price)) - MaxLoss(holdings[m])
             <= AddedLoss(holdings[m], delta, price) + Underestimate(m, delta, price)
<1> DEFINE p == holdings[m]
           n == Size(delta)
           w == n * price
<1>0. p.qty \in Int /\ p.cost \in Nat /\ p.realized \in Int /\ p.cost <= 100 * Size(p.qty)
      /\ p = [qty |-> p.qty, cost |-> p.cost, realized |-> p.realized]
  BY DEF Sound, Position
<1>1. n \in Nat \ {0} /\ w \in Nat /\ w <= 100 * n
  BY Value DEF Size
<1>2. n * (100 - price) = 100 * n - w /\ n * (100 - 2 * price) = 100 * n - 2 * w
  BY <1>1
<1> HIDE DEF w
<1>3. CASE p.qty = 0
  <2>1. Applied(p, delta, price) = [p EXCEPT !.qty = delta, !.cost = w]
    BY <1>3 DEF Applied, Opened, w
  <2>2. MaxLoss(Applied(p, delta, price)) = IF delta > 0 THEN w ELSE 100 * n - w
    BY <1>0, <1>1, <2>1 DEF MaxLoss, Size
  <2>3. MaxLoss(p) = 0 /\ Underestimate(m, delta, price) = 0
    BY <1>3 DEF MaxLoss, Underestimate
  <2>4. AddedLoss(p, delta, price) = IF delta > 0 THEN w ELSE 100 * n - w
    BY <1>2, <1>3 DEF AddedLoss, w
  <2> QED
    BY <1>1, <2>2, <2>3, <2>4
<1>4. CASE p.qty > 0
  <2>1. delta > 0
    BY <1>4 DEF Adds
  <2>2. Applied(p, delta, price) = [p EXCEPT !.qty = p.qty + delta, !.cost = p.cost + w]
    BY <1>0, <1>4, <2>1 DEF Applied, Increased, w
  <2>3. MaxLoss(Applied(p, delta, price)) = p.cost + w /\ MaxLoss(p) = p.cost
    BY <1>0, <1>1, <1>4, <2>1, <2>2 DEF MaxLoss
  <2>4. AddedLoss(p, delta, price) = w /\ Underestimate(m, delta, price) = 0
    BY <1>0, <1>4, <2>1 DEF AddedLoss, Underestimate, w
  <2> QED
    BY <1>0, <1>1, <2>3, <2>4
<1>5. CASE p.qty < 0
  <2>1. delta < 0
    BY <1>0, <1>5 DEF Adds
  <2>2. Applied(p, delta, price) = [p EXCEPT !.qty = p.qty + delta, !.cost = p.cost + w]
    BY <1>0, <1>5, <2>1 DEF Applied, Increased, w
  <2>3. /\ Size(p.qty + delta) = Size(p.qty) + n /\ p.qty + delta < 0
        /\ Size(p.cost + w) = p.cost + w /\ Size(p.cost) = p.cost /\ Size(p.qty) \in Nat
    BY <1>0, <1>1, <1>5, <2>1 DEF Size
  <2>4. /\ MaxLoss(Applied(p, delta, price)) = 100 * (Size(p.qty) + n) - (p.cost + w)
        /\ MaxLoss(p) = 100 * Size(p.qty) - p.cost
    BY <1>0, <1>1, <1>5, <2>2, <2>3 DEF MaxLoss
  <2>5. AddedLoss(p, delta, price)
          = Larger(0, 100 * (Size(p.qty) + n) - (p.cost + (100 * n - w)) - MaxLoss(p))
    BY <1>0, <1>2, <1>5, <2>1, <2>3 DEF AddedLoss
  <2>6. AddedLoss(p, delta, price) = w
    BY <1>0, <1>1, <2>3, <2>4, <2>5 DEF Larger
  <2>7. Underestimate(m, delta, price) = Larger(0, 100 * n - 2 * w)
    BY <1>2, <1>5 DEF Underestimate
  <2>8. Underestimate(m, delta, price) \in Int /\ 100 * n - 2 * w <= Underestimate(m, delta, price)
    BY <1>1, <2>7 DEF Larger
  <2> QED
    BY <1>0, <1>1, <2>3, <2>4, <2>6, <2>8
<1> QED
  BY <1>0, <1>3, <1>4, <1>5

-----------------------------------------------------------------------------
(* The store.                                                              *)

BookShape ==
    /\ holdings \in [Markets -> Position] /\ \A m \in Markets : Sound(holdings[m])
    /\ cash \in Int

Balances == [m \in Markets |-> Balance(holdings[m])]
Losses == [m \in Markets |-> MaxLoss(holdings[m])]

\* The bounds of a position's cost are what makes the bounds of its worst case,
\* and the balance of each position, last.
BookInv == BookShape /\ cash = SumFunction(Balances)

LEMMA SumIsOverMarkets ==
    ASSUME NEW f, DOMAIN f = Markets
    PROVE  SumFunction(f) = SumFunctionOnSet(f, Markets)
BY DEF SumFunction

LEMMA NothingBalances == PositionInit => BookInv
<1> SUFFICES ASSUME PositionInit
             PROVE  BookInv
  OBVIOUS
<1>1. \A m \in Markets : Sound(holdings[m]) /\ Balance(holdings[m]) = 0
  BY DEF PositionInit, Flat, Sound, Position, Balance, Size
<1>2. BookShape
  BY <1>1 DEF PositionInit, BookShape, Sound
<1>3. \A m \in Markets : Balances[m] = 0
  BY <1>1 DEF Balances
<1>4. IsFiniteSet(Markets)
  BY PositionAssumption DEF RiskLimits
<1>5. SumFunctionOnSet(Balances, Markets) = 0
  BY <1>3, <1>4, SumOfZeroes
<1>6. SumFunction(Balances) = 0
  BY <1>5, SumIsOverMarkets DEF Balances
<1> QED
  BY <1>2, <1>6 DEF BookInv, PositionInit

LEMMA FillBalances ==
    ASSUME BookInv, PositionNext
    PROVE  BookInv'
<1>1. PICK f \in Reports : StoreBecomes(Recorded(Store, f))
  BY DEF PositionNext, FillReported
<1>2. CASE f.id \in seenFills
  <2>1. UNCHANGED <<holdings, cash>>
    BY <1>1, <1>2 DEF StoreBecomes, Recorded, Store
  <2> QED
    BY <2>1 DEF BookInv, BookShape, Balances
<1>3. CASE f.id \notin seenFills
  <2> DEFINE m == f.mkt
             delta == YesDelta(f)
             price == YesPrice(f)
             q == Applied(holdings[m], delta, price)
  <2>1. m \in Markets /\ delta \in Int \ {0} /\ price \in 1 .. 99
    <3>1. m \in Markets /\ f.count \in Nat \ {0} /\ f.price \in 1 .. 99
      BY PositionAssumption DEF Reports, RiskLimits
    <3>2. delta = f.count \/ delta = -f.count
      BY DEF YesDelta
    <3>3. price = f.price \/ price = 100 - f.price
      BY DEF YesPrice
    <3> HIDE DEF delta, price
    <3> QED
      BY <3>1, <3>2, <3>3
  <2>2. /\ holdings' = [holdings EXCEPT ![m] = q]
        /\ cash' = cash - delta * price
    BY <1>1, <1>3 DEF StoreBecomes, Recorded, Store
  <2>3. Sound(holdings[m]) /\ holdings \in [Markets -> Position] /\ cash \in Int
        /\ \A k \in Markets : Sound(holdings[k])
    BY <2>1 DEF BookInv, BookShape
  <2>4. Sound(q) /\ Balance(q) = Balance(holdings[m]) - delta * price
    BY <2>1, <2>3, AppliedCarries DEF Carries
  <2> HIDE DEF m, delta, price, q
  <2>5. /\ holdings' \in [Markets -> Position]
        /\ \A k \in Markets : holdings'[k] = IF k = m THEN q ELSE holdings[k]
    BY <2>1, <2>2, <2>3, <2>4 DEF Sound
  <2>6. delta * price \in Int
    BY <2>1
  <2>7. BookShape'
    BY <2>2, <2>3, <2>4, <2>5, <2>6 DEF BookShape
  <2>8. \A k \in Markets : /\ Balances[k] \in Int /\ Balances'[k] \in Int
                           /\ k # m => Balances[k] = Balances'[k]
    <3>1. \A p : Sound(p) => Balance(p) \in Int
      BY DEF Sound, Position, Balance
    <3> QED
      BY <2>3, <2>4, <2>5, <3>1 DEF Balances
  <2>9. Balances'[m] = Balances[m] - delta * price
    BY <2>1, <2>4, <2>5 DEF Balances
  <2>10. IsFiniteSet(Markets) /\ DOMAIN Balances = Markets /\ DOMAIN Balances' = Markets
    BY PositionAssumption DEF RiskLimits, Balances
  <2>11. SumFunctionOnSet(Balances', Markets)
           = SumFunctionOnSet(Balances, Markets) - Balances[m] + Balances'[m]
    BY <2>1, <2>8, <2>10, SumChanges
  <2>12. SumFunctionOnSet(Balances, Markets) \in Int
    BY <2>8, <2>10, SumTyped
  <2>13. SumFunctionOnSet(Balances', Markets) = SumFunctionOnSet(Balances, Markets) - delta * price
    BY <2>1, <2>6, <2>8, <2>9, <2>11, <2>12
  <2>14. SumFunction(Balances)' = SumFunction(Balances) - delta * price
    BY <2>10, <2>13, SumIsOverMarkets
  <2> QED
    BY <2>2, <2>7, <2>14 DEF BookInv
<1> QED
  BY <1>2, <1>3

LEMMA BalancedBook == BookInv => BooksBalance
<1> SUFFICES ASSUME BookInv
             PROVE  BooksBalance
  OBVIOUS
<1>1. cash = SumFunction([m \in Markets |-> Balance(holdings[m])])
  BY DEF BookInv, Balances
<1>2. \A m \in Markets : Sound(holdings[m])
  BY DEF BookInv, BookShape
<1>3. \A p : Sound(p) => MaxLoss(p) \in 0 .. 100 * Size(p.qty)
  BY DEF Sound, Position, MaxLoss, Size
<1>4. ASSUME NEW m \in Markets, NEW n \in FillCounts, NEW way \in {-1, 1}, NEW price \in FillPrices,
             Adds(m, way * n), PreTradePasses(m, way * n, price)
      PROVE  LossAfter(m, way * n, price) <= LossCap + Underestimate(m, way * n, price)
  <2> DEFINE delta == way * n
             new == Applied(holdings[m], delta, price)
             more == AddedLoss(holdings[m], delta, price)
             short == Underestimate(m, delta, price)
  <2>1. delta \in Int \ {0} /\ price \in 1 .. 99 /\ LossCap \in Nat
    BY PositionAssumption DEF RiskLimits
  <2>2. Sound(new) /\ MaxLoss(new) \in Int /\ MaxLoss(holdings[m]) \in Int
    <3>1. Sound(new)
      BY <1>2, <2>1, AppliedCarries DEF Carries
    <3>2. \A p : Sound(p) => MaxLoss(p) \in Int
      BY DEF Sound, Position, MaxLoss, Size
    <3> QED
      BY <1>2, <3>1, <3>2
  <2>3. MaxLoss(new) - MaxLoss(holdings[m]) <= more + short
    BY <1>2, <1>4, <2>1, EstimateCovers
  <2>4. more \in Int /\ short \in Int
    <3>1. holdings[m].qty \in Int /\ holdings[m].cost \in Nat
      BY <1>2 DEF Sound, Position
    <3>2. Size(delta) \in Int /\ Size(holdings[m].qty + delta) \in Int
      BY <2>1, <3>1 DEF Size
    <3>3. /\ Size(delta) * price \in Int /\ Size(delta) * (100 - price) \in Int
          /\ Size(delta) * (100 - 2 * price) \in Int
      BY <2>1, <3>2
    <3> QED
      BY <2>1, <2>2, <3>1, <3>2, <3>3 DEF AddedLoss, Underestimate, Larger
  <2>5. TotalLoss + more <= LossCap
    BY <1>4 DEF PreTradePasses
  <2>6. TotalLoss \in Int
    <3>1. \A k \in Markets : Losses[k] \in Int
      BY <1>2, <1>3 DEF Losses, Size, Sound, Position
    <3>2. IsFiniteSet(Markets) /\ DOMAIN Losses = Markets
      BY PositionAssumption DEF RiskLimits, Losses
    <3>3. SumFunction(Losses) \in Int
      BY <3>1, <3>2, SumTyped, SumIsOverMarkets
    <3> QED
      BY <3>3 DEF TotalLoss, Losses
  <2>7. LossAfter(m, delta, price) = TotalLoss - MaxLoss(holdings[m]) + MaxLoss(new)
    BY DEF LossAfter
  <2> HIDE DEF delta, new, more, short
  <2>8. LossAfter(m, delta, price) <= LossCap + short
    BY <2>1, <2>2, <2>3, <2>4, <2>5, <2>6, <2>7
  <2> QED
    BY <2>8 DEF delta, short
<1> QED
  BY <1>1, <1>2, <1>3, <1>4 DEF BooksBalance

\* However fills are reported, in whatever order and how often, cash and
\* positions agree, worst cases are within the payout, and the pre-trade gate
\* lets no order through that exceeds the cap by more than its estimate for a
\* short misses.
THEOREM CashAndPositionsAgree == PositionSpec => []BooksBalance
<1>1. PositionInit => BookInv
  BY NothingBalances
<1>2. BookInv /\ [PositionNext]_positionVars => BookInv'
  <2> SUFFICES ASSUME BookInv, [PositionNext]_positionVars
               PROVE  BookInv'
    OBVIOUS
  <2>1. CASE UNCHANGED positionVars
    BY <2>1 DEF BookInv, BookShape, Balances, positionVars
  <2> QED
    BY <2>1, FillBalances
<1>3. BookInv => BooksBalance
  BY BalancedBook
<1> QED
  BY <1>1, <1>2, <1>3, PTL DEF PositionSpec

-----------------------------------------------------------------------------
(* ScoreTracker.                                                           *)

WindowEntries == [ts : Nat, shown : BOOLEAN, excess : BOOLEAN]

\* A window, oldest first, against all the entries there were.
Covers(entries, all, length) ==
    /\ entries \in Seq(WindowEntries) /\ all \in SUBSET WindowEntries
    /\ \A i, j \in 1 .. Len(entries) : i <= j => entries[i].ts <= entries[j].ts
    /\ entries = <<>> => all = {}
    /\ entries # <<>> =>
         /\ \A e \in all : e.ts <= Last(entries).ts
         /\ ToSet(entries) = {e \in all : e.ts >= Last(entries).ts - length}

BooksShape ==
    /\ depth \in [BookSides -> [Ticks -> Nat]]
    /\ mine \in [BookSides -> [Ticks -> Nat]]

\* SharesAreShares is not inductive: a window has to be in the order of time, and
\* everything taken no later than its end.
ScoreInv ==
    /\ moment \in Nat /\ BooksShape
    /\ taken \in SUBSET WindowEntries
    /\ \A e \in taken : e.ts <= moment /\ ~(e.shown /\ e.excess)
    /\ windows = [w \in DOMAIN WindowLength |-> windows[w]]
    /\ \A w \in DOMAIN WindowLength : Covers(windows[w], taken, WindowLength[w])

LEMMA TicksArePrices == Ticks \subseteq 1 .. 99
BY ScoreAssumption

\* A book that shows our orders counts for at least as much as they do.
LEMMA SideHasOurs ==
    ASSUME BooksShape, Scorable, OursShown, NEW s \in BookSides
    PROVE  /\ SideScore(mine[s], s) \in Nat /\ SideScore(depth[s], s) \in Nat
           /\ SideScore(mine[s], s) <= SideScore(depth[s], s)
<1> DEFINE all == Filled(depth[s])
           owned == Filled(mine[s])
           f == [p \in all |-> depth[s][p] * Multiplier(p, Best(s))]
           g == [p \in owned |-> mine[s][p] * Multiplier(p, Best(s))]
<1>1. \A p \in Ticks : depth[s][p] \in Nat /\ mine[s][p] \in Nat /\ mine[s][p] <= depth[s][p]
  BY DEF BooksShape, OursShown
<1>2. owned \subseteq all
  BY <1>1 DEF Filled
<1>3. IsFiniteSet(all) /\ IsFiniteSet(owned)
  <2>1. IsFiniteSet(1 .. 99)
    <3>1. 1 \in Int /\ 99 \in Int
      OBVIOUS
    <3> QED
      BY <3>1, FS_Interval
  <2>2. all \subseteq 1 .. 99 /\ owned \subseteq 1 .. 99
    BY TicksArePrices DEF Filled
  <2> HIDE DEF all, owned
  <2> QED
    BY <2>1, <2>2, FS_Subset
<1>4. CASE all = {}
  BY <1>2, <1>4 DEF SideScore
<1>5. CASE all # {}
  <2>1. \A p \in all : Multiplier(p, Best(s)) \in Nat
    <3>1. Best(s) \in Int
      <4>1. all \in SUBSET (0 .. 99)
        <5>1. \A p \in all : p \in 1 .. 99
          BY TicksArePrices DEF Filled
        <5>2. \A p \in 1 .. 99 : p \in 0 .. 99
          OBVIOUS
        <5> QED
          BY <5>1, <5>2
      <4>2. Max(all) \in all
        BY <1>5, <4>1, GreatestExists
      <4> QED
        BY <4>1, <4>2 DEF Best
    <3>2. \A p \in all : p \in Int
      <4>1. \A p \in all : p \in 1 .. 99
        BY TicksArePrices DEF Filled
      <4> QED
        BY <4>1
    <3>3. \A p, q \in Int : Distance(p, q) \in Int
      BY DEF Distance
    <3>4. \A p \in all : Distance(p, Best(s)) \in Int
      BY <3>1, <3>2, <3>3
    <3>5. DecayTicks \in Nat
      BY ScoreAssumption
    <3> QED
      BY <3>4, <3>5 DEF Multiplier
  <2>2. \A p \in all : f[p] \in Nat
    <3> TAKE p \in all
    <3>1. depth[s][p] \in Nat
      BY <1>1 DEF Filled
    <3> QED
      BY <2>1, <3>1
  <2>3. \A p \in owned : g[p] \in Nat /\ g[p] <= f[p] /\ f[p] \in Nat
    <3> TAKE p \in owned
    <3>1. p \in all
      BY <1>2
    <3>2. mine[s][p] \in Nat /\ depth[s][p] \in Nat /\ mine[s][p] <= depth[s][p]
      BY <1>1 DEF Filled
    <3>3. \A a, b, m \in Nat : a <= b => a * m \in Nat /\ a * m <= b * m
      OBVIOUS
    <3> HIDE DEF all, owned
    <3> QED
      BY <2>1, <3>1, <3>2, <3>3
  <2>4. SideScore(depth[s], s) = SumFunctionOnSet(f, all)
    BY <1>5 DEF SideScore, ScoreOf, SumFunction
  <2>5. SideScore(mine[s], s) = IF owned = {} THEN 0 ELSE SumFunctionOnSet(g, owned)
    BY DEF SideScore, ScoreOf, SumFunction
  <2> HIDE DEF all, owned, f, g
  <2>6. SumFunctionOnSet(f, all) \in Nat /\ SumFunctionOnSet(g, owned) \in Nat
    BY <1>3, <2>2, <2>3, SumAtLeast
  <2>7. SumFunctionOnSet(g, owned) <= SumFunctionOnSet(f, owned)
    BY <1>3, <2>3, SumAtMost
  <2>8. SumFunctionOnSet(f, owned) <= SumFunctionOnSet(f, all)
    BY <1>2, <1>3, <2>2, SumOfPartAtMost
  <2>9. SumFunctionOnSet(f, owned) \in Nat
    BY <1>3, <2>3, SumAtLeast
  <2> QED
    BY <2>4, <2>5, <2>6, <2>7, <2>8, <2>9
<1> QED
  BY <1>4, <1>5

LEMMA NoExcess ==
    ASSUME BooksShape, Scorable, OursShown
    PROVE  ~(OurScore > TotalScore)
<1> DEFINE f == [s \in BookSides |-> SideScore(mine[s], s)]
           g == [s \in BookSides |-> SideScore(depth[s], s)]
<1>1. \A s \in BookSides : f[s] \in Int /\ g[s] \in Int /\ f[s] <= g[s]
  BY SideHasOurs
<1>2. IsFiniteSet(BookSides)
  <2>1. BookSides = {"yes"} \cup {"no"}
    BY DEF BookSides
  <2> QED
    BY <2>1, FS_Singleton, FS_Union
<1>3. OurScore = SumFunctionOnSet(f, BookSides) /\ TotalScore = SumFunctionOnSet(g, BookSides)
  BY DEF OurScore, TotalScore, SumFunction
<1> HIDE DEF f, g
<1>4. SumFunctionOnSet(f, BookSides) <= SumFunctionOnSet(g, BookSides)
  BY <1>1, <1>2, SumAtMost
<1>5. SumFunctionOnSet(f, BookSides) \in Int /\ SumFunctionOnSet(g, BookSides) \in Int
  BY <1>1, <1>2, SumTyped
<1> QED
  BY <1>3, <1>4, <1>5

\* A new entry comes to the end, and what it makes too old leaves at the front.
LEMMA WindowSlides ==
    ASSUME NEW entries, NEW all, NEW w, WindowLength[w] \in Nat,
           Covers(entries, all, WindowLength[w]),
           NEW e \in WindowEntries, e.ts = moment, \A old \in all : old.ts <= moment
    PROVE  Covers(Within(w, Append(entries, e)), all \cup {e}, WindowLength[w])
<1> DEFINE longer == Append(entries, e)
           n == Len(entries) + 1
           length == WindowLength[w]
           fresh == {i \in 1 .. n : longer[i].ts >= moment - length}
           first == Min(fresh)
           kept == SubSeq(longer, first, n)
<1>1. /\ longer \in Seq(WindowEntries) /\ Len(longer) = n /\ DOMAIN longer = 1 .. n
      /\ n \in Nat \ {0} /\ longer[n] = e
      /\ \A i \in 1 .. n : i # n => longer[i] = entries[i] /\ i \in 1 .. Len(entries)
  BY DEF Covers
<1>2. moment \in Nat /\ length \in Nat
  BY DEF WindowEntries
<1>3. \A i \in 1 .. n : longer[i] \in WindowEntries /\ longer[i].ts \in Nat
  <2>1. \A i \in 1 .. n : longer[i] \in WindowEntries
    BY <1>1, ElementOfSeq
  <2>2. \A x \in WindowEntries : x.ts \in Nat
    BY DEF WindowEntries
  <2> QED
    BY <2>1, <2>2
<1>4. ToSet(entries) \subseteq all
  <2>1. entries = <<>> => ToSet(entries) = {}
    BY DEF ToSet
  <2> QED
    BY <2>1 DEF Covers
<1>5. \A i \in 1 .. Len(entries) : entries[i] \in all
  BY <1>4 DEF ToSet
<1>6. \A i, j \in 1 .. n : i <= j => longer[i].ts <= longer[j].ts
  <2> SUFFICES ASSUME NEW i \in 1 .. n, NEW j \in 1 .. n, i <= j
               PROVE  longer[i].ts <= longer[j].ts
    OBVIOUS
  <2>1. CASE j # n
    <3>1. i # n
      BY <1>1, <2>1
    <3>2. longer[i] = entries[i] /\ longer[j] = entries[j]
          /\ i \in 1 .. Len(entries) /\ j \in 1 .. Len(entries)
      BY <1>1, <2>1, <3>1
    <3> QED
      BY <3>2 DEF Covers
  <2>2. CASE j = n /\ i # n
    <3>1. longer[i] = entries[i] /\ i \in 1 .. Len(entries)
      BY <1>1, <2>2
    <3>2. longer[i].ts <= moment
      BY <1>5, <3>1
    <3> QED
      BY <1>1, <2>2, <3>2
  <2>3. CASE j = n /\ i = n
    BY <1>3, <2>3
  <2> QED
    BY <2>1, <2>2, <2>3
<1> HIDE DEF longer, n, length
<1>7. n \in fresh
  BY <1>1, <1>2
<1>8. first \in 1 .. n /\ first \in fresh /\ \A i \in fresh : first <= i
  <2>1. fresh \in SUBSET Nat /\ fresh # {}
    BY <1>7
  <2>2. \E x \in fresh : \A y \in fresh : x <= y
    BY <2>1, SmallestExists
  <2> QED
    BY <2>2 DEF Min
<1>9. Within(w, longer) = kept
  BY <1>1, <1>7 DEF Within, length
<1> HIDE DEF first
<1>10. /\ kept \in Seq(WindowEntries) /\ Len(kept) = n - first + 1
       /\ \A i \in 1 .. n - first + 1 : kept[i] = longer[first + i - 1]
  <2>1. \A i \in first .. n : longer[i] \in WindowEntries
    BY <1>1, <1>3, <1>8
  <2>2. first \in Int /\ n \in Int /\ first <= n
    BY <1>1, <1>8
  <2> QED
    BY <2>1, <2>2, SubSeqProperties
<1> HIDE DEF kept
<1> DEFINE m == n - first + 1
<1>11. m \in Nat \ {0} /\ \A i \in 1 .. m : first + i - 1 \in first .. n /\ first + i - 1 \in 1 .. n
  BY <1>1, <1>8
<1>12. kept # <<>> /\ Last(kept) = e
  <2>1. Last(kept) = kept[m]
    BY <1>10 DEF Last
  <2>2. kept[m] = longer[n]
    <3>1. m \in 1 .. m /\ first + m - 1 = n
      BY <1>1, <1>8, <1>11
    <3> QED
      BY <1>10, <3>1
  <2>3. Len(kept) # 0
    BY <1>10, <1>11
  <2> QED
    BY <1>1, <2>1, <2>2, <2>3
<1>13. \A i, j \in 1 .. Len(kept) : i <= j => kept[i].ts <= kept[j].ts
  <2> SUFFICES ASSUME NEW i \in 1 .. m, NEW j \in 1 .. m, i <= j
               PROVE  kept[i].ts <= kept[j].ts
    BY <1>10
  <2>1. kept[i] = longer[first + i - 1] /\ kept[j] = longer[first + j - 1]
    BY <1>10
  <2>2. first + i - 1 \in 1 .. n /\ first + j - 1 \in 1 .. n
    BY <1>11
  <2>3. first + i - 1 <= first + j - 1
    BY <1>8
  <2> QED
    BY <1>6, <2>1, <2>2, <2>3
<1>14. ToSet(kept) = {longer[i] : i \in first .. n}
  <2>1. DOMAIN kept = 1 .. m
    BY <1>10
  <2>2. \A i \in first .. n : i - first + 1 \in 1 .. m /\ first + (i - first + 1) - 1 = i
    BY <1>1, <1>8
  <2>3. ToSet(kept) = {kept[i] : i \in 1 .. m}
    BY <2>1 DEF ToSet
  <2>4. \A i \in first .. n : longer[i] = kept[i - first + 1]
    BY <1>10, <2>2
  <2>5. \A i \in 1 .. m : kept[i] = longer[first + i - 1] /\ first + i - 1 \in first .. n
    BY <1>10, <1>11
  <2> HIDE DEF m
  <2> QED
    BY <2>2, <2>3, <2>4, <2>5
<1>15. \A i \in 1 .. n : i \in first .. n <=> longer[i].ts >= moment - length
  <2> TAKE i \in 1 .. n
  <2>1. i \in first .. n <=> first <= i
    BY <1>1, <1>8
  <2>2. longer[first].ts >= moment - length
    BY <1>8
  <2>3. first <= i => longer[first].ts <= longer[i].ts
    BY <1>6, <1>8
  <2>4. longer[i].ts >= moment - length => first <= i
    BY <1>8
  <2>5. longer[first].ts \in Nat /\ longer[i].ts \in Nat
    BY <1>3, <1>8
  <2> QED
    BY <1>2, <2>1, <2>2, <2>3, <2>4, <2>5
<1>16. ToSet(kept) = {x \in all \cup {e} : x.ts >= e.ts - length}
  <2>1. ASSUME NEW i \in first .. n
        PROVE  longer[i] \in all \cup {e} /\ longer[i].ts >= e.ts - length
    <3>1. i \in 1 .. n
      BY <1>1, <1>8
    <3>2. longer[i].ts >= e.ts - length
      BY <1>15, <3>1
    <3>3. longer[i] = e \/ longer[i] \in all
      BY <1>1, <1>5, <3>1
    <3> QED
      BY <3>2, <3>3
  <2>2. ASSUME NEW x \in all, x.ts >= e.ts - length
        PROVE  \E i \in first .. n : x = longer[i]
    <3>1. entries # <<>> /\ x.ts >= Last(entries).ts - length
      <4>1. entries # <<>>
        BY DEF Covers
      <4>2. Last(entries) \in all
        <5>1. Len(entries) \in 1 .. Len(entries)
          BY <4>1 DEF Covers
        <5> QED
          BY <1>5, <5>1 DEF Last
      <4>3. Last(entries).ts <= moment /\ Last(entries).ts \in Nat /\ x.ts \in Nat
        BY <4>2 DEF Covers, WindowEntries
      <4> QED
        BY <1>2, <2>2, <4>1, <4>3
    <3>2. x \in ToSet(entries)
      BY <3>1 DEF Covers, length
    <3>3. PICK i \in 1 .. Len(entries) : x = entries[i]
      BY <3>2 DEF ToSet, Covers
    <3>4. i \in 1 .. n /\ i # n
      BY <3>3 DEF n, Covers
    <3>5. longer[i] = x
      BY <1>1, <3>3, <3>4 DEF longer, Covers
    <3>6. i \in first .. n
      BY <1>15, <2>2, <3>4, <3>5
    <3> QED
      BY <3>5, <3>6
  <2>3. n \in first .. n /\ longer[n] = e
    BY <1>1, <1>8
  <2> QED
    BY <1>14, <2>1, <2>2, <2>3
<1>17. \A x \in all \cup {e} : x.ts <= e.ts
  BY <1>2
<1>18. all \cup {e} \in SUBSET WindowEntries
  BY DEF Covers
<1> QED
  BY <1>9, <1>10, <1>12, <1>13, <1>16, <1>17, <1>18 DEF Covers, longer, length

LEMMA ScoreStarts ==
    ASSUME ScoreInit
    PROVE  ScoreInv
<1>1. moment \in Nat /\ BooksShape /\ taken = {}
  BY DEF ScoreInit, BooksShape
<1>2. \A w \in DOMAIN WindowLength : windows[w] = <<>>
  BY DEF ScoreInit
<1>3. windows = [w \in DOMAIN WindowLength |-> windows[w]]
  BY DEF ScoreInit
<1>4. \A w \in DOMAIN WindowLength : Covers(windows[w], taken, WindowLength[w])
  <2>1. <<>> \in Seq(WindowEntries) /\ Len(<<>>) = 0
    OBVIOUS
  <2>2. \A i \in 1 .. 0 : FALSE
    OBVIOUS
  <2> TAKE w \in DOMAIN WindowLength
  <2>3. windows[w] = <<>> /\ taken = {}
    BY <1>1, <1>2
  <2> QED
    BY <2>1, <2>2, <2>3 DEF Covers
<1> QED
  BY <1>1, <1>3, <1>4 DEF ScoreInv

LEMMA ScoreKept ==
    ASSUME ScoreInv, [ScoreNext]_scoreVars
    PROVE  ScoreInv'
<1>1. CASE UNCHANGED scoreVars
  BY <1>1 DEF ScoreInv, BooksShape, scoreVars
<1>2. CASE MomentPasses
  <2>1. moment' = moment + 1 /\ UNCHANGED <<depth, mine, windows, taken>>
    BY <1>2 DEF MomentPasses
  <2>2. \A e \in taken : e.ts <= moment + 1
    BY DEF ScoreInv, WindowEntries
  <2> QED
    BY <2>1, <2>2 DEF ScoreInv, BooksShape
<1>3. CASE OwnOrdersSet
  <2>1. mine' \in [BookSides -> [Ticks -> Nat]]
    <3>1. OwnSizes \cup {0} \subseteq Nat
      BY ScoreAssumption
    <3>2. mine' \in [BookSides -> [Ticks -> OwnSizes \cup {0}]]
      BY <1>3 DEF OwnOrdersSet
    <3> DEFINE sizes == OwnSizes \cup {0}
    <3> HIDE DEF sizes
    <3>3. [Ticks -> sizes] \subseteq [Ticks -> Nat]
      BY <3>1 DEF sizes
    <3> QED
      BY <3>2, <3>3 DEF sizes
  <2>2. UNCHANGED <<moment, depth, windows, taken>>
    BY <1>3 DEF OwnOrdersSet
  <2> QED
    BY <2>1, <2>2 DEF ScoreInv, BooksShape
<1>4. ASSUME NEW s \in BookSides, SideCleared(s)
      PROVE  ScoreInv'
  <2>1. depth' \in [BookSides -> [Ticks -> Nat]]
    BY <1>4 DEF SideCleared, ScoreInv, BooksShape
  <2> QED
    BY <1>4, <2>1 DEF SideCleared, ScoreInv, BooksShape
<1>5. ASSUME NEW s \in BookSides, NEW p \in Ticks, LevelChanges(s, p)
      PROVE  ScoreInv'
  <2>1. PICK d \in -MostResting .. MostResting :
          depth' = [depth EXCEPT ![s][p] = IF depth[s][p] + d <= 0 THEN 0 ELSE depth[s][p] + d]
    BY <1>5 DEF LevelChanges
  <2>2. depth[s][p] \in Nat /\ d \in Int
    BY ScoreAssumption DEF ScoreInv, BooksShape
  <2>3. (IF depth[s][p] + d <= 0 THEN 0 ELSE depth[s][p] + d) \in Nat
    BY <2>2
  <2>4. depth' \in [BookSides -> [Ticks -> Nat]]
    BY <2>1, <2>3 DEF ScoreInv, BooksShape
  <2>5. UNCHANGED <<moment, mine, windows, taken>>
    BY <1>5 DEF LevelChanges
  <2> QED
    BY <2>4, <2>5 DEF ScoreInv, BooksShape
<1>6. CASE SnapshotTaken
  <2> DEFINE entry == [ts |-> moment, shown |-> OursShown, excess |-> OurScore > TotalScore]
  <2>1. /\ Scorable /\ UNCHANGED <<moment, depth, mine>>
        /\ windows' = [w \in DOMAIN WindowLength |-> Within(w, Append(windows[w], entry))]
        /\ taken' = taken \cup {entry}
    BY <1>6 DEF SnapshotTaken
  <2>2. /\ entry \in WindowEntries /\ entry.ts = moment
        /\ ~(entry.shown /\ entry.excess)
    <3>1. OursShown \in BOOLEAN /\ (OurScore > TotalScore) \in BOOLEAN
      BY DEF OursShown
    <3>2. entry.ts = moment /\ entry.shown = OursShown /\ entry.excess = (OurScore > TotalScore)
      OBVIOUS
    <3>3. ~(OursShown /\ OurScore > TotalScore)
      BY <2>1, NoExcess DEF ScoreInv
    <3>4. moment \in Nat
      BY DEF ScoreInv
    <3> QED
      BY <3>1, <3>2, <3>3, <3>4 DEF WindowEntries
  <2> HIDE DEF entry
  <2>3. \A w \in DOMAIN WindowLength : Covers(windows'[w], taken', WindowLength[w])
    <3> TAKE w \in DOMAIN WindowLength
    <3>1. Covers(windows[w], taken, WindowLength[w]) /\ \A e \in taken : e.ts <= moment
      BY DEF ScoreInv
    <3>2. WindowLength[w] \in Nat
      BY ScoreAssumption
    <3>3. windows'[w] = Within(w, Append(windows[w], entry))
      BY <2>1
    <3> QED
      BY <2>1, <2>2, <3>1, <3>2, <3>3, WindowSlides
  <2>4. windows' = [w \in DOMAIN WindowLength |-> windows'[w]]
    BY <2>1
  <2>5. \A e \in taken' : e.ts <= moment /\ ~(e.shown /\ e.excess)
    <3>1. moment \in Nat /\ \A e \in taken : e.ts <= moment /\ ~(e.shown /\ e.excess)
      BY DEF ScoreInv
    <3> QED
      BY <2>1, <2>2, <3>1
  <2>6. taken' \in SUBSET WindowEntries
    BY <2>1, <2>2 DEF ScoreInv
  <2>7. moment' \in Nat /\ moment' = moment /\ BooksShape'
    BY <2>1 DEF ScoreInv, BooksShape
  <2> QED
    BY <2>3, <2>4, <2>5, <2>6, <2>7 DEF ScoreInv
<1> QED
  BY <1>1, <1>2, <1>3, <1>4, <1>5, <1>6 DEF ScoreNext

\* SharesAreShares.
THEOREM SharesStayShares == ScoreSpec => []SharesAreShares
<1>1. ScoreInv => SharesAreShares
  <2> SUFFICES ASSUME ScoreInv
               PROVE  SharesAreShares
    OBVIOUS
  <2>1. \A e \in taken : ~(e.shown /\ e.excess)
    BY DEF ScoreInv
  <2>2. \A w \in DOMAIN WindowLength : windows[w] # <<>> =>
          ToSet(windows[w]) = {e \in taken : e.ts >= Last(windows[w]).ts - WindowLength[w]}
    BY DEF ScoreInv, Covers
  <2> QED
    BY <2>1, <2>2 DEF SharesAreShares
<1> QED
  BY <1>1, ScoreStarts, ScoreKept, PTL DEF ScoreSpec

-----------------------------------------------------------------------------
(* GrainQuotes.                                                            *)

\* priceOf[k] for every strike in D, from what comes before it.
PricesOn(priceOf, D, half, fairs, tops, skews) ==
    priceOf = [k \in D |-> Priced(half, fairs[k], tops[k], skews[k], Below(priceOf, k))]

\* The strikes have a last one.
LEMMA LastStrikeExists == \E n \in Nat : \A k \in Strikes : k <= n
<1> DEFINE f == [k \in Strikes |-> k]
<1>1. Strikes \subseteq Nat /\ IsFiniteSet(Strikes)
  BY GrainQuotesAssumption DEF QuoterConfig
<1>2. \A k \in Strikes : f[k] \in Nat
  BY <1>1
<1>3. SumFunctionOnSet(f, Strikes) \in Nat /\ \A k \in Strikes : f[k] <= SumFunctionOnSet(f, Strikes)
  BY <1>1, <1>2, SumAtLeast
<1> QED
  BY <1>3

\* The prices of one more strike.
LEMMA OneMoreStrike ==
    ASSUME NEW half, NEW fairs, NEW tops, NEW skews, NEW n \in Nat,
           NEW priceOf, PricesOn(priceOf, {k \in Strikes : k <= n}, half, fairs, tops, skews)
    PROVE  \E more : PricesOn(more, {k \in Strikes : k <= n + 1}, half, fairs, tops, skews)
<1> DEFINE D == {k \in Strikes : k <= n}
           E == {k \in Strikes : k <= n + 1}
           more == [k \in E |-> Priced(half, fairs[k], tops[k], skews[k], Below(priceOf, k))]
<1>1. \A k \in Strikes : k \in Nat
  BY GrainQuotesAssumption DEF QuoterConfig
<1>2. \A j \in D : j \in E /\ more[j] = priceOf[j]
  BY <1>1 DEF PricesOn
<1>3. \A k \in E : \A j \in Strikes : j < k => j \in D
  BY <1>1
<1>4. \A k \in E : Below(more, k) = Below(priceOf, k)
  BY <1>2, <1>3 DEF Below
<1>5. more = [k \in E |-> Priced(half, fairs[k], tops[k], skews[k], Below(more, k))]
  BY <1>4
<1> HIDE DEF more
<1> QED
  BY <1>5 DEF PricesOn

\* The definition of PricedAll by recursion over the strikes has a solution.
LEMMA PricesExist ==
    ASSUME NEW half, NEW fairs, NEW tops, NEW skews
    PROVE  \E priceOf : PricesOn(priceOf, Strikes, half, fairs, tops, skews)
<1> DEFINE D(n) == {k \in Strikes : k <= n}
           Missing == {n \in Nat : ~\E priceOf : PricesOn(priceOf, D(n), half, fairs, tops, skews)}
<1>1. Missing = {}
  <2> SUFFICES ASSUME Missing # {}
               PROVE  FALSE
    OBVIOUS
  <2>1. PICK n \in Missing : \A m \in Missing : n <= m
    <3>1. Missing \in SUBSET Nat
      OBVIOUS
    <3> HIDE DEF Missing
    <3> QED
      BY <3>1, SmallestExists
  <2>2. CASE n = 0
    <3> DEFINE priceOf == [k \in D(0) |-> Priced(half, fairs[k], tops[k], skews[k], {})]
    <3>1. \A k \in D(0), j \in Strikes : ~(j < k)
      BY GrainQuotesAssumption DEF QuoterConfig
    <3>2. \A k \in D(0) : Below(priceOf, k) = {}
      <4> TAKE k \in D(0)
      <4>1. {i \in Strikes : i < k} = {}
        BY <3>1
      <4> HIDE DEF priceOf
      <4> QED
        BY <4>1 DEF Below
    <3>3. priceOf = [k \in D(0) |-> Priced(half, fairs[k], tops[k], skews[k], Below(priceOf, k))]
      BY <3>2
    <3> HIDE DEF priceOf
    <3>4. PricesOn(priceOf, D(0), half, fairs, tops, skews)
      BY <3>3 DEF PricesOn
    <3> QED
      BY <2>1, <2>2, <3>4
  <2>3. CASE n # 0
    <3>1. n - 1 \in Nat /\ (n - 1) + 1 = n /\ ~(n <= n - 1)
      BY <2>3
    <3>2. PICK priceOf : PricesOn(priceOf, D(n - 1), half, fairs, tops, skews)
      BY <2>1, <3>1
    <3>3. \E more : PricesOn(more, D((n - 1) + 1), half, fairs, tops, skews)
      BY <3>1, <3>2, OneMoreStrike
    <3> QED
      BY <2>1, <3>1, <3>3
  <2> QED
    BY <2>2, <2>3
<1>2. PICK n \in Nat : \A k \in Strikes : k <= n
  BY LastStrikeExists
<1>3. D(n) = Strikes
  BY <1>2
<1>4. n \notin Missing
  BY <1>1
<1> QED
  BY <1>3, <1>4

LEMMA PricedAllSolves ==
    ASSUME NEW half, NEW fairs, NEW tops, NEW skews
    PROVE  PricesOn(PricedAll(half, fairs, tops, skews), Strikes, half, fairs, tops, skews)
BY PricesExist DEF PricedAll, PricesOn

-----------------------------------------------------------------------------
Prices == [bid : 1 .. 98, ask : 2 .. 99]

\* A price that is quoted is no dearer than those below it.
GoodPrice(p, lower) ==
    p # NoPrice => /\ p \in Prices /\ p.bid < p.ask
                   /\ \A q \in lower : p.bid <= q.bid /\ p.ask <= q.ask

LEMMA LeastOfPrices ==
    ASSUME NEW S \in SUBSET (1 .. 99), S # {}
    PROVE  Min(S) \in S /\ \A y \in S : Min(S) <= y
<1>1. S \in SUBSET Nat
  <2>1. \A y \in 1 .. 99 : y \in Nat
    OBVIOUS
  <2> QED
    BY <2>1
<1>2. \E x \in S : \A y \in S : x <= y
  BY <1>1, SmallestExists
<1> QED
  BY <1>2 DEF Min

LEMMA NoDearerIsLeast ==
    ASSUME NEW lower \in SUBSET Prices, NEW p, p.bid \in 1 .. 99, p.ask \in 1 .. 99
    PROVE  /\ NoDearer(p, lower).bid \in 1 .. 99 /\ NoDearer(p, lower).ask \in 1 .. 99
           /\ \A q \in lower : /\ NoDearer(p, lower).bid <= q.bid
                               /\ NoDearer(p, lower).ask <= q.ask
<1> DEFINE B == {p.bid} \cup {q.bid : q \in lower}
           A == {p.ask} \cup {q.ask : q \in lower}
<1>1. \A q \in lower : q.bid \in 1 .. 99 /\ q.ask \in 1 .. 99
  BY DEF Prices
<1>2. B \in SUBSET (1 .. 99) /\ A \in SUBSET (1 .. 99) /\ B # {} /\ A # {}
  BY <1>1
<1>3. NoDearer(p, lower).bid = Min(B) /\ NoDearer(p, lower).ask = Min(A)
  BY DEF NoDearer
<1>4. \A q \in lower : q.bid \in B /\ q.ask \in A
  OBVIOUS
<1> HIDE DEF A, B
<1>5. /\ Min(B) \in B /\ \A y \in B : Min(B) <= y
      /\ Min(A) \in A /\ \A y \in A : Min(A) <= y
  BY <1>2, LeastOfPrices
<1> QED
  BY <1>2, <1>3, <1>4, <1>5

LEMMA PricedIsGood ==
    ASSUME NEW half \in Int, NEW fair \in Int, NEW top \in (0 .. 100) \X (0 .. 100), NEW skew \in Int,
           NEW lower \in SUBSET Prices
    PROVE  GoodPrice(Priced(half, fair, top, skew, lower), lower)
<1> DEFINE raw == [bid |-> InBand(RawBid(half, fair, top) - skew),
                   ask |-> InBand(RawAsk(half, fair, top) - skew)]
           clear == Uncrossed(raw, top)
           final == NoDearer(clear, lower)
<1>1. Priced(half, fair, top, skew, lower) =
        IF /\ fair \in 1 .. 99 /\ raw.bid < raw.ask
           /\ Usable(clear) /\ clear.ask - clear.bid > 2 * MakerFee + FeeThreshold
           /\ Usable(final)
        THEN final ELSE NoPrice
  BY DEF Priced
<1> SUFFICES ASSUME Usable(clear), Usable(final)
             PROVE  /\ final \in Prices /\ final.bid < final.ask
                    /\ \A q \in lower : final.bid <= q.bid /\ final.ask <= q.ask
  BY <1>1 DEF GoodPrice
<1>2. raw.bid \in Int /\ raw.ask \in Int
  <2>1. MaxHalf \in Nat
    BY GrainQuotesAssumption DEF QuoterConfig
  <2>2. top[1] \in Int /\ top[2] \in Int
    OBVIOUS
  <2>3. \A a, b \in Int : Up(a, b) \in Int /\ Down(a, b) \in Int
    BY DEF Up, Down
  <2>4. RawBid(half, fair, top) \in Int /\ RawAsk(half, fair, top) \in Int
    <3>1. fair - half \in Int /\ fair + half \in Int /\ fair - MaxHalf \in Int /\ fair + MaxHalf \in Int
      BY <2>1
    <3>2. top[1] + 1 \in Int /\ top[2] - 1 \in Int
      BY <2>2
    <3>3. /\ Up(Down(top[1] + 1, fair - half), fair - MaxHalf) \in Int
          /\ Down(Up(top[2] - 1, fair + half), fair + MaxHalf) \in Int
      BY <2>3, <3>1, <3>2
    <3> QED
      BY <3>1, <3>3 DEF RawBid, RawAsk
  <2>5. \A a \in Int : InBand(a) \in Int
    BY <2>3 DEF InBand
  <2> QED
    BY <2>4, <2>5
<1> HIDE DEF raw
<1>3. clear.bid \in Int /\ clear.ask \in Int
  <2>1. top[1] \in Int /\ top[2] \in Int
    OBVIOUS
  <2> QED
    BY <1>2, <2>1 DEF Uncrossed
<1> HIDE DEF clear
<1>4. clear.bid \in 1 .. 99 /\ clear.ask \in 1 .. 99
  BY <1>3 DEF Usable
<1>5. /\ final.bid \in 1 .. 99 /\ final.ask \in 1 .. 99
      /\ \A q \in lower : final.bid <= q.bid /\ final.ask <= q.ask
  BY <1>4, NoDearerIsLeast
<1>6. final = [bid |-> final.bid, ask |-> final.ask]
  BY DEF NoDearer
<1> HIDE DEF final
<1>7. final.bid < final.ask
  BY DEF Usable
<1>8. final.bid \in 1 .. 98 /\ final.ask \in 2 .. 99
  BY <1>5, <1>7
<1>9. final \in Prices
  BY <1>6, <1>8 DEF Prices
<1> QED
  BY <1>5, <1>7, <1>9

\* Strike by strike.
LEMMA AllPricesGood ==
    ASSUME NEW half \in Int, NEW fairs \in [Strikes -> Int],
           NEW tops \in [Strikes -> (0 .. 100) \X (0 .. 100)],
           NEW skews \in [Strikes -> Int], NEW priceOf,
           PricesOn(priceOf, Strikes, half, fairs, tops, skews)
    PROVE  \A k \in Strikes : GoodPrice(priceOf[k], Below(priceOf, k))
<1> DEFINE Bad == {k \in Strikes : ~GoodPrice(priceOf[k], Below(priceOf, k))}
<1> SUFFICES ASSUME Bad # {}
             PROVE  FALSE
  OBVIOUS
<1>1. Strikes \subseteq Nat
  BY GrainQuotesAssumption DEF QuoterConfig
<1>2. PICK k \in Bad : \A j \in Bad : k <= j
  <2>1. Bad \in SUBSET Nat
    BY <1>1
  <2> HIDE DEF Bad
  <2> QED
    BY <2>1, SmallestExists
<1>3. \A j \in Strikes : j < k => GoodPrice(priceOf[j], Below(priceOf, j))
  BY <1>1, <1>2
<1>4. Below(priceOf, k) \in SUBSET Prices
  BY <1>3 DEF Below, GoodPrice
<1>5. priceOf[k] = Priced(half, fairs[k], tops[k], skews[k], Below(priceOf, k))
  BY DEF PricesOn
<1>6. fairs[k] \in Int /\ tops[k] \in (0 .. 100) \X (0 .. 100) /\ skews[k] \in Int
  OBVIOUS
<1>7. GoodPrice(priceOf[k], Below(priceOf, k))
  BY <1>4, <1>5, <1>6, PricedIsGood
<1> QED
  BY <1>7

\* Every cycle starts from nothing, so that NoArbitrage needs no more than itself.
LEMMA CycleMakesNoArbitrage ==
    ASSUME GrainCycle
    PROVE  NoArbitrage'
<1>1. CASE quoting' = [k \in Strikes |-> Nothing]
  BY <1>1 DEF NoArbitrage, Nothing
<1>2. CASE quoting' # [k \in Strikes |-> Nothing]
  <2> DEFINE gate == ReleaseGate
             size == Up(1, Hundredth(BaseSize * gate.size))
             Kept(side, p) == IF signal'.side = side THEN 0 ELSE p
  <2>1. PICK fairs \in [Strikes -> Survivals], tops \in [Strikes -> Tops], skews \in [Strikes -> Skews] :
          LET priceOf == PricedAll(HalfSpread(gate), fairs, tops, skews)
          IN  quoting' = [k \in Strikes |-> IF priceOf[k] = NoPrice THEN Nothing ELSE
                [bid |-> Kept("bid", priceOf[k].bid), ask |-> Kept("ask", priceOf[k].ask), size |-> size]]
    BY <1>2 DEF GrainCycle
  <2> DEFINE priceOf == PricedAll(HalfSpread(gate), fairs, tops, skews)
  <2>2. fairs \in [Strikes -> Int] /\ tops \in [Strikes -> (0 .. 100) \X (0 .. 100)]
        /\ skews \in [Strikes -> Int]
    <3>1. Survivals \subseteq Int /\ Skews \subseteq Int /\ Tops \subseteq (0 .. 100) \X (0 .. 100)
      BY GrainQuotesAssumption DEF QuoterConfig
    <3> QED
      BY <2>1, <3>1
  <2>3. HalfSpread(gate) \in Int
    <3>1. gate.spread \in Int
      BY DEF ReleaseGate
    <3>2. MinHalf \in Int
      BY GrainQuotesAssumption DEF QuoterConfig
    <3>3. Hundredth(MinHalf * gate.spread) \in Int
      BY <3>1, <3>2 DEF Hundredth
    <3> QED
      BY <3>2, <3>3 DEF HalfSpread, Up
  <2>4. PricesOn(priceOf, Strikes, HalfSpread(gate), fairs, tops, skews)
    BY PricedAllSolves
  <2> HIDE DEF priceOf, gate
  <2>5. \A k \in Strikes : GoodPrice(priceOf[k], Below(priceOf, k))
    BY <2>2, <2>3, <2>4, AllPricesGood
  <2> SUFFICES ASSUME NEW j \in Strikes, NEW k \in Strikes, j <= k, quoting'[j].ask > 0
               PROVE  quoting'[k].bid < quoting'[j].ask
    BY DEF NoArbitrage
  <2>6. \A i \in Strikes :
          /\ priceOf[i] = NoPrice => quoting'[i].bid = 0 /\ quoting'[i].ask = 0
          /\ priceOf[i] # NoPrice => /\ quoting'[i].bid \in {0, priceOf[i].bid}
                               /\ quoting'[i].ask \in {0, priceOf[i].ask}
    <3> TAKE i \in Strikes
    <3>1. quoting'[i] = IF priceOf[i] = NoPrice THEN Nothing
            ELSE [bid |-> Kept("bid", priceOf[i].bid), ask |-> Kept("ask", priceOf[i].ask), size |-> size]
      BY <2>1 DEF priceOf
    <3>2. CASE priceOf[i] = NoPrice
      BY <3>1, <3>2 DEF Nothing
    <3>3. CASE priceOf[i] # NoPrice
      <4>1. /\ quoting'[i].bid = Kept("bid", priceOf[i].bid)
            /\ quoting'[i].ask = Kept("ask", priceOf[i].ask)
        <5> HIDE DEF Kept, size
        <5> QED
          BY <3>1, <3>3
      <4> QED
        BY <3>3, <4>1
    <3> QED
      BY <3>2, <3>3
  <2>7. priceOf[j] # NoPrice /\ quoting'[j].ask = priceOf[j].ask
    <3>1. ~(0 > 0)
      OBVIOUS
    <3> HIDE DEF Kept, size
    <3> QED
      BY <2>6, <3>1
  <2>8. priceOf[j] \in Prices /\ priceOf[j].bid < priceOf[j].ask
    BY <2>5, <2>7 DEF GoodPrice
  <2>9. CASE priceOf[k] = NoPrice
    <3>1. quoting'[k].bid = 0
      BY <2>6, <2>9
    <3>2. priceOf[j].ask > 0
      BY <2>8 DEF Prices
    <3> QED
      BY <2>7, <3>1, <3>2
  <2>10. CASE priceOf[k] # NoPrice
    <3>1. quoting'[k].bid \in {0, priceOf[k].bid}
      BY <2>6, <2>10
    <3>2. priceOf[k] \in Prices /\ priceOf[k].bid < priceOf[k].ask
      BY <2>5, <2>10 DEF GoodPrice
    <3>3. priceOf[k].bid <= priceOf[j].bid
      <4>1. CASE j = k
        BY <3>2, <4>1 DEF Prices
      <4>2. CASE j # k
        <5>1. j < k
          BY <4>2, GrainQuotesAssumption DEF QuoterConfig
        <5>2. priceOf[j] \in Below(priceOf, k)
          BY <2>7, <5>1 DEF Below
        <5> QED
          BY <2>5, <2>10, <5>2 DEF GoodPrice
      <4> QED
        BY <4>1, <4>2
    <3> QED
      <4>1. /\ priceOf[j].bid \in 1 .. 98 /\ priceOf[j].ask \in 2 .. 99
            /\ priceOf[k].bid \in 1 .. 98
        BY <2>8, <3>2 DEF Prices
      <4>2. 0 < priceOf[j].ask /\ priceOf[k].bid < priceOf[j].ask
        <5>1. \A a, b \in 1 .. 98, c \in 2 .. 99 : a <= b /\ b < c => 0 < c /\ a < c
          OBVIOUS
        <5> QED
          BY <2>8, <3>3, <4>1, <5>1
      <4>3. quoting'[k].bid = 0 \/ quoting'[k].bid = priceOf[k].bid
        BY <3>1
      <4> QED
        BY <2>7, <4>2, <4>3
  <2> QED
    BY <2>9, <2>10
<1> QED
  BY <1>1, <1>2

\* NoArbitrage.
THEOREM NoRisklessProfit == GrainQuotesSpec => []NoArbitrage
<1>1. GrainQuotesInit => NoArbitrage
  BY DEF GrainQuotesInit, NoArbitrage, Nothing
<1>2. NoArbitrage /\ [GrainQuotesNext]_grainQuoteVars => NoArbitrage'
  <2> SUFFICES ASSUME NoArbitrage, [GrainQuotesNext]_grainQuoteVars
               PROVE  NoArbitrage'
    OBVIOUS
  <2>1. CASE UNCHANGED grainQuoteVars \/ TradeSeen
    BY <2>1 DEF NoArbitrage, grainQuoteVars, TradeSeen
  <2>2. CASE TimePasses
    BY <2>2 DEF NoArbitrage, TimePasses, Nothing
  <2>3. CASE GrainCycle
    BY <2>3, CycleMakesNoArbitrage
  <2> QED
    BY <2>1, <2>2, <2>3 DEF GrainQuotesNext
<1> QED
  BY <1>1, <1>2, PTL DEF GrainQuotesSpec

-----------------------------------------------------------------------------
(* EventGrid.                                                              *)

\* Exactly one of the buckets holds the price.
OneHolds(b, price) ==
    \E i \in 1 .. Len(b) : Holds(b[i], price) /\ \A j \in 1 .. Len(b) : Holds(b[j], price) => j = i

LEMMA BucketTyped ==
    ASSUME NEW b \in Seq(Bucket), NEW i \in 1 .. Len(b)
    PROVE  /\ b[i].lower \in Nat /\ b[i].upper \in Nat
           /\ b[i].lower # 0 => b[i].lower \in StrikePrices
           /\ b[i].upper # 0 => b[i].upper \in StrikePrices
<1>1. b[i] \in Bucket
  BY ElementOfSeq
<1>2. b[i].lower \in StrikePrices \cup {0} /\ b[i].upper \in StrikePrices \cup {0}
  BY <1>1 DEF Bucket, NoStrike
<1>3. \A u \in StrikePrices \cup {0} : u \in Nat /\ (u # 0 => u \in StrikePrices)
  BY GridAssumption
<1>4. /\ b[i].lower \in Nat /\ (b[i].lower # 0 => b[i].lower \in StrikePrices)
      /\ b[i].upper \in Nat /\ (b[i].upper # 0 => b[i].upper \in StrikePrices)
  BY <1>2, <1>3
<1> QED
  BY <1>4

\* In a grid that is accepted the edges between the buckets go up.
LEMMA EdgesRise ==
    ASSUME NEW b \in Seq(Bucket), GridAccepted(b),
           NEW i \in 1 .. Len(b) - 1, NEW j \in 1 .. Len(b) - 1, i <= j
    PROVE  b[i].upper <= b[j].upper
<1> DEFINE C == {m \in 1 .. Len(b) - 1 : i <= m /\ ~(b[i].upper <= b[m].upper)}
<1> SUFFICES ASSUME C # {}
             PROVE  FALSE
  OBVIOUS
<1>1. Len(b) \in Nat
  OBVIOUS
<1>2. PICK m \in C : \A k \in C : m <= k
  <2>1. C \in SUBSET Nat
    BY <1>1
  <2> HIDE DEF C
  <2> QED
    BY <2>1, SmallestExists
<1>3. m \in 1 .. Len(b) - 1 /\ i <= m /\ ~(b[i].upper <= b[m].upper)
  BY <1>2
<1>4. i \in 1 .. Len(b) /\ m \in 1 .. Len(b)
  BY <1>1, <1>3
<1>5. b[i].upper \in Nat /\ b[m].upper \in Nat
  BY <1>4, BucketTyped
<1>6. i < m
  BY <1>1, <1>3, <1>5
<1>7. m - 1 \in 1 .. Len(b) - 1 /\ i <= m - 1 /\ m - 1 < m /\ (m - 1) + 1 = m
      /\ m \in 2 .. Len(b) - 1 /\ m - 1 \in 1 .. Len(b)
  BY <1>1, <1>3, <1>6
<1>8. b[i].upper <= b[m - 1].upper
  <2>1. m - 1 \notin C
    BY <1>2, <1>7
  <2> QED
    BY <1>7, <2>1
<1>9. b[m - 1].upper = b[m].lower
  BY <1>7 DEF GridAccepted, Contiguous
<1>10. b[m].lower < b[m].upper
  BY <1>7 DEF GridAccepted
<1>11. b[m].lower \in Nat
  BY <1>4, BucketTyped
<1>12. \A u, v, w \in Nat : u <= v /\ v < w => u <= w
  OBVIOUS
<1>13. b[i].upper <= b[m].lower
  BY <1>8, <1>9
<1> QED
  BY <1>3, <1>5, <1>10, <1>11, <1>12, <1>13

\* Every price has a bucket of an accepted grid, and only one.
LEMMA AcceptedDivides ==
    ASSUME NEW b \in Seq(Bucket), GridAccepted(b), NEW x \in Int
    PROVE  OneHolds(b, x)
<1> DEFINE n == Len(b)
           T == {i \in 1 .. n : i = n \/ x < b[i].upper}
<1>1. n \in Nat /\ n >= 2
  BY DEF GridAccepted
<1>2. \A i \in 1 .. n : b[i].lower \in Nat /\ b[i].upper \in Nat
  BY BucketTyped
<1>3. /\ b[1].lower = 0 /\ b[n].upper = 0
      /\ \A i \in 1 .. n - 1 : /\ b[i].upper # 0 /\ b[i + 1].lower # 0
                               /\ b[i].upper = b[i + 1].lower
  <2>1. Head(b) = b[1] /\ Last(b) = b[n]
    BY <1>1 DEF Last
  <2>2. b[1].lower = 0 /\ b[n].upper = 0
    BY <2>1 DEF GridAccepted, NoStrike
  <2>3. Contiguous(b)
    BY DEF GridAccepted
  <2> QED
    BY <2>2, <2>3 DEF Contiguous, NoStrike
<1>4. \A i \in 1 .. n : Holds(b[i], x) <=> /\ (i = 1 \/ b[i - 1].upper <= x)
                                          /\ (i = n \/ x < b[i].upper)
  <2> TAKE i \in 1 .. n
  <2>1. i # 1 => i - 1 \in 1 .. n - 1 /\ (i - 1) + 1 = i
    BY <1>1
  <2>2. i # 1 => b[i].lower # 0 /\ b[i].lower = b[i - 1].upper
    BY <1>3, <2>1
  <2>3. i # n => b[i].upper # 0
    BY <1>1, <1>3
  <2> HIDE DEF n
  <2> QED
    BY <1>3, <2>2, <2>3 DEF Holds, NoStrike
<1>5. PICK i \in T : \A j \in T : i <= j
  <2>1. T \in SUBSET Nat
    BY <1>1
  <2>2. n \in T
    BY <1>1
  <2> HIDE DEF T
  <2> QED
    BY <2>1, <2>2, SmallestExists
<1>6. i \in 1 .. n
  BY <1>5
<1>7. Holds(b[i], x)
  <2>1. ASSUME i # 1
        PROVE  b[i - 1].upper <= x
    <3>1. i - 1 \in 1 .. n /\ ~(i <= i - 1) /\ i - 1 # n
      BY <1>1, <1>6, <2>1
    <3>2. i - 1 \notin T
      BY <1>5, <3>1
    <3>3. ~(x < b[i - 1].upper)
      BY <3>1, <3>2
    <3> QED
      BY <1>2, <3>1, <3>3
  <2> QED
    BY <1>4, <1>5, <1>6, <2>1
<1>8. ASSUME NEW j \in 1 .. n, NEW k \in 1 .. n, Holds(b[j], x), Holds(b[k], x), j < k
      PROVE  FALSE
  <2>1. j # n /\ k # 1 /\ j \in 1 .. n - 1 /\ k - 1 \in 1 .. n - 1 /\ j <= k - 1
    BY <1>1, <1>8
  <2>2. x < b[j].upper /\ b[k - 1].upper <= x
    BY <1>4, <1>8, <2>1
  <2>3. b[j].upper <= b[k - 1].upper
    BY <2>1, EdgesRise
  <2>4. b[j].upper \in Nat /\ b[k - 1].upper \in Nat
    <3>1. k - 1 \in 1 .. n
      BY <1>1, <2>1
    <3> QED
      BY <1>2, <3>1
  <2> QED
    BY <2>2, <2>3, <2>4
<1>9. \A j \in 1 .. n : Holds(b[j], x) => j = i
  <2> TAKE j \in 1 .. n
  <2>1. i \in Int /\ j \in Int
    BY <1>1, <1>6
  <2> QED
    BY <1>6, <1>7, <1>8, <2>1
<1> QED
  BY <1>6, <1>7, <1>9 DEF OneHolds

-----------------------------------------------------------------------------
(* Buckets in order of which each price of the sample has exactly one.     *)

Ordered(b) ==
    /\ b \in Seq(Bucket) /\ Len(b) >= 2 /\ InOrder(b)
    /\ \A x \in SamplePrices : OneHolds(b, x)
    /\ \A i \in 1 .. Len(b) : Rank(b[i]) = 1 => b[i].lower < b[i].upper

LEMMA SamplesAre ==
    /\ \A p \in StrikePrices : p \in SamplePrices /\ p - 1 \in SamplePrices /\ p \in Nat \ {0}
    /\ \A x \in SamplePrices : x \in Nat
<1>1. \A p \in StrikePrices : p \in Nat \ {0}
  BY GridAssumption
<1>2. \A p \in Nat \ {0} : p - 1 \in Nat
  OBVIOUS
<1> QED
  BY <1>1, <1>2 DEF SamplePrices

\* No two hold one price.
LEMMA NoTwoHold ==
    ASSUME NEW b, Ordered(b), NEW i \in 1 .. Len(b), NEW j \in 1 .. Len(b),
           NEW x \in SamplePrices, Holds(b[i], x), Holds(b[j], x)
    PROVE  i = j
BY DEF Ordered, OneHolds

\* A bucket with a lower strike holds it.
LEMMA LowerIsHeld ==
    ASSUME NEW b, Ordered(b), NEW i \in 1 .. Len(b), b[i].lower # 0
    PROVE  b[i].lower \in SamplePrices /\ Holds(b[i], b[i].lower)
<1>1. /\ b[i].lower \in Nat /\ b[i].upper \in Nat /\ b[i].lower \in StrikePrices
  BY BucketTyped DEF Ordered
<1>2. b[i].upper # 0 => b[i].lower < b[i].upper
  BY DEF Ordered, Rank, NoStrike
<1> QED
  BY <1>1, <1>2, SamplesAre DEF Holds, NoStrike

\* None is without both strikes.
LEMMA NoneHoldsAll ==
    ASSUME NEW b, Ordered(b), NEW i \in 1 .. Len(b), b[i].lower = 0
    PROVE  b[i].upper # 0
<1> SUFFICES ASSUME b[i].upper = 0
             PROVE  FALSE
  OBVIOUS
<1>1. \A x \in SamplePrices : Holds(b[i], x)
  BY DEF Holds, NoStrike
<1>2. PICK j \in 1 .. Len(b) : j # i
  <2>1. 1 \in 1 .. Len(b) /\ 2 \in 1 .. Len(b)
    BY DEF Ordered
  <2> QED
    BY <2>1
<1>3. PICK x \in SamplePrices : Holds(b[j], x)
  <2>1. CASE b[j].lower # 0
    BY <2>1, LowerIsHeld
  <2>2. CASE b[j].lower = 0 /\ b[j].upper # 0
    <3>1. b[j].upper \in StrikePrices
      BY <2>2, BucketTyped DEF Ordered
    <3>2. b[j].upper - 1 \in SamplePrices /\ b[j].upper - 1 < b[j].upper
      BY <3>1, SamplesAre
    <3> QED
      BY <2>2, <3>2 DEF Holds, NoStrike
  <2>3. CASE b[j].lower = 0 /\ b[j].upper = 0
    <3>1. PICK p \in StrikePrices : TRUE
      BY GridAssumption
    <3> QED
      BY <2>3, <3>1, SamplesAre DEF Holds, NoStrike
  <2> QED
    BY <2>1, <2>2, <2>3
<1> QED
  BY <1>1, <1>2, <1>3, NoTwoHold

LEMMA LowersRise ==
    ASSUME NEW b, Ordered(b), NEW i \in 1 .. Len(b), NEW j \in 1 .. Len(b), i < j
    PROVE  b[i].lower < b[j].lower
<1>1. /\ b[i].lower \in Nat /\ b[i].upper \in Nat /\ b[j].lower \in Nat /\ b[j].upper \in Nat
      /\ b[i].upper # 0 => b[i].upper \in StrikePrices
      /\ b[j].upper # 0 => b[j].upper \in StrikePrices
  BY BucketTyped DEF Ordered
<1>2. ~Before(b[j], b[i])
  BY DEF Ordered, InOrder
<1>3. CASE b[i].lower = 0
  <2>1. b[i].upper # 0 /\ b[i].upper \in StrikePrices
    BY <1>1, <1>3, NoneHoldsAll
  <2>2. CASE b[j].lower = 0
    <3>1. b[j].upper # 0 /\ b[j].upper \in StrikePrices
      BY <1>1, <2>2, NoneHoldsAll
    <3>2. PICK u \in {b[i].upper, b[j].upper} : u <= b[i].upper /\ u <= b[j].upper
      <4>1. \A v, w \in Nat : v <= v /\ w <= w /\ (v <= w \/ w <= v)
        OBVIOUS
      <4> QED
        BY <1>1, <4>1
    <3>3. u - 1 \in SamplePrices /\ u - 1 < b[i].upper /\ u - 1 < b[j].upper
      <4>1. u \in StrikePrices
        BY <2>1, <3>1
      <4>2. u - 1 \in SamplePrices /\ u \in Nat
        BY <4>1, SamplesAre
      <4> QED
        BY <1>1, <3>2, <4>2
    <3>4. Holds(b[i], u - 1) /\ Holds(b[j], u - 1)
      BY <1>3, <2>2, <3>3 DEF Holds, NoStrike
    <3>5. i = j
      BY <3>3, <3>4, NoTwoHold
    <3> QED
      BY <3>5
  <2> QED
    BY <1>1, <1>3, <2>2
<1>4. CASE b[i].lower # 0
  <2>1. b[j].lower # 0
    <3>1. Rank(b[j]) = 0 \/ b[j].lower # 0
      BY DEF Rank, NoStrike
    <3>2. Rank(b[i]) > 0
      BY <1>4 DEF Rank, NoStrike
    <3> QED
      BY <1>2, <3>1, <3>2 DEF Before
  <2>2. b[i].lower # b[j].lower
    <3> SUFFICES ASSUME b[i].lower = b[j].lower
                 PROVE  FALSE
      OBVIOUS
    <3>1. i = j
      BY <1>4, <2>1, LowerIsHeld, NoTwoHold
    <3> QED
      BY <3>1
  <2>3. ~(b[j].lower < b[i].lower)
    <3> SUFFICES ASSUME b[j].lower < b[i].lower
                 PROVE  FALSE
      OBVIOUS
    <3>1. Rank(b[i]) \in {1, 2} /\ Rank(b[j]) \in {1, 2}
      BY <1>4, <2>1 DEF Rank, NoStrike
    <3>2. Rank(b[i]) < Rank(b[j])
      BY <1>2, <3>1 DEF Before
    <3>3. b[j].upper = 0
      BY <3>1, <3>2, <2>1 DEF Rank, NoStrike
    <3>4. Holds(b[j], b[i].lower)
      BY <1>1, <3>3 DEF Holds, NoStrike
    <3>5. b[i].lower \in SamplePrices /\ Holds(b[i], b[i].lower)
      BY <1>4, LowerIsHeld
    <3>6. i = j
      BY <3>4, <3>5, NoTwoHold
    <3> QED
      BY <3>6
  <2> QED
    BY <1>1, <2>2, <2>3
<1> QED
  BY <1>3, <1>4

\* A bucket ends where or before the later ones begin.
LEMMA UpperBelowLater ==
    ASSUME NEW b, Ordered(b), NEW i \in 1 .. Len(b), NEW j \in 1 .. Len(b), i < j
    PROVE  b[i].upper # 0 /\ b[i].upper <= b[j].lower /\ b[j].lower # 0
<1>1. b[i].lower \in Nat /\ b[i].upper \in Nat /\ b[j].lower \in Nat
  BY BucketTyped DEF Ordered
<1>2. b[i].lower < b[j].lower
  BY LowersRise
<1>3. b[j].lower # 0
  BY <1>1, <1>2
<1>4. b[j].lower \in SamplePrices /\ Holds(b[j], b[j].lower)
  BY <1>3, LowerIsHeld
<1>5. ~Holds(b[i], b[j].lower)
  <2> SUFFICES ASSUME Holds(b[i], b[j].lower)
               PROVE  FALSE
    OBVIOUS
  <2>1. i = j
    BY <1>4, NoTwoHold
  <2> QED
    BY <2>1
<1> QED
  BY <1>1, <1>2, <1>3, <1>5 DEF Holds, NoStrike

LEMMA OrderedAccepted ==
    ASSUME NEW b, Ordered(b)
    PROVE  GridAccepted(b)
<1> DEFINE n == Len(b)
<1>1. n \in Nat /\ n >= 2 /\ b \in Seq(Bucket)
  BY DEF Ordered
<1>2. \A i \in 1 .. n : /\ b[i].lower \in Nat /\ b[i].upper \in Nat
                        /\ b[i].lower # 0 => b[i].lower \in StrikePrices
                        /\ b[i].upper # 0 => b[i].upper \in StrikePrices
  BY <1>1, BucketTyped
<1>3. \A i, j \in 1 .. n : i < j =>
        b[i].upper # 0 /\ b[i].upper <= b[j].lower /\ b[j].lower # 0 /\ b[i].lower < b[j].lower
  BY LowersRise, UpperBelowLater
<1>4. 1 \in 1 .. n /\ n \in 1 .. n /\ 1 < n
  BY <1>1
<1>5. b[1].lower = 0
  <2> SUFFICES ASSUME b[1].lower # 0
               PROVE  FALSE
    OBVIOUS
  <2>1. b[1].lower \in StrikePrices /\ b[1].lower \in Nat
    BY <1>2, <1>4
  <2>2. b[1].lower - 1 \in SamplePrices
    BY <2>1, SamplesAre
  <2>3. PICK k \in 1 .. n : Holds(b[k], b[1].lower - 1)
    BY <2>2 DEF Ordered, OneHolds
  <2>4. b[k].lower = 0 \/ b[k].lower <= b[1].lower - 1
    BY <2>3 DEF Holds, NoStrike
  <2>5. k = 1 \/ 1 < k
    BY <1>1
  <2>6. b[1].lower <= b[k].lower
    BY <1>2, <1>3, <1>4, <2>5
  <2>7. b[k].lower \in Nat
    BY <1>2
  <2> QED
    BY <2>1, <2>4, <2>6, <2>7
<1>6. \A i \in 2 .. n - 1 : b[i].lower < b[i].upper
  <2> TAKE i \in 2 .. n - 1
  <2>1. i \in 1 .. n /\ 1 < i /\ i < n
    BY <1>1
  <2>2. b[i].lower # 0 /\ b[i].upper # 0
    BY <1>3, <1>4, <2>1
  <2> QED
    BY <2>1, <2>2 DEF Ordered, Rank, NoStrike
<1>7. b[n].upper = 0
  <2> SUFFICES ASSUME b[n].upper # 0
               PROVE  FALSE
    OBVIOUS
  <2>1. b[n].upper \in StrikePrices /\ b[n].upper \in Nat /\ b[n].lower \in Nat
    BY <1>2, <1>4
  <2>2. PICK k \in 1 .. n : Holds(b[k], b[n].upper)
    BY <2>1, SamplesAre DEF Ordered, OneHolds
  <2>3. b[k].upper = 0 \/ b[n].upper < b[k].upper
    BY <2>2 DEF Holds, NoStrike
  <2>4. CASE k = n
    BY <2>1, <2>3, <2>4
  <2>5. CASE k # n
    <3>1. k < n
      BY <1>1, <2>5
    <3>2. b[k].upper # 0 /\ b[k].upper <= b[n].lower
      BY <1>3, <1>4, <3>1
    <3>3. b[n].lower # 0
      BY <1>3, <1>4
    <3>4. b[n].lower < b[n].upper
      BY <1>4, <3>3 DEF Ordered, Rank, NoStrike
    <3>5. b[k].upper \in Nat
      BY <1>2
    <3> QED
      BY <2>1, <2>3, <3>2, <3>4, <3>5
  <2> QED
    BY <2>4, <2>5
<1>8. ASSUME NEW i \in 1 .. n - 1
      PROVE  /\ b[i].upper # 0 /\ b[i + 1].lower # 0
             /\ b[i].upper = b[i + 1].lower
  <2>1. i \in 1 .. n /\ i + 1 \in 1 .. n /\ i < i + 1
    BY <1>1
  <2>2. b[i].upper # 0 /\ b[i + 1].lower # 0 /\ b[i].upper <= b[i + 1].lower
    BY <1>3, <2>1
  <2>3. b[i].upper \in Nat /\ b[i + 1].lower \in Nat /\ b[i].lower \in Nat
    BY <1>2, <2>1
  <2>4. ~(b[i].upper < b[i + 1].lower)
    <3> SUFFICES ASSUME b[i].upper < b[i + 1].lower
                 PROVE  FALSE
      OBVIOUS
    <3>1. b[i].upper \in SamplePrices
      BY <1>2, <2>1, <2>2, SamplesAre
    <3>2. PICK k \in 1 .. n : Holds(b[k], b[i].upper)
      BY <3>1 DEF Ordered, OneHolds
    <3>3. /\ b[k].lower = 0 \/ b[k].lower <= b[i].upper
          /\ b[k].upper = 0 \/ b[i].upper < b[k].upper
      BY <3>2 DEF Holds, NoStrike
    <3>4. b[k].upper \in Nat /\ b[k].lower \in Nat
      BY <1>2
    <3>5. CASE k = i
      BY <2>2, <2>3, <3>3, <3>5
    <3>6. CASE k < i
      <4>1. b[k].upper # 0 /\ b[k].upper <= b[i].lower /\ b[i].lower # 0
        BY <1>3, <2>1, <3>6
      <4>2. b[i].lower < b[i].upper
        BY <2>1, <2>2, <4>1 DEF Ordered, Rank, NoStrike
      <4> QED
        BY <2>3, <3>3, <3>4, <4>1, <4>2
    <3>7. CASE i < k
      <4>1. k = i + 1 \/ i + 1 < k
        BY <2>1, <3>7
      <4>2. b[i + 1].lower <= b[k].lower /\ b[k].lower # 0
        BY <1>3, <2>1, <2>2, <2>3, <3>4, <4>1
      <4> QED
        BY <2>3, <3>3, <3>4, <4>2
    <3>8. k = i \/ k < i \/ i < k
      BY <2>1
    <3> QED
      BY <3>5, <3>6, <3>7, <3>8
  <2> QED
    BY <2>2, <2>3, <2>4
<1>9. Head(b) = b[1] /\ Last(b) = b[n]
  BY <1>1 DEF Last
<1>10. b[1].upper # 0 /\ b[n].lower # 0
  BY <1>3, <1>4
<1> QED
  BY <1>1, <1>5, <1>6, <1>7, <1>8, <1>9, <1>10 DEF GridAccepted, Contiguous, NoStrike

-----------------------------------------------------------------------------
\* b has at i what s has at p[i], each of s once.
Shuffles(p, s, b) ==
    /\ p \in [1 .. Len(s) -> 1 .. Len(s)]
    /\ \A i, j \in 1 .. Len(s) : p[i] = p[j] => i = j
    /\ \A k \in 1 .. Len(s) : \E i \in 1 .. Len(s) : p[i] = k
    /\ \A i \in 1 .. Len(s) : b[i] = s[p[i]]

\* Sorting the buckets changes only their order.
LEMMA Rearranged ==
    ASSUME NEW s \in Seq(Bucket), NEW b \in Arrangements(s)
    PROVE  /\ b \in Seq(Bucket) /\ Len(b) = Len(s)
           /\ \E p : Shuffles(p, s, b)
<1> DEFINE D == 1 .. Len(s)
<1>1. Len(s) \in Nat /\ DOMAIN s = D
  OBVIOUS
<1>2. PICK p \in Bijection(D, D) : b = [i \in D |-> s[p[i]]]
  BY <1>1 DEF Arrangements
<1>3. /\ p \in [D -> D]
      /\ \A i, j \in D : p[i] = p[j] => i = j
      /\ \A k \in D : \E i \in D : p[i] = k
  BY <1>2 DEF Bijection, Injection, Surjection, IsInjective
<1>4. \A i \in D : b[i] = s[p[i]] /\ b[i] \in Bucket
  BY <1>2, <1>3, ElementOfSeq
<1>5. b \in [1 .. Len(s) -> Bucket]
  BY <1>2, <1>4
<1>6. b \in Seq(Bucket) /\ Len(b) = Len(s)
  BY <1>1, <1>5
<1>7. Shuffles(p, s, b)
  BY <1>3, <1>4 DEF Shuffles
<1> QED
  BY <1>6, <1>7

\* The buckets divide the prices in whichever order they come.
LEMMA OneHoldsEither ==
    ASSUME NEW s \in Seq(Bucket), NEW b \in Arrangements(s), NEW x
    PROVE  OneHolds(b, x) <=> OneHolds(s, x)
<1> DEFINE D == 1 .. Len(s)
<1>1. PICK p : Shuffles(p, s, b)
  BY Rearranged
<1>2. Len(b) = Len(s)
  BY Rearranged
<1>3. /\ p \in [D -> D]
      /\ \A i, j \in D : p[i] = p[j] => i = j
      /\ \A k \in D : \E i \in D : p[i] = k
      /\ \A i \in D : b[i] = s[p[i]]
  BY <1>1 DEF Shuffles
<1> HIDE DEF D
<1>4. ASSUME OneHolds(b, x)
      PROVE  OneHolds(s, x)
  <2>1. PICK i \in D : Holds(b[i], x) /\ \A j \in D : Holds(b[j], x) => j = i
    BY <1>2, <1>4 DEF OneHolds, D
  <2>2. p[i] \in D /\ Holds(s[p[i]], x)
    BY <1>3, <2>1
  <2>3. \A k \in D : Holds(s[k], x) => k = p[i]
    <3> SUFFICES ASSUME NEW k \in D, Holds(s[k], x)
                 PROVE  k = p[i]
      OBVIOUS
    <3>1. PICK j \in D : p[j] = k
      BY <1>3
    <3> QED
      BY <1>3, <2>1, <3>1
  <2> QED
    BY <2>2, <2>3 DEF OneHolds, D
<1>5. ASSUME OneHolds(s, x)
      PROVE  OneHolds(b, x)
  <2>1. PICK k \in D : Holds(s[k], x) /\ \A j \in D : Holds(s[j], x) => j = k
    BY <1>5 DEF OneHolds, D
  <2>2. PICK i \in D : p[i] = k
    BY <1>3, <2>1
  <2>3. Holds(b[i], x)
    BY <1>3, <2>1, <2>2
  <2>4. \A j \in D : Holds(b[j], x) => j = i
    BY <1>3, <2>1, <2>2
  <2> QED
    BY <1>2, <2>3, <2>4 DEF OneHolds, D
<1> QED
  BY <1>4, <1>5

LEMMA OneHoldsIsOne ==
    ASSUME offered \in Seq(Bucket), NEW x
    PROVE  OneHolds(offered, x) <=> Cardinality(Holding(x)) = 1
<1>1. DOMAIN offered = 1 .. Len(offered) /\ Len(offered) \in Nat
  OBVIOUS
<1>2. ASSUME OneHolds(offered, x)
      PROVE  Cardinality(Holding(x)) = 1
  <2>1. PICK i \in 1 .. Len(offered) : /\ Holds(offered[i], x)
                                        /\ \A j \in 1 .. Len(offered) : Holds(offered[j], x) => j = i
    BY <1>2 DEF OneHolds
  <2>2. Holding(x) = {i}
    BY <1>1, <2>1 DEF Holding
  <2> QED
    BY <2>2, FS_Singleton
<1>3. ASSUME Cardinality(Holding(x)) = 1
      PROVE  OneHolds(offered, x)
  <2>1. IsFiniteSet(Holding(x))
    <3>1. IsFiniteSet(1 .. Len(offered))
      <4>1. 1 \in Int /\ Len(offered) \in Int
        BY <1>1
      <4> QED
        BY <4>1, FS_Interval
    <3>2. Holding(x) \subseteq 1 .. Len(offered)
      BY <1>1 DEF Holding
    <3> QED
      BY <3>1, <3>2, FS_Subset
  <2>2. \E i : Holding(x) = {i}
    BY <1>3, <2>1, FS_Singleton
  <2>3. PICK i : Holding(x) = {i}
    BY <2>2
  <2>4. i \in 1 .. Len(offered) /\ Holds(offered[i], x)
    BY <1>1, <2>3 DEF Holding
  <2>5. \A j \in 1 .. Len(offered) : Holds(offered[j], x) => j = i
    BY <1>1, <2>3 DEF Holding
  <2> QED
    BY <2>4, <2>5 DEF OneHolds
<1> QED
  BY <1>2, <1>3

\* The grid that was built is the offered buckets, in order, and was accepted; and
\* one that was refused was so in order.
GridInv ==
    /\ offered \in Seq(Bucket)
    /\ \/ grid.state = "waiting"
       \/ grid.state = "built" /\ \E b \in Arrangements(offered) : GridAccepted(b)
       \/ grid.state = "refused" /\ \E b \in Arrangements(offered) : InOrder(b) /\ ~GridAccepted(b)

LEMMA GridKept ==
    ASSUME GridInv, [GridNext]_gridVars
    PROVE  GridInv'
<1>1. CASE UNCHANGED gridVars
  BY <1>1 DEF GridInv, gridVars
<1>2. CASE GridBuilt
  <2>1. PICK b \in Arrangements(offered) :
          /\ InOrder(b)
          /\ grid' = IF GridAccepted(b) THEN [state |-> "built", buckets |-> b]
                     ELSE [state |-> "refused", buckets |-> <<>>]
    BY <1>2 DEF GridBuilt
  <2>2. offered' = offered
    BY <1>2 DEF GridBuilt
  <2>3. CASE GridAccepted(b)
    BY <2>1, <2>2, <2>3 DEF GridInv
  <2>4. CASE ~GridAccepted(b)
    BY <2>1, <2>2, <2>4 DEF GridInv
  <2> QED
    BY <2>3, <2>4
<1> QED
  BY <1>1, <1>2 DEF GridNext

LEMMA GridStarts ==
    ASSUME GridInit
    PROVE  GridInv
<1>1. offered \in BoundedSeq(Bucket, MostMarkets) /\ grid.state = "waiting"
  BY DEF GridInit, Waiting
<1>2. PICK n \in 0 .. MostMarkets : offered \in [1 .. n -> Bucket]
  BY <1>1 DEF BoundedSeq, SeqOf
<1>3. n \in Nat
  BY GridAssumption
<1>4. offered \in Seq(Bucket)
  BY <1>2, <1>3
<1> QED
  BY <1>1, <1>4 DEF GridInv

LEMMA BuiltDivides ==
    ASSUME GridInv, grid.state = "built", NEW x \in Int
    PROVE  Cardinality(Holding(x)) = 1
<1>1. offered \in Seq(Bucket)
  BY DEF GridInv
<1>2. PICK b \in Arrangements(offered) : GridAccepted(b)
  BY DEF GridInv
<1>3. OneHolds(b, x)
  BY <1>1, <1>2, Rearranged, AcceptedDivides
<1> QED
  BY <1>1, <1>2, <1>3, OneHoldsEither, OneHoldsIsOne

LEMMA RefusedForAReason ==
    ASSUME GridInv, grid.state = "refused", Divides, NoneEmpty, Len(offered) >= 2
    PROVE  FALSE
<1>1. offered \in Seq(Bucket)
  BY DEF GridInv
<1>2. PICK b \in Arrangements(offered) : InOrder(b) /\ ~GridAccepted(b)
  BY DEF GridInv
<1>3. \A x \in SamplePrices : OneHolds(b, x)
  <2> TAKE x \in SamplePrices
  <2>1. Cardinality(Holding(x)) = 1
    BY DEF Divides
  <2> QED
    BY <1>1, <2>1, OneHoldsEither, OneHoldsIsOne
<1>4. \A i \in 1 .. Len(b) : Rank(b[i]) = 1 => b[i].lower < b[i].upper
  <2> TAKE i \in 1 .. Len(b)
  <2>1. PICK p : Shuffles(p, offered, b)
    BY <1>1, Rearranged
  <2>2. Len(b) = Len(offered)
    BY <1>1, Rearranged
  <2>3. b[i] = offered[p[i]] /\ p[i] \in DOMAIN offered
    <3>1. DOMAIN offered = 1 .. Len(offered)
      BY <1>1
    <3>2. i \in DOMAIN offered
      BY <2>2, <3>1
    <3> QED
      BY <2>1, <3>1, <3>2 DEF Shuffles
  <2> QED
    BY <2>3 DEF NoneEmpty
<1>5. Ordered(b)
  BY <1>1, <1>2, <1>3, <1>4, Rearranged DEF Ordered
<1> QED
  BY <1>2, <1>5, OrderedAccepted

LEMMA GridInvAlways == GridSpec => []GridInv
BY GridStarts, GridKept, PTL DEF GridSpec

\* GridPartitions.
THEOREM GridsPartition == GridSpec => []GridPartitions
<1>1. GridInv => GridPartitions
  <2> SUFFICES ASSUME GridInv
               PROVE  GridPartitions
    OBVIOUS
  <2>1. grid.state = "built" => Divides
    <3>1. \A x \in SamplePrices : x \in Int
      BY SamplesAre
    <3> QED
      BY <3>1, BuiltDivides DEF Divides
  <2>2. grid.state = "refused" => ~(Divides /\ NoneEmpty /\ Len(offered) >= 2)
    BY RefusedForAReason
  <2> QED
    BY <2>1, <2>2 DEF GridPartitions
<1> QED
  BY <1>1, GridInvAlways, PTL

EveryPriceHasABucket == grid.state = "built" => \A x \in Int : Cardinality(Holding(x)) = 1

\* Of a grid that was built not only the prices about the strikes but every price
\* lies in exactly one bucket: bucket_for_price finds it.
THEOREM BucketsCoverPrices == GridSpec => []EveryPriceHasABucket
<1>1. GridInv => EveryPriceHasABucket
  BY BuiltDivides DEF EveryPriceHasABucket
<1> QED
  BY <1>1, GridInvAlways, PTL
=============================================================================
