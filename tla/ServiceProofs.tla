---------------------------- MODULE ServiceProofs ----------------------------
(***************************************************************************)
(* Proofs about what works beside the order path: the token bucket of the  *)
(* REST client, the risk gates, a session of the bot from start to exit,   *)
(* the sources of fair values, the exploit runner, the sticky defense, the *)
(* default strategy, the decision log on disk, and the rewards that are    *)
(* accrued and sampled.                                                    *)
(***************************************************************************)
EXTENDS RestClient, RiskGates, BotLifecycle, TheoSources, ExploitRunner,
        StickyDefense, DefaultQuoting, DecisionFiles, CycleLedger, EarningsLog,
        SequenceTheorems, SumLemmas

-----------------------------------------------------------------------------
(* The token bucket.                                                       *)

\* Requests have costs, whatever else is known of them.
CostsKnown ==
    /\ calls = [c \in Callers |-> calls[c]]
    /\ \A c \in Callers : "cost" \in DOMAIN calls[c] /\ calls[c].cost \in Nat

\* RateHolds is not inductive: what the bucket would hold after a refill counts
\* as well, as it can be taken at once.
RateInv ==
    /\ tokens \in Nat /\ since \in Nat /\ window \in Nat /\ spent \in Nat
    /\ CostsKnown
    /\ spent + Refilled <= Burst + window

\* Every step of a caller keeps the costs known.
LEMMA CostsStay ==
    ASSUME CostsKnown, RestNext
    PROVE  CostsKnown'
<1> USE RestAssumption DEF CostsKnown
<1>1. ASSUME NEW c \in Callers, CallerSteps(c)
      PROVE  CostsKnown'
  <2>1. CASE Requests(c)
    BY <2>1 DEF Requests, AtRest
  <2>2. CASE Acquires(c)
    BY <2>2 DEF Acquires
  <2>3. CASE Waits(c)
    BY <2>3 DEF Waits
  <2>4. CASE Returns(c)
    BY <2>4 DEF Returns, AtRest
  <2>5. CASE Fails(c)
    BY <2>5 DEF Fails
  <2>6. CASE Retried(c)
    BY <2>6 DEF Retried, AtRest
  <2> QED
    BY <1>1, <2>1, <2>2, <2>3, <2>4, <2>5, <2>6 DEF CallerSteps
<1>2. CASE Shown \/ Marked
  BY <1>2 DEF Shown, Marked
<1>3. CASE RestTick
  BY <1>3 DEF RestTick
<1> QED
  BY <1>1, <1>2, <1>3 DEF RestNext

\* A refill neither loses tokens nor overflows, and a second one adds nothing.
LEMMA RefillBounds ==
    ASSUME tokens \in Nat, since \in Nat
    PROVE  Refilled \in Nat /\ Refilled <= Burst /\ Lesser2(Burst, Refilled + 0) = Refilled
BY RestAssumption DEF Refilled, Lesser2

\* Over any span of time, the requests take no more tokens than the bucket
\* holds and gains meanwhile (KalshiRateLimiter), for any number of tasks.
THEOREM RateIsBounded == RestSpec => []RateHolds
<1>1. RestInit => RateInv
  BY RestAssumption DEF RestInit, RateInv, CostsKnown, AtRest, Refilled, Lesser2
<1>2. RateInv /\ [RestNext]_restVars => RateInv'
  <2> SUFFICES ASSUME RateInv, [RestNext]_restVars
               PROVE  RateInv'
    OBVIOUS
  <2> USE RestAssumption DEF RateInv
  <2>0. Refilled \in Nat /\ Refilled <= Burst /\ Lesser2(Burst, Refilled + 0) = Refilled
    BY RefillBounds
  <2>1. ASSUME NEW c \in Callers, CallerSteps(c)
        PROVE  RateInv'
    <3>0. CostsKnown'
      BY <2>1, CostsStay DEF RestNext
    <3>1. CASE Acquires(c)
      <4>1. calls[c].cost \in Nat /\ calls[c].cost <= Refilled
        BY <3>1 DEF Acquires, CostsKnown
      <4>2. tokens' \in Nat /\ tokens' = Refilled - calls[c].cost /\ since' = 0
        BY <2>0, <3>1, <4>1 DEF Acquires
      <4>3. Refilled' = tokens'
        BY <2>0, <4>1, <4>2 DEF Refilled, Lesser2
      <4> QED
        BY <2>0, <3>0, <3>1, <4>1, <4>2, <4>3 DEF Acquires
    <3>2. CASE Waits(c)
      <4>1. tokens' = Refilled /\ since' = 0 /\ window' = window /\ spent' = spent
        BY <3>2 DEF Waits
      <4>2. Refilled' = Refilled
        BY <2>0, <4>1 DEF Refilled
      <4> QED
        BY <2>0, <3>0, <4>1, <4>2
    <3>3. CASE Requests(c) \/ Returns(c) \/ Fails(c) \/ Retried(c)
      BY <3>0, <3>3 DEF Requests, Returns, Fails, Retried, Refilled
    <3> QED
      BY <2>1, <3>1, <3>2, <3>3 DEF CallerSteps
  <2>2. CASE Shown
    <3>1. tokens' = Refilled /\ since' = 0 /\ window' = window /\ spent' = spent
      BY <2>2 DEF Shown
    <3>2. Refilled' = Refilled
      BY <2>0, <3>1 DEF Refilled
    <3> QED
      BY <2>0, <2>2, <3>1, <3>2, CostsStay DEF RestNext
  <2>3. CASE RestTick
    BY <2>3, CostsStay DEF RestNext, RestTick, Refilled, Lesser2
  <2>4. CASE Marked
    <3>1. Refilled' = Refilled
      BY <2>4 DEF Marked, Refilled
    <3> QED
      BY <2>0, <2>4, <3>1, CostsStay DEF RestNext, Marked
  <2>5. CASE UNCHANGED restVars
    BY <2>5 DEF restVars, Refilled, CostsKnown
  <2> QED
    BY <2>1, <2>2, <2>3, <2>4, <2>5 DEF RestNext
<1>3. RateInv => RateHolds
  BY RefillBounds, RestAssumption DEF RateInv, RateHolds
<1> QED
  BY <1>1, <1>2, <1>3, PTL DEF RestSpec

-----------------------------------------------------------------------------
(* The risk gates.                                                         *)

\* What counts towards a side's position.
HeldOn(s, n) == IF s = "bid" THEN n ELSE -n

\* What a side's position would be if its quote were taken.
Reach(t, s) == HeldOn(s, position[t]) + resting[t][s]

\* t has had its turn in the cycle, or has none.
Evaluated(t) == \A k \in 1 .. Len(queue) : queue[k] # t

\* Each quote, failed refresh and manual order since the positions were seen
\* may have added an order's size; a ticker below its cap that has not had its
\* turn is one quote short of the worst case, which is what the quote then adds.
ReachInv ==
    \A t \in RiskTickers, s \in RiskSides :
        /\ resting[t][s] <= OrderSize
        /\ Reach(t, s) <= MaxPosition - 1 + OrderSize * (2 + Slips)
        /\ HeldOn(s, cached[t]) < MaxPosition /\ ~Evaluated(t)
             => Reach(t, s) <= MaxPosition - 1 + OrderSize * (1 + Slips)

RiskInv == RiskTypeOK /\ NoRepeats(queue) /\ ReachInv

LEMMA Times ==
    ASSUME NEW a \in Nat, NEW b \in Nat
    PROVE  a * b \in Nat /\ a * (1 + b) = a * b + a /\ a * (2 + b) = a * b + 2 * a
OBVIOUS

\* Counting sides.
LEMMA SidesCounted ==
    ASSUME NEW S \in SUBSET RiskSides
    PROVE  /\ Cardinality(S) = (IF "bid" \in S THEN 1 ELSE 0) + (IF "ask" \in S THEN 1 ELSE 0)
           /\ Cardinality(S) \in Nat
<1>1. Cardinality({}) = 0 /\ IsFiniteSet({})
  BY FS_EmptySet
<1>2. Cardinality({"bid"}) = 1 /\ Cardinality({"ask"}) = 1 /\ IsFiniteSet({"bid"})
  BY FS_Singleton
<1>3. Cardinality({"bid"} \cup {"ask"}) = 2
  BY <1>2, FS_AddElement
<1>4. S = {} \/ S = {"bid"} \/ S = {"ask"} \/ S = {"bid"} \cup {"ask"}
  BY DEF RiskSides
<1> QED
  BY <1>1, <1>2, <1>3, <1>4

\* A rotation of the tickers repeats none.
LEMMA RotatedList ==
    ASSUME NEW n \in Nat
    PROVE  /\ Rotated(TickerList, n % Len(TickerList)) \in Seq(RiskTickers)
           /\ NoRepeats(Rotated(TickerList, n % Len(TickerList)))
<1> DEFINE L == Len(TickerList)
           off == n % L
           at(k) == IF k + off <= L THEN k + off ELSE k + off - L
<1>1. TickerList \in Seq(RiskTickers) /\ L \in Nat \ {0} /\ NoRepeats(TickerList)
  BY RiskAssumption DEF RiskConfig
<1>2. off \in Nat /\ off < L
  BY <1>1
<1> HIDE DEF off
<1>3. \A k \in 1 .. L : at(k) \in 1 .. L
  BY <1>1, <1>2
<1>4. \A i, j \in 1 .. L : at(i) = at(j) => i = j
  BY <1>1, <1>2
<1>5. Rotated(TickerList, off) = [k \in 1 .. L |-> TickerList[at(k)]]
  BY DEF Rotated
<1>6. Rotated(TickerList, off) \in Seq(RiskTickers) /\ Len(Rotated(TickerList, off)) = L
  BY <1>1, <1>3, <1>5
<1>7. NoRepeats(Rotated(TickerList, off))
  BY <1>1, <1>3, <1>4, <1>5, <1>6 DEF NoRepeats
<1> QED
  BY <1>6, <1>7 DEF off

\* What a look of the gates leaves on a ticker: a side is left alone, cancelled,
\* or granted, which the position gate does below the cap only.
LEMMA RestsEffect ==
    ASSUME RiskTypeOK, NEW t \in RiskTickers, NEW sides \in SUBSET RiskSides,
           NEW granted \in SUBSET RiskSides, Rests(t, sides, granted)
    PROVE  /\ resting' \in [RiskTickers -> [RiskSides -> Nat]]
           /\ \A u \in RiskTickers, s \in RiskSides :
                \/ resting'[u][s] = resting[u][s]
                \/ resting'[u][s] = 0
                \/ u = t /\ s \in granted /\ resting'[u][s] = OrderSize
<1> OrderSize \in Nat
  BY RiskAssumption DEF RiskConfig
<1> QED
  BY DEF Rests, RiskTypeOK

LEMMA AllowedBelowCap ==
    ASSUME NEW t, NEW wanted \in SUBSET RiskSides, NEW oversized, NEW id, NEW qty \in Int,
           NEW value, NEW near
    PROVE  /\ Allowed(t, wanted, oversized, id, qty, value, near) \in SUBSET RiskSides
           /\ \A s \in Allowed(t, wanted, oversized, id, qty, value, near) :
                HeldOn(s, qty) < MaxPosition
<1> DEFINE all == Allowed(t, wanted, oversized, id, qty, value, near)
<1>1. all \subseteq QuotaAllows(id, wanted) \ PositionVetoes(qty)
  BY DEF Allowed
<1>2. QuotaAllows(id, wanted) \in SUBSET RiskSides
  BY DEF QuotaAllows
<1>3. ASSUME NEW s \in RiskSides, s \notin PositionVetoes(qty)
      PROVE  HeldOn(s, qty) < MaxPosition
  <2>1. MaxPosition \in Nat
    BY RiskAssumption DEF RiskConfig
  <2> QED
    BY <1>3, <2>1 DEF PositionVetoes, HeldOn
<1> QED
  BY <1>1, <1>2, <1>3

\* The bounds as sums, which is how the steps use them.
LEMMA Bounds ==
    ASSUME RiskTypeOK
    PROVE  /\ Slips \in Nat /\ OrderSize * Slips \in Nat
           /\ OrderSize * (1 + Slips) = OrderSize * Slips + OrderSize
           /\ OrderSize * (2 + Slips) = OrderSize * Slips + 2 * OrderSize
           /\ OrderSize \in Nat \ {0} /\ MaxPosition \in Nat
           /\ \A t \in RiskTickers, s \in RiskSides :
                /\ Reach(t, s) = HeldOn(s, position[t]) + resting[t][s]
                /\ HeldOn(s, position[t]) \in Int /\ HeldOn(s, cached[t]) \in Int
                /\ resting[t][s] \in Nat /\ Reach(t, s) \in Int
<1>1. Slips \in Nat
  BY DEF RiskTypeOK, Slips
<1>2. OrderSize \in Nat \ {0} /\ MaxPosition \in Nat
  BY RiskAssumption DEF RiskConfig
<1>3. \A t \in RiskTickers, s \in RiskSides :
        /\ Reach(t, s) = HeldOn(s, position[t]) + resting[t][s]
        /\ HeldOn(s, position[t]) \in Int /\ HeldOn(s, cached[t]) \in Int
        /\ resting[t][s] \in Nat /\ Reach(t, s) \in Int
  <2> SUFFICES ASSUME NEW t \in RiskTickers, NEW s \in RiskSides
               PROVE  /\ Reach(t, s) = HeldOn(s, position[t]) + resting[t][s]
                      /\ HeldOn(s, position[t]) \in Int /\ HeldOn(s, cached[t]) \in Int
                      /\ resting[t][s] \in Nat /\ Reach(t, s) \in Int
    OBVIOUS
  <2>1. position[t] \in Int /\ cached[t] \in Int /\ resting[t][s] \in Nat
    BY DEF RiskTypeOK
  <2> QED
    BY <2>1 DEF Reach, HeldOn
<1> QED
  BY <1>1, <1>2, <1>3, Times

\* What the runner does for its next ticker, t.
Turn(t, wanted, value, near, oversized) ==
    LET inQuota == QuotaAllows(cycleId, wanted)
    IN  /\ QuotaAfter(cycleId, inQuota)
        /\ MidStored(t, value)
        /\ Judged(t, value)
        /\ Rests(t, RiskSides,
                 Allowed(t, wanted, oversized, cycleId, cached[t], value, near))
        /\ tally' = [tally EXCEPT !.granted = @ + Cardinality(inQuota)]

\* n contracts of a quote are taken.
Filled(t, s, n) ==
    /\ resting' = [resting EXCEPT ![t][s] = @ - n]
    /\ position' = [position EXCEPT ![t] = IF s = "bid" THEN @ + n ELSE @ - n]

\* The quota's count after a check.
LEMMA QuotaTyped ==
    ASSUME RiskTypeOK, NEW id \in Nat, NEW S \in SUBSET RiskSides, QuotaAfter(id, S)
    PROVE  quota' \in [cycle : Int, count : Nat]
<1>1. Counted(id) \in Nat
  BY DEF RiskTypeOK, Counted
<1>2. Cardinality(S) \in Nat
  BY SidesCounted
<1> QED
  BY <1>1, <1>2 DEF QuotaAfter

Tallies == [manuals : Nat, manualsNow : Nat, failed : Nat, granted : Nat]

\* The counters after a cycle's start, a grant and a manual order.
LEMMA TallyTyped ==
    ASSUME NEW r \in Tallies, NEW k \in Nat
    PROVE  /\ r.manuals \in Nat /\ r.manualsNow \in Nat /\ r.failed \in Nat /\ r.granted \in Nat
           /\ [r EXCEPT !.granted = @ + k] \in Tallies
           /\ [r EXCEPT !.manuals = @ + 1, !.manualsNow = @ + 1] \in Tallies
           /\ [r EXCEPT !.failed = @, !.manualsNow = 0, !.granted = 0] \in Tallies
           /\ [r EXCEPT !.failed = @ + 1, !.manualsNow = 0, !.granted = 0] \in Tallies
<1>1. r.manuals \in Nat /\ r.manualsNow \in Nat /\ r.failed \in Nat /\ r.granted \in Nat
  BY DEF Tallies
<1>2. [r EXCEPT !.granted = @ + k] \in Tallies
  <2>1. r.granted + k \in Nat
    BY <1>1
  <2> QED
    BY <2>1 DEF Tallies
<1>3. [r EXCEPT !.manuals = @ + 1, !.manualsNow = @ + 1] \in Tallies
  <2>1. r.manuals + 1 \in Nat /\ r.manualsNow + 1 \in Nat
    BY <1>1
  <2> QED
    BY <2>1 DEF Tallies
<1>4. [r EXCEPT !.failed = @, !.manualsNow = 0, !.granted = 0] \in Tallies
  BY <1>1 DEF Tallies
<1>5. [r EXCEPT !.failed = @ + 1, !.manualsNow = 0, !.granted = 0] \in Tallies
  <2>1. r.failed + 1 \in Nat
    BY <1>1
  <2> QED
    BY <2>1 DEF Tallies
<1> QED
  BY <1>1, <1>2, <1>3, <1>4, <1>5

LEMMA LastMidTyped ==
    ASSUME RiskTypeOK, NEW t \in RiskTickers, NEW value \in Int, MidStored(t, value)
    PROVE  lastMid' \in [RiskTickers -> Int]
BY DEF RiskTypeOK, MidStored

\* What the history of the runner's fair values becomes.
LEMMA JudgedEffect ==
    ASSUME RiskTypeOK, NEW t \in RiskTickers, NEW value \in Int, Judged(t, value)
    PROVE  /\ judged' \in [fair : [RiskTickers -> Int], wrong : Nat]
           /\ judged'.fair = [judged.fair EXCEPT ![t] = value]
           /\ judged'.wrong = judged.wrong
                  + IF MidJumps(t, value) = Jumps(judged.fair[t], value) THEN 0 ELSE 1
<1> DEFINE right == MidJumps(t, value) = Jumps(judged.fair[t], value)
           fair == [judged.fair EXCEPT ![t] = value]
           wrong == IF right THEN judged.wrong ELSE judged.wrong + 1
<1>1. judged.fair \in [RiskTickers -> Int] /\ judged.wrong \in Nat
  BY DEF RiskTypeOK
<1>2. fair \in [RiskTickers -> Int]
  BY <1>1
<1>3. wrong \in Nat /\ wrong = judged.wrong + IF right THEN 0 ELSE 1
  <2> HIDE DEF right
  <2> QED
    BY <1>1
<1>4. judged' = [fair |-> fair, wrong |-> wrong]
  BY DEF Judged
<1> HIDE DEF fair, wrong
<1>5. /\ judged' \in [fair : [RiskTickers -> Int], wrong : Nat]
      /\ judged'.fair = fair /\ judged'.wrong = wrong
  BY <1>2, <1>3, <1>4
<1> QED
  BY <1>3, <1>5 DEF fair

\* The state keeps its type.
LEMMA RiskTyped ==
    ASSUME RiskTypeOK, RiskNext
    PROVE  RiskTypeOK'
<1>1. CASE StartCycle
  <2>1. /\ cycleId' \in Nat
        /\ queue' = Rotated(TickerList, cycleId' % Len(TickerList))
    BY <1>1, SMTT(30) DEF StartCycle, RiskTypeOK
  <2>2. queue' \in Seq(RiskTickers)
    BY <2>1, RotatedList
  <2> tally \in Tallies
    BY DEF RiskTypeOK, Tallies
  <2>3. /\ cached' \in [RiskTickers -> Int]
        /\ tally' \in Tallies
    <3> PICK answered \in BOOLEAN :
           /\ cached' = IF answered THEN position ELSE cached
           /\ tally' = [tally EXCEPT !.failed = IF answered THEN @ ELSE @ + 1,
                                    !.manualsNow = 0, !.granted = 0]
      BY <1>1 DEF StartCycle
    <3>1. CASE answered
      BY <3>1, TallyTyped DEF RiskTypeOK
    <3>2. CASE ~answered
      BY <3>2, TallyTyped DEF RiskTypeOK
    <3> QED
      BY <3>1, <3>2
  <2> QED
    BY <1>1, <2>1, <2>2, <2>3 DEF StartCycle, RiskTypeOK, Tallies
<1>2. CASE EvaluateTicker
  <2> PICK wanted \in SUBSET RiskSides, value \in Theos, near \in BOOLEAN :
        \E oversized \in SUBSET wanted :
          Turn(Head(queue), wanted, value, near, oversized)
    BY <1>2 DEF EvaluateTicker, Turn
  <2> PICK oversized \in SUBSET wanted : Turn(Head(queue), wanted, value, near, oversized)
    OBVIOUS
  <2>1. queue' \in Seq(RiskTickers) /\ Head(queue) \in RiskTickers
    BY <1>2 DEF EvaluateTicker, RiskTypeOK
  <2>2. QuotaAllows(cycleId, wanted) \in SUBSET RiskSides
    BY DEF QuotaAllows
  <2>3. resting' \in [RiskTickers -> [RiskSides -> Nat]]
    BY <2>1, RestsEffect, AllowedBelowCap DEF Turn, RiskTypeOK
  <2>4. quota' \in [cycle : Int, count : Nat]
    BY <2>2, QuotaTyped DEF Turn, RiskTypeOK
  <2>5. /\ lastMid' \in [RiskTickers -> Int]
        /\ judged' \in [fair : [RiskTickers -> Int], wrong : Nat]
    <3>1. value \in Int
      BY RiskAssumption DEF RiskConfig
    <3> QED
      BY <2>1, <3>1, LastMidTyped, JudgedEffect DEF Turn
  <2>6. tally' \in Tallies
    <3> tally \in Tallies
      BY DEF RiskTypeOK, Tallies
    <3>1. Cardinality(QuotaAllows(cycleId, wanted)) \in Nat
      BY <2>2, SidesCounted
    <3> QED
      BY <3>1, TallyTyped DEF Turn
  <2> QED
    BY <1>2, <2>1, <2>3, <2>4, <2>5, <2>6 DEF EvaluateTicker, RiskTypeOK, Tallies
<1>3. CASE ManualCheck
  <2> PICK t \in RiskTickers, side \in RiskSides, oversized \in {{}, RiskSides} :
        /\ QuotaAfter(0, QuotaAllows(0, {side}))
        /\ MidStored(t, 50)
        /\ Rests(t, Allowed(t, {side}, oversized, 0, 0, 50, TRUE),
                    Allowed(t, {side}, oversized, 0, 0, 50, TRUE))
        /\ tally' = [tally EXCEPT !.manuals = @ + 1, !.manualsNow = @ + 1]
    BY <1>3 DEF ManualCheck
  <2> tally \in Tallies
    BY DEF RiskTypeOK, Tallies
  <2>1. QuotaAllows(0, {side}) \in SUBSET RiskSides
    BY DEF QuotaAllows
  <2>2. resting' \in [RiskTickers -> [RiskSides -> Nat]]
    <3>1. {side} \in SUBSET RiskSides /\ 0 \in Int
      OBVIOUS
    <3>2. Allowed(t, {side}, oversized, 0, 0, 50, TRUE) \in SUBSET RiskSides
      BY <3>1, AllowedBelowCap
    <3> QED
      BY <3>2, RestsEffect
  <2>3. quota' \in [cycle : Int, count : Nat]
    BY <2>1, QuotaTyped
  <2>4. lastMid' \in [RiskTickers -> Int]
    BY LastMidTyped
  <2>5. tally' \in Tallies
    BY TallyTyped
  <2> QED
    BY <1>3, <2>2, <2>3, <2>4, <2>5 DEF ManualCheck, RiskTypeOK, Tallies
<1>4. CASE QuoteFilled
  <2> PICK t \in RiskTickers, s \in RiskSides : \E n \in 1 .. resting[t][s] : Filled(t, s, n)
    BY <1>4 DEF QuoteFilled, Filled
  <2> PICK n \in 1 .. resting[t][s] : Filled(t, s, n)
    OBVIOUS
  <2>1. n \in Nat /\ n <= resting[t][s] /\ resting[t][s] \in Nat
    BY DEF RiskTypeOK
  <2>2. resting' \in [RiskTickers -> [RiskSides -> Nat]]
    BY <2>1, SMTT(30) DEF RiskTypeOK, Filled
  <2>3. position' \in [RiskTickers -> Int]
    <3> DEFINE left == IF s = "bid" THEN position[t] + n ELSE position[t] - n
    <3>1. position \in [RiskTickers -> Int] /\ position' = [position EXCEPT ![t] = left]
      BY DEF RiskTypeOK, Filled
    <3>2. position[t] \in Int
      BY <3>1
    <3>3. left \in Int
      BY <2>1, <3>2
    <3> HIDE DEF left
    <3> QED
      BY <3>1, <3>3
  <2> QED
    BY <1>4, <2>2, <2>3 DEF QuoteFilled, RiskTypeOK
<1> QED
  BY <1>1, <1>2, <1>3, <1>4 DEF RiskNext

\* The bound's steps, by slips.
LEMMA Widths ==
    ASSUME NEW k \in Nat
    PROVE  /\ OrderSize * k \in Nat
           /\ OrderSize * (1 + k) = OrderSize * k + OrderSize
           /\ OrderSize * (2 + k) = OrderSize * k + 2 * OrderSize
           /\ OrderSize * (1 + (k + 1)) = OrderSize * k + 2 * OrderSize
           /\ OrderSize * (2 + (k + 1)) = OrderSize * k + 3 * OrderSize
<1>1. OrderSize \in Nat
  BY RiskAssumption DEF RiskConfig
<1> QED
  BY <1>1

\* A ticker's turn ends when it leaves the list, and only then.
LEMMA TurnEnds ==
    ASSUME queue \in Seq(RiskTickers), NoRepeats(queue), queue # <<>>, queue' = Tail(queue)
    PROVE  /\ NoRepeats(queue')
           /\ \A t \in RiskTickers : t = Head(queue) => ~Evaluated(t) /\ Evaluated(t)'
           /\ \A t \in RiskTickers : ~Evaluated(t)' => ~Evaluated(t)
<1>1. /\ Len(queue) \in Nat \ {0} /\ queue' \in Seq(RiskTickers)
      /\ Len(queue') = Len(queue) - 1
      /\ \A k \in 1 .. Len(queue') : k + 1 \in 1 .. Len(queue) /\ queue'[k] = queue[k + 1]
  OBVIOUS
<1>2. 1 \in 1 .. Len(queue) /\ queue[1] = Head(queue)
  BY <1>1
<1>3. NoRepeats(queue')
  <2> SUFFICES ASSUME NEW i \in 1 .. Len(queue'), NEW j \in 1 .. Len(queue'),
                      queue'[i] = queue'[j]
               PROVE  i = j
    BY DEF NoRepeats
  <2>1. i + 1 \in 1 .. Len(queue) /\ j + 1 \in 1 .. Len(queue) /\ queue[i + 1] = queue[j + 1]
    BY <1>1
  <2>2. i + 1 = j + 1
    BY <2>1 DEF NoRepeats
  <2> QED
    BY <2>2
<1>4. ASSUME NEW t \in RiskTickers, t = Head(queue)
      PROVE  ~Evaluated(t) /\ Evaluated(t)'
  <2>1. \A k \in 1 .. Len(queue') : queue'[k] # t
    <3> SUFFICES ASSUME NEW k \in 1 .. Len(queue'), queue'[k] = t
                 PROVE  FALSE
      OBVIOUS
    <3>1. k + 1 \in 1 .. Len(queue) /\ queue[k + 1] = queue[1]
      BY <1>1, <1>2, <1>4
    <3>2. k + 1 = 1
      BY <1>2, <3>1 DEF NoRepeats
    <3> QED
      BY <3>2
  <2> QED
    BY <1>2, <1>4, <2>1 DEF Evaluated
<1>6. ASSUME NEW t \in RiskTickers, ~Evaluated(t)'
      PROVE  ~Evaluated(t)
  BY <1>1, <1>6 DEF Evaluated
<1> QED
  BY <1>3, <1>4, <1>6

\* The overshoot's invariant, step by step.
LEMMA ReachStarts ==
    ASSUME RiskInv, StartCycle, RiskTypeOK'
    PROVE  RiskInv'
<1> USE DEF RiskInv
<1>1. NoRepeats(queue')
  <2>1. cycleId' \in Nat /\ queue' = Rotated(TickerList, cycleId' % Len(TickerList))
    BY DEF StartCycle, RiskTypeOK
  <2> QED
    BY <2>1, RotatedList
<1>2. PICK answered \in BOOLEAN :
        /\ cached' = IF answered THEN position ELSE cached
        /\ Slips' = IF answered THEN Slips ELSE Slips + 1
  <2>1. PICK answered \in BOOLEAN :
          /\ cached' = IF answered THEN position ELSE cached
          /\ tally' = [tally EXCEPT !.failed = IF answered THEN @ ELSE @ + 1,
                                   !.manualsNow = 0, !.granted = 0]
    BY DEF StartCycle
  <2>2. /\ tally'.failed = IF answered THEN tally.failed ELSE tally.failed + 1
        /\ tally'.manuals = tally.manuals
        /\ tally.failed \in Nat /\ tally.manuals \in Nat
    BY <2>1 DEF RiskTypeOK
  <2>3. Slips' = IF answered THEN Slips ELSE Slips + 1
    BY <2>2 DEF Slips
  <2> QED
    BY <2>1, <2>3
<1>3. position' = position /\ resting' = resting
  BY DEF StartCycle
<1>4. ReachInv'
  <2> SUFFICES ASSUME NEW t \in RiskTickers, NEW s \in RiskSides
               PROVE  /\ resting'[t][s] <= OrderSize
                      /\ Reach(t, s)' <= MaxPosition - 1 + OrderSize * (2 + Slips')
                      /\ HeldOn(s, cached'[t]) < MaxPosition
                           => Reach(t, s)' <= MaxPosition - 1 + OrderSize * (1 + Slips')
    BY DEF ReachInv
  <2>1. Reach(t, s)' = Reach(t, s)
    BY <1>3 DEF Reach
  <2>2. /\ resting[t][s] <= OrderSize
        /\ Reach(t, s) <= MaxPosition - 1 + OrderSize * (2 + Slips)
    BY DEF ReachInv
  <2>3. Slips \in Nat /\ OrderSize \in Nat /\ MaxPosition \in Nat
    BY Bounds
  <2>4. /\ Reach(t, s) = HeldOn(s, position[t]) + resting[t][s] /\ Reach(t, s) \in Int
        /\ resting[t][s] \in Nat /\ HeldOn(s, position[t]) \in Int
    BY Bounds
  <2>5. CASE answered
    <3>1. Slips' = Slips /\ cached' = position
      BY <1>2, <2>5
    <3>2. HeldOn(s, position[t]) < MaxPosition
            => Reach(t, s) <= MaxPosition - 1 + OrderSize * (1 + Slips)
      BY <2>2, <2>3, <2>4, Widths
    <3> QED
      BY <1>3, <2>1, <2>2, <3>1, <3>2
  <2>6. CASE ~answered
    <3>1. Slips' = Slips + 1
      BY <1>2, <2>6
    <3>2. /\ Reach(t, s) <= MaxPosition - 1 + OrderSize * (1 + (Slips + 1))
          /\ Reach(t, s) <= MaxPosition - 1 + OrderSize * (2 + (Slips + 1))
      <4> DEFINE w == OrderSize * Slips
                 u == OrderSize * (2 + Slips)
                 v == OrderSize * (1 + (Slips + 1))
                 x == OrderSize * (2 + (Slips + 1))
      <4>1. w \in Nat /\ u = w + 2 * OrderSize /\ v = w + 2 * OrderSize /\ x = w + 3 * OrderSize
        BY <2>3, Widths
      <4>2. Reach(t, s) <= MaxPosition - 1 + u
        BY <2>2
      <4> HIDE DEF w, u, v, x
      <4>3. Reach(t, s) <= MaxPosition - 1 + v /\ Reach(t, s) <= MaxPosition - 1 + x
        BY <2>3, <2>4, <4>1, <4>2
      <4> QED
        BY <4>3 DEF v, x
    <3> QED
      BY <1>3, <2>1, <2>2, <3>1, <3>2
  <2> QED
    BY <2>5, <2>6
<1> QED
  BY <1>1, <1>4

LEMMA ReachEvaluates ==
    ASSUME RiskInv, EvaluateTicker, RiskTypeOK'
    PROVE  RiskInv'
<1> USE DEF RiskInv
<1> DEFINE t0 == Head(queue)
<1>1. t0 \in RiskTickers /\ queue' = Tail(queue) /\ queue # <<>> /\ queue \in Seq(RiskTickers)
  BY DEF EvaluateTicker, RiskTypeOK
<1>2. PICK wanted \in SUBSET RiskSides, value \in Theos, near \in BOOLEAN :
        \E oversized \in SUBSET wanted : Turn(t0, wanted, value, near, oversized)
  BY DEF EvaluateTicker, Turn
<1>3. PICK oversized \in SUBSET wanted : Turn(t0, wanted, value, near, oversized)
  BY <1>2
<1> DEFINE granted == Allowed(t0, wanted, oversized, cycleId, cached[t0], value, near)
<1>4. position' = position /\ cached' = cached /\ Slips' = Slips
  <2>1. tally'.failed = tally.failed /\ tally'.manuals = tally.manuals
    BY <1>3 DEF Turn, RiskTypeOK
  <2> QED
    BY <2>1 DEF EvaluateTicker, Slips
<1>5. cached[t0] \in Int
  BY <1>1 DEF RiskTypeOK
<1>6. granted \in SUBSET RiskSides /\ \A s \in granted : HeldOn(s, cached[t0]) < MaxPosition
  BY <1>5, AllowedBelowCap
<1>7. \A u \in RiskTickers, s \in RiskSides :
        \/ resting'[u][s] = resting[u][s]
        \/ resting'[u][s] = 0
        \/ u = t0 /\ s \in granted /\ resting'[u][s] = OrderSize
  BY <1>1, <1>3, <1>6, RestsEffect DEF Turn
<1>8. /\ NoRepeats(queue')
      /\ \A t \in RiskTickers : t = t0 => ~Evaluated(t) /\ Evaluated(t)'
      /\ \A t \in RiskTickers : ~Evaluated(t)' => ~Evaluated(t)
  BY <1>1, TurnEnds
<1> HIDE DEF t0, granted
<1>9. ReachInv'
  <2> SUFFICES ASSUME NEW t \in RiskTickers, NEW s \in RiskSides
               PROVE  /\ resting'[t][s] <= OrderSize
                      /\ Reach(t, s)' <= MaxPosition - 1 + OrderSize * (2 + Slips)
                      /\ HeldOn(s, cached[t]) < MaxPosition /\ ~Evaluated(t)'
                           => Reach(t, s)' <= MaxPosition - 1 + OrderSize * (1 + Slips)
    BY <1>4 DEF ReachInv
  <2>1. Reach(t, s)' = HeldOn(s, position[t]) + resting'[t][s]
    BY <1>4 DEF Reach
  <2>2. /\ resting[t][s] <= OrderSize
        /\ Reach(t, s) <= MaxPosition - 1 + OrderSize * (2 + Slips)
        /\ HeldOn(s, cached[t]) < MaxPosition /\ ~Evaluated(t)
             => Reach(t, s) <= MaxPosition - 1 + OrderSize * (1 + Slips)
    BY DEF ReachInv
  <2>3. Slips \in Nat /\ OrderSize \in Nat /\ MaxPosition \in Nat /\ OrderSize * Slips \in Nat
    BY Bounds
  <2>4. /\ Reach(t, s) = HeldOn(s, position[t]) + resting[t][s] /\ Reach(t, s) \in Int
        /\ resting[t][s] \in Nat /\ HeldOn(s, position[t]) \in Int
    BY Bounds
  <2>5. CASE resting'[t][s] = resting[t][s] \/ resting'[t][s] = 0
    <3>1. Reach(t, s)' <= Reach(t, s) /\ Reach(t, s)' \in Int /\ resting'[t][s] <= resting[t][s]
      BY <2>1, <2>4, <2>5
    <3>2. OrderSize * (2 + Slips) \in Int /\ OrderSize * (1 + Slips) \in Int
      BY <2>3, Widths
    <3> DEFINE wide == OrderSize * (2 + Slips)
               narrow == OrderSize * (1 + Slips)
    <3>3. /\ wide \in Int /\ narrow \in Int
          /\ Reach(t, s) <= MaxPosition - 1 + wide
          /\ HeldOn(s, cached[t]) < MaxPosition /\ ~Evaluated(t)
               => Reach(t, s) <= MaxPosition - 1 + narrow
      BY <2>2, <3>2
    <3> HIDE DEF wide, narrow
    <3>4. resting'[t][s] <= OrderSize
      BY <2>2, <2>3, <2>4, <2>5
    <3>5. Reach(t, s)' <= MaxPosition - 1 + wide
      BY <2>3, <2>4, <3>1, <3>3
    <3>6. HeldOn(s, cached[t]) < MaxPosition /\ ~Evaluated(t)'
            => Reach(t, s)' <= MaxPosition - 1 + narrow
      BY <1>8, <2>3, <2>4, <3>1, <3>3
    <3> QED
      BY <3>4, <3>5, <3>6 DEF wide, narrow
  <2>6. CASE t = t0 /\ s \in granted /\ resting'[t][s] = OrderSize
    <3>1. Reach(t, s) <= MaxPosition - 1 + OrderSize * (1 + Slips)
      BY <1>6, <1>8, <2>2, <2>6
    <3>2. Reach(t, s)' <= MaxPosition - 1 + OrderSize * (2 + Slips)
      BY <2>1, <2>3, <2>4, <2>6, <3>1, Widths
    <3>3. Evaluated(t)'
      BY <1>8, <2>6
    <3> QED
      BY <2>3, <2>6, <3>2, <3>3
  <2> QED
    BY <1>7, <2>5, <2>6
<1> QED
  BY <1>8, <1>9

LEMMA ReachChecksManual ==
    ASSUME RiskInv, ManualCheck, RiskTypeOK'
    PROVE  RiskInv'
<1> USE DEF RiskInv
<1>1. PICK t0 \in RiskTickers, side \in RiskSides, oversized \in {{}, RiskSides} :
        LET allowed == Allowed(t0, {side}, oversized, 0, 0, 50, TRUE)
        IN  /\ Rests(t0, allowed, allowed)
            /\ tally' = [tally EXCEPT !.manuals = @ + 1, !.manualsNow = @ + 1]
  BY DEF ManualCheck
<1> DEFINE granted == Allowed(t0, {side}, oversized, 0, 0, 50, TRUE)
<1>2. granted \in SUBSET RiskSides
  <2>1. {side} \in SUBSET RiskSides /\ 0 \in Int
    OBVIOUS
  <2> QED
    BY <2>1, AllowedBelowCap
<1>3. \A u \in RiskTickers, s \in RiskSides :
        \/ resting'[u][s] = resting[u][s]
        \/ resting'[u][s] = 0
        \/ resting'[u][s] = OrderSize
  <2>1. Rests(t0, granted, granted)
    BY <1>1
  <2> QED
    BY <1>2, <2>1, RestsEffect
<1>4. position' = position /\ cached' = cached /\ queue' = queue
  BY DEF ManualCheck
<1>5. Slips' = Slips + 1
  <2>1. /\ tally'.failed = tally.failed /\ tally'.manuals = tally.manuals + 1
        /\ tally.failed \in Nat /\ tally.manuals \in Nat
    BY <1>1 DEF RiskTypeOK
  <2> QED
    BY <2>1 DEF Slips
<1>6. ReachInv'
  <2> SUFFICES ASSUME NEW t \in RiskTickers, NEW s \in RiskSides
               PROVE  /\ resting'[t][s] <= OrderSize
                      /\ Reach(t, s)' <= MaxPosition - 1 + OrderSize * (2 + (Slips + 1))
                      /\ HeldOn(s, cached[t]) < MaxPosition /\ ~Evaluated(t)
                           => Reach(t, s)' <= MaxPosition - 1 + OrderSize * (1 + (Slips + 1))
    BY <1>4, <1>5 DEF ReachInv, Evaluated
  <2>1. Reach(t, s)' = HeldOn(s, position[t]) + resting'[t][s]
    BY <1>4 DEF Reach
  <2>2. /\ resting[t][s] <= OrderSize
        /\ Reach(t, s) <= MaxPosition - 1 + OrderSize * (2 + Slips)
        /\ HeldOn(s, cached[t]) < MaxPosition /\ ~Evaluated(t)
             => Reach(t, s) <= MaxPosition - 1 + OrderSize * (1 + Slips)
    BY DEF ReachInv
  <2>3. Slips \in Nat /\ OrderSize \in Nat /\ MaxPosition \in Nat
    BY Bounds
  <2>4. /\ Reach(t, s) = HeldOn(s, position[t]) + resting[t][s] /\ Reach(t, s) \in Int
        /\ resting[t][s] \in Nat /\ HeldOn(s, position[t]) \in Int
    BY Bounds
  <2>5. /\ resting'[t][s] <= OrderSize
        /\ Reach(t, s)' <= Reach(t, s) + OrderSize /\ Reach(t, s)' \in Int
    BY <1>3, <2>1, <2>2, <2>3, <2>4
  <2> DEFINE base == OrderSize * Slips
  <2>6. /\ base \in Nat
        /\ OrderSize * (1 + Slips) = base + OrderSize
        /\ OrderSize * (2 + Slips) = base + 2 * OrderSize
        /\ OrderSize * (1 + (Slips + 1)) = base + 2 * OrderSize
        /\ OrderSize * (2 + (Slips + 1)) = base + 3 * OrderSize
    BY <2>3, Widths
  <2>7. /\ Reach(t, s) <= MaxPosition - 1 + (base + 2 * OrderSize)
        /\ HeldOn(s, cached[t]) < MaxPosition /\ ~Evaluated(t)
             => Reach(t, s) <= MaxPosition - 1 + (base + OrderSize)
    BY <2>2, <2>6
  <2> HIDE DEF base
  <2>8. Reach(t, s)' <= MaxPosition - 1 + (base + 3 * OrderSize)
    BY <2>3, <2>4, <2>5, <2>6, <2>7
  <2>9. HeldOn(s, cached[t]) < MaxPosition /\ ~Evaluated(t)
          => Reach(t, s)' <= MaxPosition - 1 + (base + 2 * OrderSize)
    BY <2>3, <2>4, <2>5, <2>6, <2>7
  <2> QED
    BY <2>5, <2>6, <2>8, <2>9
<1> QED
  BY <1>4, <1>6

LEMMA ReachFills ==
    ASSUME RiskInv, QuoteFilled, RiskTypeOK'
    PROVE  RiskInv'
<1> USE DEF RiskInv
<1>1. PICK t0 \in RiskTickers, s0 \in RiskSides : \E n \in 1 .. resting[t0][s0] : Filled(t0, s0, n)
  BY DEF QuoteFilled, Filled
<1>2. PICK n \in 1 .. resting[t0][s0] : Filled(t0, s0, n)
  BY <1>1
<1>3. n \in Nat /\ n <= resting[t0][s0]
  BY DEF RiskTypeOK
<1>4. cached' = cached /\ queue' = queue /\ Slips' = Slips
  BY DEF QuoteFilled, Slips
<1>5. ASSUME NEW t \in RiskTickers, NEW s \in RiskSides
      PROVE  Reach(t, s)' <= Reach(t, s) /\ Reach(t, s)' \in Int /\ resting'[t][s] <= resting[t][s]
  <2>1. /\ Reach(t, s)' = HeldOn(s, position'[t]) + resting'[t][s]
        /\ Reach(t, s) = HeldOn(s, position[t]) + resting[t][s]
        /\ position[t] \in Int /\ resting[t][s] \in Nat
    BY DEF Reach, RiskTypeOK
  <2>2. /\ resting'[t][s] = IF t = t0 /\ s = s0 THEN resting[t][s] - n ELSE resting[t][s]
        /\ position'[t] = IF t # t0 THEN position[t]
                          ELSE IF s0 = "bid" THEN position[t] + n ELSE position[t] - n
    BY <1>2 DEF Filled, RiskTypeOK
  <2> QED
    BY <1>3, <2>1, <2>2 DEF HeldOn, RiskSides
<1>6. ReachInv'
  <2> SUFFICES ASSUME NEW t \in RiskTickers, NEW s \in RiskSides
               PROVE  /\ resting'[t][s] <= OrderSize
                      /\ Reach(t, s)' <= MaxPosition - 1 + OrderSize * (2 + Slips)
                      /\ HeldOn(s, cached[t]) < MaxPosition /\ ~Evaluated(t)
                           => Reach(t, s)' <= MaxPosition - 1 + OrderSize * (1 + Slips)
    BY <1>4 DEF ReachInv, Evaluated
  <2> DEFINE wide == OrderSize * (2 + Slips)
             narrow == OrderSize * (1 + Slips)
  <2>1. OrderSize \in Nat /\ MaxPosition \in Nat /\ wide \in Int /\ narrow \in Int
    BY Bounds
  <2>2. /\ resting[t][s] <= OrderSize
        /\ Reach(t, s) <= MaxPosition - 1 + wide
        /\ HeldOn(s, cached[t]) < MaxPosition /\ ~Evaluated(t)
             => Reach(t, s) <= MaxPosition - 1 + narrow
    BY DEF ReachInv
  <2> HIDE DEF wide, narrow
  <2>3. resting[t][s] \in Nat /\ resting'[t][s] \in Int /\ Reach(t, s) \in Int
    <3>1. resting[t][s] \in Nat /\ Reach(t, s) \in Int
      BY Bounds
    <3>2. resting'[t][s] \in Int
      BY DEF RiskTypeOK
    <3> QED
      BY <3>1, <3>2
  <2>4. resting'[t][s] <= OrderSize /\ Reach(t, s)' <= MaxPosition - 1 + wide
    BY <1>5, <2>1, <2>2, <2>3
  <2>5. HeldOn(s, cached[t]) < MaxPosition /\ ~Evaluated(t)
          => Reach(t, s)' <= MaxPosition - 1 + narrow
    BY <1>5, <2>1, <2>2, <2>3
  <2> QED
    BY <2>4, <2>5 DEF wide, narrow
<1> QED
  BY <1>4, <1>6

\* However cycles, manual orders, failed refreshes and fills follow each other,
\* the position gate lets a position and its quote exceed the cap by no more than
\* two quotes and one for each slip (MaxPositionPerSideGate), for any tickers,
\* sizes and caps.
THEOREM OvershootIsBounded == RiskSpec => []OvershootBounded
<1>1. RiskInit => RiskInv
  <2> SUFFICES ASSUME RiskInit
               PROVE  RiskInv
    OBVIOUS
  <2>1. RiskTypeOK
    BY DEF RiskInit, RiskTypeOK, TallyInit, JudgedInit
  <2>2. NoRepeats(queue)
    BY DEF RiskInit, NoRepeats
  <2>3. \A t \in RiskTickers, s \in RiskSides : Reach(t, s) = 0 /\ resting[t][s] = 0 /\ Evaluated(t)
    BY DEF RiskInit, Reach, HeldOn, Evaluated, RiskSides
  <2>4. Slips = 0
    BY DEF RiskInit, Slips, TallyInit
  <2>5. OrderSize \in Nat \ {0} /\ MaxPosition \in Nat
    BY RiskAssumption DEF RiskConfig
  <2>6. ReachInv
    BY <2>3, <2>4, <2>5 DEF ReachInv
  <2> QED
    BY <2>1, <2>2, <2>6 DEF RiskInv
<1>2. RiskInv /\ [RiskNext]_riskVars => RiskInv'
  <2>1. ASSUME RiskInv, RiskNext
        PROVE  RiskInv'
    <3>1. RiskTypeOK'
      BY <2>1, RiskTyped DEF RiskInv
    <3> QED
      BY <2>1, <3>1, ReachStarts, ReachEvaluates, ReachChecksManual, ReachFills DEF RiskNext
  <2>2. ASSUME RiskInv, UNCHANGED riskVars
        PROVE  RiskInv'
    BY <2>2 DEF riskVars, RiskInv, RiskTypeOK, ReachInv, Reach, Evaluated, Slips, NoRepeats
  <2> QED
    BY <2>1, <2>2
<1>3. RiskInv => OvershootBounded
  <2> SUFFICES ASSUME RiskInv, NEW t \in RiskTickers
               PROVE  /\ position[t] + resting[t]["bid"] <= MaxPosition - 1 + OrderSize * (2 + Slips)
                      /\ resting[t]["ask"] - position[t] <= MaxPosition - 1 + OrderSize * (2 + Slips)
    BY DEF OvershootBounded
  <2>1. /\ Reach(t, "bid") <= MaxPosition - 1 + OrderSize * (2 + Slips)
        /\ Reach(t, "ask") <= MaxPosition - 1 + OrderSize * (2 + Slips)
    BY DEF RiskInv, ReachInv, RiskSides
  <2>2. Reach(t, "bid") = position[t] + resting[t]["bid"]
    BY DEF Reach, HeldOn
  <2>3. Reach(t, "ask") = resting[t]["ask"] - position[t]
    BY DEF RiskInv, RiskTypeOK, RiskSides, Reach, HeldOn
  <2> QED
    BY <2>1, <2>2, <2>3
<1> QED
  BY <1>1, <1>2, <1>3, PTL DEF RiskSpec

-----------------------------------------------------------------------------
(* The orders-per-cycle gate.                                              *)

\* FewMisjudged is not inductive: a ticker whose last mid is not the runner's own
\* may still be misjudged, once, as the runner's look puts that right.
Disturbed == {t \in RiskTickers : lastMid[t] # judged.fair[t]}

MidInv == RiskTypeOK /\ judged.wrong + Cardinality(Disturbed) <= tally.manuals

LEMMA DisturbedFinite == IsFiniteSet(Disturbed) /\ Cardinality(Disturbed) \in Nat
<1>1. Len(TickerList) \in Nat
  BY RiskAssumption, LenProperties DEF RiskConfig
<1> DEFINE Positions == 1 .. Len(TickerList)
           At == [k \in Positions |-> TickerList[k]]
<1>2. IsFiniteSet(Positions)
  BY <1>1, FS_Interval
<1>3. At \in Surjection(Positions, RiskTickers)
  BY DEF RiskTickers, Surjection
<1> HIDE DEF Positions, At
<1>4. IsFiniteSet(RiskTickers)
  BY <1>2, <1>3, FS_Surjection
<1>5. IsFiniteSet(Disturbed)
  BY <1>4, FS_Subset DEF Disturbed
<1> QED
  BY <1>5, FS_CardinalityType

LEMMA MidStays ==
    ASSUME MidInv, RiskNext
    PROVE  MidInv'
<1>0. RiskTypeOK'
  BY RiskTyped DEF MidInv
<1>1. /\ judged.wrong \in Nat /\ judged.fair \in [RiskTickers -> Int]
      /\ lastMid \in [RiskTickers -> Int] /\ tally \in Tallies /\ tally.manuals \in Nat
      /\ judged.wrong + Cardinality(Disturbed) <= tally.manuals
  BY TallyTyped DEF MidInv, RiskTypeOK, Tallies
<1>2. IsFiniteSet(Disturbed) /\ Cardinality(Disturbed) \in Nat
  BY DisturbedFinite
<1>3. ASSUME UNCHANGED <<lastMid, judged>>, tally'.manuals = tally.manuals
      PROVE  MidInv'
  BY <1>0, <1>1, <1>3 DEF MidInv, Disturbed
<1>4. CASE StartCycle
  <2>1. tally'.manuals = tally.manuals
    BY <1>1, <1>4 DEF StartCycle, Tallies
  <2> QED
    BY <1>3, <1>4, <2>1 DEF StartCycle
<1>5. CASE EvaluateTicker
  <2> DEFINE t == Head(queue)
  <2>1. t \in RiskTickers
    BY <1>5 DEF EvaluateTicker, MidInv, RiskTypeOK
  <2>2. PICK value \in Theos :
           /\ MidStored(t, value) /\ Judged(t, value)
           /\ \E k : tally' = [tally EXCEPT !.granted = @ + k]
    BY <1>5 DEF EvaluateTicker
  <2> HIDE DEF t
  <2>3. value \in Int
    BY RiskAssumption DEF RiskConfig
  <2>4. tally'.manuals = tally.manuals
    BY <1>1, <2>2 DEF Tallies
  <2> DEFINE more == IF MidJumps(t, value) = Jumps(judged.fair[t], value) THEN 0 ELSE 1
  <2>8. /\ judged'.fair = [judged.fair EXCEPT ![t] = value]
        /\ judged'.wrong = judged.wrong + more
    <3>1. RiskTypeOK
      BY DEF MidInv
    <3> QED
      BY <2>1, <2>2, <2>3, <3>1, JudgedEffect
  <2>9. more \in {0, 1} /\ (lastMid[t] = judged.fair[t] => more = 0)
    BY DEF MidJumps
  <2> HIDE DEF more
  <2>5. Disturbed' = Disturbed \ {t}
    <3>1. lastMid' = [lastMid EXCEPT ![t] = value]
      BY <2>2 DEF MidStored
    <3>2. ASSUME NEW u \in RiskTickers
          PROVE  lastMid'[u] # judged'.fair[u] <=> u # t /\ lastMid[u] # judged.fair[u]
      <4>1. lastMid'[u] = IF u = t THEN value ELSE lastMid[u]
        BY <1>1, <2>1, <3>1
      <4>2. judged'.fair[u] = IF u = t THEN value ELSE judged.fair[u]
        BY <1>1, <2>1, <2>8
      <4> QED
        BY <4>1, <4>2
    <3> QED
      BY <3>2 DEF Disturbed
  <2>6. CASE t \in Disturbed
    <3>1. Cardinality(Disturbed') = Cardinality(Disturbed) - 1
      <4>1. Cardinality(Disturbed \ {t}) = Cardinality(Disturbed) - 1
        BY <1>2, <2>6, FS_RemoveElement
      <4> QED
        BY <2>5, <4>1
    <3>2. judged'.wrong <= judged.wrong + 1 /\ judged'.wrong \in Nat
      BY <1>1, <2>8, <2>9
    <3> QED
      BY <1>0, <1>1, <1>2, <2>4, <3>1, <3>2 DEF MidInv
  <2>7. CASE t \notin Disturbed
    <3>1. Disturbed' = Disturbed
      BY <2>5, <2>7
    <3>2. lastMid[t] = judged.fair[t]
      BY <2>1, <2>7 DEF Disturbed
    <3>3. judged'.wrong = judged.wrong
      BY <1>1, <2>8, <2>9, <3>2
    <3> QED
      BY <1>0, <1>1, <2>4, <3>1, <3>3 DEF MidInv
  <2> QED
    BY <2>6, <2>7
<1>6. CASE ManualCheck
  <2>1. PICK t \in RiskTickers :
           MidStored(t, 50) /\ tally' = [tally EXCEPT !.manuals = @ + 1, !.manualsNow = @ + 1]
    BY <1>6 DEF ManualCheck
  <2>2. judged' = judged /\ tally'.manuals = tally.manuals + 1
    BY <1>1, <1>6, <2>1 DEF ManualCheck, Tallies
  <2>3. Disturbed' \subseteq Disturbed \cup {t}
    BY <1>1, <2>1, <2>2 DEF Disturbed, MidStored
  <2> DEFINE more == Disturbed \cup {t}
  <2>4. IsFiniteSet(more) /\ Cardinality(more) <= Cardinality(Disturbed) + 1
    <3>1. CASE t \in Disturbed
      <4>1. more = Disturbed
        BY <3>1
      <4> HIDE DEF more
      <4> QED
        BY <1>2, <4>1
    <3>2. CASE t \notin Disturbed
      BY <1>2, <3>2, FS_AddElement
    <3> QED
      BY <3>1, <3>2
  <2>5. Disturbed' \subseteq more
    BY <2>3
  <2> HIDE DEF more
  <2>6. /\ Cardinality(Disturbed') <= Cardinality(more)
        /\ Cardinality(Disturbed') \in Nat /\ Cardinality(more) \in Nat
    BY <2>4, <2>5, FS_Subset, FS_CardinalityType
  <2> QED
    BY <1>0, <1>1, <1>2, <2>2, <2>4, <2>6 DEF MidInv
<1>7. CASE QuoteFilled
  BY <1>3, <1>7 DEF QuoteFilled
<1> QED
  BY <1>4, <1>5, <1>6, <1>7 DEF RiskNext

\* The mid-delta gate judges a jump as the runner's own last two fair values of
\* the ticker do, but for one verdict for every manual order, whose 50 cents it
\* has stored (MidDeltaGate), for any tickers, threshold and fair values.
THEOREM JumpsAreSeen == RiskSpec => []FewMisjudged
<1>1. RiskInit => MidInv
  <2> SUFFICES ASSUME RiskInit
               PROVE  MidInv
    OBVIOUS
  <2>1. RiskTypeOK
    BY DEF RiskInit, RiskTypeOK, TallyInit, JudgedInit
  <2>2. Disturbed = {} /\ judged.wrong = 0 /\ tally.manuals = 0
    BY DEF RiskInit, Disturbed, TallyInit, JudgedInit
  <2> QED
    BY <2>1, <2>2, FS_EmptySet DEF MidInv
<1>2. MidInv /\ [RiskNext]_riskVars => MidInv'
  <2>1. ASSUME MidInv, UNCHANGED riskVars
        PROVE  MidInv'
    BY <2>1 DEF riskVars, MidInv, RiskTypeOK, Disturbed
  <2> QED
    BY <2>1, MidStays
<1>3. MidInv => FewMisjudged
  BY DisturbedFinite DEF MidInv, FewMisjudged, RiskTypeOK
<1> QED
  BY <1>1, <1>2, <1>3, PTL DEF RiskSpec

\* CapHolds is not inductive: the gate's own count bounds what it may still
\* grant in the cycle, if the count is of this cycle.
CapInv ==
    /\ RiskTypeOK
    /\ quota.count <= Cap
    /\ tally.granted <= Cap * tally.manualsNow + Counted(cycleId)

\* A check of the gate keeps its count within the cap.
LEMMA QuotaWithin ==
    ASSUME CapInv, NEW id, NEW wanted \in SUBSET RiskSides
    PROVE  /\ Counted(id) \in Nat /\ Counted(id) <= Cap
           /\ Cardinality(QuotaAllows(id, wanted)) \in Nat
           /\ Counted(id) + Cardinality(QuotaAllows(id, wanted)) <= Cap
<1> DEFINE S == QuotaAllows(id, wanted)
<1>1. Cap \in Nat \ {0} /\ quota.count \in Nat
  BY RiskAssumption DEF RiskConfig, CapInv, RiskTypeOK
<1>2. Counted(id) \in Nat /\ Counted(id) <= Cap
  BY <1>1 DEF Counted, CapInv
<1>3. S \in SUBSET RiskSides
  BY DEF QuotaAllows
<1>4. /\ "bid" \in S => "bid" \in wanted /\ Counted(id) + 1 <= Cap
      /\ "ask" \in S => Counted(id) + (IF "bid" \in wanted /\ Counted(id) + 1 <= Cap
                                       THEN 1 ELSE 0) + 1 <= Cap
  BY DEF QuotaAllows
<1>5. /\ Cardinality(S) = (IF "bid" \in S THEN 1 ELSE 0) + (IF "ask" \in S THEN 1 ELSE 0)
      /\ Cardinality(S) \in Nat
  BY <1>3, SidesCounted
<1> QED
  BY <1>1, <1>2, <1>4, <1>5

LEMMA CapStays ==
    ASSUME CapInv, RiskNext
    PROVE  CapInv'
<1>0. RiskTypeOK'
  BY RiskTyped DEF CapInv
<1>1. /\ Cap \in Nat \ {0} /\ quota.count \in Nat /\ quota \in [cycle : Int, count : Nat]
      /\ tally.granted \in Nat /\ tally.manualsNow \in Nat /\ tally \in Tallies
      /\ cycleId \in Nat
  BY RiskAssumption, TallyTyped DEF RiskConfig, CapInv, RiskTypeOK, Tallies
<1>2. CASE StartCycle
  <2>1. quota' = quota /\ tally'.granted = 0 /\ tally'.manualsNow = 0
    BY <1>1, <1>2 DEF StartCycle, Tallies
  <2>2. Counted(cycleId)' \in Nat
    BY <1>1, <2>1 DEF Counted
  <2> QED
    BY <1>0, <1>1, <2>1, <2>2 DEF CapInv
<1>3. CASE EvaluateTicker
  <2> PICK wanted \in SUBSET RiskSides :
        /\ QuotaAfter(cycleId, QuotaAllows(cycleId, wanted))
        /\ tally' = [tally EXCEPT !.granted = @ + Cardinality(QuotaAllows(cycleId, wanted))]
    BY <1>3 DEF EvaluateTicker
  <2> DEFINE n == Cardinality(QuotaAllows(cycleId, wanted))
  <2>1. /\ Counted(cycleId) \in Nat /\ n \in Nat /\ Counted(cycleId) + n <= Cap
    BY QuotaWithin
  <2>2. quota' = [cycle |-> cycleId, count |-> Counted(cycleId) + n] /\ cycleId' = cycleId
    BY <1>3 DEF QuotaAfter, EvaluateTicker
  <2>3. tally'.granted = tally.granted + n /\ tally'.manualsNow = tally.manualsNow
    BY <1>1 DEF Tallies
  <2>4. Counted(cycleId)' = Counted(cycleId) + n
    BY <2>2 DEF Counted
  <2> HIDE DEF n
  <2>5. Cap * tally.manualsNow \in Nat
    BY <1>1
  <2>6. tally.granted + n <= Cap * tally.manualsNow + (Counted(cycleId) + n)
    BY <1>1, <2>1, <2>5 DEF CapInv
  <2> QED
    BY <1>0, <2>1, <2>2, <2>3, <2>4, <2>6 DEF CapInv
<1>4. CASE ManualCheck
  <2> PICK side \in RiskSides :
        /\ QuotaAfter(0, QuotaAllows(0, {side}))
        /\ tally' = [tally EXCEPT !.manuals = @ + 1, !.manualsNow = @ + 1]
    BY <1>4 DEF ManualCheck
  <2> DEFINE n == Cardinality(QuotaAllows(0, {side}))
  <2>1. Counted(0) \in Nat /\ n \in Nat /\ Counted(0) + n <= Cap
    <3>1. {side} \in SUBSET RiskSides
      OBVIOUS
    <3> QED
      BY <3>1, QuotaWithin
  <2>2. quota' = [cycle |-> 0, count |-> Counted(0) + n] /\ cycleId' = cycleId
    BY <1>4 DEF QuotaAfter, ManualCheck
  <2>3. tally'.granted = tally.granted /\ tally'.manualsNow = tally.manualsNow + 1
    BY <1>1 DEF Tallies
  <2>4. Counted(cycleId)' \in Nat
    BY <2>1, <2>2 DEF Counted
  <2>5. Counted(cycleId) \in Nat /\ Counted(cycleId) <= Cap
    BY QuotaWithin
  <2>6. /\ Cap * tally.manualsNow \in Nat
        /\ Cap * (tally.manualsNow + 1) = Cap * tally.manualsNow + Cap
    BY <1>1
  <2>7. tally.granted <= Cap * (tally.manualsNow + 1) + Counted(cycleId)'
    BY <1>1, <2>4, <2>5, <2>6 DEF CapInv
  <2> QED
    BY <1>0, <2>1, <2>2, <2>3, <2>7 DEF CapInv
<1>5. CASE QuoteFilled
  BY <1>0, <1>5 DEF QuoteFilled, CapInv, Counted
<1> QED
  BY <1>2, <1>3, <1>4, <1>5 DEF RiskNext

\* The quota gate grants the runner no more than its cap in a cycle, but as often
\* again as manual orders reset its counter (MaxOrdersPerCycleGate), for any
\* tickers and cap.
THEOREM QuotaIsKept == RiskSpec => []CapHolds
<1>1. RiskInit => CapInv
  <2> SUFFICES ASSUME RiskInit
               PROVE  CapInv
    OBVIOUS
  <2>1. RiskTypeOK
    BY DEF RiskInit, RiskTypeOK, TallyInit, JudgedInit
  <2>2. Counted(cycleId) = 0 /\ quota.count = 0 /\ tally.granted = 0 /\ tally.manualsNow = 0
    BY DEF RiskInit, Counted, TallyInit
  <2>3. Cap \in Nat \ {0}
    BY RiskAssumption DEF RiskConfig
  <2> QED
    BY <2>1, <2>2, <2>3 DEF CapInv
<1>2. CapInv /\ [RiskNext]_riskVars => CapInv'
  <2>1. ASSUME CapInv, UNCHANGED riskVars
        PROVE  CapInv'
    BY <2>1 DEF riskVars, CapInv, RiskTypeOK, Counted
  <2> QED
    BY <2>1, CapStays
<1>3. CapInv => CapHolds
  <2> SUFFICES ASSUME CapInv
               PROVE  CapHolds
    OBVIOUS
  <2>1. Cap \in Nat /\ tally.granted \in Nat /\ tally.manualsNow \in Nat
    BY RiskAssumption, TallyTyped DEF RiskConfig, CapInv, RiskTypeOK, Tallies
  <2>2. Counted(cycleId) \in Nat /\ Counted(cycleId) <= Cap
    BY QuotaWithin
  <2>3. Cap * tally.manualsNow \in Nat /\ Cap * (1 + tally.manualsNow) = Cap * tally.manualsNow + Cap
    BY <2>1
  <2> QED
    BY <2>1, <2>2, <2>3 DEF CapInv, CapHolds
<1> QED
  BY <1>1, <1>2, <1>3, PTL DEF RiskSpec

\* A manual order upsets the gates that keep state once each at most (the quota
\* and the mid-delta gate, which submit_manual_order evaluates with the others).
THEOREM ManualsUpsetGatesOnce == RiskSpec => []ManualsUpsetOnce
<1>1. CapHolds /\ FewMisjudged => ManualsUpsetOnce
  BY DEF ManualsUpsetOnce
<1> QED
  BY <1>1, QuotaIsKept, JumpsAreSeen, PTL

-----------------------------------------------------------------------------
(* A session of the bot, from start to exit.                               *)

\* The orders that nobody could have cancelled.
Named == {e[1] : e \in excuses}

\* The orders whose senders have not had their answer.
Unanswered == {underway[s] : s \in Placers}

\* Each stage of a session, and what must be true of the orders on the exchange
\* when it is reached: up to the runner's start nothing is; while the runner and
\* the sweep work, an order is tracked, unanswered or excused; once the tracked
\* orders have been pulled, being tracked counts no longer; at the end nobody
\* waits for an answer.
LifeInv ==
    /\ placed \in Nat
    /\ underway \in [Placers -> Nat]
    /\ 0 \notin onExchange /\ 0 \notin arrived
    /\ stage \in {"zombies", "seeding"} => Unanswered = {0}
    /\ stage \notin {"running", "stopping"} => underway["runner"] = 0
    /\ stage \in {"running", "stopping", "sweeping", "pulling"}
         => onExchange \subseteq view \cup Named \cup Unanswered
    /\ stage \in {"recounting", "closing"} => onExchange \subseteq Named \cup Unanswered
    /\ stage = "ended" => onExchange \subseteq Named /\ Unanswered = {0}

\* An excuse names its orders, and none that was named is forgotten.
LEMMA ExcusesNames ==
    ASSUME NEW orders, NEW why, excuses' = Excused(orders, why)
    PROVE  Named' = Named \cup orders
<1>1. \A o \in orders : <<o, why>>[1] = o
  OBVIOUS
<1> QED
  BY <1>1 DEF Named, Excused

\* No step of the session breaks the account of its orders.
LEMMA LifeStays ==
    ASSUME LifeInv, [LifeNext]_lifeVars
    PROVE  LifeInv'
<1> USE DEF LifeInv
<1>0. Unanswered = {underway["runner"], underway["dashboard"]}
  BY DEF Unanswered, Placers
<1>1. CASE ZombiesSwept
  <2>1. onExchange' \subseteq onExchange
    BY <1>1 DEF ZombiesSwept, PageOf, Survivors
  <2> QED
    BY <1>1, <2>1 DEF ZombiesSwept, Unanswered, Named
<1>2. CASE SeedsAdded
  BY <1>2 DEF SeedsAdded, Unanswered, Named
<1>3. CASE RunnerStarts
  <2>1. Unanswered' = Unanswered
    BY <1>3 DEF RunnerStarts, Unanswered
  <2>2. CASE \E page \in PageOf(onExchange) :
               view' = page /\ excuses' = Excused(onExchange \ page, "unlisted")
    <3>1. PICK page \in PageOf(onExchange) :
             view' = page /\ excuses' = Excused(onExchange \ page, "unlisted")
      BY <2>2
    <3>2. Named' = Named \cup (onExchange \ page)
      BY <3>1, ExcusesNames
    <3> QED
      BY <1>3, <2>1, <3>1, <3>2 DEF RunnerStarts
  <2>3. CASE excuses' = Excused(onExchange \ view, "unlisted") /\ view' = view
    <3>1. Named' = Named \cup (onExchange \ view)
      BY <2>3, ExcusesNames
    <3> QED
      BY <1>3, <2>1, <2>3, <3>1 DEF RunnerStarts
  <2> QED
    BY <1>3, <2>2, <2>3 DEF RunnerStarts
<1>4. ASSUME NEW s \in Placers, Sends(s)
      PROVE  LifeInv'
  <2>1. underway' \in [Placers -> Nat] /\ placed' \in Nat
    BY <1>4 DEF Sends
  <2>2. \A r \in Placers : underway[r] # 0 => underway'[r] = underway[r]
    BY <1>4 DEF Sends
  <2>3. Unanswered \subseteq Unanswered' \cup {0}
    BY <2>2 DEF Unanswered
  <2>4. stage \notin {"running", "stopping"} => underway'["runner"] = underway["runner"]
    BY <1>4 DEF Sends, Alive, Placers
  <2>5. stage \notin {"zombies", "seeding", "ended"}
    BY <1>4 DEF Sends, Alive
  <2>6. Named' = Named
    BY <1>4 DEF Sends, Named
  <2> QED
    BY <1>4, <2>1, <2>3, <2>4, <2>5, <2>6 DEF Sends
<1>5. ASSUME NEW s \in Placers, Executes(s)
      PROVE  LifeInv'
  <2>1. Unanswered' = Unanswered /\ Named' = Named /\ underway[s] \in Unanswered
    BY <1>5 DEF Executes, Unanswered, Named
  <2>2. underway[s] # 0
    BY <1>5 DEF Executes
  <2> QED
    BY <1>5, <2>1, <2>2 DEF Executes
<1>6. CASE TakenByOthers
  <2>1. Unanswered' = Unanswered /\ Named' = Named /\ onExchange' \subseteq onExchange
    BY <1>6 DEF TakenByOthers, Unanswered, Named
  <2> QED
    BY <1>6, <2>1 DEF TakenByOthers
<1>7. ASSUME NEW s \in Placers, Records(s)
      PROVE  LifeInv'
  <2>1. underway' \in [Placers -> Nat] /\ underway'["runner"] \in {0, underway["runner"]}
    BY <1>7 DEF Records, Placers
  <2>2. underway[s] # 0
    BY <1>7 DEF Records
  <2>3. stage \notin {"zombies", "seeding", "ended"}
    BY <2>2 DEF Unanswered
  <2>4. stage \notin {"running", "stopping"} => s = "dashboard"
    BY <2>2 DEF Placers
  <2>5. Unanswered \subseteq Unanswered' \cup {underway[s]}
    BY <1>7 DEF Records, Unanswered
  <2>6. Named' = Named \cup (IF s = "dashboard" /\ stage \in {"pulling", "recounting", "closing"}
                             THEN {underway[s]} ELSE {})
    <3>1. CASE s = "dashboard" /\ stage \in {"pulling", "recounting", "closing"}
      BY <1>7, <3>1, ExcusesNames DEF Records
    <3>2. CASE ~(s = "dashboard" /\ stage \in {"pulling", "recounting", "closing"})
      BY <1>7, <3>2 DEF Records, Named
    <3> QED
      BY <3>1, <3>2
  <2> QED
    BY <1>7, <2>1, <2>3, <2>4, <2>5, <2>6 DEF Records
<1>8. CASE Signalled
  BY <1>8 DEF Signalled, Unanswered, Named
<1>9. CASE RunnerEnds
  BY <1>9 DEF RunnerEnds, Unanswered, Named
<1>10. CASE RunnerCut
  <2> DEFINE o == underway["runner"]
  <2>1. Named' = Named \cup ({o} \ {0})
    BY <1>10, ExcusesNames DEF RunnerCut
  <2>2. onExchange' \subseteq onExchange \cup ({o} \ {0})
    BY <1>10 DEF RunnerCut
  <2>3. underway' \in [Placers -> Nat] /\ underway'["runner"] = 0
        /\ underway'["dashboard"] = underway["dashboard"]
    BY <1>10 DEF RunnerCut, Placers
  <2>4. Unanswered' = {0, underway["dashboard"]}
    BY <2>3 DEF Unanswered, Placers
  <2> QED
    BY <1>0, <1>10, <2>1, <2>2, <2>3, <2>4 DEF RunnerCut
<1>11. CASE SweepCollected
  BY <1>11 DEF SweepCollected, Unanswered, Named
<1>12. CASE SweepPulls
  <2>1. PICK left \in Survivors(Wanted) :
           /\ onExchange' = onExchange \ (Wanted \ left)
           /\ excuses' = Excused(left, "not cancelled")
    BY <1>12 DEF SweepPulls
  <2>2. Named' = Named \cup left
    BY <2>1, ExcusesNames
  <2>3. view \subseteq Wanted \cup Named
    <3>1. \A o \in view : <<o, "late">> \in excuses => <<o, "late">>[1] \in Named
      BY DEF Named
    <3>2. \A o : <<o, "late">>[1] = o
      OBVIOUS
    <3> QED
      BY <3>1, <3>2 DEF Wanted
  <2>4. Unanswered' = Unanswered
    BY <1>12 DEF SweepPulls, Unanswered
  <2>5. onExchange' \subseteq Named' \cup Unanswered'
    BY <1>12, <2>1, <2>2, <2>3, <2>4 DEF SweepPulls
  <2> QED
    BY <1>12, <2>1, <2>4, <2>5 DEF SweepPulls
<1>13. CASE Recounted
  BY <1>13 DEF Recounted, Unanswered, Named
<1>14. CASE SweepTimesOut
  <2>1. Named' = Named \cup (onExchange \cap view)
    BY <1>14, ExcusesNames DEF SweepTimesOut
  <2>2. Unanswered' = Unanswered
    BY <1>14 DEF SweepTimesOut, Unanswered
  <2> QED
    BY <1>14, <2>1, <2>2 DEF SweepTimesOut
<1>15. CASE Closed
  <2> DEFINE o == underway["dashboard"]
  <2>1. Named' = Named \cup ({o} \ {0})
    BY <1>15, ExcusesNames DEF Closed
  <2>2. onExchange' \subseteq onExchange \cup ({o} \ {0})
    BY <1>15 DEF Closed
  <2>3. underway' \in [Placers -> Nat] /\ underway'["runner"] = 0
        /\ underway'["dashboard"] = 0
    BY <1>15 DEF Closed, Placers
  <2>4. Unanswered' = {0} /\ Unanswered = {0, o}
    BY <1>0, <1>15, <2>3 DEF Closed, Unanswered, Placers
  <2> QED
    BY <1>15, <2>1, <2>2, <2>3, <2>4 DEF Closed
<1>16. CASE UNCHANGED lifeVars
  BY <1>16 DEF lifeVars, Unanswered, Named
<1> QED
  BY <1>1, <1>2, <1>3, <1>4, <1>5, <1>6, <1>7, <1>8, <1>9, <1>10, <1>11, <1>12, <1>13,
     <1>14, <1>15, <1>16 DEF LifeNext

\* After the exit, an order that rests is one no listing showed, one the runner
\* was cut off from, one whose cancel failed or was not awaited, or one placed by
\* hand after the sweep had collected its orders (_amain), however many orders
\* and however long the listings are.
THEOREM NothingLeftUnexplained ==
    LifeInit /\ [][LifeNext]_lifeVars => []LeftBehindExplained
<1>1. LifeInit => LifeInv
  BY LifeAssumption DEF LifeInit, LifeInv, Unanswered, Placers
<1>2. LifeInv /\ [LifeNext]_lifeVars => LifeInv'
  BY LifeStays
<1>3. LifeInv => LeftBehindExplained
  BY DEF LifeInv, LeftBehindExplained, Named
<1> QED
  BY <1>1, <1>2, <1>3, PTL

-----------------------------------------------------------------------------
(* Where fair values come from.                                            *)

\* A version of a source.
Versions == [version : Nat, what : {"row", "norow", "bad"}, mtime : Nat]

TheoShape ==
    /\ theoTick \in Nat
    /\ shown \in [Outside -> Versions]
    /\ replaced \in [Outside -> Seq(Nat)]
    /\ \A s \in Outside : Len(replaced[s]) + 1 = shown[s].version
    /\ copies \in [Outside -> [version : Nat, lists : BOOLEAN, at : Nat]]
    /\ \A s \in Outside : copies[s].at <= theoTick

\* A version is the one its source shows, or was replaced at that time or later.
ShownAt(s, v, prior) ==
    v = shown[s].version
        \/ (v \in 1 .. Len(replaced[s]) /\ replaced[s][v] >= prior)

\* How long what is read may be on its way: a file is read where it is loaded.
Slack(s) == IF s = "file" THEN 0 ELSE SlowestPoll

\* What the program holds was shown when it was dated, or a reading's time before.
CopiesWereShown ==
    \A s \in Outside : copies[s].at > 0 =>
        ShownAt(s, copies[s].version, copies[s].at - Slack(s))

\* A reading on its way holds what was shown when it left, and none is on its way
\* for longer than a request may take.
ReadingsAreRecent ==
    /\ polls = [p \in Pollers |-> polls[p]]
    /\ \A p \in Pollers :
        /\ polls[p].since \in Nat
        /\ polls[p].since > 0 =>
            /\ polls[p].since <= theoTick
            /\ theoTick - polls[p].since <= SlowestPoll
            /\ \A s \in Reads(p) : ShownAt(s, polls[p].read[s].version, polls[p].since)
            /\ \A s \in Reads(p) : polls[p].read[s].version \in Nat

TheoInv == TheoShape /\ CopiesWereShown /\ ReadingsAreRecent

LEMMA ReadsOutside ==
    ASSUME NEW p \in Pollers
    PROVE  /\ Reads(p) \subseteq Outside
           /\ "file" \notin Reads(p)
BY TheoAssumption DEF Pollers, Reads, Outside, TheoConfig

LEMMA TheoStarts == TheoInit => TheoInv
<1> SUFFICES ASSUME TheoInit
             PROVE  TheoInv
  OBVIOUS
<1>1. TheoShape
  <2>1. shown \in [Outside -> Versions] /\ \A s \in Outside : shown[s].version = 1
    <3>1. [version |-> 1, what |-> "row", mtime |-> 1] \in Versions
      BY DEF Versions
    <3> QED
      BY <3>1 DEF TheoInit
  <2>2. replaced \in [Outside -> Seq(Nat)] /\ \A s \in Outside : Len(replaced[s]) = 0
    BY DEF TheoInit
  <2>3. copies \in [Outside -> [version : Nat, lists : BOOLEAN, at : Nat]]
        /\ \A s \in Outside : copies[s].at = 0
    BY DEF TheoInit, NothingHeld
  <2> QED
    BY <2>1, <2>2, <2>3 DEF TheoInit, TheoShape
<1>2. CopiesWereShown
  BY DEF TheoInit, CopiesWereShown, NothingHeld
<1>3. ReadingsAreRecent
  BY DEF TheoInit, ReadingsAreRecent, NoPoll
<1> QED
  BY <1>1, <1>2, <1>3 DEF TheoInv

\* Time passes only while every reading may still be on its way.
LEMMA TheoWaits ==
    ASSUME TheoInv, TickPasses
    PROVE  TheoInv'
<1>1. theoTick' = theoTick + 1 /\ theoTick \in Nat
  BY DEF TickPasses, TheoInv, TheoShape
<1>2. TheoShape'
  BY <1>1 DEF TickPasses, TheoInv, TheoShape
<1>3. CopiesWereShown'
  BY DEF TickPasses, TheoInv, CopiesWereShown, ShownAt
<1>4. ReadingsAreRecent'
  BY <1>1, TheoAssumption DEF TickPasses, TheoInv, ReadingsAreRecent, ShownAt, Busy, TheoConfig
<1> QED
  BY <1>2, <1>3, <1>4 DEF TheoInv

\* A version that was shown is shown, or is replaced now.
LEMMA StillShown ==
    ASSUME TheoShape, NEW s \in Outside, Renewed(s), NEW r \in Outside,
           NEW v, NEW prior \in Int, prior <= theoTick, ShownAt(r, v, prior)
    PROVE  ShownAt(r, v, prior)'
<1>1. replaced' = [replaced EXCEPT ![s] = Append(@, theoTick)]
  BY DEF Renewed
<1>2. PICK what \in {"row", "norow", "bad"},
           mtime \in {shown[s].mtime} \cup IF s = "file" THEN {theoTick} ELSE {} :
         shown' = [shown EXCEPT ![s] = [version |-> @.version + 1, what |-> what,
                                        mtime |-> mtime]]
  BY DEF Renewed
<1>3. replaced[s] \in Seq(Nat) /\ theoTick \in Nat /\ Len(replaced[s]) \in Nat
      /\ shown[s].version = Len(replaced[s]) + 1
  BY DEF TheoShape
<1>4. CASE r # s
  BY <1>1, <1>2, <1>4 DEF ShownAt, TheoShape
<1>5. CASE r = s
  <2> DEFINE q == replaced[s]
  <2>1. replaced'[s] = Append(q, theoTick)
    BY <1>1 DEF TheoShape
  <2>2. /\ Len(Append(q, theoTick)) = Len(q) + 1
        /\ \A k \in 1 .. Len(q) : Append(q, theoTick)[k] = q[k]
        /\ Append(q, theoTick)[Len(q) + 1] = theoTick
    BY <1>3
  <2>3. CASE v = shown[s].version
    BY <1>3, <1>5, <2>1, <2>2, <2>3 DEF ShownAt
  <2>4. CASE v \in 1 .. Len(q) /\ q[v] >= prior
    <3>1. v \in 1 .. Len(q) + 1 /\ Append(q, theoTick)[v] = q[v]
      BY <1>3, <2>2, <2>4
    <3> QED
      BY <1>5, <2>1, <2>2, <2>4, <3>1 DEF ShownAt
  <2> QED
    BY <1>5, <2>3, <2>4 DEF ShownAt
<1> QED
  BY <1>4, <1>5

LEMMA TheoRenews ==
    ASSUME TheoInv, NEW s \in Outside, Renewed(s)
    PROVE  TheoInv'
<1> USE DEF TheoInv
<1>1. /\ replaced' = [replaced EXCEPT ![s] = Append(@, theoTick)]
      /\ theoTick' = theoTick /\ copies' = copies /\ polls' = polls
  BY DEF Renewed
<1>2. PICK what \in {"row", "norow", "bad"},
           mtime \in {shown[s].mtime} \cup IF s = "file" THEN {theoTick} ELSE {} :
         shown' = [shown EXCEPT ![s] = [version |-> @.version + 1, what |-> what,
                                        mtime |-> mtime]]
  BY DEF Renewed
<1>3. replaced[s] \in Seq(Nat) /\ theoTick \in Nat /\ Len(replaced[s]) \in Nat
      /\ shown[s].version = Len(replaced[s]) + 1 /\ shown[s].mtime \in Nat
  BY DEF TheoShape, Versions
<1>4. Append(replaced[s], theoTick) \in Seq(Nat)
      /\ Len(Append(replaced[s], theoTick)) = Len(replaced[s]) + 1
  BY <1>3
<1>5. [version |-> shown[s].version + 1, what |-> what, mtime |-> mtime] \in Versions
  <2>1. mtime \in Nat /\ shown[s].version + 1 \in Nat
    BY <1>3
  <2> QED
    BY <2>1 DEF Versions
<1>6. TheoShape'
  <2>1. shown' \in [Outside -> Versions]
    BY <1>2, <1>5 DEF TheoShape
  <2>2. replaced' \in [Outside -> Seq(Nat)]
    BY <1>1, <1>4 DEF TheoShape
  <2>3. \A r \in Outside : Len(replaced'[r]) + 1 = shown'[r].version
    BY <1>1, <1>2, <1>3, <1>4 DEF TheoShape
  <2> QED
    BY <1>1, <2>1, <2>2, <2>3 DEF TheoShape
<1>7. CopiesWereShown'
  <2> SUFFICES ASSUME NEW r \in Outside, copies[r].at > 0
               PROVE  ShownAt(r, copies[r].version, copies[r].at - Slack(r))'
    BY <1>1 DEF CopiesWereShown
  <2>1. copies[r].at - Slack(r) \in Int /\ copies[r].at - Slack(r) <= theoTick
    BY <1>3, TheoAssumption DEF TheoShape, Slack, TheoConfig
  <2> DEFINE prior == copies[r].at - Slack(r)
  <2>2. ShownAt(r, copies[r].version, prior)
    BY DEF CopiesWereShown
  <2> HIDE DEF prior
  <2>3. ShownAt(r, copies[r].version, prior)'
    BY <2>1, <2>2, StillShown, <1>1 DEF prior
  <2> QED
    BY <1>1, <2>3 DEF prior, Slack
<1>8. ReadingsAreRecent'
  <2> SUFFICES ASSUME NEW p \in Pollers, polls[p].since > 0, NEW r \in Reads(p)
               PROVE  ShownAt(r, polls[p].read[r].version, polls[p].since)'
    BY <1>1 DEF ReadingsAreRecent, Reads
  <2>1. r \in Outside
    BY ReadsOutside
  <2>2. polls[p].since \in Int /\ polls[p].since <= theoTick
        /\ ShownAt(r, polls[p].read[r].version, polls[p].since)
    BY DEF ReadingsAreRecent
  <2> QED
    BY <1>1, <2>1, <2>2, StillShown
<1> QED
  BY <1>6, <1>7, <1>8

LEMMA KeptIsTyped ==
    ASSUME theoTick \in Nat, NEW v \in Nat, NEW what
    PROVE  /\ Kept(v, what) \in [version : Nat, lists : BOOLEAN, at : Nat]
           /\ Kept(v, what).version = v /\ Kept(v, what).at = theoTick
BY DEF Kept

LEMMA TheoReloads ==
    ASSUME TheoInv, FileReloaded
    PROVE  TheoInv'
<1> USE DEF TheoInv
<1>1. /\ theoTick' = theoTick /\ shown' = shown /\ replaced' = replaced /\ polls' = polls
      /\ copies' = [copies EXCEPT !["file"] = Kept(shown["file"].version, shown["file"].what)]
  BY DEF FileReloaded
<1>2. "file" \in Outside /\ theoTick \in Nat /\ shown["file"].version \in Nat
  BY DEF Outside, TheoShape, Versions
<1> DEFINE kept == Kept(shown["file"].version, shown["file"].what)
<1>3. /\ kept \in [version : Nat, lists : BOOLEAN, at : Nat]
      /\ kept.version = shown["file"].version /\ kept.at = theoTick
  BY <1>2, KeptIsTyped
<1> HIDE DEF kept
<1>4. TheoShape'
  BY <1>1, <1>2, <1>3 DEF TheoShape, kept
<1>5. CopiesWereShown'
  BY <1>1, <1>2, <1>3 DEF CopiesWereShown, ShownAt, kept, TheoShape
<1>6. ReadingsAreRecent'
  BY <1>1 DEF ReadingsAreRecent, ShownAt, Reads
<1> QED
  BY <1>4, <1>5, <1>6

LEMMA TheoLeaves ==
    ASSUME TheoInv, NEW p \in Pollers, PollLeaves(p)
    PROVE  TheoInv'
<1> USE DEF TheoInv
<1>1. /\ theoTick' = theoTick /\ shown' = shown /\ replaced' = replaced /\ copies' = copies
      /\ polls' = [polls EXCEPT ![p] = [since |-> theoTick,
                                        read |-> [s \in Reads(p) |-> shown[s]]]]
  BY DEF PollLeaves
<1>2. TheoShape' /\ CopiesWereShown'
  BY <1>1 DEF TheoShape, CopiesWereShown, ShownAt, Slack
<1>3. ReadingsAreRecent'
  <2>0. polls' = [q \in Pollers |-> polls'[q]]
    BY <1>1 DEF ReadingsAreRecent
  <2>1. ASSUME NEW q \in Pollers, q # p
        PROVE  polls'[q] = polls[q]
    BY <1>1, <2>1 DEF ReadingsAreRecent
  <2>2. polls'[p].since = theoTick /\ \A s \in Reads(p) : polls'[p].read[s] = shown[s]
    BY <1>1 DEF ReadingsAreRecent
  <2>3. \A s \in Reads(p) : shown[s].version \in Nat
    BY ReadsOutside DEF TheoShape, Versions
  <2>4. theoTick \in Nat
    BY DEF TheoShape
  <2>5. SlowestPoll \in Nat
    BY TheoAssumption DEF TheoConfig
  <2>6. ASSUME NEW q \in Pollers, q # p
        PROVE  /\ polls'[q].since \in Nat
               /\ polls'[q].since > 0 =>
                    /\ polls'[q].since <= theoTick
                    /\ theoTick - polls'[q].since <= SlowestPoll
                    /\ \A s \in Reads(q) :
                         ShownAt(s, polls'[q].read[s].version, polls'[q].since)
                    /\ \A s \in Reads(q) : polls'[q].read[s].version \in Nat
    BY <2>1, <2>6 DEF ReadingsAreRecent
  <2>7. \A s \in Reads(p) : ShownAt(s, polls'[p].read[s].version, polls'[p].since)
    BY <2>2 DEF ShownAt
  <2>8. ReadingsAreRecent' <=>
          /\ polls' = [q \in Pollers |-> polls'[q]]
          /\ \A q \in Pollers :
              /\ polls'[q].since \in Nat
              /\ polls'[q].since > 0 =>
                  /\ polls'[q].since <= theoTick
                  /\ theoTick - polls'[q].since <= SlowestPoll
                  /\ \A s \in Reads(q) : ShownAt(s, polls'[q].read[s].version, polls'[q].since)
                  /\ \A s \in Reads(q) : polls'[q].read[s].version \in Nat
    BY <1>1 DEF ReadingsAreRecent, ShownAt, Reads
  <2> QED
    BY <2>0, <2>2, <2>3, <2>4, <2>5, <2>6, <2>7, <2>8
<1> QED
  BY <1>2, <1>3

LEMMA TheoArrives ==
    ASSUME TheoInv, NEW p \in Pollers, PollArrives(p)
    PROVE  TheoInv'
<1> USE DEF TheoInv
<1>1. /\ theoTick' = theoTick /\ shown' = shown /\ replaced' = replaced
      /\ polls' = [polls EXCEPT ![p] = NoPoll]
  BY DEF PollArrives
<1>2. PICK got \in SUBSET Reads(p) :
         copies' = [s \in Outside |->
           IF s \notin got \/ polls[p].read[s].what = "bad"
                \/ (s \in Symbols /\ polls[p].read[s].what # "row")
           THEN copies[s] ELSE Kept(polls[p].read[s].version, polls[p].read[s].what)]
  BY DEF PollArrives
<1>3. /\ polls[p].since > 0 /\ polls[p].since \in Nat /\ theoTick \in Nat
      /\ theoTick - polls[p].since <= SlowestPoll /\ SlowestPoll \in Nat
      /\ \A s \in Reads(p) : ShownAt(s, polls[p].read[s].version, polls[p].since)
      /\ \A s \in Reads(p) : polls[p].read[s].version \in Nat
  BY TheoAssumption DEF PollArrives, Busy, ReadingsAreRecent, TheoShape, TheoConfig
<1>4. ASSUME NEW s \in Outside
      PROVE  \/ copies'[s] = copies[s]
             \/ /\ s \in Reads(p)
                /\ copies'[s] \in [version : Nat, lists : BOOLEAN, at : Nat]
                /\ copies'[s].version = polls[p].read[s].version
                /\ copies'[s].at = theoTick
  BY <1>2, <1>3, KeptIsTyped
<1>5. TheoShape'
  <2>1. copies' = [s \in Outside |-> copies'[s]]
    BY <1>2
  <2>2. \A s \in Outside : /\ copies'[s] \in [version : Nat, lists : BOOLEAN, at : Nat]
                           /\ copies'[s].at <= theoTick
    BY <1>3, <1>4 DEF TheoShape
  <2> QED
    BY <1>1, <2>1, <2>2 DEF TheoShape
<1>6. CopiesWereShown'
  <2> SUFFICES ASSUME NEW s \in Outside, copies'[s].at > 0
               PROVE  ShownAt(s, copies'[s].version, copies'[s].at - Slack(s))
    BY <1>1 DEF CopiesWereShown, ShownAt, Slack
  <2>1. CASE copies'[s] = copies[s]
    BY <2>1 DEF CopiesWereShown
  <2>2. CASE /\ s \in Reads(p)
             /\ copies'[s].version = polls[p].read[s].version
             /\ copies'[s].at = theoTick
    <3>1. s # "file"
      BY <2>2, ReadsOutside
    <3>2. theoTick - SlowestPoll <= polls[p].since
      BY <1>3
    <3>3. ShownAt(s, polls[p].read[s].version, polls[p].since)
      BY <1>3, <2>2
    <3>4. replaced[s] \in Seq(Nat)
      BY DEF TheoShape
    <3>5. \A v \in 1 .. Len(replaced[s]) : replaced[s][v] \in Nat
      BY <3>4
    <3>6. ShownAt(s, polls[p].read[s].version, theoTick - SlowestPoll)
      BY <1>3, <3>2, <3>3, <3>5, SMTT(30) DEF ShownAt
    <3> QED
      BY <2>2, <3>1, <3>6 DEF Slack
  <2> QED
    BY <1>4, <2>1, <2>2
<1>7. ReadingsAreRecent'
  BY <1>1 DEF ReadingsAreRecent, ShownAt, Reads, NoPoll
<1> QED
  BY <1>5, <1>6, <1>7

\* Some component is the oldest.
LEMMA OldestIsOldest ==
    ASSUME TheoShape, NEW r \in Symbols
    PROVE  OldestAge \in Nat /\ Age(r) <= OldestAge
<1> DEFINE ages == {Age(s) : s \in Symbols}
           T == {copies[s].at : s \in Symbols}
<1>0. /\ theoTick \in Nat
      /\ \A s \in Symbols : copies[s].at \in Nat /\ copies[s].at <= theoTick
  BY DEF TheoShape, Outside
<1>1. PICK x \in T : \A y \in T : x <= y
  <2>1. T \in SUBSET Nat /\ T # {}
    BY <1>0
  <2> QED
    BY <2>1, SmallestExists
<1>2. PICK s \in Symbols : x = copies[s].at
  OBVIOUS
<1>3. \A a \in ages : a \in Nat /\ Age(s) >= a
  <2> TAKE a \in ages
  <2>1. PICK q \in Symbols : a = Age(q)
    OBVIOUS
  <2>2. x <= copies[q].at
    BY <1>1
  <2> QED
    BY <1>0, <1>2, <2>1, <2>2 DEF Age
<1>4. Age(s) \in ages /\ Age(r) \in ages
  OBVIOUS
<1> HIDE DEF ages
<1>5. Max(ages) \in ages /\ \A a \in ages : Max(ages) >= a
  BY <1>3, <1>4 DEF Max
<1>6. OldestAge = Max(ages)
  BY DEF OldestAge, ages
<1> QED
  BY <1>3, <1>4, <1>5, <1>6

\* The version held was still shown so long ago.
HeldIsRecent(s, limit) ==
    \/ copies[s].version = shown[s].version
    \/ replaced[s][copies[s].version] >= theoTick - limit

\* What a poll or a file gave is trusted for so long.
LEMMA TrustIsRecent ==
    ASSUME TheoInv, NEW s \in Outside, NEW age \in Int, NEW limit \in Int,
           copies[s].at > 0, Age(s) <= age, limit = age + Slack(s)
    PROVE  HeldIsRecent(s, limit)
<1>1. theoTick \in Nat /\ copies[s].at \in Nat /\ Slack(s) \in Nat
  BY TheoAssumption DEF TheoInv, TheoShape, Slack, TheoConfig
<1>2. copies[s].at - Slack(s) >= theoTick - limit
  BY <1>1 DEF Age
<1>3. ShownAt(s, copies[s].version, copies[s].at - Slack(s))
  BY DEF TheoInv, CopiesWereShown
<1>4. replaced[s] \in Seq(Nat)
  BY DEF TheoInv, TheoShape
<1>5. \A v \in 1 .. Len(replaced[s]) : replaced[s][v] \in Nat
  BY <1>4
<1> DEFINE v == copies[s].version
<1>6. CASE v = shown[s].version
  BY <1>6 DEF HeldIsRecent
<1>7. CASE v \in 1 .. Len(replaced[s]) /\ replaced[s][v] >= copies[s].at - Slack(s)
  <2>1. replaced[s][v] \in Nat
    BY <1>5, <1>7
  <2>2. replaced[s][v] >= theoTick - limit
    <3> DEFINE r == replaced[s][v]
               low == copies[s].at - Slack(s)
    <3>1. r \in Nat /\ low \in Int /\ limit \in Int /\ theoTick \in Nat
      BY <1>1, <2>1
    <3>2. r >= low /\ low >= theoTick - limit
      BY <1>2, <1>7
    <3> HIDE DEF r, low
    <3>3. r >= theoTick - limit
      BY <3>1, <3>2
    <3> QED
      BY <3>3 DEF r
  <2> QED
    BY <2>2 DEF HeldIsRecent
<1> QED
  BY <1>3, <1>6, <1>7 DEF ShownAt

LEMMA ConfidenceFollows == TheoInv => ConfidentIsRecent
<1> SUFFICES ASSUME TheoInv, NEW prefix \in {"file", "truev", "other"}, Trusts(prefix)
             PROVE  /\ \A s \in RestsOn(prefix) : HeldIsRecent(s, Limit(prefix))
                    /\ Provider(prefix) = "truev" => theoTick < SettleAt
  BY DEF ConfidentIsRecent, HeldIsRecent
<1>0. StaleAfter \in Nat /\ SlowestPoll \in Nat /\ Freshness \in Nat
  BY TheoAssumption DEF TheoConfig
<1>1. CASE Provider(prefix) = "file"
  <2>1. PolledTrusts("file") /\ RestsOn(prefix) = {"file"} /\ Limit(prefix) = StaleAfter
    BY <1>1 DEF Trusts, RestsOn, Limit
  <2>2. "file" \in Outside /\ Slack("file") = 0
    BY DEF Outside, Slack
  <2>3. HeldIsRecent("file", StaleAfter)
    BY <1>0, <2>1, <2>2, TrustIsRecent DEF PolledTrusts
  <2> QED
    BY <1>1, <2>1, <2>3
<1>2. CASE Provider(prefix) = "*"
  <2>1. PolledTrusts("http") /\ RestsOn(prefix) = {"http"}
        /\ Limit(prefix) = StaleAfter + SlowestPoll
    BY <1>2 DEF Trusts, RestsOn, Limit
  <2>2. "http" \in Outside /\ Slack("http") = SlowestPoll
    BY DEF Outside, Slack
  <2>3. HeldIsRecent("http", StaleAfter + SlowestPoll)
    BY <1>0, <2>1, <2>2, TrustIsRecent DEF PolledTrusts
  <2> QED
    BY <1>2, <2>1, <2>3
<1>3. CASE Provider(prefix) = "truev"
  <2>1. TruevTrusts /\ RestsOn(prefix) = Symbols
        /\ Limit(prefix) = Freshness - 1 + SlowestPoll
    BY <1>3 DEF Trusts, RestsOn, Limit
  <2>2. ASSUME NEW s \in Symbols
        PROVE  HeldIsRecent(s, Limit(prefix))
    <3>1. s \in Outside /\ Slack(s) = SlowestPoll
      BY TheoAssumption DEF Outside, Slack, TheoConfig
    <3>2. copies[s].at > 0 /\ OldestAge < Freshness
      BY <2>1 DEF TruevTrusts
    <3>3. OldestAge \in Nat /\ Age(s) <= OldestAge
      BY OldestIsOldest DEF TheoInv
    <3>4. theoTick \in Nat /\ copies[s].at \in Nat
      BY <3>1 DEF TheoInv, TheoShape
    <3>5. Age(s) <= Freshness - 1
      BY <1>0, <3>2, <3>3, <3>4 DEF Age
    <3>6. HeldIsRecent(s, Freshness - 1 + SlowestPoll)
      BY <1>0, <3>1, <3>2, <3>5, TrustIsRecent
    <3> QED
      BY <2>1, <3>6
  <2> QED
    BY <2>1, <2>2 DEF TruevTrusts
<1>4. CASE Provider(prefix) \notin {"file", "*", "truev"}
  BY <1>4 DEF Trusts
<1> QED
  BY <1>1, <1>2, <1>3, <1>4

\* Whatever fails to be read, arrives late or is replaced meanwhile, a value the
\* bot quotes on is one its source still showed within the provider's limit of age
\* and the time a reading takes, and none is trusted after settlement (theo() of the
\* providers, TheoRegistry.get), for any number of components and any limits.
THEOREM TrustedValuesAreRecent ==
    TheoInit /\ [][TheoNext]_theoVars => []ConfidentIsRecent
<1>1. TheoInit => TheoInv
  BY TheoStarts
<1>2. TheoInv /\ [TheoNext]_theoVars => TheoInv'
  <2> SUFFICES ASSUME TheoInv, [TheoNext]_theoVars
               PROVE  TheoInv'
    OBVIOUS
  <2>1. CASE UNCHANGED theoVars
    BY <2>1 DEF theoVars, TheoInv, TheoShape, CopiesWereShown, ReadingsAreRecent, ShownAt,
                Slack, Reads
  <2> QED
    BY <2>1, TheoWaits, TheoRenews, TheoReloads, TheoLeaves, TheoArrives DEF TheoNext
<1> QED
  BY <1>1, <1>2, ConfidenceFollows, PTL

-----------------------------------------------------------------------------
(* The exploit runner.                                                     *)

\* An ExploitMarket has a phase and a bait, whatever else it has.
IsMarket(r) == {"phase", "bait"} \subseteq DOMAIN r

\* The phases that the state machine leaves for a fresh ladder, and forgets the
\* bait on the way.
Quiet == {"idle", "between_legs", "after_round"}

ExploitShape ==
    /\ market = [i \in Entries |-> market[i]]
    /\ \A i \in Entries : IsMarket(market[i]) /\ market[i].bait \in Nat
    /\ registered \in 0 .. made /\ made \in 0 .. MaxEntries
    /\ baitIds \in Nat /\ baits \subseteq 1 .. baitIds
    /\ {"at", "entry"} \subseteq DOMAIN tick
    /\ tick.at # "none" => tick.entry \in Entries

\* Nothing rests in a quiet phase.
QuietIsEmpty == \A i \in Entries : market[i].phase \in Quiet => market[i].bait = 0

\* A tick that places an order has cancelled the one before; so has one that
\* will be quiet afterwards.
TickHasCleared ==
    /\ tick.at \in {"bait", "look", "take"} => Ours.bait = 0
    /\ tick.at \in {"swap", "bait"} => Ours.phase \notin Quiet

ExploitInv == ExploitShape /\ QuietIsEmpty /\ TickHasCleared /\ BaitsKnown

\* What becomes of a market in a step of its own: the others stay.
Turns(i, r) ==
    /\ IsMarket(r) /\ r.bait \in Nat
    /\ r.phase \in Quiet => r.bait = 0
    /\ market' = [market EXCEPT ![i] = r]

LEMMA TurnKeeps ==
    ASSUME ExploitShape, QuietIsEmpty, NEW i \in Entries, NEW r, Turns(i, r)
    PROVE  /\ market' = [j \in Entries |-> market'[j]]
           /\ \A j \in Entries : IsMarket(market'[j]) /\ market'[j].bait \in Nat
           /\ QuietIsEmpty'
           /\ market'[i] = r
           /\ \A j \in Entries : j # i => market'[j] = market[j]
BY DEF ExploitShape, QuietIsEmpty, Turns

LEMMA LadderingIs ==
    ASSUME NEW r, IsMarket(r), NEW side
    PROVE  LET l == Laddering(r, side)
           IN  IsMarket(l) /\ l.bait = 0 /\ l.phase = "ladder"
BY DEF IsMarket, Laddering

\* A market's step loses no order if what it forgets is gone or let go of, and
\* what is new at the exchange is what it now has, or let go of.
LEMMA KnownStays ==
    ASSUME ExploitShape, BaitsKnown, NEW i \in Entries, NEW r, Turns(i, r),
           \A o \in baits' : o \in baits \/ o \in dropped' \/ o = r.bait,
           dropped \subseteq dropped',
           \/ market[i].bait \in {0, r.bait}
           \/ market[i].bait \notin baits' \/ market[i].bait \in dropped'
    PROVE  BaitsKnown'
<1> SUFFICES ASSUME NEW o \in baits', o \notin dropped'
             PROVE  \E j \in Entries : market'[j].bait = o
  BY DEF BaitsKnown
<1>1. market'[i] = r /\ \A j \in Entries : j # i => market'[j] = market[j]
  BY DEF ExploitShape, Turns
<1>2. CASE o = r.bait
  BY <1>1, <1>2
<1>3. CASE o \in baits /\ o # r.bait
  <2>1. PICK j \in Entries : market[j].bait = o
    BY <1>3 DEF BaitsKnown
  <2>2. o # 0
    BY <1>3 DEF ExploitShape
  <2>3. j # i
    BY <1>3, <2>1, <2>2
  <2> QED
    BY <1>1, <2>1, <2>3
<1> QED
  BY <1>2, <1>3

\* A step of a market that sends nothing.
LEMMA QuietTurn ==
    ASSUME ExploitInv, NEW i \in Entries, NEW r, Turns(i, r),
           r.bait = market[i].bait \/ market[i].bait = 0 \/ market[i].bait \notin baits',
           baits' \subseteq baits,
           UNCHANGED <<registry, baitIds, dropped>>
    PROVE  /\ market' = [j \in Entries |-> market'[j]]
           /\ \A j \in Entries : IsMarket(market'[j]) /\ market'[j].bait \in Nat
           /\ registered' \in 0 .. made' /\ made' \in 0 .. MaxEntries
           /\ baitIds' \in Nat /\ baits' \subseteq 1 .. baitIds'
           /\ QuietIsEmpty' /\ BaitsKnown'
           /\ market'[i] = r
<1>1. BaitsKnown'
  BY KnownStays DEF ExploitInv
<1> QED
  BY <1>1, TurnKeeps DEF ExploitInv, ExploitShape, registry

\* A market's step up to the tick's first await: what it forgets was nothing, and
\* the tick begins at an await that suits what it has.
Begins(i, r) ==
    /\ Turns(i, r)
    /\ r.bait = market[i].bait \/ market[i].bait = 0
    /\ \/ tick' = tick
       \/ /\ {"at", "entry"} \subseteq DOMAIN tick' /\ tick'.entry = i
          /\ tick'.at \in {"bait", "look", "take"} => r.bait = 0
          /\ tick'.at \in {"swap", "bait"} => r.phase \notin Quiet

LEMMA BeginsKeeps ==
    ASSUME ExploitInv, NEW i \in Entries, tick.at = "none", NEW r, Begins(i, r),
           baits' = baits, UNCHANGED <<registry, baitIds, dropped>>
    PROVE  ExploitInv'
<1>1. /\ market' = [j \in Entries |-> market'[j]]
      /\ \A j \in Entries : IsMarket(market'[j]) /\ market'[j].bait \in Nat
      /\ registered' \in 0 .. made' /\ made' \in 0 .. MaxEntries
      /\ baitIds' \in Nat /\ baits' \subseteq 1 .. baitIds'
      /\ QuietIsEmpty' /\ BaitsKnown'
      /\ market'[i] = r
  BY QuietTurn DEF Begins
<1>2. CASE tick' = tick
  BY <1>1, <1>2 DEF ExploitInv, ExploitShape, TickHasCleared
<1>3. CASE /\ {"at", "entry"} \subseteq DOMAIN tick' /\ tick'.entry = i
           /\ tick'.at \in {"bait", "look", "take"} => r.bait = 0
           /\ tick'.at \in {"swap", "bait"} => r.phase \notin Quiet
  <2>1. ExploitShape'
    BY <1>1, <1>3 DEF ExploitShape
  <2>2. TickHasCleared'
    BY <1>1, <1>3 DEF TickHasCleared, Ours
  <2> QED
    BY <1>1, <2>1, <2>2 DEF ExploitInv
<1> QED
  BY <1>2, <1>3 DEF Begins

\* _cleanup_resting as a tick's first await.
LEMMA CleanBegins ==
    ASSUME NEW i \in Entries, NEW await, Clean(i, await)
    PROVE  /\ {"at", "entry"} \subseteq DOMAIN tick' /\ tick'.entry = i
           /\ tick'.at = await
BY DEF Clean, NoTick

\* Every way in which a tick begins.
LEMMA AdvanceStays ==
    ASSUME ExploitInv, Advance
    PROVE  ExploitInv'
<1> DEFINE i == registered
           r == market[i]
<1>0. /\ i \in Entries /\ tick.at = "none" /\ IsMarket(r) /\ r.bait \in Nat
      /\ UNCHANGED <<registry, baitIds, dropped>> /\ baits' = baits
      /\ r.phase \in Quiet => r.bait = 0
      /\ market = [market EXCEPT ![i] = r]
  <2>1. registered # 0 /\ tick.at = "none"
        /\ UNCHANGED <<registry, baitIds, dropped>> /\ baits' = baits
    BY DEF Advance
  <2>2. i \in Entries
    BY <2>1, ExploitAssumption DEF ExploitInv, ExploitShape, ExploitConfig, Entries
  <2> QED
    BY <2>1, <2>2 DEF ExploitInv, ExploitShape, QuietIsEmpty
<1> SUFFICES \E t : Begins(i, t)
  BY <1>0, BeginsKeeps
<1> HIDE DEF i
<1>1. CASE AdvanceStopped(i)
  <2> DEFINE killed == [r EXCEPT !.phase = "killed"]
  <2>1. IsMarket(killed) /\ killed.phase = "killed" /\ killed.bait = r.bait
    BY <1>0 DEF IsMarket
  <2>2. market' = market \/ market' = [market EXCEPT ![i] = killed]
    BY <1>1 DEF AdvanceStopped
  <2>3. \/ tick' = tick
        \/ /\ {"at", "entry"} \subseteq DOMAIN tick' /\ tick'.entry = i
           /\ tick'.at = "cleanup"
    BY <1>0, <1>1, CleanBegins DEF AdvanceStopped
  <2> HIDE DEF killed, r
  <2>4. Begins(i, r) \/ Begins(i, killed)
    BY <1>0, <2>1, <2>2, <2>3 DEF Begins, Turns, r, Quiet
  <2> QED
    BY <2>4
<1>2. CASE AdvanceQuiet(i)
  <2> DEFINE killed == [r EXCEPT !.phase = "killed"]
             here == Laddering(r, r.side)
             there == Laddering(r, Opposite(r.side))
             idle == [r EXCEPT !.phase = "idle", !.side = Opposite(r.side)]
  <2>1. /\ IsMarket(killed) /\ killed.phase = "killed" /\ killed.bait = r.bait
        /\ IsMarket(here) /\ here.bait = 0 /\ here.phase = "ladder"
        /\ IsMarket(there) /\ there.bait = 0 /\ there.phase = "ladder"
    <3>1. IsMarket(killed) /\ killed.phase = "killed" /\ killed.bait = r.bait
      BY <1>0 DEF IsMarket
    <3>2. \A side : /\ IsMarket(Laddering(r, side)) /\ Laddering(r, side).bait = 0
                    /\ Laddering(r, side).phase = "ladder"
      BY <1>0, LadderingIs
    <3> QED
      BY <3>1, <3>2
  <2>2. IsMarket(idle) /\ idle.bait = r.bait /\ idle.phase = "idle"
    BY <1>0 DEF IsMarket
  <2>3. /\ tick' = tick /\ r.phase \in Quiet
        /\ \/ market' = [market EXCEPT ![i] = killed]
           \/ market' = [market EXCEPT ![i] = here]
           \/ market' = [market EXCEPT ![i] = there]
           \/ market' = [market EXCEPT ![i] = idle]
    BY <1>2 DEF AdvanceQuiet, StepEntry, Quiet
  <2> HIDE DEF killed, here, there, idle
  <2>4. Begins(i, killed) \/ Begins(i, here) \/ Begins(i, there) \/ Begins(i, idle)
    BY <1>0, <2>1, <2>2, <2>3 DEF Begins, Turns
  <2> QED
    BY <2>4
<1>3. CASE AdvanceAbort(i)
  <2> DEFINE idle == [r EXCEPT !.phase = "idle"]
  <2>1. IsMarket(idle) /\ idle.phase = "idle" /\ idle.bait = r.bait
    BY <1>0 DEF IsMarket
  <2>2. CASE Clean(i, "retry") /\ UNCHANGED market
    <3>1. Begins(i, r)
      BY <1>0, <2>2, CleanBegins DEF Begins, Turns
    <3> QED
      BY <3>1
  <2>3. CASE market[i].bait = 0 /\ StepEntry(i, idle)
    <3> HIDE DEF idle
    <3>1. Begins(i, idle)
      BY <1>0, <2>1, <2>3 DEF Begins, Turns, StepEntry
    <3> QED
      BY <3>1
  <2> QED
    BY <1>3, <2>2, <2>3 DEF AdvanceAbort
<1>4. CASE AdvanceLadder(i)
  <2> DEFINE up == [r EXCEPT !.ladder = NextRung(r)]
  <2>1. IsMarket(up) /\ up.phase = r.phase /\ up.bait = r.bait
    BY <1>0 DEF IsMarket
  <2>2. CASE /\ market[i].bait = 0 /\ UNCHANGED market
             /\ tick' = [NoTick EXCEPT !.at = "bait", !.entry = i]
    <3>1. Begins(i, r)
      BY <1>0, <1>4, <2>2 DEF Begins, Turns, NoTick, AdvanceLadder, Quiet
    <3> QED
      BY <3>1
  <2>3. CASE /\ market' = [market EXCEPT ![i] = up]
             /\ tick' = [NoTick EXCEPT !.at = "swap", !.entry = i, !.target = AtTarget(up)]
    <3>1. {"at", "entry"} \subseteq DOMAIN tick' /\ tick'.entry = i /\ tick'.at = "swap"
      BY <2>3 DEF NoTick
    <3>2. r.phase = "ladder"
      BY <1>4 DEF AdvanceLadder
    <3> HIDE DEF up
    <3>3. Begins(i, up)
      BY <1>0, <2>1, <2>3, <3>1, <3>2 DEF Begins, Turns, Quiet
    <3> QED
      BY <3>3
  <2> QED
    BY <1>4, <2>2, <2>3 DEF AdvanceLadder
<1>5. CASE AdvanceExtract(i)
  <2>1. /\ {"at", "entry"} \subseteq DOMAIN tick' /\ tick'.entry = i
        /\ tick'.at = IF market[i].bait # 0 THEN "clear" ELSE "look"
    BY <1>5 DEF AdvanceExtract, NoTick
  <2>2. Begins(i, r)
    BY <1>0, <1>5, <2>1 DEF Begins, Turns, AdvanceExtract
  <2> QED
    BY <2>2
<1> QED
  BY <1>0, <1>1, <1>2, <1>3, <1>4, <1>5 DEF Advance, i

\* A tick resumed: it ends, or goes on to an await that suits what its market
\* has become.
Resumes(r) ==
    \/ tick' = NoTick
    \/ /\ {"at", "entry"} \subseteq DOMAIN tick' /\ tick'.entry = tick.entry
       /\ tick'.at \in {"bait", "look", "take"} => r.bait = 0
       /\ tick'.at \in {"swap", "bait"} => r.phase \notin Quiet

LEMMA ResumedKeeps ==
    ASSUME ExploitInv, tick.at # "none", NEW r, Turns(tick.entry, r), Resumes(r),
           UNCHANGED registry, baitIds' \in Nat, baits' \subseteq 1 .. baitIds', BaitsKnown'
    PROVE  ExploitInv'
<1>0. tick.entry \in Entries
  BY DEF ExploitInv, ExploitShape
<1>1. /\ market' = [j \in Entries |-> market'[j]]
      /\ \A j \in Entries : IsMarket(market'[j]) /\ market'[j].bait \in Nat
      /\ QuietIsEmpty' /\ market'[tick.entry] = r
  BY <1>0, TurnKeeps DEF ExploitInv
<1>2. registered' \in 0 .. made' /\ made' \in 0 .. MaxEntries
  BY DEF ExploitInv, ExploitShape, registry
<1>3. CASE tick' = NoTick
  BY <1>1, <1>2, <1>3 DEF ExploitInv, ExploitShape, TickHasCleared, NoTick
<1>4. CASE /\ {"at", "entry"} \subseteq DOMAIN tick' /\ tick'.entry = tick.entry
           /\ tick'.at \in {"bait", "look", "take"} => r.bait = 0
           /\ tick'.at \in {"swap", "bait"} => r.phase \notin Quiet
  <2>1. ExploitShape'
    BY <1>0, <1>1, <1>2, <1>4 DEF ExploitShape
  <2>2. TickHasCleared'
    BY <1>1, <1>4 DEF TickHasCleared, Ours
  <2> QED
    BY <1>1, <2>1, <2>2 DEF ExploitInv
<1> QED
  BY <1>3, <1>4 DEF Resumes

\* An answered cancel has taken the order off the exchange, or it is let go of.
LEMMA CancelForgets ==
    ASSUME ExploitInv, CancelEnds, tick.at # "none", NEW r, Turns(tick.entry, r),
           UNCHANGED baitIds
    PROVE  BaitsKnown' /\ baitIds' \in Nat /\ baits' \subseteq 1 .. baitIds'
<1>1. tick.entry \in Entries
  BY DEF ExploitInv, ExploitShape
<1>2. /\ baits' \subseteq baits /\ dropped \subseteq dropped'
      /\ \/ market[tick.entry].bait = 0 \/ market[tick.entry].bait \notin baits'
         \/ market[tick.entry].bait \in dropped'
  BY DEF CancelEnds, Ours
<1>3. BaitsKnown'
  BY <1>1, <1>2, KnownStays DEF ExploitInv
<1> QED
  BY <1>2, <1>3 DEF ExploitInv, ExploitShape

\* The tick's own market, as the lemmas above want it.
LEMMA OursIs ==
    ASSUME ExploitInv, tick.at # "none"
    PROVE  /\ tick.entry \in Entries /\ IsMarket(Ours) /\ Ours.bait \in Nat
           /\ Ours.phase \in Quiet => Ours.bait = 0
           /\ \A await : {"at", "entry"} \subseteq DOMAIN [tick EXCEPT !.at = await]
                        /\ [tick EXCEPT !.at = await].at = await
                        /\ [tick EXCEPT !.at = await].entry = tick.entry
           /\ market = [market EXCEPT ![tick.entry] = Ours]
BY DEF ExploitInv, ExploitShape, QuietIsEmpty, Ours

LEMMA CleanedStays ==
    ASSUME ExploitInv, Cleaned
    PROVE  ExploitInv'
<1> DEFINE r == [Ours EXCEPT !.bait = 0, !.phase = IF tick.at = "retry" THEN "idle" ELSE @]
<1>1. tick.at # "none" /\ CancelEnds /\ market' = [market EXCEPT ![tick.entry] = r]
      /\ tick' = NoTick /\ UNCHANGED <<registry, baitIds>>
  BY DEF Cleaned, Becomes, TickDone
<1>2. IsMarket(r) /\ r.bait = 0
  BY <1>1, OursIs DEF IsMarket
<1> HIDE DEF r
<1>3. Turns(tick.entry, r) /\ Resumes(r)
  BY <1>1, <1>2 DEF Turns, Resumes
<1>4. BaitsKnown' /\ baitIds' \in Nat /\ baits' \subseteq 1 .. baitIds'
  BY <1>1, <1>3, CancelForgets
<1> QED
  BY <1>1, <1>3, <1>4, ResumedKeeps

LEMMA SwappedStays ==
    ASSUME ExploitInv, Swapped
    PROVE  ExploitInv'
<1> DEFINE r == [Ours EXCEPT !.bait = 0]
           await == IF tick.at = "swap" THEN "bait" ELSE "look"
<1>1. /\ tick.at # "none" /\ CancelEnds /\ market' = [market EXCEPT ![tick.entry] = r]
      /\ tick' = [tick EXCEPT !.at = await] /\ UNCHANGED <<registry, baitIds>>
  BY DEF Swapped, Becomes, AtAwait
<1>2. IsMarket(r) /\ r.bait = 0 /\ r.phase = Ours.phase
  BY <1>1, OursIs DEF IsMarket
<1>3. tick.at = "swap" => r.phase \notin Quiet
  BY <1>2 DEF ExploitInv, TickHasCleared
<1>4. {"at", "entry"} \subseteq DOMAIN tick' /\ tick'.entry = tick.entry /\ tick'.at = await
  BY <1>1, OursIs
<1> HIDE DEF r
<1>5. Turns(tick.entry, r) /\ Resumes(r)
  BY <1>1, <1>2, <1>3, <1>4 DEF Turns, Resumes
<1>6. BaitsKnown' /\ baitIds' \in Nat /\ baits' \subseteq 1 .. baitIds'
  BY <1>1, <1>5, CancelForgets
<1> QED
  BY <1>1, <1>5, <1>6, ResumedKeeps

\* What is placed is recorded or let go of; the place it is recorded in is empty.
LEMMA BaitPlacedStays ==
    ASSUME ExploitInv, BaitPlaced
    PROVE  ExploitInv'
<1>0. /\ tick.at = "bait" /\ tick.at # "none" /\ UNCHANGED registry /\ Ours.bait = 0
      /\ Ours.phase \notin Quiet
  BY DEF BaitPlaced, ExploitInv, TickHasCleared
<1>1. \/ tick' = NoTick
      \/ /\ {"at", "entry"} \subseteq DOMAIN tick' /\ tick'.entry = tick.entry
         /\ tick'.at = "probe"
  <2>1. tick' = NoTick \/ tick' = [tick EXCEPT !.at = "probe"]
    BY DEF BaitPlaced, AtAwait, TickDone
  <2> QED
    BY <1>0, <2>1, OursIs
<1>2. ASSUME NEW r, Turns(tick.entry, r), dropped \subseteq dropped',
             baitIds' \in {baitIds, baitIds + 1},
             baits' = baits \/ (baitIds' = baitIds + 1 /\ baits' = baits \cup {baitIds'}),
             baits' = baits \/ r.bait = baitIds' \/ baitIds' \in dropped'
      PROVE  ExploitInv'
  <2>1. Resumes(r)
    BY <1>1 DEF Resumes
  <2>2. baitIds' \in Nat /\ baits' \subseteq 1 .. baitIds'
    BY <1>2 DEF ExploitInv, ExploitShape
  <2>3. tick.entry \in Entries /\ market[tick.entry].bait = 0
    BY <1>0, OursIs DEF Ours
  <2>4. \A o \in baits' : o \in baits \/ o \in dropped' \/ o = r.bait
    BY <1>2
  <2>5. BaitsKnown'
    BY <1>2, <2>3, <2>4, KnownStays DEF ExploitInv
  <2> QED
    BY <1>0, <1>2, <2>1, <2>2, <2>5, ResumedKeeps
<1>3. Turns(tick.entry, Ours) \/ market' # market
  BY <1>0, OursIs DEF Turns
<1>4. CASE UNCHANGED <<market, baits, baitIds, dropped>>
  BY <1>2, <1>3, <1>4
<1>5. CASE /\ baitIds' = baitIds + 1
           /\ baits' = baits \cup {baitIds'}
           /\ Becomes([Ours EXCEPT !.bait = baitIds']) /\ UNCHANGED dropped
  <2> DEFINE r == [Ours EXCEPT !.bait = baitIds']
  <2>1. IsMarket(r) /\ r.bait = baitIds' /\ r.phase = Ours.phase
    BY <1>0, OursIs DEF IsMarket
  <2>2. baitIds' \in Nat
    BY <1>5 DEF ExploitInv, ExploitShape
  <2>3. Turns(tick.entry, r)
    BY <1>0, <1>5, <2>1, <2>2 DEF Turns, Becomes
  <2> HIDE DEF r
  <2> QED
    BY <1>2, <1>5, <2>1, <2>3
<1>6. CASE /\ baitIds' = baitIds + 1
           /\ baits' = baits \cup {baitIds'}
           /\ dropped' = dropped \cup {baitIds'} /\ UNCHANGED market
  BY <1>2, <1>3, <1>6
<1> QED
  BY <1>4, <1>5, <1>6 DEF BaitPlaced

\* A step of a tick that sends no order and hears of none.
LEMMA JudgedKeeps ==
    ASSUME ExploitInv, tick.at # "none", NEW r, IsMarket(r), r.bait = Ours.bait,
           r.phase \in Quiet => Ours.phase \in Quiet,
           market' = [market EXCEPT ![tick.entry] = r], Resumes(r),
           UNCHANGED <<registry, baits, baitIds, dropped>>
    PROVE  ExploitInv'
<1>1. Turns(tick.entry, r)
  BY OursIs DEF Turns
<1>2. tick.entry \in Entries /\ r.bait = market[tick.entry].bait
  BY OursIs DEF Ours
<1>3. BaitsKnown'
  BY <1>1, <1>2, KnownStays DEF ExploitInv
<1>4. baitIds' \in Nat /\ baits' \subseteq 1 .. baitIds'
  BY DEF ExploitInv, ExploitShape
<1> QED
  BY <1>1, <1>3, <1>4, ResumedKeeps

LEMMA ProbedStays ==
    ASSUME ExploitInv, Probed
    PROVE  ExploitInv'
<1> DEFINE extract == [Ours EXCEPT !.phase = "extract"]
           wait(tired) == [Ours EXCEPT !.misses = @ + 1,
                                       !.phase = IF tired THEN "abort" ELSE @]
<1>1. tick.at # "none" /\ tick' = NoTick
      /\ UNCHANGED <<registry, baits, baitIds, dropped>>
  BY DEF Probed, TickDone
<1>2. PICK tired \in BOOLEAN :
         \/ market' = [market EXCEPT ![tick.entry] = extract]
         \/ market' = [market EXCEPT ![tick.entry] = wait(tired)]
  BY DEF Probed, Becomes
<1>3. IsMarket(extract) /\ extract.bait = Ours.bait /\ extract.phase = "extract"
  BY <1>1, OursIs DEF IsMarket
<1>4. /\ IsMarket(wait(tired)) /\ wait(tired).bait = Ours.bait
      /\ wait(tired).phase \in {"abort", Ours.phase}
  BY <1>1, OursIs DEF IsMarket
<1> DEFINE waits == wait(tired)
<1> HIDE DEF extract, waits
<1>5. CASE market' = [market EXCEPT ![tick.entry] = extract]
  BY <1>1, <1>3, <1>5, JudgedKeeps DEF Resumes, Quiet
<1>6. CASE market' = [market EXCEPT ![tick.entry] = waits]
  <2>1. IsMarket(waits) /\ waits.bait = Ours.bait /\ waits.phase \in {"abort", Ours.phase}
    BY <1>4 DEF waits
  <2> QED
    BY <1>1, <1>6, <2>1, JudgedKeeps DEF Resumes, Quiet
<1> QED
  BY <1>2, <1>5, <1>6 DEF waits

LEMMA GivenUpStays ==
    ASSUME ExploitInv, tick.at # "none", GivesUp,
           UNCHANGED <<registry, baits, baitIds, dropped>>
    PROVE  ExploitInv'
<1> DEFINE r == [Ours EXCEPT !.phase = "abort"]
<1>1. IsMarket(r) /\ r.bait = Ours.bait /\ r.phase = "abort"
  BY OursIs DEF IsMarket
<1>2. market' = [market EXCEPT ![tick.entry] = r] /\ tick' = NoTick
  BY DEF GivesUp, Becomes, TickDone
<1> HIDE DEF r
<1> QED
  BY <1>1, <1>2, JudgedKeeps DEF Resumes, Quiet

LEMMA LookedStays ==
    ASSUME ExploitInv, Looked
    PROVE  ExploitInv'
<1>1. tick.at = "look" /\ UNCHANGED <<registry, baits, baitIds, dropped>>
  BY DEF Looked
<1>2. CASE \E p \in SeenPrices \ {0} :
             tick' = [tick EXCEPT !.at = "take", !.price = p] /\ UNCHANGED market
  <2>1. PICK p : tick' = [tick EXCEPT !.at = "take", !.price = p]
    BY <1>2
  <2>2. {"at", "entry"} \subseteq DOMAIN tick' /\ tick'.entry = tick.entry /\ tick'.at = "take"
    BY <2>1 DEF ExploitInv, ExploitShape
  <2>3. Ours.bait = 0
    BY <1>1 DEF ExploitInv, TickHasCleared
  <2>4. tick.at # "none"
    BY <1>1
  <2>5. IsMarket(Ours) /\ market' = [market EXCEPT ![tick.entry] = Ours]
    BY <1>2, <2>4, OursIs
  <2> QED
    BY <1>1, <2>2, <2>3, <2>4, <2>5, JudgedKeeps DEF Resumes
<1> QED
  BY <1>1, <1>2, GivenUpStays DEF Looked

\* A leg is recorded of a market that has no bait.
LEMMA TakenStays ==
    ASSUME ExploitInv, Taken
    PROVE  ExploitInv'
<1> DEFINE r == Recorded(Ours, tick.price)
<1>1. /\ tick.at = "take" /\ tick.at # "none" /\ Ours.bait = 0 /\ UNCHANGED registry
      /\ market' = [market EXCEPT ![tick.entry] = r] /\ tick' = NoTick
  BY DEF Taken, Becomes, TickDone, ExploitInv, TickHasCleared
<1>2. IsMarket(r) /\ r.bait = 0
  BY <1>1, OursIs DEF IsMarket, Recorded
<1> HIDE DEF r
<1>3. Turns(tick.entry, r) /\ Resumes(r)
  BY <1>1, <1>2 DEF Turns, Resumes
<1>4. /\ baitIds' \in {baitIds, baitIds + 1} /\ dropped \subseteq dropped'
      /\ \/ baits' = baits
         \/ baitIds' = baitIds + 1 /\ baits' = baits \cup {baitIds'} /\ baitIds' \in dropped'
  BY DEF Taken
<1>5. baitIds' \in Nat /\ baits' \subseteq 1 .. baitIds'
  BY <1>4 DEF ExploitInv, ExploitShape
<1>6. tick.entry \in Entries /\ market[tick.entry].bait = 0
  BY <1>1, OursIs DEF Ours
<1>7. BaitsKnown'
  BY <1>3, <1>4, <1>6, KnownStays DEF ExploitInv
<1> QED
  BY <1>1, <1>3, <1>5, <1>7, ResumedKeeps

-----------------------------------------------------------------------------

\* The operator's steps and the clock's leave a tick where it is.
LEMMA TickUnmoved ==
    ASSUME ExploitInv, tick' = tick,
           market' = [j \in Entries |-> market'[j]],
           \A j \in Entries :
               /\ IsMarket(market'[j]) /\ market'[j].bait \in Nat
               /\ market'[j].bait \in {0, market[j].bait}
               /\ market'[j].phase \in {"killed", market[j].phase}
    PROVE  QuietIsEmpty' /\ TickHasCleared'
<1>1. QuietIsEmpty'
  BY DEF ExploitInv, QuietIsEmpty, Quiet
<1>2. CASE tick.at = "none"
  BY <1>1, <1>2 DEF TickHasCleared
<1>3. CASE tick.at # "none"
  <2>1. tick.entry \in Entries
    BY <1>3 DEF ExploitInv, ExploitShape
  <2> QED
    BY <1>1, <2>1 DEF ExploitInv, TickHasCleared, Ours, Quiet
<1> QED
  BY <1>2, <1>3

\* A step that leaves the markets alone.
LEMMA MarketsUnmoved ==
    ASSUME ExploitInv, UNCHANGED <<market, tick, baitIds, dropped>>, baits' \subseteq baits,
           registered' \in 0 .. made', made' \in 0 .. MaxEntries
    PROVE  ExploitInv'
BY DEF ExploitInv, ExploitShape, QuietIsEmpty, TickHasCleared, Ours, BaitsKnown

\* The operator stops a market or lets it go on; a cooldown ends.
LEMMA FlagStays ==
    ASSUME ExploitInv, NEW i \in Entries, NEW r, IsMarket(r), r.bait = market[i].bait,
           r.phase \in {"killed", market[i].phase},
           market' = [market EXCEPT ![i] = r],
           UNCHANGED <<registry, tick, baits, baitIds, dropped>>
    PROVE  ExploitInv'
<1>1. /\ market' = [j \in Entries |-> market'[j]]
      /\ \A j \in Entries :
               /\ IsMarket(market'[j]) /\ market'[j].bait \in Nat
               /\ market'[j].bait = market[j].bait
               /\ market'[j].phase \in {"killed", market[j].phase}
  BY DEF ExploitInv, ExploitShape
<1>2. QuietIsEmpty' /\ TickHasCleared'
  BY <1>1, TickUnmoved
<1>3. BaitsKnown'
  BY <1>1 DEF ExploitInv, BaitsKnown
<1>4. ExploitShape'
  BY <1>1 DEF ExploitInv, ExploitShape, registry
<1> QED
  BY <1>2, <1>3, <1>4 DEF ExploitInv

LEMMA OperatorStays ==
    ASSUME ExploitInv, ExploitKill \/ ExploitPause \/ CooldownElapses
    PROVE  ExploitInv'
<1>1. registered # 0 => registered \in Entries
  BY ExploitAssumption DEF ExploitInv, ExploitShape, ExploitConfig, Entries
<1>2. CASE ExploitKill
  <2> DEFINE i == registered
             r == [market[i] EXCEPT !.phase = "killed"]
  <2>1. i \in Entries /\ market' = [market EXCEPT ![i] = r]
        /\ UNCHANGED <<registry, tick, baits, baitIds, dropped>>
    BY <1>1, <1>2 DEF ExploitKill
  <2>2. IsMarket(r) /\ r.bait = market[i].bait /\ r.phase = "killed"
    BY <2>1 DEF IsMarket, ExploitInv, ExploitShape
  <2> HIDE DEF i, r
  <2> QED
    BY <2>1, <2>2, FlagStays
<1>3. CASE ExploitPause
  <2> DEFINE i == registered
             r == [market[i] EXCEPT !.paused = ~@]
  <2>1. i \in Entries /\ market' = [market EXCEPT ![i] = r]
        /\ UNCHANGED <<registry, tick, baits, baitIds, dropped>>
    BY <1>1, <1>3 DEF ExploitPause
  <2>2. IsMarket(r) /\ r.bait = market[i].bait /\ r.phase = market[i].phase
    BY <2>1 DEF IsMarket, ExploitInv, ExploitShape
  <2> HIDE DEF i, r
  <2> QED
    BY <2>1, <2>2, FlagStays
<1>4. CASE CooldownElapses
  <2>1. PICK i \in Entries : market' = [market EXCEPT ![i].cooling = FALSE]
    BY <1>4 DEF CooldownElapses
  <2> DEFINE r == [market[i] EXCEPT !.cooling = FALSE]
  <2>2. market' = [market EXCEPT ![i] = r]
        /\ UNCHANGED <<registry, tick, baits, baitIds, dropped>>
    BY <1>4, <2>1 DEF CooldownElapses
  <2>3. IsMarket(r) /\ r.bait = market[i].bait /\ r.phase = market[i].phase
    BY DEF IsMarket, ExploitInv, ExploitShape
  <2> HIDE DEF r
  <2> QED
    BY <2>2, <2>3, FlagStays
<1> QED
  BY <1>2, <1>3, <1>4

\* What the kill's sweep makes an entry forget is gone, or let go of.
LEMMA PurgeStays ==
    ASSUME ExploitInv, PurgeEnds
    PROVE  ExploitInv'
<1>0. /\ UNCHANGED <<registry, tick, baitIds>> /\ baits' \subseteq baits
      /\ dropped \subseteq dropped'
  BY DEF PurgeEnds
<1>1. registered # 0 => registered \in Entries
  BY ExploitAssumption DEF ExploitInv, ExploitShape, ExploitConfig, Entries
<1>2. CASE UNCHANGED market
  BY <1>0, <1>2 DEF ExploitInv, ExploitShape, QuietIsEmpty, TickHasCleared, Ours,
                    BaitsKnown, registry
<1>3. CASE /\ registered # 0 /\ market[registered].bait = purge
           /\ market' = [market EXCEPT ![registered].bait = 0]
           /\ purge \notin baits' \/ purge \in dropped'
  <2> DEFINE i == registered
             r == [market[i] EXCEPT !.bait = 0]
  <2>1. i \in Entries /\ market' = [market EXCEPT ![i] = r]
    BY <1>1, <1>3
  <2>2. IsMarket(r) /\ r.bait = 0 /\ r.phase = market[i].phase
    BY <2>1 DEF IsMarket, ExploitInv, ExploitShape
  <2> HIDE DEF r
  <2>3. /\ market' = [j \in Entries |-> market'[j]]
        /\ market'[i] = r
        /\ \A j \in Entries : j # i => market'[j] = market[j]
    BY <2>1 DEF ExploitInv, ExploitShape
  <2>4. \A j \in Entries :
               /\ IsMarket(market'[j]) /\ market'[j].bait \in Nat
               /\ market'[j].bait \in {0, market[j].bait}
               /\ market'[j].phase \in {"killed", market[j].phase}
    BY <2>2, <2>3 DEF ExploitInv, ExploitShape
  <2>5. QuietIsEmpty' /\ TickHasCleared'
    BY <1>0, <2>3, <2>4, TickUnmoved
  <2>6. BaitsKnown'
    <3> SUFFICES ASSUME NEW o \in baits', o \notin dropped'
                 PROVE  \E j \in Entries : market'[j].bait = o
      BY DEF BaitsKnown
    <3>1. o \in baits /\ o \notin dropped /\ o # purge
      BY <1>0, <1>3
    <3>2. PICK j \in Entries : market[j].bait = o
      BY <3>1 DEF ExploitInv, BaitsKnown
    <3>3. j # i
      BY <1>3, <3>1, <3>2
    <3> QED
      BY <2>3, <3>2, <3>3
  <2>7. ExploitShape'
    BY <1>0, <2>3, <2>4 DEF ExploitInv, ExploitShape, registry
  <2> QED
    BY <2>5, <2>6, <2>7 DEF ExploitInv
<1> QED
  BY <1>2, <1>3 DEF PurgeEnds

\* Entries come and go, and others take what rests.
LEMMA RegistryStays ==
    ASSUME ExploitInv, ExploitStart \/ ExploitRemove \/ BaitFilled
    PROVE  ExploitInv'
<1>1. made \in Nat /\ MaxEntries \in Nat /\ registered \in 0 .. made /\ made <= MaxEntries
  BY ExploitAssumption DEF ExploitInv, ExploitShape, ExploitConfig
<1>2. CASE ExploitStart
  BY <1>1, <1>2, MarketsUnmoved DEF ExploitStart
<1>3. CASE ExploitRemove
  BY <1>1, <1>3, MarketsUnmoved DEF ExploitRemove
<1>4. CASE BaitFilled
  BY <1>1, <1>4, MarketsUnmoved DEF BaitFilled, registry
<1> QED
  BY <1>2, <1>3, <1>4

\* No order is lost from sight, through replacements, kills, pauses and sweeps that
\* overlap a tick (ExploitRunner._advance, cancel_all_resting, the exploit commands),
\* for other reasons than a cancel that fails, a placement that raises, a sweep's cancel
\* that leaves the order at rest and a taker that rests, for any number of entries and
\* any ladder.
THEOREM BaitsStayKnown ==
    ExploitInit /\ [][ExploitNext]_exploitVars => []BaitsKnown
<1>1. ExploitInit => ExploitInv
  <2> SUFFICES ASSUME ExploitInit
               PROVE  ExploitInv
    OBVIOUS
  <2>1. \A i \in Entries : IsMarket(market[i]) /\ market[i].bait = 0
    BY DEF ExploitInit, NewMarket, IsMarket
  <2>2. tick.at = "none" /\ {"at", "entry"} \subseteq DOMAIN tick
    BY DEF ExploitInit, NoTick
  <2> QED
    BY <2>1, <2>2, ExploitAssumption
       DEF ExploitInit, ExploitInv, ExploitShape, QuietIsEmpty, TickHasCleared, BaitsKnown,
           ExploitConfig
<1>2. ExploitInv /\ [ExploitNext]_exploitVars => ExploitInv'
  <2> SUFFICES ASSUME ExploitInv, [ExploitNext]_exploitVars
               PROVE  ExploitInv'
    OBVIOUS
  <2>1. CASE TakeFailed
    BY <2>1, GivenUpStays DEF TakeFailed
  <2>2. CASE UNCHANGED exploitVars
    BY <2>2 DEF exploitVars, registry, ExploitInv, ExploitShape, QuietIsEmpty,
                TickHasCleared, Ours, BaitsKnown
  <2> QED
    BY <2>1, <2>2, AdvanceStays, CleanedStays, SwappedStays, BaitPlacedStays, ProbedStays,
       LookedStays, TakenStays, OperatorStays, PurgeStays, RegistryStays DEF ExploitNext
<1>3. ExploitInv => BaitsKnown
  BY DEF ExploitInv
<1> QED
  BY <1>1, <1>2, <1>3, PTL

-----------------------------------------------------------------------------
(* The sticky defense.                                                     *)

\* A SideState has these fields, whatever their values.
IsSide(s) == {"state", "price", "age", "anchor", "theos", "looks", "gap", "step", "cool"}
               \subseteq DOMAIN s

\* The looks that the machine has counted have all been taken in this race, as far
\* as they count.
StickyInv ==
    /\ IsSide(sticky)
    /\ sticky.looks \in Nat /\ calm \in Nat
    /\ sticky.state = "AGGRESSIVE" => calm >= CalmLooks \/ calm >= sticky.looks

\* Time, and the values that are dropped, leave the machine where it is.
LEMMA TimeKeepsSide ==
    ASSUME NEW s, IsSide(s)
    PROVE  /\ IsSide(Aged(s)) /\ Aged(s).state = s.state /\ Aged(s).looks = s.looks
           /\ IsSide(Settled(s)) /\ Settled(s).state = s.state /\ Settled(s).looks = s.looks
BY DEF IsSide, Aged, Settled

\* A machine that relaxes is relaxing or done.
LEMMA RelaxedSide ==
    ASSUME NEW s, IsSide(s), NEW side, NEW natural
    PROVE  LET r == Relaxed(s, side, natural)
           IN  IsSide(r) /\ r.state \in {"NORMAL", "RELAXING"} /\ r.looks = s.looks
BY DEF IsSide, Relaxed, ToNormal

LEMMA NormalSide ==
    ASSUME NEW s, IsSide(s), NEW natural
    PROVE  LET r == ToNormal(s, natural)
           IN  IsSide(r) /\ r.state = "NORMAL" /\ r.looks = s.looks
BY DEF IsSide, ToNormal

LEMMA RacedSide ==
    ASSUME NEW s, IsSide(s), NEW side, NEW best, NEW fair, NEW dist
    PROVE  LET r == Raced(s, side, best, fair, dist)
           IN  /\ IsSide(r)
               /\ s.state \in {"NORMAL", "RELAXING"} => r.looks = 0 /\ r.state = "AGGRESSIVE"
               /\ s.state \notin {"NORMAL", "RELAXING"}
                    => r.looks = s.looks /\ r.state = s.state
BY DEF IsSide, Raced

\* The looks after one more.
LooksAfter(s, best, restedAt) ==
    IF restedAt > 0 /\ restedAt = best THEN s.looks + 1 ELSE 0

LEMMA LookedSide ==
    ASSUME NEW s, IsSide(s), NEW best, NEW restedAt, NEW fair
    PROVE  LET r == QuoteLooked(s, best, restedAt, fair)
           IN  IsSide(r) /\ r.state = s.state /\ r.looks = LooksAfter(s, best, restedAt)
BY DEF IsSide, QuoteLooked, LooksAfter

\* A race ends only after enough looks.
LEMMA HeldSide ==
    ASSUME NEW s, IsSide(s), NEW side, NEW natural, NEW fair
    PROVE  LET r == Held(s, side, natural, fair)
           IN  /\ IsSide(r) /\ r.looks = s.looks
               /\ r.state = s.state \/ s.looks >= CalmLooks
<1> DEFINE gap == (natural - s.price) * Back(side)
           relaxing == [s EXCEPT !.state = "RELAXING", !.gap = gap, !.step = 0]
<1>1. CASE ~MayRelax(s, fair)
  BY <1>1 DEF Held
<1>2. CASE MayRelax(s, fair) /\ gap <= 0
  BY <1>2, NormalSide DEF Held, MayRelax
<1>3. CASE MayRelax(s, fair) /\ ~(gap <= 0)
  <2>1. IsSide(relaxing) /\ relaxing.looks = s.looks
    BY DEF IsSide
  <2>2. Held(s, side, natural, fair) = Relaxed(relaxing, side, natural)
    BY <1>3 DEF Held
  <2> HIDE DEF relaxing
  <2> QED
    BY <1>3, <2>1, <2>2, RelaxedSide DEF MayRelax
<1> QED
  BY <1>1, <1>2, <1>3

\* What a cycle of the machine does to its looks: a race that begins has none, and
\* one that ends has had enough.
LEMMA ComputedSide ==
    ASSUME NEW s0, IsSide(s0), NEW side, NEW natural, NEW best, NEW restedAt, NEW fair,
           NEW dist
    PROVE  LET r == Computed(s0, side, natural, best, restedAt, fair, dist)
           IN  /\ IsSide(r)
               /\ r.looks \in {s0.looks, 0, LooksAfter(s0, best, restedAt)}
               /\ s0.state # "AGGRESSIVE" /\ r.state = "AGGRESSIVE"
                    => s0.state \in {"NORMAL", "RELAXING"} /\ r.looks = 0
               /\ s0.state = "AGGRESSIVE"
                    => /\ r.looks \in {s0.looks, LooksAfter(s0, best, restedAt)}
                       /\ r.state \in {"NORMAL", "RELAXING"}
                            => /\ r.looks = LooksAfter(s0, best, restedAt)
                               /\ r.looks >= CalmLooks
<1> DEFINE s == IF s0.price = 0 /\ restedAt > 0 THEN [s0 EXCEPT !.price = restedAt] ELSE s0
           r == Computed(s0, side, natural, best, restedAt, fair, dist)
           looked == QuoteLooked(s, best, restedAt, fair)
<1>0. IsSide(s) /\ s.state = s0.state /\ s.looks = s0.looks
  BY DEF IsSide
<1>00. r = IF s.price = 0 THEN [s EXCEPT !.price = natural]
        ELSE IF s.state = "COOLDOWN"
        THEN IF s.cool = 0 THEN ToNormal(s, natural) ELSE s
        ELSE IF Undercut(s, side, natural) THEN Raced(s, side, best, fair, dist)
        ELSE IF s.state = "AGGRESSIVE" /\ s.age > MaxAggressive
        THEN [s EXCEPT !.state = "COOLDOWN", !.cool = CooldownTime]
        ELSE IF s.state = "AGGRESSIVE" THEN Held(looked, side, natural, fair)
        ELSE IF s.state = "RELAXING" THEN Relaxed(s, side, natural)
        ELSE ToNormal(s, natural)
  BY DEF Computed
<1>000. LooksAfter(s, best, restedAt) = LooksAfter(s0, best, restedAt)
  BY <1>0 DEF LooksAfter
<1> HIDE DEF s, r
<1>1. CASE r = [s EXCEPT !.price = natural]
  <2>1. IsSide(r) /\ r.state = s.state /\ r.looks = s.looks
    BY <1>0, <1>1 DEF IsSide
  <2> QED
    BY <1>0, <2>1 DEF r
<1>2. CASE /\ r \in {ToNormal(s, natural), Relaxed(s, side, natural)}
           /\ s.state # "AGGRESSIVE"
  <2>1. IsSide(r) /\ r.state \in {"NORMAL", "RELAXING"} /\ r.looks = s.looks
    BY <1>0, <1>2, NormalSide, RelaxedSide
  <2> QED
    BY <1>0, <1>2, <2>1 DEF r
<1>3. CASE r = s /\ s.state = "COOLDOWN"
  BY <1>0, <1>3 DEF r
<1>4. CASE r = Raced(s, side, best, fair, dist)
  <2>1. /\ IsSide(r)
        /\ s.state \in {"NORMAL", "RELAXING"} => r.looks = 0 /\ r.state = "AGGRESSIVE"
        /\ s.state \notin {"NORMAL", "RELAXING"} => r.looks = s.looks /\ r.state = s.state
    BY <1>0, <1>4, RacedSide
  <2> QED
    BY <1>0, <2>1 DEF r
<1>5. CASE r = [s EXCEPT !.state = "COOLDOWN", !.cool = CooldownTime]
  <2>1. IsSide(r) /\ r.state = "COOLDOWN" /\ r.looks = s.looks
    BY <1>0, <1>5 DEF IsSide
  <2> QED
    BY <1>0, <2>1 DEF r
<1>6. CASE r = Held(looked, side, natural, fair) /\ s.state = "AGGRESSIVE"
  <2>1. IsSide(looked) /\ looked.state = s.state /\ looked.looks = LooksAfter(s, best, restedAt)
    BY <1>0, LookedSide
  <2> HIDE DEF looked
  <2>2. /\ IsSide(r) /\ r.looks = looked.looks
        /\ r.state = looked.state \/ looked.looks >= CalmLooks
    BY <1>6, <2>1, HeldSide
  <2> QED
    BY <1>0, <1>6, <1>000, <2>1, <2>2 DEF r
<1> QED
  BY <1>00, <1>1, <1>2, <1>3, <1>4, <1>5, <1>6

\* A cycle, with what it does to the looks that have been seen.
LEMMA StickySteps ==
    ASSUME StickyInv, [StickyNext]_stickyVars
    PROVE  /\ StickyInv'
           /\ sticky.state = "AGGRESSIVE" /\ sticky'.state \in {"NORMAL", "RELAXING"}
                => calm' >= CalmLooks
<1> DEFINE old == Aged(sticky)
<1>0. /\ IsSide(old) /\ old.state = sticky.state /\ old.looks = sticky.looks
      /\ IsSide(Settled(old)) /\ Settled(old).state = sticky.state
      /\ Settled(old).looks = sticky.looks
  BY TimeKeepsSide DEF StickyInv
<1>00. CalmLooks \in Nat
  BY StickyAssumption DEF StickyConfig
<1> HIDE DEF old
<1>1. CASE sticky' = Settled(old) /\ UNCHANGED calm
  BY <1>0, <1>1 DEF StickyInv
<1>2. CASE UNCHANGED stickyVars
  BY <1>2 DEF stickyVars, StickyInv
<1>3. ASSUME NEW natural, NEW best, NEW fair, NEW dist, NEW s,
             s = Computed(old, sideOf, natural, best, ours, fair, dist),
             sticky' = Settled(s),
             calm' = IF sticky.state \in {"NORMAL", "COOLDOWN"}
                        \/ (sticky.state = "RELAXING" /\ s.state = "AGGRESSIVE")
                     THEN 0
                     ELSE IF ours > 0 /\ ours = best /\ calm < CalmLooks
                     THEN calm + 1 ELSE calm
      PROVE  /\ StickyInv'
             /\ sticky.state = "AGGRESSIVE" /\ sticky'.state \in {"NORMAL", "RELAXING"}
                  => calm' >= CalmLooks
  <2>1. /\ IsSide(s)
        /\ s.looks \in {old.looks, 0, LooksAfter(old, best, ours)}
        /\ old.state # "AGGRESSIVE" /\ s.state = "AGGRESSIVE"
             => old.state \in {"NORMAL", "RELAXING"} /\ s.looks = 0
        /\ old.state = "AGGRESSIVE"
             => /\ s.looks \in {old.looks, LooksAfter(old, best, ours)}
                /\ s.state \in {"NORMAL", "RELAXING"}
                     => /\ s.looks = LooksAfter(old, best, ours)
                        /\ s.looks >= CalmLooks
    BY <1>0, <1>3, ComputedSide
  <2>2. IsSide(sticky') /\ sticky'.state = s.state /\ sticky'.looks = s.looks
    BY <1>3, <2>1, TimeKeepsSide
  <2>3. sticky.looks \in Nat /\ calm \in Nat
    BY DEF StickyInv
  <2>4. s.looks \in Nat /\ calm' \in Nat
    BY <1>0, <1>3, <2>1, <2>3 DEF LooksAfter
  <2>5. CASE sticky.state # "AGGRESSIVE"
    BY <1>0, <1>3, <2>1, <2>2, <2>4, <2>5 DEF StickyInv
  <2>6. CASE sticky.state = "AGGRESSIVE"
    <3>1. calm >= CalmLooks \/ calm >= sticky.looks
      BY <2>6 DEF StickyInv
    <3>2. calm' = IF ours > 0 /\ ours = best /\ calm < CalmLooks THEN calm + 1 ELSE calm
      BY <1>3, <2>6
    <3>3. calm' >= CalmLooks \/ calm' >= LooksAfter(old, best, ours)
      BY <1>0, <1>00, <2>3, <3>1, <3>2 DEF LooksAfter
    <3>4. calm' >= CalmLooks \/ calm' >= sticky.looks
      BY <1>00, <2>3, <3>1, <3>2
    <3>5. s.looks = sticky.looks \/ s.looks = LooksAfter(old, best, ours)
      BY <1>0, <2>1, <2>6
    <3>6. calm' >= CalmLooks \/ calm' >= s.looks
      BY <3>3, <3>4, <3>5
    <3>7. s.state \in {"NORMAL", "RELAXING"} => calm' >= CalmLooks
      BY <1>0, <1>00, <2>1, <2>4, <2>6, <3>6
    <3> QED
      BY <2>2, <2>4, <3>6, <3>7 DEF StickyInv
  <2> QED
    BY <2>5, <2>6
<1>4. CASE StickyCycle
  <2>1. PICK natural \in StickyPrices, best \in BestPrices, fair \in StickyFairs,
             dist \in {StickyDist, WideDist} :
        IF fair < dist \/ fair > 100 - dist
        THEN sticky' = Settled(old) /\ UNCHANGED calm
        ELSE LET s == Computed(old, sideOf, natural, best, ours, fair, dist)
             IN  /\ sticky' = Settled(s)
                 /\ calm' = IF sticky.state \in {"NORMAL", "COOLDOWN"}
                               \/ (sticky.state = "RELAXING" /\ s.state = "AGGRESSIVE")
                            THEN 0
                            ELSE IF ours > 0 /\ ours = best /\ calm < CalmLooks
                            THEN calm + 1 ELSE calm
    BY <1>4 DEF StickyCycle, old
  <2> QED
    BY <1>1, <1>3, <2>1
<1>5. CASE StickySkipped
  BY <1>1, <1>5 DEF StickySkipped, old
<1> QED
  BY <1>2, <1>4, <1>5 DEF StickyNext

\* A race is given up only after as many looks at which the quote was the best one
\* as are required, all since that race began (StickyQuoter.compute), whatever was
\* raced, relaxed and raced again before, for any configuration and any prices.
THEOREM RacesAreEarned ==
    StickyInit /\ [][StickyNext]_stickyVars => ReleaseEarned
<1>1. StickyInit => StickyInv
  BY DEF StickyInit, StickyInv, IsSide
<1>2. StickyInv /\ [StickyNext]_stickyVars => StickyInv'
  BY StickySteps
<1>3. StickyInv /\ [StickyNext]_stickyVars
        => [(sticky.state = "AGGRESSIVE" /\ sticky'.state \in {"NORMAL", "RELAXING"})
              => calm' >= CalmLooks]_stickyVars
  BY StickySteps
<1> QED
  BY <1>1, <1>2, <1>3, PTL DEF ReleaseEarned

-----------------------------------------------------------------------------
(* The default quoting strategy.                                           *)

\* Prices are whole numbers of tenths, whatever they are.
QuotingShape ==
    /\ book.bid \in Int /\ book.ask \in Int
    /\ quoted = [s \in QuoteSides |-> quoted[s]]
    /\ \A s \in QuoteSides : quoted[s].price \in Int /\ quoted[s].cents \in Int

\* The tolerance as a property of one side's cents.
CentsAllowed(s, cents, fair) ==
    cents # 0 => IF s = "bid" THEN cents * 10 <= Most({10, BidCap(fair)})
                 ELSE cents * 10 >= Least({990, AskFloor(fair)})

AllAllowed == \A s \in QuoteSides : CentsAllowed(s, quoted[s].cents, turnFair)

QuotingInv == QuotingShape /\ turnFair \in Int /\ AllAllowed

LEMMA AllowedIsWithin == AllAllowed => WithinTolerance
BY DEF AllAllowed, CentsAllowed, WithinTolerance

LEMMA NothingAllowed == ASSUME NEW s, NEW fair PROVE CentsAllowed(s, 0, fair)
BY DEF CentsAllowed

LEMMA LeastOfTwo ==
    ASSUME NEW a \in Int, NEW b \in Int
    PROVE  /\ Least({a, b}) \in Int /\ Least({a, b}) \in {a, b}
           /\ Least({a, b}) <= a /\ Least({a, b}) <= b
<1>1. \E x \in {a, b} : \A y \in {a, b} : x <= y
  OBVIOUS
<1> QED
  BY <1>1 DEF Least

LEMMA MostOfTwo ==
    ASSUME NEW a \in Int, NEW b \in Int
    PROVE  /\ Most({a, b}) \in Int /\ Most({a, b}) \in {a, b}
           /\ Most({a, b}) >= a /\ Most({a, b}) >= b
<1>1. \E x \in {a, b} : \A y \in {a, b} : y <= x
  OBVIOUS
<1> QED
  BY <1>1 DEF Most

LEMMA LeastOfThree ==
    ASSUME NEW a \in Int, NEW b \in Int, NEW c \in Int
    PROVE  LET l == Least({a, b, c}) IN l \in Int /\ l <= b /\ l \in {a, b, c}
<1>1. \E x \in {a, b, c} : \A y \in {a, b, c} : x <= y
  OBVIOUS
<1> QED
  BY <1>1 DEF Least

LEMMA MostOfThree ==
    ASSUME NEW a \in Int, NEW b \in Int, NEW c \in Int
    PROVE  LET m == Most({a, b, c}) IN m \in Int /\ m >= b /\ m \in {a, b, c}
<1>1. \E x \in {a, b, c} : \A y \in {a, b, c} : y <= x
  OBVIOUS
<1> QED
  BY <1>1 DEF Most

LEMMA BestIsPrice ==
    ASSUME QuotingShape, NEW s \in QuoteSides
    PROVE  BestOf(s) \in Int
<1> DEFINE lv == Levels(s)
           recorded == IF quoted[s].cents = 0 THEN 0
                       ELSE IF s = "bid" THEN quoted[s].cents * 10
                            ELSE 1000 - quoted[s].cents * 10
           counts(p) == \/ p # recorded
                        \/ p = lv.others /\ (p = lv.own \/ ~book.thin)
           seen == {p \in {lv.others, lv.own} \ {0} : counts(p)}
<1>1. lv.others \in Int /\ lv.own \in Int
  BY DEF QuotingShape, Levels
<1>2. seen \subseteq {lv.others, lv.own}
  OBVIOUS
<1>3. BestOf(s) = IF seen = {} THEN 0 ELSE Most(seen)
  BY DEF BestOf
<1> HIDE DEF seen, lv
<1>4. ASSUME seen # {}
      PROVE  \E x \in seen : \A y \in seen : y <= x
  BY <1>1, <1>2, <1>4
<1> QED
  BY <1>1, <1>2, <1>3, <1>4 DEF Most

LEMMA SeenPrices2 ==
    ASSUME QuotingShape
    PROVE  SeenBid \in Int /\ SeenAsk \in Int
BY BestIsPrice DEF SeenBid, SeenAsk, QuoteSides

LEMMA Ticked == ASSUME NEW p PROVE TickAt(p) \in {1, 10}
BY DEF TickAt

LEMMA AimsArePrices ==
    ASSUME QuotingShape, NEW fair \in Int, NEW trust
    PROVE  BidAim(fair, trust) \in Int /\ AskAim(fair, trust) \in Int
<1>0. SeenBid \in Int /\ SeenAsk \in Int
  BY SeenPrices2
<1>1. {HalfSpread, Behind, PennyTicks} \subseteq Int
  BY QuotingAssumption DEF QuotingConfig
<1>2. BidAim(fair, trust) \in Int
  <2> DEFINE grid == TickAt(IF SeenBid > 10 THEN SeenBid ELSE 10)
             inside == SeenBid + PennyTicks * grid
  <2>1. grid \in {1, 10}
    BY Ticked
  <2> HIDE DEF grid
  <2>2. inside \in Int /\ SeenAsk - grid \in Int /\ SeenBid - Behind * grid \in Int
        /\ (fair - HalfSpread) * 10 \in Int /\ SeenBid + grid \in Int
    BY <1>0, <1>1, <2>1
  <2>3. Least({inside, SeenAsk - grid}) \in Int
    BY <2>2, LeastOfTwo
  <2> HIDE DEF inside
  <2> QED
    BY <1>0, <2>2, <2>3 DEF BidAim, inside, grid
<1>3. AskAim(fair, trust) \in Int
  <2> DEFINE grid == TickAt(IF SeenAsk < 999 THEN SeenAsk ELSE 999)
             inside == SeenAsk - PennyTicks * grid
  <2>1. grid \in {1, 10}
    BY Ticked
  <2> HIDE DEF grid
  <2>2. inside \in Int /\ SeenBid + grid \in Int /\ SeenAsk + Behind * grid \in Int
        /\ (fair + HalfSpread) * 10 \in Int /\ SeenAsk - grid \in Int
    BY <1>0, <1>1, <2>1
  <2>3. Most({inside, SeenBid + grid}) \in Int
    BY <2>2, MostOfTwo
  <2> HIDE DEF inside
  <2> QED
    BY <1>0, <2>2, <2>3 DEF AskAim, inside, grid
<1> QED
  BY <1>2, <1>3

\* What is decided for a bid is not above its cap, however it is rounded and pulled
\* off the book.
LEMMA BidDecided ==
    ASSUME QuotingShape, NEW fair \in Int, NEW trust
    PROVE  LET p == Decided("bid", fair, trust)
           IN  p \in Int /\ (p <= BidCap(fair) \/ p <= 1)
<1>0. SeenAsk \in Int /\ BidCap(fair) \in Int /\ TailOnly \in Int
  BY SeenPrices2, QuotingAssumption DEF BidCap, QuotingConfig, QuoteSides
<1> DEFINE b == BidBound(fair, trust)
           t == TickAt(b)
           p == (b \div t) * t
<1>1. b \in Int /\ (b <= BidCap(fair) \/ b <= 1)
  <2> DEFINE tail == IF TailOnly > 0 THEN TailOnly * 10 ELSE 1000
             l == Least({BidAim(fair, trust), BidCap(fair), tail})
  <2>1. tail \in Int /\ BidAim(fair, trust) \in Int
    BY <1>0, AimsArePrices
  <2>2. l \in Int /\ l <= BidCap(fair)
    BY <1>0, <2>1, LeastOfThree
  <2>3. b = Between(l, 1, 999)
    BY DEF BidBound
  <2> HIDE DEF l, b
  <2> QED
    BY <1>0, <2>2, <2>3 DEF Between
<1>2. t \in {1, 10} /\ TickAt(SeenAsk) \in {1, 10}
  BY Ticked
<1> HIDE DEF b, t
<1>3. p \in Int /\ p <= b
  <2>1. CASE t = 1
    BY <1>1, <2>1
  <2>2. CASE t = 10
    BY <1>1, <2>2
  <2> QED
    BY <1>2, <2>1, <2>2
<1>4. Decided("bid", fair, trust) = OffTheBook("bid", p)
  BY DEF Decided, b, t
<1> HIDE DEF p
<1>5. OffTheBook("bid", p) = IF SeenAsk < 1000 /\ p >= SeenAsk
                             THEN Most({1, SeenAsk - TickAt(SeenAsk)}) ELSE p
  BY DEF OffTheBook
<1>6. Most({1, SeenAsk - TickAt(SeenAsk)}) \in {1, SeenAsk - TickAt(SeenAsk)}
  BY <1>0, <1>2, MostOfTwo
<1> QED
  BY <1>0, <1>1, <1>2, <1>3, <1>4, <1>5, <1>6

LEMMA AskDecided ==
    ASSUME QuotingShape, NEW fair \in Int, NEW trust
    PROVE  LET p == Decided("ask", fair, trust)
           IN  p \in Int /\ (p >= AskFloor(fair) \/ p >= 999)
<1>0. SeenBid \in Int /\ AskFloor(fair) \in Int /\ TailOnly \in Int
  BY SeenPrices2, QuotingAssumption DEF AskFloor, QuotingConfig, QuoteSides
<1> DEFINE b == AskBound(fair, trust)
           t == TickAt(b)
           p == ((b + t - 1) \div t) * t
<1>1. b \in Int /\ (b >= AskFloor(fair) \/ b >= 999)
  <2> DEFINE tail == IF TailOnly > 0 THEN (100 - TailOnly) * 10 ELSE 0
             m == Most({AskAim(fair, trust), AskFloor(fair), tail})
  <2>1. tail \in Int /\ AskAim(fair, trust) \in Int
    BY <1>0, AimsArePrices
  <2>2. m \in Int /\ m >= AskFloor(fair)
    BY <1>0, <2>1, MostOfThree
  <2>3. b = Between(m, 1, 999)
    BY DEF AskBound
  <2> HIDE DEF m, b
  <2> QED
    BY <1>0, <2>2, <2>3 DEF Between
<1>2. t \in {1, 10} /\ TickAt(SeenBid) \in {1, 10}
  BY Ticked
<1> HIDE DEF b, t
<1>3. p \in Int /\ p >= b
  <2>1. CASE t = 1
    BY <1>1, <2>1
  <2>2. CASE t = 10
    BY <1>1, <2>2
  <2> QED
    BY <1>2, <2>1, <2>2
<1>4. Decided("ask", fair, trust) = OffTheBook("ask", p)
  BY DEF Decided, b, t
<1> HIDE DEF p
<1>5. OffTheBook("ask", p) = IF SeenBid > 0 /\ p <= SeenBid
                             THEN Least({999, SeenBid + TickAt(SeenBid)}) ELSE p
  BY DEF OffTheBook
<1>6. Least({999, SeenBid + TickAt(SeenBid)}) \in {999, SeenBid + TickAt(SeenBid)}
  <2> DEFINE top == 999
             next == SeenBid + TickAt(SeenBid)
  <2>1. next \in Int /\ top \in Int
    BY <1>0, <1>2
  <2> HIDE DEF top, next
  <2>2. Least({top, next}) \in {top, next}
    BY <2>1, LeastOfTwo
  <2> QED
    BY <2>2 DEF top, next
<1> QED
  BY <1>0, <1>1, <1>2, <1>3, <1>4, <1>5, <1>6

\* A price recorded in whole cents: the bound is a whole number of cents.
LEMMA CentsWithin ==
    ASSUME NEW p \in Int, NEW k \in Int
    PROVE  /\ Cents(p) \in 1 .. 99
           /\ p <= k * 10 \/ p <= 1 => Cents(p) <= 1 \/ Cents(p) <= k
           /\ p >= k * 10 \/ p >= 999 => Cents(p) >= 99 \/ Cents(p) >= k
BY DEF Cents, Between

\* What an order comes to rest at has the cents of the decision, or nothing rests.
LEMMA ReachesCents ==
    ASSUME QuotingShape, NEW s \in QuoteSides, NEW p \in Int, NEW q \in Reaches(s, p)
    PROVE  q.price \in Int /\ q.cents \in {0, Cents(p)}
<1>1. Cents(p) \in Int
  BY CentsWithin
<1>2. quoted[s].price \in Int
  BY DEF QuotingShape
<1> QED
  BY <1>1, <1>2 DEF Reaches

\* Anti-spoofing: after a turn nothing rests, in the cents the order manager compares,
\* beyond the turn's fair value and the tolerance (DefaultLIPQuoting.quote with what
\* apply makes of it), for any book, fair value, tolerance and distances; the ends of
\* the scale excepted.
THEOREM QuotesStayWithin ==
    QuotingInit /\ [][QuotingNext]_quotingVars => []WithinTolerance
<1>1. QuotingInit => QuotingInv
  BY NothingAllowed DEF QuotingInit, QuotingInv, QuotingShape, AllAllowed
<1>2. QuotingInv /\ [QuotingNext]_quotingVars => QuotingInv'
  <2> SUFFICES ASSUME QuotingInv, [QuotingNext]_quotingVars
               PROVE  QuotingInv'
    OBVIOUS
  <2>0. QuotingShape /\ turnFair \in Int
    BY DEF QuotingInv
  <2>00. AllAllowed' <=> \A s \in QuoteSides : CentsAllowed(s, quoted'[s].cents, turnFair')
    BY DEF AllAllowed, CentsAllowed, BidCap, AskFloor
  <2>1. CASE QuoteTicker
    <3>1. PICK fair \in Fairs, trust \in {"none", "behind", "match", "penny"} :
         /\ turnFair' = fair
         /\ \/ \E bid \in Reaches("bid", Decided("bid", fair, trust)),
                  ask \in Reaches("ask", Decided("ask", fair, trust)) :
                   quoted' = [s \in QuoteSides |-> IF s = "bid" THEN bid ELSE ask]
            \/ quoted' = [s \in QuoteSides |-> [price |-> 0, cents |-> 0]]
      BY <2>1 DEF QuoteTicker
    <3>2. fair \in Int /\ book' = book
      BY <2>1, QuotingAssumption DEF QuoteTicker, QuotingConfig
    <3>3. CASE quoted' = [s \in QuoteSides |-> [price |-> 0, cents |-> 0]]
      <4>1. \A s \in QuoteSides : quoted'[s].price = 0 /\ quoted'[s].cents = 0
        BY <3>3
      <4>2. AllAllowed'
        BY <2>00, <4>1, NothingAllowed
      <4> QED
        BY <2>0, <3>1, <3>2, <3>3, <4>1, <4>2 DEF QuotingInv, QuotingShape
    <3>4. ASSUME NEW bid \in Reaches("bid", Decided("bid", fair, trust)),
                 NEW ask \in Reaches("ask", Decided("ask", fair, trust)),
                 quoted' = [s \in QuoteSides |-> IF s = "bid" THEN bid ELSE ask]
          PROVE  QuotingInv'
      <4> DEFINE p == Decided("bid", fair, trust)
                 q == Decided("ask", fair, trust)
                 k == fair - 1 + Tolerance["bid"]
                 l == fair + 1 - Tolerance["ask"]
      <4>1. p \in Int /\ (p <= BidCap(fair) \/ p <= 1)
        BY <2>0, <3>2, BidDecided
      <4>2. q \in Int /\ (q >= AskFloor(fair) \/ q >= 999)
        BY <2>0, <3>2, AskDecided
      <4>3. k \in Int /\ l \in Int /\ BidCap(fair) = k * 10 /\ AskFloor(fair) = l * 10
        BY <3>2, QuotingAssumption DEF QuotingConfig, QuoteSides, BidCap, AskFloor
      <4>4. bid.price \in Int /\ bid.cents \in {0, Cents(p)}
        BY <2>0, <3>4, <4>1, ReachesCents DEF QuoteSides
      <4>5. ask.price \in Int /\ ask.cents \in {0, Cents(q)}
        BY <2>0, <3>4, <4>2, ReachesCents DEF QuoteSides
      <4> HIDE DEF p, q, k, l
      <4>6. Cents(p) \in 1 .. 99 /\ (Cents(p) <= 1 \/ Cents(p) <= k)
        BY <4>1, <4>3, CentsWithin
      <4>7. Cents(q) \in 1 .. 99 /\ (Cents(q) >= 99 \/ Cents(q) >= l)
        BY <4>2, <4>3, CentsWithin
      <4>8. /\ Most({10, k * 10}) \in Int /\ Most({10, k * 10}) >= 10
            /\ Most({10, k * 10}) >= k * 10
            /\ Least({990, l * 10}) \in Int /\ Least({990, l * 10}) <= 990
            /\ Least({990, l * 10}) <= l * 10
        <5> DEFINE low == 10
                   high == 990
                   cap == k * 10
                   floor == l * 10
        <5>1. {low, high, cap, floor} \subseteq Int
          BY <4>3
        <5> HIDE DEF low, high, cap, floor
        <5>2. /\ Most({low, cap}) \in Int /\ Most({low, cap}) >= low
              /\ Most({low, cap}) >= cap
          BY <5>1, MostOfTwo
        <5>3. /\ Least({high, floor}) \in Int /\ Least({high, floor}) <= high
              /\ Least({high, floor}) <= floor
          BY <5>1, LeastOfTwo
        <5> QED
          BY <5>2, <5>3 DEF low, high, cap, floor
      <4>9. Cents(p) * 10 <= Most({10, k * 10}) /\ Cents(q) * 10 >= Least({990, l * 10})
        BY <4>3, <4>6, <4>7, <4>8
      <4>10. quoted'["bid"] = bid /\ quoted'["ask"] = ask
        BY <3>4 DEF QuoteSides
      <4>11. QuotingShape'
        BY <2>0, <3>2, <3>4, <4>4, <4>5, <4>6, <4>7 DEF QuotingShape
      <4>12. /\ CentsAllowed("bid", Cents(p), fair) /\ CentsAllowed("ask", Cents(q), fair)
        BY <4>3, <4>9 DEF CentsAllowed
      <4>13. CentsAllowed("bid", bid.cents, fair) /\ CentsAllowed("ask", ask.cents, fair)
        BY <4>4, <4>5, <4>12, NothingAllowed
      <4>14. AllAllowed'
        BY <2>00, <3>1, <4>10, <4>13 DEF QuoteSides
      <4> QED
        BY <3>1, <3>2, <4>11, <4>14 DEF QuotingInv
    <3> QED
      BY <3>1, <3>3, <3>4
  <2>2. CASE BookMoves
    <3>1. turnFair' = turnFair
      BY <2>2 DEF BookMoves
    <3>2. CASE \E b \in BookBids, a \in BookAsks, thin \in BOOLEAN :
                 book' = [bid |-> b, ask |-> a, thin |-> thin] /\ UNCHANGED quoted
      <4>1. book'.bid \in Int /\ book'.ask \in Int
        BY <3>2, QuotingAssumption DEF QuotingConfig
      <4> QED
        BY <2>00, <3>1, <3>2, <4>1 DEF QuotingInv, QuotingShape, AllAllowed
    <3>3. CASE UNCHANGED book /\ \E s \in QuoteSides :
                 quoted' = [quoted EXCEPT ![s] = [price |-> 0, cents |-> 0]]
      <4>1. PICK s \in QuoteSides : quoted' = [quoted EXCEPT ![s] = [price |-> 0, cents |-> 0]]
        BY <3>3
      <4>2. /\ quoted' = [r \in QuoteSides |-> quoted'[r]]
            /\ quoted'[s].price = 0 /\ quoted'[s].cents = 0
            /\ \A r \in QuoteSides : r # s => quoted'[r] = quoted[r]
        BY <2>0, <4>1 DEF QuotingShape
      <4>3. AllAllowed'
        BY <2>00, <3>1, <4>2, NothingAllowed DEF QuotingInv, AllAllowed
      <4>4. QuotingShape'
        BY <2>0, <3>3, <4>2 DEF QuotingShape
      <4> QED
        BY <2>0, <3>1, <4>3, <4>4 DEF QuotingInv
    <3> QED
      BY <2>2, <3>2, <3>3 DEF BookMoves
  <2>3. CASE UNCHANGED quotingVars
    BY <2>00, <2>3 DEF quotingVars, QuotingInv, QuotingShape, AllAllowed
  <2> QED
    BY <2>1, <2>2, <2>3 DEF QuotingNext
<1>3. QuotingInv => WithinTolerance
  BY AllowedIsWithin DEF QuotingInv
<1> QED
  BY <1>1, <1>2, <1>3, PTL

-----------------------------------------------------------------------------
(* The decision log on disk.                                               *)

\* The two files of a day.
Plain(d) == <<d, "jsonl">>
Zipped(d) == <<d, "gz">>

\* A file has lines and is whole or not, whatever else it has.
DiskShape ==
    /\ today \in Days
    /\ disk = [p \in Paths |-> disk[p]]
    /\ \A p \in Paths : {"lines", "whole", "mtime"} \subseteq DOMAIN disk[p]

\* A day's log is whole as long as it is there, and only closed days have a
\* compressed file, which holds nothing that the log beside it does not.
DaysOnDisk ==
    \A d \in Days :
      /\ disk[Plain(d)] = NoFile \/ (disk[Plain(d)].whole /\ d <= today)
      /\ disk[Zipped(d)] = NoFile \/ d < today
      /\ disk[Plain(d)].whole => disk[Zipped(d)].lines \subseteq disk[Plain(d)].lines

\* What a sweep has still to compress: logs of closed days that are all there.
TodoClosed ==
    \A i \in 1 .. Len(sweep.todo) :
      \E d \in Days : sweep.todo[i].path = Plain(d) /\ d < today /\ disk[Plain(d)].whole

\* Each of them is listed once, a log that is about to be unlinked has a whole
\* copy, and what may be evicted is of closed days.
SweepKnows ==
    /\ {"at", "todo", "entries", "doomed"} \subseteq DOMAIN sweep
    /\ \E S : sweep.todo \in Seq(S)
    /\ TodoClosed
    /\ \A i, j \in 1 .. Len(sweep.todo) :
         sweep.todo[i].path = sweep.todo[j].path => i = j
    /\ sweep.at \in {"gzip", "unlink"} => sweep.todo # <<>>
    /\ sweep.at = "unlink" => disk[Packed].whole /\ disk[Packed].lines = disk[Source].lines
    /\ sweep.at = "evict" => sweep.todo = <<>>
    /\ \A e \in sweep.entries : e.path \in Paths /\ e.path[1] <= today
    /\ \A p \in sweep.doomed : p \in Paths /\ p[1] < today

\* LinesSurvive speaks of the files only: that the sweep unlinks and evicts
\* nothing else needs to know what it has read of them.
FilesInv == DiskShape /\ DaysOnDisk /\ SweepKnows /\ LinesSurvive

LEMMA DaysTyped ==
    /\ Days \subseteq Int
    /\ \A d \in Days : Plain(d) \in Paths /\ Zipped(d) \in Paths /\ Plain(d) # Zipped(d)
    /\ \A p \in Paths : \E d \in Days : p[1] = d /\ (p = Plain(d) \/ p = Zipped(d))
    /\ \A d \in Days, e \in Days : /\ Plain(d) # Zipped(e)
                                   /\ Plain(d) = Plain(e) => d = e
                                   /\ Zipped(d) = Zipped(e) => d = e
    /\ \A d \in Days : Plain(d)[1] = d /\ Zipped(d)[1] = d
BY FilesAssumption DEF Days, Paths, Plain, Zipped, RetentionConfig

\* The files on disk are finitely many, and can be listed.
LEMMA Listings ==
    ASSUME DiskShape
    PROVE  \A scan \in SUBSET {Sized(p) : p \in OnDisk} :
             \A listed \in SetToSeqs(scan) :
               /\ listed \in Seq(scan)
               /\ \A i, j \in 1 .. Len(listed) : listed[i] = listed[j] => i = j
<1>1. IsFiniteSet(OnDisk)
  <2>1. IsFiniteSet(Days)
    BY FilesAssumption, FS_Interval DEF Days, RetentionConfig
  <2>2. IsFiniteSet({"jsonl", "gz"})
    <3>1. {"jsonl", "gz"} = {"jsonl"} \cup {"gz"}
      OBVIOUS
    <3>2. IsFiniteSet({"jsonl"})
      BY FS_Singleton
    <3> QED
      BY <3>1, <3>2, FS_AddElement
  <2>3. IsFiniteSet(Paths)
    BY <2>1, <2>2, FS_Product DEF Paths
  <2> QED
    BY <2>3, FS_Subset DEF OnDisk
<1>2. IsFiniteSet({Sized(p) : p \in OnDisk})
  <2> DEFINE all == {Sized(p) : p \in OnDisk}
             size == [p \in OnDisk |-> Sized(p)]
  <2>1. size \in Surjection(OnDisk, all)
    BY DEF Surjection
  <2> QED
    BY <1>1, <2>1, FS_Surjection
<1>3. SUFFICES ASSUME NEW scan \in SUBSET {Sized(p) : p \in OnDisk},
                      NEW listed \in SetToSeqs(scan)
               PROVE  /\ listed \in Seq(scan)
                      /\ \A i, j \in 1 .. Len(listed) : listed[i] = listed[j] => i = j
  OBVIOUS
<1>4. Cardinality(scan) \in Nat
  BY <1>2, FS_Subset, FS_CardinalityType
<1>5. listed \in [1 .. Cardinality(scan) -> scan]
      /\ \A i, j \in 1 .. Cardinality(scan) : i # j => listed[i] # listed[j]
  BY DEF SetToSeqs
<1>6. listed \in Seq(scan) /\ Len(listed) = Cardinality(scan)
  BY <1>4, <1>5
<1> QED
  BY <1>5, <1>6

LEMMA FilesStart == FilesInit => FilesInv
<1> SUFFICES ASSUME FilesInit PROVE FilesInv
  OBVIOUS
<1>1. DiskShape
  BY FilesAssumption DEF FilesInit, DiskShape, NoFile, Days, RetentionConfig
<1>2. DaysOnDisk
  BY DaysTyped DEF FilesInit, DaysOnDisk, NoFile
<1>3. sweep.todo = <<>> /\ sweep.at = "none" /\ sweep.entries = {} /\ sweep.doomed = {}
      /\ {"at", "todo", "entries", "doomed"} \subseteq DOMAIN sweep
  BY DEF FilesInit, NoSweep
<1>4. SweepKnows
  BY <1>3 DEF SweepKnows, TodoClosed
<1>5. LinesSurvive
  BY DEF FilesInit, LinesSurvive
<1> QED
  BY <1>1, <1>2, <1>4, <1>5 DEF FilesInv

\* A step that leaves the sweep as it is, or ends it.
LEMMA SweepIdle ==
    ASSUME sweep' = NoSweep
    PROVE  SweepKnows'
<1>1. sweep'.todo = <<>> /\ sweep'.at = "none" /\ sweep'.entries = {} /\ sweep'.doomed = {}
      /\ {"at", "todo", "entries", "doomed"} \subseteq DOMAIN sweep'
  BY DEF NoSweep
<1> QED
  BY <1>1 DEF SweepKnows, TodoClosed

LEMMA LoggingKeeps == FilesInv /\ Logged => FilesInv'
<1> SUFFICES ASSUME FilesInv, Logged PROVE FilesInv'
  OBVIOUS
<1> DEFINE line == <<today, Cardinality(logged)>>
           file == Plain(today)
<1>1. /\ today \in Days /\ today' = today /\ sweep' = sweep /\ evicted' = evicted
      /\ logged' = logged \cup {line}
      /\ line[1] = today
  BY DEF Logged, FilesInv, DiskShape
<1>2. /\ DiskShape'
      /\ disk'[file].lines = disk[file].lines \cup {line}
      /\ disk'[file].whole
      /\ \A p \in Paths : p # file => disk'[p] = disk[p]
  BY <1>1, DaysTyped DEF Logged, FilesInv, DiskShape, Plain
<1> HIDE DEF line
<1>3. DaysOnDisk'
  <2> SUFFICES ASSUME NEW d \in Days
               PROVE  /\ disk'[Plain(d)] = NoFile \/ (disk'[Plain(d)].whole /\ d <= today)
                      /\ disk'[Zipped(d)] = NoFile \/ d < today
                      /\ disk'[Plain(d)].whole
                           => disk'[Zipped(d)].lines \subseteq disk'[Plain(d)].lines
    BY <1>1 DEF DaysOnDisk
  <2>1. disk'[Zipped(d)] = disk[Zipped(d)]
    BY <1>1, <1>2, DaysTyped
  <2>2. CASE d # today
    BY <1>1, <1>2, <2>1, <2>2, DaysTyped DEF FilesInv, DaysOnDisk
  <2>3. CASE d = today
    <3>1. disk[Zipped(d)] = NoFile /\ NoFile.lines = {}
      BY <1>1, <2>3, DaysTyped DEF FilesInv, DaysOnDisk, NoFile
    <3> QED
      BY <1>1, <1>2, <2>1, <2>3, <3>1, DaysTyped
  <2> QED
    BY <2>2, <2>3
<1>4. SweepKnows'
  <2>1. \A d \in Days : d < today => disk'[Plain(d)] = disk[Plain(d)]
                                     /\ disk'[Zipped(d)] = disk[Zipped(d)]
    BY <1>1, <1>2, DaysTyped
  <2>2. TodoClosed'
    BY <1>1, <2>1 DEF FilesInv, SweepKnows, TodoClosed
  <2>3. ASSUME sweep'.at = "unlink"
        PROVE  disk'[Packed'].whole /\ disk'[Packed'].lines = disk'[Source'].lines
    <3>1. sweep.todo # <<>> /\ Len(sweep.todo) >= 1 /\ Source = sweep.todo[1].path
      BY <1>1, <2>3 DEF FilesInv, SweepKnows, Source
    <3>2. PICK d \in Days : Source = Plain(d) /\ d < today
      BY <3>1 DEF FilesInv, SweepKnows, TodoClosed
    <3>3. Packed = Zipped(d) /\ Packed' = Packed /\ Source' = Source
      BY <1>1, <3>2 DEF Packed, Source, Plain, Zipped
    <3> QED
      BY <1>1, <2>1, <2>3, <3>2, <3>3 DEF FilesInv, SweepKnows
  <2> QED
    BY <1>1, <2>2, <2>3 DEF FilesInv, SweepKnows
<1>5. LinesSurvive'
  <2> SUFFICES ASSUME NEW l \in logged'
               PROVE  Readable(l)' \/ \E e \in evicted : e[1] = l[1]
    BY <1>1 DEF FilesInv, LinesSurvive
  <2>1. CASE l = line
    BY <1>1, <1>2, <2>1, DaysTyped DEF Readable
  <2>2. CASE l \in logged /\ Readable(l)
    BY <1>1, <1>2, <2>2, DaysTyped DEF Readable
  <2> QED
    BY <1>1, <2>1, <2>2 DEF FilesInv, LinesSurvive
<1> QED
  BY <1>2, <1>3, <1>4, <1>5 DEF FilesInv

LEMMA MidnightKeeps == FilesInv /\ Midnight => FilesInv'
<1> SUFFICES ASSUME FilesInv, Midnight PROVE FilesInv'
  OBVIOUS
<1>1. /\ today' \in Days /\ \A d \in Days : (d <= today => d < today') /\ (d < today => d < today')
      /\ disk' = disk /\ sweep' = sweep /\ evicted' = evicted /\ logged' = logged
      /\ \A d \in Days : d < today' => d <= today'
  BY FilesAssumption DEF Midnight, FilesInv, DiskShape, Days, RetentionConfig
<1>2. DiskShape' /\ DaysOnDisk'
  BY <1>1 DEF FilesInv, DiskShape, DaysOnDisk
<1>3. SweepKnows'
  <2>1. Source' = Source /\ Packed' = Packed
    BY <1>1 DEF Source, Packed
  <2>2. TodoClosed'
    BY <1>1 DEF FilesInv, SweepKnows, TodoClosed
  <2>3. /\ \A e \in sweep.entries : e.path \in Paths /\ e.path[1] <= today'
        /\ \A p \in sweep.doomed : p \in Paths /\ p[1] < today'
    BY <1>1, DaysTyped DEF FilesInv, SweepKnows
  <2> QED
    BY <1>1, <2>1, <2>2, <2>3 DEF FilesInv, SweepKnows
<1>4. LinesSurvive'
  BY <1>1 DEF FilesInv, LinesSurvive, Readable
<1> QED
  BY <1>2, <1>3, <1>4 DEF FilesInv

LEMMA SweepBeginsRight == FilesInv /\ SweepBegins => FilesInv'
<1> SUFFICES ASSUME FilesInv, SweepBegins PROVE FilesInv'
  OBVIOUS
<1> DEFINE all == {Sized(p) : p \in OnDisk}
           closed == {e \in all : e.path[2] = "jsonl" /\ e.path[1] # today}
<1>1. PICK listed \in SetToSeqs(closed) :
        sweep' = [at |-> "compress", date |-> today, entries |-> all, doomed |-> {},
                  todo |-> listed]
  BY DEF SweepBegins
<1>2. UNCHANGED <<today, logged, disk, writes, evicted>>
  BY DEF SweepBegins
<1>3. /\ sweep'.at = "compress" /\ sweep'.entries = all /\ sweep'.doomed = {}
      /\ sweep'.todo = listed
      /\ {"at", "todo", "entries", "doomed"} \subseteq DOMAIN sweep'
  BY <1>1
<1>4. \A p \in Paths : Sized(p).path = p
  BY DEF Sized
<1>5. /\ listed \in Seq(closed)
      /\ \A i, j \in 1 .. Len(listed) : listed[i] = listed[j] => i = j
  BY Listings DEF FilesInv
<1>6. \A p \in OnDisk : p \in Paths /\ p[1] <= today
                        /\ (p[2] = "jsonl" => p = Plain(p[1]) /\ p[1] \in Days /\ disk[p].whole)
  <2> SUFFICES ASSUME NEW p \in OnDisk
               PROVE  p \in Paths /\ p[1] <= today
                      /\ (p[2] = "jsonl"
                            => p = Plain(p[1]) /\ p[1] \in Days /\ disk[p].whole)
    OBVIOUS
  <2>1. p \in Paths /\ disk[p] # NoFile
    BY DEF OnDisk
  <2>2. PICK d \in Days : p[1] = d /\ (p = Plain(d) \/ p = Zipped(d))
    BY <2>1, DaysTyped
  <2>3. d \in Int /\ today \in Int /\ Zipped(d)[2] # "jsonl"
    BY DaysTyped DEF FilesInv, DiskShape, Zipped
  <2> QED
    BY <2>1, <2>2, <2>3 DEF FilesInv, DaysOnDisk
<1>7. SweepKnows'
  <2>1. \A e \in all : e.path \in Paths /\ e.path[1] <= today
    BY <1>4, <1>6 DEF OnDisk
  <2>2. \A e \in closed : \E d \in Days : e.path = Plain(d) /\ d < today /\ disk[Plain(d)].whole
    <3> SUFFICES ASSUME NEW p \in OnDisk, p[2] = "jsonl", p[1] # today
                 PROVE  p = Plain(p[1]) /\ p[1] \in Days /\ p[1] < today /\ disk[p].whole
      BY <1>4, <1>6 DEF OnDisk
    <3>1. p[1] \in Int /\ today \in Int
      BY <1>6, DaysTyped DEF FilesInv, DiskShape
    <3> QED
      BY <1>6, <3>1
  <2>3. \A e \in closed, f \in closed : e.path = f.path => e = f
    BY <1>4 DEF OnDisk
  <2> HIDE DEF closed, all
  <2>4. \A i \in 1 .. Len(listed) : listed[i] \in closed
    BY <1>5
  <2>5. TodoClosed'
    BY <1>2, <1>3, <2>2, <2>4 DEF TodoClosed
  <2>6. \A i, j \in 1 .. Len(listed) : listed[i].path = listed[j].path => i = j
    BY <1>5, <2>3, <2>4
  <2> QED
    BY <1>2, <1>3, <1>5, <2>1, <2>5, <2>6 DEF SweepKnows
<1>8. DiskShape' /\ DaysOnDisk' /\ LinesSurvive'
  BY <1>2 DEF FilesInv, DiskShape, DaysOnDisk, LinesSurvive, Readable
<1> QED
  BY <1>7, <1>8 DEF FilesInv

\* What the sweep compresses first.
LEMMA FirstTodo ==
    ASSUME FilesInv, sweep.todo # <<>>
    PROVE  \E d \in Days :
             /\ Source = Plain(d) /\ Packed = Zipped(d)
             /\ d < today /\ disk[Plain(d)].whole
             /\ \A i \in 2 .. Len(sweep.todo) : sweep.todo[i].path # Plain(d)
<1>1. PICK S : sweep.todo \in Seq(S)
  BY DEF FilesInv, SweepKnows
<1>2. Len(sweep.todo) >= 1 /\ Len(sweep.todo) \in Nat /\ Source = sweep.todo[1].path
  BY <1>1 DEF Source
<1>3. PICK d \in Days : sweep.todo[1].path = Plain(d) /\ d < today /\ disk[Plain(d)].whole
  BY <1>2 DEF FilesInv, SweepKnows, TodoClosed
<1>4. \A i \in 2 .. Len(sweep.todo) : sweep.todo[i].path # Plain(d)
  BY <1>2, <1>3 DEF FilesInv, SweepKnows
<1>5. Packed = Zipped(d)
  BY <1>2, <1>3 DEF Packed, Plain, Zipped
<1> QED
  BY <1>2, <1>3, <1>4, <1>5

\* The list without its first.
LEMMA RestOfTodo ==
    ASSUME FilesInv, sweep.todo # <<>>
    PROVE  LET rest == Tail(sweep.todo)
           IN  /\ \E S : rest \in Seq(S)
               /\ Len(rest) = Len(sweep.todo) - 1
               /\ \A i \in 1 .. Len(rest) : rest[i] = sweep.todo[i + 1]
                                            /\ i + 1 \in 2 .. Len(sweep.todo)
               /\ \A i, j \in 1 .. Len(rest) : rest[i].path = rest[j].path => i = j
<1>1. PICK S : sweep.todo \in Seq(S)
  BY DEF FilesInv, SweepKnows
<1>2. /\ Tail(sweep.todo) \in Seq(S)
      /\ Len(Tail(sweep.todo)) = Len(sweep.todo) - 1
      /\ \A i \in 1 .. Len(Tail(sweep.todo)) : Tail(sweep.todo)[i] = sweep.todo[i + 1]
      /\ Len(sweep.todo) \in Nat
  BY <1>1, HeadTailProperties, LenProperties
<1>3. \A i \in 1 .. Len(Tail(sweep.todo)) :
        i + 1 \in 2 .. Len(sweep.todo) /\ i + 1 \in 1 .. Len(sweep.todo)
  BY <1>2
<1>4. \A i, j \in 1 .. Len(Tail(sweep.todo)) :
        Tail(sweep.todo)[i].path = Tail(sweep.todo)[j].path => i + 1 = j + 1
  BY <1>2, <1>3 DEF FilesInv, SweepKnows
<1> QED
  BY <1>2, <1>3, <1>4

LEMMA CopyBegins == FilesInv /\ GzipOpened => FilesInv'
<1> SUFFICES ASSUME FilesInv, GzipOpened PROVE FilesInv'
  OBVIOUS
<1>0. sweep.at = "compress" /\ sweep.todo # <<>>
  BY DEF GzipOpened
<1>1. PICK d \in Days : /\ Source = Plain(d) /\ Packed = Zipped(d)
                        /\ d < today /\ disk[Plain(d)].whole
                        /\ \A i \in 2 .. Len(sweep.todo) : sweep.todo[i].path # Plain(d)
  BY <1>0, FirstTodo
<1>2. /\ UNCHANGED <<today, logged, evicted>>
      /\ sweep' = [sweep EXCEPT !.at = "gzip"]
      /\ disk' = [disk EXCEPT ![Zipped(d)] = [NoFile EXCEPT !.mtime = writes + 1]]
  BY <1>1 DEF GzipOpened
<1>3. /\ disk' = [p \in Paths |-> disk'[p]]
      /\ disk'[Zipped(d)] = [NoFile EXCEPT !.mtime = writes + 1]
      /\ \A p \in Paths : p # Zipped(d) => disk'[p] = disk[p]
  BY <1>2, DaysTyped DEF FilesInv, DiskShape
<1>4. /\ {"lines", "whole", "mtime"} \subseteq DOMAIN disk'[Zipped(d)]
      /\ disk'[Zipped(d)].lines = {} /\ ~disk'[Zipped(d)].whole
  BY <1>3 DEF NoFile
<1>5. /\ {"at", "todo", "entries", "doomed"} \subseteq DOMAIN sweep'
      /\ sweep'.at = "gzip" /\ sweep'.todo = sweep.todo /\ sweep'.entries = sweep.entries
      /\ sweep'.doomed = sweep.doomed
  BY <1>2 DEF FilesInv, SweepKnows
<1>6. DiskShape'
  BY <1>2, <1>3, <1>4 DEF FilesInv, DiskShape
<1>7. \A e \in Days : disk'[Plain(e)] = disk[Plain(e)] /\ (e # d => disk'[Zipped(e)] = disk[Zipped(e)])
  BY <1>3, DaysTyped
<1>8. DaysOnDisk'
  BY <1>1, <1>2, <1>4, <1>7 DEF FilesInv, DaysOnDisk
<1>9. SweepKnows'
  BY <1>0, <1>2, <1>5, <1>7, ZenonT(60) DEF FilesInv, SweepKnows, TodoClosed
<1>10. LinesSurvive'
  <2> SUFFICES ASSUME NEW l \in logged, Readable(l)
               PROVE  Readable(l)'
    BY <1>2 DEF FilesInv, LinesSurvive
  <2>1. PICK p \in Paths : p[1] = l[1] /\ disk[p].whole /\ l \in disk[p].lines
    BY DEF Readable
  <2>2. CASE p # Zipped(d)
    BY <1>3, <2>1, <2>2 DEF Readable
  <2>3. CASE p = Zipped(d)
    <3>1. l \in disk[Plain(d)].lines /\ l[1] = Plain(d)[1]
      BY <1>1, <2>1, <2>3, DaysTyped DEF FilesInv, DaysOnDisk
    <3> QED
      BY <1>1, <1>7, <3>1, DaysTyped DEF Readable
  <2> QED
    BY <2>2, <2>3
<1> QED
  BY <1>6, <1>8, <1>9, <1>10 DEF FilesInv

LEMMA CopyEnds == FilesInv /\ GzipWritten => FilesInv'
<1> SUFFICES ASSUME FilesInv, GzipWritten PROVE FilesInv'
  OBVIOUS
<1>0. sweep.at = "gzip" /\ sweep.todo # <<>>
  BY DEF GzipWritten, FilesInv, SweepKnows
<1>1. PICK d \in Days : /\ Source = Plain(d) /\ Packed = Zipped(d)
                        /\ d < today /\ disk[Plain(d)].whole
                        /\ \A i \in 2 .. Len(sweep.todo) : sweep.todo[i].path # Plain(d)
  BY <1>0, FirstTodo
<1>2. /\ UNCHANGED <<today, logged, evicted>>
      /\ sweep' = [sweep EXCEPT !.at = "unlink"]
      /\ disk' = [disk EXCEPT ![Zipped(d)].lines = disk[Plain(d)].lines,
                              ![Zipped(d)].whole = TRUE]
  BY <1>1 DEF GzipWritten
<1>3. /\ disk' = [p \in Paths |-> disk'[p]]
      /\ {"lines", "whole", "mtime"} \subseteq DOMAIN disk'[Zipped(d)]
      /\ disk'[Zipped(d)].lines = disk[Plain(d)].lines /\ disk'[Zipped(d)].whole
      /\ \A p \in Paths : p # Zipped(d) => disk'[p] = disk[p]
  BY <1>2, DaysTyped DEF FilesInv, DiskShape
<1>5. /\ {"at", "todo", "entries", "doomed"} \subseteq DOMAIN sweep'
      /\ sweep'.at = "unlink" /\ sweep'.todo = sweep.todo /\ sweep'.entries = sweep.entries
      /\ sweep'.doomed = sweep.doomed
  BY <1>2 DEF FilesInv, SweepKnows
<1>6. DiskShape'
  BY <1>2, <1>3 DEF FilesInv, DiskShape
<1>7. \A e \in Days : disk'[Plain(e)] = disk[Plain(e)] /\ (e # d => disk'[Zipped(e)] = disk[Zipped(e)])
  BY <1>3, DaysTyped
<1>8. DaysOnDisk'
  BY <1>1, <1>2, <1>3, <1>7 DEF FilesInv, DaysOnDisk
<1>9. SweepKnows'
  <2>1. Source' = Source /\ Packed' = Packed
    BY <1>5 DEF Source, Packed
  <2>2. TodoClosed'
    BY <1>2, <1>5, <1>7 DEF FilesInv, SweepKnows, TodoClosed
  <2>3. disk'[Packed'].whole /\ disk'[Packed'].lines = disk'[Source'].lines
    BY <1>1, <1>3, <1>7, <2>1
  <2>4. sweep'.at = "unlink" /\ sweep'.todo # <<>>
    BY <1>0, <1>5
  <2> QED
    BY <1>2, <1>5, <2>2, <2>3, <2>4 DEF FilesInv, SweepKnows
<1>10. LinesSurvive'
  <2> SUFFICES ASSUME NEW l \in logged, Readable(l)
               PROVE  Readable(l)'
    BY <1>2 DEF FilesInv, LinesSurvive
  <2>1. PICK p \in Paths : p[1] = l[1] /\ disk[p].whole /\ l \in disk[p].lines
    BY DEF Readable
  <2>2. CASE p # Zipped(d)
    BY <1>3, <2>1, <2>2 DEF Readable
  <2>3. CASE p = Zipped(d)
    <3>1. l \in disk[Plain(d)].lines /\ l[1] = Plain(d)[1]
      BY <1>1, <2>1, <2>3, DaysTyped DEF FilesInv, DaysOnDisk
    <3> QED
      BY <1>1, <1>7, <3>1, DaysTyped DEF Readable
  <2> QED
    BY <2>2, <2>3
<1> QED
  BY <1>6, <1>8, <1>9, <1>10 DEF FilesInv

LEMMA LogUnlinked == FilesInv /\ Unlinked => FilesInv'
<1> SUFFICES ASSUME FilesInv, Unlinked PROVE FilesInv'
  OBVIOUS
<1>0. sweep.at = "unlink" /\ sweep.todo # <<>>
  BY DEF Unlinked, FilesInv, SweepKnows
<1>1. PICK d \in Days : /\ Source = Plain(d) /\ Packed = Zipped(d)
                        /\ d < today /\ disk[Plain(d)].whole
                        /\ \A i \in 2 .. Len(sweep.todo) : sweep.todo[i].path # Plain(d)
  BY <1>0, FirstTodo
<1>2. /\ UNCHANGED <<today, logged, evicted>>
      /\ disk' = [disk EXCEPT ![Plain(d)] = NoFile]
      /\ sweep' = [sweep EXCEPT !.at = "compress", !.todo = Tail(@),
                     !.entries = (@ \ {Head(sweep.todo)}) \cup {Sized(Zipped(d))}]
  BY <1>1 DEF Unlinked
<1>3. /\ disk' = [p \in Paths |-> disk'[p]]
      /\ disk'[Plain(d)] = NoFile
      /\ \A p \in Paths : p # Plain(d) => disk'[p] = disk[p]
  BY <1>2, DaysTyped DEF FilesInv, DiskShape
<1>4. /\ {"lines", "whole", "mtime"} \subseteq DOMAIN NoFile
      /\ ~NoFile.whole
  BY DEF NoFile
<1>5. /\ {"at", "todo", "entries", "doomed"} \subseteq DOMAIN sweep'
      /\ sweep'.at = "compress" /\ sweep'.todo = Tail(sweep.todo)
      /\ sweep'.entries = (sweep.entries \ {Head(sweep.todo)}) \cup {Sized(Zipped(d))}
      /\ sweep'.doomed = sweep.doomed
  BY <1>2 DEF FilesInv, SweepKnows
<1>6. DiskShape'
  BY <1>2, <1>3, <1>4 DEF FilesInv, DiskShape
<1>7. \A e \in Days : disk'[Zipped(e)] = disk[Zipped(e)] /\ (e # d => disk'[Plain(e)] = disk[Plain(e)])
  BY <1>3, DaysTyped
<1>8. DaysOnDisk'
  BY <1>1, <1>2, <1>3, <1>4, <1>7 DEF FilesInv, DaysOnDisk
<1>9. SweepKnows'
  <2> DEFINE rest == Tail(sweep.todo)
  <2>1. /\ \E S : rest \in Seq(S)
        /\ \A i \in 1 .. Len(rest) : rest[i] = sweep.todo[i + 1]
                                     /\ i + 1 \in 2 .. Len(sweep.todo)
                                     /\ i + 1 \in 1 .. Len(sweep.todo)
        /\ \A i, j \in 1 .. Len(rest) : rest[i].path = rest[j].path => i = j
    BY <1>0, RestOfTodo
  <2> HIDE DEF rest
  <2>2. TodoClosed'
    <3> SUFFICES ASSUME NEW i \in 1 .. Len(rest)
                 PROVE  \E e \in Days : rest[i].path = Plain(e) /\ e < today
                                        /\ disk'[Plain(e)].whole
      BY <1>2, <1>5 DEF TodoClosed, rest
    <3>1. PICK e \in Days : rest[i].path = Plain(e) /\ e < today /\ disk[Plain(e)].whole
      BY <2>1 DEF FilesInv, SweepKnows, TodoClosed
    <3>2. e # d
      BY <1>1, <2>1, <3>1
    <3> QED
      BY <1>7, <3>1, <3>2
  <2>3. \A e \in sweep'.entries : e.path \in Paths /\ e.path[1] <= today
    <3>1. Sized(Zipped(d)).path = Zipped(d) /\ Zipped(d) \in Paths /\ Zipped(d)[1] <= today
      BY <1>1, DaysTyped DEF Sized, FilesInv, DiskShape
    <3> QED
      BY <1>5, <3>1 DEF FilesInv, SweepKnows
  <2> QED
    BY <1>2, <1>5, <2>1, <2>2, <2>3 DEF FilesInv, SweepKnows, rest
<1>10. LinesSurvive'
  <2> SUFFICES ASSUME NEW l \in logged, Readable(l)
               PROVE  Readable(l)'
    BY <1>2 DEF FilesInv, LinesSurvive
  <2>1. PICK p \in Paths : p[1] = l[1] /\ disk[p].whole /\ l \in disk[p].lines
    BY DEF Readable
  <2>2. CASE p # Plain(d)
    BY <1>3, <2>1, <2>2 DEF Readable
  <2>3. CASE p = Plain(d)
    <3>1. l \in disk[Zipped(d)].lines /\ disk[Zipped(d)].whole /\ l[1] = Zipped(d)[1]
      BY <1>0, <1>1, <2>1, <2>3, DaysTyped DEF FilesInv, SweepKnows
    <3> QED
      BY <1>7, <3>1, DaysTyped DEF Readable
  <2> QED
    BY <2>2, <2>3
<1> QED
  BY <1>6, <1>8, <1>9, <1>10 DEF FilesInv

LEMMA CopyFails == FilesInv /\ GzipFails => FilesInv'
<1> SUFFICES ASSUME FilesInv, GzipFails PROVE FilesInv'
  OBVIOUS
<1>0. sweep.todo # <<>>
  BY DEF GzipFails, FilesInv, SweepKnows
<1>1. /\ UNCHANGED <<today, logged, disk, evicted>>
      /\ sweep' = [sweep EXCEPT !.at = "compress", !.todo = Tail(@)]
  BY DEF GzipFails
<1>2. /\ {"at", "todo", "entries", "doomed"} \subseteq DOMAIN sweep'
      /\ sweep'.at = "compress" /\ sweep'.todo = Tail(sweep.todo)
      /\ sweep'.entries = sweep.entries /\ sweep'.doomed = sweep.doomed
  BY <1>1 DEF FilesInv, SweepKnows
<1>3. SweepKnows'
  <2> DEFINE rest == Tail(sweep.todo)
  <2>1. /\ \E S : rest \in Seq(S)
        /\ \A i \in 1 .. Len(rest) : rest[i] = sweep.todo[i + 1]
                                     /\ i + 1 \in 1 .. Len(sweep.todo)
        /\ \A i, j \in 1 .. Len(rest) : rest[i].path = rest[j].path => i = j
    BY <1>0, RestOfTodo
  <2> HIDE DEF rest
  <2>2. TodoClosed'
    BY <1>1, <1>2, <2>1 DEF FilesInv, SweepKnows, TodoClosed, rest
  <2> QED
    BY <1>1, <1>2, <2>1, <2>2 DEF FilesInv, SweepKnows, rest
<1>4. DiskShape' /\ DaysOnDisk' /\ LinesSurvive'
  BY <1>1 DEF FilesInv, DiskShape, DaysOnDisk, LinesSurvive, Readable
<1> QED
  BY <1>3, <1>4 DEF FilesInv

LEMMA OldestChosen == FilesInv /\ EvictionChosen => FilesInv'
<1> SUFFICES ASSUME FilesInv, EvictionChosen PROVE FilesInv'
  OBVIOUS
<1>1. /\ UNCHANGED <<today, logged, disk, evicted>>
      /\ sweep.todo = <<>>
      /\ sweep' = [sweep EXCEPT !.at = "evict", !.doomed = Doomed(sweep.entries)]
  BY DEF EvictionChosen
<1>2. /\ {"at", "todo", "entries", "doomed"} \subseteq DOMAIN sweep'
      /\ sweep'.at = "evict" /\ sweep'.todo = sweep.todo
      /\ sweep'.entries = sweep.entries /\ sweep'.doomed = Doomed(sweep.entries)
  BY <1>1 DEF FilesInv, SweepKnows
<1>3. \A p \in Doomed(sweep.entries) : p \in Paths /\ p[1] < today
  <2>1. \A p \in Doomed(sweep.entries) : p \in Paths /\ p[1] <= today /\ p[1] # today
    BY DEF Doomed, FilesInv, SweepKnows
  <2>2. today \in Int /\ \A p \in Paths : p[1] \in Int
    BY DaysTyped DEF FilesInv, DiskShape
  <2> QED
    BY <2>1, <2>2
<1>4. SweepKnows'
  BY <1>1, <1>2, <1>3 DEF FilesInv, SweepKnows, TodoClosed
<1>5. DiskShape' /\ DaysOnDisk' /\ LinesSurvive'
  BY <1>1 DEF FilesInv, DiskShape, DaysOnDisk, LinesSurvive, Readable
<1> QED
  BY <1>4, <1>5 DEF FilesInv

LEMMA OldestEvicted == FilesInv /\ Evicts => FilesInv'
<1> SUFFICES ASSUME FilesInv, Evicts PROVE FilesInv'
  OBVIOUS
<1>1. PICK p \in sweep.doomed :
        /\ sweep' = [sweep EXCEPT !.doomed = @ \ {p}]
        /\ \/ /\ disk' = [disk EXCEPT ![p] = NoFile]
              /\ evicted' = IF disk[p].whole THEN evicted \cup {<<p[1], today>>} ELSE evicted
           \/ UNCHANGED <<disk, evicted>>
  BY DEF Evicts
<1>2. UNCHANGED <<today, logged>> /\ sweep.at = "evict" /\ sweep.todo = <<>>
  BY DEF Evicts, FilesInv, SweepKnows
<1>3. p \in Paths /\ p[1] < today
  BY DEF FilesInv, SweepKnows
<1>4. /\ {"at", "todo", "entries", "doomed"} \subseteq DOMAIN sweep'
      /\ sweep'.at = "evict" /\ sweep'.todo = sweep.todo
      /\ sweep'.entries = sweep.entries /\ sweep'.doomed = sweep.doomed \ {p}
  BY <1>1, <1>2 DEF FilesInv, SweepKnows
<1>5. SweepKnows'
  BY <1>2, <1>4 DEF FilesInv, SweepKnows, TodoClosed
<1>6. CASE UNCHANGED <<disk, evicted>>
  BY <1>2, <1>5, <1>6 DEF FilesInv, DiskShape, DaysOnDisk, LinesSurvive, Readable
<1>7. CASE /\ disk' = [disk EXCEPT ![p] = NoFile]
           /\ evicted' = IF disk[p].whole THEN evicted \cup {<<p[1], today>>} ELSE evicted
  <2>1. /\ disk' = [q \in Paths |-> disk'[q]]
        /\ disk'[p] = NoFile
        /\ \A q \in Paths : q # p => disk'[q] = disk[q]
    BY <1>3, <1>7 DEF FilesInv, DiskShape
  <2>2. {"lines", "whole", "mtime"} \subseteq DOMAIN NoFile /\ ~NoFile.whole /\ NoFile.lines = {}
    BY DEF NoFile
  <2>3. DiskShape'
    BY <1>2, <2>1, <2>2 DEF FilesInv, DiskShape
  <2>4. DaysOnDisk'
    BY <1>2, <1>3, <2>1, <2>2, DaysTyped DEF FilesInv, DaysOnDisk
  <2>5. \A e \in evicted' : e[1] < e[2]
    <3>1. <<p[1], today>>[1] < <<p[1], today>>[2]
      BY <1>3
    <3> QED
      BY <1>7, <3>1 DEF FilesInv, LinesSurvive
  <2>6. ASSUME NEW l \in logged
        PROVE  Readable(l)' \/ \E e \in evicted' : e[1] = l[1]
    <3>1. CASE \E e \in evicted : e[1] = l[1]
      BY <1>7, <3>1
    <3>2. CASE Readable(l)
      <4>1. PICK q \in Paths : q[1] = l[1] /\ disk[q].whole /\ l \in disk[q].lines
        BY <3>2 DEF Readable
      <4>2. CASE q = p
        <5>1. <<p[1], today>> \in evicted' /\ <<p[1], today>>[1] = l[1]
          BY <1>7, <4>1, <4>2
        <5> QED
          BY <5>1
      <4>3. CASE q # p
        BY <2>1, <4>1, <4>3 DEF Readable
      <4> QED
        BY <4>2, <4>3
    <3> QED
      BY <3>1, <3>2 DEF FilesInv, LinesSurvive
  <2> QED
    BY <1>2, <1>5, <2>3, <2>4, <2>5, <2>6 DEF FilesInv, LinesSurvive
<1> QED
  BY <1>1, <1>6, <1>7

LEMMA SweepLeft ==
    ASSUME FilesInv, sweep' = NoSweep, UNCHANGED <<today, logged, disk, evicted>>
    PROVE  FilesInv'
<1>1. DiskShape' /\ DaysOnDisk' /\ LinesSurvive'
  BY DEF FilesInv, DiskShape, DaysOnDisk, LinesSurvive, Readable
<1> QED
  BY <1>1, SweepIdle DEF FilesInv

LEMMA FilesStay == FilesInv /\ UNCHANGED filesVars => FilesInv'
<1> SUFFICES ASSUME FilesInv, UNCHANGED filesVars PROVE FilesInv'
  OBVIOUS
<1>1. UNCHANGED <<today, logged, disk, sweep, evicted>>
  BY DEF filesVars
<1>2. Source' = Source /\ Packed' = Packed
  BY <1>1 DEF Source, Packed
<1> QED
  BY <1>1, <1>2
     DEF FilesInv, DiskShape, DaysOnDisk, SweepKnows, TodoClosed, LinesSurvive, Readable

\* A line that was logged stays readable until its day is evicted, and only closed
\* days are (DecisionLogger, RetentionManager.sweep), wherever a sweep is cut short,
\* whatever fails of it, and however often the date changes while it runs.
THEOREM LoggedLinesSurvive == FilesInit /\ [][FilesNext]_filesVars => []LinesSurvive
<1>1. FilesInv /\ [FilesNext]_filesVars => FilesInv'
  <2> SUFFICES ASSUME FilesInv, [FilesNext]_filesVars PROVE FilesInv'
    OBVIOUS
  <2>1. CASE Logged
    BY <2>1, LoggingKeeps
  <2>2. CASE Midnight
    BY <2>2, MidnightKeeps
  <2>3. CASE SweepBegins
    BY <2>3, SweepBeginsRight
  <2>4. CASE GzipOpened
    BY <2>4, CopyBegins
  <2>5. CASE GzipWritten
    BY <2>5, CopyEnds
  <2>6. CASE Unlinked
    BY <2>6, LogUnlinked
  <2>7. CASE GzipFails
    BY <2>7, CopyFails
  <2>8. CASE EvictionChosen
    BY <2>8, OldestChosen
  <2>9. CASE Evicts
    BY <2>9, OldestEvicted
  <2>10. CASE SweepOver
    BY <2>10, SweepLeft DEF SweepOver
  <2>11. CASE Killed
    BY <2>11, SweepLeft DEF Killed
  <2>12. CASE UNCHANGED filesVars
    BY <2>12, FilesStay
  <2> QED
    BY <2>1, <2>2, <2>3, <2>4, <2>5, <2>6, <2>7, <2>8, <2>9, <2>10, <2>11, <2>12 DEF FilesNext
<1>2. FilesInv => LinesSurvive
  BY DEF FilesInv
<1> QED
  BY <1>1, <1>2, FilesStart, PTL

-----------------------------------------------------------------------------
(* CycleLedger.                                                            *)

IsBook(pair) == IsLadder(pair[1]) /\ IsLadder(pair[2])

LedgerInv ==
    /\ earned \in [Strips -> Int] /\ accruals \in [Strips -> Nat]
    /\ DOMAIN others = Strips /\ \A t \in Strips : IsBook(others[t])
    /\ own \in [Strips -> (0 .. 99) \X (0 .. 99)]
    /\ DOMAIN entries = Strips
    /\ \A t \in Strips : entries[t] = NoEntry \/ IsBook(entries[t])
    /\ EarnedAtMostPool

\* The prices of a ladder that qualifies are below 99, and the best is one of them.
LEMMA BestPrice ==
    ASSUME NEW ladder, IsLadder(ladder), Qualifies(ladder)
    PROVE  /\ Max(Prices(ladder)) \in 1 .. 98
           /\ \A l \in ladder : l[1] \in 1 .. Max(Prices(ladder))
<1>1. Prices(ladder) \in SUBSET (0 .. 99) /\ Prices(ladder) # {}
  BY DEF IsLadder, Qualifies, Prices
<1>2. /\ Max(Prices(ladder)) \in Prices(ladder)
      /\ \A y \in Prices(ladder) : y <= Max(Prices(ladder))
  BY <1>1, GreatestExists
<1>3. Max(Prices(ladder)) \in 1 .. 99
  BY <1>2 DEF Prices, IsLadder
<1>4. Max(Prices(ladder)) < 99
  BY DEF Qualifies
<1>5. \A l \in ladder : l[1] \in Prices(ladder) /\ l[1] \in 1 .. 99
  BY DEF Prices, IsLadder
<1> QED
  BY <1>2, <1>3, <1>4, <1>5

\* A price up to 98 has a weight.
LEMMA WeightTyped ==
    ASSUME NEW ladder, IsLadder(ladder), Qualifies(ladder), NEW price \in 0 .. 99
    PROVE  Weight(ladder, price) \in Nat
<1>1. Max(Prices(ladder)) \in 1 .. 98
  BY BestPrice
<1> DEFINE distance == Max(Prices(ladder)) - price
<1>2. distance \in Int /\ distance <= 98
  BY <1>1
<1>3. Weight(ladder, price) = IF distance < 0 THEN 0 ELSE Discount[distance]
  BY DEF Weight
<1>4. Discount \in [0 .. 98 -> Nat]
  BY LedgerAssumption
<1> HIDE DEF distance
<1>5. ~(distance < 0) => distance \in 0 .. 98
  BY <1>2
<1> QED
  BY <1>3, <1>4, <1>5

LEMMA SideTotalTyped ==
    ASSUME NEW ladder, IsLadder(ladder), Qualifies(ladder)
    PROVE  SideTotal(ladder) \in Nat
<1> DEFINE f == [l \in ladder |-> IF l[1] < Threshold(ladder) THEN 0
                                  ELSE Weight(ladder, l[1]) * l[2]]
<1>1. \A l \in ladder : f[l] \in Nat
  <2> TAKE l \in ladder
  <2>1. l[1] \in 0 .. 99 /\ l[2] \in Nat
    <3>1. Max(Prices(ladder)) \in 1 .. 98 /\ l[1] \in 1 .. Max(Prices(ladder))
      BY BestPrice
    <3>2. l[2] \in Nat
      BY DEF IsLadder
    <3> QED
      BY <3>1, <3>2
  <2>2. Weight(ladder, l[1]) \in Nat
    BY <2>1, WeightTyped
  <2>3. Weight(ladder, l[1]) * l[2] \in Nat
    BY <2>1, <2>2
  <2> QED
    BY <2>3
<1>2. SideTotal(ladder) = SumFunctionOnSet(f, ladder)
  BY DEF SideTotal, SumFunction
<1>3. IsFiniteSet(ladder)
  BY DEF IsLadder
<1> HIDE DEF f
<1> QED
  BY <1>1, <1>2, <1>3, SumAtLeast

LEMMA OwnScoreTyped ==
    ASSUME NEW ladder, IsLadder(ladder), Qualifies(ladder), NEW price \in 0 .. 99
    PROVE  OwnScore(ladder, price) \in Nat
<1>1. Weight(ladder, price) \in Nat /\ OwnLot \in Nat
  BY WeightTyped, LedgerAssumption
<1>2. Weight(ladder, price) * OwnLot \in Nat
  BY <1>1
<1> QED
  BY <1>2 DEF OwnScore

LEMMA SideShareBounded ==
    ASSUME NEW ladder, IsLadder(ladder), NEW price \in 0 .. 99
    PROVE  /\ SideShare(ladder, price) \in 0 .. 100
           /\ ~Qualifies(ladder) => SideShare(ladder, price) = 0
<1>1. CASE ~Qualifies(ladder) \/ SideTotal(ladder) = 0
  BY <1>1 DEF SideShare
<1>2. CASE Qualifies(ladder) /\ SideTotal(ladder) # 0
  <2> DEFINE part == (100 * OwnScore(ladder, price)) \div SideTotal(ladder)
  <2>1. OwnScore(ladder, price) \in Nat /\ SideTotal(ladder) \in Nat \ {0}
    BY <1>2, OwnScoreTyped, SideTotalTyped
  <2>2. part \in Nat
    <3>1. \A a \in Nat, b \in Nat \ {0} : (100 * a) \div b \in Nat
      OBVIOUS
    <3> QED
      BY <2>1, <3>1
  <2>3. SideShare(ladder, price) = Min({100, part})
    BY <1>2 DEF SideShare
  <2> HIDE DEF part
  <2>4. Min({100, part}) = IF part < 100 THEN part ELSE 100
    BY <2>2 DEF Min
  <2> QED
    BY <1>2, <2>2, <2>3, <2>4
<1> QED
  BY <1>1, <1>2

\* A market earns at most its whole pool in a cycle.
LEMMA PoolShareBounded ==
    ASSUME NEW pair, IsBook(pair), NEW prices \in (0 .. 99) \X (0 .. 99)
    PROVE  PoolShare(pair, prices) \in 0 .. 100
<1> DEFINE scored == {s \in {1, 2} : Qualifies(pair[s])}
           yes == SideShare(pair[1], prices[1])
           no == SideShare(pair[2], prices[2])
<1>1. /\ yes \in 0 .. 100 /\ (~Qualifies(pair[1]) => yes = 0)
      /\ no \in 0 .. 100 /\ (~Qualifies(pair[2]) => no = 0)
  <2>1. prices[1] \in 0 .. 99 /\ prices[2] \in 0 .. 99
    OBVIOUS
  <2> QED
    BY <2>1, SideShareBounded DEF IsBook
<1>2. PoolShare(pair, prices) =
        IF scored = {} THEN 0 ELSE (yes + no) \div Cardinality(scored)
  BY DEF PoolShare
<1>3. \/ scored = {}
      \/ scored = {1} /\ no = 0
      \/ scored = {2} /\ yes = 0
      \/ scored = {1, 2}
  BY <1>1
<1> HIDE DEF scored, yes, no
<1>4. Cardinality({1}) = 1 /\ Cardinality({2}) = 1
  BY FS_Singleton
<1>5. Cardinality({1, 2}) = 2
  <2>1. {1, 2} = {1} \cup {2} /\ 2 \notin {1}
    OBVIOUS
  <2>2. IsFiniteSet({1})
    BY FS_Singleton
  <2>3. Cardinality({1} \cup {2}) = Cardinality({1}) + 1
    BY <2>1, <2>2, FS_AddElement
  <2> QED
    BY <2>1, <2>3, <1>4
<1>6. CASE scored = {}
  BY <1>2, <1>6
<1>7. CASE scored = {1, 2}
  <2>1. PoolShare(pair, prices) = (yes + no) \div 2
    BY <1>2, <1>5, <1>7
  <2> QED
    BY <1>1, <2>1
<1>8. CASE (scored = {1} /\ no = 0) \/ (scored = {2} /\ yes = 0)
  <2>1. PoolShare(pair, prices) = (yes + no) \div 1
    BY <1>2, <1>4, <1>8
  <2>2. yes + no \in 0 .. 100
    BY <1>1, <1>8
  <2> QED
    BY <2>1, <2>2
<1> QED
  BY <1>3, <1>6, <1>7, <1>8

LEMMA WithOwnIsLadder ==
    ASSUME NEW ladder, IsLadder(ladder), NEW price \in 0 .. 99
    PROVE  IsLadder(WithOwn(ladder, price))
<1>1. CASE price = 0
  BY <1>1 DEF WithOwn
<1>2. CASE price # 0
  <2> DEFINE others1 == {l \in ladder : l[1] # price}
             same == {l \in ladder : l[1] = price}
             level == <<price, OwnLot + SizeFrom(same, 0)>>
  <2>1. WithOwn(ladder, price) = others1 \cup {level}
    BY <1>2 DEF WithOwn
  <2>2. IsFiniteSet(others1) /\ IsFiniteSet(same)
    <3>1. IsFiniteSet(ladder) /\ others1 \subseteq ladder /\ same \subseteq ladder
      BY DEF IsLadder
    <3> HIDE DEF others1, same
    <3> QED
      BY <3>1, FS_Subset
  <2>3. SizeFrom(same, 0) \in Nat
    <3> DEFINE f == [l \in same |-> IF l[1] >= 0 THEN l[2] ELSE 0]
    <3>1. \A l \in same : f[l] \in Nat
      BY DEF IsLadder
    <3>2. SizeFrom(same, 0) = SumFunctionOnSet(f, same)
      BY DEF SizeFrom, SumFunction
    <3> HIDE DEF f, same
    <3> QED
      BY <3>1, <3>2, <2>2, SumAtLeast
  <2>4. level[1] \in 1 .. 99 /\ level[2] \in Nat \ {0}
    <3>1. OwnLot \in Nat \ {0}
      BY LedgerAssumption
    <3> HIDE DEF same
    <3> QED
      BY <3>1, <2>3, <1>2
  <2>5. \A l \in others1 : l[1] \in 1 .. 99 /\ l[2] \in Nat \ {0}
    BY DEF IsLadder
  <2> HIDE DEF level, others1
  <2>6. IsFiniteSet(others1 \cup {level})
    BY <2>2, FS_AddElement
  <2> QED
    BY <2>1, <2>4, <2>5, <2>6 DEF IsLadder
<1> QED
  BY <1>1, <1>2

LEMMA LedgerStarts ==
    ASSUME LedgerInit
    PROVE  LedgerInv
<1>1. \A t \in Strips : IsBook(others[t])
  BY LedgerAssumption DEF LedgerInit, IsBook
<1>2. DOMAIN others = Strips /\ DOMAIN entries = Strips
  BY DEF LedgerInit, Nothing
<1>3. \A t \in Strips : entries[t] = NoEntry
  BY DEF LedgerInit, Nothing
<1>4. own \in [Strips -> (0 .. 99) \X (0 .. 99)]
  BY DEF LedgerInit
<1>5. earned \in [Strips -> Int] /\ accruals \in [Strips -> Nat] /\ EarnedAtMostPool
  BY DEF LedgerInit, Zero, EarnedAtMostPool
<1> QED
  BY <1>1, <1>2, <1>3, <1>4, <1>5 DEF LedgerInv

LEMMA LedgerKept ==
    ASSUME LedgerInv, [LedgerNext]_ledgerVars
    PROVE  LedgerInv'
<1>1. CASE UNCHANGED ledgerVars
  BY <1>1 DEF LedgerInv, ledgerVars, EarnedAtMostPool
<1>2. CASE Starts \/ CacheRefreshed
  BY <1>2 DEF LedgerInv, Starts, CacheRefreshed, EarnedAtMostPool
<1>3. CASE Stops
  BY <1>3 DEF LedgerInv, Stops, EarnedAtMostPool, Zero, Nothing
<1>4. CASE CycleSkipped \/ CycleBegins
  BY <1>4 DEF LedgerInv, CycleSkipped, CycleBegins, EarnedAtMostPool, Nothing
<1>5. CASE CycleEnds
  <2>1. \A t \in Strips : entries[t] # NoEntry => PoolShare(entries[t], own[t]) \in 0 .. 100
    BY PoolShareBounded DEF LedgerInv
  <2>2. \A t \in Strips : earned'[t] \in Int /\ earned'[t] <= earned[t] + 100
    <3> TAKE t \in Strips
    <3>1. earned[t] \in Int
      BY DEF LedgerInv
    <3>2. \/ earned'[t] = earned[t]
          \/ entries[t] # NoEntry /\ earned'[t] = earned[t] + PoolShare(entries[t], own[t])
      BY <1>5 DEF CycleEnds
    <3> QED
      BY <2>1, <3>1, <3>2
  <2>3. DOMAIN earned' = Strips /\ earned' = [t \in Strips |-> earned'[t]]
    BY <1>5 DEF CycleEnds
  <2>4. accruals' = [t \in Strips |-> accruals[t] + 1]
    BY <1>5 DEF CycleEnds
  <2>5. earned' \in [Strips -> Int] /\ accruals' \in [Strips -> Nat]
    BY <2>2, <2>3, <2>4 DEF LedgerInv
  <2>6. \A t \in Strips : earned'[t] <= 100 * accruals'[t]
    BY <2>2, <2>4 DEF LedgerInv, EarnedAtMostPool
  <2>7. UNCHANGED <<others, own, entries>>
    BY <1>5 DEF CycleEnds
  <2> QED
    BY <2>5, <2>6, <2>7 DEF LedgerInv, EarnedAtMostPool
<1>6. ASSUME NEW t \in Strips, Executed(t) \/ ProgramEnds(t) \/ TickerPassed(t)
      PROVE  LedgerInv'
  BY <1>6 DEF LedgerInv, Executed, ProgramEnds, TickerPassed, EarnedAtMostPool
<1>7. ASSUME NEW t \in Strips, MarketMoves(t)
      PROVE  LedgerInv'
  <2>1. PICK pair \in OtherBooks : others' = [others EXCEPT ![t] = pair]
    BY <1>7 DEF MarketMoves
  <2>2. IsBook(pair)
    BY LedgerAssumption DEF IsBook
  <2>3. DOMAIN others' = Strips /\ \A u \in Strips : IsBook(others'[u])
    BY <2>1, <2>2 DEF LedgerInv
  <2>4. UNCHANGED <<earned, accruals, own, entries>>
    BY <1>7 DEF MarketMoves
  <2> QED
    BY <2>3, <2>4 DEF LedgerInv, EarnedAtMostPool
<1>8. ASSUME NEW t \in Strips, TickerQuoted(t)
      PROVE  LedgerInv'
  <2>1. IsBook(BookOf(t))
    <3>1. own[t][1] \in 0 .. 99 /\ own[t][2] \in 0 .. 99
      BY DEF LedgerInv
    <3>2. IsLadder(others[t][1]) /\ IsLadder(others[t][2])
      BY DEF LedgerInv, IsBook
    <3>3. /\ IsLadder(WithOwn(others[t][1], own[t][1]))
          /\ IsLadder(WithOwn(others[t][2], own[t][2]))
      BY <3>1, <3>2, WithOwnIsLadder
    <3> QED
      BY <3>3 DEF IsBook, BookOf
  <2>2. entries' = [entries EXCEPT ![t] = BookOf(t)]
    BY <1>8 DEF TickerQuoted
  <2>3. DOMAIN entries' = Strips
        /\ \A u \in Strips : entries'[u] = NoEntry \/ IsBook(entries'[u])
    BY <2>1, <2>2 DEF LedgerInv
  <2>4. PICK prices \in OwnBids : own' = [own EXCEPT ![t] = prices]
    BY <1>8 DEF TickerQuoted
  <2>5. own' \in [Strips -> (0 .. 99) \X (0 .. 99)]
    <3>1. prices \in (0 .. 99) \X (0 .. 99)
      BY LedgerAssumption
    <3> QED
      BY <2>4, <3>1 DEF LedgerInv
  <2>6. UNCHANGED <<earned, accruals, others>>
    BY <1>8 DEF TickerQuoted
  <2> QED
    BY <2>3, <2>5, <2>6 DEF LedgerInv, EarnedAtMostPool
<1> QED
  BY <1>1, <1>2, <1>3, <1>4, <1>5, <1>6, <1>7, <1>8 DEF LedgerNext

\* EarnedAtMostPool.
THEOREM EarnsAtMostThePool == LedgerSpec => []EarnedAtMostPool
<1>1. LedgerInv => EarnedAtMostPool
  BY DEF LedgerInv
<1> QED
  BY <1>1, LedgerStarts, LedgerKept, PTL DEF LedgerSpec

-----------------------------------------------------------------------------
(* EarningsLog.                                                            *)

LogTyped ==
    /\ second \in Nat /\ total \in Nat /\ lastSample \in Nat /\ earnings \in Nat
    /\ sessions \in Nat \ {0}
    /\ samples \in Seq([ts : Nat, dollars : Nat])

\* RatesAddUp is not inductive: of the session that runs, what lies beyond its last
\* sample, or all of it when there is none, was earned and is not counted yet.
EarningsInv ==
    /\ LogTyped /\ second >= SampleInterval
    /\ lastSample = 0 =>
         /\ CountedGains + total <= earnings
         /\ sessions = 1 => samples = <<>>
    /\ lastSample # 0 =>
         /\ samples # <<>> /\ lastSample = Last(samples).ts
         /\ Last(samples).dollars <= total
         /\ CountedGains + total - Last(samples).dollars <= earnings
         /\ sessions = 1 => CountedGains = Last(samples).dollars - Head(samples).dollars

LEMMA SamplesTyped ==
    ASSUME LogTyped
    PROVE  /\ Len(samples) \in Nat
           /\ \A i \in 1 .. Len(samples) : samples[i].ts \in Nat /\ samples[i].dollars \in Nat
           /\ samples # <<>> => /\ Len(samples) \in 1 .. Len(samples)
                               /\ Last(samples) = samples[Len(samples)]
                               /\ Head(samples) = samples[1]
                               /\ 1 \in 1 .. Len(samples)
<1>1. samples \in Seq([ts : Nat, dollars : Nat])
  BY DEF LogTyped
<1>2. Len(samples) \in Nat
  BY <1>1
<1>3. \A i \in 1 .. Len(samples) : samples[i] \in [ts : Nat, dollars : Nat]
  BY <1>1, ElementOfSeq
<1>4. \A i \in 1 .. Len(samples) : samples[i].ts \in Nat /\ samples[i].dollars \in Nat
  BY <1>3
<1>5. samples # <<>> => Len(samples) # 0
  BY <1>1
<1> QED
  BY <1>2, <1>4, <1>5 DEF Last

GainsTyped == \A i \in 1 .. Len(samples) - 1 : WindowGain(i) \in Nat

LEMMA GainTyped == LogTyped => GainsTyped
<1> SUFFICES ASSUME LogTyped, NEW i \in 1 .. Len(samples) - 1
             PROVE  WindowGain(i) \in Nat
  BY DEF GainsTyped
<1>1. Len(samples) \in Nat
  BY SamplesTyped
<1>2. i \in 1 .. Len(samples) /\ i + 1 \in 1 .. Len(samples)
  BY <1>1
<1>3. samples[i].dollars \in Nat /\ samples[i + 1].dollars \in Nat
  BY <1>2, SamplesTyped
<1> QED
  BY <1>3 DEF WindowGain, WindowCounts

LEMMA CountedTyped == LogTyped => CountedGains \in Nat
<1> SUFFICES ASSUME LogTyped
             PROVE  CountedGains \in Nat
  OBVIOUS
<1> DEFINE S == 1 .. Len(samples) - 1
           f == [i \in S |-> WindowGain(i)]
<1>1. IsFiniteSet(S)
  <2>1. 1 \in Int /\ Len(samples) - 1 \in Int
    BY DEF LogTyped
  <2> QED
    BY <2>1, FS_Interval
<1>2. \A i \in S : f[i] \in Nat
  BY GainTyped DEF GainsTyped
<1>3. CountedGains = SumFunctionOnSet(f, S)
  BY DEF CountedGains, SumFunction
<1> HIDE DEF S, f
<1> QED
  BY <1>1, <1>2, <1>3, SumAtLeast

\* A sample adds the window between the last one and itself.
LEMMA SampleCounts ==
    ASSUME LogTyped, LogTyped', NEW r \in [ts : Nat, dollars : Nat],
           samples' = Append(samples, r)
    PROVE  /\ samples = <<>> => CountedGains' = 0
           /\ samples # <<>> =>
                CountedGains' = CountedGains +
                  IF r.ts > Last(samples).ts /\ r.dollars >= Last(samples).dollars
                  THEN r.dollars - Last(samples).dollars ELSE 0
<1> DEFINE n == Len(samples)
           S == 1 .. n - 1
           f == [i \in S |-> WindowGain(i)]
           g == [i \in 1 .. n |-> WindowGain(i)']
<1>1. n \in Nat /\ samples \in Seq([ts : Nat, dollars : Nat])
  BY DEF LogTyped
<1>2. /\ Len(samples') = n + 1 /\ samples'[n + 1] = r
      /\ \A i \in 1 .. n : samples'[i] = samples[i]
  BY <1>1
<1>3. CountedGains = SumFunctionOnSet(f, S)
  BY DEF CountedGains, SumFunction
<1>4. CountedGains' = SumFunctionOnSet(g, 1 .. n)
  <2>1. (Len(samples) - 1)' = n
    BY <1>1, <1>2
  <2> QED
    BY <2>1 DEF CountedGains, SumFunction
<1>5. \A i \in 1 .. n : g[i] \in Int
  <2> TAKE i \in 1 .. n
  <2>1. LogTyped' => GainsTyped'
    BY GainTyped, PTL
  <2>2. i \in 1 .. (Len(samples) - 1)'
    BY <1>1, <1>2
  <2> QED
    BY <2>1, <2>2 DEF GainsTyped
<1>6. \A i \in S : f[i] \in Int /\ g[i] \in Int /\ f[i] = g[i]
  <2> TAKE i \in S
  <2>1. f[i] \in Int
    BY GainTyped DEF GainsTyped
  <2>2. i \in 1 .. n /\ i + 1 \in 1 .. n
    BY <1>1
  <2>3. samples'[i] = samples[i] /\ samples'[i + 1] = samples[i + 1]
    BY <1>2, <2>2
  <2>4. g[i] = f[i]
    BY <2>2, <2>3 DEF WindowGain, WindowCounts
  <2> QED
    BY <2>1, <2>4
<1>7. IsFiniteSet(1 .. n) /\ IsFiniteSet(S)
  <2>1. 1 \in Int /\ n \in Int /\ n - 1 \in Int
    BY <1>1
  <2> QED
    BY <2>1, FS_Interval
<1>8. CASE samples = <<>>
  <2>1. 1 .. n = {}
    BY <1>1, <1>8
  <2> HIDE DEF n, g
  <2> QED
    BY <1>4, <1>8, <2>1, SumOfNone
<1>9. CASE samples # <<>>
  <2>1. n \in 1 .. n /\ (1 .. n) \ {n} = S
    BY <1>1, <1>9
  <2>2. g[n] = IF r.ts > Last(samples).ts /\ r.dollars >= Last(samples).dollars
               THEN r.dollars - Last(samples).dollars ELSE 0
    <3>1. Last(samples) = samples[n] /\ samples'[n] = samples[n]
      BY <1>2, <1>9, <2>1, SamplesTyped
    <3>2. samples'[n + 1] = r
      BY <1>2
    <3>3. g[n] = IF samples'[n + 1].ts > samples'[n].ts
                    /\ samples'[n + 1].dollars >= samples'[n].dollars
                 THEN samples'[n + 1].dollars - samples'[n].dollars ELSE 0
      BY <2>1 DEF WindowGain, WindowCounts
    <3> QED
      BY <3>1, <3>2, <3>3
  <2> HIDE DEF n, S, f, g
  <2>3. SumFunctionOnSet(g, 1 .. n) = g[n] + SumFunctionOnSet(g, (1 .. n) \ {n})
    BY <1>5, <1>7, <2>1, SumRemoves
  <2>4. SumFunctionOnSet(f, S) = SumFunctionOnSet(g, S)
    BY <1>6, <1>7, SumCongruent
  <2>5. CountedGains \in Nat
    BY CountedTyped
  <2>6. SumFunctionOnSet(g, S) = CountedGains
    BY <1>3, <2>4
  <2>7. CountedGains' = g[n] + CountedGains
    BY <1>4, <2>1, <2>3, <2>6
  <2>8. r.dollars \in Nat /\ Last(samples).dollars \in Nat /\ g[n] \in Int
    BY <1>5, <1>9, <2>1, SamplesTyped
  <2> QED
    BY <1>9, <2>2, <2>5, <2>7, <2>8
<1> QED
  BY <1>8, <1>9

LEMMA EarningsKept ==
    ASSUME EarningsInv, [EarningsNext]_earningsVars
    PROVE  EarningsInv'
<1> USE EarningsAssumption
<1>1. CASE UNCHANGED earningsVars
  BY <1>1 DEF EarningsInv, LogTyped, earningsVars, CountedGains, WindowGain, WindowCounts
<1>2. CountedGains \in Nat
  BY CountedTyped DEF EarningsInv
<1>3. CASE Accrues
  <2>1. PICK g \in Gains : total' = total + g /\ earnings' = earnings + g
    BY <1>3 DEF Accrues
  <2>2. g \in Nat
    OBVIOUS
  <2>3. UNCHANGED <<lastSample, samples, sessions>> /\ second' = second + 1
    BY <1>3 DEF Accrues
  <2>4. CountedGains' = CountedGains
    BY <2>3 DEF CountedGains, WindowGain, WindowCounts
  <2>5. LogTyped' /\ second' >= SampleInterval
    BY <2>1, <2>2, <2>3 DEF EarningsInv, LogTyped
  <2>6. lastSample # 0 => Last(samples).dollars \in Nat
    BY SamplesTyped DEF EarningsInv
  <2>7. ASSUME lastSample = 0
        PROVE  /\ CountedGains' + total' <= earnings'
               /\ sessions' = 1 => samples' = <<>>
    BY <1>2, <2>1, <2>2, <2>3, <2>4, <2>7 DEF EarningsInv, LogTyped
  <2>8. ASSUME lastSample # 0
        PROVE  /\ samples' # <<>> /\ lastSample' = Last(samples)'.ts
               /\ Last(samples)'.dollars <= total'
               /\ CountedGains' + total' - Last(samples)'.dollars <= earnings'
               /\ sessions' = 1 => CountedGains' = Last(samples)'.dollars - Head(samples)'.dollars
    <3>1. Last(samples)' = Last(samples) /\ Head(samples)' = Head(samples)
      BY <2>3
    <3>2. /\ samples # <<>> /\ lastSample = Last(samples).ts
          /\ Last(samples).dollars <= total
          /\ CountedGains + total - Last(samples).dollars <= earnings
          /\ sessions = 1 => CountedGains = Last(samples).dollars - Head(samples).dollars
          /\ total \in Nat /\ earnings \in Nat
      BY <2>8 DEF EarningsInv, LogTyped
    <3>3. /\ Last(samples).dollars <= total + g
          /\ CountedGains + (total + g) - Last(samples).dollars <= earnings + g
      BY <1>2, <2>2, <2>6, <2>8, <3>2
    <3> QED
      BY <2>1, <2>3, <2>4, <3>1, <3>2, <3>3
  <2> QED
    BY <2>3, <2>5, <2>7, <2>8 DEF EarningsInv
<1>4. CASE SessionRestarts
  <2>1. /\ UNCHANGED <<second, samples, earnings>> /\ sessions' = sessions + 1
        /\ total' = 0 /\ lastSample' = 0
    BY <1>4 DEF SessionRestarts
  <2>2. CountedGains' = CountedGains
    BY <2>1 DEF CountedGains, WindowGain, WindowCounts
  <2>3. LogTyped' /\ second' >= SampleInterval
    BY <2>1 DEF EarningsInv, LogTyped
  <2>4. lastSample # 0 => Last(samples).dollars \in Nat
    BY SamplesTyped DEF EarningsInv
  <2>5. CountedGains <= earnings
    BY <1>2, <2>4 DEF EarningsInv, LogTyped
  <2>6. sessions' # 1
    BY <2>1 DEF EarningsInv, LogTyped
  <2> QED
    BY <1>2, <2>1, <2>2, <2>3, <2>5, <2>6 DEF EarningsInv
<1>5. CASE Sampled
  <2> DEFINE r == [ts |-> second, dollars |-> total]
  <2>1. /\ samples' = Append(samples, r) /\ lastSample' = second
        /\ second - lastSample >= SampleInterval
        /\ UNCHANGED <<second, total, sessions, earnings>>
    BY <1>5 DEF Sampled
  <2>2. r \in [ts : Nat, dollars : Nat] /\ r.ts = second /\ r.dollars = total
    BY DEF EarningsInv, LogTyped
  <2>3. second \in Nat \ {0}
    BY DEF EarningsInv, LogTyped
  <2> HIDE DEF r
  <2>4. LogTyped'
    BY <2>1, <2>2 DEF EarningsInv, LogTyped
  <2>5. LogTyped
    BY DEF EarningsInv
  <2>6. samples' # <<>> /\ Last(samples') = r
    BY <2>1, <2>2, <2>5 DEF LogTyped, Last
  <2>7. /\ samples = <<>> => CountedGains' = 0
        /\ samples # <<>> =>
             CountedGains' = CountedGains +
               IF second > Last(samples).ts /\ total >= Last(samples).dollars
               THEN total - Last(samples).dollars ELSE 0
    BY <2>1, <2>2, <2>4, <2>5, SampleCounts
  <2>8. samples # <<>> => Last(samples).dollars \in Nat /\ Last(samples).ts \in Nat
    BY <2>5, SamplesTyped
  <2>9. CountedGains' <= earnings
    <3>1. CASE lastSample = 0
      BY <1>2, <2>5, <2>7, <2>8, <3>1 DEF EarningsInv, LogTyped
    <3>2. CASE lastSample # 0
      BY <1>2, <2>5, <2>7, <2>8, <3>2 DEF EarningsInv, LogTyped
    <3> QED
      BY <3>1, <3>2
  <2>10. ASSUME sessions = 1
         PROVE  CountedGains' = r.dollars - Head(samples').dollars
    <3>1. CASE lastSample = 0
      <4>1. samples = <<>>
        BY <2>10, <3>1 DEF EarningsInv
      <4>2. Head(samples') = r
        BY <2>1, <2>2, <4>1
      <4> QED
        BY <2>2, <2>7, <4>1, <4>2
    <3>2. CASE lastSample # 0
      <4>1. /\ samples # <<>> /\ second > Last(samples).ts /\ total >= Last(samples).dollars
            /\ CountedGains = Last(samples).dollars - Head(samples).dollars
        BY <2>1, <2>3, <2>10, <3>2 DEF EarningsInv, LogTyped
      <4>2. Head(samples') = Head(samples)
        BY <2>1, <2>2, <2>5, <4>1 DEF LogTyped
      <4>3. Head(samples).dollars \in Nat
        BY <2>5, <4>1, SamplesTyped
      <4>4. total \in Nat
        BY <2>5 DEF LogTyped
      <4>5. CountedGains' = CountedGains + (total - Last(samples).dollars)
        BY <2>7, <4>1
      <4>6. \A c, d, l, h \in Nat : c = l - h => c + (d - l) = d - h
        OBVIOUS
      <4> QED
        BY <1>2, <2>2, <2>8, <4>1, <4>2, <4>3, <4>4, <4>5, <4>6
    <3> QED
      BY <3>1, <3>2
  <2>11. CountedGains' \in Nat
    <3>1. LogTyped' => (CountedGains \in Nat)'
      BY CountedTyped, PTL
    <3> QED
      BY <2>4, <3>1
  <2>12. second' >= SampleInterval
    BY <2>1 DEF EarningsInv
  <2>13. total' = total /\ earnings' = earnings /\ sessions' = sessions /\ total \in Nat
         /\ earnings \in Nat
    BY <2>1, <2>5 DEF LogTyped
  <2>14. lastSample' # 0 /\ lastSample' = Last(samples').ts
    BY <2>1, <2>2, <2>3, <2>6
  <2>15. Last(samples').dollars = total
    BY <2>2, <2>6
  <2>16. /\ Last(samples').dollars <= total'
         /\ CountedGains' + total' - Last(samples').dollars <= earnings'
    <3>1. Last(samples').dollars = total' /\ total' \in Nat
      BY <2>13, <2>15
    <3>2. CountedGains' <= earnings' /\ earnings' \in Nat
      BY <2>9, <2>13
    <3>3. \A c, t, e \in Nat : c <= e => t <= t /\ c + t - t <= e
      OBVIOUS
    <3> QED
      BY <2>11, <3>1, <3>2, <3>3
  <2>17. sessions' = 1 => CountedGains' = Last(samples').dollars - Head(samples').dollars
    BY <2>6, <2>10, <2>13
  <2> QED
    BY <2>4, <2>6, <2>12, <2>14, <2>16, <2>17 DEF EarningsInv
<1> QED
  BY <1>1, <1>3, <1>4, <1>5 DEF EarningsNext

LEMMA EarningsStart ==
    ASSUME EarningsInit
    PROVE  EarningsInv
<1>1. LogTyped /\ samples = <<>>
  BY EarningsAssumption DEF EarningsInit, LogTyped
<1>2. CountedGains = 0
  <2>1. 1 .. Len(samples) - 1 = {}
    BY <1>1
  <2>2. CountedGains = SumFunctionOnSet([i \in 1 .. Len(samples) - 1 |-> WindowGain(i)], {})
    BY <2>1 DEF CountedGains, SumFunction
  <2> QED
    BY <2>2, SumOfNone
<1> QED
  BY <1>1, <1>2, EarningsAssumption DEF EarningsInit, EarningsInv

LEMMA RatesFollow ==
    ASSUME EarningsInv
    PROVE  RatesAddUp
<1>1. CountedGains \in Nat
  BY CountedTyped DEF EarningsInv
<1>2. lastSample # 0 => Last(samples).dollars \in Nat
  BY SamplesTyped DEF EarningsInv
<1> QED
  BY <1>1, <1>2 DEF EarningsInv, LogTyped, RatesAddUp

\* RatesAddUp.
THEOREM RatesAreTheEarnings == EarningsSpec => []RatesAddUp
BY EarningsStart, EarningsKept, RatesFollow, PTL DEF EarningsSpec
=============================================================================
