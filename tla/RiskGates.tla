------------------------------ MODULE RiskGates ------------------------------
(***************************************************************************)
(* The risk gates (lipmm/risk) between the strategy and the order manager. *)
(* The runner evaluates every ticker of its rotated list once a cycle; a   *)
(* manual order is evaluated by the same gates, at any time, as if it came *)
(* from cycle 0 with no position and a fair value of 50 cents.             *)
(*                                                                         *)
(* RiskRegistry.evaluate awaits nothing but its gates, which await nothing:*)
(* it is one step.  What apply() then does is OrderManager's affair; here  *)
(* a side that is allowed rests, and a side that is vetoed is cancelled.   *)
(* Knob overrides of the gates and manual sizes beyond the strategy's are  *)
(* left out; no gate of the repository raises, so none fails open.         *)
(***************************************************************************)
EXTENDS Integers, Sequences, FiniteSets

CONSTANTS
    TickerList,     \* the runner's tickers, in order
    Cap,            \* MaxOrdersPerCycleGate: orders per cycle
    MaxPosition,    \* MaxPositionPerSideGate
    OrderSize,      \* contracts the strategy asks for on a side
    MidDelta,       \* MidDeltaGate: the threshold, in cents
    DeepOtm, DeepItm,  \* EndgameGuardrailGate
    Theos,          \* fair values the provider may give, in cents
    MaxCycles,      \* bound: cycles
    MaxManuals      \* bound: manual orders

RiskTickers == {TickerList[k] : k \in 1 .. Len(TickerList)}
RiskSides == {"bid", "ask"}

\* No ticker comes twice (_filter_tradable_tickers).
NoRepeats(list) == \A i, j \in 1 .. Len(list) : list[i] = list[j] => i = j

\* What _build_risk_registry gives the gates.
RiskConfig ==
    /\ TickerList \in Seq(RiskTickers) /\ Len(TickerList) > 0 /\ NoRepeats(TickerList)
    /\ Cap \in Nat \ {0} /\ MaxPosition \in Nat /\ OrderSize \in Nat \ {0}
    /\ MidDelta \in Nat \ {0}
    /\ DeepOtm \in 0 .. 100 /\ DeepItm \in 0 .. 100 /\ DeepOtm < DeepItm
    /\ Theos \subseteq 0 .. 100
    /\ MaxCycles \in Nat /\ MaxManuals \in Nat

ASSUME RiskAssumption == RiskConfig

VARIABLES
    cycleId,    \* LIPRunner._cycle_id
    queue,      \* tickers of the cycle that are still to come
    cached,     \* LIPRunner._position_cache
    position,   \* the account's net position
    resting,    \* contracts that rest, by ticker and side
    quota,      \* MaxOrdersPerCycleGate: last cycle id, count
    lastMid,    \* MidDeltaGate._last_mid_c, -1 for none
    tally,      \* history, see TallyInit
    judged      \* history, see JudgedInit

riskVars == <<cycleId, queue, cached, position, resting, quota, lastMid, tally, judged>>

\* What the properties count: manual orders, in all and in the cycle; refreshes
\* that failed; sides the quota has granted the runner in the cycle.
TallyInit == [manuals |-> 0, manualsNow |-> 0, failed |-> 0, granted |-> 0]

\* The fair value the runner last had for a ticker, and how many of its verdicts
\* on a jump were not what that value and the new one say.
JudgedInit == [fair |-> [t \in RiskTickers |-> -1], wrong |-> 0]

RiskInit ==
    /\ cycleId = 0
    /\ queue = <<>>
    /\ cached = [t \in RiskTickers |-> 0]
    /\ position = [t \in RiskTickers |-> 0]
    /\ resting = [t \in RiskTickers |-> [s \in RiskSides |-> 0]]
    /\ quota = [cycle |-> -1, count |-> 0]
    /\ lastMid = [t \in RiskTickers |-> -1]
    /\ tally = TallyInit
    /\ judged = JudgedInit

Apart(a, b) == IF a >= b THEN a - b ELSE b - a

\* tickers[offset:] + tickers[:offset]
Rotated(list, offset) ==
    [k \in 1 .. Len(list) |-> list[IF k + offset <= Len(list) THEN k + offset
                                                       ELSE k + offset - Len(list)]]

\* The top of a cycle: the positions are listed, or the listing fails and the
\* old ones stay; the list is rotated.  The cycle before may have been cut
\* short by a kill or a pause.
StartCycle ==
    /\ cycleId < MaxCycles
    /\ cycleId' = cycleId + 1
    /\ queue' = Rotated(TickerList, cycleId' % Len(TickerList))
    /\ \E answered \in BOOLEAN :
         /\ cached' = IF answered THEN position ELSE cached
         /\ tally' = [tally EXCEPT
                        !.failed = IF answered THEN @ ELSE @ + 1,
                        !.manualsNow = 0, !.granted = 0]
    /\ UNCHANGED <<position, resting, quota, lastMid, judged>>

-----------------------------------------------------------------------------
(* The gates: each names the sides it vetoes.                              *)

\* The count the quota gate starts from: zero when the cycle id is new.
Counted(id) == IF id = quota.cycle THEN quota.count ELSE 0

\* Mutant of QuotaAllows: the cap is compared after the fact.
QuotaAllowsOneMore(id, wanted) ==
    IF Counted(id) <= Cap THEN wanted ELSE {}

\* Bid first, then ask; a side that does not fit leaves room for the other.
QuotaAllows(id, wanted) ==
    LET bidFits == "bid" \in wanted /\ Counted(id) + 1 <= Cap
        used == Counted(id) + IF bidFits THEN 1 ELSE 0
        askFits == "ask" \in wanted /\ used + 1 <= Cap
    IN  {s \in wanted : IF s = "bid" THEN bidFits ELSE askFits}

QuotaAfter(id, allowed) ==
    quota' = [cycle |-> id, count |-> Counted(id) + Cardinality(allowed)]

\* Mutant of PositionVetoes: the cap is compared with a strict inequality.
PositionVetoesLate(held) ==
    {s \in RiskSides : IF s = "bid" THEN held > MaxPosition
                                    ELSE held < -MaxPosition}

PositionVetoes(held) ==
    {s \in RiskSides : IF s = "bid" THEN held >= MaxPosition
                                    ELSE held <= -MaxPosition}

\* Only a track_mid override fills in theo.extras["mid_cents"].  With a provider's
\* theo the gate falls back to the fair value and compares that with the value
\* it saw last.
Jumps(from, value) == from # -1 /\ Apart(value, from) >= MidDelta

MidJumps(t, value) == Jumps(lastMid[t], value)

MidVetoes(t, value) == IF MidJumps(t, value) THEN RiskSides ELSE {}

\* Mutant of MidStored: a value that is vetoed is not stored.
MidStoredIfCalm(t, value) ==
    lastMid' = IF MidJumps(t, value) THEN lastMid ELSE [lastMid EXCEPT ![t] = value]

\* The value is stored whatever the verdict.
MidStored(t, value) == lastMid' = [lastMid EXCEPT ![t] = value]

\* History: is the verdict what the runner's own last two values say?
Judged(t, value) ==
    judged' = [fair |-> [judged.fair EXCEPT ![t] = value],
               wrong |-> IF MidJumps(t, value) = Jumps(judged.fair[t], value)
                         THEN judged.wrong ELSE judged.wrong + 1]

EndgameVetoes(near, value) ==
    {s \in RiskSides : near /\ IF s = "bid" THEN value <= DeepOtm
                                            ELSE value >= DeepItm}

-----------------------------------------------------------------------------
\* RiskRegistry.evaluate: every gate sees the strategy's decision, and a side
\* is allowed if none vetoes it.  oversized are the sides that the notional
\* gate vetoes, which is all that price times size is used for.
Allowed(t, wanted, oversized, id, held, value, near) ==
    QuotaAllows(id, wanted) \ (oversized \cup PositionVetoes(held)
                               \cup MidVetoes(t, value) \cup EndgameVetoes(near, value))

Rests(t, sides, allowed) ==
    resting' = [resting EXCEPT ![t] =
        [s \in RiskSides |-> IF s \notin sides THEN @[s]
                             ELSE IF s \in allowed THEN OrderSize ELSE 0]]

\* The runner's next ticker.
EvaluateTicker ==
    /\ queue # <<>>
    /\ queue' = Tail(queue)
    /\ \E wanted \in SUBSET RiskSides, value \in Theos, near \in BOOLEAN :
       \E oversized \in SUBSET wanted :
         LET t == Head(queue)
             allowed == Allowed(t, wanted, oversized, cycleId, cached[t], value, near)
             inQuota == QuotaAllows(cycleId, wanted)
         IN  /\ QuotaAfter(cycleId, inQuota)
             /\ MidStored(t, value)
             /\ Judged(t, value)
             /\ Rests(t, RiskSides, allowed)
             /\ tally' = [tally EXCEPT !.granted = @ + Cardinality(inQuota)]
    /\ UNCHANGED <<cycleId, cached, position>>

\* submit_manual_order: cycle 0, no position, no time left, 50 cents; the other
\* side is skipped in the decision but not touched at the exchange.
ManualCheck ==
    /\ tally.manuals < MaxManuals
    /\ \E t \in RiskTickers, side \in RiskSides, oversized \in {{}, RiskSides} :
         LET allowed == Allowed(t, {side}, oversized, 0, 0, 50, TRUE)
         IN  /\ QuotaAfter(0, QuotaAllows(0, {side}))
             /\ MidStored(t, 50)
             /\ Rests(t, allowed, allowed)
             /\ tally' = [tally EXCEPT !.manuals = @ + 1, !.manualsNow = @ + 1]
    /\ UNCHANGED <<cycleId, queue, cached, position, judged>>

\* External: part or all of a resting quote is taken.
QuoteFilled ==
    /\ \E t \in RiskTickers, s \in RiskSides : \E n \in 1 .. resting[t][s] :
         /\ resting' = [resting EXCEPT ![t][s] = @ - n]
         /\ position' = [position EXCEPT ![t] = IF s = "bid" THEN @ + n ELSE @ - n]
    /\ UNCHANGED <<cycleId, queue, cached, quota, lastMid, tally, judged>>

RiskNext == StartCycle \/ EvaluateTicker \/ ManualCheck \/ QuoteFilled

RiskSpec == RiskInit /\ [][RiskNext]_riskVars

-----------------------------------------------------------------------------
RiskTypeOK ==
    /\ cycleId \in Nat
    /\ queue \in Seq(RiskTickers)
    /\ cached \in [RiskTickers -> Int] /\ position \in [RiskTickers -> Int]
    /\ resting \in [RiskTickers -> [RiskSides -> Nat]]
    /\ quota \in [cycle : Int, count : Nat]
    /\ lastMid \in [RiskTickers -> Int]
    /\ tally \in [manuals : Nat, manualsNow : Nat, failed : Nat, granted : Nat]
    /\ judged \in [fair : [RiskTickers -> Int], wrong : Nat]

Slips == tally.failed + tally.manuals

\* The position gate looks at positions as of the last refresh that worked and
\* not at what rests: a position and the quote that would raise it go beyond the
\* cap, but by no more than two quotes, and one for every failed refresh and
\* every manual order.
OvershootBounded ==
    \A t \in RiskTickers :
        /\ position[t] + resting[t]["bid"] <= MaxPosition - 1 + OrderSize * (2 + Slips)
        /\ resting[t]["ask"] - position[t] <= MaxPosition - 1 + OrderSize * (2 + Slips)

\* The orders-per-cycle gate grants the runner no more than its cap in a cycle,
\* but as often again as manual orders have reset its counter meanwhile.
CapHolds == tally.granted <= Cap * (1 + tally.manualsNow)

\* MidDeltaGate vetoes a move "since the last cycle for this strike"; but what it
\* remembers is the last value it was shown, and a manual order shows it 50 cents.
\* A manual order can make it miss one move of the runner's fair value, or see one
\* that did not happen, and no more than one: every other verdict is right.
FewMisjudged == judged.wrong <= tally.manuals

\* Two gates keep state from one evaluation to the next, and manual orders write
\* to it.  What one manual order upsets is a cap's worth of grants at most in one,
\* and one verdict at most in the other.
ManualsUpsetOnce == CapHolds /\ FewMisjudged
=============================================================================
