----------------------------- MODULE GrainQuotes -----------------------------
(***************************************************************************)
(* What the grain bot wants to quote: compute_quotes (engine/quoter.py)    *)
(* over the strikes of an event, under the settlement gate around the      *)
(* USDA's releases (engine/settlement_gate.py) and the taker-imbalance     *)
(* detector (engine/taker_imbalance.py).  Prices in cents, time in minutes. *)
(***************************************************************************)
EXTENDS Integers, Sequences, FiniteSets, SequencesExt, FiniteSetsExt

CONSTANTS
    Strikes,          \* strikes in order: 1 .. n
    MinHalf, MaxHalf, \* half-spread bounds
    FeeThreshold,     \* fee_threshold_cents
    BaseSize,         \* max_contracts_per_strike
    Releases,         \* the calendar: minutes of the releases
    PullBefore, PostWindow, WidenStart, SizeDownStart,   \* SettlementGateConfig
    LookTimes,        \* bound: minutes at which something happens
    FlowWindow, FlowCooldown, MinTrades,  \* ImbalanceConfig; its threshold is 7 in 10
    MaxFlow,          \* bound: trades in the window
    Survivals,        \* fair values, in cents
    Tops,             \* <<best bid, best ask>> of a strike; 0 and 100 for none
    Skews             \* gamma * inventory, rounded

\* QuoterConfig and ReleaseGateConfig.
QuoterConfig ==
    /\ {MinHalf, MaxHalf, FeeThreshold, BaseSize} \subseteq Nat
    /\ Strikes \subseteq Nat /\ IsFiniteSet(Strikes)
    /\ Tops \subseteq (0 .. 100) \X (0 .. 100)
    /\ 0 < PullBefore /\ PullBefore < WidenStart /\ WidenStart <= 720 /\ SizeDownStart >= 1080
    /\ Releases \cup LookTimes \subseteq Nat
    /\ Survivals \subseteq 0 .. 100 /\ Skews \subseteq Int

ASSUME GrainQuotesAssumption == QuoterConfig

VARIABLES
    minute,   \* the time
    flow,     \* TakerImbalanceDetector._trades: <<minute, 1 or -1>>
    signal,   \* _last_signal: the side withdrawn and when that expires
    quoting   \* strike -> what the latest cycle places there

grainQuoteVars == <<minute, flow, signal, quoting>>

NoSignal == [side |-> "none", until |-> 0]
Nothing == [bid |-> 0, ask |-> 0, size |-> 0]

GrainQuotesInit ==
    /\ minute = 0
    /\ flow = <<>>
    /\ signal = NoSignal
    /\ quoting = [k \in Strikes |-> Nothing]

-----------------------------------------------------------------------------
\* gate_state: the release nearest to now, of those within the window, decides.
Away(t) == IF t < 0 THEN -t ELSE t
Near == {r \in Releases : -PostWindow <= r - minute /\ r - minute <= SizeDownStart}

NextRelease == CHOOSE r \in Near : \A s \in Near : Away(r - minute) <= Away(s - minute)

\* Multipliers in hundredths; a size of 0 pulls everything.
ReleaseGate ==
    LET left == NextRelease - minute
    IN  IF Near = {} THEN [size |-> 100, spread |-> 100]
        ELSE IF left <= PullBefore THEN [size |-> 0, spread |-> 100]
        ELSE IF left <= WidenStart THEN [size |-> 25, spread |-> 200]
        ELSE IF left <= 720 THEN [size |-> 25, spread |-> 100]
        ELSE IF left <= 1080 THEN [size |-> 50, spread |-> 100]
        ELSE IF left <= SizeDownStart THEN [size |-> 75, spread |-> 100]
        ELSE [size |-> 100, spread |-> 100]

-----------------------------------------------------------------------------
\* record_trade: a trade above the mid is a buyer's, below it a seller's.
TradeSeen ==
    /\ Len(flow) < MaxFlow
    /\ \E way \in {1, -1} : flow' = Append(flow, <<minute, way>>)
    /\ UNCHANGED <<minute, signal, quoting>>

Recent == SelectSeq(flow, LAMBDA t : t[1] >= minute - FlowWindow)

\* current_signal
FlowSignalled ==
    LET n == Len(Recent)
        net == FoldLeft(LAMBDA sum, t : sum + t[2], 0, Recent)
    IN  IF n >= MinTrades /\ n > 0 /\ 10 * Away(net) >= 7 * n
        THEN [side |-> IF net > 0 THEN "ask" ELSE "bid", until |-> minute + FlowCooldown]
        ELSE IF signal # NoSignal /\ minute < signal.until THEN signal
        ELSE NoSignal

-----------------------------------------------------------------------------
\* compute_quotes, strike by strike.
Up(a, b) == IF a < b THEN b ELSE a
Down(a, b) == IF a < b THEN a ELSE b
InBand(p) == Up(1, Down(99, p))
MakerFee == 1   \* at every price: 1.75 % of p (1 - p), rounded up to a cent

\* round() of n hundredths: halves go to the even number.
Hundredth(n) ==
    LET q == n \div 100  r == n % 100
    IN  IF r > 50 \/ (r = 50 /\ q % 2 = 1) THEN q + 1 ELSE q

HalfSpread(gate) == Up(MinHalf, Hundredth(MinHalf * gate.spread))

\* A cent inside the book's best, within the half-spread bounds of the fair
\* value; the inventory moves both sides.
RawBid(half, fair, top) == IF top[1] > 0 /\ top[2] < 100
                     THEN Up(Down(top[1] + 1, fair - half), fair - MaxHalf)
                     ELSE fair - half
RawAsk(half, fair, top) == IF top[1] > 0 /\ top[2] < 100
                     THEN Down(Up(top[2] - 1, fair + half), fair + MaxHalf)
                     ELSE fair + half

\* Never through the book.
Uncrossed(p, top) ==
    [bid |-> IF p.bid >= top[2] THEN top[2] - 1 ELSE p.bid,
     ask |-> IF p.ask <= top[1] THEN top[1] + 1 ELSE p.ask]

\* Mutant of NoDearer: the comparison is the wrong way round.
NoDearerReversed(p, lower) ==
    [bid |-> Max({p.bid} \cup {q.bid : q \in lower}), ask |-> Max({p.ask} \cup {q.ask : q \in lower})]

\* Nothing at a higher strike is dearer than at any lower one that is quoted.
NoDearer(p, lower) ==
    [bid |-> Min({p.bid} \cup {q.bid : q \in lower}), ask |-> Min({p.ask} \cup {q.ask : q \in lower})]

Usable(p) == p.bid < p.ask /\ p.bid >= 1 /\ p.ask <= 99

NoPrice == [bid |-> 0, ask |-> 0]

\* The prices for a strike, given those of the lower strikes that are quoted.
Priced(half, fair, top, skew, lower) ==
    LET raw == [bid |-> InBand(RawBid(half, fair, top) - skew), ask |-> InBand(RawAsk(half, fair, top) - skew)]
        clear == Uncrossed(raw, top)
        final == NoDearer(clear, lower)
    IN  IF /\ fair \in 1 .. 99 /\ raw.bid < raw.ask
           /\ Usable(clear) /\ clear.ask - clear.bid > 2 * MakerFee + FeeThreshold
           /\ Usable(final)
        THEN final ELSE NoPrice

\* placed_bids and placed_asks before this strike.
Below(at, k) == {at[j] : j \in {i \in Strikes : i < k}} \ {NoPrice}

\* All strikes, in their order.
PricedAll(half, fairs, tops, skews) ==
    LET at[k \in Strikes] == Priced(half, fairs[k], tops[k], skews[k], Below(at, k))
    IN  at

\* A cycle: gate, signal, and a quote per side that the signal does not withdraw.
\* A breach of the risk gate cancels everything (GrainBot has it).
GrainCycle ==
    /\ flow' = Recent
    /\ signal' = FlowSignalled
    /\ LET gate == ReleaseGate
           size == Up(1, Hundredth(BaseSize * gate.size))
           Kept(side, p) == IF signal'.side = side THEN 0 ELSE p
       IN  IF gate.size = 0
           THEN quoting' = [k \in Strikes |-> Nothing]
           ELSE \E fairs \in [Strikes -> Survivals], tops \in [Strikes -> Tops],
                   skews \in [Strikes -> Skews] :
                  /\ \A j, k \in Strikes : j < k => fairs[k] <= fairs[j]
                  /\ LET at == PricedAll(HalfSpread(gate), fairs, tops, skews)
                     IN  quoting' = [k \in Strikes |-> IF at[k] = NoPrice THEN Nothing ELSE
                            [bid |-> Kept("bid", at[k].bid), ask |-> Kept("ask", at[k].ask),
                             size |-> size]]
    /\ UNCHANGED minute

\* Time passes; what the last cycle placed is cancelled when the next begins.
TimePasses ==
    /\ minute' \in {t \in LookTimes : t > minute}
    /\ quoting' = [k \in Strikes |-> Nothing]
    /\ UNCHANGED <<flow, signal>>

GrainQuotesNext == TradeSeen \/ GrainCycle \/ TimePasses

GrainQuotesSpec == GrainQuotesInit /\ [][GrainQuotesNext]_grainQuoteVars

-----------------------------------------------------------------------------
\* What is quoted gives no one a riskless profit against the bot: a contract at
\* a lower strike pays whenever one at a higher strike does, so none may be
\* offered for as little as is bid for one above, whatever the books show and
\* however the inventories skew single strikes.
NoArbitrage ==
    \A j, k \in Strikes : j <= k /\ quoting[j].ask > 0 => quoting[k].bid < quoting[j].ask
=============================================================================
