---------------------------- MODULE LipModeQuote ----------------------------
(***************************************************************************)
(* How the earlier LIP bot prices one strike (deploy/lip_mode.py,          *)
(* _process_single_strike_impl): a price per side from the best price of   *)
(* the others and the fair value, the sticky machine's say, the clamps, and *)
(* whether the price it has is left alone.  Orders are placed as wanted;   *)
(* LipMode has what can go wrong with that.                                *)
(***************************************************************************)
EXTENDS Integers, FiniteSets

CONSTANTS
    ModeHalfSpread,   \* max_half_spread_cents
    MaxDist,          \* max_distance_from_best
    ToxicFactor,      \* toxic_spread_multiplier
    ModeTolerance,    \* theo_tolerance
    MachineDist,      \* sticky min_distance_from_theo
    ModeFairs,        \* fair values in cents
    ModeBests,        \* best bids of others; their best asks are 100 - these
    MachineSays       \* prices the sticky machine may answer

ASSUME ModeQuoteAssumption ==
    /\ {ModeHalfSpread, MaxDist, ModeTolerance, MachineDist} \subseteq Nat
    /\ ToxicFactor \in Nat \ {0}
    /\ ModeFairs \subseteq 0 .. 100 /\ ModeBests \subseteq 0 .. 99
    /\ MachineSays \subseteq 1 .. 99

VARIABLES
    posted,   \* LIPMarketMaker._resting: bid_px, ask_px, 0 for none
    look      \* history: what the last look knew and did

modeQuoteVars == <<posted, look>>

ModeQuoteInit ==
    /\ posted = [bid |-> 0, ask |-> 0]
    /\ look = [fair |-> 50, refreshed |-> FALSE, machine |-> FALSE]

Floor(a, b) == IF a < b THEN a ELSE b
Ceil(a, b) == IF a < b THEN b ELSE a
OnScale(p) == Ceil(1, Floor(99, p))

\* Far from fair: more than 10 cents, or 30 % of what the side is worth.
Desert(gap, worth) == gap > 10 \/ 10 * gap > 3 * Ceil(worth, 1)

Dist(a, b) == IF a < b THEN b - a ELSE a - b

BidDesert(fair, best) == best > 0 /\ (Dist(fair, best) > 10
                                      \/ (fair > 0 /\ Desert(Dist(fair, best), fair)))
AskDesert(fair, best) == best < 100 /\ (Dist(fair, best) > 10
                                        \/ (fair > 0 /\ Desert(Dist(fair, best), 100 - fair)))

\* crowded: too many contracts are ahead of the price to earn anything there.
BidWanted(fair, best, dist, crowded) ==
    IF crowded THEN best
    ELSE IF best <= 0 THEN fair - ModeHalfSpread
    ELSE IF BidDesert(fair, best) THEN best + 1
    ELSE IF fair >= 97 THEN best
    ELSE best - dist

AskWanted(fair, best, dist, crowded) ==
    IF crowded THEN best
    ELSE IF best >= 100 THEN fair + ModeHalfSpread
    ELSE IF AskDesert(fair, best) THEN best - 1
    ELSE IF fair <= 3 \/ fair >= 97 THEN best
    ELSE best + dist

\* Mutant of Capped: in a desert there is no cap.
CappedOutsideDeserts(fair, bid, ask) ==
    [bid |-> IF Dist(fair, bid) > 10 THEN bid ELSE Floor(bid, fair - 1 + ModeTolerance),
     ask |-> IF Dist(fair, ask) > 10 THEN ask ELSE Ceil(ask, fair + 1 - ModeTolerance)]

Capped(fair, bid, ask) ==
    [bid |-> Floor(bid, fair - 1 + ModeTolerance),
     ask |-> Ceil(ask, fair + 1 - ModeTolerance)]

\* The machine has a say away from the ends of the scale.
MachineApplies(fair) == MachineDist <= fair /\ fair <= 100 - MachineDist

\* What is to be quoted and which sides are in cooldown: the machine's answer, or
\* the natural prices.
Answers(asked, fair, natural) ==
    IF asked /\ MachineApplies(fair)
    THEN {[bid |-> IF "bid" \in skip THEN natural.bid ELSE b,
           ask |-> IF "ask" \in skip THEN natural.ask ELSE a, skip |-> skip] :
              b \in MachineSays, a \in MachineSays, skip \in SUBSET {"bid", "ask"}}
    ELSE {[bid |-> natural.bid, ask |-> natural.ask, skip |-> {}]}

\* Onto the scale; if the sides meet, around the fair value instead.
Clamped2(fair, p) ==
    LET bid == OnScale(p.bid)  ask == OnScale(p.ask)
    IN  IF bid < ask THEN [bid |-> bid, ask |-> ask]
        ELSE [bid |-> OnScale(fair - 1), ask |-> OnScale(fair + 1)]

\* A posted price that still earns a quarter is left alone until the refresh.
BidEarns(best, buried) == posted.bid > 0 /\ best > 0 /\ ~buried /\ best - posted.bid <= 2
AskEarns(best, buried) == posted.ask > 0 /\ best < 100 /\ ~buried /\ posted.ask - best <= 2

\* One look at the strike.
ModeLook ==
    \E fair \in ModeFairs, bestBid \in ModeBests, bestNo \in ModeBests,
       toxic \in BOOLEAN, crowded \in BOOLEAN, buried \in BOOLEAN, refresh \in BOOLEAN,
       asked \in BOOLEAN :
    LET bestAsk == IF bestNo = 0 THEN 100 ELSE 100 - bestNo
        dist == IF toxic THEN MaxDist * ToxicFactor ELSE MaxDist
        natural == Capped(fair, BidWanted(fair, bestBid, dist, crowded),
                                AskWanted(fair, bestAsk, dist, crowded))
    IN  \E wanted \in Answers(asked, fair, natural) :
        LET final == Clamped2(fair, wanted)  skip == wanted.skip
        IN  /\ look' = [fair |-> fair, refreshed |-> refresh,
                        machine |-> asked /\ MachineApplies(fair)]
            /\ IF final.bid >= final.ask /\ skip = {}
               THEN UNCHANGED posted
               ELSE posted' =
                 [bid |-> IF "bid" \in skip THEN 0
                          ELSE IF refresh \/ ~BidEarns(bestBid, buried) THEN final.bid
                          ELSE posted.bid,
                  ask |-> IF "ask" \in skip THEN 0
                          ELSE IF refresh \/ ~AskEarns(bestAsk, buried) THEN final.ask
                          ELSE posted.ask]

ModeQuoteNext == ModeLook

-----------------------------------------------------------------------------
\* Anti-spoofing: after a look that refreshes, and without the machine, neither
\* side is posted beyond the fair value by more than the tolerance, in deserts
\* too, whatever was posted before; the ends of the scale excepted, where the bot
\* may also find no room for two prices and leave what it has.
RefreshedWithinTolerance ==
    (look.refreshed /\ ~look.machine /\ look.fair \in 1 .. 99) =>
        /\ posted.bid <= Ceil(1, look.fair - 1 + ModeTolerance)
        /\ posted.ask # 0 => posted.ask >= Floor(99, look.fair + 1 - ModeTolerance)
=============================================================================
