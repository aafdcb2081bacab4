---------------------------- MODULE StickyDefense ----------------------------
(***************************************************************************)
(* StickyDefenseQuoting and its state machine: one side of one ticker.     *)
(* When the quote is undercut the machine races to a price well inside the *)
(* best one, holds it, and gives it up slowly and only after a calm spell, *)
(* so that whoever drags the quote along gains nothing by pulling back.    *)
(* Prices and fair values are whole cents, a cycle takes one unit of time, *)
(* and what the base strategy and the book say is any input.               *)
(***************************************************************************)
EXTENDS Integers, Sequences, FiniteSets

CONSTANTS
    JumpCents,       \* desert_jump_cents
    StickyDist,      \* min_distance_from_theo, for theos of full confidence
    WideDist,        \* the same, widened for a theo of low confidence
    CalmLooks,       \* snapshots_at_1x_required
    TheoDrift,       \* theo_stability_cents
    TheoSpread,      \* theo_range_cents
    RelaxSteps,      \* relax_total_steps
    MaxAggressive,   \* max_aggressive_duration_seconds
    CooldownTime,    \* cooldown_seconds
    StickyPrices,    \* prices the base strategy and the book may have
    StickyFairs      \* fair values

\* StickyConfig.
StickyConfig ==
    /\ JumpCents \in Nat /\ StickyDist \in Nat /\ WideDist \in Nat
    /\ StickyDist <= WideDist
    /\ {CalmLooks, RelaxSteps, MaxAggressive, CooldownTime} \subseteq Nat \ {0}
    /\ TheoDrift \in Nat /\ TheoSpread \in Nat
    /\ StickyPrices \subseteq 1 .. 99 /\ StickyFairs \subseteq 0 .. 100

ASSUME StickyAssumption == StickyConfig

VARIABLES
    sideOf,    \* the side this is about
    sticky,    \* SideState
    ours,      \* the price that rests, 0 for none
    calm       \* history: looks at the best price since the last race began

stickyVars == <<sideOf, sticky, ours, calm>>

\* age and cool are the time since the race began and until the cooldown ends.
StickyInit ==
    /\ sideOf \in {"bid", "ask"}
    /\ sticky = [state |-> "NORMAL", price |-> 0, age |-> 0, anchor |-> 0,
                 theos |-> <<>>, looks |-> 0, gap |-> 0, step |-> 0, cool |-> 0]
    /\ ours = 0
    /\ calm = 0

Clamped(p) == IF p < 1 THEN 1 ELSE IF p > 99 THEN 99 ELSE p
Lesser(a, b) == IF a < b THEN a ELSE b
Greater(a, b) == IF a > b THEN a ELSE b
Magnitude(n) == IF n < 0 THEN -n ELSE n

\* The way back from the market: up for an ask, down for a bid.
Back(side) == IF side = "ask" THEN 1 ELSE -1

\* round() of n / d: halves go to the even number.
RoundedDiv(n, d) ==
    LET q == n \div d  r == n % d
    IN  IF 2 * r < d \/ (2 * r = d /\ q % 2 = 0) THEN q ELSE q + 1

\* The price of a race: inside the best, but not too near the fair value.
RacePrice(side, best, fair, dist) ==
    Clamped(IF side = "ask" THEN Greater(best - JumpCents, fair + dist)
                            ELSE Lesser(best + JumpCents, fair - dist))

Undercut(s, side, natural) == (natural - s.price) * Back(side) < 0

\* Mutant of Raced: a race that begins again keeps the looks of the last one.
RacedKeepsLooks(s, side, best, fair, dist) ==
    LET begins == s.state \in {"NORMAL", "RELAXING"}
        p == RacePrice(side, best, fair, dist)
    IN  IF begins THEN [s EXCEPT !.state = "AGGRESSIVE", !.age = 0, !.anchor = fair,
                                 !.step = 0, !.price = p]
        ELSE [s EXCEPT !.price = p]

\* Undercut: the race begins, or goes on at a new price.
Raced(s, side, best, fair, dist) ==
    LET begins == s.state \in {"NORMAL", "RELAXING"}
        p == RacePrice(side, best, fair, dist)
    IN  IF begins THEN [s EXCEPT !.state = "AGGRESSIVE", !.age = 0, !.anchor = fair,
                                 !.theos = <<>>, !.looks = 0, !.step = 0, !.price = p]
        ELSE [s EXCEPT !.price = p]

Spread(q) == LET vs == {q[k] : k \in 1 .. Len(q)}
             IN  (CHOOSE v \in vs : \A w \in vs : w <= v)
                    - (CHOOSE v \in vs : \A w \in vs : v <= w)

\* Not undercut in this cycle: one more look, and perhaps enough of them.
QuoteLooked(s, best, resting, fair) ==
    LET grown == Append(s.theos, fair)
        kept == IF Len(grown) > CalmLooks THEN Tail(grown) ELSE grown
    IN  [s EXCEPT !.looks = IF resting > 0 /\ resting = best THEN @ + 1 ELSE 0,
                  !.theos = kept]

MayRelax(s, fair) ==
    /\ s.looks >= CalmLooks
    /\ Len(s.theos) >= CalmLooks
    /\ Magnitude(fair - s.anchor) < TheoDrift
    /\ Spread(s.theos) < TheoSpread

ToNormal(s, natural) == [s EXCEPT !.state = "NORMAL", !.price = natural]

\* One step back towards the natural price, which is the last if it arrives or
\* if the steps are used up.
Relaxed(s, side, natural) ==
    LET step == s.step + 1
        gap == (natural - s.price) * Back(side)
        remaining == Greater(1, RelaxSteps - step + 1)
        \* max(min_step, ideal_step, 1): gap0 / RelaxSteps, gap / remaining, 1
        pace == IF s.gap * remaining >= gap * RelaxSteps
                THEN IF s.gap >= RelaxSteps THEN RoundedDiv(s.gap, RelaxSteps) ELSE 1
                ELSE IF gap >= remaining THEN RoundedDiv(gap, remaining) ELSE 1
        there == s.price + pace * Back(side)
        p == Clamped(IF side = "ask" THEN Lesser(there, natural)
                                     ELSE Greater(there, natural))
    IN  IF gap <= 0 THEN [ToNormal(s, natural) EXCEPT !.step = step]
        ELSE [s EXCEPT !.step = step, !.price = p,
                       !.state = IF step >= RelaxSteps \/ p = natural THEN "NORMAL"
                                 ELSE "RELAXING"]

\* The end of a race: too long, given up, or still on.
Held(s, side, natural, fair) ==
    LET gap == (natural - s.price) * Back(side)
    IN  IF ~MayRelax(s, fair) THEN s
        ELSE IF gap <= 0 THEN ToNormal(s, natural)
        ELSE Relaxed([s EXCEPT !.state = "RELAXING", !.gap = gap, !.step = 0],
                     side, natural)

\* StickyQuoter.compute.
Computed(s0, side, natural, best, resting, fair, dist) ==
    LET s == IF s0.price = 0 /\ resting > 0 THEN [s0 EXCEPT !.price = resting] ELSE s0
    IN  IF s.price = 0 THEN [s EXCEPT !.price = natural]
        ELSE IF s.state = "COOLDOWN"
        THEN IF s.cool = 0 THEN ToNormal(s, natural) ELSE s
        ELSE IF Undercut(s, side, natural) THEN Raced(s, side, best, fair, dist)
        ELSE IF s.state = "AGGRESSIVE" /\ s.age > MaxAggressive
        THEN [s EXCEPT !.state = "COOLDOWN", !.cool = CooldownTime]
        ELSE IF s.state = "AGGRESSIVE"
        THEN Held(QuoteLooked(s, best, resting, fair), side, natural, fair)
        ELSE IF s.state = "RELAXING" THEN Relaxed(s, side, natural)
        ELSE ToNormal(s, natural)

\* Time since the last cycle; age stops one past its limit.
Aged(s) == [s EXCEPT !.age = IF s.state = "AGGRESSIVE" THEN Lesser(@ + 1, MaxAggressive + 2)
                             ELSE @,
                     !.cool = IF @ > 0 THEN @ - 1 ELSE 0]

\* Values that the machine does not read again are dropped.
Settled(s) ==
    LET racing == s.state = "AGGRESSIVE"
        walking == s.state = "RELAXING"
    IN  [s EXCEPT !.age = IF racing THEN @ ELSE 0, !.anchor = IF racing THEN @ ELSE 0,
                  !.gap = IF walking THEN @ ELSE 0, !.step = IF walking THEN @ ELSE 0,
                  !.cool = IF s.state = "COOLDOWN" THEN @ ELSE 0]

\* _no_cross: a price that would meet the other side, the book's or our own, is
\* pulled back behind it.
Uncrossed(wanted, other) ==
    IF wanted = 0 THEN 0
    ELSE IF sideOf = "bid" THEN IF wanted >= other THEN Greater(1, other - 1) ELSE wanted
    ELSE IF wanted <= other THEN Lesser(99, other + 1) ELSE wanted

\* What rests by the next cycle: what is wanted (the other side may be empty),
\* what rested before if that could not be changed, or nothing.
Resting(wanted) ==
    ours' \in {wanted, ours, 0} \cup {Uncrossed(wanted, other) : other \in StickyPrices}

\* The best price as compute is given it: a bid of 0, an ask of 99 for none.
BestPrices == StickyPrices \cup {IF sideOf = "bid" THEN 0 ELSE 99}

\* _adjust_side: far from both ends of the scale the machine has a say.
StickyCycle ==
    \E natural \in StickyPrices, best \in BestPrices, fair \in StickyFairs,
       dist \in {StickyDist, WideDist} :
        IF fair < dist \/ fair > 100 - dist
        THEN /\ sticky' = Settled(Aged(sticky))
             /\ Resting(natural)
             /\ UNCHANGED <<sideOf, calm>>
        ELSE LET s == Computed(Aged(sticky), sideOf, natural, best, ours, fair, dist)
             IN  /\ sticky' = Settled(s)
                 /\ Resting(IF s.state = "COOLDOWN" THEN 0 ELSE s.price)
                 /\ calm' = IF sticky.state \in {"NORMAL", "COOLDOWN"}
                               \/ (sticky.state = "RELAXING" /\ s.state = "AGGRESSIVE")
                            THEN 0
                            ELSE IF ours > 0 /\ ours = best /\ calm < CalmLooks
                            THEN calm + 1 ELSE calm
                 /\ UNCHANGED sideOf

\* The runner skips the side, or its base strategy does: the order goes.
StickySkipped ==
    /\ sticky' = Settled(Aged(sticky))
    /\ Resting(0)
    /\ UNCHANGED <<sideOf, calm>>

StickyNext == StickyCycle \/ StickySkipped

-----------------------------------------------------------------------------
\* A race is given up, at once or step by step, only after as many looks at
\* which the quote was the best one as are required, all since that race began,
\* whatever was raced, relaxed and raced again before.
ReleaseEarned ==
    [][(sticky.state = "AGGRESSIVE" /\ sticky'.state \in {"NORMAL", "RELAXING"})
         => calm' >= CalmLooks]_stickyVars
=============================================================================
