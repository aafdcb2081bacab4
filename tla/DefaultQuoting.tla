--------------------------- MODULE DefaultQuoting ---------------------------
(***************************************************************************)
(* DefaultLIPQuoting with the code on both sides of it: how the runner and *)
(* the adapter read the book without the bot's own orders, and how the     *)
(* price decided on reaches the exchange.  Prices are tenths of a cent;    *)
(* the order manager compares and amends in whole cents.  Sizes are equal, *)
(* and per-side overrides are the parameters of the two sides.             *)
(***************************************************************************)
EXTENDS Integers, FiniteSets

CONSTANTS
    HalfSpread,     \* max_half_spread_c
    Behind,         \* max_distance_from_best
    Tolerance,      \* theo_tolerance_c, for each side
    PennyTicks,     \* penny_inside_distance
    TailOnly,       \* max_distance_from_extremes_c, 0 for off
    DesertGap,      \* desert_threshold_c
    BookBids,       \* best bids of others, 0 for none
    BookAsks,       \* their best asks, 1000 for none
    Fairs           \* fair values in cents

QuoteSides == {"bid", "ask"}

\* DefaultLIPQuotingConfig, and the books and fair values of the instance.
QuotingConfig ==
    /\ {HalfSpread, Behind, TailOnly, DesertGap} \subseteq Nat
    /\ PennyTicks \in Nat \ {0}
    /\ Tolerance \in [QuoteSides -> Nat]
    /\ BookBids \subseteq 0 .. 999 /\ BookAsks \subseteq 1 .. 1000
    /\ Fairs \subseteq 0 .. 100

ASSUME QuotingAssumption == QuotingConfig

VARIABLES
    book,     \* the others: best bid, best ask, whether thinner than our size
    quoted,   \* our orders: true price and recorded cents, 0 for none
    turnFair  \* history: the fair value of the last turn

quotingVars == <<book, quoted, turnFair>>

QuotingInit ==
    /\ book = [bid |-> 0, ask |-> 1000, thin |-> FALSE]
    /\ quoted = [s \in QuoteSides |-> [price |-> 0, cents |-> 0]]
    /\ turnFair = 0

Least(S) == CHOOSE x \in S : \A y \in S : x <= y
Most(S) == CHOOSE x \in S : \A y \in S : y <= x
Between(x, low, high) == IF x < low THEN low ELSE IF x > high THEN high ELSE x

\* An ask at p is a bid for No at 1000 - p.
Levels(side) ==
    LET others == IF side = "bid" THEN book.bid ELSE 1000 - book.ask
        own == IF quoted[side].price = 0 THEN 0
               ELSE IF side = "bid" THEN quoted[side].price ELSE 1000 - quoted[side].price
    IN  [others |-> others, own |-> own]

\* _best_excluding_self: at the price our order is recorded at, our size is
\* taken out; anything else on the book counts as somebody else's.
BestOf(side) ==
    LET lv == Levels(side)
        recorded == IF quoted[side].cents = 0 THEN 0
                    ELSE IF side = "bid" THEN quoted[side].cents * 10
                         ELSE 1000 - quoted[side].cents * 10
        counts(p) == \/ p # recorded
                     \/ p = lv.others /\ (p = lv.own \/ ~book.thin)
        seen == {p \in {lv.others, lv.own} \ {0} : counts(p)}
    IN  IF seen = {} THEN 0 ELSE Most(seen)

SeenBid == BestOf("bid")
SeenAsk == IF BestOf("ask") = 0 THEN 1000 ELSE 1000 - BestOf("ask")

Bands == {<<10, 100>>, <<100, 900>>, <<900, 990>>}

\* _infer_tick_schedule, tick_at: a tenth where the band shows one.
TickAt(p) ==
    LET prices == {Levels(s).others : s \in QuoteSides}
                    \cup {Levels(s).own : s \in QuoteSides}
        fine(b) == \E q \in prices : b[1] <= q /\ q < b[2] /\ q % 10 # 0
    IN  IF \E b \in Bands : b[1] <= p /\ p < b[2] /\ fine(b) THEN 1 ELSE 10

\* _is_desert: a gap of more than DesertGap cents or of 30 % of the fair value.
IsDesert(fair, best) ==
    LET gap == IF best > fair THEN best - fair ELSE fair - best
    IN  gap > DesertGap \/ 10 * gap > 3 * (IF fair > 1 THEN fair ELSE 1)

\* The price each mode wants; trust is what the confidence amounts to.
BidAim(fair, trust) ==
    LET best == SeenBid  ask == SeenAsk
        tick == TickAt(IF best > 10 THEN best ELSE 10)
        inside == best + PennyTicks * tick
    IN  IF best = 0 THEN (fair - HalfSpread) * 10
        ELSE IF IsDesert(fair, best \div 10) THEN best + tick
        ELSE IF fair >= 97 THEN best
        ELSE IF trust = "penny"
        THEN IF ask < 1000 /\ ask > best THEN Least({inside, ask - tick}) ELSE inside
        ELSE IF trust = "match" THEN best
        ELSE best - Behind * tick

AskAim(fair, trust) ==
    LET best == SeenAsk  bid == SeenBid
        tick == TickAt(IF best < 999 THEN best ELSE 999)
        inside == best - PennyTicks * tick
    IN  IF best >= 1000 THEN (fair + HalfSpread) * 10
        ELSE IF IsDesert(100 - fair, 100 - best \div 10) THEN best - tick
        ELSE IF fair <= 3 \/ fair >= 97 THEN best
        ELSE IF trust = "penny"
        THEN IF bid > 0 /\ bid < best THEN Most({inside, bid + tick}) ELSE inside
        ELSE IF trust = "match" THEN best
        ELSE best + Behind * tick

BidCap(fair) == (fair - 1 + Tolerance["bid"]) * 10
AskFloor(fair) == (fair + 1 - Tolerance["ask"]) * 10

\* Mutant of BidBound: the cap of the tail-only mode replaces that of the theo.
BidBoundTailOnly(fair, trust) ==
    Between(Least({BidAim(fair, trust), IF TailOnly > 0 THEN TailOnly * 10 ELSE 1000}),
            1, 999)

BidBound(fair, trust) ==
    Between(Least({BidAim(fair, trust), BidCap(fair),
                   IF TailOnly > 0 THEN TailOnly * 10 ELSE 1000}), 1, 999)

AskBound(fair, trust) ==
    Between(Most({AskAim(fair, trust), AskFloor(fair),
                  IF TailOnly > 0 THEN (100 - TailOnly) * 10 ELSE 0}), 1, 999)

\* The no-cross guard against the opposite best.
OffTheBook(side, p) ==
    IF side = "bid" /\ SeenAsk < 1000 /\ p >= SeenAsk
    THEN Most({1, SeenAsk - TickAt(SeenAsk)})
    ELSE IF side = "ask" /\ SeenBid > 0 /\ p <= SeenBid
    THEN Least({999, SeenBid + TickAt(SeenBid)})
    ELSE p

\* A bid is rounded down to its tick, an ask up.
Decided(side, fair, trust) ==
    LET b == IF side = "bid" THEN BidBound(fair, trust) ELSE AskBound(fair, trust)
        t == TickAt(b)
    IN  OffTheBook(side, IF side = "bid" THEN (b \div t) * t ELSE ((b + t - 1) \div t) * t)

Cents(p) == Between((p + 5) \div 10, 1, 99)

SideWanted(fair, trust) ==
    /\ trust # "none"
    /\ ~(SeenBid > 0 /\ SeenAsk < 1000 /\ SeenBid >= SeenAsk)

\* What apply and the adapter make of a decision: nothing if the cents agree;
\* an amend in cents; a new order at the exact price, or in cents if the
\* market refuses tenths; or no order, if the exchange refuses.
Reaches(side, p) ==
    LET cur == quoted[side]
        asWanted == [price |-> IF p % 10 = 0 THEN Cents(p) * 10 ELSE p, cents |-> Cents(p)]
        inCents == [price |-> Cents(p) * 10, cents |-> Cents(p)]
    IN  IF cur.cents = Cents(p) THEN {cur}
        ELSE {asWanted, inCents, [price |-> 0, cents |-> 0]}

\* The runner's turn: both sides are decided on, then sent.
QuoteTicker ==
    /\ \E fair \in Fairs, trust \in {"none", "behind", "match", "penny"} :
         /\ turnFair' = fair
         /\ IF SideWanted(fair, trust)
            THEN \E bid \in Reaches("bid", Decided("bid", fair, trust)),
                    ask \in Reaches("ask", Decided("ask", fair, trust)) :
                   quoted' = [s \in QuoteSides |-> IF s = "bid" THEN bid ELSE ask]
            ELSE quoted' = [s \in QuoteSides |-> [price |-> 0, cents |-> 0]]
    /\ UNCHANGED book

\* External: the others move, and an order of ours is taken.
BookMoves ==
    /\ \/ /\ \E b \in BookBids, a \in BookAsks, thin \in BOOLEAN :
               book' = [bid |-> b, ask |-> a, thin |-> thin]
          /\ UNCHANGED quoted
       \/ /\ \E s \in QuoteSides : quoted' = [quoted EXCEPT ![s] = [price |-> 0, cents |-> 0]]
          /\ UNCHANGED book
    /\ UNCHANGED turnFair

QuotingNext == QuoteTicker \/ BookMoves

-----------------------------------------------------------------------------
\* Anti-spoofing: after a turn nothing rests, in the cents the order manager
\* compares, beyond the turn's fair value and the tolerance, whatever the book
\* shows, how much the theo is trusted, however the price is pulled off the book
\* and rounded, and whether an order was kept, amended or placed anew; the ends
\* of the scale excepted.
WithinTolerance ==
    \A s \in QuoteSides : quoted[s].cents # 0 =>
        LET cents == quoted[s].cents * 10
        IN  IF s = "bid" THEN cents <= Most({10, BidCap(turnFair)})
            ELSE cents >= Least({990, AskFloor(turnFair)})
=============================================================================
