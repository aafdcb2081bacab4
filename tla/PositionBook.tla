---------------------------- MODULE PositionBook ----------------------------
(***************************************************************************)
(* The grain bot's position store (state/positions.py) and its risk gate   *)
(* (engine/risk.py): fills become signed positions with a cost basis, each *)
(* fill counts once, and caps are checked on what results.  Money is in    *)
(* cents; the thread lock makes every operation one step.                  *)
(***************************************************************************)
EXTENDS Integers, FiniteSets, FiniteSetsExt, Functions

CONSTANTS
    Markets,        \* half-line markets
    EventOf,        \* market -> its event
    FillIds,        \* fills the exchange reports, each any number of times
    FillCounts,     \* contracts of a fill
    FillPrices,     \* prices of a fill
    TieUp(_, _, _), \* does a closed cost that ends in half a cent round up
    AggregateCap, EventCap, LossCap   \* RiskLimits

\* RiskLimits, and the fills of the instance.
RiskLimits ==
    /\ IsFiniteSet(Markets)
    /\ FillCounts \subseteq Nat \ {0}
    /\ FillPrices \subseteq 1 .. 99
    /\ {AggregateCap, EventCap, LossCap} \subseteq Nat \ {0}

ASSUME PositionAssumption == RiskLimits

VARIABLES
    holdings,    \* market -> MarketPosition
    seenFills,   \* _seen_fill_ids
    cash         \* history: what the fills paid and cost so far

positionVars == <<holdings, seenFills, cash>>

Flat == [qty |-> 0, cost |-> 0, realized |-> 0]

PositionInit ==
    /\ holdings = [m \in Markets |-> Flat]
    /\ seenFills = {}
    /\ cash = 0

Size(n) == IF n < 0 THEN -n ELSE n
Larger(a, b) == IF a < b THEN b ELSE a

\* int(round(cost / size * n)): the nearest cent.  The quotient is a float: a half
\* goes to the even neighbour only where the quotient is exact.
ClosedCost(cost, n, size) ==
    LET q == (cost * n) \div size  twice == 2 * ((cost * n) % size)
    IN  IF twice < size \/ (twice = size /\ ~TieUp(cost, n, size)) THEN q ELSE q + 1

\* As where every quotient is exact: for TLC's instances.
TieToEven(cost, n, size) == ((cost * n) \div size) % 2 = 1

\* MarketPosition.max_loss_cents
MaxLoss(p) == IF p.qty > 0 THEN p.cost
              ELSE IF p.qty < 0 THEN 100 * Size(p.qty) - Size(p.cost) ELSE 0

Opened(p, delta, price) == [p EXCEPT !.qty = delta, !.cost = Size(delta) * price]
Increased(p, delta, price) == [p EXCEPT !.qty = @ + delta, !.cost = @ + Size(delta) * price]

\* What closing n contracts that have cost c makes, at this price.
Gain(p, n, c, price) == IF p.qty > 0 THEN n * price - c ELSE c - n * price

Reduced(p, delta, price) ==
    LET n == Size(delta)  c == ClosedCost(p.cost, n, Size(p.qty))
    IN  [qty |-> p.qty + delta, realized |-> p.realized + Gain(p, n, c, price),
         cost |-> IF p.qty + delta = 0 THEN 0 ELSE p.cost - c]

\* Mutant of Flipped: the remainder is opened at the cost of all that was traded.
FlippedWhole(p, delta, price) ==
    [qty |-> p.qty + delta, realized |-> p.realized + Gain(p, Size(p.qty), p.cost, price),
     cost |-> Size(delta) * price]

Flipped(p, delta, price) ==
    [qty |-> p.qty + delta, realized |-> p.realized + Gain(p, Size(p.qty), p.cost, price),
     cost |-> (Size(delta) - Size(p.qty)) * price]

\* _apply_delta
Applied(p, delta, price) ==
    IF p.qty = 0 THEN Opened(p, delta, price)
    ELSE IF (p.qty > 0) = (delta > 0) THEN Increased(p, delta, price)
    ELSE IF Size(delta) <= Size(p.qty) THEN Reduced(p, delta, price)
    ELSE Flipped(p, delta, price)

\* A fill in terms of Yes contracts; price is that of the side it names.
YesDelta(f) == IF (f.side = "yes") = (f.action = "buy") THEN f.count ELSE -f.count
YesPrice(f) == IF f.side = "yes" THEN f.price ELSE 100 - f.price

Store == [held |-> holdings, seen |-> seenFills, cash |-> cash]

\* apply_fill: the store with this fill in it.
Recorded(b, f) ==
    IF f.id \in b.seen THEN b
    ELSE [held |-> [b.held EXCEPT ![f.mkt] = Applied(@, YesDelta(f), YesPrice(f))],
          seen |-> b.seen \cup {f.id}, cash |-> b.cash - YesDelta(f) * YesPrice(f)]

StoreBecomes(b) == holdings' = b.held /\ seenFills' = b.seen /\ cash' = b.cash

Reports == [id : FillIds, mkt : Markets, side : {"yes", "no"}, action : {"buy", "sell"},
            count : FillCounts, price : FillPrices]

FillReported == \E f \in Reports : StoreBecomes(Recorded(Store, f))

PositionNext == FillReported

PositionSpec == PositionInit /\ [][PositionNext]_positionVars

\* All half-line markets belong to one event.
OneGrainEvent == [m \in Markets |-> "e1"]

-----------------------------------------------------------------------------
\* Exposures and the caps.
Aggregate == SumFunction([m \in Markets |-> holdings[m].qty])
EventExposure(e) ==
    SumFunction([m \in Markets |-> IF EventOf[m] = e THEN holdings[m].qty ELSE 0])
TotalLoss == SumFunction([m \in Markets |-> MaxLoss(holdings[m])])

\* check_post_trade
Breached == \/ Size(Aggregate) > AggregateCap
            \/ \E m \in Markets : Size(EventExposure(EventOf[m])) > EventCap
            \/ TotalLoss > LossCap

\* _estimate_additional_max_loss
AddedLoss(p, delta, price) ==
    IF p.qty = 0 THEN Size(delta) * IF delta > 0 THEN price ELSE 100 - price
    ELSE IF p.qty > 0 /\ delta > 0 THEN Size(delta) * price
    ELSE IF p.qty < 0 /\ delta < 0
    THEN Larger(0, 100 * Size(p.qty + delta) - (p.cost + Size(delta) * (100 - price))
                     - MaxLoss(p))
    ELSE 0

\* check_pre_trade lets an order through.
PreTradePasses(m, delta, price) ==
    /\ Size(Aggregate + delta) <= AggregateCap
    /\ Size(EventExposure(EventOf[m]) + delta) <= EventCap
    /\ TotalLoss + AddedLoss(holdings[m], delta, price) <= LossCap

-----------------------------------------------------------------------------
\* What a position has brought in so far, less what is invested in it.
Balance(p) == p.realized + IF p.qty > 0 THEN -p.cost ELSE p.cost

\* The worst case of all positions once this order is filled.
LossAfter(m, delta, price) ==
    TotalLoss - MaxLoss(holdings[m]) + MaxLoss(Applied(holdings[m], delta, price))

\* The order adds to the position, or opens one.
Adds(m, delta) == holdings[m].qty = 0 \/ (holdings[m].qty > 0) = (delta > 0)

\* By how much the estimate may fall short: what is added to a short is taken for
\* sold at 100 - price.
Underestimate(m, delta, price) ==
    IF holdings[m].qty < 0 THEN Larger(0, Size(delta) * (100 - 2 * price)) ELSE 0

\* Whatever is bought, sold, closed in parts and flipped, with roundings: the
\* cash that went in and out is what was realised less what is invested (or
\* plus what a short has received), a position's worst case is between nothing
\* and its whole payout, and an order that adds to a position and passes the
\* gate takes the worst case of all of them no further beyond the cap than the
\* estimate for a short is too low.
BooksBalance ==
    /\ cash = SumFunction([m \in Markets |-> Balance(holdings[m])])
    /\ \A m \in Markets : MaxLoss(holdings[m]) \in 0 .. 100 * Size(holdings[m].qty)
    /\ \A m \in Markets, n \in FillCounts, way \in {-1, 1}, price \in FillPrices :
         Adds(m, way * n) /\ PreTradePasses(m, way * n, price) =>
             LossAfter(m, way * n, price) <= LossCap + Underestimate(m, way * n, price)
=============================================================================
