------------------------------- MODULE EventGrid -------------------------------
(***************************************************************************)
(* The bucket grid of an event (feeds/kalshi/events.py): the markets of    *)
(* an answer, in any order, are sorted and must divide the prices among    *)
(* them, from a lower tail to an upper tail.                               *)
(***************************************************************************)
EXTENDS Integers, Sequences, FiniteSets, SequencesExt, Functions

CONSTANTS
    StrikePrices,  \* floor_strike and cap_strike
    MostMarkets    \* bound: markets of an event

ASSUME GridAssumption ==
    StrikePrices \subseteq Nat \ {0} /\ StrikePrices # {} /\ MostMarkets \in Nat

VARIABLES
    offered,  \* the markets of the answer
    grid      \* the grid built from them, or that it was refused

gridVars == <<offered, grid>>

NoStrike == 0
Bucket == [lower : StrikePrices \cup {NoStrike}, upper : StrikePrices \cup {NoStrike}]
Waiting == [state |-> "waiting", buckets |-> <<>>]

GridInit ==
    /\ offered \in BoundedSeq(Bucket, MostMarkets)
    /\ grid = Waiting

\* _sort_key: the lower tail, the interior, the upper tail.
Rank(b) == IF b.lower = NoStrike THEN 0 ELSE IF b.upper = NoStrike THEN 2 ELSE 1

Before(b, c) == Rank(b) < Rank(c) \/ (Rank(b) = Rank(c) /\ b.lower < c.lower)

\* list.sort: buckets that compare equal may come in any order.
InOrder(buckets) == \A i, j \in DOMAIN buckets : i < j => ~Before(buckets[j], buckets[i])
Arrangements(buckets) ==
    {[i \in DOMAIN buckets |-> buckets[p[i]]] : p \in Bijection(DOMAIN buckets, DOMAIN buckets)}

\* Mutant of Contiguous: a bucket may begin inside the one before it.
ContiguousOrOver(buckets) ==
    \A i \in 1 .. Len(buckets) - 1 :
        /\ buckets[i].upper # NoStrike /\ buckets[i + 1].lower # NoStrike
        /\ buckets[i].upper >= buckets[i + 1].lower

Contiguous(buckets) ==
    \A i \in 1 .. Len(buckets) - 1 :
        /\ buckets[i].upper # NoStrike /\ buckets[i + 1].lower # NoStrike
        /\ buckets[i].upper = buckets[i + 1].lower

\* _validate_mece.
GridAccepted(buckets) ==
    /\ Len(buckets) >= 2
    /\ Head(buckets).lower = NoStrike /\ Head(buckets).upper # NoStrike
    /\ Last(buckets).upper = NoStrike /\ Last(buckets).lower # NoStrike
    /\ Contiguous(buckets)
    /\ \A i \in 2 .. Len(buckets) - 1 : buckets[i].lower < buckets[i].upper

\* build_bucket_grid in pull_event.
GridBuilt ==
    /\ grid = Waiting
    /\ \E sorted \in Arrangements(offered) :
         /\ InOrder(sorted)
         /\ grid' = IF GridAccepted(sorted) THEN [state |-> "built", buckets |-> sorted]
                    ELSE [state |-> "refused", buckets |-> <<>>]
    /\ UNCHANGED offered

GridNext == GridBuilt

GridSpec == GridInit /\ [][GridNext]_gridVars

\* bucket_for_price: the first bucket that holds the price, from its lower
\* strike on and below its upper.
Holds(b, price) == /\ b.lower = NoStrike \/ b.lower <= price
                   /\ b.upper = NoStrike \/ price < b.upper

-----------------------------------------------------------------------------
Holding(price) == {i \in DOMAIN offered : Holds(offered[i], price)}
SamplePrices == {p - 1 : p \in StrikePrices} \cup StrikePrices
Divides == \A p \in SamplePrices : Cardinality(Holding(p)) = 1
NoneEmpty == \A i \in DOMAIN offered :
    Rank(offered[i]) = 1 => offered[i].lower < offered[i].upper

\* In whatever order the markets come, a grid is accepted only if every price
\* lies in exactly one bucket, and one of several buckets, none of them empty,
\* that does so is never refused.
GridPartitions ==
    /\ grid.state = "built" => Divides
    /\ grid.state = "refused" => ~(Divides /\ NoneEmpty /\ Len(offered) >= 2)
=============================================================================
