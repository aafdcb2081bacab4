----------------------------- MODULE CycleLedger -----------------------------
(***************************************************************************)
(* What the LIP runner's cycle keeps account of: fills, taken from changes *)
(* of the positions it reads (MarkoutTracker), and the rewards its resting *)
(* orders earn (IncentiveCache, compute_strike_score, EarningsAccrual).    *)
(*                                                                         *)
(* One price ladder per side in cents.  Earnings are counted in percent of *)
(* one cycle's pool.                                                       *)
(***************************************************************************)
EXTENDS Integers, Sequences, FiniteSets, FiniteSetsExt, Functions

CONSTANTS
    Strips,      \* the markets that are traded
    OtherBooks,  \* what others bid: a pair of ladders, for yes and for no
    OwnBids,     \* own orders: a pair of prices (yes, no), 0 for none
    OwnLot,      \* contracts of an own order
    TargetSize,  \* contracts a side needs to qualify
    Discount,    \* discount_factor ** distance, as weights: cents -> weight
    MaxTurns,    \* bound: cycles
    MaxMoves     \* bound: executions

\* What _coerce_levels makes of a side: levels of a price and a size.
IsLadder(ladder) ==
    /\ IsFiniteSet(ladder)
    /\ \A l \in ladder : l[1] \in 1 .. 99 /\ l[2] \in Nat \ {0}

ASSUME LedgerAssumption ==
    /\ \A book \in OtherBooks : IsLadder(book[1]) /\ IsLadder(book[2])
    /\ OwnBids \subseteq (0 .. 99) \X (0 .. 99)
    /\ OwnLot \in Nat \ {0} /\ TargetSize \in Nat \ {0}
    /\ Discount \in [0 .. 98 -> Nat]
    /\ MaxTurns \in Nat /\ MaxMoves \in Nat

VARIABLES
    turn,       \* where the cycle is, and its number
    held,       \* the account's positions
    believed,   \* _position_cache
    others,     \* what others bid now
    own,        \* the resting orders, as the manager has them
    entries,    \* _cycle_orderbooks: market -> the book that was read
    before,     \* history: the books of the last cycle that read any
    fills,      \* MarkoutTracker._fills
    missing,    \* history: changes seen that could have been recorded, but were not
    paying,     \* markets with a live program
    programs,   \* IncentiveCache._snapshot
    earned,     \* EarningsAccrual: market -> earnings
    accruals    \* history: market -> cycles since it came up

ledgerVars == <<turn, held, believed, others, own, entries, before, fills,
                missing, paying, programs, earned, accruals>>

NoEntry == <<>>
Nothing == [t \in Strips |-> NoEntry]
Zero == [t \in Strips |-> 0]

LedgerInit ==
    /\ turn = [at |-> "down", n |-> 0, left |-> {}]
    /\ held = Zero /\ believed = Zero
    /\ others \in [Strips -> OtherBooks]
    /\ own = [t \in Strips |-> <<0, 0>>]
    /\ entries = Nothing /\ before = Nothing
    /\ fills = {} /\ missing = {}
    /\ paying = Strips /\ programs = {}
    /\ earned = Zero /\ accruals = Zero

-----------------------------------------------------------------------------
(* compute_strike_score.                                                   *)

SizeFrom(ladder, price) == SumFunction([l \in ladder |-> IF l[1] >= price THEN l[2] ELSE 0])

Prices(ladder) == {l[1] : l \in ladder}

\* _qualifying_walkdown: the reference is below 99, and the walk down from it
\* comes to the target size.
Qualifies(ladder) ==
    /\ ladder # {} /\ Max(Prices(ladder)) < 99
    /\ SizeFrom(ladder, 0) >= TargetSize

Threshold(ladder) == Max({p \in Prices(ladder) : SizeFrom(ladder, p) >= TargetSize})

Weight(ladder, price) ==
    LET distance == Max(Prices(ladder)) - price
    IN  IF distance < 0 THEN 0 ELSE Discount[distance]

SideTotal(ladder) ==
    SumFunction([l \in ladder |-> IF l[1] < Threshold(ladder) THEN 0
                                  ELSE Weight(ladder, l[1]) * l[2]])

OwnScore(ladder, price) ==
    IF price = 0 \/ price < Threshold(ladder) THEN 0 ELSE Weight(ladder, price) * OwnLot

\* Mutant of SideShare: the guard on the normalised score is dropped.
SideShareUncapped(ladder, price) ==
    IF ~Qualifies(ladder) THEN 0
    ELSE (100 * OwnScore(ladder, price)) \div SideTotal(ladder)

\* The share of a side, in percent, at most all of it: the book was read before
\* the orders were last changed.
SideShare(ladder, price) ==
    IF ~Qualifies(ladder) \/ SideTotal(ladder) = 0 THEN 0
    ELSE Min({100, (100 * OwnScore(ladder, price)) \div SideTotal(ladder)})

\* pool_share: the sides' shares over the sides that qualify.
PoolShare(book, prices) ==
    LET active == {s \in {1, 2} : Qualifies(book[s])}
    IN  IF active = {} THEN 0
        ELSE (SideShare(book[1], prices[1]) + SideShare(book[2], prices[2])) \div Cardinality(active)

\* The exchange's book: the others' ladder and the own order.
WithOwn(ladder, price) ==
    IF price = 0 THEN ladder
    ELSE {l \in ladder : l[1] # price}
         \cup {<<price, OwnLot + SizeFrom({l \in ladder : l[1] = price}, 0)>>}

BookOf(t) == <<WithOwn(others[t][1], own[t][1]), WithOwn(others[t][2], own[t][2])>>

\* A mid exists: both sides have a bid and they do not cross.
TwoSided(book) ==
    /\ book # NoEntry
    /\ book[1] # {} /\ book[2] # {}
    /\ Max(Prices(book[1])) + Max(Prices(book[2])) < 100

-----------------------------------------------------------------------------
(* The exchange and the other traders.                                     *)

Executed(t) ==
    /\ turn.n > 0 /\ Cardinality(fills) + Cardinality(missing) < MaxMoves
    /\ held[t] = believed[t]
    /\ \E by \in {-1, 1} : held' = [held EXCEPT ![t] = @ + by]
    /\ UNCHANGED <<turn, believed, others, own, entries, before, fills, missing,
                   paying, programs, earned, accruals>>

MarketMoves(t) ==
    /\ turn.at = "idle"
    /\ \E book \in OtherBooks \ {others[t]} : others' = [others EXCEPT ![t] = book]
    /\ UNCHANGED <<turn, held, believed, own, entries, before, fills, missing,
                   paying, programs, earned, accruals>>

ProgramEnds(t) ==
    /\ t \in paying
    /\ paying' = paying \ {t}
    /\ UNCHANGED <<turn, held, believed, others, own, entries, before, fills,
                   missing, programs, earned, accruals>>

-----------------------------------------------------------------------------
(* LIPRunner._cycle.                                                       *)

\* IncentiveCache.start: the first fetch must succeed, and nothing is
\* remembered of an earlier run.
Starts ==
    /\ turn.at = "down"
    /\ programs' = paying
    /\ turn' = [turn EXCEPT !.at = "idle"]
    /\ UNCHANGED <<held, believed, others, own, entries, before, fills, missing,
                   paying, earned, accruals>>

Stops ==
    /\ turn.at \in {"idle", "tickers"}
    /\ turn' = [turn EXCEPT !.at = "down", !.left = {}]
    /\ believed' = Zero /\ fills' = {} /\ earned' = Zero /\ accruals' = Zero
    /\ entries' = Nothing /\ before' = Nothing /\ programs' = {}
    /\ UNCHANGED <<held, others, own, missing, paying>>

\* refresh_once in the background: a failure keeps the last snapshot.
CacheRefreshed ==
    /\ turn.at # "down" /\ programs # paying
    /\ programs' = paying
    /\ UNCHANGED <<turn, held, believed, others, own, entries, before, fills,
                   missing, paying, earned, accruals>>

\* The list of books is emptied first.  A cycle that is skipped, or whose
\* ticker source fails, does no more than that.
CycleSkipped ==
    /\ turn.at = "idle" /\ turn.n < MaxTurns
    /\ turn' = [turn EXCEPT !.n = @ + 1]
    /\ entries' = Nothing
    /\ UNCHANGED <<held, believed, others, own, before, fills, missing, paying,
                   programs, earned, accruals>>

Changed == {t \in Strips : held[t] # believed[t]}

\* observe_position_delta, with the mid of the list as it is now.
CycleRecorded(books) ==
    {[market |-> t, turn |-> turn'.n, bought |-> held[t] > believed[t]] :
     t \in {t \in Changed : TwoSided(books[t])}}

CycleBegins ==
    /\ turn.at = "idle" /\ turn.n < MaxTurns
    /\ turn' = [at |-> "tickers", n |-> turn.n + 1, left |-> Strips]
    /\ entries' = Nothing
    /\ \/ /\ believed' = held
          /\ fills' = fills \cup CycleRecorded(entries')
          /\ missing' = missing \cup (CycleRecorded(before) \ CycleRecorded(entries'))
       \/ UNCHANGED <<believed, fills, missing>>   \* list_positions failed
    /\ UNCHANGED <<held, others, own, before, paying, programs, earned, accruals>>

\* _process_ticker: the book is read, then the orders are changed.
TickerQuoted(t) ==
    /\ turn.at = "tickers" /\ t \in turn.left
    /\ turn' = [turn EXCEPT !.left = @ \ {t}]
    /\ entries' = [entries EXCEPT ![t] = BookOf(t)]
    /\ \E prices \in OwnBids : own' = [own EXCEPT ![t] = prices]
    /\ UNCHANGED <<held, believed, others, before, fills, missing, paying,
                   programs, earned, accruals>>

\* It fails before the book is there, or the market is paused.
TickerPassed(t) ==
    /\ turn.at = "tickers" /\ t \in turn.left
    /\ turn' = [turn EXCEPT !.left = @ \ {t}]
    /\ UNCHANGED <<held, believed, others, own, entries, before, fills, missing,
                   paying, programs, earned, accruals>>

\* _accrue_earnings: each market with a book and a program in the cache.
CycleEnds ==
    /\ turn.at = "tickers" /\ turn.left = {}
    /\ turn' = [turn EXCEPT !.at = "idle"]
    /\ earned' = [t \in Strips |->
         IF t \in programs /\ entries[t] # NoEntry
         THEN earned[t] + PoolShare(entries[t], own[t]) ELSE earned[t]]
    /\ accruals' = [t \in Strips |-> accruals[t] + 1]
    /\ before' = entries
    /\ UNCHANGED <<held, believed, others, own, entries, fills, missing, paying, programs>>

LedgerNext ==
    \/ Starts \/ Stops \/ CacheRefreshed
    \/ CycleSkipped \/ CycleBegins \/ CycleEnds
    \/ \E t \in Strips : \/ Executed(t) \/ MarketMoves(t) \/ ProgramEnds(t)
                         \/ TickerQuoted(t) \/ TickerPassed(t)

LedgerSpec == LedgerInit /\ [][LedgerNext]_ledgerVars

-----------------------------------------------------------------------------
\* The running tally never exceeds the whole pool for the cycles that were run:
\* the orders that are scored are those of the end of the cycle, the book is the
\* one from before they were placed, and outbid bids may weigh more than it.
EarnedAtMostPool == \A t \in Strips : earned[t] <= 100 * accruals[t]

\* "We use the last-cycle's broadcast mid as the fill price proxy": a change of
\* position of a market whose book of the last cycle has a mid is recorded.
FillsRecorded == missing = {}
=============================================================================
