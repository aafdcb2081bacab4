----------------------------- MODULE ScoreTracker -----------------------------
(***************************************************************************)
(* LIPScoreTracker (feeds/kalshi/lip_score.py): the score of the bot's     *)
(* orders on one market against all that rests, and its average over       *)
(* rolling windows.  The caller feeds the book, level by level or by       *)
(* deltas, and its orders, and asks for snapshots.                         *)
(*                                                                         *)
(* A multiplier is counted in DecayTicks-ths.                              *)
(***************************************************************************)
EXTENDS Integers, Sequences, FiniteSets, FiniteSetsExt, SequencesExt, Functions

CONSTANTS
    Ticks,         \* prices, in cents
    DecayTicks,    \* decay_ticks
    MostResting,   \* bound: contracts on a level
    OwnSizes,      \* contracts that our orders may have at a price
    WindowLength,  \* window -> window_ns
    MaxTaken,      \* bound: entries of a window
    LastMoment     \* bound: the clock

ASSUME ScoreAssumption ==
    /\ Ticks \subseteq 1 .. 99 /\ DecayTicks \in Nat \ {0}
    /\ MostResting \in Nat /\ OwnSizes \subseteq Nat
    /\ \A w \in DOMAIN WindowLength : WindowLength[w] \in Nat

BookSides == {"yes", "no"}

VARIABLES
    moment,    \* time.monotonic_ns
    depth,     \* OrderbookSide.levels of both sides: price -> contracts
    mine,      \* side -> price -> contracts of our orders
    windows,   \* window -> its entries, oldest first
    taken      \* history: every snapshot's entry

scoreVars == <<moment, depth, mine, windows, taken>>

ScoreInit ==
    /\ moment = 0
    /\ depth = [s \in BookSides |-> [p \in Ticks |-> 0]]
    /\ mine = [s \in BookSides |-> [p \in Ticks |-> 0]]
    /\ windows = [w \in DOMAIN WindowLength |-> <<>>]
    /\ taken = {}

MomentPasses ==
    /\ moment < LastMoment
    /\ moment' = moment + 1
    /\ UNCHANGED <<depth, mine, windows, taken>>

\* apply_delta and set_level: a level that would be empty or less is dropped.
LevelChanges(s, p) ==
    /\ \E d \in -MostResting .. MostResting :
         LET rest == depth[s][p] + d
         IN  /\ rest <= MostResting
             /\ depth' = [depth EXCEPT ![s][p] = IF rest <= 0 THEN 0 ELSE rest]
    /\ UNCHANGED <<moment, mine, windows, taken>>

\* Before a new snapshot of the book.
SideCleared(s) ==
    /\ depth' = [depth EXCEPT ![s] = [p \in Ticks |-> 0]]
    /\ UNCHANGED <<moment, mine, windows, taken>>

\* set_our_orders: any orders, on both sides.
OwnOrdersSet ==
    /\ mine' \in [BookSides -> [Ticks -> OwnSizes \cup {0}]]
    /\ UNCHANGED <<moment, depth, windows, taken>>

Filled(sizes) == {p \in Ticks : sizes[p] > 0}

\* best_price; of an empty side there is none.
Best(s) == Max(Filled(depth[s]))

Distance(p, q) == IF p >= q THEN p - q ELSE q - p
Multiplier(p, best) == IF Distance(p, best) >= DecayTicks THEN 0
                       ELSE DecayTicks - Distance(p, best)

ScoreOf(sizes, best) == SumFunction([p \in Filled(sizes) |-> sizes[p] * Multiplier(p, best)])

\* compute_our_score raises when there are orders of ours on a side that shows
\* none.
Scorable == \A s \in BookSides : Filled(mine[s]) # {} => Filled(depth[s]) # {}

SideScore(sizes, s) == IF Filled(sizes) = {} THEN 0 ELSE ScoreOf(sizes, Best(s))

\* Mutant of OurScore: against the best of our own orders.
OurScoreOfItsOwn ==
    SumFunction([s \in BookSides |-> IF Filled(mine[s]) = {} THEN 0
                                     ELSE ScoreOf(mine[s], Max(Filled(mine[s])))])

OurScore == SumFunction([s \in BookSides |-> SideScore(mine[s], s)])
TotalScore == SumFunction([s \in BookSides |-> SideScore(depth[s], s)])

\* The book shows our orders with the rest.
OursShown == \A s \in BookSides, p \in Ticks : mine[s][p] <= depth[s][p]

\* add and _evict: entries leave at the front while they are too old.
Within(w, entries) ==
    LET fresh == {i \in DOMAIN entries : entries[i].ts >= moment - WindowLength[w]}
    IN  IF fresh = {} THEN <<>> ELSE SubSeq(entries, Min(fresh), Len(entries))

\* compute_snapshot: the scores join both windows; of the two numbers an entry
\* keeps here whether ours is the larger.
SnapshotTaken ==
    /\ Scorable
    /\ \A w \in DOMAIN WindowLength : Len(windows[w]) < MaxTaken
    /\ LET entry == [ts |-> moment, shown |-> OursShown, excess |-> OurScore > TotalScore]
       IN  /\ windows' = [w \in DOMAIN WindowLength |-> Within(w, Append(windows[w], entry))]
           /\ taken' = taken \cup {entry}
    /\ UNCHANGED <<moment, depth, mine>>

ScoreNext ==
    \/ MomentPasses \/ OwnOrdersSet \/ SnapshotTaken
    \/ \E s \in BookSides : SideCleared(s) \/ \E p \in Ticks : LevelChanges(s, p)

ScoreSpec == ScoreInit /\ [][ScoreNext]_scoreVars

-----------------------------------------------------------------------------
\* However levels come and go, are cleared and cross, a snapshot that saw our
\* orders in the book never credits the bot with more than the whole pool, and
\* a window averages exactly the snapshots its length still covers.
SharesAreShares ==
    /\ \A e \in taken : ~(e.shown /\ e.excess)
    /\ \A w \in DOMAIN WindowLength : windows[w] # <<>> =>
         LET newest == Last(windows[w]).ts
         IN  ToSet(windows[w]) = {e \in taken : e.ts >= newest - WindowLength[w]}
=============================================================================
