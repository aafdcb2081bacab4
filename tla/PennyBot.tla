------------------------------- MODULE PennyBot -------------------------------
(***************************************************************************)
(* The rewards web app (mm-setup-main/kalshi_rewards_app.py): threads that *)
(* share one account.  The bot bids on every row of a snapshot, the arb    *)
(* loop cancels legs that cannot win, and the requests of the page block,  *)
(* cancel and move.  App holds its lock while a snapshot is built, and     *)
(* keeps it for a moment.                                                  *)
(*                                                                         *)
(* All orders are post-only bids of one size.  A bid for yes at strike x   *)
(* and one for no at strike y cannot both win when x >= y.                 *)
(***************************************************************************)
EXTENDS Integers, Sequences, FiniteSets, FiniteSetsExt

CONSTANTS
    Strike,        \* market -> its strike, all of one event
    Keys,          \* the rows: a market and a side each
    PennyTops,     \* best bid and ask that a row may show
    MovePrices,    \* prices the operator moves to
    MaxBids,       \* bound: orders placed
    MaxRequests,   \* bound: requests of the operator
    PennyFaults    \* "place": a placing fails, with or without its answer;
                   \* "cancel": a cancel fails

ASSUME PennyAssumption ==
    /\ Keys \subseteq (DOMAIN Strike) \X {"yes", "no"}
    /\ MaxBids \in Nat /\ MaxRequests \in Nat
    /\ PennyTops \subseteq (1 .. 99) \X (1 .. 99) /\ \A top \in PennyTops : top[1] < top[2]
    /\ MovePrices \subseteq 1 .. 99

VARIABLES
    bids,       \* the account's resting bids
    placedBids, \* orders placed so far
    blocked,    \* BLOCKED_MARKETS
    cache,      \* App._cache, or None
    build,      \* the snapshot a thread builds under App._lock, or None
    bot,        \* PennyBot: enabled, where it is, its snapshot, what is left
    jobs,       \* "operator" and "sweeper" -> the request each works on
    requests    \* requests so far

pennyVars == <<bids, placedBids, blocked, cache, build, bot, jobs, requests>>

PennyMarkets == DOMAIN Strike
None == [at |-> "none", bids |-> {}, blocked |-> {}, fresh |-> FALSE]
NoJob == [what |-> "none", on |-> <<"none", "none">>, keys |-> {}, ids |-> {}, price |-> 0]
Asleep == [enabled |-> TRUE, at |-> "asleep", snap |-> None, rows |-> {},
           pending |-> {}]

PennyInit ==
    /\ bids = {}
    /\ placedBids = 0
    /\ blocked = {}
    /\ cache = None
    /\ build = None
    /\ bot = Asleep
    /\ jobs = [a \in {"operator", "sweeper"} |-> NoJob]
    /\ requests = 0

\* cancel_side, move_orders: the account's resting buy orders on a side.
On(key, some) == {b \in some : b.key = key}

\* my_top_px of a row, 0 without an order.
TopBid(key, some) == Max({0} \cup {b.price : b \in On(key, some)})

\* A yes bid and a no bid that cannot both win and cost more than one pays.
Conflict(yes, no) ==
    /\ yes.key[2] = "yes" /\ no.key[2] = "no"
    /\ Strike[yes.key[1]] >= Strike[no.key[1]]
    /\ yes.price + no.price > 100

\* detect_arbs: by the best bid of each row.
ArbsIn(some) ==
    LET tops == {[key |-> k, price |-> TopBid(k, some)] :
                 k \in {k \in Keys : On(k, some) # {}}}
    IN  {pair \in tops \X tops : Conflict(pair[1], pair[2])}

\* Mutant of WouldCreateArb: the frozen snapshot only.
WouldCreateArbFrozen(key, price) ==
    LET mine == [key |-> key, price |-> price]
        others == {[key |-> k, price |-> TopBid(k, bot.snap.bids)] :
                   k \in {k \in Keys : On(k, bot.snap.bids) # {}}}
    IN  \E other \in others : Conflict(mine, other) \/ Conflict(other, mine)

\* would_create_arb: the rows of the snapshot and what this cycle has placed.
WouldCreateArb(key, price) ==
    LET mine == [key |-> key, price |-> price]
        others == {[key |-> k, price |-> TopBid(k, bot.snap.bids)] :
                   k \in {k \in Keys : On(k, bot.snap.bids) # {}}} \cup bot.pending
    IN  \E other \in others : Conflict(mine, other) \/ Conflict(other, mine)

-----------------------------------------------------------------------------
(* The exchange refuses a post-only bid that meets the account's own.      *)

Meets(key, price) ==
    \E b \in bids : b.key[1] = key[1] /\ b.key # key /\ b.price + price >= 100

\* place_buy and the retries of signed_request: accepted; refused; or resting
\* though the last answer is a refusal (the first was lost) or an exception.
Outcomes == IF "place" \in PennyFaults
            THEN {"accepted", "refused", "unheard", "raised", "silent"} ELSE {"accepted", "refused"}

Rests(answer) == answer \in {"accepted", "unheard", "silent"}

Places(by, key, price, answer) ==
    /\ placedBids < MaxBids
    /\ Meets(key, price) => ~Rests(answer)
    /\ placedBids' = placedBids + 1
    /\ bids' = IF ~Rests(answer) THEN bids
               ELSE bids \cup {[id |-> placedBids, key |-> key, price |-> price, by |-> by,
                                sure |-> answer = "accepted"]}

\* A bid is executed against, or the exchange cancels it.
BidGone ==
    /\ \E b \in bids : bids' = bids \ {b}
    /\ UNCHANGED <<placedBids, blocked, cache, build, bot, jobs, requests>>

-----------------------------------------------------------------------------
(* App.get_data: under the lock, the orders are listed, then the blocked   *)
(* markets read, then the books; the cache expires soon.                   *)

BuildStarts ==
    /\ cache = None /\ build = None
    /\ build' = [at |-> "listed", bids |-> bids, blocked |-> {}, fresh |-> bot.at = "asleep"]
    /\ UNCHANGED <<bids, placedBids, blocked, cache, bot, jobs, requests>>

BuildGoesOn ==
    /\ \/ /\ build.at = "listed"
          /\ build' = [build EXCEPT !.at = "full", !.blocked = blocked]
          /\ UNCHANGED cache
       \/ /\ build.at = "full"
          /\ cache' = build
          /\ build' = None
    /\ UNCHANGED <<bids, placedBids, blocked, bot, jobs, requests>>

CacheExpires ==
    /\ cache # None
    /\ cache' = None
    /\ UNCHANGED <<bids, placedBids, blocked, build, bot, jobs, requests>>

-----------------------------------------------------------------------------
(* PennyBot._loop and _cycle.                                              *)

\* The sleep between cycles outlasts the cache: the snapshot was begun in it.
CycleStarts ==
    /\ bot.at = "asleep" /\ bot.enabled
    /\ cache # None /\ cache.fresh
    /\ bot' = [bot EXCEPT !.at = "cycle", !.snap = cache, !.pending = {},
                          !.rows = {k \in Keys : k[1] \notin cache.blocked}]
    /\ UNCHANGED <<bids, placedBids, blocked, cache, build, jobs, requests>>

Aged(snap) == [snap EXCEPT !.fresh = FALSE]

\* Back to sleep, at the end of the rows or at an exception.
Sleeps ==
    /\ bot' = [Asleep EXCEPT !.enabled = bot.enabled]
    /\ cache' = Aged(cache)
    /\ build' = Aged(build)

\* An eighth of the spread above the best bid, on it when the spread is a cent.
Target(top) == LET spread == top[2] - top[1]
               IN  top[1] + IF spread <= 1 THEN 0 ELSE Max({1, spread \div 8})

\* The row calls for a bid that improves mine and does not cross, and makes no
\* losing pair.
Bids(key, top) ==
    /\ Target(top) < top[2]
    /\ Target(top) > TopBid(key, bot.snap.bids)
    /\ ~WouldCreateArb(key, Target(top))

RowDone(key) == [bot EXCEPT !.rows = @ \ {key}]

\* Nothing to do on this row, or its cooldown (of an earlier cycle) runs.
RowPassed ==
    /\ bot.at = "cycle"
    /\ \E key \in bot.rows : bot' = RowDone(key)
    /\ UNCHANGED <<bids, placedBids, blocked, cache, build, jobs, requests>>

RowBid ==
    /\ bot.at = "cycle"
    /\ \E key \in bot.rows, top \in PennyTops, answer \in Outcomes :
         /\ Bids(key, top)
         /\ Places("bot", key, Target(top), answer)
         /\ IF answer \in {"raised", "silent"} THEN Sleeps
            ELSE /\ bot' = [RowDone(key) EXCEPT !.pending = IF answer = "accepted"
                                  THEN @ \cup {[key |-> key, price |-> Target(top)]} ELSE @]
                 /\ UNCHANGED <<cache, build>>
    /\ UNCHANGED <<blocked, jobs, requests>>

CycleEnds ==
    /\ bot.at = "cycle" /\ bot.rows = {}
    /\ Sleeps
    /\ UNCHANGED <<bids, placedBids, blocked, jobs, requests>>

-----------------------------------------------------------------------------
(* The page's requests, one at a time here, and the arb loop.              *)

Begins(job) ==
    /\ jobs["operator"] = NoJob
    /\ requests < MaxRequests
    /\ requests' = requests + 1
    /\ jobs' = [jobs EXCEPT !["operator"] = job]

\* update(enabled=...): a cycle that has begun goes on to its end.
Toggled ==
    /\ requests < MaxRequests
    /\ requests' = requests + 1
    /\ bot' = [bot EXCEPT !.enabled = ~@]
    /\ UNCHANGED <<bids, placedBids, blocked, cache, build, jobs>>

\* block_market: the list first, then cancel_side for both sides.
Blocks(m) ==
    /\ Begins([NoJob EXCEPT !.what = "block", !.on = <<m, "yes">>, !.keys = {<<m, "yes">>, <<m, "no">>}])
    /\ blocked' = blocked \cup {m}
    /\ UNCHANGED <<bids, placedBids, cache, build, bot>>

Unblocks(m) ==
    /\ m \in blocked
    /\ Begins([NoJob EXCEPT !.what = "unblock", !.on = <<m, "yes">>])
    /\ blocked' = blocked \ {m}
    /\ UNCHANGED <<bids, placedBids, cache, build, bot>>

\* cancel_side, move_orders (which also places where there was no order).
Orders(key) ==
    /\ \E price \in MovePrices \cup {0} :
         Begins([NoJob EXCEPT !.what = "orders", !.on = key, !.keys = {key}, !.price = price])
    /\ UNCHANGED <<bids, placedBids, blocked, cache, build, bot>>

\* _arb_loop and resolve_arbs_now: of each pair, the leg with less at risk.
SweepStarts ==
    /\ jobs["sweeper"] = NoJob /\ cache # None
    /\ ArbsIn(cache.bids) # {}
    /\ jobs' = [jobs EXCEPT !["sweeper"] = [NoJob EXCEPT !.what = "arbs",
         !.keys = {(IF pair[1].price <= pair[2].price THEN pair[1] ELSE pair[2]).key :
                   pair \in ArbsIn(cache.bids)}]]
    /\ UNCHANGED <<bids, placedBids, blocked, cache, build, bot, requests>>

\* cancel_side lists; then the ids are cancelled one by one.
JobLists(a) ==
    /\ jobs[a].keys # {} /\ jobs[a].ids = {}
    /\ \E key \in jobs[a].keys :
         jobs' = [jobs EXCEPT ![a].keys = @ \ {key}, ![a].ids = {b.id : b \in On(key, bids)}]
    /\ UNCHANGED <<bids, placedBids, blocked, cache, build, bot, requests>>

\* A cancel that fails is counted and passed over.
JobCancels(a) ==
    /\ \E id \in jobs[a].ids :
         /\ jobs' = [jobs EXCEPT ![a].ids = @ \ {id}]
         /\ \/ bids' = {b \in bids : b.id # id}
            \/ "cancel" \in PennyFaults /\ UNCHANGED bids
    /\ UNCHANGED <<placedBids, blocked, cache, build, bot, requests>>

\* move_orders places whether or not the cancels succeeded.
JobPlaces ==
    /\ LET job == jobs["operator"]
       IN  /\ job.price # 0 /\ job.keys = {} /\ job.ids = {}
           /\ \E answer \in Outcomes :
                Places("hand", job.on, job.price, answer)
    /\ jobs' = [jobs EXCEPT !["operator"].price = 0]
    /\ UNCHANGED <<blocked, cache, build, bot, requests>>

Over(a) == jobs[a].what # "none" /\ jobs[a].keys = {} /\ jobs[a].ids = {} /\ jobs[a].price = 0

\* app.invalidate(), which waits for the lock, and the answer; an order or a
\* cancel that did not succeed leaves the cache.
Answered ==
    /\ Over("operator")
    /\ build = None
    /\ \/ cache' = None
       \/ jobs["operator"].what = "orders" /\ UNCHANGED cache
    /\ jobs' = [jobs EXCEPT !["operator"] = NoJob]
    /\ UNCHANGED <<bids, placedBids, blocked, build, bot, requests>>

\* The listing or a cancel raises: the request is answered with an error, the
\* sweep goes on with its next turn.
JobRaises(a) ==
    /\ "cancel" \in PennyFaults
    /\ jobs[a].keys # {} \/ jobs[a].ids # {}
    /\ jobs' = [jobs EXCEPT ![a] = NoJob]
    /\ UNCHANGED <<bids, placedBids, blocked, cache, build, bot, requests>>

SweepEnds ==
    /\ Over("sweeper")
    /\ jobs' = [jobs EXCEPT !["sweeper"] = NoJob]
    /\ UNCHANGED <<bids, placedBids, blocked, cache, build, bot, requests>>

PennyNext ==
    \/ BidGone
    \/ BuildStarts \/ BuildGoesOn \/ CacheExpires
    \/ CycleStarts \/ RowPassed \/ RowBid \/ CycleEnds
    \/ Toggled
    \/ \E m \in PennyMarkets : Blocks(m) \/ Unblocks(m)
    \/ \E key \in Keys : Orders(key)
    \/ SweepStarts \/ SweepEnds \/ JobPlaces \/ Answered
    \/ \E a \in DOMAIN jobs : JobLists(a) \/ JobCancels(a) \/ JobRaises(a)

-----------------------------------------------------------------------------
\* The bot does not build a losing pair out of its own bids, whatever blocks,
\* cancels and moves run beside its cycles, unless the answer of one of them
\* was lost: then the bid is not among the cycle's pending ones.
BotArbsExplained ==
    \A y, n \in bids : Conflict(y, n) => {y.by, n.by} # {"bot"} \/ ~(y.sure /\ n.sure)
=============================================================================
