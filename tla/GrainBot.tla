------------------------------ MODULE GrainBot ------------------------------
(***************************************************************************)
(* The grain bot's main loop (deploy/main.py) with its kill switch         *)
(* (engine/kill.py), hedge trigger and IB connection (hedge/): one task    *)
(* that goes from await to await while the exchange fills its orders, the  *)
(* IB connection comes and goes, requests fail and the operator stops it.  *)
(* Positions and caps are PositionBook's; what the quoter decides is in    *)
(* GrainQuotes, here it may decide anything that its arguments leave open. *)
(* Every order is for one contract, bought or sold at one price.           *)
(***************************************************************************)
EXTENDS PositionBook, Sequences, SequencesExt

CONSTANTS
    BidPx, AskPx,     \* prices of our bids and asks, in cents
    DrawdownLoss,    \* kill_switch_pnl_threshold_pct of the loss cap
    HedgeThreshold,  \* HedgeTrigger.threshold, in contracts
    GrainListing,    \* orders in one listing (100)
    FillWindow,      \* fills in one listing (50)
    KillAttempts,    \* max_retries + 1
    GrainFaults,     \* subset of {"list", "cancel", "place", "fills", "raise", "crash"}
    MaxQuotes, MaxTrades, MaxHedges   \* bounds: orders, fills, futures

ASSUME GrainAssumption ==
    /\ {BidPx, AskPx} \subseteq 1 .. 99
    /\ {DrawdownLoss, HedgeThreshold, GrainListing, FillWindow, KillAttempts} \subseteq Nat \ {0}
    /\ GrainFaults \subseteq {"list", "cancel", "place", "fills", "raise", "crash"}
    /\ {MaxQuotes, MaxTrades, MaxHedges} \subseteq Nat

VARIABLES
    grainBook,  \* the account's open orders
    issued,     \* orders the exchange has accepted
    trades,     \* the exchange's record of fills, in order
    listed,     \* MarketMaker._open_orders
    cyc,        \* where the cycle is, and its locals
    running,    \* MarketMaker._running
    ib,         \* IBKRClient._connected
    futures     \* contracts held as a hedge

grainVars == <<positionVars, grainBook, issued, trades, listed, cyc, running, ib, futures>>

\* at: the next await.  ids: still to be cancelled; quotes: still to be placed;
\* new: new_open; tries: attempts of batch_cancel_all, then: where it returns to.
\* History: missed, the orders that survived this cycle's first step.
Top == [at |-> "top", ids |-> {}, quotes |-> {}, new |-> {}, tries |-> 0, then |-> "",
        missed |-> {}]

GrainInit ==
    /\ PositionInit
    /\ grainBook = {} /\ issued = 0 /\ trades = <<>> /\ listed = {}
    /\ cyc = Top
    /\ running = TRUE
    /\ ib \in BOOLEAN
    /\ futures = 0

Fault(kind) == kind \in GrainFaults
Ids == {o.id : o \in grainBook}
Off(ids) == {o \in grainBook : o.id \notin ids}
Go(where) == cyc' = [cyc EXCEPT !.at = where]

\* What a listing of resting orders may hold.
Listings == IF Cardinality(Ids) <= GrainListing THEN {Ids} ELSE kSubset(GrainListing, Ids)

-----------------------------------------------------------------------------
\* 0. Every resting order is cancelled, from a fresh list.
CycleLists ==
    /\ cyc.at = "top"
    /\ \/ \E seen \in Listings :
            cyc' = [Top EXCEPT !.at = "clearing", !.ids = seen, !.missed = Ids \ seen]
       \/ /\ Fault("list")
          /\ cyc' = [Top EXCEPT !.at = "clearing", !.missed = Ids]
    /\ UNCHANGED <<positionVars, grainBook, issued, trades, listed, running, ib, futures>>

\* Mutant of ClearOne: one cancel that fails ends the loop.
ClearOneGivesUp ==
    /\ cyc.at = "clearing" /\ cyc.ids # {}
    /\ LET id == Min(cyc.ids)
       IN  \/ /\ grainBook' = Off({id})
              /\ cyc' = [cyc EXCEPT !.ids = @ \ {id}]
           \/ /\ Fault("cancel")
              /\ cyc' = [cyc EXCEPT !.ids = {}, !.missed = @ \cup {id}]
              /\ UNCHANGED grainBook
    /\ UNCHANGED <<positionVars, issued, trades, listed, running, ib, futures>>

ClearOne ==
    /\ cyc.at = "clearing" /\ cyc.ids # {}
    /\ LET id == Min(cyc.ids)
       IN  \/ /\ grainBook' = Off({id})
              /\ cyc' = [cyc EXCEPT !.ids = @ \ {id}]
           \/ /\ Fault("cancel")
              /\ cyc' = [cyc EXCEPT !.ids = @ \ {id}, !.missed = @ \cup {id}]
              /\ UNCHANGED grainBook
    /\ UNCHANGED <<positionVars, issued, trades, listed, running, ib, futures>>

\* 1-3. The event, its books and fair values; none open: the cycle is over.
Cleared ==
    /\ cyc.at = "clearing" /\ cyc.ids = {}
    /\ listed' = {}
    /\ \/ Go("quoting") \/ Go("asleep")
    /\ UNCHANGED <<positionVars, grainBook, issued, trades, running, ib, futures>>

\* 4-8. With a breach, the cap reached or the settlement gate shut, the actions
\* are cancels for the orders in _open_orders, of which there are none.
Quoting ==
    /\ cyc.at = "quoting"
    /\ \E open \in BOOLEAN, wish \in SUBSET (Markets \X {"bid", "ask"}) :
         /\ (~open \/ Breached \/ TotalLoss >= LossCap) => wish = {}
         /\ cyc' = [cyc EXCEPT !.at = "placing", !.quotes = wish]
    /\ UNCHANGED <<positionVars, grainBook, issued, trades, listed, running, ib, futures>>

\* 9. _execute_actions: one request per quote; a failure is logged.  One that is
\* executed but not answered rests without being recorded.
PlaceOne ==
    /\ cyc.at = "placing" /\ cyc.quotes # {} /\ issued < MaxQuotes
    /\ \E q \in cyc.quotes :
         LET id == issued + 1
             rest == [cyc EXCEPT !.quotes = @ \ {q}]
         IN  \/ /\ grainBook' = grainBook \cup {[id |-> id, mkt |-> q[1], side |-> q[2]]}
                /\ issued' = id
                /\ \/ cyc' = [rest EXCEPT !.new = @ \cup {id}]
                   \/ Fault("place") /\ cyc' = [rest EXCEPT !.missed = @ \cup {id}]
             \/ /\ Fault("place")
                /\ cyc' = rest
                /\ UNCHANGED <<grainBook, issued>>
    /\ UNCHANGED <<positionVars, trades, listed, running, ib, futures>>

Placed ==
    /\ cyc.at = "placing" /\ cyc.quotes = {}
    /\ listed' = listed \cup cyc.new
    /\ Go("fills")
    /\ UNCHANGED <<positionVars, grainBook, issued, trades, running, ib, futures>>

\* 10. The latest fills go into the store, which knows those it has seen.
Window(list) == SubSeq(list, IF Len(list) > FillWindow THEN Len(list) - FillWindow + 1 ELSE 1,
                       Len(list))

FillsPolled ==
    /\ cyc.at = "fills"
    /\ \/ StoreBecomes(FoldLeft(Recorded, Store, Window(trades)))
       \/ Fault("fills") /\ UNCHANGED positionVars
    /\ Go("hedging")
    /\ UNCHANGED <<grainBook, issued, trades, listed, running, ib, futures>>

\* 11. compute_hedge_size: at least one contract, against the positions.  The
\* density at a strike is abstracted to 1; what is hedged already does not count.
HedgeOf(delta) == IF delta > 0 THEN -1 ELSE 1

\* cool: cooldown_s has passed since the last hedge.
Hedging ==
    /\ cyc.at = "hedging"
    /\ \E cool \in BOOLEAN, placed \in BOOLEAN :
         futures' = IF ib /\ Size(Aggregate) >= HedgeThreshold /\ cool /\ placed
                    THEN futures + HedgeOf(Aggregate) ELSE futures
    /\ Size(futures') <= MaxHedges
    /\ Go("refreshing")
    /\ UNCHANGED <<positionVars, grainBook, issued, trades, listed, running, ib>>

-----------------------------------------------------------------------------
\* batch_cancel_all(ids), and where the code goes on.
CancelAll(ids, then) ==
    cyc' = [cyc EXCEPT !.at = IF ids = {} THEN then ELSE "cancelling",
                       !.ids = ids, !.tries = 0, !.then = then]

\* A cycle that raises cancels what _open_orders holds.
CycleRaises ==
    /\ Fault("raise")
    /\ cyc.at \in {"quoting", "hedging"}
    /\ CancelAll(listed, "failed")
    /\ UNCHANGED <<positionVars, grainBook, issued, trades, listed, running, ib, futures>>

\* 12. The open orders are refreshed and the triggers evaluated: a breach, IB down
\* with a delta to hedge, the drawdown.  (_compute_delta looks at the event of the
\* listed orders; the series has one event at a time.)
Triggered == \/ Breached
             \/ ~ib /\ Size(Aggregate) >= HedgeThreshold
             \/ TotalLoss > DrawdownLoss

KillCheck ==
    /\ cyc.at = "refreshing"
    /\ \E seen \in Listings \cup IF Fault("list") THEN {listed} ELSE {} :
         IF seen # {} /\ Triggered
         THEN /\ listed' = seen
              /\ CancelAll(seen, "asleep")
         ELSE /\ listed' = {}
              /\ Go("asleep")
    /\ UNCHANGED <<positionVars, grainBook, issued, trades, running, ib, futures>>

\* One attempt, and the orders it may leave: a batch of several cancels them all,
\* or is refused; one by one, an order that is gone fails, and any other may.
Attempt(ids) ==
    (IF Cardinality(ids) > 1 THEN {{}} ELSE {}) \cup
    (IF Fault("cancel") THEN {bad \in SUBSET ids : ids \ Ids \subseteq bad}
     ELSE IF Cardinality(ids) = 1 THEN {ids \ Ids} ELSE {})

CancelAttempt ==
    /\ cyc.at = "cancelling" /\ cyc.ids # {} /\ cyc.tries < KillAttempts
    /\ \E bad \in Attempt(cyc.ids) :
         /\ grainBook' = Off(cyc.ids \ bad)
         /\ cyc' = [cyc EXCEPT !.ids = bad, !.tries = @ + 1]
    /\ UNCHANGED <<positionVars, issued, trades, listed, running, ib, futures>>

\* All gone, or KillSwitchError, or an error that the batch does not expect: the
\* cycle forgets the list whichever it is, the safety cancel only in the first case.
CancelsEnd ==
    /\ cyc.at = "cancelling"
    /\ \/ cyc.ids = {} \/ cyc.tries = KillAttempts
       \/ Fault("cancel") /\ Cardinality(cyc.ids) > 1
    /\ Go(cyc.then)
    /\ listed' = IF cyc.ids # {} /\ cyc.then = "failed" THEN listed ELSE {}
    /\ UNCHANGED <<positionVars, grainBook, issued, trades, running, ib, futures>>

-----------------------------------------------------------------------------
\* Between cycles; after a signal the loop ends, and shutdown() cancels what
\* _open_orders holds.
NextCycle ==
    /\ cyc.at \in {"asleep", "failed"}
    /\ IF running THEN cyc' = Top ELSE CancelAll(listed, "down")
    /\ UNCHANGED <<positionVars, grainBook, issued, trades, listed, running, ib, futures>>

SignalReceived ==
    /\ running
    /\ running' = FALSE
    /\ UNCHANGED <<positionVars, grainBook, issued, trades, listed, cyc, ib, futures>>

\* A crash, and a start: reconcile() only compares the empty store with the
\* account's positions, and its complaint is logged.
Restarted ==
    /\ Fault("crash") /\ running
    /\ StoreBecomes([held |-> [m \in Markets |-> Flat], seen |-> {}, cash |-> 0])
    /\ listed' = {}
    /\ cyc' = Top
    /\ UNCHANGED <<grainBook, issued, trades, running, ib, futures>>

\* The heartbeat finds the connection lost, and restores it.
IbTurns ==
    /\ ib' = ~ib
    /\ UNCHANGED <<positionVars, grainBook, issued, trades, listed, cyc, running, futures>>

OrderFills ==
    /\ Len(trades) < MaxTrades
    /\ \E o \in grainBook :
         /\ grainBook' = grainBook \ {o}
         /\ trades' = Append(trades, [id |-> o.id, mkt |-> o.mkt, side |-> "yes", count |-> 1,
                action |-> IF o.side = "bid" THEN "buy" ELSE "sell",
                price |-> IF o.side = "bid" THEN BidPx ELSE AskPx])
    /\ UNCHANGED <<positionVars, issued, listed, cyc, running, ib, futures>>

GrainNext ==
    \/ CycleLists \/ ClearOne \/ Cleared \/ Quoting \/ PlaceOne \/ Placed \/ FillsPolled
    \/ Hedging \/ CycleRaises \/ KillCheck \/ CancelAttempt \/ CancelsEnd
    \/ NextCycle \/ SignalReceived \/ Restarted \/ IbTurns \/ OrderFills

GrainSpec == GrainInit /\ [][GrainNext]_grainVars

-----------------------------------------------------------------------------
\* At the end of a cycle the account has the cycle's quotes and the orders that
\* the cycle could not see or cancel, nothing else: no quote outlives the next
\* cycle unless a request has failed, whatever was filled or killed in between.
LeftoversExplained == cyc.at \in {"asleep", "failed"} => Ids \subseteq cyc.new \cup cyc.missed

\* deploy/main.py, shutdown(): "Graceful shutdown: cancel all orders".
ShutdownClears == cyc.at = "down" => grainBook = {}
=============================================================================
