---------------------------- MODULE BotLifecycle ----------------------------
(***************************************************************************)
(* A session of the LIP bot from start to exit (deploy/lipmm_run.py): the  *)
(* sweep of the orders an earlier session left, the seed events, the       *)
(* server and the runner, and on a signal the wait for the runner, the     *)
(* sweep of its orders and the end of the other services.                  *)
(*                                                                         *)
(* What the runner and the dashboard do meanwhile is reduced to orders     *)
(* being placed; LipRunner has the rest.                                   *)
(***************************************************************************)
EXTENDS Integers, FiniteSets, FiniteSetsExt

CONSTANTS
    Seeds,        \* seed_event_tickers
    LeftOver,     \* orders of the earlier session
    ListingSize,  \* orders a listing returns
    MaxPlaced,    \* bound: orders placed in the session
    LifeFaults    \* what may fail: "list", "cancel", "slow", "event"

ASSUME LifeAssumption ==
    /\ ListingSize \in Nat \ {0} /\ MaxPlaced \in Nat /\ LeftOver \in Nat
    /\ LifeFaults \subseteq {"list", "cancel", "slow", "event"}

Placers == {"runner", "dashboard"}

VARIABLES
    stage,       \* how far _amain is
    active,      \* ControlState's events
    onExchange,  \* the orders on the exchange
    placed,      \* orders placed so far, by number
    view,        \* what the order manager tracks
    underway,    \* sender -> the order whose answer it awaits, or 0
    arrived,     \* of these, the ones the exchange has executed
    excuses      \* history: orders nobody could have cancelled, and why

lifeVars == <<stage, active, onExchange, placed, view, underway, arrived, excuses>>

LifeInit ==
    /\ stage = "zombies"
    /\ active = {}
    /\ onExchange = 1 .. LeftOver
    /\ placed = LeftOver
    /\ view = {}
    /\ underway = [s \in Placers |-> 0]
    /\ arrived = {}
    /\ excuses = {}

Excused(orders, why) == excuses \cup {<<o, why>> : o \in orders}

\* list_resting_orders: a page of the open orders, or an exception.
PageOf(orders) == {page \in SUBSET orders :
    Cardinality(page) = Min({Cardinality(orders), ListingSize})}

\* cancel_orders: those whose cancel fails stay.
Survivors(orders) == IF "cancel" \in LifeFaults THEN SUBSET orders ELSE {{}}

\* The sweep of the zombies; when the listing fails the start proceeds.
ZombiesSwept ==
    /\ stage = "zombies"
    /\ stage' = "seeding"
    /\ \/ \E page \in PageOf(onExchange) : \E left \in Survivors(page) :
            onExchange' = (onExchange \ page) \cup left
       \/ "list" \in LifeFaults /\ UNCHANGED onExchange
    /\ UNCHANGED <<active, placed, view, underway, arrived, excuses>>

\* An event that cannot be fetched is skipped.
SeedsAdded ==
    /\ stage = "seeding"
    /\ stage' = "serving"
    /\ \E known \in IF "event" \in LifeFaults THEN SUBSET Seeds ELSE {Seeds} : active' = known
    /\ UNCHANGED <<onExchange, placed, view, underway, arrived, excuses>>

\* The server is up before the runner begins with its reconcile, whose failure
\* is logged.
RunnerStarts ==
    /\ stage = "serving"
    /\ stage' = "running"
    /\ \/ \E page \in PageOf(onExchange) :
            view' = page /\ excuses' = Excused(onExchange \ page, "unlisted")
       \/ /\ "list" \in LifeFaults
          /\ excuses' = Excused(onExchange \ view, "unlisted")
          /\ UNCHANGED view
    /\ UNCHANGED <<active, onExchange, placed, underway, arrived>>

\* The dashboard's server lives until the very end, the runner as long as its
\* task.
Alive(s) == IF s = "runner" THEN stage \in {"running", "stopping"}
            ELSE stage \in {"serving", "running", "stopping", "sweeping", "pulling",
                            "recounting", "closing"}

Sends(s) ==
    /\ Alive(s) /\ underway[s] = 0 /\ placed < MaxPlaced
    /\ s = "runner" => active # {}
    /\ placed' = placed + 1
    /\ underway' = [underway EXCEPT ![s] = placed + 1]
    /\ UNCHANGED <<stage, active, onExchange, view, arrived, excuses>>

\* External: the order rests; somebody may take it at any time.
Executes(s) ==
    /\ underway[s] > 0 /\ underway[s] \notin arrived
    /\ arrived' = arrived \cup {underway[s]}
    /\ onExchange' = onExchange \cup {underway[s]}
    /\ UNCHANGED <<stage, active, placed, view, underway, excuses>>

TakenByOthers ==
    /\ \E o \in onExchange : onExchange' = onExchange \ {o}
    /\ UNCHANGED <<stage, active, placed, view, underway, arrived, excuses>>

\* The answer: the order is tracked.  Once the sweep has collected its orders
\* it is too late for one that was placed by hand.
Records(s) ==
    /\ underway[s] \in arrived
    /\ view' = view \cup {underway[s]}
    /\ excuses' = IF s = "dashboard" /\ stage \in {"pulling", "recounting", "closing"}
                  THEN Excused({underway[s]}, "late") ELSE excuses
    /\ underway' = [underway EXCEPT ![s] = 0]
    /\ UNCHANGED <<stage, active, onExchange, placed, arrived>>

\* _on_signal: the loop ends after its current cycle.
Signalled ==
    /\ stage = "running"
    /\ stage' = "stopping"
    /\ UNCHANGED <<active, onExchange, placed, view, underway, arrived, excuses>>

\* Mutant of RunnerEnds: the sweep does not wait for the runner.
RunnerEndsUnawaited ==
    /\ stage = "stopping"
    /\ stage' = "sweeping"
    /\ UNCHANGED <<active, onExchange, placed, view, underway, arrived, excuses>>

\* The loop is over.  Its task raises nothing, or the sweep would be skipped: the
\* exceptions of a cycle, of the listing and of the providers' warmup and
\* shutdown are caught, and the strategies' warmup and shutdown do nothing.
RunnerEnds ==
    /\ stage = "stopping" /\ underway["runner"] = 0
    /\ stage' = "sweeping"
    /\ UNCHANGED <<active, onExchange, placed, view, underway, arrived, excuses>>

\* Ten seconds are over: the task is cancelled wherever it is, and an order it
\* has sent may rest or not.
RunnerCut ==
    /\ stage = "stopping" /\ "slow" \in LifeFaults
    /\ stage' = "sweeping"
    /\ LET o == underway["runner"]
       IN  /\ excuses' = Excused({o} \ {0}, "cut off")
           /\ onExchange' \in {onExchange, onExchange \cup ({o} \ ({0} \cup arrived))}
    /\ underway' = [underway EXCEPT !["runner"] = 0]
    /\ UNCHANGED <<active, placed, view, arrived>>

\* cancel_all_resting collects what is tracked; nothing tracked, nothing done.
SweepCollected ==
    /\ stage = "sweeping"
    /\ stage' = IF view = {} THEN "closing" ELSE "pulling"
    /\ UNCHANGED <<active, onExchange, placed, view, underway, arrived, excuses>>

\* The batch, or its fallback; "wanted" are the identifiers collected, without
\* what has been recorded since.
Wanted == {o \in view : <<o, "late">> \notin excuses}

SweepPulls ==
    /\ stage = "pulling"
    /\ stage' = "recounting"
    /\ \E left \in Survivors(Wanted) :
         /\ onExchange' = onExchange \ (Wanted \ left)
         /\ excuses' = Excused(left, "not cancelled")
    /\ UNCHANGED <<active, placed, view, underway, arrived>>

\* reconcile, or the exception that ends the sweep.
Recounted ==
    /\ stage = "recounting"
    /\ stage' = "closing"
    /\ \/ \E page \in PageOf(onExchange) : view' = page
       \/ "list" \in LifeFaults /\ UNCHANGED view
    /\ UNCHANGED <<active, onExchange, placed, underway, arrived, excuses>>

\* Fifteen seconds are over: the rest is left where it is.
SweepTimesOut ==
    /\ stage \in {"pulling", "recounting"} /\ "slow" \in LifeFaults
    /\ stage' = "closing"
    /\ excuses' = Excused(onExchange \cap view, "not cancelled")
    /\ UNCHANGED <<active, onExchange, placed, view, underway, arrived>>

\* The loggers, the retention, the server with the requests it has, the client.
Closed ==
    /\ stage = "closing"
    /\ stage' = "ended"
    /\ LET o == underway["dashboard"]
       IN  /\ excuses' = Excused({o} \ {0}, "late")
           /\ onExchange' \in {onExchange, onExchange \cup ({o} \ ({0} \cup arrived))}
    /\ underway' = [underway EXCEPT !["dashboard"] = 0]
    /\ UNCHANGED <<active, placed, view, arrived>>

LifeNext ==
    \/ ZombiesSwept \/ SeedsAdded \/ RunnerStarts \/ TakenByOthers
    \/ \E s \in Placers : Sends(s) \/ Executes(s) \/ Records(s)
    \/ Signalled \/ RunnerEnds \/ RunnerCut
    \/ SweepCollected \/ SweepPulls \/ Recounted \/ SweepTimesOut \/ Closed

-----------------------------------------------------------------------------
\* After the exit, an order that rests is one no listing showed, one the runner
\* was cut off from, one whose cancel failed or was not awaited, or one placed
\* by hand after the sweep had collected its orders.
LeftBehindExplained ==
    stage = "ended" => onExchange \subseteq {e[1] : e \in excuses}
=============================================================================
