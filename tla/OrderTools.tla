----------------------------- MODULE OrderTools -----------------------------
(***************************************************************************)
(* The operator's tools that change orders around apply(): the cancel of   *)
(* one order (lipmm/control/server.py, post_cancel_order), and the sweep   *)
(* that kill, shutdown and remove_event run                                *)
(* (LIPRunner.cancel_all_resting, post_remove_event): a batch cancel, then *)
(* a reconcile of the manager's whole view, without any key's lock.        *)
(*                                                                         *)
(* Both run as tasks of their own beside the callers of apply().           *)
(***************************************************************************)
EXTENDS OrderManager

CONSTANTS
    Cancellers,    \* tasks that serve POST /control/cancel_order
    Sweepers,      \* tasks that sweep
    SweepFaults,   \* what the cancels of a sweep may meet: "some" of a batch is
                   \* left, it "raises"; a single one is "refused", "unreached",
                   \* "unanswered"
    BatchLimit     \* the largest batch the client's write bucket can pay for

ASSUME ToolsAssumption ==
    /\ Cancellers \subseteq Tasks \ {Booter}
    /\ Sweepers \subseteq Tasks \ {Booter}
    /\ Cancellers \cap Sweepers = {}
    /\ SweepFaults \subseteq {"some", "raises", "refused", "unreached", "unanswered"}
    /\ BatchLimit \in Nat

VARIABLES
    sweep,    \* sweeper -> the cancelling part of its sweep
    slipped,  \* history: a tool has dropped an order it should not have
    spared    \* history: orders that a sweep had in its list and left, its
              \* request having failed or never been sent

tools == <<sweep, slipped, spared>>
toolVars == <<open, issued, resting, lock, call, cash, booted, crashes, sweep,
              slipped, spared>>

Callers == Tasks \ (Cancellers \cup Sweepers)

NoSweep == [stage |-> "idle", ids |-> {}]

ToolsInit ==
    /\ Init
    /\ sweep = [t \in Sweepers |-> NoSweep]
    /\ slipped = FALSE
    /\ spared = {}

Tracks(o) == resting[o.key] # None /\ resting[o.key].id = o.id

-----------------------------------------------------------------------------
(* POST /control/cancel_order.                                             *)

\* The order is looked up, and the key's lock waited for.
FindOrder(t, k) ==
    /\ call[t].stage = "idle"
    /\ resting[k] # None
    /\ call' = [call EXCEPT ![t] =
          [@ EXCEPT !.stage = "queued", !.key = k, !.want = Skip,
                    !.oid = resting[k].id]]
    /\ UNCHANGED <<book, resting, lock, cash, booted, crashes, tools>>

\* With the lock, the order that was looked up is cancelled.
PullOrder(t) ==
    /\ Granted(t)
    /\ Enter(t, "cancel", call[t].oid)
    /\ UNCHANGED <<book, resting, cash, booted, crashes, tools>>

\* The key tracks another order by now than the one that was cancelled.
StaleForget(t) ==
    \E o \in open : Tracks(o) /\ call[t].key = o.key /\ call[t].oid # o.id

\* forget(): whatever the key tracks by now is dropped, on True and on False;
\* an exception answers 500 and forgets nothing.
OrderPulled(t) ==
    /\ OnSkipCancel(t)
    /\ slipped' = (slipped \/ (call[t].reply # "error" /\ StaleForget(t)))
    /\ UNCHANGED <<sweep, spared>>

-----------------------------------------------------------------------------
(* The sweep.                                                              *)

\* The ids of what is tracked on the keys; with none the sweep is over.
StartSweep(t, ks) ==
    LET ids == {resting[k].id : k \in {j \in ks : resting[j] # None}}
    IN  /\ sweep[t].stage = "idle"
        /\ call[t].stage = "idle"
        /\ sweep' = [sweep EXCEPT ![t] =
               IF ids = {} THEN NoSweep ELSE [stage |-> "batch", ids |-> ids]]
        /\ UNCHANGED <<slipped, spared>>

Drop(ids) ==
    /\ open' = {o \in open : o.id \notin ids}
    /\ UNCHANGED issued

Spare(ids) == spared' = spared \cup ids

\* A batch costs a token of the bucket for each order.  One that costs more
\* than the bucket ever holds waits in the client for good: it is not sent,
\* and it does not raise.
TooLarge(t) == sweep[t].stage = "batch" /\ Cardinality(sweep[t].ids) > BatchLimit

\* The cancelling part is over: reconcile() follows in the same task.
ThenReconcile(t) ==
    /\ sweep' = [sweep EXCEPT ![t] = NoSweep]
    /\ call' = [call EXCEPT ![t] = [@ EXCEPT !.stage = "list"]]
    /\ UNCHANGED slipped

\* The batch is answered with 200, though it may not have cancelled all; the
\* adapter's verifying list only changes the count that is reported.
BatchAnswered(t) ==
    /\ sweep[t].stage = "batch" /\ ~TooLarge(t)
    /\ \E left \in SUBSET sweep[t].ids :
         /\ left = {} \/ "some" \in SweepFaults
         /\ Drop(sweep[t].ids \ left)
         /\ Spare(left)
    /\ ThenReconcile(t)
    /\ UNCHANGED <<resting, lock, cash, booted, crashes>>

\* Mutant of BatchRaised: a batch that raises is not followed up.
BatchRaisedGivesUp(t) ==
    /\ "raises" \in SweepFaults
    /\ sweep[t].stage = "batch" /\ ~TooLarge(t)
    /\ \E ids \in SUBSET sweep[t].ids : Drop(ids)
    /\ ThenReconcile(t)
    /\ UNCHANGED <<resting, lock, cash, booted, crashes, spared>>

\* The batch raises: the orders are cancelled one by one.
BatchRaised(t) ==
    /\ "raises" \in SweepFaults
    /\ sweep[t].stage = "batch" /\ ~TooLarge(t)
    /\ \E ids \in SUBSET sweep[t].ids : Drop(ids)
    /\ sweep' = [sweep EXCEPT ![t].stage = "each"]
    /\ UNCHANGED <<resting, lock, call, cash, booted, crashes, slipped, spared>>

\* Mutant of PullOne: the loop does not see that it has tried the last order.
PullOneNeverDone(t, id) ==
    /\ sweep[t].stage = "each"
    /\ id \in sweep[t].ids
    /\ Drop({id})
    /\ sweep' = [sweep EXCEPT ![t].ids = @ \ {id}]
    /\ UNCHANGED <<resting, lock, call, cash, booted, crashes, slipped, spared>>

\* One order is cancelled, or was gone, or its cancel is refused.
PullOne(t, id) ==
    /\ sweep[t].stage = "each"
    /\ id \in sweep[t].ids
    /\ \/ Drop({id}) /\ UNCHANGED spared
       \/ "refused" \in SweepFaults /\ Spare({id}) /\ UNCHANGED book
    /\ IF sweep[t].ids = {id} THEN ThenReconcile(t)
       ELSE /\ sweep' = [sweep EXCEPT ![t].ids = @ \ {id}]
            /\ UNCHANGED <<call, slipped>>
    /\ UNCHANGED <<resting, lock, cash, booted, crashes>>

\* One cancel raises: the exception leaves the loop, the rest is not tried and
\* nothing is reconciled.
PullOneRaised(t, id) ==
    /\ sweep[t].stage = "each"
    /\ id \in sweep[t].ids
    /\ \/ "unreached" \in SweepFaults /\ Spare(sweep[t].ids) /\ UNCHANGED book
       \/ "unanswered" \in SweepFaults /\ Spare(sweep[t].ids \ {id}) /\ Drop({id})
    /\ sweep' = [sweep EXCEPT ![t] = NoSweep]
    /\ UNCHANGED <<resting, lock, call, cash, booted, crashes, slipped>>

\* The listing a sweep is about to install was taken before the order it would
\* drop was placed.
StaleListing(t) ==
    \E o \in open : Tracks(o) /\ o.id \notin {s.id : s \in call[t].seen}

\* reconcile() of a sweep: the whole view is replaced, with no key's lock.
SweepRebuild(t) ==
    /\ Rebuild(t)
    /\ slipped' = (slipped \/ (call[t].reply # "error" /\ StaleListing(t)))
    /\ UNCHANGED <<sweep, spared>>

Sweeping(t) ==
    \/ BatchAnswered(t) \/ BatchRaised(t)
    \/ \E id \in OrderIds : PullOne(t, id) \/ PullOneRaised(t, id)

-----------------------------------------------------------------------------
ApplySteps(t) ==
    /\ Acquire(t) \/ Answer(t) \/ Resume(t)
    /\ UNCHANGED tools

CancelSteps(t) ==
    \/ PullOrder(t)
    \/ Answer(t) /\ UNCHANGED tools
    \/ OrderPulled(t)

SweepSteps(t) ==
    \/ Sweeping(t)
    \/ Answer(t) /\ UNCHANGED tools
    \/ SweepRebuild(t)

BootSteps ==
    /\ \/ ~booted /\ Reconcile(Booter)
       \/ Rebuild(Booter)
    /\ UNCHANGED tools

ToolsNext ==
    \/ BootSteps
    \/ \E t \in Callers : ApplySteps(t)
    \/ \E t \in Callers, k \in Keys, d \in Decisions :
         booted /\ Apply(t, k, d) /\ UNCHANGED tools
    \/ \E t \in Cancellers, k \in Keys : FindOrder(t, k)
    \/ \E t \in Cancellers : CancelSteps(t)
    \/ \E t \in Sweepers : StartSweep(t, Keys) /\ UNCHANGED <<book, manager>>
    \/ \E t \in Sweepers : SweepSteps(t)
    \/ MarketMoves /\ UNCHANGED tools

\* As for the order manager; the requests of a sweep are answered or raise too,
\* once the bucket has let them go.
ToolsFairness ==
    /\ \A t \in Callers :
         /\ WF_toolVars(Answer(t) /\ UNCHANGED tools)
         /\ WF_toolVars(Resume(t) /\ UNCHANGED tools)
         /\ SF_toolVars(Acquire(t) /\ UNCHANGED tools)
    /\ \A t \in Cancellers :
         /\ WF_toolVars(Answer(t) /\ UNCHANGED tools)
         /\ WF_toolVars(OrderPulled(t))
         /\ SF_toolVars(PullOrder(t))
    /\ \A t \in Sweepers : WF_toolVars(SweepSteps(t))

ToolsSpec == ToolsInit /\ [][ToolsNext]_toolVars /\ ToolsFairness

-----------------------------------------------------------------------------
(* Properties.                                                             *)

\* Beside apply(), the tools endanger the view in two ways only: a cancel-by-id
\* forgets an order placed since its lookup, and a sweep installs a listing
\* older than an order.  Until one of them happens no interleaving of callers,
\* cancels and sweeps loses an order from view or doubles a quote.
SafeUntilSlip ==
    ~slipped => NothingUntracked /\ OneOrderPerKey

\* A sweep ends whatever its cancels meet, its fallback included, unless its
\* batch is larger than the bucket: that one stays where it is.
SweepsEnd ==
    \A t \in Sweepers :
        sweep[t].stage # "idle" /\ ~TooLarge(t)
          ~> sweep[t].stage = "idle" /\ call[t].stage = "idle"

\* The cancel-by-id takes the key's lock, so that it cannot race an apply() on
\* the key: the order it makes the manager forget is the one it cancelled.
CancelForgetsItsOrder ==
    [][\A t \in Cancellers :
         OrderPulled(t) /\ call[t].reply # "error" => ~StaleForget(t)]_toolVars
=============================================================================
