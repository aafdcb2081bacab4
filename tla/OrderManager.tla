---------------------------- MODULE OrderManager ----------------------------
(***************************************************************************)
(* lipmm/execution/order_manager.py: the per-(ticker, side) order state    *)
(* machine, run by concurrent asyncio tasks against an exchange that       *)
(* answers late, refuses, or never answers.                                *)
(*                                                                         *)
(* A task runs without interruption between two awaits, so an action is    *)
(* the code from one await to the next: a call queues for the key's lock,  *)
(* takes it and decides, and then waits for one exchange request after     *)
(* another.  The exchange's execution of a request and the task's resuming *)
(* on the answer are separate steps.                                       *)
(***************************************************************************)
EXTENDS KalshiExchange, FiniteSetsExt

CONSTANTS
    Tasks,       \* asyncio tasks that call apply()
    Booter,      \* the task that reconciles at startup (the runner)
    Faults,      \* <<request, how>> pairs: the faults requests can meet
    MaxTries,    \* attempts the REST client makes before it raises
    MaxCrashes,  \* bound: process restarts in a behaviour
    CashLevels,  \* balances the runner may push in; None: unknown
    FullPrice,   \* cents a contract pays: 100
    Skip         \* the decision not to quote

Decisions == Quotes \cup {Skip}
Tracked == [id : OrderIds, quote : Quotes]

FaultKinds == {"place", "amend", "cancel", "list"}
                \X {"unreached", "unanswered", "refused"}

\* An amend or a cancel that is executed, and not answered.
UnansweredFaults == {"amend", "cancel"} \X {"unanswered"}

ASSUME ManagerAssumption ==
    /\ Booter \in Tasks
    /\ None \notin Tasks \cup Tracked
    /\ Skip \notin Quotes \cup {None}
    /\ Faults \subseteq FaultKinds
    /\ MaxTries \in Nat \ {0}
    /\ MaxCrashes \in Nat
    /\ CashLevels \subseteq Nat \cup {None}
    /\ FullPrice \in Nat

VARIABLES
    resting,  \* the manager's view: key -> the order it believes rests there
    lock,     \* key -> the task inside the key's critical section
    call,     \* task -> the frame of the call it is executing
    cash,     \* the cached available cash, in cents
    booted,   \* the startup reconcile has returned
    crashes   \* restarts so far

manager == <<resting, lock, call, cash, booted, crashes>>
vars == <<open, issued, resting, lock, call, cash, booted, crashes>>

\* The request each stage of a call waits for.  "cancel" is the skip path,
\* "replace" the cancel of a failed amend, "place" and "instead" the new
\* order of an empty side and of a replaced one, "list" a reconcile.
Request == [cancel |-> "cancel", replace |-> "cancel", amend |-> "amend",
            place |-> "place", instead |-> "place", list |-> "list"]
Stages == {"idle", "queued", "cancel", "replace", "amend", "place", "instead",
           "list"}

Frame == [stage : Stages, key : Keys \cup {None},
          want : Decisions \cup {None}, oid : 0 .. MaxOrders,
          tries : 0 .. MaxTries, reply : {"none", "ok", "refused", "error"},
          seen : SUBSET Orders]

Idle == [stage |-> "idle", key |-> None, want |-> None, oid |-> 0,
         tries |-> 0, reply |-> "none", seen |-> {}]

\* An asyncio task is inside apply()'s `async with` block.
Holding == {"cancel", "replace", "amend", "place", "instead"}
Inside(t) == call[t].stage \in Holding
Waiting(t) == call[t].stage \in DOMAIN Request /\ call[t].reply = "none"
Answered(t) == call[t].stage \in DOMAIN Request /\ call[t].reply # "none"

TypeOK ==
    /\ BookTypeOK
    /\ resting \in [Keys -> Tracked \cup {None}]
    /\ lock \in [Keys -> Tasks \cup {None}]
    /\ call \in [Tasks -> Frame]
    /\ cash \in CashLevels \cup {None}
    /\ booted \in BOOLEAN
    /\ crashes \in 0 .. MaxCrashes

Init ==
    /\ EmptyBook
    /\ resting = [k \in Keys |-> None]
    /\ lock = [k \in Keys |-> None]
    /\ call = [t \in Tasks |-> Idle]
    /\ cash = None
    /\ booted = FALSE
    /\ crashes = 0

-----------------------------------------------------------------------------
(* The collateral check of _place_new.                                     *)

\* Cents one order commits: a bid pays its price, an ask the complement.
Cost(k, q) ==
    q.sz * (IF k[2] = "bid" THEN q.px
            ELSE IF q.px < FullPrice THEN FullPrice - q.px ELSE 0)

\* What the manager's view commits on the other keys; the key a new order is
\* placed on is empty in the view by then.
CommittedBeside(k) ==
    MapThenSumSet(LAMBDA j : Cost(j, resting[j].quote),
                  {j \in Keys \ {k} : resting[j] # None})

\* committed + new <= 0.9 * cash, when the cash is known.
Affordable(k, q) ==
    cash # None => 10 * (CommittedBeside(k) + Cost(k, q)) <= 9 * cash

-----------------------------------------------------------------------------
(* apply(): up to the first request.                                       *)

\* A caller enters apply() and waits for the key's lock.
Apply(t, k, d) ==
    /\ call[t].stage = "idle"
    /\ call' = [call EXCEPT ![t] =
                   [@ EXCEPT !.stage = "queued", !.key = k, !.want = d]]
    /\ UNCHANGED <<book, resting, lock, cash, booted, crashes>>

\* The lock is free and the task is resumed with it.
Granted(t) ==
    /\ call[t].stage = "queued"
    /\ lock[call[t].key] = None

\* The call returns: the frame goes, the lock is released.
Return(t) ==
    /\ call' = [call EXCEPT ![t] = Idle]
    /\ lock' = [lock EXCEPT ![call[t].key] = None]

\* Mutant of Enter: the lock is dropped before the first await.
EnterUnlocked(t, s, id) ==
    /\ call' = [call EXCEPT ![t] = [@ EXCEPT !.stage = s, !.oid = id]]
    /\ UNCHANGED lock

\* The call sends its first request, holding the lock.
Enter(t, s, id) ==
    /\ call' = [call EXCEPT ![t] = [@ EXCEPT !.stage = s, !.oid = id]]
    /\ lock' = [lock EXCEPT ![call[t].key] = t]

\* The call sends a further request.
GoOn(t, s) ==
    /\ call' = [call EXCEPT ![t] =
                   [@ EXCEPT !.stage = s, !.reply = "none", !.tries = 0]]
    /\ UNCHANGED lock

\* Nothing to do: a skip with nothing resting, an order that matches the
\* decision, or a new order the cached cash cannot carry.
ReturnAtOnce(t) ==
    /\ Granted(t)
    /\ LET k == call[t].key
           d == call[t].want
       IN  \/ d = Skip /\ resting[k] = None
           \/ d # Skip /\ resting[k] # None /\ resting[k].quote = d
           \/ d # Skip /\ resting[k] = None /\ ~Affordable(k, d)
    /\ call' = [call EXCEPT ![t] = Idle]
    /\ UNCHANGED <<book, resting, lock, cash, booted, crashes>>

SkipCancel(t) ==
    /\ Granted(t)
    /\ call[t].want = Skip
    /\ resting[call[t].key] # None
    /\ Enter(t, "cancel", resting[call[t].key].id)
    /\ UNCHANGED <<book, resting, cash, booted, crashes>>

TryAmend(t) ==
    /\ Granted(t)
    /\ call[t].want # Skip
    /\ resting[call[t].key] # None
    /\ resting[call[t].key].quote # call[t].want
    /\ Enter(t, "amend", resting[call[t].key].id)
    /\ UNCHANGED <<book, resting, cash, booted, crashes>>

TryPlace(t) ==
    /\ Granted(t)
    /\ call[t].want # Skip
    /\ resting[call[t].key] = None
    /\ Affordable(call[t].key, call[t].want)
    /\ Enter(t, "place", 0)
    /\ UNCHANGED <<book, resting, cash, booted, crashes>>

Acquire(t) == ReturnAtOnce(t) \/ SkipCancel(t) \/ TryAmend(t) \/ TryPlace(t)

-----------------------------------------------------------------------------
(* What becomes of a request: the adapter's answers, and the client's      *)
(* attempts.  The client repeats an attempt that met a transport error, a  *)
(* 429 or a 5xx, and raises when the attempts are used up (at once for     *)
(* 401, 403 and a malformed body): the attempt may or may not have been    *)
(* executed by the exchange.  No request carries an idempotency key.       *)

\* The task is answered, about order id.
Reply(t, r, id) ==
    call' = [call EXCEPT ![t] = [@ EXCEPT !.reply = r, !.oid = id]]

\* The request as the exchange executes it.
Execute(t) ==
    CASE Request[call[t].stage] = "place" -> Rest(call[t].key, call[t].want)
      [] Request[call[t].stage] = "amend" -> Reprice(call[t].oid, call[t].want)
      [] Request[call[t].stage] = "cancel" -> Pull(call[t].oid)
      [] OTHER -> UNCHANGED book

PlaceAccepted(t) ==
    /\ Waiting(t)
    /\ Request[call[t].stage] = "place"
    /\ Execute(t)
    /\ Reply(t, "ok", issued + 1)
    /\ UNCHANGED <<resting, lock, cash, booted, crashes>>

AmendAccepted(t) ==
    /\ Waiting(t)
    /\ Request[call[t].stage] = "amend"
    /\ Execute(t)
    /\ Reply(t, "ok", call[t].oid)
    /\ UNCHANGED <<resting, lock, cash, booted, crashes>>

CancelAcknowledged(t) ==
    /\ Waiting(t)
    /\ Request[call[t].stage] = "cancel"
    /\ Execute(t)
    /\ Reply(t, "ok", call[t].oid)
    /\ UNCHANGED <<resting, lock, cash, booted, crashes>>

\* place and amend: a 4xx (post-only cross, collateral, order gone), which the
\* adapter returns as None.
OrderRejected(t) ==
    /\ Waiting(t)
    /\ Request[call[t].stage] \in {"place", "amend"}
    /\ Reply(t, "refused", call[t].oid)
    /\ UNCHANGED <<book, resting, lock, cash, booted, crashes>>

\* cancel: 404 for an order that is gone, or (a fault) another 4xx for one that
\* is not; the adapter returns False for both.
CancelRejected(t) ==
    /\ Waiting(t)
    /\ Request[call[t].stage] = "cancel"
    /\ ~IsOpen(call[t].oid) \/ <<"cancel", "refused">> \in Faults
    /\ Reply(t, "refused", call[t].oid)
    /\ UNCHANGED <<book, resting, lock, cash, booted, crashes>>

\* GET /portfolio/orders: the open orders at that instant.
ListAnswered(t) ==
    /\ Waiting(t)
    /\ call[t].stage = "list"
    /\ call' = [call EXCEPT ![t] = [@ EXCEPT !.reply = "ok", !.seen = open]]
    /\ UNCHANGED <<book, resting, lock, cash, booted, crashes>>

\* No answer to this attempt: the next one, or the exception.
Unanswered(t) ==
    \/ /\ call[t].tries + 1 < MaxTries
       /\ call' = [call EXCEPT ![t].tries = @ + 1]
    \/ Reply(t, "error", call[t].oid)

RequestLost(t) ==
    /\ Waiting(t)
    /\ <<Request[call[t].stage], "unreached">> \in Faults
    /\ Unanswered(t)
    /\ UNCHANGED <<book, resting, lock, cash, booted, crashes>>

ResponseLost(t) ==
    /\ Waiting(t)
    /\ <<Request[call[t].stage], "unanswered">> \in Faults
    /\ Execute(t)
    /\ Unanswered(t)
    /\ UNCHANGED <<resting, lock, cash, booted, crashes>>

Answer(t) ==
    \/ PlaceAccepted(t) \/ AmendAccepted(t) \/ CancelAcknowledged(t)
    \/ OrderRejected(t) \/ CancelRejected(t) \/ ListAnswered(t)
    \/ RequestLost(t) \/ ResponseLost(t)

-----------------------------------------------------------------------------
(* apply(): resumed on an answer.                                          *)

\* The skip path: the order is forgotten on True and on False alike, and kept
\* on an exception.
OnSkipCancel(t) ==
    /\ Answered(t)
    /\ call[t].stage = "cancel"
    /\ resting' = IF call[t].reply = "error" THEN resting
                  ELSE [resting EXCEPT ![call[t].key] = None]
    /\ Return(t)
    /\ UNCHANGED <<book, cash, booted, crashes>>

\* Mutant of OnAmended: the view keeps the terms from before the amend.
OnAmendedStale(t) ==
    /\ Answered(t)
    /\ call[t].stage = "amend"
    /\ call[t].reply = "ok"
    /\ Return(t)
    /\ UNCHANGED <<book, resting, cash, booted, crashes>>

\* amend returned an order: its new terms are recorded.
OnAmended(t) ==
    /\ Answered(t)
    /\ call[t].stage = "amend"
    /\ call[t].reply = "ok"
    /\ resting' = [resting EXCEPT ![call[t].key] =
                      [id |-> call[t].oid, quote |-> call[t].want]]
    /\ Return(t)
    /\ UNCHANGED <<book, cash, booted, crashes>>

\* Mutant of OnAmendFailed: the replacement goes out without the cancel.
OnAmendFailedNoCancel(t) ==
    /\ Answered(t)
    /\ call[t].stage = "amend"
    /\ call[t].reply # "ok"
    /\ GoOn(t, "instead")
    /\ resting' = [resting EXCEPT ![call[t].key] = None]
    /\ UNCHANGED <<book, cash, booted, crashes>>

\* amend returned None or raised: cancel the order instead.
OnAmendFailed(t) ==
    /\ Answered(t)
    /\ call[t].stage = "amend"
    /\ call[t].reply # "ok"
    /\ GoOn(t, "replace")
    /\ UNCHANGED <<book, resting, cash, booted, crashes>>

\* The cancel of a failed amend has answered or raised, it does not matter
\* which: the side is taken to be empty and the new order is placed, if the
\* cached cash can carry it.
OnReplaceCancel(t) ==
    /\ Answered(t)
    /\ call[t].stage = "replace"
    /\ resting' = [resting EXCEPT ![call[t].key] = None]
    /\ \/ Affordable(call[t].key, call[t].want) /\ GoOn(t, "instead")
       \/ ~Affordable(call[t].key, call[t].want) /\ Return(t)
    /\ UNCHANGED <<book, cash, booted, crashes>>

\* Mutant of OnPlaced: the new order is not recorded.
OnPlacedUnrecorded(t) ==
    /\ Answered(t)
    /\ Request[call[t].stage] = "place"
    /\ call[t].reply = "ok"
    /\ Return(t)
    /\ UNCHANGED <<book, resting, cash, booted, crashes>>

\* place_order returned the order: it is recorded.
OnPlaced(t) ==
    /\ Answered(t)
    /\ Request[call[t].stage] = "place"
    /\ call[t].reply = "ok"
    /\ resting' = [resting EXCEPT ![call[t].key] =
                      [id |-> call[t].oid, quote |-> call[t].want]]
    /\ Return(t)
    /\ UNCHANGED <<book, cash, booted, crashes>>

\* Mutant of OnPlaceFailed: the lock stays taken when the placement fails.
OnPlaceFailedLocked(t) ==
    /\ Answered(t)
    /\ Request[call[t].stage] = "place"
    /\ call[t].reply # "ok"
    /\ call' = [call EXCEPT ![t] = Idle]
    /\ UNCHANGED <<book, resting, lock, cash, booted, crashes>>

\* place_order returned None or raised: nothing is recorded.
OnPlaceFailed(t) ==
    /\ Answered(t)
    /\ Request[call[t].stage] = "place"
    /\ call[t].reply # "ok"
    /\ Return(t)
    /\ UNCHANGED <<book, resting, cash, booted, crashes>>

Resume(t) ==
    \/ OnSkipCancel(t) \/ OnAmended(t) \/ OnAmendFailed(t)
    \/ OnReplaceCancel(t) \/ OnPlaced(t) \/ OnPlaceFailed(t)

-----------------------------------------------------------------------------
(* reconcile(), the cash cache, and restarts.                              *)

\* reconcile() takes no key lock: it lists the open orders ...
Reconcile(t) ==
    /\ call[t].stage = "idle"
    /\ call' = [call EXCEPT ![t] = [@ EXCEPT !.stage = "list"]]
    /\ UNCHANGED <<book, resting, lock, cash, booted, crashes>>

\* ... and replaces the manager's view with the list.  Of several orders on a
\* key the last one listed stays.
Rebuild(t) ==
    /\ Answered(t)
    /\ call[t].stage = "list"
    /\ IF call[t].reply = "error" THEN UNCHANGED resting
       ELSE \E pick \in [Keys -> call[t].seen \cup {None}] :
              /\ \A k \in Keys :
                   IF \E o \in call[t].seen : o.key = k
                   THEN pick[k] # None /\ pick[k].key = k
                   ELSE pick[k] = None
              /\ resting' = [k \in Keys |->
                    IF pick[k] = None THEN None
                    ELSE [id |-> pick[k].id, quote |-> pick[k].quote]]
    /\ call' = [call EXCEPT ![t] = Idle]
    /\ booted' = (booted \/ t = Booter)
    /\ UNCHANGED <<book, lock, cash, crashes>>

\* The runner pushes in the balance it read, or None when the read failed.
SetAvailableCash(c) ==
    /\ cash' = c
    /\ UNCHANGED <<book, resting, lock, call, booted, crashes>>

\* The process dies and is started again: memory is lost, the book is not.
Crash ==
    /\ crashes < MaxCrashes
    /\ crashes' = crashes + 1
    /\ resting' = [k \in Keys |-> None]
    /\ lock' = [k \in Keys |-> None]
    /\ call' = [t \in Tasks |-> Idle]
    /\ cash' = None
    /\ booted' = FALSE
    /\ UNCHANGED book

-----------------------------------------------------------------------------
MarketMoves == Market /\ UNCHANGED manager

Next ==
    \/ \E t \in Tasks : Acquire(t) \/ Answer(t) \/ Resume(t)
    \/ \E t \in Tasks, k \in Keys, d \in Decisions : booted /\ Apply(t, k, d)
    \/ ~booted /\ Reconcile(Booter)
    \/ Rebuild(Booter)
    \/ \E c \in CashLevels : SetAvailableCash(c)
    \/ MarketMoves
    \/ Crash

\* A request is answered or raises (HTTP timeout, bounded attempts); the event
\* loop resumes a task whose answer has come; asyncio.Lock wakes its waiters in
\* the order they came, so a waiter of a lock that is released again and again
\* is not passed over for ever.
Fairness ==
    /\ \A t \in Tasks : WF_vars(Answer(t)) /\ WF_vars(Resume(t))
    /\ \A t \in Tasks : SF_vars(Acquire(t))
    /\ WF_vars(~booted /\ Reconcile(Booter)) /\ WF_vars(Rebuild(Booter))

Spec == Init /\ [][Next]_vars /\ Fairness

-----------------------------------------------------------------------------
(* Properties.                                                             *)

\* Mutual exclusion of the per-key asyncio.Lock: two calls never work on the
\* same key at once.
OneCallPerKey ==
    \A t, u \in Tasks :
        Inside(t) /\ Inside(u) /\ call[t].key = call[u].key => t = u

\* The exchange never carries two of the bot's orders on one (ticker, side):
\* amend, cancel-and-replace, a retried request and a restart never double the
\* quote.
OneOrderPerKey ==
    \A o, p \in open : o.key = p.key => o = p

\* A call has an order's acceptance in hand and has not recorded it yet.
InHand(o) ==
    \E t \in Tasks :
        /\ call[t].stage \in {"place", "instead"}
        /\ call[t].reply = "ok"
        /\ call[t].oid = o.id

\* No orphan: once the startup reconcile is done, every order that rests at the
\* exchange is the one the manager tracks on its key, so the next decision, a
\* kill or a shutdown can reach it.
NothingUntracked ==
    booted => \A o \in open :
        \/ resting[o.key] # None /\ resting[o.key].id = o.id
        \/ InHand(o)

\* The view is right between calls: where no call works on the key, the tracked
\* price is the order's, and the tracked size is at least what still rests.
ViewMatches ==
    \A o \in open :
        /\ resting[o.key] # None
        /\ resting[o.key].id = o.id
        /\ lock[o.key] = None
        => /\ resting[o.key].quote.px = o.quote.px
           /\ resting[o.key].quote.sz >= o.quote.sz

\* Every call returns: a caller waiting for a key's lock gets in and out again,
\* whatever the requests of the calls before it meet.
CallsReturn ==
    \A t \in Tasks : call[t].stage = "queued" ~> call[t].stage = "idle"

\* What the callers of apply() and the operator see of one key at the exchange.
SlotOf(k) ==
    IF \E o \in open : o.key = k
    THEN (CHOOSE o \in open : o.key = k).quote
    ELSE None

TargetOf(k) == IF lock[k] = None THEN None ELSE call[lock[k]].want

\* The order manager implements the abstract book of quote slots.
Slots == INSTANCE QuoteSlots WITH
            slot <- [k \in Keys |-> SlotOf(k)],
            target <- [k \in Keys |-> TargetOf(k)]

ImplementsSlots == Slots!Spec
=============================================================================
