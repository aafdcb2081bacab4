-------------------------- MODULE OrderManagerInv --------------------------
(***************************************************************************)
(* The inductive invariant of the order manager: why no order is doubled   *)
(* and none is lost.  It holds when no fault breaks what the view relies   *)
(* on: a placement is answered, a cancel reaches the exchange, and the     *)
(* startup listing succeeds.                                               *)
(***************************************************************************)
EXTENDS OrderManager

\* The faults after which the view and the exchange part for good.
HarmfulFaults ==
    {<<"place", "unanswered">>, <<"cancel", "unreached">>,
     <<"cancel", "refused">>}
       \cup ({"list"} \X {"unreached", "unanswered", "refused"})

BenignFaults == Faults \cap HarmfulFaults = {}

\* Before the startup reconcile nothing is tracked and nobody calls apply().
Boot ==
    /\ ~booted => \A k \in Keys : resting[k] = None
    /\ \A t \in Tasks :
         /\ call[t].stage = "list" => t = Booter /\ ~booted
         /\ ~booted => call[t].stage \in {"idle", "list"}

\* What a call carries at each stage.
ShapeOf(f) ==
    /\ f.stage \in {"idle", "queued"} => f.reply = "none"
    /\ f.stage \notin {"idle", "list"} => f.key \in Keys /\ f.want \in Decisions
    /\ f.stage \in {"amend", "replace", "place", "instead"} => f.want \in Quotes
    /\ f.stage \in {"cancel", "amend", "replace"} => f.oid \in OrderIds
    /\ f.stage \in {"place", "instead"} /\ f.reply = "ok" => f.oid \in OrderIds

Shape == \A t \in Tasks : ShapeOf(call[t])

\* A lock is held by the call inside the critical section, and by nobody else.
Locks ==
    /\ \A t \in Tasks : Inside(t) => lock[call[t].key] = t
    /\ \A k \in Keys : lock[k] # None =>
         Inside(lock[k]) /\ call[lock[k]].key = k

\* An identifier is issued once, and names one order.
Ids ==
    /\ \A o \in open : o.id <= issued
    /\ \A o, p \in open : o.id = p.id => o = p

\* What is tracked on a key was issued, and for this key.
View ==
    \A k \in Keys : resting[k] # None =>
        /\ resting[k].id <= issued
        /\ \A o \in open : o.id = resting[k].id => o.key = k

\* The order is at most the quote: fills take from it, nothing adds to it.
Within(o, q) == o.quote.px = q.px /\ o.quote.sz <= q.sz

\* A startup listing that has been answered covers the book.
ListOK(f) ==
    /\ f.reply = "ok"
    /\ \A o \in open : \E s \in f.seen :
         s.id = o.id /\ s.key = o.key /\ Within(o, s.quote)
    /\ \A s, r \in f.seen : s.key = r.key \/ s.id = r.id => s = r
    /\ \A s \in f.seen : s.id <= issued

Listing ==
    \A t \in Tasks :
        call[t].stage = "list" /\ call[t].reply # "none" => ListOK(call[t])

\* A call that cancels or amends works on the order its key tracks; once a
\* cancel has come back, whatever it said, that order is gone.
OnTracked(f) ==
    /\ resting[f.key] # None
    /\ resting[f.key].id = f.oid
    /\ f.stage \in {"cancel", "replace"} /\ f.reply # "none" =>
         \A o \in open : o.id # f.oid
    /\ f.stage = "amend" /\ f.reply = "ok" =>
         \A o \in open : o.id = f.oid => Within(o, f.want)

\* A call that places works on an empty key: nothing is tracked there, and
\* nothing rests there but the order it has just been told of.
OnEmpty(f) ==
    /\ resting[f.key] = None
    /\ f.reply # "ok" => \A o \in open : o.key # f.key
    /\ f.reply = "ok" =>
         /\ f.oid <= issued
         /\ \A o \in open : o.key = f.key <=> o.id = f.oid
         /\ \A o \in open : o.id = f.oid => Within(o, f.want)

WorkOK(f) ==
    /\ f.stage \in {"cancel", "amend", "replace"} => OnTracked(f)
    /\ f.stage \in {"place", "instead"} => OnEmpty(f)

Work == \A t \in Tasks : WorkOK(call[t])

\* Where no call is about to change it, the tracked quote covers the order.
Covered ==
    \A k \in Keys :
        /\ resting[k] # None
        /\ lock[k] = None \/ call[lock[k]].stage = "cancel"
        => \A o \in open : o.id = resting[k].id => Within(o, resting[k].quote)

\* Holds whatever the faults.
TInv == TypeOK /\ Shape /\ Locks

IInv ==
    /\ TInv /\ Boot /\ Ids /\ View /\ Listing /\ Work /\ Covered
    /\ OneOrderPerKey /\ NothingUntracked
=============================================================================
