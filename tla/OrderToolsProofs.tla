--------------------------- MODULE OrderToolsProofs --------------------------
(***************************************************************************)
(* No order is lost from view and no quote doubled until a tool has let    *)
(* one slip: for any set of strikes, prices and tasks.  The invariant says *)
(* nothing of what is tracked beside the identifiers, as a sweep replaces  *)
(* the view while calls are at work: a call is described by what rests at  *)
(* the exchange, not by what the manager tracks.                           *)
(***************************************************************************)
EXTENDS OrderTools, OrderManagerProofs

\* The faults after which an order may rest that nobody knows of: a placement
\* executed and not answered, and a cancel that leaves the order where it is.
\* A sweep may meet them all.
LosingFaults ==
    {<<"place", "unanswered">>, <<"cancel", "unreached">>, <<"cancel", "refused">>}

NothingLost == Faults \cap LosingFaults = {}

-----------------------------------------------------------------------------
(* The invariant.  The book, and how many orders were issued, are          *)
(* parameters, so that a frame can be compared with the next state's book. *)

\* One identifier per order, and one order per key.
BookOK(orders, n) ==
    /\ \A o \in orders : o.id <= n
    /\ \A o, p \in orders : o.id = p.id \/ o.key = p.key => o = p

\* What rests on the call's key is the order the call works on.
Aimed(f, orders) == \A o \in orders : o.key = f.key => o.id = f.oid

\* A listing that has been answered: one order per key, of the keys they have.
Listed(f, orders, n) ==
    /\ \A s \in f.seen : s.id <= n /\ \A o \in orders : o.id = s.id => o.key = s.key
    /\ \A s, r \in f.seen : s.key = r.key => s = r

\* A call in a given state of the book.
FrameOK(f, orders, n) ==
    /\ f.oid <= n
    /\ f.stage \in {"amend", "replace"} => Aimed(f, orders)
    /\ f.stage \in {"cancel", "replace"} /\ f.reply # "none" =>
         \A o \in orders : o.id # f.oid
    /\ f.stage \in {"place", "instead"} =>
         IF f.reply = "ok" THEN \A o \in orders : o.key = f.key <=> o.id = f.oid
         ELSE \A o \in orders : o.key # f.key
    /\ f.stage = "list" /\ f.reply = "ok" => Listed(f, orders, n)
    /\ f.stage = "list" => f.reply # "refused"

\* A cancel of the skip path, which is aimed as well.  (A cancel-by-id is aimed
\* at the order that was tracked when it was looked up.)
SkipOK(f, orders) == f.stage = "cancel" => Aimed(f, orders)

\* Every order that rests is tracked on its key, or in the hand of a call.
Reached == \A o \in open : Tracks(o) \/ InHand(o)

Safe ==
    /\ BookOK(open, issued)
    /\ \A k \in Keys : resting[k] # None => resting[k].id <= issued
    /\ Reached
    /\ \A t \in Tasks : FrameOK(call[t], open, issued)

-----------------------------------------------------------------------------
(* The book between two states.                                            *)

\* Nothing new rests, whatever its terms.
Thins(orders, orders2) ==
    /\ \A p \in orders2 : \E o \in orders : o.id = p.id /\ o.key = p.key
    /\ \A p, q \in orders2 : p.id = q.id \/ p.key = q.key => p = q

\* One order more, with the next identifier.
Grows(orders, orders2, n, k) ==
    \E p : p.id = n + 1 /\ p.key = k /\ orders2 = orders \cup {p}

LEMMA ThinsSub ==
  ASSUME NEW orders, NEW n, BookOK(orders, n), NEW orders2 \in SUBSET orders
  PROVE  Thins(orders, orders2)
  BY DEF BookOK, Thins

LEMMA PullThins ==
  ASSUME BookOK(open, issued), NEW id, Pull(id)
  PROVE  /\ Thins(open, open') /\ issued' = issued
         /\ \A o \in open' : o.id # id
<1>1. open' \in SUBSET open
  BY DEF Pull
<1> QED
  BY <1>1, ThinsSub DEF Pull

LEMMA DropThins ==
  ASSUME BookOK(open, issued), NEW ids, Drop(ids)
  PROVE  Thins(open, open') /\ issued' = issued
<1>1. open' \in SUBSET open
  BY DEF Drop
<1> QED
  BY <1>1, ThinsSub DEF Drop

LEMMA RepriceThins ==
  ASSUME BookTypeOK, BookOK(open, issued), NEW id, NEW q \in Quotes, Reprice(id, q)
  PROVE  Thins(open, open') /\ issued' = issued
<1>1. \A o \in open : LET p == IF o.id = id THEN [o EXCEPT !.quote = q] ELSE o
                      IN  p.id = o.id /\ p.key = o.key
  BY DEF BookTypeOK, Orders
<1>2. \A p \in open' : \E o \in open :
         /\ o.id = p.id /\ o.key = p.key
         /\ p = IF o.id = id THEN [o EXCEPT !.quote = q] ELSE o
  BY <1>1 DEF Reprice
<1> QED
  BY <1>2 DEF Thins, BookOK, Reprice

LEMMA MarketThins ==
  ASSUME BookTypeOK, BookOK(open, issued), Market
  PROVE  Thins(open, open') /\ issued' = issued
<1>1. CASE \E o \in open : Vanish(o)
  <2>1. open' \in SUBSET open
    BY <1>1 DEF Vanish
  <2> QED
    BY <1>1, <2>1, ThinsSub DEF Vanish
<1>2. CASE \E o \in open : PartFill(o)
  <2>1. PICK o \in open : PartFill(o)
    BY <1>2
  <2> DEFINE p == [o EXCEPT !.quote.sz = @ - 1]
  <2>2. p.id = o.id /\ p.key = o.key
    BY DEF BookTypeOK, Orders
  <2>3. open' = (open \ {o}) \cup {p} /\ issued' = issued
    BY <2>1 DEF PartFill
  <2> HIDE DEF p
  <2> QED
    BY <2>2, <2>3 DEF Thins, BookOK
<1> QED
  BY <1>1, <1>2 DEF Market

LEMMA SameThins ==
  ASSUME BookOK(open, issued), UNCHANGED book
  PROVE  Thins(open, open') /\ issued' = issued
<1>1. open' \in SUBSET open /\ issued' = issued
  BY DEF book
<1> QED
  BY <1>1, ThinsSub

-----------------------------------------------------------------------------
(* What a change of the book does to a call that does not move.            *)

LEMMA ThinsFrame ==
  ASSUME NEW orders, NEW orders2, NEW n, NEW f, FrameOK(f, orders, n),
         Thins(orders, orders2)
  PROVE  FrameOK(f, orders2, n) /\ (SkipOK(f, orders) => SkipOK(f, orders2))
<1>1. f.stage \in {"place", "instead"} /\ f.reply = "ok" =>
        \A p \in orders2 : p.key = f.key <=> p.id = f.oid
  BY DEF FrameOK, Thins
<1>2. f.stage = "list" /\ f.reply = "ok" => Listed(f, orders2, n)
  BY DEF FrameOK, Thins, Listed
<1> QED
  BY <1>1, <1>2 DEF FrameOK, Thins, Aimed, SkipOK

\* A call at work on the key of the new order would be another one than the call
\* that places it.
LEMMA GrowsFrame ==
  ASSUME NEW orders, NEW orders2, NEW n \in Nat, NEW k, NEW f \in Frame,
         FrameOK(f, orders, n), Grows(orders, orders2, n, k),
         f.stage \in Holding => f.key # k
  PROVE  FrameOK(f, orders2, n + 1) /\ (SkipOK(f, orders) => SkipOK(f, orders2))
<1>1. PICK p : p.id = n + 1 /\ p.key = k /\ orders2 = orders \cup {p}
  BY DEF Grows
<1>2. f.oid \in Nat /\ f.oid <= n
  BY DEF Frame, FrameOK
<1>3. p.id # f.oid
  BY <1>1, <1>2
<1>4. f.stage = "list" /\ f.reply = "ok" => Listed(f, orders2, n + 1)
  <2> SUFFICES ASSUME f.stage = "list", f.reply = "ok" PROVE Listed(f, orders2, n + 1)
    OBVIOUS
  <2>1. \A s \in f.seen : s.id \in Nat
    BY DEF Frame, Orders, OrderIds
  <2>2. Listed(f, orders, n)
    BY DEF FrameOK
  <2>3. \A s \in f.seen : s.id <= n + 1 /\ s.id # p.id
    BY <1>1, <2>1, <2>2 DEF Listed
  <2> QED
    BY <1>1, <2>2, <2>3 DEF Listed
<1>5. f.oid <= n + 1
  BY <1>2
<1> QED
  BY <1>1, <1>3, <1>4, <1>5 DEF FrameOK, Aimed, SkipOK, Holding

-----------------------------------------------------------------------------
(* One call moves, and the book thins or gains the call's order.           *)

\* The call has order o's acceptance in hand.
Hand(f, o) == f.stage \in {"place", "instead"} /\ f.reply = "ok" /\ f.oid = o.id

\* The book as a step of call t may leave it.
BookMoves(t) ==
    \/ Thins(open, open') /\ issued' = issued
    \/ /\ Inside(t)
       /\ Grows(open, open', issued, call[t].key) /\ issued' = issued + 1

LEMMA BookTypes ==
  ASSUME TInv
  PROVE  /\ issued \in Nat
         /\ \A o \in open : o.id \in Nat /\ o.key \in Keys
         /\ \A t \in Tasks : call[t] \in Frame /\ call[t].oid \in Nat
  BY ExchangeAssumption DEF TInv, TypeOK, BookTypeOK, Orders, OrderIds, Frame

LEMMA BookStep ==
  ASSUME TInv, Safe, NEW t \in Tasks, BookMoves(t),
         \A p \in open' : p.id = issued + 1 => \A o \in open : o.key # call[t].key
  PROVE  BookOK(open', issued')
<1>1. CASE Thins(open, open') /\ issued' = issued
  BY <1>1 DEF Thins, BookOK, Safe
<1>2. CASE Grows(open, open', issued, call[t].key) /\ issued' = issued + 1
  <2>1. PICK p : p.id = issued + 1 /\ p.key = call[t].key /\ open' = open \cup {p}
    BY <1>2 DEF Grows
  <2>2. \A o \in open : o.id # p.id /\ o.key # p.key /\ o.id <= issued + 1
    BY <2>1, BookTypes DEF Safe, BookOK
  <2>3. p.id <= issued + 1
    BY <2>1, BookTypes
  <2> QED
    BY <1>2, <2>1, <2>2, <2>3 DEF Safe, BookOK
<1> QED
  BY <1>1, <1>2 DEF BookMoves

\* Two calls inside the critical section work on different keys.
LEMMA CallsApart ==
  ASSUME TInv, NEW t \in Tasks, NEW u \in Tasks \ {t}, Inside(t), Inside(u)
  PROVE  call[u].key # call[t].key
  BY DEF TInv, Locks

LEMMA OtherFrames ==
  ASSUME TInv, Safe, NEW t \in Tasks, NEW u \in Tasks \ {t}, BookMoves(t)
  PROVE  /\ FrameOK(call[u], open', issued')
         /\ SkipOK(call[u], open) => SkipOK(call[u], open')
<1>1. FrameOK(call[u], open, issued) /\ call[u] \in Frame /\ issued \in Nat
  BY BookTypes DEF Safe
<1>2. CASE Thins(open, open') /\ issued' = issued
  BY <1>1, <1>2, ThinsFrame
<1>3. CASE /\ Inside(t)
           /\ Grows(open, open', issued, call[t].key) /\ issued' = issued + 1
  <2>1. call[u].stage \in Holding => call[u].key # call[t].key
    BY <1>3, CallsApart DEF Inside
  <2> QED
    BY <1>1, <1>3, <2>1, GrowsFrame
<1> QED
  BY <1>2, <1>3 DEF BookMoves

\* The invariant after a step of call t, from what the step does to its frame
\* and to the orders it could reach.
LEMMA SafeStep ==
  ASSUME TInv, Safe, NEW t \in Tasks, NEW f, Becomes(t, f), BookMoves(t),
         FrameOK(f, open', issued'),
         \A k \in Keys : resting'[k] # None => resting'[k].id <= issued',
         \A p \in open' : p.id = issued + 1 => Hand(f, p) /\ \A o \in open : o.key # call[t].key,
         \A p \in open' : \A o \in open :
            /\ o.id = p.id /\ o.key = p.key
            /\ Tracks(o) \/ Hand(call[t], o)
            => Tracks(p)' \/ Hand(f, p)
  PROVE  /\ Safe'
         /\ \A u \in Tasks \ {t} :
              SkipOK(call[u], open) => SkipOK(call[u], open)'
<1>1. \A u \in Tasks \ {t} : call'[u] = call[u]
  BY DEF Becomes
<1>2. call'[t] = f
  BY DEF Becomes
<1>3. \A u \in Tasks : FrameOK(call'[u], open', issued')
  BY <1>1, <1>2, OtherFrames
<1>4. BookOK(open', issued')
  BY BookStep
<1>5. ASSUME NEW p \in open'
      PROVE  Tracks(p)' \/ InHand(p)'
  <2>1. CASE p.id = issued + 1
    BY <1>2, <2>1 DEF Hand, InHand
  <2>2. CASE p.id # issued + 1
    <3>1. PICK o \in open : o.id = p.id /\ o.key = p.key
      BY <2>2 DEF BookMoves, Thins, Grows
    <3>2. CASE Tracks(o) \/ Hand(call[t], o)
      <4>1. Tracks(p)' \/ Hand(f, p)
        BY <3>1, <3>2
      <4> QED
        BY <1>2, <4>1 DEF Hand, InHand
    <3>3. CASE \E u \in Tasks \ {t} : Hand(call[u], o)
      BY <1>1, <3>1, <3>3 DEF Hand, InHand
    <3>4. Tracks(o) \/ \E u \in Tasks : Hand(call[u], o)
      BY DEF Safe, Reached, InHand, Hand
    <3> QED
      BY <3>2, <3>3, <3>4
  <2> QED
    BY <2>1, <2>2
<1>6. Safe'
  BY <1>3, <1>4, <1>5 DEF Safe, Reached
<1> QED
  BY <1>1, <1>6, OtherFrames

\* Nothing changes but the frame of a call that has no order in hand.
LEMMA QuietStep ==
  ASSUME TInv, Safe, NEW t \in Tasks, NEW f, Becomes(t, f),
         UNCHANGED <<book, resting>>, FrameOK(f, open, issued),
         call[t].stage \notin {"place", "instead"} \/ call[t].reply # "ok"
  PROVE  /\ Safe'
         /\ \A u \in Tasks \ {t} :
              SkipOK(call[u], open) => SkipOK(call[u], open)'
<1>1. BookMoves(t)
  BY SameThins DEF BookMoves, Safe
<1>2. open' = open /\ issued' = issued /\ resting' = resting
  BY DEF book
<1>3. \A p \in open' : p.id # issued + 1
  BY <1>2, BookTypes DEF Safe, BookOK
<1>4. \A o \in open : ~Hand(call[t], o)
  BY DEF Hand
<1> QED
  BY <1>1, <1>2, <1>3, <1>4, SafeStep DEF Safe, Tracks

\* The book thins, and no call moves.
LEMMA ThinStep ==
  ASSUME TInv, Safe, Thins(open, open'), issued' = issued, UNCHANGED <<resting, call>>
  PROVE  /\ Safe'
         /\ \A u \in Tasks : SkipOK(call[u], open) => SkipOK(call[u], open)'
<1>1. \A u \in Tasks : /\ FrameOK(call[u], open', issued')
                       /\ SkipOK(call[u], open) => SkipOK(call[u], open')
  BY ThinsFrame DEF Safe
<1>2. BookOK(open', issued')
  BY DEF Safe, Thins, BookOK
<1>3. Reached'
  BY DEF Safe, Reached, Thins, Tracks, InHand
<1> QED
  BY <1>1, <1>2, <1>3 DEF Safe

-----------------------------------------------------------------------------
(* The steps of a call of apply().                                         *)

\* A key whose lock is free: what rests is tracked.
LEMMA FreeTracked ==
  ASSUME TInv, Safe, NEW k \in Keys, lock[k] = None
  PROVE  \A o \in open : o.key = k => resting[k] # None /\ resting[k].id = o.id
<1> SUFFICES ASSUME NEW o \in open, o.key = k, InHand(o)
             PROVE  FALSE
  BY DEF Safe, Reached, Tracks
<1>1. PICK u \in Tasks : Hand(call[u], o)
  BY DEF InHand, Hand
<1>2. Inside(u) /\ call[u].key = k
  BY <1>1 DEF Safe, FrameOK, Hand, Inside, Holding
<1> QED
  BY <1>2, ManagerAssumption DEF TInv, Locks

LEMMA ApplySafe ==
  ASSUME TInv, Safe, NEW t \in Tasks, NEW k \in Keys, NEW d \in Decisions, Apply(t, k, d)
  PROVE  /\ Safe'
         /\ \A u \in Tasks : SkipOK(call[u], open) => SkipOK(call[u], open)'
<1> DEFINE f == [call[t] EXCEPT !.stage = "queued", !.key = k, !.want = d]
<1>1. call[t] \in Frame /\ call[t].stage = "idle" /\ FrameOK(call[t], open, issued)
  BY DEF TInv, TypeOK, Apply, Safe
<1>2. f \in Frame /\ f.stage = "queued" /\ f.oid = call[t].oid
  BY <1>1 DEF Frame, Stages
<1>3. Becomes(t, f)
  BY <1>2, FrameSet DEF Apply
<1>4. FrameOK(f, open, issued) /\ SkipOK(f, open')
  BY <1>1, <1>2 DEF FrameOK, SkipOK
<1>5. UNCHANGED <<book, resting>> /\ call'[t] = f
  BY <1>3 DEF Apply, Becomes
<1> HIDE DEF f
<1> QED
  BY <1>1, <1>3, <1>4, <1>5, QuietStep

LEMMA ListSafe ==
  ASSUME TInv, Safe, NEW t \in Tasks, call[t].stage = "idle",
         call' = [call EXCEPT ![t] = [@ EXCEPT !.stage = "list"]],
         Thins(open, open'), issued' = issued, UNCHANGED resting
  PROVE  /\ Safe'
         /\ \A u \in Tasks : SkipOK(call[u], open) => SkipOK(call[u], open)'
<1> DEFINE f == [call[t] EXCEPT !.stage = "list"]
<1>1. call[t] \in Frame /\ FrameOK(call[t], open, issued) /\ call[t].reply = "none"
  BY DEF TInv, TypeOK, Safe, Shape, ShapeOf
<1>2. f \in Frame /\ f.stage = "list" /\ f.oid = call[t].oid /\ f.reply = "none"
  BY <1>1 DEF Frame, Stages
<1>3. Becomes(t, f)
  BY <1>2, FrameSet
<1>4. FrameOK(f, open', issued') /\ SkipOK(f, open') /\ call'[t] = f
  BY <1>1, <1>2, <1>3 DEF FrameOK, SkipOK, Becomes
<1>5. BookMoves(t)
  BY DEF BookMoves
<1>6. \A p \in open' : p.id # issued + 1
  BY BookTypes DEF Safe, BookOK, Thins
<1>7. \A o \in open : ~Hand(call[t], o)
  BY DEF Hand
<1> HIDE DEF f
<1>8. /\ Safe'
      /\ \A u \in Tasks \ {t} : SkipOK(call[u], open) => SkipOK(call[u], open)'
  BY <1>3, <1>4, <1>5, <1>6, <1>7, SafeStep DEF Safe, Tracks
<1> QED
  BY <1>4, <1>8

\* Taking the lock, or leaving at once.
LEMMA AcquireSafe ==
  ASSUME TInv, Safe, NEW t \in Tasks, Acquire(t)
  PROVE  /\ Safe'
         /\ SkipOK(call[t], open)'
         /\ \A u \in Tasks \ {t} : SkipOK(call[u], open) => SkipOK(call[u], open)'
<1>1. /\ Granted(t) /\ UNCHANGED <<book, resting>>
  BY DEF Acquire, ReturnAtOnce, SkipCancel, TryAmend, TryPlace
<1> DEFINE k == call[t].key
<1>2. /\ k \in Keys /\ call[t].reply = "none" /\ call[t].stage = "queued"
      /\ lock[k] = None /\ call[t].oid <= issued
  BY <1>1 DEF TInv, Shape, ShapeOf, Granted, Safe, FrameOK
<1>3. \A o \in open : o.key = k => resting[k] # None /\ resting[k].id = o.id
  BY <1>2, FreeTracked
<1>4. ASSUME NEW f, Becomes(t, f), FrameOK(f, open, issued), SkipOK(f, open)
      PROVE  /\ Safe'
             /\ SkipOK(call[t], open)'
             /\ \A u \in Tasks \ {t} : SkipOK(call[u], open) => SkipOK(call[u], open)'
  <2>1. call'[t] = f /\ open' = open
    BY <1>1, <1>4 DEF Becomes, book
  <2> QED
    BY <1>1, <1>2, <1>4, <2>1, QuietStep
<1>5. ASSUME NEW s \in {"cancel", "amend", "place"}, NEW i \in 0 .. MaxOrders, Enter(t, s, i)
      PROVE  \E f : /\ Becomes(t, f)
                    /\ f.stage = s /\ f.oid = i /\ f.key = k /\ f.reply = "none"
  BY <1>2, <1>5, EnterFrame DEF Stages
<1>6. resting[k] # None => resting[k].id \in 0 .. MaxOrders /\ resting[k].id <= issued
  BY <1>2, ExchangeAssumption DEF TInv, TypeOK, Tracked, OrderIds, Safe
<1>7. 0 \in 0 .. MaxOrders /\ 0 <= issued
  BY ExchangeAssumption, BookTypes
<1> HIDE DEF k
<1>8. CASE ReturnAtOnce(t)
  <2>1. Becomes(t, Idle)
    BY <1>8, ReturnFrame DEF ReturnAtOnce
  <2>2. FrameOK(Idle, open, issued) /\ SkipOK(Idle, open)
    BY <1>7 DEF FrameOK, SkipOK, Idle
  <2> QED
    BY <1>4, <2>1, <2>2
<1>9. CASE SkipCancel(t)
  <2>1. resting[k] # None /\ Enter(t, "cancel", resting[k].id)
    BY <1>9 DEF SkipCancel, k
  <2>2. PICK f : /\ Becomes(t, f) /\ f.stage = "cancel" /\ f.oid = resting[k].id
                 /\ f.key = k /\ f.reply = "none"
    BY <1>5, <1>6, <2>1
  <2>3. FrameOK(f, open, issued) /\ SkipOK(f, open)
    BY <1>3, <1>6, <2>1, <2>2 DEF FrameOK, SkipOK, Aimed
  <2> QED
    BY <1>4, <2>2, <2>3
<1>10. CASE TryAmend(t)
  <2>1. resting[k] # None /\ Enter(t, "amend", resting[k].id)
    BY <1>10 DEF TryAmend, k
  <2>2. PICK f : /\ Becomes(t, f) /\ f.stage = "amend" /\ f.oid = resting[k].id
                 /\ f.key = k /\ f.reply = "none"
    BY <1>5, <1>6, <2>1
  <2>3. FrameOK(f, open, issued) /\ SkipOK(f, open)
    BY <1>3, <1>6, <2>1, <2>2 DEF FrameOK, SkipOK, Aimed
  <2> QED
    BY <1>4, <2>2, <2>3
<1>11. CASE TryPlace(t)
  <2>1. resting[k] = None /\ Enter(t, "place", 0)
    BY <1>11 DEF TryPlace, k
  <2>2. PICK f : /\ Becomes(t, f) /\ f.stage = "place" /\ f.oid = 0
                 /\ f.key = k /\ f.reply = "none"
    BY <1>5, <1>7, <2>1
  <2>3. FrameOK(f, open, issued) /\ SkipOK(f, open)
    BY <1>3, <1>7, <2>1, <2>2 DEF FrameOK, SkipOK
  <2> QED
    BY <1>4, <2>2, <2>3
<1> QED
  BY <1>8, <1>9, <1>10, <1>11 DEF Acquire

\* A request is executed, answered, or lost.
LEMMA AnswerSafe ==
  ASSUME NothingLost, TInv, Safe, NEW t \in Tasks, Answer(t)
  PROVE  /\ Safe'
         /\ \A u \in Tasks : SkipOK(call[u], open) => SkipOK(call[u], open)'
<1>1. /\ Waiting(t) /\ UNCHANGED resting
      /\ call[t].reply = "none" /\ call[t] \in Frame /\ call[t].oid \in 0 .. MaxOrders
      /\ FrameOK(call[t], open, issued) /\ ShapeOf(call[t])
  BY DEF Answer, PlaceAccepted, AmendAccepted, CancelAcknowledged,
     OrderRejected, CancelRejected, ListAnswered, RequestLost, ResponseLost, book,
     Waiting, TInv, TypeOK, Frame, Safe, Shape
<1>2. /\ call[t].stage \in {"place", "instead"} <=> Request[call[t].stage] = "place"
      /\ call[t].stage = "amend" <=> Request[call[t].stage] = "amend"
      /\ call[t].stage \in {"cancel", "replace"} <=> Request[call[t].stage] = "cancel"
      /\ call[t].stage = "list" <=> Request[call[t].stage] = "list"
      /\ Request[call[t].stage] \in {"place", "amend", "cancel", "list"}
  BY <1>1 DEF Request, Waiting
\* The frame keeps its place, and the book does not gain an order.
<1>3. ASSUME NEW f, Becomes(t, f), f.stage = call[t].stage, f.key = call[t].key,
             f.oid = call[t].oid, Thins(open, open'), issued' = issued,
             f.stage \in {"place", "instead"} => f.reply # "ok",
             f.stage \in {"cancel", "replace"} /\ f.reply # "none" =>
                \A o \in open' : o.id # f.oid,
             f.stage = "list" /\ f.reply = "ok" => Listed(f, open', issued'),
             f.stage = "list" => f.reply # "refused"
      PROVE  /\ Safe'
             /\ \A u \in Tasks : SkipOK(call[u], open) => SkipOK(call[u], open)'
  <2>1. /\ FrameOK(call[t], open', issued')
        /\ SkipOK(call[t], open) => SkipOK(call[t], open')
    BY <1>1, <1>3, ThinsFrame
  <2>2. /\ FrameOK(f, open', issued')
        /\ SkipOK(call[t], open) => SkipOK(f, open')
    BY <1>1, <1>3, <2>1 DEF FrameOK, SkipOK, Aimed
  <2>3. \A p \in open' : p.id # issued + 1
    BY <1>3, BookTypes DEF Safe, BookOK, Thins
  <2>4. \A o \in open : ~Hand(call[t], o)
    BY <1>1 DEF Hand
  <2>5. BookMoves(t) /\ call'[t] = f
    BY <1>3 DEF BookMoves, Becomes
  <2>6. /\ Safe'
        /\ \A u \in Tasks \ {t} : SkipOK(call[u], open) => SkipOK(call[u], open)'
    BY <1>1, <1>3, <2>2, <2>3, <2>4, <2>5, SafeStep DEF Safe, Tracks
  <2> QED
    BY <2>2, <2>5, <2>6
<1>4. UNCHANGED book => Thins(open, open') /\ issued' = issued
  BY SameThins DEF Safe
<1>5. Request[call[t].stage] = "amend" /\ Execute(t) => Thins(open, open') /\ issued' = issued
  BY <1>1, <1>2, RepriceThins DEF Execute, ShapeOf, TInv, TypeOK, Safe
<1>6. Request[call[t].stage] = "cancel" /\ Execute(t) =>
        /\ Thins(open, open') /\ issued' = issued
        /\ \A o \in open' : o.id # call[t].oid
  BY PullThins DEF Execute, Safe
<1>7. CASE PlaceAccepted(t)
  <2>1. Inside(t) /\ call[t].key \in Keys /\ call[t].want \in Quotes
    BY <1>1, <1>2, <1>7 DEF PlaceAccepted, ShapeOf, Inside, Holding
  <2>2. Rest(call[t].key, call[t].want) /\ Reply(t, "ok", issued + 1)
    BY <1>7 DEF PlaceAccepted, Execute
  <2>3. Grows(open, open', issued, call[t].key) /\ issued' = issued + 1
    BY <2>2 DEF Rest, Grows
  <2>4. issued + 1 \in 0 .. MaxOrders
    BY <2>1, <2>2, RestType, ExchangeAssumption DEF TInv, TypeOK, OrderIds
  <2>5. PICK f : /\ Becomes(t, f) /\ f.stage = call[t].stage /\ f.oid = issued + 1
                 /\ f.key = call[t].key /\ f.reply = "ok"
    BY <2>2, <2>4, ReplyFrame
  <2>6. \A o \in open : o.key # call[t].key /\ o.id # issued + 1
    BY <1>1, <1>2, <1>7, BookTypes DEF PlaceAccepted, FrameOK, Safe, BookOK
  <2>7. call[t].stage \in {"place", "instead"}
    BY <1>2, <1>7 DEF PlaceAccepted
  <2>8. FrameOK(f, open', issued') /\ SkipOK(f, open')
    <3>1. \A o \in open' : o.key = f.key <=> o.id = f.oid
      BY <2>3, <2>5, <2>6 DEF Grows
    <3> QED
      BY <2>3, <2>5, <2>7, <3>1, BookTypes DEF FrameOK, SkipOK
  <2>9. \A p \in open' : p.id = issued + 1 => Hand(f, p)
    BY <2>5, <2>7 DEF Hand
  <2>10. \A o \in open : ~Hand(call[t], o)
    BY <1>1 DEF Hand
  <2>11. \A k \in Keys : resting'[k] # None => resting'[k].id <= issued'
    BY <1>1, <2>3, BookTypes DEF Safe, TInv, TypeOK, Tracked, OrderIds
  <2>12. BookMoves(t) /\ call'[t] = f
    BY <2>1, <2>3, <2>5 DEF BookMoves, Becomes
  <2>13. /\ Safe'
         /\ \A u \in Tasks \ {t} : SkipOK(call[u], open) => SkipOK(call[u], open)'
    BY <1>1, <2>5, <2>6, <2>8, <2>9, <2>10, <2>11, <2>12, SafeStep DEF Tracks
  <2> QED
    BY <2>8, <2>12, <2>13
<1>8. CASE AmendAccepted(t)
  <2>1. /\ Request[call[t].stage] = "amend" /\ Execute(t) /\ Reply(t, "ok", call[t].oid)
    BY <1>8 DEF AmendAccepted
  <2>2. PICK f : /\ Becomes(t, f) /\ f.stage = call[t].stage /\ f.oid = call[t].oid
                 /\ f.key = call[t].key /\ f.reply = "ok"
    BY <1>1, <2>1, ReplyFrame
  <2> QED
    BY <1>2, <1>3, <1>5, <2>1, <2>2
<1>9. CASE CancelAcknowledged(t)
  <2>1. /\ Request[call[t].stage] = "cancel" /\ Execute(t) /\ Reply(t, "ok", call[t].oid)
    BY <1>9 DEF CancelAcknowledged
  <2>2. PICK f : /\ Becomes(t, f) /\ f.stage = call[t].stage /\ f.oid = call[t].oid
                 /\ f.key = call[t].key /\ f.reply = "ok"
    BY <1>1, <2>1, ReplyFrame
  <2> QED
    BY <1>2, <1>3, <1>6, <2>1, <2>2
<1>10. CASE OrderRejected(t)
  <2>1. /\ Request[call[t].stage] \in {"place", "amend"} /\ UNCHANGED book
        /\ Reply(t, "refused", call[t].oid)
    BY <1>10 DEF OrderRejected
  <2>2. PICK f : /\ Becomes(t, f) /\ f.stage = call[t].stage /\ f.oid = call[t].oid
                 /\ f.key = call[t].key /\ f.reply = "refused"
    BY <1>1, <2>1, ReplyFrame
  <2> QED
    BY <1>2, <1>3, <1>4, <2>1, <2>2
<1>11. CASE CancelRejected(t)
  <2>1. /\ Request[call[t].stage] = "cancel" /\ UNCHANGED book
        /\ Reply(t, "refused", call[t].oid) /\ ~IsOpen(call[t].oid)
    BY <1>11 DEF CancelRejected, NothingLost, LosingFaults
  <2>2. PICK f : /\ Becomes(t, f) /\ f.stage = call[t].stage /\ f.oid = call[t].oid
                 /\ f.key = call[t].key /\ f.reply = "refused"
    BY <1>1, <2>1, ReplyFrame
  <2>3. \A o \in open' : o.id # f.oid
    BY <2>1, <2>2 DEF IsOpen, book
  <2> QED
    BY <1>2, <1>3, <1>4, <2>1, <2>2, <2>3
<1>12. CASE ListAnswered(t)
  <2> DEFINE f == [call[t] EXCEPT !.reply = "ok", !.seen = open]
  <2>1. open \in SUBSET Orders
    BY DEF TInv, TypeOK, BookTypeOK
  <2>2. /\ f \in Frame /\ f.stage = call[t].stage /\ f.key = call[t].key
        /\ f.oid = call[t].oid /\ f.seen = open /\ f.reply = "ok"
    BY <1>1, <2>1 DEF Frame
  <2>3. Becomes(t, f)
    BY <1>12, <2>2, FrameSet DEF ListAnswered
  <2>4. call[t].stage = "list" /\ UNCHANGED book
    BY <1>12 DEF ListAnswered
  <2>5. Listed(f, open', issued')
    BY <2>2, <2>4 DEF Listed, Safe, BookOK, book
  <2> HIDE DEF f
  <2> QED
    BY <1>3, <1>4, <2>2, <2>3, <2>4, <2>5
<1>13. CASE RequestLost(t)
  <2>1. /\ Request[call[t].stage] # "cancel" /\ UNCHANGED book /\ Unanswered(t)
    BY <1>13 DEF RequestLost, NothingLost, LosingFaults
  <2>2. PICK f : /\ Becomes(t, f) /\ f.stage = call[t].stage /\ f.oid = call[t].oid
                 /\ f.key = call[t].key /\ f.reply \in {"none", "error"}
    BY <1>1, <2>1, UnansweredFrame
  <2> QED
    BY <1>2, <1>3, <1>4, <2>1, <2>2
<1>14. CASE ResponseLost(t)
  <2>1. /\ Request[call[t].stage] # "place" /\ Execute(t) /\ Unanswered(t)
    BY <1>14 DEF ResponseLost, NothingLost, LosingFaults
  <2>2. PICK f : /\ Becomes(t, f) /\ f.stage = call[t].stage /\ f.oid = call[t].oid
                 /\ f.key = call[t].key /\ f.reply \in {"none", "error"}
    BY <1>1, <2>1, UnansweredFrame
  <2>3. Request[call[t].stage] = "list" => UNCHANGED book
    BY <2>1 DEF Execute
  <2> QED
    BY <1>2, <1>3, <1>4, <1>5, <1>6, <2>1, <2>2, <2>3
<1> QED
  BY <1>7, <1>8, <1>9, <1>10, <1>11, <1>12, <1>13, <1>14 DEF Answer

\* A call returns, having changed what is tracked on its key at most.
LEMMA ReturnSafe ==
  ASSUME TInv, Safe, NEW t \in Tasks, call' = [call EXCEPT ![t] = Idle],
         UNCHANGED book,
         \A k \in Keys \ {call[t].key} : resting'[k] = resting[k],
         \A k \in Keys : resting'[k] # None => resting'[k].id <= issued,
         \A o \in open : o.key = call[t].key /\ (Tracks(o) \/ Hand(call[t], o)) =>
            Tracks(o)'
  PROVE  /\ Safe'
         /\ \A u \in Tasks : SkipOK(call[u], open) => SkipOK(call[u], open)'
<1>1. Becomes(t, Idle) /\ call'[t] = Idle /\ open' = open /\ issued' = issued
  BY ReturnFrame DEF Becomes, book
<1>2. FrameOK(Idle, open', issued') /\ SkipOK(Idle, open')
  BY <1>1, BookTypes DEF FrameOK, SkipOK, Idle
<1>3. \A p \in open' : p.id # issued + 1
  BY <1>1, BookTypes DEF Safe, BookOK
<1>4. \A o \in open : Hand(call[t], o) => o.key = call[t].key
  BY DEF Safe, FrameOK, Hand
<1>5. \A o \in open : Tracks(o) \/ Hand(call[t], o) => Tracks(o)'
  BY <1>1, <1>4, BookTypes DEF Tracks
<1>6. \A p \in open' : \A o \in open :
         o.id = p.id /\ o.key = p.key => p = o
  BY <1>1 DEF Safe, BookOK
<1>7. BookMoves(t)
  BY <1>1, SameThins DEF BookMoves, Safe, book
<1>8. /\ Safe'
      /\ \A u \in Tasks \ {t} : SkipOK(call[u], open) => SkipOK(call[u], open)'
  BY <1>1, <1>2, <1>3, <1>5, <1>6, <1>7, SafeStep
<1> QED
  BY <1>1, <1>2, <1>8

\* A cancel has come back, and what its key tracks is forgotten: an order that
\* still rests is only lost if it is another one than the cancelled.
LEMMA CancelDone ==
  ASSUME TInv, Safe, NEW t \in Tasks, OnSkipCancel(t),
         call[t].reply # "error" => ~StaleForget(t)
  PROVE  /\ Safe'
         /\ \A u \in Tasks : SkipOK(call[u], open) => SkipOK(call[u], open)'
<1>1. /\ call' = [call EXCEPT ![t] = Idle] /\ UNCHANGED book
      /\ call[t].stage = "cancel" /\ call[t].reply # "none" /\ call[t].key \in Keys
      /\ FrameOK(call[t], open, issued)
  BY DEF OnSkipCancel, Return, Answered, Safe, TInv, Shape, ShapeOf
<1>2. \A o \in open : ~Hand(call[t], o)
  BY <1>1 DEF Hand
<1>3. CASE call[t].reply = "error"
  <2>1. resting' = resting
    BY <1>3 DEF OnSkipCancel
  <2> QED
    BY <1>1, <1>2, <2>1, ReturnSafe DEF Safe, Tracks
<1>4. CASE call[t].reply # "error"
  <2>1. resting' = [resting EXCEPT ![call[t].key] = None]
    BY <1>4 DEF OnSkipCancel
  <2>2. /\ \A k \in Keys \ {call[t].key} : resting'[k] = resting[k]
        /\ \A k \in Keys : resting'[k] # None => resting'[k].id <= issued
    BY <1>1, <2>1 DEF TInv, TypeOK, Safe
  <2>3. \A o \in open : o.key = call[t].key => ~Tracks(o)
    BY <1>1, <1>4 DEF StaleForget, FrameOK
  <2> QED
    BY <1>1, <1>2, <2>2, <2>3, ReturnSafe
<1> QED
  BY <1>3, <1>4

\* A call of apply() resumes on an answer.
LEMMA ResumeSafe ==
  ASSUME TInv, Safe, NEW t \in Tasks, SkipOK(call[t], open), Resume(t)
  PROVE  /\ Safe'
         /\ \A u \in Tasks : SkipOK(call[u], open) => SkipOK(call[u], open)'
<1>1. /\ Answered(t) /\ UNCHANGED book
      /\ FrameOK(call[t], open, issued) /\ ShapeOf(call[t])
  BY DEF Resume, OnSkipCancel, OnAmended, OnAmendFailed, OnReplaceCancel,
     OnPlaced, OnPlaceFailed, Safe, TInv, Shape
<1>2. call[t].stage \in {"place", "instead"} <=>
        call[t].stage \in DOMAIN Request /\ Request[call[t].stage] = "place"
  BY DEF Request
<1>3. call[t].stage \in DOMAIN Request /\ call[t].reply # "none"
  BY <1>1 DEF Answered
<1> DEFINE k == call[t].key
\* The key's order is recorded, and the call returns.
<1>4. ASSUME k \in Keys, Return(t), call[t].want \in Quotes, call[t].oid \in OrderIds,
             \A o \in open : o.key = k => o.id = call[t].oid,
             resting' = [resting EXCEPT ![k] = [id |-> call[t].oid, quote |-> call[t].want]]
      PROVE  /\ Safe'
             /\ \A u \in Tasks : SkipOK(call[u], open) => SkipOK(call[u], open)'
  <2> DEFINE r == [id |-> call[t].oid, quote |-> call[t].want]
  <2>1. r.id = call[t].oid /\ r \in Tracked /\ r # None
    BY <1>4, ManagerAssumption DEF Tracked
  <2>2. /\ resting'[k] = r
        /\ \A j \in Keys \ {k} : resting'[j] = resting[j]
    BY <1>4 DEF TInv, TypeOK
  <2> HIDE DEF r
  <2>3. \A j \in Keys : resting'[j] # None => resting'[j].id <= issued
    BY <1>1, <2>1, <2>2 DEF Safe, FrameOK
  <2>4. \A o \in open : o.key = k => Tracks(o)'
    BY <1>4, <2>1, <2>2 DEF Tracks
  <2> QED
    BY <1>1, <1>4, <2>2, <2>3, <2>4, ReturnSafe DEF Return
<1> HIDE DEF k
\* The call goes on, or returns, with a key on which nothing that rests was
\* tracked.
<1>5. ASSUME NEW f, Becomes(t, f), FrameOK(f, open, issued), SkipOK(f, open), k \in Keys,
             resting' = [resting EXCEPT ![k] = None],
             \A o \in open : o.key # k
      PROVE  /\ Safe'
             /\ \A u \in Tasks : SkipOK(call[u], open) => SkipOK(call[u], open)'
  <2>1. /\ \A j \in Keys \ {k} : resting'[j] = resting[j]
        /\ \A j \in Keys : resting'[j] # None => resting'[j].id <= issued
    BY <1>5 DEF TInv, TypeOK, Safe
  <2>2. open' = open /\ issued' = issued
    BY <1>1 DEF book
  <2>3. \A p \in open' : p.id # issued + 1
    BY <2>2, BookTypes DEF Safe, BookOK
  <2>4. \A o \in open : ~Hand(call[t], o)
    BY <1>1, <1>5 DEF FrameOK, Hand, k
  <2>5. \A p \in open' : \A o \in open :
          o.id = p.id /\ o.key = p.key => p = o
    BY <2>2 DEF Safe, BookOK
  <2>6. \A o \in open : Tracks(o) => Tracks(o)'
    BY <1>5, <2>1, BookTypes DEF Tracks
  <2>7. BookMoves(t) /\ call'[t] = f
    BY <1>1, <1>5, SameThins DEF BookMoves, Safe, Becomes
  <2>8. /\ Safe'
        /\ \A u \in Tasks \ {t} : SkipOK(call[u], open) => SkipOK(call[u], open)'
    BY <1>5, <2>1, <2>2, <2>3, <2>4, <2>5, <2>6, <2>7, SafeStep
  <2> QED
    BY <1>5, <2>2, <2>7, <2>8
<1>6. CASE OnSkipCancel(t)
  <2>1. ~StaleForget(t)
    BY <1>6 DEF OnSkipCancel, StaleForget, SkipOK, Aimed
  <2> QED
    BY <1>6, <2>1, CancelDone
<1>7. CASE OnAmended(t)
  <2>1. /\ call[t].stage = "amend" /\ k \in Keys /\ call[t].want \in Quotes
        /\ call[t].oid \in OrderIds /\ Aimed(call[t], open)
    BY <1>1, <1>7 DEF OnAmended, ShapeOf, FrameOK, k
  <2> QED
    BY <1>4, <1>7, <2>1 DEF OnAmended, Aimed, k
<1>8. CASE OnAmendFailed(t)
  <2>1. PICK f : /\ Becomes(t, f) /\ f.stage = "replace" /\ f.oid = call[t].oid
                 /\ f.key = call[t].key /\ f.reply = "none"
    BY <1>8, GoOnFrame DEF OnAmendFailed, Stages
  <2>2. FrameOK(f, open, issued) /\ SkipOK(f, open)
    BY <1>1, <1>8, <2>1 DEF OnAmendFailed, FrameOK, Aimed, SkipOK
  <2>3. UNCHANGED <<book, resting>> /\ call[t].stage = "amend" /\ call'[t] = f
    BY <1>8, <2>1 DEF OnAmendFailed, Becomes
  <2>4. /\ Safe'
        /\ \A u \in Tasks \ {t} : SkipOK(call[u], open) => SkipOK(call[u], open)'
    BY <2>1, <2>2, <2>3, QuietStep
  <2> QED
    BY <2>2, <2>3, <2>4 DEF book
<1>9. CASE OnReplaceCancel(t)
  <2>1. /\ call[t].stage = "replace" /\ k \in Keys
        /\ resting' = [resting EXCEPT ![k] = None]
    BY <1>1, <1>9 DEF OnReplaceCancel, ShapeOf, k
  <2>2. \A o \in open : o.key # k
    BY <1>1, <1>3, <2>1 DEF FrameOK, Aimed, k
  <2>3. CASE GoOn(t, "instead")
    <3>1. PICK f : /\ Becomes(t, f) /\ f.stage = "instead" /\ f.oid = call[t].oid
                   /\ f.key = call[t].key /\ f.reply = "none"
      BY <2>3, GoOnFrame DEF Stages
    <3>2. FrameOK(f, open, issued) /\ SkipOK(f, open)
      BY <1>1, <2>2, <3>1 DEF FrameOK, SkipOK, k
    <3> QED
      BY <1>5, <2>1, <2>2, <3>1, <3>2
  <2>4. CASE Return(t)
    <3>1. Becomes(t, Idle)
      BY <2>4, ReturnFrame DEF Return
    <3>2. FrameOK(Idle, open, issued) /\ SkipOK(Idle, open)
      BY BookTypes DEF FrameOK, SkipOK, Idle
    <3> QED
      BY <1>5, <2>1, <2>2, <3>1, <3>2
  <2> QED
    BY <1>9, <2>3, <2>4 DEF OnReplaceCancel
<1>10. CASE OnPlaced(t)
  <2>1. /\ call[t].stage \in {"place", "instead"} /\ call[t].reply = "ok"
        /\ k \in Keys /\ call[t].want \in Quotes /\ call[t].oid \in OrderIds
    BY <1>1, <1>2, <1>3, <1>10 DEF OnPlaced, ShapeOf, k
  <2>2. \A o \in open : o.key = k => o.id = call[t].oid
    BY <1>1, <2>1 DEF FrameOK, k
  <2> QED
    BY <1>4, <1>10, <2>1, <2>2 DEF OnPlaced, k
<1>11. CASE OnPlaceFailed(t)
  <2>1. Return(t) /\ UNCHANGED <<book, resting>> /\ \A o \in open : ~Hand(call[t], o)
    BY <1>11 DEF OnPlaceFailed, Hand
  <2> QED
    BY <2>1, ReturnSafe DEF Return, Safe, Tracks
<1> QED
  BY <1>6, <1>7, <1>8, <1>9, <1>10, <1>11 DEF Resume

-----------------------------------------------------------------------------
(* The steps of the tools.                                                 *)

LEMMA FindSafe ==
  ASSUME TInv, Safe, NEW t \in Tasks, NEW k \in Keys, FindOrder(t, k)
  PROVE  /\ Safe'
         /\ \A u \in Tasks : SkipOK(call[u], open) => SkipOK(call[u], open)'
<1> DEFINE f == [call[t] EXCEPT !.stage = "queued", !.key = k, !.want = Skip,
                                !.oid = resting[k].id]
<1>1. /\ call[t] \in Frame /\ call[t].stage = "idle"
      /\ resting[k].id \in 0 .. MaxOrders /\ resting[k].id <= issued
  BY ExchangeAssumption DEF TInv, TypeOK, FindOrder, Safe, Tracked, OrderIds
<1>2. f \in Frame /\ f.stage = "queued" /\ f.oid = resting[k].id
  BY <1>1 DEF Frame, Stages, Decisions
<1>3. Becomes(t, f)
  BY <1>2, FrameSet DEF FindOrder
<1>4. FrameOK(f, open, issued) /\ SkipOK(f, open')
  BY <1>1, <1>2 DEF FrameOK, SkipOK
<1>5. UNCHANGED <<book, resting>> /\ call'[t] = f
  BY <1>3 DEF FindOrder, Becomes
<1> HIDE DEF f
<1> QED
  BY <1>1, <1>3, <1>4, <1>5, QuietStep

LEMMA PullSafe ==
  ASSUME TInv, Safe, NEW t \in Tasks, PullOrder(t)
  PROVE  /\ Safe'
         /\ \A u \in Tasks \ {t} : SkipOK(call[u], open) => SkipOK(call[u], open)'
<1>1. /\ Enter(t, "cancel", call[t].oid) /\ UNCHANGED <<book, resting>>
      /\ call[t].stage = "queued" /\ call[t].reply = "none" /\ call[t].key \in Keys
      /\ call[t].oid \in 0 .. MaxOrders /\ call[t].oid <= issued
  BY DEF PullOrder, Granted, TInv, TypeOK, Frame, Shape, ShapeOf, Safe, FrameOK
<1>2. PICK f : /\ Becomes(t, f) /\ f.stage = "cancel" /\ f.oid = call[t].oid
               /\ f.reply = "none"
  BY <1>1, EnterFrame DEF Stages
<1>3. FrameOK(f, open, issued)
  BY <1>1, <1>2 DEF FrameOK
<1> QED
  BY <1>1, <1>2, <1>3, QuietStep

\* A listing is installed that knows every order the view had: nothing is lost,
\* as the listing has one order per key.
LEMMA RebuildSafe ==
  ASSUME TInv, Safe, NEW t \in Tasks, Rebuild(t),
         call[t].reply # "error" => ~StaleListing(t)
  PROVE  /\ Safe'
         /\ \A u \in Tasks : SkipOK(call[u], open) => SkipOK(call[u], open)'
<1>1. /\ call[t].stage = "list" /\ UNCHANGED book /\ call' = [call EXCEPT ![t] = Idle]
      /\ call[t].reply \in {"ok", "error"} /\ call[t] \in Frame
      /\ FrameOK(call[t], open, issued)
  BY DEF Rebuild, Answered, TInv, TypeOK, Frame, Safe, FrameOK
<1>2. Becomes(t, Idle) /\ call'[t] = Idle /\ open' = open /\ issued' = issued
  BY <1>1, ReturnFrame DEF Becomes, book
<1>3. CASE call[t].reply = "error"
  <2>1. resting' = resting
    BY <1>3 DEF Rebuild
  <2>2. FrameOK(Idle, open, issued) /\ SkipOK(Idle, open')
    BY <1>2, BookTypes DEF FrameOK, SkipOK, Idle
  <2> QED
    BY <1>1, <1>2, <2>1, <2>2, QuietStep
<1>4. CASE call[t].reply = "ok"
  <2>1. Listed(call[t], open, issued) /\ call[t].seen \subseteq Orders
    BY <1>1, <1>4 DEF FrameOK, Frame
  <2>2. PICK pick \in [Keys -> call[t].seen \cup {None}] :
              /\ \A k \in Keys :
                   IF \E o \in call[t].seen : o.key = k
                   THEN pick[k] # None /\ pick[k].key = k
                   ELSE pick[k] = None
              /\ resting' = [k \in Keys |->
                    IF pick[k] = None THEN None
                    ELSE [id |-> pick[k].id, quote |-> pick[k].quote]]
    BY <1>4 DEF Rebuild
  <2>3. \A k \in Keys : resting'[k] # None =>
          pick[k] # None /\ pick[k] \in call[t].seen /\ resting'[k].id = pick[k].id
    BY <2>2
  <2>4. \A k \in Keys : resting'[k] # None => resting'[k].id <= issued'
    BY <1>2, <2>1, <2>3 DEF Listed
  <2>5. ASSUME NEW o \in open, Tracks(o)
        PROVE  Tracks(o)'
    <3>1. PICK s \in call[t].seen : s.id = o.id
      BY <1>4, <2>5 DEF StaleListing
    <3>2. s.key = o.key /\ o.key \in Keys
      BY <2>1, <3>1, BookTypes DEF Listed
    <3>3. pick[o.key] # None /\ pick[o.key] \in call[t].seen /\ pick[o.key].key = o.key
      BY <2>2, <3>1, <3>2
    <3>4. pick[o.key] = s
      BY <2>1, <3>2, <3>3 DEF Listed
    <3>5. resting'[o.key] = [id |-> s.id, quote |-> s.quote] /\ s.quote \in Quotes /\ s.id \in OrderIds
      BY <2>1, <2>2, <3>1, <3>2, <3>3, <3>4 DEF Orders
    <3>6. resting'[o.key] \in Tracked /\ resting'[o.key].id = o.id
      BY <3>1, <3>5 DEF Tracked
    <3> QED
      BY <3>6, ManagerAssumption DEF Tracks
  <2>6. FrameOK(Idle, open', issued') /\ SkipOK(Idle, open')
    BY <1>2, BookTypes DEF FrameOK, SkipOK, Idle
  <2>7. \A p \in open' : p.id # issued + 1
    BY <1>2, BookTypes DEF Safe, BookOK
  <2>8. \A o \in open : ~Hand(call[t], o)
    BY <1>1 DEF Hand
  <2>9. \A p \in open' : \A o \in open :
          o.id = p.id /\ o.key = p.key => p = o
    BY <1>2 DEF Safe, BookOK
  <2>10. BookMoves(t)
    BY <1>1, SameThins DEF BookMoves, Safe
  <2>11. /\ Safe'
         /\ \A u \in Tasks \ {t} : SkipOK(call[u], open) => SkipOK(call[u], open)'
    BY <1>2, <2>4, <2>5, <2>6, <2>7, <2>8, <2>9, <2>10, SafeStep
  <2> QED
    BY <1>2, <2>6, <2>11
<1> QED
  BY <1>1, <1>3, <1>4

-----------------------------------------------------------------------------
(* Types, shapes and locks: what the tools' own steps keep.                *)

\* A call outside of the critical section stays outside.
LEMMA LocksIdle ==
  ASSUME TInv, NEW t \in Tasks, NEW f, Becomes(t, f), UNCHANGED lock,
         ~Inside(t), f.stage \notin Holding
  PROVE  Locks'
  BY DEF TInv, TypeOK, Locks, Inside, Becomes

LEMMA FindTInv ==
  ASSUME TInv, NEW t \in Tasks, NEW k \in Keys, FindOrder(t, k)
  PROVE  TInv' /\ call'[t].stage = "queued" /\ call'[t].oid \in OrderIds
<1> USE DEF TInv
<1> DEFINE f == [call[t] EXCEPT !.stage = "queued", !.key = k, !.want = Skip,
                                !.oid = resting[k].id]
<1>1. /\ call[t] \in Frame /\ call[t].stage = "idle" /\ ShapeOf(call[t])
      /\ resting[k].id \in 0 .. MaxOrders /\ resting[k].id \in OrderIds
  BY ExchangeAssumption DEF TypeOK, FindOrder, Tracked, OrderIds, Shape
<1>2. f \in Frame /\ f.stage = "queued" /\ f.oid = resting[k].id /\ ShapeOf(f)
  BY <1>1 DEF Frame, Stages, Decisions, ShapeOf
<1>3. Becomes(t, f)
  BY <1>2, FrameSet DEF FindOrder
<1>4. ~Inside(t) /\ f.stage \notin Holding
  BY <1>1, <1>2 DEF Inside, Holding
<1> HIDE DEF f
<1>5. Locks'
  <2>1. UNCHANGED lock
    BY DEF FindOrder
  <2> QED
    BY <1>3, <1>4, <2>1, LocksIdle
<1>6. TypeOK'
  BY <1>3 DEF FindOrder, TypeOK, BookTypeOK, book, Becomes
<1> QED
  BY <1>1, <1>2, <1>3, <1>5, <1>6, ShapeStep DEF Becomes

LEMMA PullTInv ==
  ASSUME TInv, NEW t \in Tasks, call[t].oid \in OrderIds, PullOrder(t)
  PROVE  TInv' /\ call'[t].stage = "cancel"
<1> USE DEF TInv
<1>1. /\ Enter(t, "cancel", call[t].oid) /\ UNCHANGED <<book, resting, cash, booted, crashes>>
      /\ call[t].stage = "queued" /\ call[t].reply = "none" /\ call[t].key \in Keys
      /\ call[t].want \in Decisions
      /\ lock[call[t].key] = None /\ ~Inside(t) /\ call[t].oid \in 0 .. MaxOrders
  BY DEF PullOrder, Granted, TypeOK, Frame, Shape, ShapeOf, Inside, Holding
<1>2. PICK f : /\ Becomes(t, f) /\ f.stage = "cancel" /\ f.oid = call[t].oid
               /\ f.key = call[t].key /\ f.want = call[t].want /\ f.reply = call[t].reply
  BY <1>1, EnterFrame DEF Stages
<1>3. Shape'
  BY <1>1, <1>2, ShapeStep DEF ShapeOf
<1>4. lock' = [lock EXCEPT ![call[t].key] = t]
  BY <1>1 DEF Enter
<1>5. Locks'
  BY <1>1, <1>2, <1>4, LocksTaken DEF Holding
<1>6. TypeOK'
  BY <1>1, <1>2, <1>4, LockType DEF TypeOK, BookTypeOK, book, Becomes
<1> QED
  BY <1>2, <1>3, <1>5, <1>6 DEF Becomes

\* The start of a listing, whatever has left the book.
LEMMA ListTInv ==
  ASSUME TInv, NEW t \in Tasks, call[t].stage = "idle",
         call' = [call EXCEPT ![t] = [@ EXCEPT !.stage = "list"]],
         open' \subseteq open, UNCHANGED <<issued, resting, lock, cash, booted, crashes>>
  PROVE  TInv' /\ call'[t].stage = "list"
<1> USE DEF TInv
<1> DEFINE f == [call[t] EXCEPT !.stage = "list"]
<1>1. call[t] \in Frame /\ ShapeOf(call[t])
  BY DEF TypeOK, Shape
<1>2. f \in Frame /\ ShapeOf(f) /\ f.stage = "list"
  BY <1>1 DEF Frame, Stages, ShapeOf
<1>3. Becomes(t, f)
  BY <1>2, FrameSet
<1> HIDE DEF f
<1>4. ~Inside(t) /\ f.stage \notin Holding
  BY <1>2 DEF Inside, Holding
<1>5. Locks'
  BY <1>3, <1>4, LocksIdle
<1>6. TypeOK'
  BY <1>3 DEF TypeOK, BookTypeOK, Becomes
<1> QED
  BY <1>2, <1>3, <1>5, <1>6, ShapeStep DEF Becomes

\* Orders leave the book, and no call moves.
LEMMA DropTInv ==
  ASSUME TInv, open' \subseteq open,
         UNCHANGED <<issued, resting, lock, call, cash, booted, crashes>>
  PROVE  TInv'
  BY DEF TInv, TypeOK, BookTypeOK, Shape, Locks, Inside

-----------------------------------------------------------------------------
(* The tools beside the callers of apply(): ToolsSpec.                     *)

SweepStates == [stage : {"idle", "batch", "each"}, ids : SUBSET OrderIds]

\* A sweep is over before its listing starts.
SweepersShape ==
    /\ sweep \in [Sweepers -> SweepStates]
    /\ slipped \in BOOLEAN
    /\ \A t \in Sweepers :
         /\ call[t].stage \in {"idle", "list"}
         /\ sweep[t].stage # "idle" => call[t].stage = "idle"

\* What the tasks are doing: a cancel-by-id knows its order from the start.
ToolsShape ==
    /\ TInv
    /\ SweepersShape
    /\ \A t \in Cancellers :
         /\ call[t].stage \in {"idle", "queued", "cancel"}
         /\ call[t].stage = "queued" => call[t].oid \in OrderIds

\* Until the startup reconcile is done there is nothing to track or to cancel.
BeforeBoot ==
    /\ ~booted =>
         /\ open = {}
         /\ \A k \in Keys : resting[k] = None
         /\ \A t \in Tasks \ {Booter} : call[t].stage = "idle"
         /\ call[Booter].stage \in {"idle", "list"}
         /\ \A t \in Sweepers : sweep[t].stage = "idle"
    /\ booted => call[Booter].stage # "list"

\* Until a tool lets an order slip.
Unslipped ==
    ~slipped => Safe /\ \A t \in Callers : SkipOK(call[t], open)

ToolsInv == ToolsShape /\ BeforeBoot /\ Unslipped

LEMMA ToolsInvInit == ToolsInit => ToolsInv
<1> SUFFICES ASSUME ToolsInit PROVE ToolsInv
  OBVIOUS
<1>1. \A t \in Tasks : call[t] = Idle
  BY DEF ToolsInit, Init
<1>2. Cancellers \subseteq Tasks /\ Sweepers \subseteq Tasks /\ Callers \subseteq Tasks
  BY ToolsAssumption DEF Callers
<1>3. TInv
  BY TInvInit DEF ToolsInit
<1>4. NoSweep \in SweepStates /\ NoSweep.stage = "idle"
  BY DEF NoSweep, SweepStates
<1>5. ToolsShape
  BY <1>1, <1>2, <1>3, <1>4, IdleType DEF ToolsShape, SweepersShape, ToolsInit
<1>6. BeforeBoot
  BY <1>1, <1>4, IdleType, ManagerAssumption DEF BeforeBoot, ToolsInit, Init, EmptyBook
<1>7. Safe /\ \A t \in Callers : SkipOK(call[t], open)
  <2>1. open = {} /\ issued = 0 /\ \A k \in Keys : resting[k] = None
    BY DEF ToolsInit, Init, EmptyBook
  <2>2. FrameOK(Idle, open, issued) /\ SkipOK(Idle, open)
    BY <2>1 DEF FrameOK, SkipOK, Idle
  <2> QED
    BY <1>1, <1>2, <2>1, <2>2 DEF Safe, BookOK, Reached
<1> QED
  BY <1>5, <1>6, <1>7 DEF ToolsInv, Unslipped

\* A call's own steps leave the other calls alone, and an answer keeps the call
\* where it is.
LEMMA OwnFrame ==
  ASSUME TInv, NEW t \in Tasks,
         \/ Acquire(t) \/ Answer(t) \/ Resume(t) \/ PullOrder(t) \/ OnSkipCancel(t)
         \/ Rebuild(t)
         \/ \E k \in Keys, d \in Decisions : Apply(t, k, d)
         \/ \E k \in Keys : FindOrder(t, k)
  PROVE  \A u \in Tasks \ {t} : call'[u] = call[u]
  BY DEF TInv, TypeOK, Acquire, ReturnAtOnce, SkipCancel, TryAmend, TryPlace, Enter,
     Answer, PlaceAccepted, AmendAccepted, CancelAcknowledged, OrderRejected,
     CancelRejected, ListAnswered, RequestLost, ResponseLost, Unanswered, Reply,
     Resume, OnSkipCancel, OnAmended, OnAmendFailed, OnReplaceCancel, OnPlaced,
     OnPlaceFailed, GoOn, Return, Rebuild, Apply, FindOrder, PullOrder

LEMMA AnswerStays ==
  ASSUME TInv, NEW t \in Tasks, Answer(t)
  PROVE  /\ call'[t].stage = call[t].stage /\ call'[t].key = call[t].key
         /\ Waiting(t) /\ UNCHANGED <<resting, booted, lock>>
<1>1. /\ Waiting(t) /\ UNCHANGED <<resting, booted, lock>>
      /\ \/ \E r, i : call' = [call EXCEPT ![t] = [@ EXCEPT !.reply = r, !.oid = i]]
         \/ call' = [call EXCEPT ![t] = [@ EXCEPT !.reply = "ok", !.seen = open]]
         \/ Unanswered(t)
  BY DEF Answer, PlaceAccepted, AmendAccepted, CancelAcknowledged, OrderRejected,
     CancelRejected, ListAnswered, RequestLost, ResponseLost, Reply
<1>2. call \in [Tasks -> Frame] /\ call[t] \in Frame
  BY DEF TInv, TypeOK
<1>3. CASE Unanswered(t)
  <2>1. PICK f : Becomes(t, f) /\ f.stage = call[t].stage /\ f.key = call[t].key
    BY <1>3, UnansweredFrame
  <2> QED
    BY <1>1, <2>1 DEF Becomes
<1>4. ASSUME NEW r, NEW i, call' = [call EXCEPT ![t] = [@ EXCEPT !.reply = r, !.oid = i]]
      PROVE  call'[t].stage = call[t].stage /\ call'[t].key = call[t].key
  <2>1. call'[t] = [call[t] EXCEPT !.reply = r, !.oid = i]
    BY <1>2, <1>4
  <2> QED
    BY <1>2, <2>1 DEF Frame
<1>5. CASE call' = [call EXCEPT ![t] = [@ EXCEPT !.reply = "ok", !.seen = open]]
  <2>1. call'[t] = [call[t] EXCEPT !.reply = "ok", !.seen = open]
    BY <1>2, <1>5
  <2> QED
    BY <1>1, <1>2, <2>1 DEF Frame
<1> QED
  BY <1>1, <1>3, <1>4, <1>5

\* A listing is all that can be answered before the startup is over.
LEMMA ListAnswer ==
  ASSUME NEW t \in Tasks, call[t].stage = "list", Answer(t)
  PROVE  UNCHANGED book
  BY DEF Answer, PlaceAccepted, AmendAccepted, CancelAcknowledged,
     OrderRejected, CancelRejected, ListAnswered, RequestLost, ResponseLost, Execute, Request, book

\* Resumed, a call of apply() returns, or waits for its next request on its key.
LEMMA CallMoves ==
  ASSUME TInv, NEW t \in Tasks, Acquire(t) \/ Resume(t)
  PROVE  /\ \/ call'[t] = Idle
            \/ call'[t].stage \in Holding /\ call'[t].key = call[t].key
         /\ UNCHANGED <<book, cash, booted, crashes>>
         /\ call[t].stage \in Holding \cup {"queued"}
<1>1. call \in [Tasks -> Frame] /\ call[t] \in Frame
  BY DEF TInv, TypeOK
<1>2. \/ call' = [call EXCEPT ![t] = Idle]
      \/ \E s \in {"cancel", "amend", "place"} : \E i : Enter(t, s, i)
      \/ \E s \in {"replace", "instead"} : GoOn(t, s)
  BY DEF Acquire, ReturnAtOnce, SkipCancel, TryAmend, TryPlace, Resume, OnSkipCancel,
     OnAmended, OnAmendFailed, OnReplaceCancel, OnPlaced, OnPlaceFailed, Return
<1>3. ASSUME NEW s \in {"cancel", "amend", "place"}, NEW i, Enter(t, s, i)
      PROVE  call'[t].stage \in Holding /\ call'[t].key = call[t].key
  BY <1>1, <1>3 DEF Enter, Frame, Holding
<1>4. ASSUME NEW s \in {"replace", "instead"}, GoOn(t, s)
      PROVE  call'[t].stage \in Holding /\ call'[t].key = call[t].key
  BY <1>1, <1>4 DEF GoOn, Frame, Holding
<1>5. call[t].stage \in Holding \cup {"queued"}
  BY DEF Acquire, ReturnAtOnce, SkipCancel, TryAmend, TryPlace, Granted, Resume,
     OnSkipCancel, OnAmended, OnAmendFailed, OnReplaceCancel, OnPlaced, OnPlaceFailed,
     Answered, Request, Holding
<1>6. UNCHANGED <<book, cash, booted, crashes>>
  BY DEF Acquire, ReturnAtOnce, SkipCancel, TryAmend, TryPlace, Resume, OnSkipCancel,
     OnAmended, OnAmendFailed, OnReplaceCancel, OnPlaced, OnPlaceFailed
<1> QED
  BY <1>1, <1>2, <1>3, <1>4, <1>5, <1>6

\* The steps of the callers of apply().
LEMMA CallerStep ==
  ASSUME NothingLost, ToolsInv, NEW t \in Callers, ApplySteps(t)
  PROVE  ToolsInv'
<1> USE DEF ToolsInv
<1>1. TInv /\ t \in Tasks /\ UNCHANGED <<sweep, slipped>> /\ t \notin Sweepers \cup Cancellers
  BY DEF ToolsShape, SweepersShape, ApplySteps, tools, Callers
<1>2. \A u \in Tasks \ {t} : call'[u] = call[u]
  BY <1>1, OwnFrame DEF ApplySteps
<1>3. TInv'
  BY <1>1, AcquireTInv, AnswerTInv, ResumeTInv DEF ApplySteps
<1>4. Cancellers \subseteq Tasks \ {t} /\ Sweepers \subseteq Tasks \ {t}
  BY <1>1, ToolsAssumption
<1>5. ToolsShape'
  BY <1>1, <1>2, <1>3, <1>4 DEF ToolsShape, SweepersShape
<1>6. BeforeBoot'
  <2>1. CASE booted
    <3>1. booted' = booted
      BY <1>1, AnswerStays DEF ApplySteps, Acquire, ReturnAtOnce, SkipCancel, TryAmend, TryPlace,
         Resume, OnSkipCancel, OnAmended, OnAmendFailed, OnReplaceCancel, OnPlaced, OnPlaceFailed
    <3>2. CASE t # Booter
      BY <1>2, <2>1, <3>1, <3>2, ManagerAssumption DEF BeforeBoot
    <3>3. CASE t = Booter
      <4>1. Answer(t) => call'[t].stage # "list"
        BY <1>1, <2>1, <3>3, AnswerStays DEF BeforeBoot
      <4>2. Acquire(t) \/ Resume(t) => call'[t].stage # "list"
        BY <1>1, CallMoves, IdleType DEF Holding
      <4> QED
        BY <2>1, <3>1, <3>3, <4>1, <4>2 DEF BeforeBoot, ApplySteps
    <3> QED
      BY <3>2, <3>3
  <2>2. CASE ~booted
    <3>1. call[t].stage \in {"idle", "list"}
      BY <1>1, <2>2 DEF BeforeBoot
    <3>2. Answer(t) /\ call[t].stage = "list"
      BY <3>1 DEF ApplySteps, Acquire, ReturnAtOnce, SkipCancel, TryAmend, TryPlace, Granted,
         Resume, OnSkipCancel, OnAmended, OnAmendFailed, OnReplaceCancel, OnPlaced,
         OnPlaceFailed, Answered, Request, Answer, PlaceAccepted, AmendAccepted,
         CancelAcknowledged, OrderRejected, CancelRejected, ListAnswered, RequestLost,
         ResponseLost, Waiting
    <3>3. UNCHANGED book /\ UNCHANGED <<resting, booted>> /\ call'[t].stage = "list"
      BY <1>1, <3>2, ListAnswer, AnswerStays
    <3>4. t = Booter
      BY <1>1, <2>2, <3>2 DEF BeforeBoot
    <3> QED
      BY <1>1, <1>2, <2>2, <3>3, <3>4 DEF BeforeBoot, book
  <2> QED
    BY <2>1, <2>2
<1>7. Unslipped'
  <2> SUFFICES ASSUME ~slipped
               PROVE  Safe' /\ \A u \in Callers : SkipOK(call[u], open)'
    BY <1>1 DEF Unslipped
  <2>1. Safe /\ \A u \in Callers : SkipOK(call[u], open)
    BY DEF Unslipped
  <2>2. Callers \subseteq Tasks
    BY DEF Callers
  <2> QED
    BY <1>1, <2>1, <2>2, AcquireSafe, AnswerSafe, ResumeSafe DEF ApplySteps
<1> QED
  BY <1>5, <1>6, <1>7

\* The startup reconcile: nothing rests when its listing is installed.
LEMMA BootStep ==
  ASSUME ToolsInv, BootSteps
  PROVE  ToolsInv'
<1> USE DEF ToolsInv
<1>1. /\ TInv /\ Booter \in Tasks /\ UNCHANGED <<sweep, slipped>>
      /\ Booter \notin Sweepers \cup Cancellers
  BY ManagerAssumption, ToolsAssumption DEF ToolsShape, SweepersShape, BootSteps, tools
<1>2. Cancellers \subseteq Tasks \ {Booter} /\ Sweepers \subseteq Tasks \ {Booter}
  BY ToolsAssumption
<1>3. Callers \subseteq Tasks
  BY DEF Callers
<1>4. CASE ~booted /\ Reconcile(Booter)
  <2>1. /\ call[Booter].stage = "idle" /\ ~booted
        /\ call' = [call EXCEPT ![Booter] = [@ EXCEPT !.stage = "list"]]
        /\ UNCHANGED <<open, issued, resting, lock, cash, booted, crashes>>
    BY <1>4 DEF Reconcile, book
  <2>2. TInv' /\ call'[Booter].stage = "list"
    BY <1>1, <2>1, ListTInv
  <2>3. \A u \in Tasks \ {Booter} : call'[u] = call[u]
    BY <1>1, <2>1 DEF TInv, TypeOK
  <2>4. ToolsShape'
    BY <1>1, <1>2, <2>2, <2>3 DEF ToolsShape, SweepersShape
  <2>5. BeforeBoot'
    BY <1>1, <2>1, <2>2, <2>3 DEF BeforeBoot
  <2>6. Unslipped'
    <3>1. Safe => Thins(open, open')
      BY <2>1, SameThins DEF Safe, book
    <3> QED
      BY <1>1, <1>3, <2>1, <3>1, ListSafe DEF Unslipped
  <2> QED
    BY <2>4, <2>5, <2>6
<1>5. CASE Rebuild(Booter)
  <2>1. /\ call[Booter].stage = "list" /\ ~booted /\ open = {}
        /\ UNCHANGED <<open, issued>> /\ booted' = TRUE
        /\ call' = [call EXCEPT ![Booter] = Idle]
    BY <1>5 DEF Rebuild, BeforeBoot, book
  <2>2. TInv'
    BY <1>1, <1>5, OtherTInv
  <2>3. call'[Booter].stage = "idle" /\ \A u \in Tasks \ {Booter} : call'[u] = call[u]
    BY <1>1, <2>1, IdleType DEF TInv, TypeOK
  <2>4. ToolsShape'
    BY <1>1, <1>2, <2>2, <2>3 DEF ToolsShape, SweepersShape
  <2>5. BeforeBoot'
    BY <2>1, <2>3 DEF BeforeBoot
  <2>6. Unslipped'
    <3>1. ~StaleListing(Booter)
      BY <2>1 DEF StaleListing
    <3> QED
      BY <1>1, <1>3, <1>5, <3>1, RebuildSafe DEF Unslipped
  <2> QED
    BY <2>4, <2>5, <2>6
<1> QED
  BY <1>4, <1>5 DEF BootSteps

LEMMA CancellerStep ==
  ASSUME NothingLost, ToolsInv, NEW t \in Cancellers,
         CancelSteps(t) \/ \E k \in Keys : FindOrder(t, k)
  PROVE  ToolsInv'
<1> USE DEF ToolsInv
<1>1. TInv /\ t \in Tasks /\ t \notin Sweepers \cup Callers /\ t # Booter
  BY ToolsAssumption DEF ToolsShape, SweepersShape, Callers
<1>2. /\ \A u \in Tasks \ {t} : call'[u] = call[u]
      /\ UNCHANGED sweep /\ booted' = booted
      /\ slipped => slipped'
  BY <1>1, OwnFrame, AnswerStays DEF CancelSteps, OrderPulled, PullOrder, FindOrder, tools, OnSkipCancel,
     ToolsShape, SweepersShape
<1>3. Callers \subseteq Tasks \ {t} /\ Sweepers \subseteq Tasks \ {t} /\ Cancellers \subseteq Tasks
  BY <1>1, ToolsAssumption DEF Callers
<1>4. booted
  <2>1. \A k \in Keys : FindOrder(t, k) => resting[k] # None
    BY DEF FindOrder
  <2>2. CancelSteps(t) => call[t].stage # "idle"
    BY <1>1, AnswerStays DEF CancelSteps, PullOrder, Granted, OrderPulled, OnSkipCancel, Waiting, Request
  <2> QED
    BY <1>1, <2>1, <2>2 DEF BeforeBoot
<1>5. BeforeBoot'
  BY <1>1, <1>2, <1>4, ManagerAssumption DEF BeforeBoot
\* What is left to show of each step.
<1>6. ASSUME TInv', slipped' \in BOOLEAN, call'[t].stage \in {"idle", "queued", "cancel"},
             call'[t].stage = "queued" => call'[t].oid \in OrderIds,
             Safe /\ ~slipped' =>
               /\ Safe'
               /\ \A u \in Tasks \ {t} : SkipOK(call[u], open) => SkipOK(call[u], open)'
      PROVE  ToolsInv'
  <2>1. ToolsShape'
    BY <1>1, <1>2, <1>3, <1>6 DEF ToolsShape, SweepersShape
  <2>2. Unslipped'
    BY <1>2, <1>3, <1>6 DEF Unslipped, ToolsShape, SweepersShape
  <2> QED
    BY <1>5, <2>1, <2>2
<1>7. ASSUME NEW k \in Keys, FindOrder(t, k)
      PROVE  ToolsInv'
  <2>1. UNCHANGED slipped
    BY <1>7 DEF FindOrder, tools
  <2> QED
    BY <1>1, <1>6, <1>7, <2>1, FindTInv, FindSafe DEF ToolsShape, SweepersShape
<1>8. CASE PullOrder(t)
  <2>1. UNCHANGED slipped /\ call[t].oid \in OrderIds
    BY <1>8 DEF PullOrder, tools, Granted, ToolsShape, SweepersShape
  <2> QED
    BY <1>1, <1>6, <1>8, <2>1, PullTInv, PullSafe DEF ToolsShape, SweepersShape
<1>9. CASE Answer(t) /\ UNCHANGED tools
  <2>1. UNCHANGED slipped /\ call'[t].stage = "cancel"
    <3>1. call[t].stage \in {"idle", "queued", "cancel"} /\ Waiting(t)
      BY <1>1, <1>9, AnswerStays DEF ToolsShape, SweepersShape
    <3> QED
      BY <1>1, <1>9, <3>1, AnswerStays DEF tools, Waiting, Request
  <2> QED
    BY <1>1, <1>6, <1>9, <2>1, AnswerTInv, AnswerSafe DEF ToolsShape, SweepersShape
<1>10. CASE OrderPulled(t)
  <2>1. /\ OnSkipCancel(t) /\ slipped' \in BOOLEAN
        /\ ~slipped' /\ call[t].reply # "error" => ~StaleForget(t)
    BY <1>10 DEF OrderPulled, ToolsShape, SweepersShape
  <2>2. TInv'
    BY <1>1, <2>1, ResumeTInv DEF Resume
  <2>3. call'[t].stage = "idle"
    BY <1>1, <2>1, IdleType DEF OnSkipCancel, Return, TInv, TypeOK
  <2> QED
    BY <1>1, <1>6, <2>1, <2>2, <2>3, CancelDone
<1> QED
  BY <1>7, <1>8, <1>9, <1>10 DEF CancelSteps

\* A caller enters apply().
LEMMA CallStep ==
  ASSUME ToolsInv, booted, NEW t \in Callers, NEW k \in Keys, NEW d \in Decisions,
         Apply(t, k, d), UNCHANGED tools
  PROVE  ToolsInv'
<1> USE DEF ToolsInv
<1>1. TInv /\ t \in Tasks /\ UNCHANGED <<sweep, slipped>> /\ t \notin Sweepers \cup Cancellers
  BY DEF ToolsShape, SweepersShape, tools, Callers
<1>2. Cancellers \subseteq Tasks \ {t} /\ Sweepers \subseteq Tasks \ {t} /\ Callers \subseteq Tasks
  BY <1>1, ToolsAssumption DEF Callers
<1>3. TInv' /\ \A u \in Tasks \ {t} : call'[u] = call[u]
  BY <1>1, OwnFrame, OtherTInv
<1>4. ToolsShape'
  BY <1>1, <1>2, <1>3 DEF ToolsShape, SweepersShape
<1>5. booted' = booted /\ call'[t].stage # "list"
  <2>1. call[t] \in Frame /\ call'[t] = [call[t] EXCEPT !.stage = "queued", !.key = k, !.want = d]
    BY <1>1 DEF Apply, TInv, TypeOK
  <2> QED
    BY <2>1 DEF Apply, Frame
<1>6. BeforeBoot'
  BY <1>3, <1>5, ManagerAssumption DEF BeforeBoot
<1>7. Unslipped'
  BY <1>1, <1>2, ApplySafe DEF Unslipped
<1> QED
  BY <1>4, <1>6, <1>7

-----------------------------------------------------------------------------
(* The steps of a sweep, whoever else is at work.                          *)

\* What a step of a sweeper leaves of the sweeps, and of the other calls.
SweptWell(t) ==
    /\ TInv'
    /\ sweep' \in [Sweepers -> SweepStates]
    /\ \A u \in Sweepers \ {t} : sweep'[u] = sweep[u]
    /\ \A u \in Tasks \ {t} : call'[u] = call[u]
    /\ call'[t].stage \in {"idle", "list"}
    /\ sweep'[t].stage # "idle" => call'[t].stage = "idle"

LEMMA SweptShape ==
  ASSUME SweepersShape, NEW t \in Sweepers, SweptWell(t), slipped' \in BOOLEAN
  PROVE  SweepersShape'
  BY ToolsAssumption DEF SweepersShape, SweptWell

\* The cancelling part ends, or goes on, and orders leave the book.
LEMMA SweepingMoves ==
  ASSUME TInv, SweepersShape, NEW t \in Sweepers, Sweeping(t)
  PROVE  /\ SweptWell(t)
         /\ UNCHANGED <<issued, booted, slipped>>
         /\ sweep[t].stage # "idle" /\ call[t].stage = "idle"
         /\ Safe =>
              /\ Safe'
              /\ \A u \in Tasks : SkipOK(call[u], open) => SkipOK(call[u], open)'
<1> DEFINE Goal == /\ SweptWell(t)
                   /\ Safe =>
                        /\ Safe'
                        /\ \A u \in Tasks : SkipOK(call[u], open) => SkipOK(call[u], open)'
<1>1. t \in Tasks /\ sweep \in [Sweepers -> SweepStates]
  BY ToolsAssumption DEF SweepersShape
<1>2. sweep[t].stage # "idle" /\ call[t].stage = "idle"
  BY DEF Sweeping, BatchAnswered, BatchRaised, PullOne, PullOneRaised, SweepersShape
<1>3. NoSweep \in SweepStates /\ NoSweep.stage = "idle"
  BY DEF NoSweep, SweepStates
<1>4. /\ UNCHANGED <<resting, lock, cash, booted, crashes, slipped>>
      /\ (\E ids : Drop(ids)) \/ UNCHANGED book
  BY DEF Sweeping, BatchAnswered, BatchRaised, PullOne, PullOneRaised, ThenReconcile
<1>5. /\ open' \subseteq open /\ issued' = issued
      /\ Safe => Thins(open, open')
  BY <1>4, DropThins, SameThins DEF Drop, book, Safe
\* The cancelling part is over.
<1>6. ASSUME ThenReconcile(t)
      PROVE  Goal
  <2>1. call' = [call EXCEPT ![t] = [@ EXCEPT !.stage = "list"]]
    BY <1>6 DEF ThenReconcile
  <2>2. TInv' /\ call'[t].stage = "list"
    BY <1>1, <1>2, <1>4, <1>5, <2>1, ListTInv
  <2>3. SweptWell(t)
    BY <1>1, <1>3, <1>6, <2>1, <2>2 DEF ThenReconcile, SweptWell, TInv, TypeOK
  <2>4. Safe =>
          /\ Safe'
          /\ \A u \in Tasks : SkipOK(call[u], open) => SkipOK(call[u], open)'
    BY <1>1, <1>2, <1>4, <1>5, <2>1, ListSafe
  <2> QED
    BY <2>3, <2>4
\* It goes on, or gives up.
<1>7. ASSUME NEW s \in SweepStates, sweep' = [sweep EXCEPT ![t] = s], UNCHANGED call
      PROVE  Goal
  <2>1. TInv'
    BY <1>4, <1>5, <1>7, DropTInv
  <2>2. SweptWell(t)
    BY <1>1, <1>2, <1>7, <2>1 DEF SweptWell
  <2>3. Safe =>
          /\ Safe'
          /\ \A u \in Tasks : SkipOK(call[u], open) => SkipOK(call[u], open)'
    BY <1>4, <1>5, <1>7, ThinStep
  <2> QED
    BY <2>2, <2>3
<1> HIDE DEF Goal
<1>8. sweep[t] \in SweepStates
  BY <1>1
<1>9. /\ [sweep[t] EXCEPT !.stage = "each"] \in SweepStates
      /\ \A id : [sweep[t] EXCEPT !.ids = @ \ {id}] \in SweepStates
  BY <1>8 DEF SweepStates
<1>10. ASSUME BatchAnswered(t) PROVE Goal
  BY <1>6, <1>10 DEF BatchAnswered
<1>11. ASSUME BatchRaised(t) PROVE Goal
  <2>1. sweep' = [sweep EXCEPT ![t] = [sweep[t] EXCEPT !.stage = "each"]] /\ UNCHANGED call
    BY <1>11 DEF BatchRaised
  <2> QED
    BY <1>7, <1>9, <2>1
<1>12. ASSUME NEW id \in OrderIds, PullOne(t, id)
       PROVE  Goal
  <2>1. CASE sweep[t].ids = {id}
    BY <1>6, <1>12, <2>1 DEF PullOne
  <2>2. CASE sweep[t].ids # {id}
    <3>1. /\ sweep' = [sweep EXCEPT ![t] = [sweep[t] EXCEPT !.ids = @ \ {id}]]
          /\ UNCHANGED call
      BY <1>12, <2>2 DEF PullOne
    <3> QED
      BY <1>7, <1>9, <3>1
  <2> QED
    BY <2>1, <2>2
<1>13. ASSUME NEW id \in OrderIds, PullOneRaised(t, id)
       PROVE  Goal
  BY <1>3, <1>7, <1>13 DEF PullOneRaised
<1>14. Goal
  BY <1>10, <1>11, <1>12, <1>13 DEF Sweeping
<1> QED
  BY <1>2, <1>4, <1>5, <1>14 DEF Goal

LEMMA SweepMoves ==
  ASSUME TInv, SweepersShape, NEW t \in Sweepers, SweepSteps(t)
  PROVE  /\ SweptWell(t)
         /\ UNCHANGED <<issued, booted>>
         /\ slipped' \in BOOLEAN
         /\ slipped => slipped'
         /\ sweep[t].stage # "idle" \/ call[t].stage = "list"
         /\ NothingLost /\ Safe /\ ~slipped' =>
              /\ Safe'
              /\ \A u \in Tasks : SkipOK(call[u], open) => SkipOK(call[u], open)'
<1>1. /\ t \in Tasks /\ t # Booter /\ slipped \in BOOLEAN
      /\ sweep \in [Sweepers -> SweepStates]
  BY ToolsAssumption DEF SweepersShape
<1>2. CASE Sweeping(t)
  BY <1>1, <1>2, SweepingMoves
<1>3. CASE Answer(t) /\ UNCHANGED tools
  <2>1. /\ UNCHANGED <<sweep, slipped, booted>> /\ Waiting(t)
        /\ call'[t].stage = call[t].stage
    BY <1>1, <1>3, AnswerStays DEF tools
  <2>2. call[t].stage = "list" /\ issued' = issued
    BY <1>1, <1>3, <2>1, ListAnswer DEF SweepersShape, Waiting, Request, book
  <2>3. SweptWell(t)
    BY <1>1, <1>3, <2>1, <2>2, AnswerTInv, OwnFrame DEF SweptWell, SweepersShape
  <2> QED
    BY <1>1, <1>3, <2>1, <2>2, <2>3, AnswerSafe
<1>4. CASE SweepRebuild(t)
  <2>1. /\ Rebuild(t) /\ UNCHANGED sweep /\ slipped' \in BOOLEAN
        /\ slipped => slipped'
        /\ ~slipped' /\ call[t].reply # "error" => ~StaleListing(t)
    BY <1>1, <1>4 DEF SweepRebuild
  <2>2. /\ call[t].stage = "list" /\ call' = [call EXCEPT ![t] = Idle]
        /\ booted' = booted /\ issued' = issued
    BY <1>1, <2>1 DEF Rebuild, TInv, TypeOK, book
  <2>3. TInv' /\ \A u \in Tasks \ {t} : call'[u] = call[u]
    BY <1>1, <2>1, OtherTInv, OwnFrame
  <2>4. call'[t].stage = "idle"
    BY <1>1, <2>2, IdleType DEF TInv, TypeOK
  <2>5. SweptWell(t)
    BY <1>1, <2>1, <2>2, <2>3, <2>4 DEF SweptWell, SweepersShape
  <2> QED
    BY <1>1, <2>1, <2>2, <2>5, RebuildSafe
<1> QED
  BY <1>2, <1>3, <1>4 DEF SweepSteps

\* The start of a sweep; where nothing is tracked there is nothing to sweep.
LEMMA StartMoves ==
  ASSUME TInv, SweepersShape, NEW t \in Sweepers, NEW ks \in SUBSET Keys,
         StartSweep(t, ks), UNCHANGED <<book, manager>>
  PROVE  /\ SweptWell(t)
         /\ UNCHANGED <<open, issued, resting, lock, call, cash, booted, crashes, slipped>>
         /\ sweep'[t].stage # "idle" => \E k \in Keys : resting[k] # None
<1> DEFINE ids == {resting[k].id : k \in {j \in ks : resting[j] # None}}
<1>1. /\ sweep \in [Sweepers -> SweepStates] /\ t \in Tasks
      /\ UNCHANGED <<open, issued, resting, lock, call, cash, booted, crashes, slipped>>
      /\ call[t].stage = "idle"
  BY ToolsAssumption DEF SweepersShape, StartSweep, book, manager
<1>2. TInv'
  BY <1>1, OtherTInv DEF vars
<1>3. ids \subseteq OrderIds
  BY <1>1 DEF TInv, TypeOK, Tracked
<1>4. ids # {} => \E k \in Keys : resting[k] # None
  OBVIOUS
<1>5. PICK s \in SweepStates :
        /\ sweep' = [sweep EXCEPT ![t] = s]
        /\ s.stage # "idle" => \E k \in Keys : resting[k] # None
  <2>1. NoSweep \in SweepStates /\ NoSweep.stage = "idle"
    BY DEF NoSweep, SweepStates
  <2>2. [stage |-> "batch", ids |-> ids] \in SweepStates
    BY <1>3 DEF SweepStates
  <2>3. sweep' = [sweep EXCEPT ![t] =
                    IF ids = {} THEN NoSweep ELSE [stage |-> "batch", ids |-> ids]]
    BY DEF StartSweep
  <2> HIDE DEF ids
  <2> QED
    BY <1>4, <2>1, <2>2, <2>3
<1> QED
  BY <1>1, <1>2, <1>5 DEF SweptWell

-----------------------------------------------------------------------------
(* The sweeps of ToolsSpec.                                                *)

LEMMA SweeperStep ==
  ASSUME NothingLost, ToolsInv, NEW t \in Sweepers, SweepSteps(t)
  PROVE  ToolsInv'
<1> USE DEF ToolsInv
<1>1. /\ Callers \subseteq Tasks \ {t} /\ Cancellers \subseteq Tasks \ {t}
      /\ Sweepers \subseteq Tasks /\ t # Booter
  BY ToolsAssumption DEF Callers
<1>2. booted /\ booted' = booted /\ SweptWell(t) /\ slipped' \in BOOLEAN
  BY <1>1, SweepMoves DEF ToolsShape, SweepersShape, BeforeBoot
<1>3. ToolsShape'
  BY <1>1, <1>2, SweptShape DEF ToolsShape, SweepersShape, SweptWell
<1>4. BeforeBoot'
  BY <1>1, <1>2, ManagerAssumption DEF BeforeBoot, SweptWell
<1>5. Unslipped'
  BY <1>1, SweepMoves DEF Unslipped, ToolsShape, SweepersShape
<1> QED
  BY <1>3, <1>4, <1>5

LEMMA StartSweepStep ==
  ASSUME ToolsInv, NEW t \in Sweepers, StartSweep(t, Keys), UNCHANGED <<book, manager>>
  PROVE  ToolsInv'
<1> USE DEF ToolsInv
<1>1. /\ SweptWell(t)
      /\ UNCHANGED <<open, issued, resting, lock, call, cash, booted, crashes, slipped>>
      /\ sweep'[t].stage # "idle" => \E k \in Keys : resting[k] # None
  BY StartMoves DEF ToolsShape, SweepersShape
<1>2. ToolsShape'
  BY <1>1, SweptShape DEF ToolsShape, SweptWell, SweepersShape
<1>3. BeforeBoot'
  BY <1>1 DEF BeforeBoot, SweptWell
<1>4. Unslipped'
  BY <1>1 DEF Unslipped, Safe, Reached, Tracks, InHand
<1> QED
  BY <1>2, <1>3, <1>4

-----------------------------------------------------------------------------
(* The theorems.                                                           *)

LEMMA MarketStep ==
  ASSUME ToolsInv, MarketMoves, UNCHANGED tools
  PROVE  ToolsInv'
<1> USE DEF ToolsInv
<1>1. /\ TInv /\ Market
      /\ UNCHANGED <<resting, lock, call, cash, booted, crashes, sweep, slipped>>
  BY DEF ToolsShape, SweepersShape, MarketMoves, manager, tools
<1>2. TInv'
  BY <1>1, OtherTInv
<1>3. ToolsShape'
  BY <1>1, <1>2 DEF ToolsShape, SweepersShape
<1>4. open = {} => ~Market
  BY DEF Market
<1>5. BeforeBoot'
  BY <1>1, <1>4 DEF BeforeBoot
<1>6. Unslipped'
  <2>1. Safe => Thins(open, open') /\ issued' = issued
    BY <1>1, MarketThins DEF TInv, TypeOK, Safe
  <2> QED
    BY <1>1, <2>1, ThinStep DEF Unslipped, Callers
<1> QED
  BY <1>3, <1>5, <1>6

LEMMA ToolsInvStep ==
  ASSUME NothingLost, ToolsInv, [ToolsNext]_toolVars
  PROVE  ToolsInv'
<1>1. CASE UNCHANGED toolVars
  <2>1. TInv' /\ UNCHANGED toolVars
    BY <1>1, OtherTInv DEF ToolsInv, ToolsShape, SweepersShape, toolVars, vars
  <2>2. ToolsShape' /\ BeforeBoot'
    BY <2>1 DEF ToolsInv, ToolsShape, SweepersShape, BeforeBoot, toolVars
  <2>3. Unslipped'
    BY <2>1 DEF ToolsInv, Unslipped, Safe, Reached, Tracks, InHand, toolVars
  <2> QED
    BY <2>2, <2>3 DEF ToolsInv
<1>2. CASE ToolsNext
  BY <1>2, BootStep, CallerStep, CallStep, CancellerStep, SweeperStep, StartSweepStep,
     MarketStep DEF ToolsNext
<1> QED
  BY <1>1, <1>2

\* The operator's tools race the callers of apply() in two ways only: whatever
\* else they do beside each other, no order is lost from the view and no quote
\* is doubled.
THEOREM ToolsSafe ==
  ASSUME NothingLost
  PROVE  ToolsSpec => []SafeUntilSlip
<1>1. ToolsInv => SafeUntilSlip
  BY DEF ToolsInv, Unslipped, Safe, Reached, Tracks, BookOK, SafeUntilSlip,
     NothingUntracked, OneOrderPerKey
<1> QED
  BY <1>1, ToolsInvInit, ToolsInvStep, PTL DEF ToolsSpec

\* Two tasks are never inside the critical section of one key, be they callers
\* of apply() or cancels: a sweep is never inside one at all.
THEOREM ToolsExclude ==
  ASSUME NothingLost
  PROVE  ToolsSpec => [](OneCallPerKey /\ \A t \in Sweepers : ~Inside(t))
<1>1. ToolsInv => OneCallPerKey /\ \A t \in Sweepers : ~Inside(t)
  BY DEF ToolsInv, ToolsShape, SweepersShape, TInv, Locks, OneCallPerKey, Inside, Holding
<1> QED
  BY <1>1, ToolsInvInit, ToolsInvStep, PTL DEF ToolsSpec
=============================================================================
