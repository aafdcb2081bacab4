------------------------- MODULE OrderManagerSafety -------------------------
(***************************************************************************)
(* No doubled and no lost order, for any set of strikes, prices and tasks, *)
(* as long as no fault is one of HarmfulFaults: the inductive invariant of *)
(* OrderManagerInv is initial, and every step keeps it.  From it, that the *)
(* manager implements QuoteSlots: every step maps to a step or a stutter.  *)
(***************************************************************************)
EXTENDS OrderManagerProofs

-----------------------------------------------------------------------------
(* What the book loses or gains in one step.                               *)

\* Nothing new rests, and nothing that rests has grown.
Shrinks ==
    /\ issued' = issued
    /\ \A p \in open' : \E o \in open :
         p.id = o.id /\ p.key = o.key /\ p.quote.px = o.quote.px
           /\ p.quote.sz <= o.quote.sz
    /\ \A p, q \in open' : p.id = q.id => p = q

\* As Shrinks, but the order id now has quote q.
Requotes(id, q) ==
    /\ issued' = issued
    /\ \A p \in open' : \E o \in open :
         p.id = o.id /\ p.key = o.key /\ (IF p.id = id THEN p.quote = q ELSE p = o)
    /\ \A p, r \in open' : p.id = r.id => p = r

LEMMA BookSizes ==
  ASSUME BookTypeOK
  PROVE  \A o \in open : o.quote.sz \in Nat /\ o.id \in Nat /\ o.key \in Keys
  BY ExchangeAssumption DEF BookTypeOK, Orders, OrderIds, Quotes, Sizes

LEMMA SameBookShrinks ==
  ASSUME BookTypeOK, Ids, UNCHANGED book
  PROVE  Shrinks
  BY BookSizes DEF Shrinks, Ids, book

LEMMA PullShrinks ==
  ASSUME BookTypeOK, Ids, NEW id, Pull(id)
  PROVE  Shrinks /\ \A o \in open' : o.id # id
  BY BookSizes DEF Shrinks, Ids, Pull

LEMMA RepriceRequotes ==
  ASSUME BookTypeOK, Ids, NEW id, NEW q \in Quotes, Reprice(id, q)
  PROVE  Requotes(id, q)
<1>1. \A o \in open :
        LET p == [o EXCEPT !.quote = q]
        IN  p.id = o.id /\ p.key = o.key /\ p.quote = q
  BY DEF BookTypeOK, Orders
<1>2. \A p \in open' : \E o \in open :
         p.id = o.id /\ p.key = o.key /\ (IF p.id = id THEN p.quote = q ELSE p = o)
  BY <1>1 DEF Reprice
<1>3. \A p \in open' : \E o \in open :
         p.id = o.id /\ p = (IF o.id = id THEN [o EXCEPT !.quote = q] ELSE o)
  BY <1>1 DEF Reprice
<1>4. \A p, r \in open' : p.id = r.id => p = r
  BY <1>3 DEF Ids
<1> QED
  BY <1>2, <1>4 DEF Requotes, Reprice

LEMMA MarketShrinks ==
  ASSUME BookTypeOK, Ids, Market
  PROVE  Shrinks
<1>1. CASE \E o \in open : Vanish(o)
  BY <1>1, BookSizes DEF Vanish, Shrinks, Ids
<1>2. CASE \E o \in open : PartFill(o)
  <2>1. PICK o \in open : PartFill(o)
    BY <1>2
  <2> DEFINE n == [o EXCEPT !.quote.sz = @ - 1]
  <2>2. /\ n.id = o.id /\ n.key = o.key /\ n.quote.px = o.quote.px
        /\ n.quote.sz = o.quote.sz - 1 /\ o.quote.sz \in Nat
    BY BookSizes DEF BookTypeOK, Orders, Quotes
  <2>3. open' = (open \ {o}) \cup {n} /\ issued' = issued
    BY <2>1 DEF PartFill
  <2> HIDE DEF n
  <2>4. n.quote.sz <= o.quote.sz
    BY <2>2
  <2> QED
    BY <2>2, <2>3, <2>4, BookSizes DEF Shrinks, Ids
<1> QED
  BY <1>1, <1>2 DEF Market

\* What shrinking keeps.
LEMMA ShrinksKeeps ==
  ASSUME IInv, Shrinks, BookTypeOK'
  PROVE  /\ Ids'
         /\ OneOrderPerKey'
         /\ \A p \in open' : \E o \in open :
              /\ p.id = o.id /\ p.key = o.key
              /\ \A q \in Quotes : Within(o, q) => Within(p, q)
<1> USE DEF IInv, TInv, TypeOK
<1>1. \A p \in open' : p.quote.sz \in Nat
  BY ExchangeAssumption DEF BookTypeOK, Orders, Quotes, Sizes
<1>2. Ids'
  BY DEF Shrinks, Ids
<1>3. OneOrderPerKey'
  BY DEF Shrinks, OneOrderPerKey
<1>4. \A q \in Quotes : q.sz \in Nat
  BY ExchangeAssumption DEF Quotes, Sizes
<1> QED
  BY <1>1, <1>2, <1>3, <1>4, BookSizes DEF Shrinks, Within

-----------------------------------------------------------------------------
(* Facts about the state between steps.                                    *)

\* Two calls inside the critical section work on different keys.
LEMMA Apart ==
  ASSUME IInv, NEW t \in Tasks, NEW u \in Tasks, t # u, Inside(t), Inside(u)
  PROVE  call[t].key # call[u].key
  BY DEF IInv, TInv, Locks

\* Whoever has an order in hand is at work on the order's key.
LEMMA HandKey ==
  ASSUME IInv, NEW u \in Tasks, NEW o \in open,
         call[u].stage \in {"place", "instead"}, call[u].reply = "ok",
         call[u].oid = o.id
  PROVE  o.key = call[u].key /\ Inside(u)
  BY DEF IInv, Work, WorkOK, OnEmpty, Inside, Holding

\* On a key where no call has an order in hand, what rests is tracked.
LEMMA KeyTracked ==
  ASSUME IInv, booted, NEW k \in Keys,
         \A u \in Tasks : call[u].key = k =>
            call[u].stage \notin {"place", "instead"} \/ call[u].reply # "ok"
  PROVE  \A o \in open : o.key = k => resting[k] # None /\ resting[k].id = o.id
<1> SUFFICES ASSUME NEW o \in open, o.key = k,
                    ~(resting[k] # None /\ resting[k].id = o.id)
             PROVE  FALSE
  OBVIOUS
<1>1. InHand(o)
  BY DEF IInv, NothingUntracked
<1>2. PICK u \in Tasks : /\ call[u].stage \in {"place", "instead"}
                         /\ call[u].reply = "ok"
                         /\ call[u].oid = o.id
  BY <1>1 DEF InHand
<1> QED
  BY <1>2, HandKey

\* A free key: what rests is tracked.
LEMMA FreeKeyTracked ==
  ASSUME IInv, booted, NEW k \in Keys, lock[k] = None
  PROVE  \A o \in open : o.key = k => resting[k] # None /\ resting[k].id = o.id
<1>1. \A u \in Tasks : call[u].key = k => ~Inside(u)
  BY ManagerAssumption DEF IInv, TInv, Locks
<1> QED
  BY <1>1, KeyTracked DEF Inside, Holding

\* The key of a call that is not placing: what rests is tracked.
LEMMA HeldKeyTracked ==
  ASSUME IInv, booted, NEW t \in Tasks, Inside(t), call[t].key \in Keys,
         call[t].stage \notin {"place", "instead"}
  PROVE  \A o \in open : o.key = call[t].key =>
            resting[o.key] # None /\ resting[o.key].id = o.id
<1>1. \A u \in Tasks : call[u].key = call[t].key /\ Inside(u) => u = t
  BY Apart
<1> QED
  BY <1>1, KeyTracked DEF Inside, Holding

\* A key whose tracked order is gone, and where t cancels, is empty.
LEMMA CancelledKeyEmpty ==
  ASSUME IInv, booted, NEW t \in Tasks,
         call[t].stage \in {"cancel", "replace"}, call[t].reply # "none"
  PROVE  \A o \in open : o.key # call[t].key
<1>1. OnTracked(call[t]) /\ Inside(t) /\ call[t].key \in Keys
  BY DEF IInv, TInv, Work, WorkOK, Inside, Holding, Shape, ShapeOf
<1> QED
  BY <1>1, HeldKeyTracked DEF OnTracked

-----------------------------------------------------------------------------
(* A request is executed or answered: the book and one frame change.       *)

\* The frame keeps its place in the code, the view stays as it is.
Answers(t, f) ==
    /\ Waiting(t)
    /\ Becomes(t, f)
    /\ f.stage = call[t].stage /\ f.key = call[t].key /\ f.want = call[t].want
    /\ UNCHANGED <<resting, lock, cash, booted, crashes>>

LEMMA AnswersKeep ==
  ASSUME IInv, NEW t \in Tasks, NEW f, Answers(t, f)
  PROVE  /\ Boot'
         /\ \A o : InHand(o) => InHand(o)'
         /\ \A k \in Keys : lock[k] # None =>
              call'[lock[k]].stage = call[lock[k]].stage
  BY ManagerAssumption
  DEF IInv, TInv, TypeOK, Answers, Becomes, Boot, InHand, Waiting

\* The book shrinks, or stays.
LEMMA ShrinkStep ==
  ASSUME IInv, TInv', NEW t \in Tasks, NEW f, Answers(t, f), Shrinks,
         f.oid = call[t].oid,
         f.stage = "list" /\ f.reply # "none" => ListOK(f)',
         f.stage \in {"cancel", "replace"} /\ f.reply # "none" =>
            \A o \in open' : o.id # f.oid,
         f.stage \in {"amend", "place", "instead"} => f.reply # "ok"
  PROVE  IInv'
<1> USE DEF IInv, TInv, TypeOK
<1>1. /\ Ids' /\ OneOrderPerKey'
      /\ \A p \in open' : \E o \in open :
              /\ p.id = o.id /\ p.key = o.key
              /\ \A q \in Quotes : Within(o, q) => Within(p, q)
  BY ShrinksKeeps
<1>2. /\ Boot'
      /\ \A o : InHand(o) => InHand(o)'
      /\ \A k \in Keys : lock[k] # None =>
              call'[lock[k]].stage = call[lock[k]].stage
  BY AnswersKeep
<1>3. View'
  BY <1>1 DEF View, Answers, Shrinks
<1>4. Listing'
  <2> SUFFICES ASSUME NEW u \in Tasks,
                      call'[u].stage = "list" /\ call'[u].reply # "none"
               PROVE  ListOK(call[u])'
    BY DEF Listing
  <2>1. CASE u = t
    BY <2>1 DEF Answers, Becomes
  <2>2. CASE u # t
    <3>1. call'[u] = call[u] /\ ListOK(call[u])
      BY <2>2 DEF Answers, Becomes, Listing
    <3>2. \A s \in call[u].seen : s.quote \in Quotes
      BY DEF Frame, Orders
    <3> QED
      BY <1>1, <3>1, <3>2 DEF ListOK, Shrinks
  <2> QED
    BY <2>1, <2>2
<1>5. Work'
  <2> SUFFICES ASSUME NEW u \in Tasks
               PROVE  WorkOK(call[u])'
    BY DEF Work
  <2>1. WorkOK(call[u]) /\ ShapeOf(call[u])
    BY DEF Work, Shape
  <2>2. CASE u = t
    <3>1. call'[u] = f /\ f.stage = call[t].stage /\ f.key = call[t].key
      BY <2>2 DEF Answers, Becomes
    <3>2. UNCHANGED resting /\ call[t].reply = "none"
      BY DEF Answers, Waiting
    <3> QED
      BY <1>1, <2>1, <2>2, <3>1, <3>2 DEF WorkOK, OnTracked, OnEmpty
  <2>3. CASE u # t
    <3>1. call'[u] = call[u] /\ UNCHANGED resting
      BY <2>3 DEF Answers, Becomes
    <3> QED
      BY <1>1, <2>1, <3>1 DEF WorkOK, OnTracked, OnEmpty, ShapeOf, Shrinks
  <2> QED
    BY <2>2, <2>3
<1>6. Covered'
  <2>1. UNCHANGED <<resting, lock>>
    BY DEF Answers
  <2>2. \A k \in Keys : resting[k] # None => resting[k].quote \in Quotes
    BY DEF Tracked
  <2> QED
    BY <1>1, <1>2, <2>1, <2>2 DEF Covered
<1>7. NothingUntracked'
  <2>1. UNCHANGED <<resting, booted>>
    BY DEF Answers
  <2>2. \A p \in open' : \A o \in open : p.id = o.id /\ InHand(o) => InHand(p)'
    BY <1>2 DEF InHand, Answers, Becomes, Waiting
  <2> QED
    BY <1>1, <2>1, <2>2 DEF NothingUntracked
<1> QED
  BY <1>1, <1>2, <1>3, <1>4, <1>5, <1>6, <1>7

\* An amend is executed.
LEMMA RequoteStep ==
  ASSUME IInv, TInv', NEW t \in Tasks, NEW f, Answers(t, f),
         call[t].stage = "amend", f.oid = call[t].oid,
         Requotes(call[t].oid, call[t].want)
  PROVE  IInv'
<1> USE DEF IInv, TInv, TypeOK
<1>1. /\ Boot'
      /\ \A o : InHand(o) => InHand(o)'
      /\ \A k \in Keys : lock[k] # None =>
              call'[lock[k]].stage = call[lock[k]].stage
  BY AnswersKeep
<1>2. /\ Inside(t) /\ lock[call[t].key] = t /\ call[t].key \in Keys
      /\ call[t].want \in Quotes
      /\ OnTracked(call[t])
  BY DEF Locks, Inside, Holding, Shape, ShapeOf, Work, WorkOK
<1>3. \A p \in open' : \E o \in open :
         /\ p.id = o.id /\ p.key = o.key
         /\ p.key = call[t].key \/ p = o
  BY <1>2 DEF Requotes, OnTracked, View
<1>4. Ids'
  BY DEF Ids, Requotes
<1>5. OneOrderPerKey'
  BY <1>4, <1>3 DEF OneOrderPerKey, Ids
<1>6. View'
  BY <1>3 DEF View, Answers, Requotes
<1>7. Listing'
  <2>1. booted
    BY DEF Boot
  <2>2. \A u \in Tasks : call'[u].stage # "list"
    BY <1>1, <2>1 DEF Boot, Answers
  <2> QED
    BY <2>2 DEF Listing
<1>8. Work'
  <2> SUFFICES ASSUME NEW u \in Tasks
               PROVE  WorkOK(call[u])'
    BY DEF Work
  <2>1. WorkOK(call[u]) /\ ShapeOf(call[u])
    BY DEF Work, Shape
  <2>2. UNCHANGED resting
    BY DEF Answers
  <2>3. CASE u = t
    <3>1. call'[u] = f /\ f.stage = "amend" /\ f.key = call[t].key /\ f.want = call[t].want
      BY <2>3 DEF Answers, Becomes
    <3>2. call[t].want.sz \in Nat
      BY <1>2, ExchangeAssumption DEF Quotes, Sizes
    <3>3. \A p \in open' : p.id = f.oid => Within(p, f.want)
      BY <3>1, <3>2 DEF Requotes, Within
    <3> QED
      BY <1>2, <2>2, <3>1, <3>3 DEF WorkOK, OnTracked
  <2>4. CASE u # t
    <3>1. call'[u] = call[u]
      BY <2>4 DEF Answers, Becomes
    <3>2. CASE Inside(u)
      <4>1. call[u].key # call[t].key
        BY <1>2, <2>4, <3>2, Apart
      <4>2. call[u].stage \in {"cancel", "amend", "replace"} =>
              \A o \in open : o.id = call[u].oid => o.key = call[u].key
        BY <2>1 DEF WorkOK, OnTracked, View, ShapeOf
      <4> QED
        BY <1>3, <2>1, <2>2, <3>1, <4>1, <4>2 DEF WorkOK, OnTracked, OnEmpty, Requotes
    <3>3. CASE ~Inside(u)
      BY <3>1, <3>3 DEF WorkOK, Inside, Holding
    <3> QED
      BY <3>2, <3>3
  <2> QED
    BY <2>3, <2>4
<1>9. Covered'
  <2>1. UNCHANGED <<resting, lock>>
    BY DEF Answers
  <2> SUFFICES ASSUME NEW k \in Keys, resting[k] # None,
                      lock[k] = None \/ call'[lock[k]].stage = "cancel",
                      NEW p \in open', p.id = resting[k].id
               PROVE  Within(p, resting[k].quote)
    BY <2>1 DEF Covered
  <2>2. k # call[t].key
    BY <1>1, <1>2, ManagerAssumption
  <2>3. p.key = k
    BY <1>6, <2>1 DEF View
  <2> QED
    BY <1>1, <1>3, <2>2, <2>3 DEF Covered
<1>10. NothingUntracked'
  <2>1. UNCHANGED <<resting, booted>>
    BY DEF Answers
  <2>2. \A p \in open' : \A o \in open : p.id = o.id /\ InHand(o) => InHand(p)'
    BY <1>1 DEF InHand, Answers, Becomes, Waiting
  <2> QED
    BY <1>3, <2>1, <2>2 DEF NothingUntracked
<1> QED
  BY <1>1, <1>4, <1>5, <1>6, <1>7, <1>8, <1>9, <1>10

\* A placement is accepted.
LEMMA RestStep ==
  ASSUME IInv, TInv', NEW t \in Tasks, NEW f, Answers(t, f),
         call[t].stage \in {"place", "instead"},
         f.reply = "ok", f.oid = issued + 1,
         Rest(call[t].key, call[t].want)
  PROVE  IInv'
<1> USE DEF IInv, TInv, TypeOK
<1>1. /\ Boot'
      /\ \A o : InHand(o) => InHand(o)'
      /\ \A k \in Keys : lock[k] # None =>
              call'[lock[k]].stage = call[lock[k]].stage
  BY AnswersKeep
<1>2. /\ Inside(t) /\ lock[call[t].key] = t /\ call[t].key \in Keys
      /\ call[t].want \in Quotes
      /\ OnEmpty(call[t]) /\ call[t].reply = "none"
  BY DEF Locks, Inside, Holding, Shape, ShapeOf, Work, WorkOK, Answers, Waiting
<1>3. PICK n :
        /\ n.id = issued + 1 /\ n.key = call[t].key /\ n.quote = call[t].want
        /\ open' = open \cup {n} /\ issued' = issued + 1
  BY DEF Rest
<1>4. \A o \in open : o.id <= issued /\ o.key # call[t].key /\ o.id # n.id
  <2>1. \A o \in open : o.id \in Nat /\ o.id <= issued
    BY BookSizes DEF Ids
  <2> QED
    BY <1>2, <1>3, <2>1 DEF OnEmpty, BookTypeOK
<1>5. Ids'
  BY <1>3, <1>4, BookSizes DEF Ids, BookTypeOK
<1>6. OneOrderPerKey'
  BY <1>3, <1>4 DEF OneOrderPerKey
<1>7. \A k \in Keys : resting[k] # None => resting[k].id \in Nat /\ resting[k].id <= issued
  BY ExchangeAssumption DEF View, Tracked, OrderIds
<1>8. View'
  BY <1>3, <1>4, <1>7 DEF View, Answers, BookTypeOK
<1>9. Listing'
  <2>1. booted
    BY DEF Boot
  <2>2. \A u \in Tasks : call'[u].stage # "list"
    BY <1>1, <2>1 DEF Boot, Answers
  <2> QED
    BY <2>2 DEF Listing
<1>10. Work'
  <2> SUFFICES ASSUME NEW u \in Tasks
               PROVE  WorkOK(call[u])'
    BY DEF Work
  <2>1. WorkOK(call[u]) /\ ShapeOf(call[u])
    BY DEF Work, Shape
  <2>2. UNCHANGED resting
    BY DEF Answers
  <2>3. CASE u = t
    <3>1. /\ call'[u] = f /\ f.stage \in {"place", "instead"}
          /\ f.key = call[t].key /\ f.want = call[t].want
      BY <2>3 DEF Answers, Becomes
    <3>2. call[t].want.sz \in Nat
      BY <1>2, ExchangeAssumption DEF Quotes, Sizes
    <3> QED
      BY <1>2, <1>3, <1>4, <2>2, <3>1, <3>2 DEF WorkOK, OnEmpty, Within, BookTypeOK
  <2>4. CASE u # t
    <3>1. call'[u] = call[u]
      BY <2>4 DEF Answers, Becomes
    <3>2. CASE Inside(u)
      <4>1. call[u].key # call[t].key /\ call[u].key \in Keys
        BY <1>2, <2>1, <2>4, <3>2, Apart DEF ShapeOf, Inside, Holding
      <4>2. call[u].stage \in {"cancel", "amend", "replace"} => n.id # call[u].oid
        BY <1>3, <1>7, <2>1, <4>1 DEF WorkOK, OnTracked, BookTypeOK
      <4>3. call[u].oid \in Nat
        BY ExchangeAssumption DEF Frame
      <4> QED
        BY <1>3, <1>4, <2>1, <2>2, <3>1, <4>1, <4>2, <4>3
        DEF WorkOK, OnTracked, OnEmpty, BookTypeOK
    <3>3. CASE ~Inside(u)
      BY <3>1, <3>3 DEF WorkOK, Inside, Holding
    <3> QED
      BY <3>2, <3>3
  <2> QED
    BY <2>3, <2>4
<1>11. Covered'
  <2>1. UNCHANGED <<resting, lock>>
    BY DEF Answers
  <2>2. \A k \in Keys : resting[k] # None => n.id # resting[k].id
    BY <1>3, <1>7 DEF BookTypeOK
  <2> QED
    BY <1>1, <1>3, <2>1, <2>2 DEF Covered
<1>12. NothingUntracked'
  <2>1. UNCHANGED <<resting, booted>>
    BY DEF Answers
  <2>2. InHand(n)'
    BY <1>3 DEF InHand, Answers, Becomes
  <2>3. \A o \in open : InHand(o) => InHand(o)'
    BY <1>1
  <2> QED
    BY <1>3, <2>1, <2>2, <2>3 DEF NothingUntracked
<1> QED
  BY <1>1, <1>5, <1>6, <1>8, <1>9, <1>10, <1>11, <1>12

\* No request, executed or not, breaks the invariant.
LEMMA AnswerStep ==
  ASSUME BenignFaults, IInv, NEW t \in Tasks, Answer(t)
  PROVE  IInv'
<1> USE DEF IInv
<1>1. TInv'
  BY AnswerTInv
<1>2. BookTypeOK /\ Ids /\ ShapeOf(call[t]) /\ call[t] \in Frame
  BY DEF TInv, TypeOK, Shape
<1>3. /\ Waiting(t)
      /\ UNCHANGED <<resting, lock, cash, booted, crashes>>
  BY DEF Answer, PlaceAccepted, AmendAccepted, CancelAcknowledged,
     OrderRejected, CancelRejected, ListAnswered, RequestLost, ResponseLost, book
<1>4. /\ call[t].stage \in {"cancel", "replace", "amend", "place", "instead", "list"}
      /\ call[t].reply = "none"
      /\ call[t].oid \in 0 .. MaxOrders
  BY <1>2, <1>3 DEF Waiting, Request, Frame
<1>5. /\ call[t].stage \in {"place", "instead"} <=> Request[call[t].stage] = "place"
      /\ call[t].stage = "amend" <=> Request[call[t].stage] = "amend"
      /\ call[t].stage \in {"cancel", "replace"} <=> Request[call[t].stage] = "cancel"
      /\ call[t].stage = "list" <=> Request[call[t].stage] = "list"
  BY <1>4 DEF Request
<1>6. /\ <<"place", "unanswered">> \notin Faults
      /\ <<"cancel", "unreached">> \notin Faults
      /\ <<"cancel", "refused">> \notin Faults
      /\ <<"list", "unreached">> \notin Faults
      /\ <<"list", "unanswered">> \notin Faults
  BY DEF BenignFaults, HarmfulFaults
<1>7. CASE PlaceAccepted(t)
  <2>1. Rest(call[t].key, call[t].want) /\ call[t].stage \in {"place", "instead"}
    BY <1>5, <1>4, <1>7 DEF PlaceAccepted, Execute
  <2>2. issued + 1 \in 0 .. MaxOrders
    BY <1>2, <2>1, ExchangeAssumption DEF Rest, BookTypeOK
  <2>3. PICK f : /\ Becomes(t, f)
                 /\ f.stage = call[t].stage /\ f.oid = issued + 1
                 /\ f.key = call[t].key /\ f.want = call[t].want
                 /\ f.reply = "ok"
    BY <1>7, <2>2, ReplyFrame DEF PlaceAccepted
  <2> QED
    BY <1>1, <1>3, <2>1, <2>3, RestStep DEF Answers
<1>8. CASE AmendAccepted(t)
  <2>1. /\ Reprice(call[t].oid, call[t].want) /\ call[t].stage = "amend"
        /\ call[t].want \in Quotes
    BY <1>2, <1>4, <1>5, <1>8 DEF AmendAccepted, Execute, ShapeOf
  <2>2. PICK f : /\ Becomes(t, f)
                 /\ f.stage = call[t].stage /\ f.oid = call[t].oid
                 /\ f.key = call[t].key /\ f.want = call[t].want
    BY <1>4, <1>8, ReplyFrame DEF AmendAccepted
  <2> QED
    BY <1>1, <1>2, <1>3, <2>1, <2>2, RepriceRequotes, RequoteStep DEF Answers
<1>9. CASE CancelAcknowledged(t)
  <2>1. Pull(call[t].oid) /\ call[t].stage \in {"cancel", "replace"}
    BY <1>4, <1>5, <1>9 DEF CancelAcknowledged, Execute
  <2>2. PICK f : /\ Becomes(t, f)
                 /\ f.stage = call[t].stage /\ f.oid = call[t].oid
                 /\ f.key = call[t].key /\ f.want = call[t].want
    BY <1>4, <1>9, ReplyFrame DEF CancelAcknowledged
  <2>3. Shrinks /\ \A o \in open' : o.id # call[t].oid
    BY <1>2, <2>1, PullShrinks
  <2> QED
    BY <1>1, <1>3, <2>1, <2>2, <2>3, ShrinkStep DEF Answers
<1>10. CASE OrderRejected(t) \/ CancelRejected(t)
  <2>1. /\ Reply(t, "refused", call[t].oid) /\ UNCHANGED book
        /\ call[t].stage # "list"
        /\ call[t].stage \in {"cancel", "replace"} => ~IsOpen(call[t].oid)
    BY <1>4, <1>5, <1>6, <1>10 DEF OrderRejected, CancelRejected
  <2>2. PICK f : /\ Becomes(t, f)
                 /\ f.stage = call[t].stage /\ f.oid = call[t].oid
                 /\ f.key = call[t].key /\ f.want = call[t].want
                 /\ f.reply = "refused"
    BY <1>4, <2>1, ReplyFrame
  <2>3. Shrinks /\ open' = open
    BY <1>2, <2>1, SameBookShrinks DEF book
  <2> QED
    BY <1>1, <1>3, <2>1, <2>2, <2>3, ShrinkStep DEF Answers, IsOpen
<1>11. CASE ListAnswered(t)
  <2>1. open \in SUBSET Orders
    BY <1>2 DEF BookTypeOK
  <2>2. PICK f :
        /\ f = [call[t] EXCEPT !.reply = "ok", !.seen = open]
        /\ f \in Frame /\ f.stage = call[t].stage /\ f.key = call[t].key
        /\ f.want = call[t].want /\ f.oid = call[t].oid
        /\ f.reply = "ok" /\ f.seen = open /\ f.stage = "list"
    <3> DEFINE g == [call[t] EXCEPT !.reply = "ok", !.seen = open]
    <3>1. /\ g \in Frame /\ g.stage = call[t].stage /\ g.key = call[t].key
          /\ g.want = call[t].want /\ g.oid = call[t].oid
          /\ g.reply = "ok" /\ g.seen = open /\ g.stage = "list"
      BY <1>2, <1>11, <2>1 DEF Frame, ListAnswered
    <3>2. \E f : f = g
      OBVIOUS
    <3> QED
      BY <3>1, <3>2
  <2>3. Becomes(t, f)
    BY <1>11, <2>2, FrameSet DEF ListAnswered
  <2>4. Shrinks /\ open' = open /\ issued' = issued
    BY <1>2, <1>11, SameBookShrinks DEF ListAnswered, book
  <2>5. ListOK(f)'
    BY <1>2, <2>2, <2>4, BookSizes DEF ListOK, Ids, OneOrderPerKey, Within
  <2> QED
    BY <1>1, <1>3, <2>2, <2>3, <2>4, <2>5, ShrinkStep DEF Answers
<1>12. CASE RequestLost(t)
  <2>1. /\ Unanswered(t) /\ UNCHANGED book
        /\ call[t].stage \in {"amend", "place", "instead"}
    BY <1>4, <1>5, <1>6, <1>12 DEF RequestLost
  <2>2. PICK f : /\ Becomes(t, f)
                 /\ f.stage = call[t].stage /\ f.oid = call[t].oid
                 /\ f.key = call[t].key /\ f.want = call[t].want
                 /\ f.reply \in {call[t].reply, "error"}
    BY <2>1, UnansweredFrame
  <2>3. Shrinks
    BY <1>2, <2>1, SameBookShrinks
  <2> QED
    BY <1>1, <1>3, <1>4, <2>1, <2>2, <2>3, ShrinkStep DEF Answers
<1>13. CASE ResponseLost(t)
  <2>1. Unanswered(t) /\ Execute(t) /\ call[t].stage \in {"amend", "cancel", "replace"}
    BY <1>4, <1>5, <1>6, <1>13 DEF ResponseLost
  <2>2. PICK f : /\ Becomes(t, f)
                 /\ f.stage = call[t].stage /\ f.oid = call[t].oid
                 /\ f.key = call[t].key /\ f.want = call[t].want
                 /\ f.reply \in {call[t].reply, "error"}
    BY <2>1, UnansweredFrame
  <2>3. CASE call[t].stage = "amend"
    <3>1. Reprice(call[t].oid, call[t].want) /\ call[t].want \in Quotes
      BY <1>2, <1>5, <2>1, <2>3 DEF Execute, ShapeOf
    <3> QED
      BY <1>1, <1>2, <1>3, <2>2, <2>3, <3>1, RepriceRequotes, RequoteStep DEF Answers
  <2>4. CASE call[t].stage \in {"cancel", "replace"}
    <3>1. Pull(call[t].oid)
      BY <1>5, <2>1, <2>4 DEF Execute
    <3>2. Shrinks /\ \A o \in open' : o.id # call[t].oid
      BY <1>2, <3>1, PullShrinks
    <3> QED
      BY <1>1, <1>3, <2>2, <2>4, <3>2, ShrinkStep DEF Answers
  <2> QED
    BY <2>1, <2>3, <2>4
<1> QED
  BY <1>7, <1>8, <1>9, <1>10, <1>11, <1>12, <1>13 DEF Answer

-----------------------------------------------------------------------------
(* A call takes its lock, or resumes on an answer: the book is as it was.  *)

\* A step of one call that leaves the book alone and touches one key's view
\* at most.
LEMMA FrameStep ==
  ASSUME IInv, TInv', NEW t \in Tasks, NEW f, Becomes(t, f), booted,
         NEW k \in Keys, call[t].key = k, f.key = k \/ f = Idle,
         lock[k] \in {None, t},
         UNCHANGED <<open, issued, booted>>,
         \A j \in Keys \ {k} : resting'[j] = resting[j] /\ lock'[j] = lock[j],
         f.stage # "list",
         WorkOK(f)',
         \* the view on k, after the step
         resting'[k] # None =>
            /\ resting'[k].id <= issued
            /\ \A o \in open : o.id = resting'[k].id => o.key = k
            /\ lock'[k] = None \/ call'[lock'[k]].stage = "cancel" =>
                 \A o \in open : o.id = resting'[k].id => Within(o, resting'[k].quote),
         \* the orders on k, after the step
         \A o \in open : o.key = k =>
            resting'[k] # None /\ resting'[k].id = o.id
  PROVE  IInv'
<1> USE DEF IInv, TInv, TypeOK
<1>1. \A u \in Tasks \ {t} : call'[u] = call[u]
  BY DEF Becomes
<1>2. Boot'
  BY <1>1 DEF Boot, Becomes
<1>3. Ids' /\ OneOrderPerKey'
  BY DEF Ids, OneOrderPerKey
<1>4. View'
  BY DEF View
<1>5. Listing'
  BY <1>1 DEF Listing, ListOK, Becomes
<1>6. ASSUME NEW u \in Tasks \ {t}, Inside(u)
      PROVE  call[u].key \in Keys \ {k}
  BY <1>6, ManagerAssumption DEF Locks, Shape, ShapeOf, Inside, Holding
<1>7. Work'
  <2> SUFFICES ASSUME NEW u \in Tasks
               PROVE  WorkOK(call[u])'
    BY DEF Work
  <2>1. CASE u = t
    BY <2>1 DEF Becomes
  <2>2. CASE u # t
    <3>1. call'[u] = call[u] /\ WorkOK(call[u])
      BY <1>1, <2>2 DEF Work
    <3>2. CASE Inside(u)
      BY <1>6, <2>2, <3>1, <3>2 DEF WorkOK, OnTracked, OnEmpty
    <3>3. CASE ~Inside(u)
      BY <3>1, <3>3 DEF WorkOK, Inside, Holding
    <3> QED
      BY <3>2, <3>3
  <2> QED
    BY <2>1, <2>2
<1>8. Covered'
  <2> SUFFICES ASSUME NEW j \in Keys, resting'[j] # None,
                      lock'[j] = None \/ call'[lock'[j]].stage = "cancel",
                      NEW o \in open, o.id = resting'[j].id
               PROVE  Within(o, resting'[j].quote)
    BY DEF Covered
  <2>1. CASE j = k
    BY <2>1
  <2>2. CASE j # k
    <3>1. resting'[j] = resting[j] /\ lock'[j] = lock[j]
      BY <2>2
    <3>2. lock[j] # None => lock[j] \in Tasks \ {t}
      BY <2>2 DEF Locks
    <3> QED
      BY <1>1, <3>1, <3>2 DEF Covered
  <2> QED
    BY <2>1, <2>2
<1>9. NothingUntracked'
  <2> SUFFICES ASSUME NEW o \in open
               PROVE  \/ resting'[o.key] # None /\ resting'[o.key].id = o.id
                      \/ InHand(o)'
    BY DEF NothingUntracked
  <2>1. CASE o.key = k
    BY <2>1
  <2>2. CASE o.key # k
    <3>1. o.key \in Keys
      BY BookSizes
    <3>2. CASE InHand(o)
      <4>1. PICK u \in Tasks : /\ call[u].stage \in {"place", "instead"}
                               /\ call[u].reply = "ok"
                               /\ call[u].oid = o.id
        BY <3>2 DEF InHand
      <4>2. u # t
        BY <2>2, <4>1, HandKey
      <4> QED
        BY <1>1, <4>1, <4>2 DEF InHand
    <3> QED
      BY <2>2, <3>1, <3>2 DEF NothingUntracked
  <2> QED
    BY <2>1, <2>2
<1> QED
  BY <1>2, <1>3, <1>4, <1>5, <1>7, <1>8, <1>9

LEMMA AcquireStep ==
  ASSUME IInv, NEW t \in Tasks, Acquire(t)
  PROVE  IInv'
<1> USE DEF IInv, TInv
<1> DEFINE k == call[t].key
<1>1. TInv'
  BY AcquireTInv
<1>2. /\ Granted(t)
      /\ UNCHANGED <<open, issued, resting, booted>>
  BY DEF Acquire, ReturnAtOnce, SkipCancel, TryAmend, TryPlace, book
<1>3. /\ booted /\ k \in Keys /\ lock[k] = None /\ call[t].reply = "none"
      /\ call[t].stage = "queued" /\ ~Inside(t)
  BY <1>2 DEF Granted, Boot, Shape, ShapeOf, Inside, Holding
<1>4. \A o \in open : o.key = k => resting[k] # None /\ resting[k].id = o.id
  BY <1>3, FreeKeyTracked
<1>5. resting[k] # None =>
         /\ resting[k].id <= issued
         /\ \A o \in open : o.id = resting[k].id =>
              o.key = k /\ Within(o, resting[k].quote)
  BY <1>3 DEF View, Covered
<1>6. CASE ReturnAtOnce(t)
  <2>1. Becomes(t, Idle) /\ Idle.stage = "idle"
    BY <1>6, ReturnFrame, IdleType DEF ReturnAtOnce
  <2>2. WorkOK(Idle)'
    BY <2>1 DEF WorkOK
  <2>3. UNCHANGED lock
    BY <1>6 DEF ReturnAtOnce
  <2> QED
    BY <1>1, <1>2, <1>3, <1>4, <1>5, <2>1, <2>2, <2>3, FrameStep
<1>7. ASSUME NEW s \in {"cancel", "amend", "place"}, NEW i \in 0 .. MaxOrders,
             Enter(t, s, i),
             s = "place" => resting[k] = None,
             s # "place" => resting[k] # None /\ i = resting[k].id
      PROVE  IInv'
  <2>1. PICK f : /\ Becomes(t, f)
                 /\ f.stage = s /\ f.oid = i /\ f.key = k
                 /\ f.reply = "none"
    BY <1>3, <1>7, EnterFrame DEF Stages
  <2>2. WorkOK(f)'
    BY <1>2, <1>4, <1>7, <2>1 DEF WorkOK, OnTracked, OnEmpty
  <2>3. lock' = [lock EXCEPT ![k] = t]
    BY <1>7 DEF Enter
  <2>4. \A j \in Keys \ {k} : resting'[j] = resting[j] /\ lock'[j] = lock[j]
    BY <1>2, <2>3 DEF TypeOK
  <2> HIDE DEF k
  <2> QED
    BY <1>1, <1>2, <1>3, <1>4, <1>5, <2>1, <2>2, <2>4, FrameStep DEF k
<1>8. ASSUME resting[k] # None PROVE resting[k].id \in 0 .. MaxOrders
  BY <1>3, <1>8, ExchangeAssumption DEF TypeOK, Tracked, OrderIds
<1>9. 0 \in 0 .. MaxOrders
  BY ExchangeAssumption
<1>10. CASE SkipCancel(t)
  BY <1>7, <1>8, <1>10 DEF SkipCancel
<1>11. CASE TryAmend(t)
  BY <1>7, <1>8, <1>11 DEF TryAmend
<1>12. CASE TryPlace(t)
  BY <1>7, <1>9, <1>12 DEF TryPlace
<1> QED
  BY <1>6, <1>10, <1>11, <1>12 DEF Acquire

LEMMA ResumeStep ==
  ASSUME IInv, NEW t \in Tasks, Resume(t)
  PROVE  IInv'
<1> USE DEF IInv, TInv
<1> DEFINE k == call[t].key
<1>1. TInv'
  BY ResumeTInv
<1>2. /\ Answered(t) /\ call[t].reply # "none"
      /\ call[t].stage \in Holding
      /\ UNCHANGED <<open, issued, booted>>
      /\ call[t].stage \in {"place", "instead"} <=> Request[call[t].stage] = "place"
  BY DEF Resume, OnSkipCancel, OnAmended, OnAmendFailed, OnReplaceCancel,
     OnPlaced, OnPlaceFailed, book, Answered, Request, Holding
<1>3. /\ Inside(t) /\ k \in Keys /\ booted /\ lock[k] = t
      /\ ShapeOf(call[t]) /\ WorkOK(call[t])
  BY <1>2 DEF Inside, Holding, Shape, ShapeOf, Boot, Locks, Work
<1>4. call[t].stage \notin {"place", "instead"} =>
         \A o \in open : o.key = k => resting[k] # None /\ resting[k].id = o.id
  BY <1>3, HeldKeyTracked
<1>5. resting[k] # None =>
         /\ resting[k].id <= issued
         /\ \A o \in open : o.id = resting[k].id => o.key = k
  BY <1>3 DEF View
\* The call returns, with r on its key.
<1>6. ASSUME NEW r \in Tracked \cup {None},
             Return(t), resting' = [resting EXCEPT ![k] = r],
             r # None =>
                /\ r.id <= issued
                /\ \A o \in open : o.id = r.id => o.key = k /\ Within(o, r.quote),
             \A o \in open : o.key = k => r # None /\ r.id = o.id
      PROVE  IInv'
  <2>1. Becomes(t, Idle) /\ Idle.stage = "idle" /\ WorkOK(Idle)'
    BY <1>6, ReturnFrame, IdleType DEF Return, WorkOK
  <2>2. resting'[k] = r
    BY <1>3, <1>6 DEF TypeOK
  <2>3. \A j \in Keys \ {k} : resting'[j] = resting[j] /\ lock'[j] = lock[j]
    BY <1>3, <1>6 DEF TypeOK, Return
  <2> HIDE DEF k
  <2> QED
    BY <1>1, <1>2, <1>3, <1>6, <2>1, <2>2, <2>3, FrameStep DEF k
\* The call sends its next request, with r on its key.
<1>7. ASSUME NEW r \in Tracked \cup {None}, NEW s \in {"replace", "instead"},
             GoOn(t, s), resting' = [resting EXCEPT ![k] = r],
             s = "replace" => r = resting[k] /\ r # None /\ r.id = call[t].oid,
             s = "instead" => r = None,
             \A o \in open : o.key = k => r # None /\ r.id = o.id
      PROVE  IInv'
  <2>1. PICK f : /\ Becomes(t, f)
                 /\ f.stage = s /\ f.oid = call[t].oid /\ f.key = k
                 /\ f.reply = "none"
    BY <1>7, GoOnFrame DEF Stages
  <2>2. resting'[k] = r /\ UNCHANGED lock
    BY <1>3, <1>7 DEF TypeOK, GoOn
  <2>3. WorkOK(f)'
    BY <1>2, <1>7, <2>1, <2>2 DEF WorkOK, OnTracked, OnEmpty
  <2>4. \A j \in Keys \ {k} : resting'[j] = resting[j] /\ lock'[j] = lock[j]
    BY <1>3, <1>7, <2>2 DEF TypeOK
  <2>5. lock'[k] = t /\ call'[t].stage # "cancel"
    BY <1>3, <2>1, <2>2 DEF Becomes
  <2> HIDE DEF k
  <2> QED
    BY <1>1, <1>2, <1>3, <1>5, <1>7, <2>1, <2>2, <2>3, <2>4, <2>5, FrameStep,
       ManagerAssumption DEF k
<1>8. /\ resting[k] \in Tracked \cup {None}
      /\ resting = [resting EXCEPT ![k] = resting[k]]
  BY <1>3 DEF TypeOK
<1>9. ASSUME call[t].stage \in {"cancel", "replace"}
      PROVE  /\ \A o \in open : o.key # k
             /\ \A o \in open : o.id # call[t].oid
             /\ resting[k] # None /\ resting[k].id = call[t].oid
  BY <1>2, <1>3, <1>9, CancelledKeyEmpty DEF WorkOK, OnTracked
<1>10. CASE OnSkipCancel(t)
  <2>1. CASE call[t].reply = "error"
    BY <1>5, <1>6, <1>8, <1>9, <1>10, <2>1 DEF OnSkipCancel
  <2>2. CASE call[t].reply # "error"
    BY <1>6, <1>9, <1>10, <2>2 DEF OnSkipCancel
  <2> QED
    BY <2>1, <2>2
<1>11. CASE OnAmended(t)
  <2> DEFINE r == [id |-> call[t].oid, quote |-> call[t].want]
  <2>1. r \in Tracked /\ r # None /\ r.id = call[t].oid /\ r.quote = call[t].want
    BY <1>3, <1>11, ManagerAssumption DEF OnAmended, ShapeOf, Tracked
  <2>2. /\ resting[k] # None /\ resting[k].id = call[t].oid
        /\ \A o \in open : o.id = call[t].oid => Within(o, call[t].want)
    BY <1>3, <1>11 DEF OnAmended, WorkOK, OnTracked
  <2>3. Return(t) /\ resting' = [resting EXCEPT ![k] = r] /\ call[t].stage = "amend"
    BY <1>11 DEF OnAmended
  <2> HIDE DEF r
  <2> QED
    BY <1>4, <1>5, <1>6, <2>1, <2>2, <2>3
<1>12. CASE OnAmendFailed(t)
  <2>1. resting[k] # None /\ resting[k].id = call[t].oid /\ call[t].stage = "amend"
    BY <1>3, <1>12 DEF OnAmendFailed, WorkOK, OnTracked
  <2> QED
    BY <1>4, <1>7, <1>8, <1>12, <2>1 DEF OnAmendFailed
<1>13. CASE OnReplaceCancel(t)
  BY <1>6, <1>7, <1>9, <1>13 DEF OnReplaceCancel
<1>14. CASE OnPlaced(t)
  <2> DEFINE r == [id |-> call[t].oid, quote |-> call[t].want]
  <2>1. call[t].stage \in {"place", "instead"} /\ call[t].reply = "ok"
    BY <1>2, <1>14 DEF OnPlaced
  <2>2. r \in Tracked /\ r # None /\ r.id = call[t].oid /\ r.quote = call[t].want
    BY <1>3, <2>1, ManagerAssumption DEF ShapeOf, Tracked
  <2>3. /\ call[t].oid <= issued
        /\ \A o \in open : o.key = k <=> o.id = call[t].oid
        /\ \A o \in open : o.id = call[t].oid => Within(o, call[t].want)
    BY <1>3, <2>1 DEF WorkOK, OnEmpty
  <2>4. Return(t) /\ resting' = [resting EXCEPT ![k] = r]
    BY <1>14 DEF OnPlaced
  <2> HIDE DEF r
  <2> QED
    BY <1>6, <2>2, <2>3, <2>4
<1>15. CASE OnPlaceFailed(t)
  <2>1. /\ call[t].stage \in {"place", "instead"} /\ call[t].reply # "ok"
        /\ Return(t) /\ UNCHANGED resting
    BY <1>2, <1>15 DEF OnPlaceFailed
  <2>2. resting[k] = None /\ \A o \in open : o.key # k
    BY <1>3, <2>1 DEF WorkOK, OnEmpty
  <2> QED
    BY <1>6, <1>8, <2>1, <2>2
<1> QED
  BY <1>10, <1>11, <1>12, <1>13, <1>14, <1>15 DEF Resume

-----------------------------------------------------------------------------
(* Everything else, and the theorems.                                      *)

LEMMA ApplyStep ==
  ASSUME IInv, booted, NEW t \in Tasks, NEW d \in Decisions, NEW k \in Keys, Apply(t, k, d)
  PROVE  IInv'
<1> USE DEF IInv, TInv, TypeOK
<1>1. TInv'
  BY OtherTInv
<1>2. PICK f : Becomes(t, f) /\ f.stage = "queued"
  <2> DEFINE g == [call[t] EXCEPT !.stage = "queued", !.key = k, !.want = d]
  <2>1. g \in Frame /\ g.stage = "queued"
    BY DEF Frame, Stages
  <2>2. Becomes(t, g)
    BY <2>1, FrameSet DEF Apply
  <2> QED
    BY <2>1, <2>2
<1>3. UNCHANGED <<open, issued, resting, lock, booted>> /\ call[t].stage = "idle"
  BY DEF Apply, book
<1>4. \A u \in Tasks \ {t} : call'[u] = call[u]
  BY <1>2 DEF Becomes
<1>5. Boot' /\ Work' /\ Listing'
  BY <1>2, <1>3, <1>4 DEF Boot, Work, WorkOK, OnTracked, OnEmpty, Listing, ListOK, Becomes
<1>6. NothingUntracked'
  BY <1>3, <1>4 DEF NothingUntracked, InHand
<1>7. Covered'
  BY <1>3, <1>4, ManagerAssumption DEF Covered, Locks, Inside, Holding
<1>8. Ids' /\ View' /\ OneOrderPerKey'
  BY <1>3 DEF Ids, View, OneOrderPerKey
<1> QED
  BY <1>1, <1>5, <1>6, <1>7, <1>8

LEMMA ReconcileStep ==
  ASSUME IInv, ~booted, Reconcile(Booter)
  PROVE  IInv'
<1> USE DEF IInv, TInv, TypeOK
<1>1. TInv'
  BY OtherTInv, ManagerAssumption
<1>2. PICK f : Becomes(Booter, f) /\ f.stage = "list" /\ f.reply = "none"
  <2> DEFINE g == [call[Booter] EXCEPT !.stage = "list"]
  <2>1. call[Booter].reply = "none" /\ call[Booter] \in Frame
    BY ManagerAssumption DEF Reconcile, Shape, ShapeOf
  <2>2. g \in Frame /\ g.stage = "list" /\ g.reply = "none"
    BY <2>1 DEF Frame, Stages
  <2>3. Becomes(Booter, g)
    BY <2>2, FrameSet, ManagerAssumption DEF Reconcile
  <2> QED
    BY <2>2, <2>3
<1>3. UNCHANGED <<open, issued, resting, lock, booted>>
  BY DEF Reconcile, book
<1>4. \A u \in Tasks \ {Booter} : call'[u] = call[u]
  BY <1>2 DEF Becomes
<1>5. Boot' /\ Work' /\ Listing'
  BY <1>2, <1>3, <1>4, ManagerAssumption
  DEF Boot, Work, WorkOK, OnTracked, OnEmpty, Listing, ListOK, Becomes
<1>6. Covered'
  BY <1>3 DEF Covered, Boot
<1>7. Ids' /\ View' /\ OneOrderPerKey' /\ NothingUntracked'
  BY <1>3 DEF Ids, View, OneOrderPerKey, NothingUntracked
<1> QED
  BY <1>1, <1>5, <1>6, <1>7

\* The startup listing replaces the view: what rests was listed, one order a
\* key, so what is picked for the key is that order.
LEMMA RebuildStep ==
  ASSUME IInv, Rebuild(Booter)
  PROVE  IInv'
<1> USE DEF IInv, TInv, TypeOK
<1> DEFINE seen == call[Booter].seen
<1>1. TInv'
  BY OtherTInv, ManagerAssumption
<1>2. /\ ~booted /\ ListOK(call[Booter]) /\ Booter \in Tasks
      /\ seen \subseteq Orders
      /\ UNCHANGED <<open, issued, lock>> /\ booted'
  BY ManagerAssumption DEF Rebuild, Answered, Listing, Boot, Frame, book
<1>3. Becomes(Booter, Idle) /\ Idle.stage = "idle"
  BY <1>2, ReturnFrame, IdleType DEF Rebuild
<1>4. PICK pick \in [Keys -> seen \cup {None}] :
        /\ \A k \in Keys :
             IF \E o \in seen : o.key = k
             THEN pick[k] # None /\ pick[k].key = k
             ELSE pick[k] = None
        /\ resting' = [k \in Keys |->
              IF pick[k] = None THEN None
              ELSE [id |-> pick[k].id, quote |-> pick[k].quote]]
  BY <1>2 DEF Rebuild, ListOK
<1> HIDE DEF seen
<1>5. ASSUME NEW k \in Keys, resting'[k] # None
      PROVE  \E s \in seen : /\ s.key = k
                             /\ resting'[k].id = s.id /\ resting'[k].quote = s.quote
  <2>1. pick[k] # None
    BY <1>4, <1>5
  <2> QED
    BY <1>4, <2>1
<1>6. ASSUME NEW s \in seen
      PROVE  /\ s.key \in Keys
             /\ resting'[s.key] # None
             /\ resting'[s.key].id = s.id /\ resting'[s.key].quote = s.quote
  <2>1. s.key \in Keys
    BY <1>2 DEF Orders
  <2>2. pick[s.key] # None /\ pick[s.key] \in seen /\ pick[s.key].key = s.key
    BY <1>4, <2>1
  <2>3. pick[s.key] = s
    BY <1>2, <2>2 DEF ListOK, seen
  <2>4. /\ [id |-> s.id, quote |-> s.quote] \in Tracked
        /\ resting'[s.key] = [id |-> s.id, quote |-> s.quote]
    BY <1>2, <1>4, <2>1, <2>2, <2>3 DEF Orders, Tracked
  <2> QED
    BY <2>1, <2>4, ManagerAssumption
<1>7. \A o \in open : \E s \in seen :
         s.id = o.id /\ s.key = o.key /\ Within(o, s.quote)
  BY <1>2 DEF ListOK, seen
<1>8. \A u \in Tasks \ {Booter} : call'[u] = call[u]
  BY <1>3 DEF Becomes
<1>9. Boot'
  BY <1>2, <1>3, <1>8 DEF Boot, Becomes
<1>10. Listing' /\ Work'
  BY <1>2, <1>3, <1>8 DEF Boot, Listing, Work, WorkOK, Becomes
<1>11. \A s, r \in seen : s.id = r.id => s = r
  BY <1>2 DEF ListOK, seen
<1>12. View'
  <2>1. \A s \in seen : s.id <= issued
    BY <1>2 DEF ListOK, seen
  <2> QED
    BY <1>2, <1>5, <1>7, <1>11, <2>1 DEF View
<1>13. Covered'
  BY <1>2, <1>5, <1>7, <1>11 DEF Covered
<1>14. NothingUntracked'
  BY <1>2, <1>6, <1>7 DEF NothingUntracked
<1>15. Ids' /\ OneOrderPerKey'
  BY <1>2 DEF Ids, OneOrderPerKey
<1> QED
  BY <1>1, <1>9, <1>10, <1>12, <1>13, <1>14, <1>15

LEMMA MarketStep ==
  ASSUME IInv, MarketMoves
  PROVE  IInv'
<1> USE DEF IInv, TInv, TypeOK
<1>1. TInv' /\ BookTypeOK'
  BY OtherTInv
<1>2. Shrinks /\ issued' = issued
  BY MarketShrinks DEF MarketMoves, Shrinks
<1>3. /\ Ids' /\ OneOrderPerKey'
      /\ \A p \in open' : \E o \in open :
              /\ p.id = o.id /\ p.key = o.key
              /\ \A q \in Quotes : Within(o, q) => Within(p, q)
  BY <1>1, <1>2, ShrinksKeeps
<1>4. UNCHANGED <<resting, lock, call, booted>>
  BY DEF MarketMoves, manager
<1>5. Boot' /\ View'
  BY <1>2, <1>3, <1>4 DEF Boot, View
<1>6. Listing'
  <2>1. \A t \in Tasks : \A s \in call[t].seen : s.quote \in Quotes
    BY DEF Frame, Orders
  <2> QED
    BY <1>2, <1>3, <1>4, <2>1 DEF Listing, ListOK
<1>7. Work'
  BY <1>2, <1>3, <1>4 DEF Work, WorkOK, OnTracked, OnEmpty, Shape, ShapeOf
<1>8. Covered'
  <2>1. \A k \in Keys : resting[k] # None => resting[k].quote \in Quotes
    BY DEF Tracked
  <2> QED
    BY <1>3, <1>4, <2>1 DEF Covered
<1>9. NothingUntracked'
  BY <1>3, <1>4 DEF NothingUntracked, InHand
<1> QED
  BY <1>1, <1>3, <1>5, <1>6, <1>7, <1>8, <1>9

LEMMA CrashStep ==
  ASSUME IInv, Crash
  PROVE  IInv'
<1> USE DEF IInv
<1>1. TInv'
  BY OtherTInv
<1>2. /\ UNCHANGED <<open, issued>> /\ ~booted'
      /\ \A t \in Tasks : call'[t] = Idle
      /\ \A k \in Keys : resting'[k] = None
  BY DEF Crash, book
<1>3. /\ Boot' /\ View' /\ Listing' /\ Work' /\ Covered' /\ NothingUntracked'
  BY <1>2, IdleType DEF Boot, View, Listing, Work, WorkOK, Covered, NothingUntracked
<1>4. Ids' /\ OneOrderPerKey'
  BY <1>2 DEF Ids, OneOrderPerKey
<1> QED
  BY <1>1, <1>3, <1>4

LEMMA QuietStep ==
  ASSUME IInv, (\E c \in CashLevels : SetAvailableCash(c)) \/ UNCHANGED vars
  PROVE  IInv'
<1>1. UNCHANGED <<open, issued, resting, lock, call, booted>>
  BY DEF SetAvailableCash, vars, book
<1>2. TInv'
  BY OtherTInv DEF IInv
<1> QED
  BY <1>1, <1>2
  DEF IInv, Boot, Ids, View, Listing, ListOK, Work, WorkOK, OnTracked, OnEmpty,
      Covered, OneOrderPerKey, NothingUntracked, InHand

LEMMA IInvInit == Init => IInv
<1> SUFFICES ASSUME Init PROVE IInv
  OBVIOUS
<1>1. /\ \A t \in Tasks : call[t] = Idle
      /\ open = {} /\ ~booted
      /\ \A k \in Keys : resting[k] = None
  BY DEF Init, EmptyBook
<1>2. Boot /\ Ids /\ View /\ Listing /\ Work /\ Covered /\ OneOrderPerKey /\ NothingUntracked
  BY <1>1, IdleType DEF Boot, Ids, View, Listing, Work, WorkOK, Covered, OneOrderPerKey,
     NothingUntracked
<1> QED
  BY <1>2, TInvInit DEF IInv

LEMMA IInvStep ==
  ASSUME BenignFaults
  PROVE  IInv /\ [Next]_vars => IInv'
<1> SUFFICES ASSUME IInv, [Next]_vars PROVE IInv'
  OBVIOUS
<1>1. CASE \E t \in Tasks : Acquire(t) \/ Answer(t) \/ Resume(t)
  BY <1>1, AcquireStep, AnswerStep, ResumeStep
<1>2. CASE \E t \in Tasks, k \in Keys, d \in Decisions : booted /\ Apply(t, k, d)
  BY <1>2, ApplyStep
<1> QED
  BY <1>1, <1>2, ReconcileStep, RebuildStep, MarketStep, CrashStep, QuietStep DEF Next

\* The whole argument, as one invariant: what the view, the frames of the calls
\* in progress and the book have to do with each other.
THEOREM Inductive == ASSUME BenignFaults PROVE Spec => []IInv
  BY IInvInit, IInvStep, PTL DEF Spec

\* The exchange never carries two of the bot's orders on one (ticker, side):
\* amend-or-replace, bounded retries, concurrent callers, fills, restarts.
THEOREM NoDoubledQuote == ASSUME BenignFaults PROVE Spec => []OneOrderPerKey
<1>1. IInv => OneOrderPerKey
  BY DEF IInv
<1> QED
  BY <1>1, Inductive, PTL

\* No order is lost from view: after the startup reconcile, whatever rests is
\* tracked, or its acceptance is in the hands of a call about to record it.
THEOREM NoOrphan == ASSUME BenignFaults PROVE Spec => []NothingUntracked
<1>1. IInv => NothingUntracked
  BY DEF IInv
<1> QED
  BY <1>1, Inductive, PTL

\* Between calls the tracked price is the resting order's, and the tracked size
\* covers it.
THEOREM ViewIsRight == ASSUME BenignFaults PROVE Spec => []ViewMatches
<1>1. IInv => ViewMatches
  <2> SUFFICES ASSUME IInv, NEW o \in open, resting[o.key] # None,
                      resting[o.key].id = o.id, lock[o.key] = None
               PROVE  /\ resting[o.key].quote.px = o.quote.px
                      /\ resting[o.key].quote.sz >= o.quote.sz
    BY DEF ViewMatches
  <2>1. o.key \in Keys /\ o.quote.sz \in Nat
    BY BookSizes DEF IInv, TInv, TypeOK
  <2>2. resting[o.key].quote.sz \in Nat
    BY <2>1, ExchangeAssumption DEF IInv, TInv, TypeOK, Tracked, Quotes, Sizes
  <2>3. Within(o, resting[o.key].quote)
    BY <2>1 DEF IInv, Covered
  <2> QED
    BY <2>1, <2>2, <2>3 DEF Within
<1> QED
  BY <1>1, Inductive, PTL

-----------------------------------------------------------------------------
(* The order manager implements QuoteSlots: for callers and operator, every*)
(* (ticker, side) is a slot that holds at most one quote, and only the call*)
(* in progress on a slot puts a quote there, the one it was asked for.     *)


SlotsNow == [k \in Keys |-> SlotOf(k)]
TargetsNow == [k \in Keys |-> TargetOf(k)]

LEMMA SlotValue ==
  ASSUME OneOrderPerKey
  PROVE  /\ \A o \in open : SlotOf(o.key) = o.quote
         /\ \A k \in Keys : (\A o \in open : o.key # k) => SlotOf(k) = None
<1>1. ASSUME NEW o \in open
      PROVE  SlotOf(o.key) = o.quote
  <2>1. (CHOOSE p \in open : p.key = o.key) = o
    BY DEF OneOrderPerKey
  <2> QED
    BY <2>1 DEF SlotOf
<1> QED
  BY <1>1 DEF SlotOf

LEMMA SlotType ==
  ASSUME TypeOK, OneOrderPerKey, NEW k \in Keys
  PROVE  /\ SlotOf(k) \in Quotes \cup {None}
         /\ SlotOf(k) # None => \E o \in open : o.key = k /\ o.quote = SlotOf(k)
<1>1. CASE \E o \in open : o.key = k
  <2>1. PICK o \in open : o.key = k
    BY <1>1
  <2>2. SlotOf(k) = o.quote
    BY <2>1, SlotValue
  <2> QED
    BY <2>1, <2>2 DEF TypeOK, BookTypeOK, Orders
<1>2. CASE \A o \in open : o.key # k
  BY <1>2, SlotValue
<1> QED
  BY <1>1, <1>2

LEMMA SameBookSlots ==
  ASSUME UNCHANGED open
  PROVE  SlotsNow' = SlotsNow
  BY DEF SlotsNow, SlotOf

\* The orders of one key change, the others' slots are as they were.
LEMMA OneSlotChanges ==
  ASSUME IInv, OneOrderPerKey', BookTypeOK', NEW k \in Keys,
         \A p : p.key # k => (p \in open <=> p \in open')
  PROVE  /\ \A j \in Keys \ {k} : SlotOf(j)' = SlotOf(j)
         /\ SlotsNow' = [SlotsNow EXCEPT ![k] = SlotOf(k)']
<1>1. ASSUME NEW j \in Keys \ {k}
      PROVE  SlotOf(j)' = SlotOf(j)
  <2>1. CASE \E o \in open : o.key = j
    <3>1. PICK o \in open : o.key = j
      BY <2>1
    <3>2. o \in open'
      BY <3>1
    <3>3. SlotOf(j) = o.quote
      BY <3>1, SlotValue DEF IInv
    <3>4. (CHOOSE p \in open' : p.key = j) = o
      BY <3>1, <3>2 DEF OneOrderPerKey
    <3> QED
      BY <3>1, <3>2, <3>3, <3>4 DEF SlotOf
  <2>2. CASE \A o \in open : o.key # j
    <3>1. \A o \in open' : o.key # j
      BY <2>2
    <3> QED
      BY <2>2, <3>1 DEF SlotOf
  <2> QED
    BY <2>1, <2>2
<1> QED
  BY <1>1 DEF SlotsNow

LEMMA NewSlot ==
  ASSUME OneOrderPerKey', NEW k \in Keys
  PROVE  /\ \A o \in open' : o.key = k => SlotOf(k)' = o.quote
         /\ (\A o \in open' : o.key # k) => SlotOf(k)' = None
<1>1. ASSUME NEW o \in open', o.key = k
      PROVE  SlotOf(k)' = o.quote
  <2>1. (CHOOSE p \in open' : p.key = k) = o
    BY <1>1 DEF OneOrderPerKey
  <2> QED
    BY <1>1, <2>1 DEF SlotOf
<1> QED
  BY <1>1 DEF SlotOf

\* An order leaves its key.
LEMMA LeaveClears ==
  ASSUME IInv, IInv', NEW o \in open, open' = open \ {o}, TargetsNow' = TargetsNow
  PROVE  Slots!Clear(o.key)
<1>1. o.key \in Keys /\ o.quote \in Quotes
  BY DEF IInv, TInv, TypeOK, BookTypeOK, Orders
<1>2. \A p \in open' : p.key # o.key
  BY DEF IInv, OneOrderPerKey
<1>3. SlotsNow' = [SlotsNow EXCEPT ![o.key] = None]
  BY <1>1, <1>2, OneSlotChanges, NewSlot DEF IInv, TInv, TypeOK
<1>4. SlotsNow[o.key] # None
  BY <1>1, SlotValue, ExchangeAssumption DEF SlotsNow, IInv
<1> QED
  BY <1>3, <1>4 DEF Slots!Clear, SlotsNow, TargetsNow

LEMMA PullClears ==
  ASSUME IInv, IInv', NEW id, Pull(id), TargetsNow' = TargetsNow
  PROVE  \E k \in Keys : Slots!Clear(k)
<1>1. PICK o \in open : o.id = id
  BY DEF Pull, IsOpen
<1>2. open' = open \ {o}
  BY <1>1 DEF Pull, IInv, Ids
<1>3. o.key \in Keys
  BY DEF IInv, TInv, TypeOK, BookTypeOK, Orders
<1> QED
  BY <1>2, <1>3, LeaveClears

\* The call in progress on k puts its quote there.
LEMMA WorkQuotes ==
  ASSUME IInv, IInv', NEW t \in Tasks, Inside(t), call[t].want \in Quotes,
         NEW n \in open', n.key = call[t].key, n.quote = call[t].want,
         \A p : p.key # call[t].key => (p \in open <=> p \in open'),
         TargetsNow' = TargetsNow
  PROVE  Slots!Quote(call[t].key)
<1> DEFINE k == call[t].key
<1>1. k \in Keys /\ lock[k] = t
  BY DEF IInv, TInv, Shape, ShapeOf, Locks, Inside, Holding
<1>2. TargetsNow[k] = call[t].want
  BY <1>1, ManagerAssumption DEF TargetsNow, TargetOf
<1>3. SlotsNow' = [SlotsNow EXCEPT ![k] = call[t].want]
  BY <1>1, OneSlotChanges, NewSlot DEF IInv, TInv, TypeOK
<1> HIDE DEF k
<1>4. TargetsNow[k] \in Slots!Quotes
  BY <1>2 DEF Slots!Quotes, Quotes
<1> QED
  BY <1>2, <1>3, <1>4 DEF Slots!Quote, SlotsNow, TargetsNow, k

-----------------------------------------------------------------------------
(* The steps.                                                              *)

\* The decision a lock holder works on does not change under it.
LEMMA SameTargets ==
  ASSUME IInv, NEW t \in Tasks, NEW f, Becomes(t, f), UNCHANGED lock,
         f.want = call[t].want \/ ~Inside(t)
  PROVE  TargetsNow' = TargetsNow
<1>1. \A k \in Keys : lock[k] # None => lock[k] \in Tasks /\ Inside(lock[k])
  BY DEF IInv, TInv, TypeOK, Locks
<1>2. \A k \in Keys : TargetOf(k)' = TargetOf(k)
  BY <1>1 DEF TargetOf, Becomes
<1> QED
  BY <1>2 DEF TargetsNow

LEMMA AcquireRefines ==
  ASSUME IInv, NEW t \in Tasks, Acquire(t)
  PROVE  (\E k \in Keys : Slots!Begin(k)) \/ UNCHANGED Slots!vars
<1> USE DEF IInv, TInv
<1>0. PICK k : k = call[t].key
  OBVIOUS
<1>1. Granted(t) /\ UNCHANGED open
  BY DEF Acquire, ReturnAtOnce, SkipCancel, TryAmend, TryPlace, book
<1>2. /\ k \in Keys /\ lock[k] = None /\ ~Inside(t)
      /\ call[t].want \in Decisions /\ SlotsNow' = SlotsNow
  BY <1>0, <1>1, SameBookSlots DEF Granted, Shape, ShapeOf, Inside, Holding
<1>3. CASE ReturnAtOnce(t)
  <2>1. Becomes(t, Idle) /\ UNCHANGED lock
    BY <1>0, <1>3, ReturnFrame DEF ReturnAtOnce
  <2> QED
    BY <1>0, <1>2, <2>1, SameTargets DEF Slots!vars, SlotsNow, TargetsNow
<1>4. ASSUME NEW s \in Stages, NEW i \in 0 .. MaxOrders, Enter(t, s, i)
      PROVE  Slots!Begin(k)
  <2>1. PICK f : Becomes(t, f) /\ f.want = call[t].want
    BY <1>0, <1>2, <1>4, EnterFrame
  <2>2. lock' = [lock EXCEPT ![k] = t] /\ lock \in [Keys -> Tasks \cup {None}]
    BY <1>0, <1>4 DEF Enter, TypeOK
  <2>3. TargetOf(k)' = call[t].want /\ TargetOf(k) = None
    BY <1>0, <1>2, <2>1, <2>2, ManagerAssumption DEF TargetOf, Becomes
  <2>4. \A j \in Keys \ {k} : TargetOf(j)' = TargetOf(j)
    <3> SUFFICES ASSUME NEW j \in Keys \ {k}
                 PROVE  TargetOf(j)' = TargetOf(j)
      OBVIOUS
    <3>1. lock'[j] = lock[j]
      BY <1>0, <2>2
    <3>2. lock[j] # None => lock[j] \in Tasks \ {t}
      BY <1>0, <1>2, <2>2 DEF Locks
    <3> QED
      BY <1>0, <2>1, <3>1, <3>2 DEF TargetOf, Becomes
  <2>5. TargetsNow' = [TargetsNow EXCEPT ![k] = call[t].want] /\ TargetsNow[k] = None
    BY <1>0, <1>2, <2>3, <2>4 DEF TargetsNow
  <2>6. call[t].want \in Slots!Quotes \cup {Skip}
    BY <1>0, <1>2 DEF Decisions, Slots!Quotes, Quotes
  <2> QED
    BY <1>0, <1>2, <2>5, <2>6 DEF Slots!Begin, SlotsNow, TargetsNow
<1>5. ASSUME resting[k] # None PROVE resting[k].id \in 0 .. MaxOrders
  BY <1>0, <1>2, <1>5, ExchangeAssumption DEF TypeOK, Tracked, OrderIds
<1>6. 0 \in 0 .. MaxOrders
  BY ExchangeAssumption
<1> QED
  BY <1>0, <1>2, <1>3, <1>4, <1>5, <1>6
  DEF Acquire, SkipCancel, TryAmend, TryPlace, Stages

LEMMA AnswerRefines ==
  ASSUME IInv, IInv', NEW t \in Tasks, Answer(t)
  PROVE  Slots!Next \/ UNCHANGED Slots!vars
<1> USE DEF IInv, TInv
<1>1. /\ Waiting(t)
      /\ UNCHANGED <<resting, lock>>
      /\ Execute(t) \/ UNCHANGED open
      /\ call[t].oid \in 0 .. MaxOrders /\ call[t] \in Frame
  BY DEF Answer, PlaceAccepted, AmendAccepted, CancelAcknowledged, OrderRejected,
     CancelRejected, ListAnswered, RequestLost, ResponseLost, book, TypeOK, Frame
<1>2. /\ call[t].stage \in {"cancel", "replace", "amend", "place", "instead", "list"}
      /\ call[t].stage \in {"place", "instead"} <=> Request[call[t].stage] = "place"
      /\ call[t].stage = "amend" <=> Request[call[t].stage] = "amend"
      /\ call[t].stage \in {"cancel", "replace"} <=> Request[call[t].stage] = "cancel"
      /\ call[t].stage = "list" <=> Request[call[t].stage] = "list"
  BY <1>1 DEF Waiting, Request
<1>3. TargetsNow' = TargetsNow
  <2>1. CASE PlaceAccepted(t)
    <3>1. Rest(call[t].key, call[t].want)
      BY <1>2, <2>1 DEF PlaceAccepted, Execute
    <3>2. issued + 1 \in 0 .. MaxOrders
      BY <3>1, ExchangeAssumption DEF Rest, TypeOK, BookTypeOK
    <3> QED
      BY <1>1, <2>1, <3>2, ReplyFrame, SameTargets DEF PlaceAccepted
  <2>2. CASE \/ AmendAccepted(t) \/ CancelAcknowledged(t)
             \/ OrderRejected(t) \/ CancelRejected(t)
    BY <1>1, <2>2, ReplyFrame, SameTargets
    DEF AmendAccepted, CancelAcknowledged, OrderRejected, CancelRejected
  <2>3. CASE ListAnswered(t)
    <3> DEFINE f == [call[t] EXCEPT !.reply = "ok", !.seen = open]
    <3>1. f \in Frame /\ f.want = call[t].want
      BY <1>1 DEF TypeOK, BookTypeOK, Frame
    <3>2. Becomes(t, f)
      BY <2>3, <3>1, FrameSet DEF ListAnswered
    <3> QED
      BY <1>1, <3>1, <3>2, SameTargets
  <2>4. CASE RequestLost(t) \/ ResponseLost(t)
    BY <1>1, <2>4, UnansweredFrame, SameTargets DEF RequestLost, ResponseLost
  <2> QED
    BY <2>1, <2>2, <2>3, <2>4 DEF Answer
<1>4. CASE UNCHANGED open
  BY <1>3, <1>4, SameBookSlots DEF Slots!vars, SlotsNow, TargetsNow
<1>5. CASE Execute(t)
  <2>1. \/ call[t].key \in Keys /\ call[t].want \in Decisions
       \/ call[t].stage = "list"
    BY <1>2 DEF Shape, ShapeOf
  <2>2. CASE call[t].stage \in {"cancel", "replace"}
    <3>1. Pull(call[t].oid)
      BY <1>2, <1>5, <2>2 DEF Execute
    <3> QED
      BY <1>3, <3>1, PullClears DEF Slots!Next
  <2>3. CASE call[t].stage = "list"
    BY <1>2, <1>3, <1>5, <2>3, SameBookSlots DEF Execute, book, Slots!vars, SlotsNow, TargetsNow
  <2>4. CASE call[t].stage \in {"place", "instead"}
    <3>1. Rest(call[t].key, call[t].want) /\ Inside(t) /\ call[t].want \in Quotes
      BY <1>2, <1>5, <2>4 DEF Execute, Inside, Holding, Shape, ShapeOf
    <3>2. PICK n : n.key = call[t].key /\ n.quote = call[t].want /\ open' = open \cup {n}
      BY <3>1 DEF Rest
    <3>3. Slots!Quote(call[t].key)
      BY <1>3, <3>1, <3>2, WorkQuotes
    <3> QED
      BY <2>1, <2>4, <3>3 DEF Slots!Next
  <2>5. CASE call[t].stage = "amend"
    <3>1. Reprice(call[t].oid, call[t].want) /\ Inside(t) /\ call[t].want \in Quotes
      BY <1>2, <1>5, <2>5 DEF Execute, Inside, Holding, Shape, ShapeOf
    <3>2. PICK o \in open : o.id = call[t].oid
      BY <3>1 DEF Reprice, IsOpen
    <3>3. o.key = call[t].key
      BY <2>1, <2>5, <3>2 DEF Work, WorkOK, OnTracked, View
    <3>4. PICK n : n = [o EXCEPT !.quote = call[t].want]
      OBVIOUS
    <3>5. /\ n.key = call[t].key /\ n.quote = call[t].want
          /\ open' = (open \ {o}) \cup {n}
      BY <3>1, <3>2, <3>3, <3>4 DEF Reprice, Ids, TypeOK, BookTypeOK, Orders
    <3>6. Slots!Quote(call[t].key)
      BY <1>3, <3>1, <3>3, <3>5, WorkQuotes
    <3> QED
      BY <2>1, <2>5, <3>6 DEF Slots!Next
  <2> QED
    BY <1>2, <2>2, <2>3, <2>4, <2>5
<1> QED
  BY <1>1, <1>4, <1>5

LEMMA ResumeRefines ==
  ASSUME IInv, NEW t \in Tasks, Resume(t)
  PROVE  (\E k \in Keys : Slots!End(k)) \/ UNCHANGED Slots!vars
<1> USE DEF IInv, TInv
<1>0. PICK k : k = call[t].key
  OBVIOUS
<1>1. /\ call[t].stage \in Holding
      /\ UNCHANGED open
      /\ Return(t) \/ GoOn(t, "replace") \/ GoOn(t, "instead")
  BY DEF Resume, OnSkipCancel, OnAmended, OnAmendFailed, OnReplaceCancel,
     OnPlaced, OnPlaceFailed, book, Answered, Request, Holding
<1>2. /\ Inside(t) /\ k \in Keys /\ lock[k] = t /\ call[t].want \in Decisions
      /\ SlotsNow' = SlotsNow
  BY <1>0, <1>1, SameBookSlots DEF Inside, Holding, Shape, ShapeOf, Locks
<1>3. CASE Return(t)
  <2>1. Becomes(t, Idle) /\ lock' = [lock EXCEPT ![k] = None]
    BY <1>0, <1>3, ReturnFrame DEF Return
  <2>2. lock \in [Keys -> Tasks \cup {None}]
    BY DEF TypeOK
  <2>3. TargetOf(k)' = None /\ TargetOf(k) # None
    BY <1>0, <1>2, <2>1, <2>2, ManagerAssumption, ExchangeAssumption DEF TargetOf, Decisions
  <2>4. \A j \in Keys \ {k} : TargetOf(j)' = TargetOf(j)
    <3> SUFFICES ASSUME NEW j \in Keys \ {k}
                 PROVE  TargetOf(j)' = TargetOf(j)
      OBVIOUS
    <3>1. lock'[j] = lock[j]
      BY <1>0, <2>1, <2>2
    <3>2. lock[j] # None => lock[j] \in Tasks \ {t}
      BY <1>0, <1>2, <2>2 DEF Locks
    <3> QED
      BY <1>0, <2>1, <3>1, <3>2 DEF TargetOf, Becomes
  <2>5. TargetsNow' = [TargetsNow EXCEPT ![k] = None] /\ TargetsNow[k] # None
    BY <1>0, <1>2, <2>3, <2>4 DEF TargetsNow
  <2> QED
    BY <1>0, <1>2, <2>5 DEF Slots!End, SlotsNow, TargetsNow
<1>4. CASE GoOn(t, "replace") \/ GoOn(t, "instead")
  <2>1. PICK f : Becomes(t, f) /\ f.want = call[t].want
    BY <1>0, <1>4, GoOnFrame DEF Stages
  <2>2. TargetsNow' = TargetsNow
    BY <1>0, <1>4, <2>1, SameTargets DEF GoOn
  <2> QED
    BY <1>0, <1>2, <2>2 DEF Slots!vars, SlotsNow, TargetsNow
<1> QED
  BY <1>0, <1>1, <1>3, <1>4

LEMMA MarketRefines ==
  ASSUME IInv, IInv', MarketMoves
  PROVE  Slots!Next
<1> USE DEF IInv, TInv
<1>1. TargetsNow' = TargetsNow
  BY DEF MarketMoves, manager, TargetsNow, TargetOf
<1>2. PICK o \in open : Vanish(o) \/ PartFill(o)
  BY DEF MarketMoves, Market
<1>3. o.key \in Keys
  BY DEF TypeOK, BookTypeOK, Orders
<1>4. CASE Vanish(o)
  BY <1>1, <1>3, <1>4, LeaveClears DEF Vanish, Slots!Next
<1>5. CASE PartFill(o)
  <2> DEFINE m == o.quote.sz - 1
  <2>1. o.quote \in Quotes /\ m \in Sizes /\ m < o.quote.sz
    BY <1>5, ExchangeAssumption DEF PartFill, TypeOK, BookTypeOK, Orders, Quotes, Sizes
  <2>2. PICK n : n = [o EXCEPT !.quote.sz = m]
    OBVIOUS
  <2>3. /\ n.key = o.key /\ n.quote = [o.quote EXCEPT !.sz = m]
        /\ open' = (open \ {o}) \cup {n}
    BY <1>5, <2>2 DEF PartFill, TypeOK, BookTypeOK, Orders
  <2>4. SlotsNow' = [SlotsNow EXCEPT ![o.key] = n.quote]
    BY <1>3, <2>3, OneSlotChanges, NewSlot DEF TypeOK
  <2>5. SlotsNow[o.key] = o.quote /\ o.quote # None
    BY <1>3, <2>1, SlotValue, ExchangeAssumption DEF SlotsNow
  <2> HIDE DEF m
  <2>6. SlotsNow' = [SlotsNow EXCEPT ![o.key].sz = m]
    BY <1>3, <2>3, <2>4, <2>5 DEF SlotsNow
  <2>7. Slots!Shrink(o.key)
    BY <1>1, <2>1, <2>5, <2>6 DEF Slots!Shrink, SlotsNow, TargetsNow
  <2> QED
    BY <1>3, <2>7 DEF Slots!Next
<1> QED
  BY <1>2, <1>4, <1>5

\* Steps that leave the slots and the targets alone.
LEMMA QuietRefines ==
  ASSUME IInv,
         \/ \E t \in Tasks, k \in Keys, d \in Decisions : Apply(t, k, d)
         \/ Reconcile(Booter) \/ Rebuild(Booter)
         \/ \E c \in CashLevels : SetAvailableCash(c)
         \/ UNCHANGED vars
  PROVE  UNCHANGED Slots!vars
<1>1. UNCHANGED <<open, lock>>
  BY DEF Apply, Reconcile, Rebuild, SetAvailableCash, vars, book
<1>2. \A k \in Keys : lock[k] # None => call'[lock[k]].want = call[lock[k]].want
  <2>1. \A k \in Keys : lock[k] # None =>
           /\ lock[k] \in Tasks /\ Inside(lock[k])
           /\ call[lock[k]].stage \notin {"idle", "list"}
    BY DEF IInv, TInv, TypeOK, Locks, Inside, Holding
  <2>2. \A u \in Tasks : call[u].stage \notin {"idle", "list"} => call'[u] = call[u]
    BY ManagerAssumption
    DEF Apply, Reconcile, Rebuild, SetAvailableCash, Answered, vars, IInv, TInv, TypeOK
  <2> QED
    BY <2>1, <2>2
<1>3. TargetsNow' = TargetsNow
  BY <1>1, <1>2 DEF TargetsNow, TargetOf
<1> QED
  BY <1>1, <1>3, SameBookSlots DEF Slots!vars, SlotsNow, TargetsNow

LEMMA CrashRefines ==
  ASSUME Crash
  PROVE  Slots!Next
<1>1. SlotsNow' = SlotsNow /\ TargetsNow' = [k \in Keys |-> None]
  BY SameBookSlots DEF Crash, book, TargetsNow, TargetOf
<1> QED
  BY <1>1 DEF Slots!Next, Slots!Restart, SlotsNow, TargetsNow

LEMMA InitRefines == Init => Slots!Init
  BY DEF Init, EmptyBook, Slots!Init, SlotOf, TargetOf

LEMMA StepRefines ==
  ASSUME IInv, IInv', [Next]_vars
  PROVE  [Slots!Next]_(Slots!vars)
<1>1. CASE \E t \in Tasks : Acquire(t) \/ Answer(t) \/ Resume(t)
  BY <1>1, AcquireRefines, AnswerRefines, ResumeRefines DEF Slots!Next
<1> QED
  BY <1>1, MarketRefines, CrashRefines, QuietRefines DEF Next

\* The order manager implements the book of quote slots: at most one quote in a
\* slot, and a quote newly in a slot is the one the call in progress asked for.
THEOREM Implementation == ASSUME BenignFaults PROVE Spec => ImplementsSlots
<1>1. IInv /\ IInv' /\ [Next]_vars => [Slots!Next]_(Slots!vars)
  BY StepRefines
<1> QED
  BY <1>1, InitRefines, Inductive, PTL DEF Spec, ImplementsSlots, Slots!Spec
=============================================================================
