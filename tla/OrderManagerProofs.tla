------------------------- MODULE OrderManagerProofs -------------------------
(***************************************************************************)
(* What holds of the order manager for any set of strikes, prices and      *)
(* tasks, any number of orders, attempts and restarts.                     *)
(***************************************************************************)
EXTENDS OrderManagerInv, TLAPS

-----------------------------------------------------------------------------
(* The book: what each request, and the market, leaves of it.              *)

LEMMA RestType ==
  ASSUME BookTypeOK, NEW k \in Keys, NEW q \in Quotes, Rest(k, q)
  PROVE  BookTypeOK' /\ issued + 1 \in OrderIds /\ issued' = issued + 1
  BY ExchangeAssumption DEF Rest, BookTypeOK, Orders, OrderIds

LEMMA PullType ==
  ASSUME BookTypeOK, NEW id, Pull(id)
  PROVE  BookTypeOK' /\ issued' = issued
  BY DEF Pull, BookTypeOK

LEMMA RepriceType ==
  ASSUME BookTypeOK, NEW id, NEW q \in Quotes, Reprice(id, q)
  PROVE  BookTypeOK' /\ issued' = issued
  BY DEF Reprice, BookTypeOK, Orders

LEMMA MarketType ==
  ASSUME BookTypeOK, Market
  PROVE  BookTypeOK' /\ issued' = issued
<1>1. CASE \E o \in open : Vanish(o)
  BY <1>1 DEF Vanish, BookTypeOK
<1>2. CASE \E o \in open : PartFill(o)
  <2>1. PICK o \in open : PartFill(o)
    BY <1>2
  <2>2. o.quote.sz - 1 \in Sizes
    BY <2>1, ExchangeAssumption DEF PartFill, BookTypeOK, Orders, Quotes, Sizes
  <2>3. [o EXCEPT !.quote.sz = @ - 1] \in Orders
    BY <2>2 DEF BookTypeOK, Orders, Quotes
  <2> QED
    BY <2>1, <2>3 DEF PartFill, BookTypeOK
<1> QED
  BY <1>1, <1>2 DEF Market

-----------------------------------------------------------------------------
(* Types, the shape of a call's frame, and the locks: no fault matters.    *)

LEMMA IdleType ==
  /\ Idle \in Frame
  /\ Idle.stage = "idle" /\ Idle.reply = "none"
  BY ManagerAssumption, ExchangeAssumption DEF Idle, Frame, Stages

LEMMA TInvInit == Init => TInv
<1> SUFFICES ASSUME Init PROVE TInv
  OBVIOUS
<1>1. \A t \in Tasks : call[t] = Idle
  BY DEF Init
<1>2. TypeOK
  <2>1. BookTypeOK
    BY ExchangeAssumption DEF Init, EmptyBook, BookTypeOK
  <2>2. crashes \in 0 .. MaxCrashes
    BY ManagerAssumption DEF Init
  <2> QED
    BY <2>1, <2>2, IdleType DEF Init, TypeOK
<1>3. Shape
  BY <1>1, IdleType DEF Shape, ShapeOf
<1>4. Locks
  BY <1>1, IdleType DEF Locks, Inside, Holding, Init
<1> QED
  BY <1>2, <1>3, <1>4 DEF TInv

\* Nothing but t's frame changes, and it becomes f.
Becomes(t, f) ==
    /\ f \in Frame
    /\ call' \in [Tasks -> Frame]
    /\ call'[t] = f
    /\ \A u \in Tasks \ {t} : call'[u] = call[u]

LEMMA FrameSet ==
  ASSUME TInv, NEW t \in Tasks, NEW f \in Frame, call' = [call EXCEPT ![t] = f]
  PROVE  Becomes(t, f)
  BY DEF TInv, TypeOK, Becomes

LEMMA EnterFrame ==
  ASSUME TInv, NEW t \in Tasks, NEW s \in Stages, NEW i \in 0 .. MaxOrders,
         call[t].key \in Keys, Enter(t, s, i)
  PROVE  \E f : /\ Becomes(t, f)
                /\ f.stage = s /\ f.oid = i
                /\ f.key = call[t].key /\ f.want = call[t].want
                /\ f.reply = call[t].reply
<1> DEFINE f == [call[t] EXCEPT !.stage = s, !.oid = i]
<1>1. call[t] \in Frame
  BY DEF TInv, TypeOK
<1>2. /\ f \in Frame
      /\ f.stage = s /\ f.oid = i
      /\ f.key = call[t].key /\ f.want = call[t].want
      /\ f.reply = call[t].reply
  BY <1>1 DEF Frame
<1>3. call' = [call EXCEPT ![t] = f]
  BY DEF Enter
<1> QED
  BY <1>2, <1>3, FrameSet

LEMMA GoOnFrame ==
  ASSUME TInv, NEW t \in Tasks, NEW s \in Stages, GoOn(t, s)
  PROVE  \E f : /\ Becomes(t, f)
                /\ f.stage = s /\ f.oid = call[t].oid
                /\ f.key = call[t].key /\ f.want = call[t].want
                /\ f.reply = "none"
<1> DEFINE f == [call[t] EXCEPT !.stage = s, !.reply = "none", !.tries = 0]
<1>1. call[t] \in Frame
  BY DEF TInv, TypeOK
<1>2. /\ f \in Frame
      /\ f.stage = s /\ f.oid = call[t].oid
      /\ f.key = call[t].key /\ f.want = call[t].want
      /\ f.reply = "none"
  <2>1. 0 \in 0 .. MaxTries
    BY ManagerAssumption
  <2> QED
    BY <1>1, <2>1 DEF Frame
<1>3. call' = [call EXCEPT ![t] = f]
  BY DEF GoOn
<1> QED
  BY <1>2, <1>3, FrameSet

LEMMA ReplyFrame ==
  ASSUME TInv, NEW t \in Tasks, NEW r \in {"none", "ok", "refused", "error"},
         NEW i \in 0 .. MaxOrders, Reply(t, r, i)
  PROVE  \E f : /\ Becomes(t, f)
                /\ f.stage = call[t].stage /\ f.oid = i
                /\ f.key = call[t].key /\ f.want = call[t].want
                /\ f.reply = r /\ f.seen = call[t].seen
<1> DEFINE f == [call[t] EXCEPT !.reply = r, !.oid = i]
<1>1. call[t] \in Frame
  BY DEF TInv, TypeOK
<1>2. /\ f \in Frame
      /\ f.stage = call[t].stage /\ f.oid = i
      /\ f.key = call[t].key /\ f.want = call[t].want
      /\ f.reply = r /\ f.seen = call[t].seen
  BY <1>1 DEF Frame
<1>3. call' = [call EXCEPT ![t] = f]
  BY DEF Reply
<1> QED
  BY <1>2, <1>3, FrameSet

LEMMA UnansweredFrame ==
  ASSUME TInv, NEW t \in Tasks, Unanswered(t)
  PROVE  \E f : /\ Becomes(t, f)
                /\ f.stage = call[t].stage /\ f.oid = call[t].oid
                /\ f.key = call[t].key /\ f.want = call[t].want
                /\ f.reply \in {call[t].reply, "error"}
                /\ f.seen = call[t].seen
<1>1. call[t] \in Frame
  BY DEF TInv, TypeOK
<1>2. CASE Reply(t, "error", call[t].oid)
  <2>1. call[t].oid \in 0 .. MaxOrders
    BY <1>1 DEF Frame
  <2> QED
    BY <1>2, <2>1, ReplyFrame
<1>3. CASE /\ call[t].tries + 1 < MaxTries
           /\ call' = [call EXCEPT ![t].tries = @ + 1]
  <2> DEFINE f == [call[t] EXCEPT !.tries = @ + 1]
  <2>1. /\ f \in Frame
        /\ f.stage = call[t].stage /\ f.oid = call[t].oid
        /\ f.key = call[t].key /\ f.want = call[t].want
        /\ f.reply = call[t].reply /\ f.seen = call[t].seen
    BY <1>1, <1>3, ManagerAssumption DEF Frame
  <2>2. call' = [call EXCEPT ![t] = f]
    BY <1>3
  <2> QED
    BY <2>1, <2>2, FrameSet
<1> QED
  BY <1>2, <1>3 DEF Unanswered

\* The locks follow the frames: a call stays where it is, comes in, goes out.
LEMMA LocksStay ==
  ASSUME TInv, NEW t \in Tasks, NEW f, Becomes(t, f), UNCHANGED lock,
         f.stage \in Holding <=> Inside(t), f.key = call[t].key
  PROVE  Locks'
  BY DEF TInv, TypeOK, Locks, Inside, Becomes

LEMMA LocksTaken ==
  ASSUME TInv, NEW t \in Tasks, NEW f, Becomes(t, f),
         call[t].key \in Keys, lock[call[t].key] = None, ~Inside(t),
         lock' = [lock EXCEPT ![call[t].key] = t],
         f.stage \in Holding, f.key = call[t].key
  PROVE  Locks'
  BY ManagerAssumption DEF TInv, TypeOK, Locks, Inside, Becomes

LEMMA LocksReleased ==
  ASSUME TInv, NEW t \in Tasks, NEW f, Becomes(t, f), Inside(t),
         lock' = [lock EXCEPT ![call[t].key] = None], f.stage \notin Holding
  PROVE  Locks'
  BY ManagerAssumption DEF TInv, TypeOK, Shape, ShapeOf, Locks, Inside, Holding, Becomes

LEMMA ShapeStep ==
  ASSUME TInv, NEW t \in Tasks, NEW f, Becomes(t, f), ShapeOf(f)
  PROVE  Shape'
  BY DEF TInv, Shape, Becomes

LEMMA ReturnFrame ==
  ASSUME TInv, NEW t \in Tasks, call' = [call EXCEPT ![t] = Idle]
  PROVE  Becomes(t, Idle) /\ ShapeOf(Idle) /\ Idle.stage \notin Holding
  BY IdleType, FrameSet DEF ShapeOf, Holding

LEMMA LockType ==
  ASSUME TypeOK, NEW k \in Keys, NEW t \in Tasks \cup {None},
         lock' = [lock EXCEPT ![k] = t]
  PROVE  lock' \in [Keys -> Tasks \cup {None}]
  BY DEF TypeOK

LEMMA RestingType ==
  ASSUME TypeOK, NEW k \in Keys, NEW r \in Tracked \cup {None},
         resting' = [resting EXCEPT ![k] = r]
  PROVE  resting' \in [Keys -> Tracked \cup {None}]
  BY DEF TypeOK

\* Taking the lock, or leaving at once.
LEMMA AcquireTInv ==
  ASSUME TInv, NEW t \in Tasks, Acquire(t)
  PROVE  TInv'
<1> USE DEF TInv
<1>1. ASSUME NEW s \in Holding, NEW i \in 0 .. MaxOrders, Granted(t), Enter(t, s, i),
             UNCHANGED <<book, resting, cash, booted, crashes>>,
             s # "cancel" => call[t].want \in Quotes,
             s \in {"cancel", "amend"} => i \in OrderIds,
             s \in {"cancel", "amend", "place"}
      PROVE  TInv'
  <2>1. /\ call[t].key \in Keys /\ call[t].want \in Decisions
        /\ call[t].reply = "none" /\ ~Inside(t)
    BY <1>1 DEF Granted, Shape, ShapeOf, Inside, Holding
  <2>2. PICK f : /\ Becomes(t, f)
                 /\ f.stage = s /\ f.oid = i
                 /\ f.key = call[t].key /\ f.want = call[t].want
                 /\ f.reply = call[t].reply
    BY <1>1, <2>1, EnterFrame DEF Holding, Stages
  <2>3. Shape'
    BY <1>1, <2>1, <2>2, ShapeStep DEF ShapeOf
  <2>4. lock[call[t].key] = None /\ lock' = [lock EXCEPT ![call[t].key] = t]
    BY <1>1 DEF Granted, Enter
  <2>5. Locks'
    BY <1>1, <2>1, <2>2, <2>4, LocksTaken
  <2>6. TypeOK'
    BY <1>1, <2>1, <2>2, <2>4, LockType DEF TypeOK, BookTypeOK, book, Becomes
  <2> QED
    BY <2>3, <2>5, <2>6
<1>2. CASE ReturnAtOnce(t)
  <2>1. Becomes(t, Idle) /\ ShapeOf(Idle) /\ Idle.stage \notin Holding /\ ~Inside(t)
    BY <1>2, ReturnFrame DEF ReturnAtOnce, Granted, Inside, Holding
  <2>2. Shape'
    BY <2>1, ShapeStep
  <2>3. Locks'
    BY <1>2, <2>1 DEF ReturnAtOnce, TypeOK, Locks, Inside, Becomes
  <2>4. TypeOK'
    BY <1>2, <2>1 DEF ReturnAtOnce, TypeOK, BookTypeOK, book, Becomes
  <2> QED
    BY <2>2, <2>3, <2>4
<1>3. ASSUME Granted(t), resting[call[t].key] # None
      PROVE  resting[call[t].key].id \in OrderIds
  BY <1>3 DEF Granted, Shape, ShapeOf, TypeOK, Tracked
<1>4. OrderIds \subseteq 0 .. MaxOrders /\ 0 \in 0 .. MaxOrders
  BY ExchangeAssumption DEF OrderIds
<1>5. ASSUME Granted(t), call[t].want # Skip
      PROVE  call[t].want \in Quotes
  BY <1>5 DEF Granted, Shape, ShapeOf, Decisions
<1>6. CASE SkipCancel(t)
  BY <1>1, <1>3, <1>4, <1>6 DEF SkipCancel, Holding
<1>7. CASE TryAmend(t)
  BY <1>1, <1>3, <1>4, <1>5, <1>7 DEF TryAmend, Holding
<1>8. CASE TryPlace(t)
  BY <1>1, <1>4, <1>5, <1>8 DEF TryPlace, Holding
<1> QED
  BY <1>2, <1>6, <1>7, <1>8 DEF Acquire

\* A request is executed, answered, or lost.
LEMMA AnswerTInv ==
  ASSUME TInv, NEW t \in Tasks, Answer(t)
  PROVE  TInv'
<1> USE DEF TInv
<1>1. /\ Waiting(t)
      /\ UNCHANGED <<resting, lock, cash, booted, crashes>>
  BY DEF Answer, PlaceAccepted, AmendAccepted, CancelAcknowledged,
     OrderRejected, CancelRejected, ListAnswered, RequestLost, ResponseLost, book
<1>2. /\ call[t] \in Frame
      /\ call[t].stage \in {"cancel", "replace", "amend", "place", "instead", "list"}
      /\ ShapeOf(call[t])
  BY <1>1 DEF TypeOK, Waiting, Request, Shape
<1>3. /\ call[t].stage \in {"place", "instead"} <=> Request[call[t].stage] = "place"
      /\ call[t].stage = "amend" <=> Request[call[t].stage] = "amend"
      /\ call[t].stage \in {"cancel", "replace"} <=> Request[call[t].stage] = "cancel"
      /\ call[t].stage = "list" <=> Request[call[t].stage] = "list"
  BY <1>2 DEF Request
<1>4. ASSUME NEW f, Becomes(t, f), f.stage = call[t].stage, f.key = call[t].key,
             f.want = call[t].want, f.oid \in OrderIds \/ f.oid = call[t].oid,
             f.reply = "ok" /\ Request[call[t].stage] = "place" => f.oid \in OrderIds,
             BookTypeOK'
      PROVE  TInv'
  <2>1. ShapeOf(f)
    BY <1>2, <1>3, <1>4 DEF ShapeOf
  <2>2. Locks'
    BY <1>1, <1>4, LocksStay DEF Inside
  <2>3. TypeOK'
    BY <1>1, <1>4 DEF TypeOK, Becomes
  <2> QED
    BY <1>4, <2>1, <2>2, <2>3, ShapeStep
<1>5. call[t].oid \in 0 .. MaxOrders
  BY <1>2 DEF Frame
<1>6. ASSUME Execute(t)
      PROVE  /\ BookTypeOK'
             /\ Request[call[t].stage] = "place" =>
                  issued + 1 \in OrderIds /\ issued + 1 \in 0 .. MaxOrders
  <2>1. CASE Request[call[t].stage] = "place"
    <3>1. Rest(call[t].key, call[t].want) /\ call[t].key \in Keys /\ call[t].want \in Quotes
      BY <1>2, <1>3, <1>6, <2>1 DEF Execute, ShapeOf
    <3> QED
      BY <3>1, RestType DEF TypeOK, OrderIds
  <2>2. CASE Request[call[t].stage] = "amend"
    <3>1. Reprice(call[t].oid, call[t].want) /\ call[t].want \in Quotes
      BY <1>2, <1>3, <1>6, <2>2 DEF Execute, ShapeOf
    <3> QED
      BY <2>2, <3>1, RepriceType DEF TypeOK
  <2>3. CASE Request[call[t].stage] = "cancel"
    BY <1>6, <2>3, PullType DEF Execute, TypeOK
  <2>4. CASE Request[call[t].stage] = "list"
    BY <1>6, <2>4 DEF Execute, TypeOK, BookTypeOK, book
  <2> QED
    BY <1>2, <1>3, <2>1, <2>2, <2>3, <2>4
<1>7. ASSUME UNCHANGED book PROVE BookTypeOK'
  BY <1>7 DEF TypeOK, BookTypeOK, book
<1>8. CASE PlaceAccepted(t)
  <2>1. issued + 1 \in OrderIds /\ issued + 1 \in 0 .. MaxOrders /\ BookTypeOK'
    BY <1>6, <1>8 DEF PlaceAccepted
  <2> QED
    BY <1>4, <1>8, <2>1, ReplyFrame DEF PlaceAccepted
<1>9. CASE AmendAccepted(t) \/ CancelAcknowledged(t)
  <2>1. Execute(t) /\ Reply(t, "ok", call[t].oid) /\ Request[call[t].stage] # "place"
    BY <1>9 DEF AmendAccepted, CancelAcknowledged
  <2> QED
    BY <1>4, <1>5, <1>6, <2>1, ReplyFrame
<1>10. CASE OrderRejected(t) \/ CancelRejected(t)
  <2>1. Reply(t, "refused", call[t].oid) /\ UNCHANGED book
    BY <1>10 DEF OrderRejected, CancelRejected
  <2> QED
    BY <1>4, <1>5, <1>7, <2>1, ReplyFrame
<1>11. CASE ListAnswered(t)
  <2> DEFINE f == [call[t] EXCEPT !.reply = "ok", !.seen = open]
  <2>1. open \in SUBSET Orders
    BY DEF TypeOK, BookTypeOK
  <2>2. /\ f \in Frame /\ f.stage = call[t].stage /\ f.key = call[t].key
        /\ f.want = call[t].want /\ f.oid = call[t].oid
    BY <1>2, <2>1 DEF Frame
  <2>3. Becomes(t, f)
    BY <1>11, <2>2, FrameSet DEF ListAnswered
  <2> QED
    BY <1>3, <1>4, <1>7, <1>11, <2>2, <2>3 DEF ListAnswered
<1>12. CASE RequestLost(t) \/ ResponseLost(t)
  <2>1. Unanswered(t) /\ (Execute(t) \/ UNCHANGED book)
    BY <1>12 DEF RequestLost, ResponseLost
  <2>2. call[t].reply = "none"
    BY <1>1 DEF Waiting
  <2> QED
    BY <1>4, <1>6, <1>7, <2>1, <2>2, UnansweredFrame
<1> QED
  BY <1>8, <1>9, <1>10, <1>11, <1>12 DEF Answer

\* A call resumes on an answer: it returns, or sends its next request.
LEMMA ResumeTInv ==
  ASSUME TInv, NEW t \in Tasks, Resume(t)
  PROVE  TInv'
<1> USE DEF TInv
<1>1. /\ Answered(t)
      /\ UNCHANGED <<book, cash, booted, crashes>>
  BY DEF Resume, OnSkipCancel, OnAmended, OnAmendFailed, OnReplaceCancel,
     OnPlaced, OnPlaceFailed
<1>2. call[t] \in Frame /\ ShapeOf(call[t])
  BY DEF TypeOK, Shape
<1>3. call[t].stage \in {"place", "instead"} <=>
        call[t].stage \in DOMAIN Request /\ Request[call[t].stage] = "place"
  BY DEF Request
<1>4. call[t].stage \in DOMAIN Request
  BY <1>1 DEF Answered
<1>5. ASSUME Inside(t), Return(t), resting' \in [Keys -> Tracked \cup {None}]
      PROVE  TInv'
  <2>1. Becomes(t, Idle) /\ ShapeOf(Idle) /\ Idle.stage \notin Holding
    BY <1>5, ReturnFrame DEF Return
  <2>2. call[t].key \in Keys
    BY <1>2, <1>5 DEF ShapeOf, Inside, Holding
  <2>3. Locks'
    BY <1>5, <2>1, LocksReleased DEF Return
  <2>4. lock' \in [Keys -> Tasks \cup {None}]
    BY <1>5, <2>2, LockType DEF Return
  <2>5. TypeOK'
    BY <1>1, <1>5, <2>1, <2>4 DEF TypeOK, BookTypeOK, book, Becomes
  <2> QED
    BY <2>1, <2>3, <2>5, ShapeStep
<1>6. ASSUME Inside(t), NEW s \in {"replace", "instead"}, GoOn(t, s),
             call[t].stage \in {"amend", "replace"},
             resting' \in [Keys -> Tracked \cup {None}]
      PROVE  TInv'
  <2>1. PICK f : /\ Becomes(t, f)
                 /\ f.stage = s /\ f.oid = call[t].oid
                 /\ f.key = call[t].key /\ f.want = call[t].want
                 /\ f.reply = "none"
    BY <1>6, GoOnFrame DEF Stages
  <2>2. ShapeOf(f)
    BY <1>2, <1>6, <2>1 DEF ShapeOf
  <2>3. Locks'
    BY <1>6, <2>1, LocksStay DEF GoOn, Holding
  <2>4. TypeOK'
    BY <1>1, <1>6, <2>1 DEF GoOn, TypeOK, BookTypeOK, book, Becomes
  <2> QED
    BY <2>1, <2>2, <2>3, <2>4, ShapeStep
<1>7. ASSUME call[t].stage \in Holding
      PROVE  call[t].key \in Keys /\ Inside(t)
  BY <1>2, <1>7 DEF ShapeOf, Holding, Inside
<1>8. CASE OnSkipCancel(t)
  <2>1. resting' \in [Keys -> Tracked \cup {None}]
    BY <1>7, <1>8, RestingType DEF OnSkipCancel, Holding, TypeOK
  <2> QED
    BY <1>5, <1>7, <1>8, <2>1 DEF OnSkipCancel, Holding
<1>9. CASE OnAmended(t)
  <2>1. [id |-> call[t].oid, quote |-> call[t].want] \in Tracked
    BY <1>2, <1>9 DEF OnAmended, ShapeOf, Tracked
  <2>2. resting' \in [Keys -> Tracked \cup {None}]
    BY <1>7, <1>9, <2>1, RestingType DEF OnAmended, Holding
  <2> QED
    BY <1>5, <1>7, <1>9, <2>2 DEF OnAmended, Holding
<1>10. CASE OnAmendFailed(t)
  BY <1>6, <1>7, <1>10 DEF OnAmendFailed, Holding, TypeOK
<1>11. CASE OnReplaceCancel(t)
  <2>1. resting' \in [Keys -> Tracked \cup {None}]
    BY <1>7, <1>11, RestingType DEF OnReplaceCancel, Holding
  <2> QED
    BY <1>5, <1>6, <1>7, <1>11, <2>1 DEF OnReplaceCancel, Holding
<1>12. CASE OnPlaced(t)
  <2>1. [id |-> call[t].oid, quote |-> call[t].want] \in Tracked
    BY <1>2, <1>3, <1>4, <1>12 DEF OnPlaced, ShapeOf, Tracked
  <2>2. resting' \in [Keys -> Tracked \cup {None}]
    BY <1>3, <1>4, <1>7, <1>12, <2>1, RestingType DEF OnPlaced, Holding
  <2> QED
    BY <1>3, <1>4, <1>5, <1>7, <1>12, <2>2 DEF OnPlaced, Holding
<1>13. CASE OnPlaceFailed(t)
  BY <1>3, <1>4, <1>5, <1>7, <1>13 DEF OnPlaceFailed, Holding, TypeOK
<1> QED
  BY <1>8, <1>9, <1>10, <1>11, <1>12, <1>13 DEF Resume

\* Everything else that can happen.
LEMMA OtherTInv ==
  ASSUME TInv,
         \/ \E t \in Tasks, k \in Keys, d \in Decisions : Apply(t, k, d)
         \/ \E t \in Tasks : Reconcile(t) \/ Rebuild(t)
         \/ \E c \in CashLevels : SetAvailableCash(c)
         \/ MarketMoves \/ Crash \/ UNCHANGED vars
  PROVE  TInv'
<1> USE DEF TInv
<1>1. CASE \E t \in Tasks, k \in Keys, d \in Decisions : Apply(t, k, d)
  <2>1. PICK t \in Tasks, k \in Keys, d \in Decisions : Apply(t, k, d)
    BY <1>1
  <2> DEFINE f == [call[t] EXCEPT !.stage = "queued", !.key = k, !.want = d]
  <2>2. call[t] \in Frame /\ ShapeOf(call[t]) /\ call[t].stage = "idle"
    BY <2>1 DEF TypeOK, Shape, Apply
  <2>3. f \in Frame /\ ShapeOf(f) /\ f.stage = "queued"
    BY <2>2 DEF Frame, Stages, ShapeOf
  <2>4. Becomes(t, f)
    BY <2>1, <2>3, FrameSet DEF Apply
  <2> HIDE DEF f
  <2>5. Locks'
    <3>1. UNCHANGED lock /\ ~Inside(t) /\ f.stage \notin Holding
      BY <2>1, <2>2, <2>3 DEF Apply, Inside, Holding
    <3> QED
      BY <2>4, <3>1 DEF TypeOK, Locks, Inside, Becomes
  <2>6. TypeOK'
    BY <2>1, <2>4 DEF Apply, TypeOK, BookTypeOK, book, Becomes
  <2> QED
    BY <2>3, <2>4, <2>5, <2>6, ShapeStep
<1>2. CASE \E t \in Tasks : Reconcile(t)
  <2>1. PICK t \in Tasks : Reconcile(t)
    BY <1>2
  <2> DEFINE f == [call[t] EXCEPT !.stage = "list"]
  <2>2. call[t] \in Frame /\ ShapeOf(call[t]) /\ call[t].stage = "idle"
    BY <2>1 DEF TypeOK, Shape, Reconcile
  <2>3. f \in Frame /\ ShapeOf(f) /\ f.stage = "list"
    BY <2>2 DEF Frame, Stages, ShapeOf
  <2>4. Becomes(t, f)
    BY <2>1, <2>3, FrameSet DEF Reconcile
  <2> HIDE DEF f
  <2>5. Locks'
    <3>1. UNCHANGED lock /\ ~Inside(t) /\ f.stage \notin Holding
      BY <2>1, <2>2, <2>3 DEF Reconcile, Inside, Holding
    <3> QED
      BY <2>4, <3>1 DEF TypeOK, Locks, Inside, Becomes
  <2>6. TypeOK'
    BY <2>1, <2>4 DEF Reconcile, TypeOK, BookTypeOK, book, Becomes
  <2> QED
    BY <2>3, <2>4, <2>5, <2>6, ShapeStep
<1>3. CASE \E t \in Tasks : Rebuild(t)
  <2>1. PICK t \in Tasks : Rebuild(t)
    BY <1>3
  <2>2. Becomes(t, Idle) /\ ShapeOf(Idle) /\ Idle.stage \notin Holding /\ ~Inside(t)
    BY <2>1, ReturnFrame DEF Rebuild, Inside, Holding
  <2>3. Locks'
    BY <2>1, <2>2 DEF Rebuild, TypeOK, Locks, Inside, Becomes
  <2>4. call[t].seen \subseteq Orders
    BY DEF TypeOK, Frame
  <2>5. resting' \in [Keys -> Tracked \cup {None}]
    <3>1. CASE UNCHANGED resting
      BY <3>1 DEF TypeOK
    <3>2. CASE \E pick \in [Keys -> call[t].seen \cup {None}] :
                 resting' = [k \in Keys |->
                    IF pick[k] = None THEN None
                    ELSE [id |-> pick[k].id, quote |-> pick[k].quote]]
      <4>1. PICK pick \in [Keys -> call[t].seen \cup {None}] :
                 resting' = [k \in Keys |->
                    IF pick[k] = None THEN None
                    ELSE [id |-> pick[k].id, quote |-> pick[k].quote]]
        BY <3>2
      <4>2. ASSUME NEW k \in Keys, pick[k] # None
            PROVE  [id |-> pick[k].id, quote |-> pick[k].quote] \in Tracked
        BY <2>4, <4>2 DEF Orders, Tracked
      <4> QED
        BY <4>1, <4>2
    <3> QED
      BY <2>1, <3>1, <3>2 DEF Rebuild
  <2>6. TypeOK'
    BY <2>1, <2>2, <2>5 DEF Rebuild, TypeOK, BookTypeOK, book, Becomes
  <2> QED
    BY <2>2, <2>3, <2>6, ShapeStep
<1>4. CASE \E c \in CashLevels : SetAvailableCash(c)
  BY <1>4 DEF SetAvailableCash, TypeOK, BookTypeOK, book, Shape, Locks, Inside
<1>5. CASE MarketMoves
  BY <1>5, MarketType DEF MarketMoves, manager, TypeOK, Shape, Locks, Inside
<1>6. CASE Crash
  <2>1. \A t \in Tasks : call'[t] = Idle
    BY <1>6 DEF Crash
  <2>2. crashes' \in 0 .. MaxCrashes
    BY <1>6, ManagerAssumption DEF Crash, TypeOK
  <2>3. TypeOK'
    BY <1>6, <2>2, IdleType DEF Crash, TypeOK, BookTypeOK, book
  <2>4. Shape'
    BY <2>1, IdleType DEF Shape, ShapeOf
  <2>5. Locks'
    BY <1>6, <2>1, IdleType DEF Crash, Locks, Inside, Holding
  <2> QED
    BY <2>3, <2>4, <2>5
<1>7. CASE UNCHANGED vars
  BY <1>7 DEF vars, TypeOK, BookTypeOK, Shape, Locks, Inside
<1> QED
  BY <1>1, <1>2, <1>3, <1>4, <1>5, <1>6, <1>7

LEMMA TInvStep == TInv /\ [Next]_vars => TInv'
  BY AcquireTInv, AnswerTInv, ResumeTInv, OtherTInv, ManagerAssumption DEF Next

\* Every variable keeps its type, whatever faults the requests meet.
THEOREM TypeCorrect == Spec => []TypeOK
<1>1. TInv => TypeOK
  BY DEF TInv
<1> QED
  BY <1>1, TInvInit, TInvStep, PTL DEF Spec

\* The per-key lock of apply() is a mutual exclusion, whatever the faults:
\* two calls are never at work on one (ticker, side).
THEOREM MutualExclusion == Spec => []OneCallPerKey
<1>1. TInv => OneCallPerKey
  BY DEF TInv, Locks, OneCallPerKey
<1> QED
  BY <1>1, TInvInit, TInvStep, PTL DEF Spec
=============================================================================
