------------------------------- MODULE LipMode -------------------------------
(***************************************************************************)
(* The earlier LIP bot (deploy/lip_mode.py): one task that looks for       *)
(* maintenance, finds the active event, and repositions the two sides of   *)
(* each of its strikes, and that cancels everything at startup, around     *)
(* maintenance and at shutdown.  Every await on the exchange is a step;    *)
(* between two of them orders are filled and events roll.  Where prices    *)
(* come from is in LipModeQuote; here any price may be wanted.             *)
(***************************************************************************)
EXTENDS Integers, Sequences, FiniteSets

CONSTANTS
    EventStrikes,   \* for each event in turn, its strikes, in order
    ModePrices,     \* prices a quote may have
    ListLimit,      \* orders a listing returns: 200
    Leftovers,      \* orders that an earlier process has left behind
    MaxModeOrders,  \* bound: orders the exchange accepts
    ModeFaults      \* subset of {"cancel", "place", "amend", "list", "batch"}

ModeStrikes == UNION {{EventStrikes[e][k] : k \in 1 .. Len(EventStrikes[e])} :
                        e \in 1 .. Len(EventStrikes)}
ModeSides == {"bid", "ask"}

\* Every event has strikes.
ASSUME ModeAssumption ==
    /\ EventStrikes \in Seq(Seq(ModeStrikes) \ {<<>>}) \ {<<>>}
    /\ ModePrices \subseteq 1 .. 99
    /\ ListLimit \in Nat \ {0} /\ Leftovers \in Nat
    /\ MaxModeOrders \in Nat

VARIABLES
    onBook,    \* orders open at the exchange: id -> [strike, side, px]
    modeIds,   \* orders the exchange has accepted
    event,     \* the exchange's active event
    known,     \* LIPMarketMaker._resting: [id, px], 0 for none
    at,        \* where the task is
    agenda,    \* strikes of the cycle that are still to come
    wants,     \* what the strike in progress wants of its sides
    maint,     \* maintenance_active
    alive,     \* LIPMarketMaker._running
    flush,     \* the _cancel_all in progress
    slipped    \* history: orders a failed request has left behind

modeVars == <<onBook, modeIds, event, known, at, agenda, wants, maint, alive,
              flush, slipped>>

market0 == <<onBook, modeIds, event>>

\* What a side can be wanted to do: a price, be left alone, or pull (0).
Leave == -1
Wishes == ModePrices \cup {Leave, 0}

Unknown == [s \in ModeStrikes |-> [d \in ModeSides |-> [id |-> 0, px |-> 0]]]
NoWants == [strike |-> "none", bid |-> Leave, ask |-> Leave]
NoFlush == [ids |-> {}, then |-> "none", verified |-> FALSE, clean |-> TRUE, many |-> FALSE]

\* startup cancels what an earlier process has left.
ModeInit ==
    /\ onBook = [o \in 1 .. Leftovers |->
                  [strike |-> EventStrikes[1][1], side |-> "bid", px |-> 50]]
    /\ modeIds = Leftovers
    /\ event = 1
    /\ known = Unknown
    /\ at = "list"
    /\ agenda = <<>>
    /\ wants = NoWants
    /\ maint = FALSE
    /\ alive = TRUE
    /\ flush = [NoFlush EXCEPT !.then = "gate", !.many = Leftovers > ListLimit]
    /\ slipped = 1 .. Leftovers

Gone(ids) == [o \in DOMAIN onBook \ ids |-> onBook[o]]

-----------------------------------------------------------------------------
(* _cancel_all.  No failure leaves it; what it knew is forgotten.          *)

\* many is a history variable: more orders than a listing can show.
BeginFlush(next) ==
    /\ at' = "list"
    /\ flush' = [NoFlush EXCEPT !.then = next,
                                !.many = Cardinality(DOMAIN onBook) > ListLimit]

EndFlush(clean) ==
    /\ at' = flush.then
    /\ known' = Unknown
    /\ flush' = [flush EXCEPT !.ids = {}, !.clean = clean]
    /\ slipped' = IF clean /\ ~flush.many THEN {} ELSE DOMAIN onBook

Listing == {ids \in SUBSET DOMAIN onBook :
              Cardinality(ids) = IF Cardinality(DOMAIN onBook) < ListLimit
                                 THEN Cardinality(DOMAIN onBook) ELSE ListLimit}

\* The resting orders, before the batch and again after it.
ListedAll ==
    /\ at = "list"
    /\ \/ /\ "list" \in ModeFaults
          /\ EndFlush(FALSE)
       \/ /\ \E ids \in Listing :
               IF ids = {} THEN EndFlush(flush.clean)
               ELSE /\ at' = IF flush.verified THEN "each" ELSE "batch"
                    /\ flush' = [flush EXCEPT !.ids = ids]
                    /\ UNCHANGED <<known, slipped>>
    /\ UNCHANGED <<market0, agenda, wants, maint, alive>>

\* The batch cancels all it is given; or only some of it, or it raises.
BatchSent ==
    /\ at = "batch"
    /\ \/ /\ onBook' = Gone(flush.ids)
          /\ at' = "list"
          /\ flush' = [flush EXCEPT !.ids = {}, !.verified = TRUE]
       \/ /\ "batch" \in ModeFaults
          /\ \E some \in SUBSET flush.ids : onBook' = Gone(some)
          /\ \/ at' = "list" /\ flush' = [flush EXCEPT !.ids = {}, !.verified = TRUE]
             \/ at' = "each" /\ UNCHANGED flush
    /\ UNCHANGED <<modeIds, event, known, agenda, wants, maint, alive, slipped>>

\* One by one; each failure is passed over.  After the first round the orders
\* are listed again, after the second it is over.
EachCancelled ==
    /\ at = "each"
    /\ \E o \in flush.ids :
         /\ \/ onBook' = Gone({o}) /\ flush' = [flush EXCEPT !.ids = @ \ {o}]
            \/ /\ "cancel" \in ModeFaults
               /\ flush' = [flush EXCEPT !.ids = @ \ {o}, !.clean = ~flush.verified]
               /\ UNCHANGED onBook
    /\ UNCHANGED <<modeIds, event, known, at, agenda, wants, maint, alive, slipped>>

EachDone ==
    /\ at = "each" /\ flush.ids = {}
    /\ IF flush.verified THEN EndFlush(flush.clean)
       ELSE /\ at' = "list"
            /\ flush' = [flush EXCEPT !.verified = TRUE]
            /\ UNCHANGED <<known, slipped>>
    /\ UNCHANGED <<market0, agenda, wants, maint, alive>>

-----------------------------------------------------------------------------
(* run(): the top of the loop.                                             *)

\* The maintenance gate: entering and leaving it cancels everything.
Gate ==
    /\ at = "gate"
    /\ \E inMaint \in BOOLEAN :
         /\ maint' = inMaint
         /\ IF ~alive THEN BeginFlush("down")
            ELSE IF inMaint # maint THEN BeginFlush(IF inMaint THEN "gate" ELSE "event")
            ELSE at' = (IF inMaint THEN "gate" ELSE "event") /\ UNCHANGED flush
    /\ UNCHANGED <<market0, known, agenda, wants, alive, slipped>>

\* The active event and its strikes, or none of them can be had.
EventPulled ==
    /\ at = "event"
    /\ \/ at' = "strike" /\ agenda' = EventStrikes[event]
       \/ at' = "gate" /\ UNCHANGED agenda
    /\ UNCHANGED <<market0, known, wants, maint, alive, flush, slipped>>

\* The next strike's orderbook is in, and both sides are decided.  A side whose
\* price is as recorded is left alone, filled or not.
StrikePulled ==
    /\ at = "strike"
    /\ agenda # <<>>
    /\ agenda' = Tail(agenda)
    /\ \E bid, ask \in Wishes :
         LET s == Head(agenda)
             Kept(w, d) == IF w = known[s][d].px THEN Leave ELSE w
         IN  wants' = [strike |-> s,
                       bid |-> IF bid = 0 THEN 0 ELSE Kept(bid, "bid"),
                       ask |-> IF ask = 0 THEN 0 ELSE Kept(ask, "ask")]
    /\ at' = "side"
    /\ UNCHANGED <<market0, known, maint, alive, flush, slipped>>

CycleDone ==
    /\ at = "strike"
    /\ agenda = <<>>
    /\ at' = "gate"
    /\ UNCHANGED <<market0, known, agenda, wants, maint, alive, flush, slipped>>

-----------------------------------------------------------------------------
(* One strike: the bid, then the ask.                                      *)

Side == IF wants.bid # Leave THEN "bid" ELSE "ask"
Wish == wants[Side]
Mine == known[wants.strike][Side]

\* The side is dealt with; the ask follows the bid.
SideDone(entry) ==
    /\ known' = [known EXCEPT ![wants.strike][Side] = entry]
    /\ wants' = [wants EXCEPT ![Side] = Leave]
    /\ at' = "side"

\* What the side takes, up to the first await.
SideBegins ==
    /\ at = "side"
    /\ \/ /\ wants.bid = Leave /\ wants.ask = Leave
          /\ at' = "strike"
          /\ UNCHANGED <<known, wants>>
       \/ /\ wants.bid # Leave \/ wants.ask # Leave
          /\ IF Wish = 0
             THEN IF Mine.id = 0 THEN SideDone(Mine)
                  ELSE at' = "pull" /\ UNCHANGED <<known, wants>>
             ELSE /\ at' = IF Mine.id = 0 THEN "place" ELSE "amend"
                  /\ UNCHANGED <<known, wants>>
    /\ UNCHANGED <<market0, agenda, maint, alive, flush, slipped>>

\* COOLDOWN: the order is cancelled, or that fails; it is forgotten.
SidePulled ==
    /\ at = "pull"
    /\ \/ onBook' = Gone({Mine.id}) /\ UNCHANGED slipped
       \/ /\ "cancel" \in ModeFaults
          /\ slipped' = slipped \cup ({Mine.id} \cap DOMAIN onBook)
          /\ UNCHANGED onBook
    /\ SideDone([id |-> 0, px |-> 0])
    /\ UNCHANGED <<modeIds, event, agenda, maint, alive, flush>>

\* _try_amend: done, or the order is gone, or it raises, perhaps afterwards.
SideAmended ==
    /\ at = "amend"
    /\ LET moved == [o \in DOMAIN onBook |-> IF o = Mine.id
                       THEN [onBook[o] EXCEPT !.px = Wish] ELSE onBook[o]]
       IN  \/ /\ Mine.id \in DOMAIN onBook
              /\ onBook' = moved
              /\ SideDone([Mine EXCEPT !.px = Wish])
           \/ /\ Mine.id \notin DOMAIN onBook \/ "amend" \in ModeFaults
              /\ onBook' = onBook \/ onBook' = moved
              /\ at' = "replace"
              /\ UNCHANGED <<known, wants>>
    /\ UNCHANGED <<modeIds, event, agenda, maint, alive, flush, slipped>>

\* Mutant of SideCancelled: the order is not cancelled before it is replaced.
SideNotCancelled ==
    /\ at = "replace"
    /\ at' = "place"
    /\ UNCHANGED <<market0, known, agenda, wants, maint, alive, flush, slipped>>

\* _cancel_and_place: the failure of the cancel is passed over.
SideCancelled ==
    /\ at = "replace"
    /\ \/ onBook' = Gone({Mine.id}) /\ UNCHANGED slipped
       \/ /\ "cancel" \in ModeFaults
          /\ slipped' = slipped \cup ({Mine.id} \cap DOMAIN onBook)
          /\ UNCHANGED onBook
    /\ at' = "place"
    /\ UNCHANGED <<modeIds, event, known, agenda, wants, maint, alive, flush>>

Accepted(id) ==
    onBook' = [o \in DOMAIN onBook \cup {id} |->
        IF o = id THEN [strike |-> wants.strike, side |-> Side, px |-> Wish]
        ELSE onBook[o]]

\* _place_bid, _place_ask: accepted, refused, or raised, perhaps after
\* acceptance; only the first is recorded.
SidePlaced ==
    /\ at = "place"
    /\ \/ /\ modeIds < MaxModeOrders
          /\ modeIds' = modeIds + 1
          /\ Accepted(modeIds')
          /\ \/ SideDone([id |-> modeIds', px |-> Wish]) /\ UNCHANGED slipped
             \/ /\ "place" \in ModeFaults
                /\ SideDone([id |-> 0, px |-> 0])
                /\ slipped' = slipped \cup {modeIds'}
       \/ /\ SideDone([id |-> 0, px |-> 0])
          /\ UNCHANGED <<onBook, modeIds, slipped>>
    /\ UNCHANGED <<event, agenda, maint, alive, flush>>

-----------------------------------------------------------------------------
(* The outside world.                                                      *)

\* A resting order is filled, or the exchange cancels it.
ModeFilled ==
    /\ \E o \in DOMAIN onBook : onBook' = Gone({o})
    /\ UNCHANGED <<modeIds, event, known, at, agenda, wants, maint, alive, flush, slipped>>

EventRolls ==
    /\ event < Len(EventStrikes)
    /\ event' = event + 1
    /\ UNCHANGED <<onBook, modeIds, known, at, agenda, wants, maint, alive, flush, slipped>>

\* SIGINT or SIGTERM: seen when the cycle is over.
Signalled ==
    /\ alive
    /\ alive' = FALSE
    /\ UNCHANGED <<market0, known, at, agenda, wants, maint, flush, slipped>>

ModeNext ==
    \/ ListedAll \/ BatchSent \/ EachCancelled \/ EachDone
    \/ Gate \/ EventPulled \/ StrikePulled \/ CycleDone
    \/ SideBegins \/ SidePulled \/ SideAmended \/ SideCancelled \/ SidePlaced
    \/ ModeFilled \/ EventRolls \/ Signalled

-----------------------------------------------------------------------------
\* Every open order is the one its side is known by, at the price it is known
\* by, or has been left behind by a request that failed: so a side is quoted
\* twice only after a lost cancel or placement.  In particular a cancel-all
\* leaves nothing, even when the batch raises or does only part of its work and
\* cancels of the first round fail, as long as a listing shows all orders and
\* those that survive are cancelled in the second round.
ModeViewFaithful ==
    \A o \in DOMAIN onBook :
        \/ o \in slipped
        \/ LET mine == known[onBook[o].strike][onBook[o].side]
           IN  /\ mine.id = o
               /\ mine.px = onBook[o].px \/ at = "replace"
=============================================================================
