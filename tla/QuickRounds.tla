------------------------------ MODULE QuickRounds ------------------------------
(***************************************************************************)
(* The one-shot script deploy/exploit_quick.py: rounds of a bid leg and an *)
(* ask leg, each of which rests a post-only order, waits for another       *)
(* participant's better price, cancels the resting order and crosses to    *)
(* that price.  Whether the awaited price comes is left open.              *)
(***************************************************************************)
EXTENDS Integers, Sequences, FiniteSets, SequencesExt

CONSTANTS
    Legs,        \* --leg: the legs of a round, in their order
    Rounds,      \* --rounds
    QuickFaults  \* requests that may fail: "place", "cancel"

\* _parse_args: the sides of a round and the rounds.
QuickArgs ==
    /\ Legs \in {<<"bid", "ask">>, <<"bid">>, <<"ask">>}
    /\ Rounds \in Nat \ {0} /\ QuickFaults \subseteq {"place", "cancel"}

ASSUME QuickAssumption == QuickArgs

VARIABLES
    quickAt,    \* what is done next
    legs,       \* legs of this round still to do
    quickRound, \* round_num
    stopping,   \* the stop event
    ours,       \* our orders on the exchange
    baitIds,    \* bid_id and ask_id; 0 is None
    quickIds,   \* orders sent so far
    unpulled    \* history: orders the script cannot cancel, and why

quickVars == <<quickAt, legs, quickRound, stopping, ours, baitIds, quickIds, unpulled>>

QuickInit ==
    /\ quickAt = "between" /\ legs = <<>> /\ quickRound = 0 /\ stopping = FALSE
    /\ ours = {} /\ baitIds = [l \in {"bid", "ask"} |-> 0] /\ quickIds = 0 /\ unpulled = {}

\* _on_signal: noticed where the script looks.
QuickSignal ==
    /\ ~stopping /\ stopping' = TRUE
    /\ UNCHANGED <<quickAt, legs, quickRound, ours, baitIds, quickIds, unpulled>>

\* External: an order of ours is filled.
OursFilled ==
    /\ \E o \in ours : ours' = ours \ {o}
    /\ UNCHANGED <<quickAt, legs, quickRound, stopping, baitIds, quickIds, unpulled>>

RoundBegins ==
    /\ quickAt = "between"
    /\ IF stopping \/ quickRound = Rounds
       THEN quickAt' = "ended" /\ UNCHANGED <<legs, quickRound>>
       ELSE quickAt' = "leg" /\ legs' = Legs /\ quickRound' = quickRound + 1
    /\ UNCHANGED <<stopping, ours, baitIds, quickIds, unpulled>>

LegBegins ==
    /\ quickAt = "leg"
    /\ quickAt' = IF legs = <<>> \/ stopping THEN "done" ELSE "clearing"
    /\ UNCHANGED <<legs, quickRound, stopping, ours, baitIds, quickIds, unpulled>>

\* The wait for a book the order would not cross, with its timeout.
BookCleared ==
    /\ quickAt = "clearing"
    /\ quickAt' \in {"placing", "failed"}
    /\ UNCHANGED <<legs, quickRound, stopping, ours, baitIds, quickIds, unpulled>>

\* A request for a new order: what becomes of it while the answer is awaited,
\* and where the script is then.  It may raise, before or after the order
\* rests.
SentOrder(answered, rejected) ==
    \/ quickIds' = quickIds + 1 /\ answered
    \/ rejected /\ UNCHANGED <<quickIds, ours, baitIds, unpulled, legs>>
    \/ /\ "place" \in QuickFaults
       /\ quickAt' = "failed" /\ quickIds' = quickIds + 1
       /\ ours' = ours \cup {quickIds + 1}
       /\ unpulled' = unpulled \cup {<<quickIds + 1, "unanswered">>}
       /\ UNCHANGED <<baitIds, legs>>

\* _place_bait.
BaitPlaced ==
    /\ quickAt = "placing"
    /\ SentOrder(/\ quickAt' = "watching"
                 /\ ours' = ours \cup {quickIds + 1}
                 /\ baitIds' = [baitIds EXCEPT ![Head(legs)] = quickIds + 1]
                 /\ UNCHANGED <<unpulled, legs>>,
                 quickAt' = "failed")
    /\ UNCHANGED <<quickRound, stopping>>

\* Mutant of PriceSeen: the order is forgotten when the wait times out.
PriceSeenOrForgotten ==
    /\ quickAt = "watching"
    /\ \/ quickAt' = "pulling" /\ ~stopping /\ UNCHANGED baitIds
       \/ quickAt' = "failed" /\ baitIds' = [baitIds EXCEPT ![Head(legs)] = 0]
    /\ UNCHANGED <<legs, quickRound, stopping, ours, quickIds, unpulled>>

\* The wait for the other participant's price, with its timeout.
PriceSeen ==
    /\ quickAt = "watching"
    /\ quickAt' = "failed" \/ (quickAt' = "pulling" /\ ~stopping)
    /\ UNCHANGED <<legs, quickRound, stopping, ours, baitIds, quickIds, unpulled>>

\* _cancel_quiet: an exception is logged.
Cancelled(orders) ==
    \E left \in IF "cancel" \in QuickFaults THEN SUBSET (orders \cap ours) ELSE {{}} :
        /\ ours' = ours \ (orders \ left)
        /\ unpulled' = unpulled \cup {<<o, "not cancelled">> : o \in left}

BaitPulled ==
    /\ quickAt = "pulling"
    /\ quickAt' = "taking"
    /\ Cancelled({baitIds[Head(legs)]})
    /\ baitIds' = [baitIds EXCEPT ![Head(legs)] = 0]
    /\ UNCHANGED <<legs, quickRound, stopping, quickIds>>

\* _take is a plain limit order, any answer to which counts as filled: it rests
\* when the price has gone meanwhile.
PriceTaken ==
    /\ quickAt = "taking"
    /\ SentOrder(/\ quickAt' = "leg" /\ legs' = Tail(legs)
                 /\ \/ UNCHANGED <<ours, unpulled>>
                    \/ /\ ours' = ours \cup {quickIds + 1}
                       /\ unpulled' = unpulled \cup {<<quickIds + 1, "taken for filled">>}
                 /\ UNCHANGED baitIds,
                 quickAt' = "failed")
    /\ UNCHANGED <<quickRound, stopping>>

\* The finally clause; after a failure no further round.
RoundEnds ==
    /\ quickAt \in {"done", "failed"}
    /\ quickAt' = IF quickAt = "done" THEN "between" ELSE "ended"
    /\ Cancelled(ToSet(<<baitIds["bid"], baitIds["ask"]>>) \ {0})
    /\ baitIds' = [l \in {"bid", "ask"} |-> 0]
    /\ legs' = <<>>
    /\ UNCHANGED <<quickRound, stopping, quickIds>>

QuickNext ==
    \/ QuickSignal \/ OursFilled \/ RoundBegins \/ LegBegins \/ BookCleared
    \/ BaitPlaced \/ PriceSeen \/ BaitPulled \/ PriceTaken \/ RoundEnds

-----------------------------------------------------------------------------
\* "Outstanding orders are cancelled on exit", stopped, timed out or rejected
\* at any point, but for those whose request or cancel was not answered and the
\* crossing orders that were taken for filled while they rest.
OutstandingPulled ==
    quickAt = "ended" => ours \subseteq {e[1] : e \in unpulled}
=============================================================================
