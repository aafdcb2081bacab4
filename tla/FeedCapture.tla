------------------------------ MODULE FeedCapture ------------------------------
(***************************************************************************)
(* The capture sentinel (feeds/kalshi/capture.py, store.py): one task      *)
(* keeps the list of markets, one snapshots their books, one copies their  *)
(* trades into a store that refuses a trade it has.  A poll walks the list *)
(* it began with, one request at a time, while the list is replaced.       *)
(***************************************************************************)
EXTENDS Integers, Sequences, FiniteSets, FiniteSetsExt, SequencesExt

CONSTANTS
    EventLists,    \* what the exchange may list: sequences of markets
    PageSize,      \* trades of an answer (limit)
    MaxTape,       \* bound: trades
    MaxPolls,      \* bound: task -> its polls
    CaptureFaults  \* requests that may fail: "events", "books", "trades"

Listable == UNION {ToSet(list) : list \in EventLists}

ASSUME CaptureAssumption ==
    /\ EventLists \subseteq Seq(Listable)
    /\ PageSize \in Nat \ {0} /\ MaxTape \in Nat /\ MaxPolls \in [{"books", "trades"} -> Nat]
    /\ CaptureFaults \subseteq {"events", "books", "trades"}

Pollers == {"books", "trades"}

VARIABLES
    capturing,  \* _running
    open,       \* the exchange's list
    markets,    \* _active_markets
    tape,       \* trade -> its market, in the order of the trades
    stored,     \* the rows of the store
    poll,       \* task -> its poll, or NoPoll
    cursor,     \* last_cursor: a trade the answers begin before, or 0
    polls,      \* task -> polls begun
    due         \* history: rows that a poll that went through owes the store

captureVars == <<capturing, open, markets, tape, stored, poll, cursor, polls, due>>

NoPoll == [all |-> <<>>, todo |-> <<>>, upTo |-> -1, next |-> 0, missed |-> {}]

CaptureInit ==
    /\ capturing = FALSE
    /\ open \in EventLists /\ markets = <<>> /\ tape = <<>>
    /\ stored = {} /\ due = {}
    /\ poll = [l \in Pollers |-> NoPoll] /\ polls = [l \in Pollers |-> 0]
    /\ cursor = 0

Relists ==
    /\ open' \in EventLists
    /\ UNCHANGED <<capturing, markets, tape, stored, poll, cursor, polls, due>>

Trades ==
    /\ Len(tape) < MaxTape
    /\ \E m \in ToSet(open) : tape' = Append(tape, m)
    /\ UNCHANGED <<capturing, open, markets, stored, poll, cursor, polls, due>>

\* _refresh_events: an answer replaces the list, a failure leaves it.
Refreshed == markets' = open \/ ("events" \in CaptureFaults /\ UNCHANGED markets)

\* start: the tasks begin even when the first refresh failed.
CaptureStarts ==
    /\ ~capturing /\ capturing' = TRUE
    /\ Refreshed
    /\ UNCHANGED <<open, tape, stored, poll, cursor, polls, due>>

EventsRefreshed ==
    /\ capturing /\ Refreshed
    /\ UNCHANGED <<capturing, open, tape, stored, poll, cursor, polls, due>>

PollBegins(l) ==
    /\ capturing /\ poll[l] = NoPoll /\ polls[l] < MaxPolls[l]
    /\ poll' = [poll EXCEPT ![l] = [all |-> markets, todo |-> markets, upTo |-> Len(tape),
                                    next |-> cursor, missed |-> {}]]
    /\ polls' = [polls EXCEPT ![l] = @ + 1]
    /\ UNCHANGED <<capturing, open, markets, tape, stored, cursor, due>>

Polling(l) == poll[l].todo # <<>>
Asked(l) == Head(poll[l].todo)

\* What rests of the walk; "missed" are the markets without a full answer.
WalkGoesOn(l, next, missed) ==
    poll' = [poll EXCEPT ![l].todo = Tail(@), ![l].next = next, ![l].missed = @ \cup missed]

\* _capture_orderbook.
BookStored ==
    /\ Polling("books")
    /\ stored' = stored \cup {<<"book", Asked("books"), polls["books"]>>}
    /\ WalkGoesOn("books", 0, {})
    /\ UNCHANGED <<capturing, open, markets, tape, cursor, polls, due>>

\* External: the newest trades of a market, or those before the cursor; a
\* cursor comes with an answer that older trades follow.
Eligible(m) == {i \in DOMAIN tape : tape[i] = m /\ (cursor > 0 => i < cursor)}
Newest(m) == {i \in Eligible(m) : Cardinality({j \in Eligible(m) : j >= i}) <= PageSize}

\* _capture_trades: every market is asked with the cursor the poll began with,
\* and the last cursor of an answer is the next poll's.
TradesStored ==
    /\ Polling("trades")
    /\ LET m == Asked("trades")
           partial == Newest(m) # Eligible(m)
       IN  /\ stored' = stored \cup {<<"trade", i>> : i \in Newest(m)}
           /\ WalkGoesOn("trades", IF partial THEN Min(Newest(m)) ELSE poll["trades"].next,
                         IF partial \/ cursor > 0 THEN {m} ELSE {})
    /\ UNCHANGED <<capturing, open, markets, tape, cursor, polls, due>>

\* Mutant of AnswerFails: a market that fails ends the poll.
AnswerFailsForAll(l) ==
    /\ Polling(l) /\ l \in CaptureFaults
    /\ poll' = [poll EXCEPT ![l].todo = <<>>, ![l].missed = @ \cup {Asked(l)}]
    /\ UNCHANGED <<capturing, open, markets, tape, stored, cursor, polls, due>>

\* _get gives up after its attempts: the next market is asked.
AnswerFails(l) ==
    /\ Polling(l) /\ l \in CaptureFaults
    /\ WalkGoesOn(l, poll[l].next, {Asked(l)})
    /\ UNCHANGED <<capturing, open, markets, tape, stored, cursor, polls, due>>

Owed(l) ==
    LET answered == ToSet(poll[l].all) \ poll[l].missed
    IN  IF l = "books" THEN {<<"book", m, polls[l]>> : m \in answered}
        ELSE {<<"trade", i>> : i \in {j \in 1 .. poll[l].upTo : tape[j] \in answered}}

PollEnds(l) ==
    /\ poll[l] # NoPoll /\ ~Polling(l)
    /\ cursor' = IF l = "trades" THEN poll[l].next ELSE cursor
    /\ due' = due \cup Owed(l)
    /\ poll' = [poll EXCEPT ![l] = NoPoll]
    /\ UNCHANGED <<capturing, open, markets, tape, stored, polls>>

\* stop, or the end of the process: a poll is cut off where it awaits.
CaptureStops ==
    /\ capturing /\ capturing' = FALSE
    /\ poll' = [l \in Pollers |-> NoPoll] /\ cursor' = 0 /\ markets' = <<>>
    /\ UNCHANGED <<open, tape, stored, polls, due>>

CaptureNext ==
    \/ Relists \/ Trades \/ CaptureStarts \/ EventsRefreshed \/ CaptureStops
    \/ BookStored \/ TradesStored
    \/ \E l \in Pollers : PollBegins(l) \/ AnswerFails(l) \/ PollEnds(l)

-----------------------------------------------------------------------------
\* A poll that goes through while markets are listed and delisted and others
\* fail has stored every market's book, and every trade made before it began,
\* of each market that gave a full answer; a cursor makes answers partial.
CaptureIsComplete == due \subseteq stored
=============================================================================
