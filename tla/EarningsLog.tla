------------------------------ MODULE EarningsLog ------------------------------
(***************************************************************************)
(* EarningsHistory (lipmm/observability/earnings_history.py): the total a  *)
(* session has earned is sampled into a file that outlives the session;    *)
(* the histogram adds up what lies between consecutive samples.            *)
(***************************************************************************)
EXTENDS Integers, Sequences, SequencesExt, Functions

CONSTANTS
    SampleInterval,  \* sample_interval_s
    Gains,           \* what a cycle may earn
    LastSecond,      \* bound: the clock
    MaxSessions      \* bound: sessions

ASSUME EarningsAssumption ==
    SampleInterval \in Nat \ {0} /\ Gains \subseteq Nat /\ LastSecond \in Nat /\ MaxSessions \in Nat

VARIABLES
    second,      \* time.time()
    total,       \* total_dollars of the session
    lastSample,  \* _last_recorded_ts
    samples,     \* the file
    sessions,
    earnings     \* history: dollars of all sessions

earningsVars == <<second, total, lastSample, samples, sessions, earnings>>

EarningsInit ==
    /\ second = SampleInterval /\ total = 0 /\ lastSample = 0
    /\ samples = <<>> /\ sessions = 1 /\ earnings = 0

Accrues ==
    /\ second < LastSecond /\ second' = second + 1
    /\ \E g \in Gains : total' = total + g /\ earnings' = earnings + g
    /\ UNCHANGED <<lastSample, samples, sessions>>

\* record; the write may fail, and is then tried again in the next cycle.
Sampled ==
    /\ second - lastSample >= SampleInterval
    /\ samples' = Append(samples, [ts |-> second, dollars |-> total])
    /\ lastSample' = second
    /\ UNCHANGED <<second, total, sessions, earnings>>

\* The file stays, the total and the time of the last sample do not.
SessionRestarts ==
    /\ sessions < MaxSessions
    /\ sessions' = sessions + 1
    /\ total' = 0 /\ lastSample' = 0
    /\ UNCHANGED <<second, samples, earnings>>

EarningsNext == Accrues \/ Sampled \/ SessionRestarts

EarningsSpec == EarningsInit /\ [][EarningsNext]_earningsVars

\* histogram: windows of no length and those in which the total fell, at a
\* restart, are left out.
WindowCounts(i) ==
    /\ samples[i + 1].ts > samples[i].ts
    /\ samples[i + 1].dollars >= samples[i].dollars

\* Mutant of WindowGain: a fall is taken for a gain.
WindowGainOfEither(i) ==
    LET d == samples[i + 1].dollars - samples[i].dollars
    IN  IF samples[i + 1].ts = samples[i].ts THEN 0 ELSE IF d < 0 THEN -d ELSE d

WindowGain(i) ==
    IF WindowCounts(i) THEN samples[i + 1].dollars - samples[i].dollars ELSE 0

CountedGains == SumFunction([i \in 1 .. Len(samples) - 1 |-> WindowGain(i)])

-----------------------------------------------------------------------------
\* However often the bot restarts between samples, the rates the dashboard
\* shows never add up to more than was earned, and those of a session's own
\* samples add up to what lay between the first and the last.
RatesAddUp ==
    /\ CountedGains <= earnings
    /\ sessions = 1 /\ samples # <<>> => CountedGains = Last(samples).dollars - Head(samples).dollars
=============================================================================
