----------------------------- MODULE TheoSources -----------------------------
(***************************************************************************)
(* Where fair values come from: the registry's routing, the providers that *)
(* poll a file and an endpoint, and the TruEV provider over the prices its *)
(* forward source polls in a thread.  The strategy quotes on a value whose *)
(* confidence is not zero.                                                 *)
(*                                                                         *)
(* A source outside ("file", "http", or a symbol) shows one version after  *)
(* the other; a version is readable or not, and lists the market or not.   *)
(* Time is in ticks.                                                       *)
(***************************************************************************)
EXTENDS Integers, Sequences, FiniteSets, FiniteSetsExt

CONSTANTS
    Symbols,      \* the components of the TruEV index
    StaleAfter,   \* staleness_threshold_s
    Freshness,    \* forward_freshness_threshold_s
    SlowestPoll,  \* bound: ticks between a reading and its answer's arrival
    SettleAt,     \* the settlement of the TruEV market
    Registries,   \* the sets of series prefixes that may be registered, of
                   \* "file", "*", "truev"
    LastTick,     \* bound: ticks
    MaxVersions   \* bound: versions of a source

\* TruEVConfig and the other sources' settings.
TheoConfig ==
    /\ StaleAfter \in Nat /\ Freshness \in Nat \ {0} /\ SlowestPoll \in Nat
    /\ SettleAt \in Nat /\ LastTick \in Nat /\ MaxVersions \in Nat \ {0}
    /\ Registries \subseteq SUBSET {"file", "*", "truev"}
    /\ Symbols \cap {"file", "http"} = {}

ASSUME TheoAssumption == TheoConfig

Outside == {"file", "http"} \cup Symbols
Pollers == {"http", "forward"}

VARIABLES
    prefixes,   \* TheoRegistry._providers
    theoTick,   \* the time
    shown,      \* source -> version, what it is, and its modification time
    replaced,   \* history: source -> when each earlier version was replaced
    copies,     \* source -> what the program holds of it and since when
    seenMtime,  \* FilePollTheoProvider._snapshot_mtime
    polls       \* poller -> a reading on its way, and since when

theoVars == <<prefixes, theoTick, shown, replaced, copies, seenMtime, polls>>

NothingHeld == [version |-> 0, lists |-> FALSE, at |-> 0]
NoPoll == [since |-> 0, read |-> <<>>]

TheoInit ==
    /\ prefixes \in Registries
    /\ theoTick = 1
    /\ shown = [s \in Outside |-> [version |-> 1, what |-> "row", mtime |-> 1]]
    /\ replaced = [s \in Outside |-> <<>>]
    /\ copies = [s \in Outside |-> NothingHeld]
    /\ seenMtime = 0
    /\ polls = [p \in Pollers |-> NoPoll]

Reads(p) == IF p = "http" THEN {"http"} ELSE Symbols

\* The sources that somebody reads.
Used == {s \in Outside : \/ s = "file" /\ "file" \in prefixes
                         \/ s = "http" /\ "*" \in prefixes
                         \/ s \in Symbols /\ "truev" \in prefixes}

Busy(p) == polls[p].since > 0

\* External: time passes; the requests have their timeouts.
TickPasses ==
    /\ theoTick < LastTick
    /\ \A p \in Pollers : Busy(p) => theoTick - polls[p].since < SlowestPoll
    /\ theoTick' = theoTick + 1
    /\ UNCHANGED <<prefixes, shown, replaced, copies, seenMtime, polls>>

\* External: a new version, which may be cut off, without the market's row or
\* (a price) out of its bounds.  A file moved into place keeps its own time.
Renewed(s) ==
    /\ s \in Used /\ shown[s].version < MaxVersions
    /\ \E what \in {"row", "norow", "bad"},
          mtime \in {shown[s].mtime} \cup IF s = "file" THEN {theoTick} ELSE {} :
         shown' = [shown EXCEPT ![s] = [version |-> @.version + 1, what |-> what, mtime |-> mtime]]
    /\ replaced' = [replaced EXCEPT ![s] = Append(@, theoTick)]
    /\ UNCHANGED <<prefixes, theoTick, copies, seenMtime, polls>>

Kept(version, what) == [version |-> version, lists |-> what = "row", at |-> theoTick]

-----------------------------------------------------------------------------
(* FilePollTheoProvider: warmup, and every refresh_s.                      *)

\* Mutant of FileReloaded: an attempt that fails to parse renews the age.
FileReloadedAnyway ==
    /\ "file" \in Used /\ shown["file"].mtime > seenMtime
    /\ IF shown["file"].what = "bad"
       THEN copies' = [copies EXCEPT !["file"].at = theoTick] /\ UNCHANGED seenMtime
       ELSE /\ copies' = [copies EXCEPT !["file"] = Kept(shown["file"].version, shown["file"].what)]
            /\ seenMtime' = shown["file"].mtime
    /\ UNCHANGED <<prefixes, theoTick, shown, replaced, polls>>

\* _reload_if_changed: a newer file that can be parsed replaces the snapshot; a
\* missing, unchanged or unreadable one leaves it, and its age.
FileReloaded ==
    /\ "file" \in Used /\ shown["file"].mtime > seenMtime
    /\ shown["file"].what # "bad"
    /\ copies' = [copies EXCEPT !["file"] = Kept(shown["file"].version, shown["file"].what)]
    /\ seenMtime' = shown["file"].mtime
    /\ UNCHANGED <<prefixes, theoTick, shown, replaced, polls>>

-----------------------------------------------------------------------------
(* HttpPollTheoProvider and TruEvForwardSource: a reading leaves and its   *)
(* answer arrives later.                                                   *)

PollLeaves(p) ==
    /\ ~Busy(p) /\ Reads(p) \subseteq Used
    /\ polls' = [polls EXCEPT ![p] = [since |-> theoTick, read |-> [s \in Reads(p) |-> shown[s]]]]
    /\ UNCHANGED <<prefixes, theoTick, shown, replaced, copies, seenMtime>>

\* An answer that can be used is dated by its arrival.  Of the prices some may
\* be missing from it, or all, and those out of bounds are dropped.
PollArrives(p) ==
    /\ Busy(p)
    /\ \E got \in SUBSET Reads(p) :
         copies' = [s \in Outside |->
           IF s \notin got \/ polls[p].read[s].what = "bad"
                \/ (s \in Symbols /\ polls[p].read[s].what # "row")
           THEN copies[s] ELSE Kept(polls[p].read[s].version, polls[p].read[s].what)]
    /\ polls' = [polls EXCEPT ![p] = NoPoll]
    /\ UNCHANGED <<prefixes, theoTick, shown, replaced, seenMtime>>

TheoNext ==
    \/ TickPasses \/ FileReloaded
    \/ \E s \in Outside : Renewed(s)
    \/ \E p \in Pollers : PollLeaves(p) \/ PollArrives(p)

-----------------------------------------------------------------------------
(* The answers.                                                            *)

\* TheoRegistry.get: the exact prefix, else the wildcard, else nobody.
Provider(prefix) == IF prefix \in prefixes THEN prefix
                    ELSE IF "*" \in prefixes THEN "*" ELSE "nobody"

Age(s) == theoTick - copies[s].at

\* theo() of the polling providers: a row that is listed and not stale.
PolledTrusts(s) == copies[s].at > 0 /\ copies[s].lists /\ Age(s) <= StaleAfter

OldestAge == Max({Age(s) : s \in Symbols})

\* TruEVTheoProvider.theo: before the settlement, with every component there,
\* the confidence falls with the age of the oldest.
TruevTrusts ==
    /\ theoTick < SettleAt
    /\ \A s \in Symbols : copies[s].at > 0
    /\ OldestAge < Freshness

\* The sources a confident answer for a prefix rests on, if it is one.
Trusts(prefix) ==
    CASE Provider(prefix) = "file"  -> PolledTrusts("file")
      [] Provider(prefix) = "*"     -> PolledTrusts("http")
      [] Provider(prefix) = "truev" -> TruevTrusts
      [] OTHER -> FALSE

RestsOn(prefix) ==
    CASE Provider(prefix) = "file"  -> {"file"}
      [] Provider(prefix) = "*"     -> {"http"}
      [] Provider(prefix) = "truev" -> Symbols
      [] OTHER -> {}

\* How old a version may be: that of a file is read when it is loaded.
Limit(prefix) ==
    CASE Provider(prefix) = "file"  -> StaleAfter
      [] Provider(prefix) = "*"     -> StaleAfter + SlowestPoll
      [] Provider(prefix) = "truev" -> Freshness - 1 + SlowestPoll
      [] OTHER -> 0

-----------------------------------------------------------------------------
\* Whatever fails to be read, arrives late or is replaced meanwhile, a value the
\* bot quotes on is one its source still showed within the provider's limit of
\* age (and the time a reading takes), and none is trusted after settlement.
ConfidentIsRecent ==
    \A prefix \in {"file", "truev", "other"} : Trusts(prefix) =>
        /\ \A s \in RestsOn(prefix) :
             LET v == copies[s].version
             IN  v = shown[s].version
                 \/ replaced[s][v] >= theoTick - Limit(prefix)
        /\ Provider(prefix) = "truev" => theoTick < SettleAt
=============================================================================
