------------------------------- MODULE PoolStore -------------------------------
(***************************************************************************)
(* The reward periods of the incentive programs (feeds/kalshi/lip_pool.py):*)
(* a refresh reads the operator's file, walks the pages of the exchange's  *)
(* list of active programs, upserts both and marks what has expired.       *)
(* A period is keyed by its market and its dates; time is in days.         *)
(***************************************************************************)
EXTENDS Integers, Sequences, FiniteSets, SequencesExt

CONSTANTS
    Periods,      \* keys: records with a market, a start and an end
    PoolSizes,    \* pool_size_usd
    LastDate,     \* bound: days
    MaxChanges,   \* bound: changes of the file and of the programs
    MaxRefreshes  \* bound: refreshes

ASSUME PoolAssumption ==
    /\ \A k \in Periods : k.start \in Nat /\ k.end \in Nat /\ k.start <= k.end
    /\ PoolSizes \subseteq Nat /\ LastDate \in Nat /\ MaxChanges \in Nat /\ MaxRefreshes \in Nat

VARIABLES
    date,       \* today, UTC
    file,       \* lip_pools.yaml: "missing", "malformed", or its entries
    listing,    \* the exchange's programs: key -> pool size and whether paid out
    rows,       \* lip_reward_periods: key -> row, or NoRow
    refresh,    \* the refresh under way
    outcome,    \* what the last refresh that went through had read, and when
    changes,
    refreshes

poolVars == <<date, file, listing, rows, refresh, outcome, changes, refreshes>>

NoRow == [pool |-> 0, active |-> FALSE, source |-> "none"]
Unlisted == [pool |-> 0, paid |-> FALSE]
Idle == [at |-> "idle", entries |-> <<>>, pages |-> <<>>]
NoOutcome == [date |-> 0, entries |-> <<>>]

PoolInit ==
    /\ date = 1
    /\ file = [state |-> "missing", pools |-> <<>>]
    /\ listing = [k \in Periods |-> Unlisted]
    /\ rows = [k \in Periods |-> NoRow]
    /\ refresh = Idle
    /\ outcome = NoOutcome
    /\ changes = 0 /\ refreshes = 0

DatePasses ==
    /\ date < LastDate
    /\ date' = date + 1
    /\ UNCHANGED <<file, listing, rows, refresh, outcome, changes, refreshes>>

\* External: the operator edits the file.
FileEdited ==
    /\ changes < MaxChanges /\ changes' = changes + 1
    /\ \/ file' = [state |-> "malformed", pools |-> <<>>]
       \/ \E keys \in SUBSET Periods : \E pools \in [keys -> PoolSizes \ {0}] :
            file' = [state |-> "entries", pools |-> pools]
    /\ UNCHANGED <<date, listing, rows, refresh, outcome, refreshes>>

\* External: the exchange opens a program, or has paid it out.
ProgramChanges ==
    /\ changes < MaxChanges /\ changes' = changes + 1
    /\ \E k \in Periods :
         \/ listing[k] = Unlisted /\ \E p \in PoolSizes \ {0} :
              listing' = [listing EXCEPT ![k] = [pool |-> p, paid |-> FALSE]]
         \/ listing[k].pool > 0 /\ listing' = [listing EXCEPT ![k].paid = TRUE]
    /\ UNCHANGED <<date, file, rows, refresh, outcome, refreshes>>

\* load_config_pools: a missing file is passed over, a malformed one raises.
RefreshBegins ==
    /\ refresh = Idle /\ refreshes < MaxRefreshes
    /\ file.state # "malformed"
    /\ refresh' = [at |-> "paging", entries |-> file.pools, pages |-> <<>>]
    /\ refreshes' = refreshes + 1
    /\ UNCHANGED <<date, file, listing, rows, outcome, changes>>

\* One page of _fetch_api_pools, here one program that is listed when it is
\* asked for; programs that are paid out are no longer "active".
PageRead ==
    /\ refresh.at = "paging"
    /\ \E k \in Periods :
         /\ listing[k].pool > 0 /\ ~listing[k].paid
         /\ k \notin {refresh.pages[i].key : i \in DOMAIN refresh.pages}
         /\ refresh' = [refresh EXCEPT !.pages = Append(@, [key |-> k, pool |-> listing[k].pool])]
    /\ UNCHANGED <<date, file, listing, rows, outcome, changes, refreshes>>

\* The row a key gets: the file's entry before the exchange's.
FromFile(k) == [pool |-> refresh.entries[k], active |-> k.end >= date, source |-> "config"]
FromListing(k, pool) == [pool |-> pool, active |-> k.end >= date, source |-> "api"]

\* Mutant of Upserted: the exchange's program replaces the file's entry.
UpsertedListingFirst(k) ==
    LET pages == {p \in ToSet(refresh.pages) : p.key = k}
    IN  CASE pages # {} -> FromListing(k, (CHOOSE p \in pages : TRUE).pool)
          [] pages = {} /\ k \in DOMAIN refresh.entries -> FromFile(k)
          [] OTHER -> rows[k]

Upserted(k) ==
    LET pages == {p \in ToSet(refresh.pages) : p.key = k}
    IN  CASE k \in DOMAIN refresh.entries -> FromFile(k)
          [] k \notin DOMAIN refresh.entries /\ pages # {} ->
               FromListing(k, (CHOOSE p \in pages : TRUE).pool)
          [] OTHER -> rows[k]

\* mark_expired.
Expired(k, row) == IF k.end < date THEN [row EXCEPT !.active = FALSE] ELSE row

\* The last page, or a request that failed, ends the walk; nothing found and
\* nothing stored raises, after the writes.
RefreshEnds ==
    /\ refresh.at = "paging"
    /\ rows' = [k \in Periods |-> Expired(k, Upserted(k))]
    /\ outcome' = [date |-> date, entries |-> refresh.entries]
    /\ refresh' = Idle
    /\ UNCHANGED <<date, file, listing, changes, refreshes>>

PoolNext ==
    \/ DatePasses \/ FileEdited \/ ProgramChanges
    \/ RefreshBegins \/ PageRead \/ RefreshEnds

-----------------------------------------------------------------------------
\* get_active_periods.
ActivePeriods == {k \in Periods : rows[k].active}

\* Whatever the exchange listed while the pages were read, failed to answer or
\* had listed at an earlier refresh: once a refresh is through, the operator's
\* entries are the ones in force, and nothing that had ended counts as active.
OperatorsPoolsHold ==
    outcome.date > 0 =>
        /\ \A k \in DOMAIN outcome.entries :
             rows[k].source = "config" /\ rows[k].pool = outcome.entries[k]
        /\ \A k \in ActivePeriods : k.end >= outcome.date
=============================================================================
