------------------------------- MODULE Reanchor -------------------------------
(***************************************************************************)
(* deploy/truev_wait_and_reanchor.py: a job waits for the settlement of an *)
(* event and rewrites the anchor in the source of the index module, with a *)
(* backup before and an import of the result after.  A write or a copy     *)
(* empties its file first.  A backup is named by the second in which it is *)
(* made.  A job may die anywhere, and another may run.                     *)
(***************************************************************************)
EXTENDS Integers, FiniteSets

CONSTANTS
    Jobs,         \* runs of the script that may overlap
    LastDay,      \* bound: days that settle
    LastSecond,   \* bound: the clock, in seconds
    MaxStarts     \* bound: starts of jobs

ASSUME ReanchorAssumption ==
    LastDay \in Nat /\ LastSecond \in Nat /\ MaxStarts \in Nat

VARIABLES
    settledDays, \* events with an expiration_value
    anchor,      \* _truev_index.py: the day of its anchor, or Cut, or Broken
    second,      \* int(time.time())
    saved,       \* second -> what the backup of that name holds
    job,         \* job -> where it is, its event and its backup's name
    starts,
    clashed      \* history: a backup has taken a name that was in use

reanchorVars == <<settledDays, anchor, second, saved, job, starts, clashed>>

Seconds == 0 .. LastSecond
Cut == -1     \* an unfinished file
Broken == -2  \* a file that does not import
NoFile == -3
JobOff == [at |-> "off", day |-> 0, name |-> 0]

ReanchorInit ==
    /\ settledDays = 0 /\ anchor = 0 /\ second = 0
    /\ saved = [t \in Seconds |-> NoFile]
    /\ job = [j \in Jobs |-> JobOff] /\ starts = 0 /\ clashed = FALSE

DaySettles ==
    /\ settledDays < LastDay /\ settledDays' = settledDays + 1
    /\ UNCHANGED <<anchor, second, saved, job, starts, clashed>>

SecondPasses ==
    /\ second < LastSecond /\ second' = second + 1
    /\ UNCHANGED <<settledDays, anchor, saved, job, starts, clashed>>

Moves(j, at) == job' = [job EXCEPT ![j].at = at]

\* The event named or detected: one that has not settled yet, or is given.
JobStarts(j) ==
    /\ job[j].at = "off" /\ starts < MaxStarts /\ starts' = starts + 1
    /\ \E day \in 1 .. LastDay : job' = [job EXCEPT ![j] = [at |-> "waiting", day |-> day, name |-> 0]]
    /\ UNCHANGED <<settledDays, anchor, second, saved, clashed>>

\* poll_for_settlement, then the import of the anchor in force, which fails on
\* a file that is not whole.
Settled(j) ==
    /\ job[j].at = "waiting" /\ job[j].day <= settledDays
    /\ IF anchor >= 0 THEN Moves(j, "pricing") ELSE job' = [job EXCEPT ![j] = JobOff]
    /\ UNCHANGED <<settledDays, anchor, second, saved, starts, clashed>>

\* pull_component_prices: a missing price or too large a drift ends the job;
\* then the text is read and must hold the block.
PricesPulled(j) ==
    /\ job[j].at = "pricing"
    /\ \/ job' = [job EXCEPT ![j] = JobOff]
       \/ anchor # Cut /\ Moves(j, "backing up")
    /\ UNCHANGED <<settledDays, anchor, second, saved, starts, clashed>>

\* copy2 opens the backup: of one made in the same second nothing is left ...
BackupOpened(j) ==
    /\ job[j].at = "backing up"
    /\ job' = [job EXCEPT ![j].at = "saving", ![j].name = second]
    /\ saved' = [saved EXCEPT ![second] = Cut]
    /\ clashed' = (clashed \/ saved[second] # NoFile)
    /\ UNCHANGED <<settledDays, anchor, second, starts>>

\* Mutant of BackedUp: the file is emptied before it is copied.
BackedUpEmptied(j) ==
    /\ job[j].at = "saving"
    /\ Moves(j, "writing")
    /\ saved' = [saved EXCEPT ![job[j].name] = Cut]
    /\ anchor' = Cut
    /\ UNCHANGED <<settledDays, second, starts, clashed>>

\* ... and fills it with what the file holds by then.
BackedUp(j) ==
    /\ job[j].at = "saving"
    /\ Moves(j, "emptying")
    /\ saved' = [saved EXCEPT ![job[j].name] = anchor]
    /\ UNCHANGED <<settledDays, anchor, second, starts, clashed>>

\* write_text and copy2 empty the file ...
Emptied(j) ==
    /\ job[j].at \in {"emptying", "restoring"}
    /\ anchor' = Cut
    /\ Moves(j, IF job[j].at = "emptying" THEN "writing" ELSE "copying")
    /\ UNCHANGED <<settledDays, second, saved, starts, clashed>>

\* ... and fill it; a value that is no number does not import, nor do the texts
\* of two jobs mixed.
Written(j) ==
    /\ job[j].at \in {"writing", "copying"}
    /\ \/ job[j].at = "writing" /\ anchor' \in {job[j].day, Broken}
       \/ job[j].at = "copying" /\ anchor' = saved[job[j].name]
       \/ anchor' = Broken /\ \E k \in Jobs \ {j} : job[k].at # "off"
    /\ IF job[j].at = "writing" THEN Moves(j, "validating") ELSE job' = [job EXCEPT ![j] = JobOff]
    /\ UNCHANGED <<settledDays, second, saved, starts, clashed>>

\* The import in a process of its own; the backup comes back when it fails.
Validated(j) ==
    /\ job[j].at = "validating"
    /\ IF anchor >= 0 THEN job' = [job EXCEPT ![j] = JobOff] ELSE Moves(j, "restoring")
    /\ UNCHANGED <<settledDays, anchor, second, saved, starts, clashed>>

JobDies(j) ==
    /\ job[j].at # "off"
    /\ job' = [job EXCEPT ![j] = JobOff]
    /\ UNCHANGED <<settledDays, anchor, second, saved, starts, clashed>>

ReanchorNext ==
    \/ DaySettles \/ SecondPasses
    \/ \E j \in Jobs :
         \/ JobStarts(j) \/ Settled(j) \/ PricesPulled(j) \/ BackupOpened(j) \/ BackedUp(j)
         \/ Emptied(j) \/ Written(j) \/ Validated(j) \/ JobDies(j)

-----------------------------------------------------------------------------
\* Whatever dies in the middle of a write and however the jobs overlap, a whole
\* anchor remains in the file or in a backup, unless two backups were made in
\* the same second, of which the later may be of a file just emptied; and an
\* anchor that is in the file belongs to an event that has settled.
AnchorRecoverable ==
    /\ clashed \/ \E copy \in {anchor} \cup {saved[t] : t \in Seconds} : copy >= 0
    /\ anchor <= settledDays
=============================================================================
