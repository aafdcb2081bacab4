---------------------------- MODULE DecisionFiles ----------------------------
(***************************************************************************)
(* The decision log on disk: DecisionLogger appends to the file of the     *)
(* day, and RetentionManager's thread compresses the files of closed days  *)
(* and evicts the oldest while the directory is over its budget.  The      *)
(* process may be killed between any two steps of a sweep.                 *)
(*                                                                         *)
(* A day's file and its sub-rotations are one file here; a line is a unit  *)
(* of size 2, compressed of size 1.                                        *)
(***************************************************************************)
EXTENDS Integers, Sequences, FiniteSets, FiniteSetsExt, SequencesExt

CONSTANTS
    LastDay,    \* bound: days 1 .. LastDay
    MaxLines,   \* bound: lines logged
    MaxBytes,   \* max_total_bytes
    MaxSweeps   \* bound: sweeps

\* RetentionManager's arguments.
RetentionConfig ==
    /\ LastDay \in Nat \ {0} /\ MaxLines \in Nat /\ MaxSweeps \in Nat
    /\ MaxBytes \in Nat \ {0}

ASSUME FilesAssumption == RetentionConfig

VARIABLES
    today,     \* the UTC date
    logged,    \* history: the lines logged, each with its day
    disk,      \* <<day, kind>> -> the file, or NoFile
    writes,    \* a clock of modification times
    sweep,     \* the sweep under way
    sweeps,
    evicted    \* history: days of which a whole file was evicted

filesVars == <<today, logged, disk, writes, sweep, sweeps, evicted>>

Days == 1 .. LastDay
Paths == Days \X {"jsonl", "gz"}
NoFile == [lines |-> {}, whole |-> FALSE, mtime |-> 0]
NoSweep == [at |-> "none", todo |-> <<>>, entries |-> {}, doomed |-> {}, date |-> 0]

FilesInit ==
    /\ today = 1
    /\ logged = {}
    /\ disk = [p \in Paths |-> NoFile]
    /\ writes = 0
    /\ sweep = NoSweep
    /\ sweeps = 0
    /\ evicted = {}

OnDisk == {p \in Paths : disk[p] # NoFile}
Bytes(p) == Cardinality(disk[p].lines) * IF p[2] = "gz" THEN 1 ELSE 2
Sized(p) == [path |-> p, bytes |-> Bytes(p), mtime |-> disk[p].mtime]

\* log(): the file of the day, opened if need be, and one line.
Logged ==
    /\ Cardinality(logged) < MaxLines
    /\ LET line == <<today, Cardinality(logged)>>
           file == <<today, "jsonl">>
       IN  /\ logged' = logged \cup {line}
           /\ disk' = [disk EXCEPT ![file] =
                [lines |-> @.lines \cup {line}, whole |-> TRUE, mtime |-> writes + 1]]
    /\ writes' = writes + 1
    /\ UNCHANGED <<today, sweep, sweeps, evicted>>

Midnight ==
    /\ today < LastDay
    /\ today' = today + 1
    /\ UNCHANGED <<logged, disk, writes, sweep, sweeps, evicted>>

\* _scan, with the date of its beginning, in the order of modification.
SweepBegins ==
    /\ sweep = NoSweep /\ sweeps < MaxSweeps
    /\ sweeps' = sweeps + 1
    /\ LET all == {Sized(p) : p \in OnDisk}
           closed == {e \in all : e.path[2] = "jsonl" /\ e.path[1] # today}
       IN  \E queue \in SetToSeqs(closed) :
             /\ \A i, j \in DOMAIN queue : i < j => queue[i].mtime <= queue[j].mtime
             /\ sweep' = [at |-> "compress", date |-> today, entries |-> all,
                          doomed |-> {}, todo |-> queue]
    /\ UNCHANGED <<today, logged, disk, writes, evicted>>

Source == Head(sweep.todo).path
Packed == <<Source[1], "gz">>

\* Mutant of GzipOpened: the original is renamed out of the way first.
GzipOpenedRenaming ==
    /\ sweep.at = "compress" /\ sweep.todo # <<>>
    /\ sweep' = [sweep EXCEPT !.at = "gzip"]
    /\ disk' = [disk EXCEPT ![Packed] = [NoFile EXCEPT !.mtime = writes + 1],
                            ![Source].whole = FALSE]
    /\ writes' = writes + 1
    /\ UNCHANGED <<today, logged, sweeps, evicted>>

\* _gzip_in_place: an earlier attempt's file is overwritten.
GzipOpened ==
    /\ sweep.at = "compress" /\ sweep.todo # <<>>
    /\ sweep' = [sweep EXCEPT !.at = "gzip"]
    /\ disk' = [disk EXCEPT ![Packed] = [NoFile EXCEPT !.mtime = writes + 1]]
    /\ writes' = writes + 1
    /\ UNCHANGED <<today, logged, sweeps, evicted>>

GzipWritten ==
    /\ sweep.at = "gzip"
    /\ sweep' = [sweep EXCEPT !.at = "unlink"]
    /\ disk' = [disk EXCEPT ![Packed].lines = disk[Source].lines, ![Packed].whole = TRUE]
    /\ UNCHANGED <<today, logged, writes, sweeps, evicted>>

\* The entry of the original makes way for one of the compressed file; one of
\* an earlier attempt is listed still.
Unlinked ==
    /\ sweep.at = "unlink"
    /\ disk' = [disk EXCEPT ![Source] = NoFile]
    /\ sweep' = [sweep EXCEPT !.at = "compress", !.todo = Tail(@),
                   !.entries = (@ \ {Head(sweep.todo)}) \cup {Sized(Packed)}]
    /\ UNCHANGED <<today, logged, writes, sweeps, evicted>>

\* Disk full, permission denied: the original stays in the list.
GzipFails ==
    /\ sweep.at \in {"gzip", "unlink"}
    /\ sweep' = [sweep EXCEPT !.at = "compress", !.todo = Tail(@)]
    /\ UNCHANGED <<today, logged, disk, writes, sweeps, evicted>>

\* Oldest first, without the live file, until the rest is within the budget.
Total(entries) == MapThenSumSet(LAMBDA e : e.bytes, entries)

Older(e, entries) ==
    {f \in entries : f.path[1] # today /\ (f.mtime < e.mtime \/ (f.mtime = e.mtime /\ f.path = e.path /\ f # e))}

Doomed(entries) ==
    {e.path : e \in {e \in entries :
        /\ e.path[1] # today
        /\ Total(entries) - Total(Older(e, entries)) > MaxBytes}}

EvictionChosen ==
    /\ sweep.at = "compress" /\ sweep.todo = <<>>
    /\ sweep' = [sweep EXCEPT !.at = "evict", !.doomed = Doomed(sweep.entries)]
    /\ UNCHANGED <<today, logged, disk, writes, sweeps, evicted>>

\* An unlink that fails is noted and passed over.
Evicts ==
    /\ sweep.at = "evict"
    /\ \E p \in sweep.doomed :
         /\ sweep' = [sweep EXCEPT !.doomed = @ \ {p}]
         /\ \/ /\ disk' = [disk EXCEPT ![p] = NoFile]
               /\ evicted' = IF disk[p].whole THEN evicted \cup {<<p[1], today>>} ELSE evicted
            \/ UNCHANGED <<disk, evicted>>
    /\ UNCHANGED <<today, logged, writes, sweeps>>

SweepOver ==
    /\ sweep.at = "evict" /\ sweep.doomed = {}
    /\ sweep' = NoSweep
    /\ UNCHANGED <<today, logged, disk, writes, sweeps, evicted>>

\* The process is killed and started again.
Killed ==
    /\ sweep # NoSweep
    /\ sweep' = NoSweep
    /\ UNCHANGED <<today, logged, disk, writes, sweeps, evicted>>

FilesNext ==
    \/ Logged \/ Midnight
    \/ SweepBegins \/ GzipOpened \/ GzipWritten \/ Unlinked \/ GzipFails
    \/ EvictionChosen \/ Evicts \/ SweepOver \/ Killed

-----------------------------------------------------------------------------
Readable(line) ==
    \E p \in Paths : p[1] = line[1] /\ disk[p].whole /\ line \in disk[p].lines

\* Across midnights, failures and kills in the middle of a compression, a line
\* that was logged stays readable until its day is evicted, and no day is
\* evicted that was not closed by then.
LinesSurvive ==
    /\ \A line \in logged : Readable(line) \/ \E e \in evicted : e[1] = line[1]
    /\ \A e \in evicted : e[1] < e[2]
=============================================================================
