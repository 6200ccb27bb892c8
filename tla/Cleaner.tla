-------------------------------- MODULE Cleaner --------------------------------
(***************************************************************************)
(* The CLEANER of wis2hauler and what one DOWNLOADER worker has to do with *)
(* it: the files it keeps for a time, the cancels scheduled for downloads  *)
(* that do not end, the sweep of the primary that turns both into commands *)
(* on the worker's stream, and the worker's loop that carries them out.    *)
(* Files: src/cleaner/*.ts, src/downloader/cleaner-ipc.ts.                 *)
(*                                                                         *)
(* The two sorted sets are one function from members to scores: a path is  *)
(* a member of wis2gc:cleaner:pending, a gid of wis2gc:cleaner:cancel.     *)
(* Who is primary is the business of Election; here it changes at will,    *)
(* and every change, like every failure, counts as an upset.               *)
(***************************************************************************)
EXTENDS Integers, Sequences, FiniteSets, Functions

CONSTANTS
    Cleaners,     \* processes with the CLEANER role
    Paths,        \* local paths of the worker's files
    Gids,         \* its aria2 downloads
    Keep,         \* cleaner.keep-in-cache
    CancelAfter,  \* delay of the cancel (seven minutes in the code)
    BatchSize,    \* COUNT of the worker's XREAD (200 in the code)
    MaxTime, MaxItems, MaxFaults  \* bounds: the clock, files and downloads, faults

ASSUME CleanerAssumption ==
    /\ Paths \cap Gids = {}
    /\ Keep \in Nat /\ CancelAfter \in Nat /\ BatchSize \in Nat \ {0}
    /\ MaxTime \in Nat /\ MaxItems \in Nat
    /\ MaxFaults \in Nat

Members == Paths \cup Gids

VARIABLES
    now,       \* the clock every process reads
    allS3,     \* every live DOWNLOADER announces S3 mode
    disk,      \* when the file at a path was stored, Never if there is none
    stores,    \* how many files each path has had
    download,  \* "open" while the aria2_gid record of a download is present
    zset,      \* the score of each member, Never if it is not in its set
    heard,     \* the cleaner-reporter messages on their way to each process
    primary,   \* the processes whose state.primary is true
    sweep,     \* where each process's sweep is
    stream,    \* the worker's command stream
    cursor,    \* how many of its entries the worker has done with
    batch,     \* entries the running batch goes up to, 0 between batches
    jobs,      \* how many handlers the worker runs for each job
    acted,     \* retry decisions started by the cancels of each gid
    leaked,    \* files nobody is going to delete any more
    upsets, restarts

cleaners == <<zset, heard, primary, sweep>>
worker   == <<cursor, batch, jobs>>
vars == <<now, allS3, disk, stores, download, cleaners, stream, worker, acted,
          leaked, upsets, restarts>>

Never == -1
Scores == 0 .. MaxTime
\* What a handler is for: a member, its stage, whether the batch awaits it.
Job == [m : Members, stage : {"unlink", "lookup", "clean", "act"},
        awaited : BOOLEAN]
NoJobs == [j \in Job |-> 0]
IdleSweep == [stage |-> "idle", todo |-> {}, taken |-> {}]
CleaningNeeded == ~allS3

TypeOK ==
    /\ now \in 0 .. MaxTime
    /\ allS3 \in BOOLEAN
    /\ disk \in [Paths -> {Never} \cup 0 .. MaxTime]
    /\ stores \in [Paths -> Nat]
    /\ download \in [Gids -> {"new", "open", "acked"}]
    /\ zset \in [Members -> {Never} \cup Scores]
    /\ heard \in [Cleaners -> Seq(Paths)]
    /\ primary \subseteq Cleaners
    /\ sweep \in [Cleaners -> [stage : {"idle", "delete", "between", "cancel"},
                               todo : SUBSET Members,
                               taken : SUBSET (Members \X Scores)]]
    /\ stream \in Seq(Members)
    /\ cursor \in 0 .. Len(stream)
    /\ batch \in {0} \cup cursor + 1 .. Len(stream)
    /\ jobs \in [Job -> Nat]
    /\ acted \in [Gids -> Nat]
    /\ leaked \subseteq Paths
    /\ upsets \in Nat /\ restarts \in Nat /\ upsets + restarts <= MaxFaults

Init ==
    /\ now = 0
    /\ allS3 \in BOOLEAN
    /\ disk = [p \in Paths |-> Never]
    /\ stores = [p \in Paths |-> 0]
    /\ download = [g \in Gids |-> "new"]
    /\ zset = [m \in Members |-> Never]
    /\ heard = [c \in Cleaners |-> <<>>]
    /\ primary = {}
    /\ sweep = [c \in Cleaners |-> IdleSweep]
    /\ stream = <<>> /\ cursor = 0 /\ batch = 0 /\ jobs = NoJobs
    /\ acted = [g \in Gids |-> 0]
    /\ leaked = {}
    /\ upsets = 0 /\ restarts = 0

Upset == upsets + restarts < MaxFaults /\ upsets' = upsets + 1

-----------------------------------------------------------------------------
(* The downloads of the worker                                             *)

Items == SumFunction(stores) + Cardinality({g \in Gids : download[g] # "new"})

Active(c) == c \in primary /\ CleaningNeeded

\* A completed download moves to its path, where a name that is taken would be
\* changed, and the worker publishes it.  S3 files have no local path.
Store(p) ==
    /\ ~allS3
    /\ disk[p] = Never
    /\ Items < MaxItems /\ now + Keep <= MaxTime
    /\ disk' = [disk EXCEPT ![p] = now]
    /\ stores' = [stores EXCEPT ![p] = @ + 1]
    /\ heard' = [c \in Cleaners |-> Append(heard[c], p)]
    /\ UNCHANGED <<now, allS3, download, zset, primary, sweep, stream, worker, acted,
                   leaked, upsets, restarts>>

\* A download starts and schedules its cancel ...
StartDownload(g) ==
    /\ Items < MaxItems /\ now + CancelAfter <= MaxTime
    /\ download[g] = "new"
    /\ download' = [download EXCEPT ![g] = "open"]
    /\ zset' = [zset EXCEPT ![g] = now + CancelAfter]
    /\ UNCHANGED <<now, allS3, disk, stores, heard, primary, sweep, stream, worker,
                   acted, leaked, upsets, restarts>>

\* ... and a notification of aria2 acknowledges it; a completion also takes its
\* cancel back, an error does not.
Notified(g) ==
    /\ download[g] = "open"
    /\ download' = [download EXCEPT ![g] = "acked"]
    /\ \/ zset' = [zset EXCEPT ![g] = Never]
       \/ UNCHANGED zset
    /\ UNCHANGED <<now, allS3, disk, stores, heard, primary, sweep, stream, worker,
                   acted, leaked, upsets, restarts>>

-----------------------------------------------------------------------------
(* The CLEANER                                                             *)

\* The election loop's answer; the first one, or one after all were silent, is
\* no upset.
Elect(c) ==
    /\ primary = {}
    /\ primary' = {c}
    /\ UNCHANGED <<now, allS3, disk, stores, download, zset, heard, sweep, stream,
                   worker, acted, leaked, upsets, restarts>>

\* A process takes over, loses the role, or believes it has it as well.
Unsettle(c) ==
    /\ Upset
    /\ \/ primary' = primary \cup {c}
       \/ primary' = primary \ {c}
    /\ UNCHANGED <<now, allS3, disk, stores, download, zset, heard, sweep, stream,
                   worker, acted, leaked, restarts>>

\* Mutation: the retention is not added.
MutDecideSchedule(p) == [zset EXCEPT ![p] = IF Keep > 0 THEN now ELSE @]

\* decideSchedule and its ZADD, which replaces the score of a member already
\* there; no retention keeps the file.
DecideSchedule(p) == [zset EXCEPT ![p] = IF Keep > 0 THEN now + Keep ELSE @]

\* The pmessage handler: a report is ignored unless the process is active.
Schedule(c) ==
    /\ heard[c] # <<>>
    /\ heard' = [heard EXCEPT ![c] = Tail(@)]
    /\ zset' = IF Active(c) THEN DecideSchedule(Head(heard[c])) ELSE zset
    /\ UNCHANGED <<now, allS3, disk, stores, download, primary, sweep, stream, worker,
                   acted, leaked, upsets, restarts>>

\* The connection was down when it was published, or the ZADD failed.
LoseReport(c) ==
    /\ Upset
    /\ heard[c] # <<>>
    /\ heard' = [heard EXCEPT ![c] = Tail(@)]
    /\ UNCHANGED <<now, allS3, disk, stores, download, zset, primary, sweep, stream,
                   worker, acted, leaked, restarts>>

\* ZRANGEBYSCORE 0 now
Due(S) == {m \in S : zset[m] # Never /\ zset[m] <= now}

\* Mutation: what is due leaves its set when it is read, before it is sent.
MutReadDue(c) ==
    LET s == sweep[c].stage
        job == IF s = "idle" /\ Due(Paths) # {} THEN Paths ELSE Gids
        due == Due(job)
        next == IF due = {} THEN "idle" ELSE IF job = Paths THEN "delete" ELSE "cancel"
    IN
    /\ \/ s = "idle" /\ Active(c)
       \/ s = "between"
    /\ sweep' = [sweep EXCEPT ![c] = [stage |-> next, todo |-> due, taken |-> {}]]
    /\ zset' = [m \in Members |-> IF m \in due THEN Never ELSE zset[m]]
    /\ UNCHANGED <<now, allS3, disk, stores, download, heard, primary, stream,
                   worker, acted, leaked, upsets, restarts>>

\* A tick looks at the role once, then does the files that are due, if any, and
\* after them the cancels.
ReadDue(c) ==
    LET s == sweep[c].stage
        job == IF s = "idle" /\ Due(Paths) # {} THEN Paths ELSE Gids
        due == Due(job)
        next == IF due = {} THEN "idle" ELSE IF job = Paths THEN "delete" ELSE "cancel"
    IN
    /\ \/ s = "idle" /\ Active(c)
       \/ s = "between"
    /\ sweep' = [sweep EXCEPT ![c] = [stage |-> next, todo |-> due,
                                     taken |-> {<<m, zset[m]>> : m \in due}]]
    /\ UNCHANGED <<now, allS3, disk, stores, download, zset, heard, primary, stream,
                   worker, acted, leaked, upsets, restarts>>

\* enqueueWorkerCommand, one member after the other
SendCommand(c, m) ==
    /\ m \in sweep[c].todo
    /\ sweep' = [sweep EXCEPT ![c].todo = @ \ {m}]
    /\ stream' = Append(stream, m)
    /\ UNCHANGED <<now, allS3, disk, stores, download, zset, heard, primary, worker,
                   acted, leaked, upsets, restarts>>

JobOver(c) == sweep' = [sweep EXCEPT ![c] =
                  [IdleSweep EXCEPT !.stage =
                      IF sweep[c].stage = "delete" THEN "between" ELSE "idle"]]

\* ZREM of every member read, one scheduled anew since then included.
RemoveSwept(c) ==
    LET taken == sweep[c].taken IN
    /\ sweep[c].stage \in {"delete", "cancel"}
    /\ sweep[c].todo = {}
    /\ JobOver(c)
    /\ zset' = [m \in Members |-> IF \E t \in taken : t[1] = m THEN Never ELSE zset[m]]
    /\ leaked' = leaked \cup {p \in Paths : \E t \in taken :
                                 t[1] = p /\ zset[p] \notin {Never, t[2]}}
    /\ UNCHANGED <<now, allS3, disk, stores, download, heard, primary, stream, worker,
                   acted, upsets, restarts>>

\* A command of the sweep fails: what was read stays, and is read again.
SweepFails(c) ==
    /\ Upset
    /\ sweep[c].stage \in {"delete", "cancel"}
    /\ JobOver(c)
    /\ UNCHANGED <<now, allS3, disk, stores, download, zset, heard, primary, stream,
                   worker, acted, leaked, restarts>>

CleanerCrash(c) ==
    /\ Upset
    /\ sweep' = [sweep EXCEPT ![c] = IdleSweep]
    /\ heard' = [heard EXCEPT ![c] = <<>>]
    /\ primary' = primary \ {c}
    /\ UNCHANGED <<now, allS3, disk, stores, download, zset, stream, worker, acted,
                   leaked, restarts>>

-----------------------------------------------------------------------------
(* The worker's command loop                                               *)

Settled == \A j \in Job : j.awaited => jobs[j] = 0
FirstStage(m) == IF m \in Paths THEN "unlink" ELSE "lookup"

\* XREAD of the entries after the cursor; all of them start at once.
PollCommands ==
    LET last == IF Len(stream) < cursor + BatchSize
                THEN Len(stream) ELSE cursor + BatchSize
        job(i) == [m |-> stream[i], stage |-> FirstStage(stream[i]), awaited |-> TRUE]
        started(j) == {i \in cursor + 1 .. last : job(i) = j}
    IN
    /\ batch = 0
    /\ last > cursor
    /\ batch' = last
    /\ jobs' = [j \in Job |-> jobs[j] + Cardinality(started(j))]
    /\ UNCHANGED <<now, allS3, disk, stores, download, cleaners, stream, cursor, acted,
                   leaked, upsets, restarts>>

Running(j) == jobs[j] > 0
Ends(j) == jobs' = [jobs EXCEPT ![j] = @ - 1]
Reaches(j, s) == jobs' = [jobs EXCEPT ![j] = @ - 1, ![[j EXCEPT !.stage = s]] = @ + 1]

\* A delete command; an unlink that fails is only warned of, and nobody tries
\* again.
Unlink(j) ==
    /\ Running(j) /\ j.stage = "unlink"
    /\ Ends(j)
    /\ \/ /\ disk' = [disk EXCEPT ![j.m] = Never]
          /\ UNCHANGED <<leaked, upsets>>
       \/ /\ Upset
          /\ leaked' = leaked \cup {j.m}
          /\ UNCHANGED disk
    /\ UNCHANGED <<now, allS3, stores, download, cleaners, stream, cursor, batch, acted,
                   restarts>>

\* startAck of a cancel command: the record, or nothing after three lookups ...
Lookup(j) ==
    /\ Running(j) /\ j.stage = "lookup"
    /\ IF download[j.m] = "open" THEN Reaches(j, "clean") ELSE Ends(j)
    /\ UNCHANGED <<now, allS3, disk, stores, download, cleaners, stream, cursor, batch,
                   acted, leaked, upsets, restarts>>

\* Mutation: the record is left for whoever asks next.
MutClean(j) ==
    /\ Running(j) /\ j.stage = "clean"
    /\ Reaches(j, "act")
    /\ acted' = [acted EXCEPT ![j.m] = @ + 1]
    /\ UNCHANGED <<now, allS3, disk, stores, download, cleaners, stream, cursor, batch,
                   leaked, upsets, restarts>>

\* ... its deletion, and the retry decision that is awaited with its delays.
Clean(j) ==
    /\ Running(j) /\ j.stage = "clean"
    /\ download' = [download EXCEPT ![j.m] = "acked"]
    /\ Reaches(j, "act")
    /\ acted' = [acted EXCEPT ![j.m] = @ + 1]
    /\ UNCHANGED <<now, allS3, disk, stores, cleaners, stream, cursor, batch, leaked,
                   upsets, restarts>>

RetryDecided(j) ==
    /\ Running(j) /\ j.stage = "act"
    /\ Ends(j)
    /\ UNCHANGED <<now, allS3, disk, stores, download, cleaners, stream, cursor, batch,
                   acted, leaked, upsets, restarts>>

\* Mutation: the cursor stays where it was before the trim.
MutTrim ==
    /\ batch # 0
    /\ Settled
    /\ stream' = SubSeq(stream, batch, Len(stream))
    /\ cursor' = batch
    /\ batch' = 0
    /\ UNCHANGED <<now, allS3, disk, stores, download, cleaners, jobs, acted, leaked,
                   upsets, restarts>>

\* Everything awaited is done: XTRIM MINID keeps the last entry of the batch.
Trim ==
    /\ batch # 0
    /\ Settled
    /\ stream' = SubSeq(stream, batch, Len(stream))
    /\ cursor' = 1
    /\ batch' = 0
    /\ UNCHANGED <<now, allS3, disk, stores, download, cleaners, jobs, acted, leaked,
                   upsets, restarts>>

\* A handler rejects, or the trim does: the batch is read again from the same
\* cursor, while what it started goes on unawaited.
Orphaned(running) ==
    [j \in Job |-> IF j.awaited THEN 0
                   ELSE running[j] + running[[j EXCEPT !.awaited = TRUE]]]
BatchFails ==
    /\ Upset
    /\ batch # 0
    /\ batch' = 0
    /\ \/ Settled /\ UNCHANGED jobs
       \/ \E j \in Job :
             /\ Running(j) /\ j.awaited /\ j.stage \in {"lookup", "act"}
             /\ jobs' = Orphaned([jobs EXCEPT ![j] = @ - 1])
    /\ UNCHANGED <<now, allS3, disk, stores, download, cleaners, stream, cursor, acted,
                   leaked, restarts>>

\* The worker starts again, its cursor at '0-0': what was not trimmed, the last
\* command it carried out included, is read again.
Restart ==
    /\ upsets + restarts < MaxFaults
    /\ restarts' = restarts + 1
    /\ cursor' = 0 /\ batch' = 0 /\ jobs' = NoJobs
    /\ UNCHANGED <<now, allS3, disk, stores, download, cleaners, stream, acted, leaked,
                   upsets>>

\* A unit of time, in which every published message arrives.
Tick ==
    /\ now < MaxTime
    /\ \A c \in Cleaners : heard[c] = <<>>
    /\ now' = now + 1
    /\ UNCHANGED <<allS3, disk, stores, download, cleaners, stream, worker, acted,
                   leaked, upsets, restarts>>

-----------------------------------------------------------------------------
Sweep(c) == ReadDue(c) \/ RemoveSwept(c) \/ \E m \in Members : SendCommand(c, m)
Handle(j) == Unlink(j) \/ Lookup(j) \/ Clean(j) \/ RetryDecided(j)
Work == PollCommands \/ Trim \/ \E j \in Job : Handle(j)

Next ==
    \/ Tick \/ Work \/ BatchFails \/ Restart
    \/ \E p \in Paths : Store(p)
    \/ \E g \in Gids : StartDownload(g) \/ Notified(g)
    \/ \E c \in Cleaners :
          \/ Elect(c) \/ Unsettle(c) \/ Sweep(c) \/ SweepFails(c) \/ CleanerCrash(c)
          \/ Schedule(c) \/ LoseReport(c)

Spec == Init /\ [][Next]_vars

\* Time passes, some process is elected, and the timers of the processes run.
FairSpec ==
    /\ Spec
    /\ WF_vars(Tick) /\ WF_vars(\E c \in Cleaners : Elect(c)) /\ WF_vars(Work)
    /\ \A c \in Cleaners :
          WF_vars(Sweep(c)) /\ WF_vars(Schedule(c))

-----------------------------------------------------------------------------
(* Properties                                                              *)

Exists(p) == disk[p] # Never

\* A file is not deleted before its retention is over (README.md on CLEANER):
\* neither a sweep that overlaps another, nor a command sent or read twice
\* reaches a file early -- except the second file of a path, which a repeated
\* command for the first one does reach once something failed.
RetentionIsKept ==
    [][\A p \in Paths : Exists(p) /\ disk'[p] = Never =>
          \/ now >= disk[p] + Keep
          \/ stores[p] > 1 /\ upsets + restarts > 0]_vars

\* However often the worker restarts and reads its last command again, the
\* cancel of a download starts one retry decision; only an upset of the CLEANER
\* or of Redis, which can put the command twice into one batch, makes it two.
CancelActsOnce == upsets = 0 => \A g \in Gids : acted[g] <= 1

\* A file whose deletion is scheduled goes in the end, whatever is upset or
\* restarted on the way, unless a sweep removed a newer schedule of its path
\* with the old one, or the file system refused.
Scheduled(p) == Exists(p) /\ zset[p] >= disk[p] + Keep
ScheduledIsDeleted ==
    \A p \in Paths : Scheduled(p) ~> ~Exists(p) \/ p \in leaked

\* The net below every download that was started: aria2 or the cancel of the
\* CLEANER has it acknowledged, as long as some worker keeps its files on disk.
\* (Without one nobody sweeps, and a download aria2 forgot is never cancelled.)
Acknowledged == \A g \in Gids : zset[g] # Never ~> download[g] = "acked"
NetHoldsForLocalFiles == allS3 \/ Acknowledged
===============================================================================
