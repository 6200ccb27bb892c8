----------------------------- MODULE StatsWindows -----------------------------
(***************************************************************************)
(* The download statistics of wis2hauler's REPORTER: the primary writes    *)
(* every completion it hears of into the statistics window of the moment,  *)
(* and every process reads a window when it is over and adds it to the     *)
(* counters it serves.  Files: src/reporter/run.ts, window.ts, stats.ts,   *)
(* metrics.ts, and src/redis/ioredis-reporter-store.ts.                    *)
(*                                                                         *)
(* Windows are numbered in the order of time.  The completions here have   *)
(* centres, topics and sources of their own: a key of Redis, and a counter *)
(* of Prometheus, stands for one of them.                                  *)
(***************************************************************************)
EXTENDS Integers

CONSTANTS
    Reporters,    \* REPORTER processes
    Reports,      \* completions the DOWNLOADER reports
    MaxWindow,    \* bounds: the last window,
    MaxSwitches   \* changes of the primary

ASSUME StatsAssumption == MaxWindow \in Nat /\ MaxSwitches \in Nat

VARIABLES
    clock,      \* the window the wall clock is in
    primary,    \* processes whose state.primary is true
    heard,      \* per process, the reports its subscription has delivered
    window,     \* per process, currentWindowKey, NoWindow for null
    due,        \* per process: its timer has to fire for the last boundary
    tick,       \* per process: "asleep", "combos" (about to scan them), "details"
    reading,    \* the window its last tick was meant to read
    found,      \* the combo keys of that window its first scan returned
    writing,    \* per process, the window each of its writes under way goes to
    stats,      \* the hashes in Redis: how often each report is in each window
    number,     \* the counters by topic, per process
    source,     \* the counters by source
    faults,     \* what has gone wrong: see Faults
    switches

loop == <<window, due, tick, reading, found>>
counters == <<number, source>>
vars == <<clock, primary, heard, loop, writing, stats, counters, faults, switches>>

Windows  == 0 .. MaxWindow
NoWindow == -1

\* A timer fires before its boundary; a process stalls across a boundary; a read
\* fails.  Each at most once.
Faults == {"early", "stall", "failed read"}

Asleep(r) == tick[r] = "asleep"

TypeOK ==
    /\ clock \in Windows
    /\ primary \subseteq Reporters
    /\ heard \in [Reporters -> SUBSET Reports]
    /\ window \in [Reporters -> Windows \cup {NoWindow}]
    /\ due \in [Reporters -> BOOLEAN]
    /\ tick \in [Reporters -> {"asleep", "combos", "details"}]
    /\ reading \in [Reporters -> Windows \cup {NoWindow}]
    /\ \A r \in Reporters : reading[r] < clock
    /\ found \in [Reporters -> SUBSET Reports]
    /\ writing \in [Reporters -> [Reports -> Windows \cup {NoWindow}]]
    /\ stats \in [Windows -> [Reports -> Nat]]
    /\ number \in [Reporters -> [Reports -> Nat]]
    /\ source \in [Reporters -> [Reports -> Nat]]
    /\ faults \subseteq Faults
    /\ switches \in 0 .. MaxSwitches

\* A process that has just started waits for its first boundary.
Init ==
    /\ clock = 0
    /\ \E r \in Reporters : primary = {r}
    /\ heard = [r \in Reporters |-> {}]
    /\ window \in [Reporters -> {NoWindow, 0}]
    /\ due = [r \in Reporters |-> FALSE]
    /\ tick = [r \in Reporters |-> "asleep"]
    /\ reading = [r \in Reporters |-> NoWindow]
    /\ found = [r \in Reporters |-> {}]
    /\ writing = [r \in Reporters |-> [m \in Reports |-> NoWindow]]
    /\ stats = [w \in Windows |-> [m \in Reports |-> 0]]
    /\ number = [r \in Reporters |-> [m \in Reports |-> 0]]
    /\ source = [r \in Reporters |-> [m \in Reports |-> 0]]
    /\ faults = {}
    /\ switches = 0

-----------------------------------------------------------------------------
(* Writing                                                                 *)

\* onResult of the election poll
Elect(r) ==
    /\ switches < MaxSwitches
    /\ switches' = switches + 1
    /\ primary' = IF r \in primary THEN primary \ {r} ELSE primary \cup {r}
    /\ UNCHANGED <<clock, heard, loop, writing, stats, counters, faults>>

\* pmessage: a primary that has seen a boundary writes to the window it knows of.
OnReport(r, m) ==
    /\ m \notin heard[r]
    /\ heard' = [heard EXCEPT ![r] = @ \cup {m}]
    /\ writing' = IF r \in primary THEN [writing EXCEPT ![r][m] = window[r]] ELSE writing
    /\ UNCHANGED <<clock, primary, loop, stats, counters, faults, switches>>

\* writeStatsWindow: MULTI/EXEC, the combo and the source key together
WriteStatsWindow(r, m) ==
    /\ writing[r][m] # NoWindow
    /\ stats' = [stats EXCEPT ![writing[r][m]][m] = @ + 1]
    /\ writing' = [writing EXCEPT ![r][m] = NoWindow]
    /\ UNCHANGED <<clock, primary, heard, loop, counters, faults, switches>>

-----------------------------------------------------------------------------
(* The loop of a process                                                   *)

Fault(f) == f \notin faults /\ faults' = faults \cup {f}

\* A boundary: 30 seconds are ample for a tick, unless the process stalls.
NextWindow ==
    /\ clock < MaxWindow
    /\ clock' = clock + 1
    /\ due' = [r \in Reporters |-> due[r] \/ Asleep(r)]
    /\ \/ (\A r \in Reporters : Asleep(r) /\ ~due[r]) /\ UNCHANGED faults
       \/ (\E r \in Reporters : ~Asleep(r) \/ due[r]) /\ Fault("stall")
    /\ UNCHANGED <<primary, heard, window, tick, reading, found, writing, stats,
                   counters, switches>>

\* Mutation: the window that begins is read.
MutTick(r) ==
    /\ Asleep(r)
    /\ due[r] /\ UNCHANGED faults
    /\ due' = [due EXCEPT ![r] = FALSE]
    /\ window' = [window EXCEPT ![r] = clock]
    /\ tick' = [tick EXCEPT ![r] = "combos"]
    /\ reading' = [reading EXCEPT ![r] = clock]
    /\ UNCHANGED <<clock, primary, heard, found, writing, stats, counters, switches>>

\* Mutation: the loop waits for the boundary that has just passed.
MutTickAgain(r) ==
    /\ Asleep(r)
    /\ due[r] /\ UNCHANGED faults
    /\ window' = [window EXCEPT ![r] = clock]
    /\ tick' = [tick EXCEPT ![r] = "combos"]
    /\ reading' = [reading EXCEPT ![r] = clock - 1]
    /\ UNCHANGED <<clock, primary, heard, due, found, writing, stats, counters, switches>>

\* The timer fires, at its boundary or a little before the next: the window of
\* the moment becomes the current one, and the one before that is to be read.
Tick(r) ==
    /\ Asleep(r)
    /\ \/ due[r] /\ UNCHANGED faults
       \/ ~due[r] /\ clock > 0 /\ Fault("early")
    /\ due' = [due EXCEPT ![r] = FALSE]
    /\ window' = [window EXCEPT ![r] = clock]
    /\ tick' = [tick EXCEPT ![r] = "combos"]
    /\ reading' = [reading EXCEPT ![r] = clock - 1]
    /\ UNCHANGED <<clock, primary, heard, found, writing, stats, counters, switches>>

Keys(w) == {m \in Reports : stats[w][m] > 0}

\* readWindowStats, the scan for combo keys
ScanCombos(r) ==
    /\ tick[r] = "combos"
    /\ tick' = [tick EXCEPT ![r] = "details"]
    /\ found' = [found EXCEPT ![r] = Keys(reading[r])]
    /\ UNCHANGED <<clock, primary, heard, window, due, reading, writing, stats, counters,
                   faults, switches>>

\* readWindowStats: the hashes of some keys of a window
Hashes(w, keys) == [m \in Reports |-> IF m \in keys THEN stats[w][m] ELSE 0]

\* aggregateMetrics and applyCounterOp
Add(counter, r, counts) ==
    [counter EXCEPT ![r] = [m \in Reports |-> @[m] + counts[m]]]

\* Mutation: the sources are scanned before the combos.
MutReadDetails(r) ==
    /\ tick[r] = "details"
    /\ tick' = [tick EXCEPT ![r] = "asleep"]
    /\ found' = [found EXCEPT ![r] = {}]
    /\ number' = Add(number, r, Hashes(reading[r], Keys(reading[r])))
    /\ source' = Add(source, r, Hashes(reading[r], found[r]))
    /\ UNCHANGED <<clock, primary, heard, window, due, reading, writing, stats, faults,
                   switches>>

\* The scan for source keys, every key's hash, and the counters of the process.
ReadDetails(r) ==
    /\ tick[r] = "details"
    /\ tick' = [tick EXCEPT ![r] = "asleep"]
    /\ found' = [found EXCEPT ![r] = {}]
    /\ number' = Add(number, r, Hashes(reading[r], found[r]))
    /\ source' = Add(source, r, Hashes(reading[r], Keys(reading[r])))
    /\ UNCHANGED <<clock, primary, heard, window, due, reading, writing, stats, faults,
                   switches>>

\* A read that fails is logged, and its window left out.
ReadFails(r) ==
    /\ ~Asleep(r)
    /\ Fault("failed read")
    /\ tick' = [tick EXCEPT ![r] = "asleep"]
    /\ found' = [found EXCEPT ![r] = {}]
    /\ UNCHANGED <<clock, primary, heard, window, due, reading, writing, stats, counters,
                   switches>>

-----------------------------------------------------------------------------
Loop(r) == Tick(r) \/ ScanCombos(r) \/ ReadDetails(r) \/ ReadFails(r)

Next ==
    \/ NextWindow
    \/ \E r \in Reporters :
          \/ Elect(r) \/ Loop(r)
          \/ \E m \in Reports : OnReport(r, m) \/ WriteStatsWindow(r, m)

Spec == Init /\ [][Next]_vars

\* Time passes and the loops go on; nothing has to be reported or written.
FairSpec ==
    /\ Spec
    /\ WF_vars(NextWindow)
    /\ \A r \in Reporters : WF_vars(Loop(r))

-----------------------------------------------------------------------------
(* Properties                                                              *)

\* What a function of the windows sums up to, window by window.
SumUpTo(f) ==
    LET sum[w \in Windows] == f[w] + IF w = 0 THEN 0 ELSE sum[w - 1] IN sum

\* How often a completion was written, in whatever windows
WrittenUpTo(m) == SumUpTo([w \in Windows |-> stats[w][m]])
Written(m) == WrittenUpTo(m)[MaxWindow]

\* No process counts a completion more often than it was written, as long as no
\* timer fires early: late timers, stalls and overlapping primaries lose windows
\* or write twice, and make no process read a window twice.
NothingCountedTwice ==
    "early" \notin faults =>
        \A r \in Reporters, m \in Reports : number[r][m] <= Written(m)

\* What the counters by topic have, the counters by source have too, also when a
\* write lands between the scans.
SourcesKeepUp == \A r \in Reporters, m \in Reports : number[r][m] <= source[r][m]

\* A completion written while its window lasted is counted by every process,
\* the primary or not, unless one stalled or failed to read.  (The last window of
\* the bound does not end.)
InTime(m) == clock < MaxWindow /\ stats[clock][m] > 0
InTimeIsCounted ==
    \A r \in Reporters, m \in Reports :
        InTime(m) ~> number[r][m] > 0 \/ faults \cap {"stall", "failed read"} # {}
===============================================================================
