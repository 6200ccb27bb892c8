------------------------------- MODULE Reporter -------------------------------
(***************************************************************************)
(* The outcome lines of wis2hauler's REPORTER for one accepted             *)
(* notification: what the DOWNLOADER publishes about it, the expiry of its *)
(* deadline marker, and the processes that turn both into lines while they *)
(* are primary.  Files: src/reporter/run.ts, cache-result.ts, expiry.ts.   *)
(*                                                                         *)
(* The DOWNLOADER appears by the order of its steps only (module           *)
(* Downloader): recorded complete, marker deleted, published; or marker    *)
(* deleted, published failed.  Who is primary is module Election's.        *)
(***************************************************************************)
EXTENDS Integers, Sequences, Functions

CONSTANTS
    Reporters,    \* REPORTER processes
    MaxSwitches,  \* bounds: changes of the primary,
    MaxLosses     \* lost messages and failed commands

ASSUME ReporterAssumption == MaxSwitches \in Nat /\ MaxLosses \in Nat

VARIABLES
    stage,      \* the DOWNLOADER's handling of the notification
    overdue,    \* more than the deadline since it was accepted
    late,       \* what its report will say: stored after the deadline
    marker,     \* "set", "deleted" or "expired"
    record,     \* the record: "open", or "complete", "in time" if with the marker set
    primary,    \* processes whose state.primary is true
    messages,   \* per process, what its subscription has not delivered yet
    expiry,     \* per process, the expired event: "none", "sent", "reading", "over"
    seen,       \* what the record it read said: complete or not
    lines,      \* the outcome lines, of all processes, in order of time
    switches, losses

download == <<stage, overdue, late, marker, record>>
logging  == <<messages, expiry, seen, lines>>
vars     == <<download, primary, logging, switches, losses>>

Working  == {"loading", "verified", "complete", "unmarked", "exhausted"}
Final    == {"stored", "failed", "abandoned", "stopped"}
Statuses == {"cached", "late", "failed", "missed"}

TypeOK ==
    /\ stage \in Working \cup Final
    /\ overdue \in BOOLEAN /\ late \in BOOLEAN
    /\ marker \in {"set", "deleted", "expired"}
    /\ record \in {"open", "complete", "in time"}
    /\ primary \subseteq Reporters
    /\ messages \in [Reporters -> Seq({"cached", "late", "failed"})]
    /\ \A r \in Reporters : Len(messages[r]) <= 1
    /\ expiry \in [Reporters -> {"none", "sent", "reading", "over"}]
    /\ seen \in [Reporters -> BOOLEAN]
    /\ lines \in Seq(Statuses)
    /\ switches \in 0 .. MaxSwitches
    /\ losses \in 0 .. MaxLosses

\* Accepted: the marker is set.  One process is primary.
Init ==
    /\ stage = "loading"
    /\ overdue = FALSE /\ late = FALSE
    /\ marker = "set" /\ record = "open"
    /\ \E r \in Reporters : primary = {r}
    /\ messages = [r \in Reporters |-> <<>>]
    /\ expiry = [r \in Reporters |-> "none"]
    /\ seen = [r \in Reporters |-> FALSE]
    /\ lines = <<>>
    /\ switches = 0
    /\ losses = 0

-----------------------------------------------------------------------------
(* The DOWNLOADER and Redis                                                *)

DeadlinePasses ==
    /\ ~overdue
    /\ overdue' = TRUE
    /\ UNCHANGED <<stage, late, marker, record, primary, logging, switches, losses>>

\* The time of storing is taken, then the record says complete.
Verify ==
    /\ stage = "loading"
    /\ stage' = "verified"
    /\ late' = overdue
    /\ UNCHANGED <<overdue, marker, record, primary, logging, switches, losses>>

RecordComplete ==
    /\ stage = "verified"
    /\ stage' = "complete"
    /\ record' = IF marker = "set" THEN "in time" ELSE "complete"
    /\ UNCHANGED <<overdue, late, marker, primary, logging, switches, losses>>

Unmarked == IF marker = "set" THEN "deleted" ELSE marker

\* Mutation: the report is published on two channels of the pattern.
MutPublish(m) == messages' = [r \in Reporters |-> Append(Append(messages[r], m), m)]

Publish(m) == messages' = [r \in Reporters |-> Append(messages[r], m)]

DeleteMarker ==
    /\ \/ stage = "complete" /\ stage' = "unmarked"
       \/ stage = "loading" /\ stage' = "exhausted"
    /\ marker' = Unmarked
    /\ UNCHANGED <<overdue, late, record, primary, logging, switches, losses>>

PublishReport ==
    /\ \/ /\ stage = "unmarked" /\ stage' = "stored"
          /\ Publish(IF late THEN "late" ELSE "cached")
       \/ /\ stage = "exhausted" /\ stage' = "failed"
          /\ Publish("failed")
    /\ UNCHANGED <<overdue, late, marker, record, primary, expiry, seen, lines, switches, losses>>

\* A FAIL outcome is not retried and reported by nobody.
Abandon ==
    /\ stage = "loading"
    /\ stage' = "abandoned"
    /\ UNCHANGED <<overdue, late, marker, record, primary, logging, switches, losses>>

\* Every process listens to the expired events of Redis.
MarkerExpires ==
    /\ marker = "set" /\ overdue
    /\ marker' = "expired"
    /\ expiry' = [r \in Reporters |-> "sent"]
    /\ UNCHANGED <<stage, overdue, late, record, primary, messages, seen, lines, switches,
                   losses>>

-----------------------------------------------------------------------------
(* A REPORTER process                                                      *)

\* onResult of its election poll.
Elect(r) ==
    /\ switches < MaxSwitches
    /\ switches' = switches + 1
    /\ primary' = IF r \in primary THEN primary \ {r} ELSE primary \cup {r}
    /\ UNCHANGED <<download, logging, losses>>

\* Mutation: a secondary writes lines too.
MutOnReport(r) ==
    /\ messages[r] # <<>>
    /\ messages' = [messages EXCEPT ![r] = Tail(@)]
    /\ lines' = Append(lines, Head(messages[r]))
    /\ UNCHANGED <<download, primary, expiry, seen, switches, losses>>

\* pmessage on the report channel: one line, if primary.
OnReport(r) ==
    /\ messages[r] # <<>>
    /\ messages' = [messages EXCEPT ![r] = Tail(@)]
    /\ lines' = IF r \in primary THEN Append(lines, Head(messages[r])) ELSE lines
    /\ UNCHANGED <<download, primary, expiry, seen, switches, losses>>

\* Mutation: any state of a link counts as complete.
MutOnExpired(r) ==
    /\ expiry[r] = "sent"
    /\ expiry' = [expiry EXCEPT ![r] = IF r \in primary THEN "reading" ELSE "over"]
    /\ seen' = [seen EXCEPT ![r] = r \in primary]
    /\ UNCHANGED <<download, primary, messages, lines, switches, losses>>

\* pmessage on the expired channel: the record is read, if primary.
OnExpired(r) ==
    /\ expiry[r] = "sent"
    /\ expiry' = [expiry EXCEPT ![r] = IF r \in primary THEN "reading" ELSE "over"]
    /\ seen' = [seen EXCEPT ![r] = r \in primary /\ record # "open"]
    /\ UNCHANGED <<download, primary, messages, lines, switches, losses>>

\* Mutation: the record is not looked at.
MutLogMissed(r) ==
    /\ expiry[r] = "reading"
    /\ expiry' = [expiry EXCEPT ![r] = "over"]
    /\ lines' = Append(lines, "missed")
    /\ UNCHANGED <<download, primary, messages, seen, switches, losses>>

\* The record has arrived: "missed" unless a link of it was complete.
LogMissed(r) ==
    /\ expiry[r] = "reading"
    /\ expiry' = [expiry EXCEPT ![r] = "over"]
    /\ lines' = IF seen[r] THEN lines ELSE Append(lines, "missed")
    /\ UNCHANGED <<download, primary, messages, seen, switches, losses>>

\* Nothing is delivered again: a subscription that is down misses its message, a
\* worker that stops goes no further, a read that fails is only logged.
Loss ==
    /\ losses < MaxLosses
    /\ losses' = losses + 1
    /\ \/ \E r \in Reporters :
             /\ messages[r] # <<>>
             /\ messages' = [messages EXCEPT ![r] = <<>>]
             /\ UNCHANGED <<stage, expiry>>
       \/ \E r \in Reporters :
             /\ expiry[r] \in {"sent", "reading"}
             /\ expiry' = [expiry EXCEPT ![r] = "over"]
             /\ UNCHANGED <<stage, messages>>
       \/ /\ stage \in Working
          /\ stage' = "stopped"
          /\ UNCHANGED <<messages, expiry>>
    /\ UNCHANGED <<overdue, late, marker, record, primary, seen, lines, switches>>

-----------------------------------------------------------------------------
Download == Verify \/ RecordComplete \/ DeleteMarker \/ PublishReport
Report(r) == OnReport(r) \/ OnExpired(r) \/ LogMissed(r)

Next ==
    \/ DeadlinePasses \/ MarkerExpires \/ Download \/ Abandon \/ Loss
    \/ \E r \in Reporters : Elect(r) \/ Report(r)

Spec == Init /\ [][Next]_vars

\* Time passes, Redis expires the marker, handlers that have begun go on.  The
\* DOWNLOADER carries through what it has verified or given up, no more.
FairSpec ==
    /\ Spec
    /\ WF_vars(DeadlinePasses) /\ WF_vars(MarkerExpires)
    /\ WF_vars(stage # "loading" /\ Download)
    /\ \A r \in Reporters : WF_vars(Report(r))

-----------------------------------------------------------------------------
(* Properties                                                              *)

\* While the primary does not change, no outcome is written twice, however many
\* processes hear of it.
NoLineTwice == switches = 0 => IsInjective(lines)

\* A notification recorded complete while its marker stood is never reported
\* missed, even if the marker outlives the worker that should have deleted it: a
\* lost report or a change of primary leaves a gap, and makes no false alarm.
CompleteIsNotMissed == record = "in time" => "missed" \notin Range(lines)

\* With one primary and nothing lost, every accepted notification gets a line.
EveryOneAnswered == <>(lines # <<>> \/ switches > 0 \/ losses > 0)
===============================================================================
