------------------------------ MODULE Downloader ------------------------------
(***************************************************************************)
(* One DOWNLOADER worker of wis2hauler with its aria2: the work-queue      *)
(* loop, the start of a download, the acknowledgement that any of three    *)
(* triggers may run (an aria2 notification, the embedded-content path, a   *)
(* cancel command of the CLEANER), completion, finishing, and the delayed  *)
(* retry decision.  Files: src/downloader/*.ts.                            *)
(*                                                                         *)
(* A job belongs to the worker that read it, so one worker is enough; the  *)
(* SUBSCRIBER appears as Accept and Copy, the CLEANER as CancelDue.        *)
(* A download attempt is a number g: its stream id, then its aria2 gid.    *)
(***************************************************************************)
EXTENDS DownloadRecord, Sequences, FiniteSets, SequencesExt

CONSTANTS
    Contents,     \* downloader_id values
    Embedded,     \* those whose notification carries the data inline
    AriaInQueue,  \* downloader.aria-inqueue
    BatchSize,    \* COUNT of XREADGROUP (30 in the code)
    JobLink,      \* the link of each content's notification that wins the claim
    MaxStarts,    \* bounds: download attempts,
    MaxCopies,    \* copies that lost the claim,
    MaxFaults     \* rejected commands and crashes

ASSUME DownloaderAssumption ==
    /\ Contents # {} /\ Embedded \subseteq Contents
    /\ AriaInQueue \in Nat \ {0} /\ BatchSize \in Nat \ {0}
    /\ JobLink \in [Contents -> Hrefs]
    /\ MaxStarts \in Nat /\ MaxCopies \in Nat /\ MaxFaults \in Nat

VARIABLES
    queue,      \* work queue entries no consumer of the group has read
    unacked,    \* entries delivered and not yet acknowledged
    fields,     \* link fields of each downloader_id hash
    attempt,    \* its attempt field
    jobHref,    \* the link of the stored notification, NoHref before
    marker,     \* cacheMarkerKey present
    completed,  \* downloaderCompleteKey present
    reports,    \* what was published to the REPORTER: stored, failed
    missed,     \* contents whose marker expired
    copies,     \* copies written so far
    inFlight,   \* InFlightCounter
    start,      \* each attempt: content, link, whether a queue entry, phase
    aria,       \* what aria2 does with it
    event,      \* its websocket notification is on the way
    gidRec,     \* aria2_gid record present
    cancel,     \* cleaner cancel: "scheduled" in the ZSET, "sent" as a command
    pc,         \* where each handler is: <<g, trigger>>
    awaited,    \* gids of the cancel commands the command loop waits for
    decision,   \* the retry a handler is waiting to carry out
    faults

job     == <<fields, attempt, jobHref, marker, completed, reports, missed, copies>>
attempts == <<start, aria, event, gidRec, cancel>>
handlers == <<pc, awaited, decision>>
vars    == <<queue, unacked, job, inFlight, attempts, handlers, faults>>

Gids == 1 .. MaxStarts
Triggers == {"notify", "cancel"}
Handlers == Gids \X Triggers
ContentOf(k) == start[k[1]].content

Starting == {"new", "promote", "schedule", "decode"}
Phases == {"free", "up", "dead"} \cup Starting
Attempt == [content : Contents, href : Hrefs \cup {NoHref}, entry : BOOLEAN, phase : Phases]
NoStart == [content |-> CHOOSE c \in Contents : TRUE, href |-> NoHref,
            entry |-> FALSE, phase |-> "free"]
NoDecision == [kind |-> "RETRY_NONEED", promote |-> NoHref, failed |-> NoHref,
               newAttempt |-> 0]

Acking     == {"lookup", "clean"}
Completing == {"read", "hash", "gate", "unmark", "flag", "report"}
Retrying   == {"tally", "sleep", "delay", "transition", "nok-unmark", "nok-report"}
Active     == Acking \cup Completing \cup Retrying
Ended      == {"idle", "ignored", "abandoned", "dead", "done"}

TypeOK ==
    /\ queue \in Seq(Contents)
    /\ unacked \subseteq Contents
    /\ fields \in [Contents -> Fields]
    /\ attempt \in [Contents -> 0 .. AttemptLimit + 1]
    /\ jobHref \in [Contents -> Hrefs \cup {NoHref}]
    /\ marker \in [Contents -> BOOLEAN]
    /\ completed \in [Contents -> BOOLEAN]
    /\ reports \in [Contents -> SUBSET {"stored", "failed"}]
    /\ missed \subseteq Contents
    /\ copies \in 0 .. MaxCopies
    /\ inFlight \in 0 .. AriaInQueue + BatchSize - 1
    /\ start \in [Gids -> Attempt]
    /\ aria \in [Gids -> {"none", "running", "complete", "error"}]
    /\ event \in [Gids -> BOOLEAN]
    /\ gidRec \in [Gids -> BOOLEAN]
    /\ cancel \in [Gids -> {"none", "scheduled", "sent"}]
    /\ pc \in [Handlers -> Active \cup Ended]
    /\ awaited \subseteq Gids
    /\ decision \in [Handlers -> Decision]
    /\ faults \in 0 .. MaxFaults

Init ==
    /\ queue = <<>> /\ unacked = {}
    /\ fields = [c \in Contents |-> EmptyFields]
    /\ attempt = [c \in Contents |-> 0]
    /\ jobHref = [c \in Contents |-> NoHref]
    /\ marker = [c \in Contents |-> FALSE]
    /\ completed = [c \in Contents |-> FALSE]
    /\ reports = [c \in Contents |-> {}]
    /\ missed = {}
    /\ copies = 0
    /\ inFlight = 0
    /\ start = [g \in Gids |-> NoStart]
    /\ aria = [g \in Gids |-> "none"]
    /\ event = [g \in Gids |-> FALSE]
    /\ gidRec = [g \in Gids |-> FALSE]
    /\ cancel = [g \in Gids |-> "none"]
    /\ pc = [k \in Handlers |-> "idle"]
    /\ awaited = {}
    /\ decision = [k \in Handlers |-> NoDecision]
    /\ faults = 0

-----------------------------------------------------------------------------
(* The SUBSCRIBER's part of the record                                     *)

\* The winner of the claim: marker, record and work-queue entry.
Accept(c) ==
    LET h == JobLink[c] IN
    /\ jobHref[c] = NoHref
    /\ jobHref' = [jobHref EXCEPT ![c] = h]
    /\ fields' = [fields EXCEPT ![c][h] = "queue"]
    /\ attempt' = [attempt EXCEPT ![c] = 1]
    /\ marker' = [marker EXCEPT ![c] = TRUE]
    /\ queue' = Append(queue, c)
    /\ UNCHANGED <<unacked, completed, reports, missed, copies, inFlight, attempts, handlers,
                   faults>>

\* A copy that lost the claim: HSET of "wait" into its link, whatever the link
\* holds by then -- the winner's own link is one it may have, and its check for
\* completeness may be long ago.
Copy(c, h) ==
    /\ jobHref[c] # NoHref
    /\ fields[c][h] # "wait"
    /\ fields' = [fields EXCEPT ![c][h] = "wait"]
    /\ copies < MaxCopies
    /\ copies' = copies + 1
    /\ UNCHANGED <<queue, unacked, attempt, jobHref, marker, completed, reports,
                   missed, inFlight, attempts, handlers, faults>>

MarkerExpires(c) ==
    /\ marker[c]
    /\ marker' = [marker EXCEPT ![c] = FALSE]
    /\ missed' = missed \cup {c}
    /\ UNCHANGED <<queue, unacked, fields, attempt, jobHref, completed, reports,
                   copies, inFlight, attempts, handlers, faults>>

-----------------------------------------------------------------------------
(* The work-queue loop and the start of a download                         *)

Free == {g \in Gids : start[g].phase = "free"}

\* The loop awaits its whole batch: nothing is read while an entry is starting,
\* or while embedded data is being completed.
BatchSettled ==
    \A g \in Gids :
        start[g].entry =>
            /\ start[g].phase \notin Starting
            /\ start[g].content \in Embedded /\ aria[g] = "none"
                   => pc[<<g, "notify">>] \notin Active

\* Mutation: the in-flight limit is not looked at.
MutPollOnce ==
    LET used == MaxStarts - Cardinality(Free) IN
    /\ queue # <<>>
    /\ BatchSettled
    /\ Free # {}
    /\ start' = [start EXCEPT ![used + 1] =
                    [content |-> queue[1], href |-> jobHref[queue[1]], entry |-> TRUE,
                     phase |-> IF queue[1] \in Embedded THEN "decode" ELSE "new"]]
    /\ queue' = Tail(queue)
    /\ unacked' = unacked \cup {queue[1]}
    /\ inFlight' = inFlight + 1
    /\ UNCHANGED <<job, aria, event, gidRec, cancel, handlers, faults>>

\* XREADGROUP COUNT, and one start per entry on the next free attempts.
PollOnce ==
    LET n == IF Len(queue) < BatchSize THEN Len(queue) ELSE BatchSize
        used == MaxStarts - Cardinality(Free)
    IN
    /\ n > 0
    /\ inFlight < AriaInQueue
    /\ BatchSettled
    /\ n <= Cardinality(Free)
    /\ start' = [g \in Gids |->
                    IF g \in used + 1 .. used + n
                    THEN LET c == queue[g - used] IN
                         [content |-> c, href |-> jobHref[c], entry |-> TRUE,
                          phase |-> IF c \in Embedded THEN "decode" ELSE "new"]
                    ELSE start[g]]
    /\ queue' = SubSeq(queue, n + 1, Len(queue))
    /\ unacked' = unacked \cup ToSet(SubSeq(queue, 1, n))
    /\ inFlight' = inFlight + n
    /\ UNCHANGED <<job, aria, event, gidRec, cancel, handlers,
                   faults>>

Phase(g, p) == start' = [start EXCEPT ![g].phase = p]

\* Mutation: the acknowledgement is left to a notification aria2 never sends.
MutDecodeWrite(g) ==
    /\ start[g].phase = "decode"
    /\ Phase(g, "up")
    /\ gidRec' = [gidRec EXCEPT ![g] = TRUE]
    /\ UNCHANGED <<queue, unacked, job, inFlight, aria, event, cancel, handlers,
                   faults>>

\* runDecodeWrite: the bytes are on disk under a minted gid, whose record the
\* acknowledgement finds at once; or the inline data is unusable.
DecodeWrite(g) ==
    /\ start[g].phase = "decode"
    /\ Phase(g, "up")
    /\ gidRec' = [gidRec EXCEPT ![g] = TRUE]
    /\ pc' = [pc EXCEPT ![<<g, "notify">>] = "lookup"]
    /\ UNCHANGED <<queue, unacked, job, inFlight, aria, event, cancel, awaited,
                   decision, faults>>

DecodeFallback(g) ==
    /\ start[g].phase = "decode"
    /\ Phase(g, "new")
    /\ UNCHANGED <<queue, unacked, job, inFlight, aria, event, gidRec, cancel, handlers,
                   faults>>

\* aria2.addUri answers with the gid: from here on aria2 may end the download.
AddUri(g) ==
    /\ start[g].phase = "new"
    /\ Phase(g, "promote")
    /\ aria' = [aria EXCEPT ![g] = "running"]
    /\ UNCHANGED <<queue, unacked, job, inFlight, event, gidRec, cancel, handlers,
                   faults>>

\* setAria2GidFields
Promote(g) ==
    /\ start[g].phase = "promote"
    /\ Phase(g, "schedule")
    /\ gidRec' = [gidRec EXCEPT ![g] = TRUE]
    /\ UNCHANGED <<queue, unacked, job, inFlight, aria, event, cancel, handlers,
                   faults>>

\* Mutation: no cancel is scheduled.
MutScheduleCancel(g) ==
    /\ start[g].phase = "schedule"
    /\ Phase(g, "up")
    /\ UNCHANGED <<queue, unacked, job, inFlight, aria, event, gidRec, cancel,
                   handlers, faults>>

\* scheduleCleanerCancel
ScheduleCancel(g) ==
    /\ start[g].phase = "schedule"
    /\ Phase(g, "up")
    /\ cancel' = [cancel EXCEPT ![g] = "scheduled"]
    /\ UNCHANGED <<queue, unacked, job, inFlight, aria, event, gidRec, handlers,
                   faults>>

-----------------------------------------------------------------------------
(* aria2, its notifications, and the cancel commands                       *)

AriaEnds(g, how) ==
    /\ aria[g] = "running"
    /\ aria' = [aria EXCEPT ![g] = how]
    /\ event' = [event EXCEPT ![g] = TRUE]
    /\ UNCHANGED <<queue, unacked, job, inFlight, start, gidRec, cancel, handlers,
                   faults>>

\* handleAriaNotification, up to the acknowledgement.
Notify(g) ==
    /\ event[g]
    /\ event' = [event EXCEPT ![g] = FALSE]
    /\ pc' = [pc EXCEPT ![<<g, "notify">>] = "lookup"]
    /\ UNCHANGED <<queue, unacked, job, inFlight, start, aria, gidRec, cancel,
                   awaited, decision, faults>>

\* The CLEANER's sweep moves a due entry to the worker's command stream.
CancelDue(g) ==
    /\ cancel[g] = "scheduled"
    /\ cancel' = [cancel EXCEPT ![g] = "sent"]
    /\ UNCHANGED <<queue, unacked, job, inFlight, start, aria, event, gidRec, handlers,
                   faults>>

\* pollCleanerCommands reads every command, and awaits what it started for the
\* previous ones, the retry decision included.
CommandsSettled == \A g \in awaited : pc[<<g, "cancel">>] \notin Active
PollCommands ==
    LET sent == {g \in Gids : cancel[g] = "sent"} IN
    /\ sent # {}
    /\ CommandsSettled
    /\ awaited' = sent
    /\ cancel' = [g \in Gids |-> IF g \in sent THEN "none" ELSE cancel[g]]
    /\ pc' = [k \in Handlers |-> IF k[1] \in sent /\ k[2] = "cancel"
                                 THEN "lookup" ELSE pc[k]]
    /\ UNCHANGED <<queue, unacked, job, inFlight, start, aria, event, gidRec,
                   decision, faults>>

-----------------------------------------------------------------------------
(* startAck, whoever triggered it                                          *)

Goto(k, next) == pc' = [pc EXCEPT ![k] = next]
Released == IF inFlight > 0 THEN inFlight - 1 ELSE 0

\* The aria2_gid record is there ...
LookupRecord(k) ==
    /\ pc[k] = "lookup"
    /\ gidRec[k[1]]
    /\ Goto(k, "clean")
    /\ UNCHANGED <<queue, unacked, job, inFlight, attempts, awaited, decision,
                   faults>>

\* ... or it is still not there after the last of the three lookups.
GiveUp(k) ==
    /\ pc[k] = "lookup"
    /\ ~gidRec[k[1]]
    /\ Goto(k, "ignored")
    /\ UNCHANGED <<queue, unacked, job, inFlight, attempts, awaited, decision,
                   faults>>

\* What follows the acknowledgement; only a notification returns the slot.
AfterAck(k) == IF k[2] = "cancel" \/ aria[k[1]] = "error" THEN "tally" ELSE "read"

\* The five independent deletions are over; one of them may have failed, which
\* leaves the record for another trigger to find.
Clean(k) ==
    /\ pc[k] = "clean"
    /\ unacked' = IF start[k[1]].entry THEN unacked \ {ContentOf(k)} ELSE unacked
    /\ \/ /\ gidRec' = [gidRec EXCEPT ![k[1]] = FALSE]
          /\ UNCHANGED faults
       \/ /\ faults < MaxFaults
          /\ faults' = faults + 1
          /\ UNCHANGED gidRec
    /\ inFlight' = IF k[2] = "notify" /\ AfterAck(k) = "tally"
                   THEN Released ELSE inFlight
    /\ Goto(k, AfterAck(k))
    /\ UNCHANGED <<queue, job, start, aria, event, cancel, awaited, decision>>

-----------------------------------------------------------------------------
(* runCompletion                                                           *)

\* runComplete up to the hash: the record is read, the gid's traces go.
ReadRecord(k) ==
    /\ pc[k] = "read"
    /\ gidRec' = [gidRec EXCEPT ![k[1]] = FALSE]
    /\ cancel' = [cancel EXCEPT ![k[1]] = IF @ = "scheduled" THEN "none" ELSE @]
    /\ Goto(k, "hash")
    /\ UNCHANGED <<queue, unacked, job, inFlight, start, aria, event, awaited,
                   decision, faults>>

\* Mutation: the marker goes before the completion is recorded.
MutHash(k, next) ==
    /\ pc[k] = "hash"
    /\ next \in {"gate", "tally", "abandoned"}
    /\ inFlight' = Released
    /\ Goto(k, next)
    /\ marker' = IF next = "gate" THEN [marker EXCEPT ![ContentOf(k)] = FALSE]
                 ELSE marker
    /\ UNCHANGED <<queue, unacked, fields, attempt, jobHref, completed, reports,
                   missed, copies, attempts, awaited, decision, faults>>

\* HASH_OK, HASH_NOK (a mismatch or an unreadable file), or FAIL, which nobody
\* retries.  The slot returns before the outcome is looked at.
Hash(k, next) ==
    /\ pc[k] = "hash"
    /\ next \in {"gate", "tally", "abandoned"}
    /\ inFlight' = Released
    /\ Goto(k, next)
    /\ UNCHANGED <<queue, unacked, job, attempts, awaited, decision, faults>>

\* completeHref, with the link of the stored notification whichever link was
\* downloaded: nothing else happens unless that field exists.
CompleteHref(k) ==
    LET c == ContentOf(k) IN
    /\ pc[k] = "gate"
    /\ fields' = [fields EXCEPT ![c] = LuaComplete(@, jobHref[c])]
    /\ Goto(k, IF CanComplete(fields[c], jobHref[c]) THEN "unmark" ELSE "done")
    /\ UNCHANGED <<queue, unacked, attempt, jobHref, marker, completed, reports,
                   missed, copies, inFlight, attempts, awaited, decision, faults>>

\* Mutation: the marker is left to expire.
MutDeleteMarker(k) ==
    /\ pc[k] = "unmark"
    /\ Goto(k, "flag")
    /\ UNCHANGED <<queue, unacked, job, inFlight, attempts, awaited, decision, faults>>

DeleteMarker(k) ==
    /\ pc[k] = "unmark"
    /\ marker' = [marker EXCEPT ![ContentOf(k)] = FALSE]
    /\ Goto(k, "flag")
    /\ UNCHANGED <<queue, unacked, fields, attempt, jobHref, completed, reports,
                   missed, copies, inFlight, attempts, awaited, decision, faults>>

MarkComplete(k) ==
    /\ pc[k] = "flag"
    /\ completed' = [completed EXCEPT ![ContentOf(k)] = TRUE]
    /\ Goto(k, "report")
    /\ UNCHANGED <<queue, unacked, fields, attempt, jobHref, marker, reports,
                   missed, copies, inFlight, attempts, awaited, decision, faults>>

ReportStored(k) ==
    /\ pc[k] = "report"
    /\ reports' = [reports EXCEPT ![ContentOf(k)] = @ \cup {"stored"}]
    /\ Goto(k, "done")
    /\ UNCHANGED <<queue, unacked, fields, attempt, jobHref, marker, completed,
                   missed, copies, inFlight, attempts, awaited, decision, faults>>

-----------------------------------------------------------------------------
(* runRetryDecision                                                        *)

\* reportDownloadError or reportBadHash: a count for the REPORTER.
Tally(k) ==
    /\ pc[k] = "tally"
    /\ Goto(k, "sleep")
    /\ UNCHANGED <<queue, unacked, job, inFlight, attempts, awaited, decision,
                   faults>>

\* After 30 s: HGETALL and decideRetry.
Decide(k) ==
    LET c == ContentOf(k) IN
    /\ pc[k] = "sleep"
    /\ \E d \in RetryDecisions(fields[c], attempt[c]) :
          /\ decision' = [decision EXCEPT ![k] = IF d.kind = "RETRY_OK" THEN d ELSE @]
          /\ Goto(k, CASE d.kind = "RETRY_OK" -> "delay"
                       [] d.kind = "RETRY_NOK" -> "nok-unmark"
                       [] OTHER -> "done")
    /\ UNCHANGED <<queue, unacked, job, inFlight, attempts, awaited, faults>>

\* Mutation: the record moves to the promoted link but its download never starts.
MutRequeue(k) ==
    /\ pc[k] = "delay"
    /\ Goto(k, "transition")
    /\ UNCHANGED <<queue, unacked, job, inFlight, attempts, awaited, decision,
                   faults>>

\* After the back-off the download of the promoted link starts, whatever the
\* concurrent retryTransition is going to find in the record.
Requeue(k) ==
    LET g == MaxStarts - Cardinality(Free) + 1 IN
    /\ pc[k] = "delay"
    /\ g \in Gids
    /\ start' = [start EXCEPT ![g] = [content |-> ContentOf(k),
                                      href |-> decision[k].promote,
                                      entry |-> FALSE, phase |-> "new"]]
    /\ Goto(k, "transition")
    /\ UNCHANGED <<queue, unacked, job, inFlight, aria, event, gidRec, cancel,
                   awaited, decision, faults>>

RetryTransition(k) ==
    LET c == ContentOf(k)
        d == decision[k]
    IN
    /\ pc[k] = "transition"
    /\ fields' = [fields EXCEPT ![c] = LuaRetry(@, d.promote, d.failed)]
    /\ attempt' = [attempt EXCEPT ![c] = IF Promotes(fields[c], d.promote)
                                        THEN d.newAttempt ELSE @]
    /\ decision' = [decision EXCEPT ![k] = NoDecision]
    /\ Goto(k, "done")
    /\ UNCHANGED <<queue, unacked, jobHref, marker, completed, reports, missed, copies,
                   inFlight, attempts, awaited, faults>>

\* Retries are exhausted: recordError, then the marker goes ...
ExhaustMarker(k) ==
    /\ pc[k] = "nok-unmark"
    /\ marker' = [marker EXCEPT ![ContentOf(k)] = FALSE]
    /\ Goto(k, "nok-report")
    /\ UNCHANGED <<queue, unacked, fields, attempt, jobHref, completed, reports,
                   missed, copies, inFlight, attempts, awaited, decision, faults>>

\* ... and the failure is reported.
ReportFailed(k) ==
    /\ pc[k] = "nok-report"
    /\ reports' = [reports EXCEPT ![ContentOf(k)] = @ \cup {"failed"}]
    /\ Goto(k, "done")
    /\ UNCHANGED <<queue, unacked, fields, attempt, jobHref, marker, completed,
                   missed, copies, inFlight, attempts, awaited, decision, faults>>

-----------------------------------------------------------------------------
(* Faults                                                                  *)

Fault == faults < MaxFaults /\ faults' = faults + 1

\* A rejected command ends the handler.  For a command of the CLEANER it also
\* ends the loop's wait, and the whole batch is read again.
StepFails(k) ==
    /\ Fault
    /\ pc[k] \in {"lookup", "read", "hash", "gate", "tally", "sleep",
                   "transition", "nok-unmark", "nok-report"}
    /\ Goto(k, "dead")
    /\ IF k[2] = "cancel" /\ k[1] \in awaited
       THEN /\ cancel' = [g \in Gids |-> IF g \in awaited THEN "sent" ELSE cancel[g]]
            /\ awaited' = {}
       ELSE UNCHANGED <<cancel, awaited>>
    /\ UNCHANGED <<queue, unacked, job, inFlight, start, aria, event, gidRec,
                   decision>>

\* The steps of runFinishing catch their own errors and go on.
FinishStepFails(k) ==
    /\ Fault
    /\ \/ pc[k] = "unmark" /\ Goto(k, "flag")
       \/ pc[k] = "flag"   /\ Goto(k, "report")
       \/ pc[k] = "report" /\ Goto(k, "done")
    /\ UNCHANGED <<queue, unacked, job, inFlight, attempts, awaited, decision>>

\* The start is rejected before aria2 knows of it, or after it accepted.
StartFails(g) ==
    /\ Fault
    /\ start[g].phase \in Starting
    /\ Phase(g, "dead")
    /\ \/ UNCHANGED aria
       \/ /\ start[g].phase = "new"
          /\ aria' = [aria EXCEPT ![g] = "running"]
    /\ UNCHANGED <<queue, unacked, job, inFlight, event, gidRec, cancel, handlers>>

\* The websocket is down when aria2 reports; nothing else fails, so no bound.
EventLost(g) ==
    /\ event[g]
    /\ event' = [event EXCEPT ![g] = FALSE]
    /\ UNCHANGED <<queue, unacked, job, inFlight, start, aria, gidRec, cancel,
                   handlers, faults>>

\* The worker restarts; aria2 and Redis go on.  Commands not trimmed yet are
\* read again, entries already delivered are not.
Crash ==
    /\ Fault
    /\ inFlight' = 0
    /\ start' = [g \in Gids |-> IF start[g].phase \in Starting
                                THEN [start[g] EXCEPT !.phase = "dead"] ELSE start[g]]
    /\ event' = [g \in Gids |-> FALSE]
    /\ pc' = [k \in Handlers |-> IF pc[k] \in Active THEN "dead" ELSE pc[k]]
    /\ cancel' = [g \in Gids |-> IF g \in awaited /\ ~CommandsSettled
                                 THEN "sent" ELSE cancel[g]]
    /\ awaited' = {}
    /\ UNCHANGED <<queue, unacked, job, aria, gidRec, decision>>

-----------------------------------------------------------------------------
Starter(g) == \/ DecodeWrite(g) \/ DecodeFallback(g) \/ AddUri(g) \/ Promote(g)
              \/ ScheduleCancel(g)

Handler(k) == \/ LookupRecord(k) \/ GiveUp(k) \/ Clean(k) \/ ReadRecord(k)
              \/ \E next \in Ended \cup Active : Hash(k, next)
              \/ CompleteHref(k) \/ DeleteMarker(k) \/ MarkComplete(k)
              \/ ReportStored(k) \/ Tally(k) \/ Decide(k) \/ Requeue(k)
              \/ RetryTransition(k) \/ ExhaustMarker(k) \/ ReportFailed(k)

Next ==
    \/ \E c \in Contents : \/ Accept(c) \/ MarkerExpires(c)
                          \/ \E h \in Hrefs : Copy(c, h)
    \/ PollOnce \/ PollCommands \/ Crash
    \/ \E g \in Gids : \/ Starter(g) \/ Notify(g) \/ CancelDue(g)
                      \/ \E how \in {"complete", "error"} : AriaEnds(g, how)
                      \/ StartFails(g) \/ EventLost(g)
    \/ \E k \in Handlers : Handler(k) \/ StepFails(k) \/ FinishStepFails(k)

Spec == Init /\ [][Next]_vars

\* The event loop runs what can run; the CLEANER sweeps; Redis expires what has
\* a deadline.  aria2 owes nothing.
FairSpec ==
    /\ Spec
    /\ WF_vars(PollOnce) /\ WF_vars(PollCommands)
    /\ \A g \in Gids : WF_vars(Starter(g)) /\ WF_vars(Notify(g)) /\ WF_vars(CancelDue(g))
    /\ \A k \in Handlers : WF_vars(Handler(k))
    /\ \A c \in Contents : WF_vars(MarkerExpires(c))

-----------------------------------------------------------------------------
(* Properties                                                              *)

\* Its completion has been recorded, even if a copy has written over it since.
Stored(c) == \/ Holding(fields[c], "complete") # {}
             \/ completed[c]
             \/ \E k \in Handlers : ContentOf(k) = c /\ pc[k] \in {"unmark", "flag"}
Abandoned(c) == \E k \in Handlers : ContentOf(k) = c /\ pc[k] = "abandoned"
Settled(c) == Stored(c) \/ "failed" \in reports[c] \/ Abandoned(c)

\* No retry decided on an older reading of the record, however late its script
\* runs, takes a completion back: only a late copy writes over it.
CompleteIsFinal ==
    [][\A c \in Contents, h \in Hrefs :
          fields[c][h] = "complete" => fields'[c][h] \in {"complete", "wait"}]_vars

\* The marker is only taken away from a download that is done or has failed
\* (store.ts on deleteCacheMarker): until then its expiry reports it missed.
Exhausted(c) == "failed" \in reports[c]
                \/ \E k \in Handlers : ContentOf(k) = c /\ pc[k] = "nok-report"
UnmarkedIsDecided ==
    faults = 0 =>
      \A c \in Contents : jobHref[c] # NoHref /\ ~marker[c] =>
          c \in missed \/ Stored(c) \/ Exhausted(c)

\* While nothing fails, an unsettled job always has somebody who will move it:
\* it waits in the queue, or one of its attempts is being started, handled, or
\* is registered with a cancel to come.  So no order of completion, cancel and
\* retry loses a job.
Queued(c) == \E i \in DOMAIN queue : queue[i] = c
Netted(g) == gidRec[g] /\ cancel[g] \in {"scheduled", "sent"}
Moving(g) == \/ start[g].phase \in Starting
             \/ Netted(g)
             \/ \E trigger \in Triggers : pc[<<g, trigger>>] \in Active
SomebodyMoves ==
    faults = 0 =>
      \A c \in Contents : jobHref[c] # NoHref =>
          \/ Settled(c)
          \/ Queued(c)
          \/ \E g \in Gids : start[g].phase # "free" /\ start[g].content = c /\ Moving(g)

\* Every accepted job settles in the end, whatever notifications are lost:
\* unless it is still in the queue of a worker that has run out of in-flight
\* slots for good, or something failed (or the bound on attempts holds a retry).
Wedged(c) == inFlight >= AriaInQueue /\ Queued(c)
OutOfStarts == Free = {} /\ \E k \in Handlers : pc[k] = "delay"
AcceptedSettles ==
    \/ <>[]OutOfStarts
    \/ <>(faults > 0)
    \/ \A c \in Contents : jobHref[c] # NoHref ~> Settled(c) \/ []Wedged(c)

\* The worker implements DownloadJob: with a deadline marker that goes before the
\* outcome is reported, every accepted download is answered, lost in whatever
\* queue, slot or abandoned hash; and no "missed" follows an answer.
Job == INSTANCE DownloadJob WITH
    accepted <- {c \in Contents : jobHref[c] # NoHref},
    answers  <- [c \in Contents |-> reports[c] \cup (IF c \in missed THEN {"missed"}
                                                      ELSE {})]
EveryJobIsAnswered == Job!Spec

\* What consumer.ts says of InFlightCounter: every job read from the queue gives
\* its slot back when it reaches a terminal state.  So a worker with nothing left
\* to do holds no slot.
Quiet == \A g \in Gids : ~Moving(g) /\ ~event[g] /\ aria[g] # "running"
SlotsComeBack == Quiet => inFlight = 0
===============================================================================
