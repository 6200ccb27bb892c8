------------------------------ MODULE Subscriber ------------------------------
(***************************************************************************)
(* The SUBSCRIBER role of wis2hauler: the replicas that read one queue's   *)
(* raw MQTT stream, and what processEntry (src/subscriber/consumer.ts)     *)
(* does with each entry against the shared Redis.                          *)
(*                                                                         *)
(* Every `await' on Redis is a step of its own, so the entries of a batch  *)
(* interleave inside one replica exactly as entries of two replicas do.    *)
(* A Task is "replica r processes entry e".  The DOWNLOADER and the key    *)
(* expiries of Redis appear only through the keys they share with a        *)
(* subscriber (the section "Around the subscribers").                      *)
(***************************************************************************)
EXTENDS Integers, Sequences, FiniteSets

CONSTANTS
    Replicas,         \* SUBSCRIBER processes sharing one Redis and one queue
    Entries,          \* the notifications that can be ingested
    Contents,         \* downloader_id values (content-id.ts)
    Hrefs,            \* link targets
    Keys,             \* lineage histories: (centre or global cache, data_id)
    Msg,              \* what processEntry derives from each notification
    GlobalCacheMode,  \* global.global-cache of the configuration
    BatchSize,        \* XREAD COUNT
    MaxCrashes,       \* bounds on the faults a behaviour contains
    MaxFailures,
    MaxLapses         \* claim expiries per content

Message == [ignored : BOOLEAN, key : Keys, pub : Nat, update : BOOLEAN,
            content : Contents, href : Hrefs, nocache : BOOLEAN]

ASSUME MsgAssumption == Msg \in [Entries -> Message]
ASSUME ModeAssumption == GlobalCacheMode \in BOOLEAN
ASSUME BoundAssumption ==
    /\ BatchSize \in Nat \ {0}
    /\ MaxCrashes \in Nat /\ MaxFailures \in Nat /\ MaxLapses \in Nat

VARIABLES
    raw,        \* the raw stream of the queue, entry ids being positions
    cursor,     \* lastId of each replica, in memory
    pc,         \* where each task is in processEntry
    todo,       \* writes of Promise.all still outstanding, per task
    lease,      \* history: number of the claim a task won, 0 when none
    lineage,    \* pubtimes recorded per lineage key
    claim,      \* downloaderClaimKey present
    leases,     \* history: claims ever won per content
    lapses,     \* history: claims that expired or were released, per content
    completed,  \* downloaderCompleteKey present
    marker,     \* cacheMarkerKey present
    hash,       \* downloaderHashKey
    work,       \* the work queue stream
    cleared,    \* positions of work whose download has deleted the marker
    published,  \* contents republished without a download
    missed,     \* contents whose marker expired: REPORTER's missed downloads
    crashes, failures

memory == <<cursor, pc, todo, lease>>
claims == <<claim, leases, lapses>>
faults == <<crashes, failures>>
vars   == <<raw, memory, lineage, claims, completed, marker, hash, work,
            cleared, published, missed, faults>>

Tasks == Replicas \X Entries
MsgOf(t) == Msg[t[2]]
ContentOf(t) == MsgOf(t).content

Outcome == {"ignore", "duplicate", "already-complete", "download", "waiting",
            "drop", "publish-only", "failed"}
Awaiting == {"lineage", "record", "exists", "claim", "marker",
             "write", "wait", "init", "publish", "release"}
Writes == {"job", "work"}
Status == {"none", "queue", "wait", "complete"}
Job == [content : Contents, href : Hrefs, lease : Nat]
EmptyHash == [status |-> [h \in Hrefs |-> "none"], wnm |-> FALSE, attempt |-> 0]

TypeOK ==
    /\ raw \in Seq(Entries)
    /\ cursor \in [Replicas -> Nat]
    /\ pc \in [Tasks -> {"idle"} \cup Awaiting \cup Outcome]
    /\ todo \in [Tasks -> SUBSET Writes]
    /\ lease \in [Tasks -> Nat]
    /\ lineage \in [Keys -> SUBSET Nat]
    /\ claim \in [Contents -> BOOLEAN]
    /\ leases \in [Contents -> Nat]
    /\ lapses \in [Contents -> Nat]
    /\ completed \in [Contents -> BOOLEAN]
    /\ marker \in [Contents -> BOOLEAN]
    /\ hash \in [Contents -> [status : [Hrefs -> Status], wnm : BOOLEAN,
                              attempt : {0, 1}]]
    /\ work \in Seq(Job)
    /\ cleared \in SUBSET Nat
    /\ published \in SUBSET Contents
    /\ missed \in SUBSET Contents
    /\ crashes \in Nat
    /\ failures \in Nat

Init ==
    /\ raw = <<>>
    /\ cursor = [r \in Replicas |-> 0]
    /\ pc = [t \in Tasks |-> "idle"]
    /\ todo = [t \in Tasks |-> {}]
    /\ lease = [t \in Tasks |-> 0]
    /\ lineage = [k \in Keys |-> {}]
    /\ claim = [c \in Contents |-> FALSE]
    /\ leases = [c \in Contents |-> 0]
    /\ lapses = [c \in Contents |-> 0]
    /\ completed = [c \in Contents |-> FALSE]
    /\ marker = [c \in Contents |-> FALSE]
    /\ hash = [c \in Contents |-> EmptyHash]
    /\ work = <<>>
    /\ cleared = {}
    /\ published = {}
    /\ missed = {}
    /\ crashes = 0
    /\ failures = 0

-----------------------------------------------------------------------------
(* Decisions                                                               *)

\* lineage.ts: a first pubtime is new; afterwards only a strictly newer one
\* that carries rel=update is accepted.
IsDuplicate(m, known) ==
    /\ known # {}
    /\ \/ \E p \in known : p >= m.pub
       \/ ~m.update

\* Mutation: nocache decides before the claim does.
MutNocacheFirst(m, claimed) ==
    IF m.nocache THEN "drop" ELSE IF claimed THEN "marker" ELSE "wait"

\* claim.ts, for a message that found no complete flag.
DecideClaimAction(m, claimed) ==
    IF claimed
    THEN IF GlobalCacheMode /\ m.nocache THEN "init" ELSE "marker"
    ELSE IF m.nocache THEN "drop" ELSE "wait"

-----------------------------------------------------------------------------
(* Ingest and the read loop                                                *)

\* appendRawMessage: an id claimed once by claimMessageId reaches the stream.
Ingest(e) ==
    /\ \A i \in DOMAIN raw : raw[i] # e
    /\ raw' = Append(raw, e)
    /\ UNCHANGED <<memory, lineage, claims, completed, marker, hash, work,
                   cleared, published, missed, faults>>

BatchEnd(r) == IF cursor[r] + BatchSize < Len(raw)
               THEN cursor[r] + BatchSize ELSE Len(raw)

\* One XREAD: lastId moves past the whole batch before any entry has run.
Read(r) ==
    /\ cursor[r] < Len(raw)
    /\ cursor' = [cursor EXCEPT ![r] = BatchEnd(r)]
    /\ pc' = [t \in Tasks |->
                IF t[1] = r /\ \E i \in cursor[r] + 1 .. BatchEnd(r) : raw[i] = t[2]
                THEN IF MsgOf(t).ignored THEN "ignore" ELSE "lineage"
                ELSE pc[t]]
    /\ UNCHANGED <<raw, todo, lease, lineage, claims, completed, marker, hash,
                   work, cleared, published, missed, faults>>

-----------------------------------------------------------------------------
(* processEntry, one action per Redis round trip                           *)

Goto(t, next) == pc' = [pc EXCEPT ![t] = next]

\* getLineagePubtimes and the decision taken on its answer.
LookupLineage(t) ==
    /\ pc[t] = "lineage"
    /\ Goto(t, IF IsDuplicate(MsgOf(t), lineage[MsgOf(t).key])
               THEN "duplicate" ELSE "record")
    /\ UNCHANGED <<raw, cursor, todo, lease, lineage, claims, completed,
                   marker, hash, work, cleared, published, missed, faults>>

\* The weighted random delay that follows only lets the sleepers go on in any
\* order, which interleaving gives already.
RecordLineage(t) ==
    /\ pc[t] = "record"
    /\ lineage' = [lineage EXCEPT ![MsgOf(t).key] = @ \cup {MsgOf(t).pub}]
    /\ Goto(t, "exists")
    /\ UNCHANGED <<raw, cursor, todo, lease, claims, completed, marker, hash,
                   work, cleared, published, missed, faults>>

\* checkAndClaimDownload, first round trip.
CheckComplete(t) ==
    /\ pc[t] = "exists"
    /\ Goto(t, IF completed[ContentOf(t)] THEN "already-complete" ELSE "claim")
    /\ UNCHANGED <<raw, cursor, todo, lease, lineage, claims, completed,
                   marker, hash, work, cleared, published, missed, faults>>

\* Mutation: SET without NX.
MutClaimWithoutNX(t) ==
    LET c == ContentOf(t) IN
    /\ pc[t] = "claim"
    /\ claim' = [claim EXCEPT ![c] = TRUE]
    /\ leases' = [leases EXCEPT ![c] = @ + 1]
    /\ lease' = [lease EXCEPT ![t] = leases[c] + 1]
    /\ Goto(t, DecideClaimAction(MsgOf(t), TRUE))
    /\ UNCHANGED <<raw, cursor, todo, lineage, lapses, completed, marker, hash,
                   work, cleared, published, missed, faults>>

\* checkAndClaimDownload, second round trip: SET NX finds no claim ...
WinClaim(t) ==
    LET c == ContentOf(t) IN
    /\ pc[t] = "claim"
    /\ ~claim[c]
    /\ claim' = [claim EXCEPT ![c] = TRUE]
    /\ leases' = [leases EXCEPT ![c] = @ + 1]
    /\ lease' = [lease EXCEPT ![t] = leases[c] + 1]
    /\ Goto(t, DecideClaimAction(MsgOf(t), TRUE))
    /\ UNCHANGED <<raw, cursor, todo, lineage, lapses, completed, marker, hash,
                   work, cleared, published, missed, faults>>

\* ... or one, whoever holds it.
LoseClaim(t) ==
    /\ pc[t] = "claim"
    /\ claim[ContentOf(t)]
    /\ Goto(t, DecideClaimAction(MsgOf(t), FALSE))
    /\ UNCHANGED <<raw, cursor, todo, lease, lineage, claims, completed,
                   marker, hash, work, cleared, published, missed, faults>>

\* Mutation: the marker is set after the two writes.
MutMarkerLast(t) ==
    /\ \/ /\ pc[t] = "marker"
          /\ todo' = [todo EXCEPT ![t] = Writes]
          /\ Goto(t, "write")
          /\ UNCHANGED marker
       \/ /\ pc[t] = "download"
          /\ marker' = [marker EXCEPT ![ContentOf(t)] = TRUE]
          /\ Goto(t, "idle")
          /\ UNCHANGED todo
    /\ UNCHANGED <<raw, cursor, lease, lineage, claims, completed, hash, work,
                   cleared, published, missed, faults>>

\* setCacheMarker is awaited before either write is issued.
SetMarker(t) ==
    /\ pc[t] = "marker"
    /\ marker' = [marker EXCEPT ![ContentOf(t)] = TRUE]
    /\ todo' = [todo EXCEPT ![t] = Writes]
    /\ Goto(t, "write")
    /\ UNCHANGED <<raw, cursor, lease, lineage, claims, completed, hash, work,
                   cleared, published, missed, faults>>

\* One of the two writes answers; the entry is done when both have.
Answered(t, w) ==
    /\ todo' = [todo EXCEPT ![t] = @ \ {w}]
    /\ pc' = IF pc[t] = "write" /\ todo[t] = {w}
             THEN [pc EXCEPT ![t] = "download"] ELSE pc

WriteJob(t) ==
    /\ "job" \in todo[t]
    /\ hash' = [hash EXCEPT ![ContentOf(t)] =
                  [status |-> [@.status EXCEPT ![MsgOf(t).href] = "queue"],
                   wnm |-> TRUE, attempt |-> 1]]
    /\ Answered(t, "job")
    /\ UNCHANGED <<raw, cursor, lease, lineage, claims, completed, marker,
                   work, cleared, published, missed, faults>>

EnqueueWork(t) ==
    /\ "work" \in todo[t]
    /\ work' = Append(work, [content |-> ContentOf(t), href |-> MsgOf(t).href,
                             lease |-> lease[t]])
    /\ Answered(t, "work")
    /\ UNCHANGED <<raw, cursor, lease, lineage, claims, completed, marker,
                   hash, cleared, published, missed, faults>>

\* Mutation: a field value no reader of the record knows.
MutRecordWaiting(t) ==
    /\ pc[t] = "wait"
    /\ hash' = [hash EXCEPT ![ContentOf(t)].status[MsgOf(t).href] = "waiting"]
    /\ Goto(t, "waiting")
    /\ UNCHANGED <<raw, cursor, todo, lease, lineage, claims, completed,
                   marker, work, cleared, published, missed, faults>>

\* HSET of the loser's own link, whatever the field holds by now.
RecordWait(t) ==
    /\ pc[t] = "wait"
    /\ hash' = [hash EXCEPT ![ContentOf(t)].status[MsgOf(t).href] = "wait"]
    /\ Goto(t, "waiting")
    /\ UNCHANGED <<raw, cursor, todo, lease, lineage, claims, completed,
                   marker, work, cleared, published, missed, faults>>

InitAttempt(t) ==
    /\ pc[t] = "init"
    /\ hash' = [hash EXCEPT ![ContentOf(t)].attempt = 1]
    /\ Goto(t, "publish")
    /\ UNCHANGED <<raw, cursor, todo, lease, lineage, claims, completed,
                   marker, work, cleared, published, missed, faults>>

\* The publish may fail: it is logged and the claim is released regardless.
Publish(t) ==
    /\ pc[t] = "publish"
    /\ \/ /\ published' = published \cup {ContentOf(t)}
          /\ UNCHANGED failures
       \/ /\ failures < MaxFailures
          /\ failures' = failures + 1
          /\ UNCHANGED published
    /\ Goto(t, "release")
    /\ UNCHANGED <<raw, cursor, todo, lease, lineage, claims, completed,
                   marker, hash, work, cleared, missed, crashes>>

\* DEL of the claim, even if it expired and somebody else holds it by now.
Unclaim(c) ==
    /\ claim' = [claim EXCEPT ![c] = FALSE]
    /\ lapses' = IF claim[c] THEN [lapses EXCEPT ![c] = @ + 1] ELSE lapses
    /\ UNCHANGED leases

ReleaseClaim(t) ==
    /\ pc[t] = "release"
    /\ Unclaim(ContentOf(t))
    /\ Goto(t, "publish-only")
    /\ UNCHANGED <<raw, cursor, todo, lease, lineage, completed, marker, hash,
                   work, cleared, published, missed, faults>>

-----------------------------------------------------------------------------
(* Faults                                                                  *)

InRedis == {"lineage", "record", "exists", "claim", "marker", "wait", "init",
            "release"}

\* A rejected Redis command ends its entry: logged, nothing undone.
StepFails(t) ==
    /\ failures < MaxFailures
    /\ failures' = failures + 1
    /\ pc[t] \in InRedis
    /\ Goto(t, "failed")
    /\ UNCHANGED <<raw, cursor, todo, lease, lineage, claims, completed,
                   marker, hash, work, cleared, published, missed, crashes>>

\* One of the two concurrent writes is rejected; the other is already issued.
WriteFails(t, w) ==
    /\ failures < MaxFailures
    /\ failures' = failures + 1
    /\ w \in todo[t]
    /\ todo' = [todo EXCEPT ![t] = @ \ {w}]
    /\ Goto(t, "failed")
    /\ UNCHANGED <<raw, cursor, lease, lineage, claims, completed, marker, hash,
                   work, cleared, published, missed, crashes>>

\* SET NX applied, its answer lost with the connection: ioredis sends it again
\* and the task finds its own claim in the way.
ClaimAnswerLost(t) ==
    LET c == ContentOf(t) IN
    /\ failures < MaxFailures
    /\ failures' = failures + 1
    /\ pc[t] = "claim"
    /\ ~claim[c]
    /\ claim' = [claim EXCEPT ![c] = TRUE]
    /\ leases' = [leases EXCEPT ![c] = @ + 1]
    /\ Goto(t, DecideClaimAction(MsgOf(t), FALSE))
    /\ UNCHANGED <<raw, cursor, todo, lease, lineage, lapses, completed, marker,
                   hash, work, cleared, published, missed, crashes>>

\* The process dies: its tasks and its cursor are gone, Redis is not.  The
\* restarted loop reads the stream again from "0-0".
Crash(r) ==
    /\ crashes < MaxCrashes
    /\ crashes' = crashes + 1
    /\ cursor' = [cursor EXCEPT ![r] = 0]
    /\ pc' = [t \in Tasks |-> IF t[1] = r THEN "idle" ELSE pc[t]]
    /\ todo' = [t \in Tasks |-> IF t[1] = r THEN {} ELSE todo[t]]
    /\ lease' = [t \in Tasks |-> IF t[1] = r THEN 0 ELSE lease[t]]
    /\ UNCHANGED <<raw, lineage, claims, completed, marker, hash, work, cleared,
                   published, missed, failures>>

-----------------------------------------------------------------------------
(* Around the subscribers                                                  *)

\* The claim's 900 s elapse while it is held.
ClaimExpires(c) ==
    /\ claim[c]
    /\ lapses[c] < MaxLapses
    /\ Unclaim(c)
    /\ UNCHANGED <<raw, memory, lineage, completed, marker, hash, work, cleared,
                   published, missed, faults>>

MarkerExpires(c) ==
    /\ marker[c]
    /\ marker' = [marker EXCEPT ![c] = FALSE]
    /\ missed' = missed \cup {c}
    /\ UNCHANGED <<raw, memory, lineage, claims, completed, hash, work, cleared,
                   published, faults>>

\* A DOWNLOADER worker settles the job at position i: it deletes the marker
\* when the download succeeded or failed for good ...
DownloadEnds(i) ==
    /\ i \in DOMAIN work \ cleared
    /\ cleared' = cleared \cup {i}
    /\ marker' = [marker EXCEPT ![work[i].content] = FALSE]
    /\ UNCHANGED <<raw, memory, lineage, claims, completed, hash, work,
                   published, missed, faults>>

\* ... and after a success, if the record is there, it sets the complete flag.
DownloadCompletes(i) ==
    LET c == work[i].content IN
    /\ i \in DOMAIN work \cap cleared
    /\ ~completed[c]
    /\ hash[c].wnm
    /\ completed' = [completed EXCEPT ![c] = TRUE]
    /\ hash' = [hash EXCEPT ![c].status[work[i].href] = "complete"]
    /\ UNCHANGED <<raw, memory, lineage, claims, marker, work, cleared,
                   published, missed, faults>>

-----------------------------------------------------------------------------
Step(t) == \/ LookupLineage(t) \/ RecordLineage(t)
           \/ CheckComplete(t) \/ WinClaim(t) \/ LoseClaim(t)
           \/ SetMarker(t) \/ WriteJob(t) \/ EnqueueWork(t) \/ RecordWait(t)
           \/ InitAttempt(t) \/ Publish(t) \/ ReleaseClaim(t)

Fault(t) == StepFails(t) \/ ClaimAnswerLost(t) \/ \E w \in Writes : WriteFails(t, w)

Around(c) == ClaimExpires(c) \/ MarkerExpires(c)

Next ==
    \/ \E e \in Entries : Ingest(e)
    \/ \E r \in Replicas : Read(r) \/ Crash(r)
    \/ \E t \in Tasks : Step(t) \/ Fault(t)
    \/ \E c \in Contents : Around(c)
    \/ \E i \in DOMAIN work : DownloadEnds(i) \/ DownloadCompletes(i)

Spec == Init /\ [][Next]_vars

\* The event loop runs every promise that can settle and keeps polling; no
\* fault, expiry or arrival is owed to anybody.
FairSpec ==
    /\ Spec
    /\ \A r \in Replicas : WF_vars(Read(r))
    /\ \A t \in Tasks : WF_vars(Step(t))
-----------------------------------------------------------------------------
(* Properties                                                              *)

\* Redundant subscribers do not download twice: whoever enqueued a job for a
\* content had won a claim of its own, so there are never more jobs than one
\* plus the claims that expired or were released (checkAndClaimDownload and
\* the 'download' case, whatever crashes and rejected commands do to them).
OneJobPerLease ==
    \A i, j \in DOMAIN work :
        work[i].content = work[j].content =>
            /\ work[i].lease \in 1 .. lapses[work[i].content] + 1
            /\ work[i].lease = work[j].lease => i = j

\* Every job on the work queue is watched from the moment a worker can see it:
\* the marker whose expiry reports a missed download is set before the job is
\* enqueued, and only the job's own end or that report removes it.
QueuedIsWatched ==
    \A i \in DOMAIN work \ cleared :
        LET c == work[i].content IN
        lapses[c] = 0 => marker[c] \/ c \in missed

\* No marker outlives the download it watches: as long as one claim covered the
\* download, a completed content cannot be reported missed any more.
CompletedIsUnwatched ==
    \A c \in Contents : completed[c] /\ lapses[c] = 0 => ~marker[c]

\* Losing the race loses nothing: once some copy of a content has passed the
\* lineage check, the content gets its job or its republication, whoever drops,
\* waits or finds it complete meanwhile (unless a fault hit the subscribers).
Accepted(c) == \E t \in Tasks : ContentOf(t) = c /\ pc[t] = "exists"
Served(c) == c \in published \/ \E i \in DOMAIN work : work[i].content = c
Faulty == crashes > 0 \/ failures > 0
AcceptedIsServed ==
    \A c \in Contents : Accepted(c) ~> Served(c) \/ Faulty
===============================================================================
