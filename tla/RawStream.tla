------------------------------ MODULE RawStream ------------------------------
(***************************************************************************)
(* The raw stream of wis2hauler between MQTT ingest and the SUBSCRIBER's   *)
(* consumer loop: the handlers that claim a notification id and append it, *)
(* the read cursor of each replica, the entries it has in flight, and the  *)
(* two trims (by the consumer's own cursor, and by length).  Files:        *)
(* src/subscriber/ingest.ts, consumer.ts (runConsumerLoop), stream-id.ts,  *)
(* src/redis/ioredis-store.ts.                                             *)
(*                                                                         *)
(* What an entry leads to is module Subscriber; here it is settled at some *)
(* time at most MaxDelay after it was read.  A stream id is the position   *)
(* of the entry in log, its millisecond part the entry's at.               *)
(***************************************************************************)
EXTENDS Integers, Sequences, FiniteSets, FiniteSetsExt

CONSTANTS
    Replicas,     \* SUBSCRIBER processes of one queue
    Ids,          \* wnm ids
    Handlers,     \* deliveries: <<replica, upstream broker, id>>
    Count,        \* COUNT of XREAD (500 in the code)
    MaxInFlight,  \* 5000 in the code
    Margin,       \* rawStreamTrimMarginMs
    MaxDelay,     \* the longest an entry's processing takes
    MaxLen,       \* RAW_STREAM_MAXLEN
    MaxTime,      \* bounds: the clock,
    MaxCrashes    \* and crashes

ASSUME RawStreamAssumption ==
    /\ \A k \in Handlers : k[1] \in Replicas /\ k[3] \in Ids
    /\ IsFiniteSet(Handlers)
    /\ Count \in Nat \ {0} /\ MaxInFlight \in Nat \ {0}
    /\ Margin \in Nat /\ MaxDelay \in Nat /\ MaxLen \in Nat \ {0}
    /\ MaxTime \in Nat /\ MaxCrashes \in Nat

VARIABLES
    now,        \* the clock
    claimed,    \* ids with a dedup key
    log,        \* every entry ever appended, [id, at]
    low,        \* entries 1 .. low are gone from the stream
    evicted,    \* of these, the ones MAXLEN removed
    ingest,     \* where the handler of each <<replica, link, id>> is
    cursor,     \* lastId of each replica, 0 for "0-0"
    open,       \* its unsettled batches: [at, read, left]
    inFlight,   \* its in-flight counter
    settled,    \* entries some replica has processed to the end
    warned,     \* replicas whose last loss check raised the warning
    crashes

stream   == <<log, low, evicted>>
consumer == <<cursor, open, inFlight, settled, warned>>
vars     == <<now, claimed, stream, ingest, consumer, crashes>>

Positions == 1 .. Cardinality(Handlers)
Time == 0 .. MaxTime
Batch == [at : Time, read : SUBSET Positions, left : SUBSET Positions]
Present == low + 1 .. Len(log)

TypeOK ==
    /\ now \in Time
    /\ claimed \subseteq Ids
    /\ log \in Seq([id : Ids, at : Time])
    /\ low \in 0 .. Len(log)
    /\ evicted \subseteq 1 .. low
    /\ ingest \in [Handlers -> {"none", "append", "done", "dead"}]
    /\ cursor \in [Replicas -> 0 .. Len(log)]
    /\ open \in [Replicas -> SUBSET Batch]
    /\ inFlight \in [Replicas -> 0 .. MaxInFlight + Count - 1]
    /\ settled \subseteq 1 .. Len(log)
    /\ warned \subseteq Replicas
    /\ crashes \in 0 .. MaxCrashes

Init ==
    /\ now = 0
    /\ claimed = {}
    /\ log = <<>> /\ low = 0 /\ evicted = {}
    /\ ingest = [k \in Handlers |-> "none"]
    /\ cursor = [r \in Replicas |-> 0]
    /\ open = [r \in Replicas |-> {}]
    /\ inFlight = [r \in Replicas |-> 0]
    /\ settled = {} /\ warned = {}
    /\ crashes = 0

-----------------------------------------------------------------------------
(* Ingest                                                                  *)

\* Mutation: the answer of SET NX is not looked at.
MutClaimMessageId(k) ==
    /\ ingest[k] = "none"
    /\ claimed' = claimed \cup {k[3]}
    /\ ingest' = [ingest EXCEPT ![k] = "append"]
    /\ UNCHANGED <<now, stream, consumer, crashes>>

\* A notification that passed the report-by-exception map and the exclude list
\* (after the fixed delay of the second link; any other leaves no trace), and its
\* claimMessageId, a SET NX: the second of two copies ends here.
ClaimMessageId(k) ==
    /\ ingest[k] = "none"
    /\ claimed' = claimed \cup {k[3]}
    /\ ingest' = [ingest EXCEPT ![k] = IF k[3] \in claimed THEN "done" ELSE "append"]
    /\ UNCHANGED <<now, stream, consumer, crashes>>

\* appendRawMessage: XADD with an approximate MAXLEN, which may keep more.
AppendRawMessage(k) ==
    LET excess == Len(log) + 1 - MaxLen IN
    /\ ingest[k] = "append"
    /\ log' = Append(log, [id |-> k[3], at |-> now])
    /\ \E cut \in {low} \cup {n \in low + 1 .. Len(log) : n <= excess} :
          /\ low' = cut
          /\ evicted' = evicted \cup (low + 1 .. cut)
    /\ ingest' = [ingest EXCEPT ![k] = "done"]
    /\ UNCHANGED <<now, claimed, consumer, crashes>>

-----------------------------------------------------------------------------
(* runConsumerLoop                                                         *)

Unread(r) == {i \in Present : i > cursor[r]}
Smaller(m, n) == IF m < n THEN m ELSE n

Take(r) ==
    LET unread == Unread(r)
        first  == Min(unread)
        size   == Smaller(Count, Cardinality(unread))
    IN  first .. first + size - 1

\* XREAD from the cursor; the batch is dispatched and not waited for.
Dispatch(r) ==
    LET batch == Take(r) IN
    /\ cursor' = [cursor EXCEPT ![r] = Max(batch)]
    /\ open' = [open EXCEPT ![r] = @ \cup
                  {[at |-> now, read |-> batch, left |-> batch]}]
    /\ inFlight' = [inFlight EXCEPT ![r] = @ + Cardinality(batch)]
    /\ UNCHANGED <<now, claimed, stream, ingest, settled, warned, crashes>>

\* Mutation: no pause.
MutReadRawMessages(r) == Unread(r) # {} /\ Dispatch(r)

ReadRawMessages(r) ==
    /\ inFlight[r] < MaxInFlight
    /\ Unread(r) # {}
    /\ Dispatch(r)

\* Mutation: a batch that failed in part gives nothing back.
MutSettle(r, b, i) ==
    /\ i \in b.left
    /\ settled' = settled \cup {i}
    /\ open' = [open EXCEPT ![r] =
                  IF b.left = {i} THEN @ \ {b}
                  ELSE (@ \ {b}) \cup {[b EXCEPT !.left = @ \ {i}]}]
    /\ UNCHANGED <<now, claimed, stream, ingest, cursor, inFlight, warned, crashes>>

\* An entry of a batch has been processed, well or not; the batch gives its
\* whole share of the counter back with its last entry.
Settle(r, b, i) ==
    /\ i \in b.left
    /\ settled' = settled \cup {i}
    /\ IF b.left = {i}
       THEN /\ open' = [open EXCEPT ![r] = @ \ {b}]
            /\ inFlight' = [inFlight EXCEPT ![r] = @ - Cardinality(b.read)]
       ELSE /\ open' = [open EXCEPT ![r] = (@ \ {b}) \cup {[b EXCEPT !.left = @ \ {i}]}]
            /\ UNCHANGED inFlight
    /\ UNCHANGED <<now, claimed, stream, ingest, cursor, warned, crashes>>

\* Mutation: the margin is left out.
MutOldEnough(r) ==
    IF cursor[r] = 0 THEN {} ELSE {i \in Present : log[i].at < log[cursor[r]].at}

\* streamIdMinusMs of the cursor: what is older by more than the margin.
OldEnough(r) ==
    IF cursor[r] = 0 THEN {}
    ELSE {i \in Present : log[i].at < log[cursor[r]].at - Margin}

\* trimRawStreamBefore: XTRIM with an approximate MINID, which may keep more.
TrimRawStreamBefore(r) ==
    /\ \E cut \in OldEnough(r) : low' = cut
    /\ UNCHANGED <<now, claimed, log, evicted, ingest, consumer, crashes>>

\* Mutation: a loop that has read nothing yet compares too.
MutCheckLoss(r) ==
    /\ warned' = IF Present # {} /\ Min(Present) > cursor[r] THEN warned \cup {r}
                 ELSE warned \ {r}
    /\ UNCHANGED <<now, claimed, stream, ingest, cursor, open, inFlight, settled, crashes>>

\* The warning of entries trimmed unread: nothing the loop has read survives, and
\* something later does.  It is not given before the loop has read anything.
CheckLoss(r) ==
    /\ cursor[r] # 0
    /\ warned' = IF Present # {} /\ Min(Present) > cursor[r] THEN warned \cup {r}
                 ELSE warned \ {r}
    /\ UNCHANGED <<now, claimed, stream, ingest, cursor, open, inFlight, settled, crashes>>

-----------------------------------------------------------------------------
(* Time and crashes                                                        *)

\* No entry is in flight for longer than MaxDelay.
Tick ==
    /\ now < MaxTime
    /\ \A r \in Replicas : \A b \in open[r] : now < b.at + MaxDelay
    /\ now' = now + 1
    /\ UNCHANGED <<claimed, stream, ingest, consumer, crashes>>

\* The process and its two halves restart; its cursor is "0-0" again.
Crash(r) ==
    /\ crashes < MaxCrashes
    /\ crashes' = crashes + 1
    /\ ingest' = [k \in Handlers |-> IF k[1] = r /\ ingest[k] = "append"
                                     THEN "dead" ELSE ingest[k]]
    /\ cursor' = [cursor EXCEPT ![r] = 0]
    /\ open' = [open EXCEPT ![r] = {}]
    /\ inFlight' = [inFlight EXCEPT ![r] = 0]
    /\ warned' = warned \ {r}
    /\ UNCHANGED <<now, claimed, stream, settled>>

-----------------------------------------------------------------------------
Ingest(k) == ClaimMessageId(k) \/ AppendRawMessage(k)
SettleSome(r) == \E b \in open[r] : \E i \in b.left : Settle(r, b, i)

Next ==
    \/ Tick
    \/ \E k \in Handlers : Ingest(k)
    \/ \E r \in Replicas : \/ ReadRawMessages(r) \/ SettleSome(r)
                          \/ TrimRawStreamBefore(r) \/ CheckLoss(r) \/ Crash(r)

Spec == Init /\ [][Next]_vars

\* The loop polls for ever and every dispatched entry settles (its own errors
\* are caught); nothing makes a notification arrive or a trim happen.
FairSpec ==
    /\ Spec
    /\ \A r \in Replicas : WF_vars(ReadRawMessages(r)) /\ WF_vars(SettleSome(r))

-----------------------------------------------------------------------------
(* Properties                                                              *)

\* Whatever links and replicas deliver a notification, in whatever order, it
\* enters the stream once (ingest.ts: claimMessageId before appendRawMessage).
EntersOnce ==
    \A i, j \in 1 .. Len(log) : log[i].id = log[j].id => i = j

\* The trim by cursor takes away an entry still in flight only if that entry was
\* read late: more than the margin less the processing time after it arrived.
\* So a consumer that keeps up can crash at any time and read its work again.
PunctualIsKept ==
    \A r \in Replicas : \A b \in open[r] : \A i \in b.left :
        i \in Present \/ i \in evicted \/ b.at - log[i].at > Margin - MaxDelay

\* What stream-id.ts says of the cutoff: trimming there never removes something
\* still needed, that is, an entry the replica has not finished with.
PendingIsKept ==
    \A r \in Replicas : \A b \in open[r] : b.left \subseteq Present \cup evicted

\* A batch gives the counter back what it took, once, whatever becomes of its
\* entries and however batches overlap: the counter is the number of entries read
\* in batches that are not settled to the last entry (consumer.ts: inFlight).
InFlightOf(r) == UNION {b.read : b \in open[r]}
CounterIsExact == \A r \in Replicas : inFlight[r] = Cardinality(InFlightOf(r))

\* The loss warning is not set off by the trims that are meant to happen, nor by
\* a restart that reads a stream trimmed long ago: only MAXLEN explains it.
AlarmIsFounded == warned # {} => evicted # {}

\* Every entry is processed in the end, or trimmed: neither the pause at the
\* in-flight limit nor a batch with a slow entry stops the loop for good.
EveryEntryServed ==
    \A i \in Positions : i \in Present ~> i \in settled \/ i <= low
==============================================================================
