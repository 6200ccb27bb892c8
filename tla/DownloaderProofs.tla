--------------------------- MODULE DownloaderProofs ----------------------------
(***************************************************************************)
(* For any jobs, links, slots, attempts and faults: Downloader keeps its   *)
(* types, and no retry takes back a completion.  While nothing fails, a job *)
(* is never left without somebody who will move it, its marker goes only   *)
(* with the decision, and every step is one of DownloadJob or none of its  *)
(* business.                                                               *)
(*                                                                         *)
(* A job is carried from the queue through an attempt, its registration and *)
(* its handlers to the next attempt (Served); three triggers, a late copy of *)
(* the notification and a retry decided earlier may all take a hand in it, *)
(* so every part says what each of them leaves behind.                     *)
(***************************************************************************)
EXTENDS Downloader, FiniteSetTheorems, SequenceTheorems, TLAPS

-----------------------------------------------------------------------------
(* What the helpers do                                                     *)

LEMMA PhaseStep ==
    ASSUME TypeOK, NEW g \in Gids, NEW p \in Phases, Phase(g, p)
    PROVE  /\ start' \in [Gids -> Attempt]
           /\ start'[g].phase = p /\ start'[g].content = start[g].content
           /\ start'[g].entry = start[g].entry
           /\ \A x \in Gids : x # g => start'[x] = start[x]
<1> DEFINE s == [start[g] EXCEPT !.phase = p]
<1>1. start \in [Gids -> Attempt] /\ start[g] \in Attempt
  BY DEF TypeOK
<1>2. s \in Attempt /\ s.phase = p /\ s.content = start[g].content /\ s.entry = start[g].entry
  BY <1>1 DEF Attempt
<1>3. start' = [start EXCEPT ![g] = s]
  BY DEF Phase
<1> HIDE DEF s
<1> QED
  BY <1>1, <1>2, <1>3

LEMMA GotoStep ==
    ASSUME TypeOK, NEW k \in Handlers, NEW next \in Active \cup Ended, Goto(k, next)
    PROVE  /\ pc' \in [Handlers -> Active \cup Ended]
           /\ pc'[k] = next
           /\ \A l \in Handlers : l # k => pc'[l] = pc[l]
BY DEF TypeOK, Goto

LEMMA HandlerParts ==
    ASSUME NEW k \in Handlers
    PROVE  k[1] \in Gids /\ k[2] \in Triggers /\ k = <<k[1], k[2]>>
BY DEF Handlers

LEMMA AllHandlers ==
    ASSUME NEW g \in Gids
    PROVE  <<g, "notify">> \in Handlers /\ <<g, "cancel">> \in Handlers
BY DEF Handlers, Triggers

\* A bounded decision, whatever decideRetry has seen.
LEMMA DecisionType ==
    ASSUME NEW f \in Fields, NEW n \in 0 .. AttemptLimit + 1, NEW d \in RetryDecisions(f, n)
    PROVE  d \in Decision
<1>1. \A seen \in SUBSET Hrefs, w \in Hrefs \cup {NoHref} : Verdicts(f, n, seen, w) \subseteq Decision
  <2> SUFFICES ASSUME NEW seen \in SUBSET Hrefs, NEW w \in Hrefs \cup {NoHref},
                      NEW v \in Verdicts(f, n, seen, w)
               PROVE  v \in Decision
    OBVIOUS
  <2> DEFINE retry == w # NoHref /\ n <= AttemptLimit
  <2>1. (IF retry THEN n + 1 ELSE 0) \in 0 .. AttemptLimit + 1
    BY LimitAssumption
  <2>2. PICK h \in Hrefs \cup {NoHref} :
            /\ v.kind \in {"RETRY_NONEED", "RETRY_OK", "RETRY_NOK"}
            /\ v = [kind |-> v.kind, promote |-> IF retry THEN w ELSE NoHref, failed |-> h,
                    newAttempt |-> IF retry THEN n + 1 ELSE 0]
    BY DEF Verdicts, Holding
  <2> HIDE DEF retry
  <2> QED
    BY <2>1, <2>2 DEF Decision
<1>2. CASE Holding(f, "wait") = {}
  BY <1>1, <1>2 DEF RetryDecisions, Holding
<1>3. CASE Holding(f, "wait") # {}
  BY <1>1, <1>3 DEF RetryDecisions, Holding
<1> QED
  BY <1>2, <1>3

\* Attempts used so far.
Used == MaxStarts - Cardinality(Free)

LEMMA UsedType ==
    ASSUME TypeOK
    PROVE  Cardinality(Free) \in Nat /\ Used \in 0 .. MaxStarts
<1>1. MaxStarts \in Nat
  BY DownloaderAssumption
<1>2. IsFiniteSet(Gids) /\ Cardinality(Gids) = MaxStarts
  BY <1>1, FS_Interval DEF Gids
<1>3. IsFiniteSet(Free) /\ Cardinality(Free) <= MaxStarts
  BY <1>2, FS_Subset DEF Free
<1>4. Cardinality(Free) \in Nat
  BY <1>3, FS_CardinalityType
<1> QED
  BY <1>1, <1>3, <1>4 DEF Used

\* One XREADGROUP: the first n entries of the queue are started on n attempts.
LEMMA PollStep ==
    ASSUME TypeOK, PollOnce
    PROVE  \E n \in Nat :
              /\ 0 < n /\ n <= Len(queue) /\ n <= BatchSize /\ n <= Cardinality(Free)
              /\ inFlight < AriaInQueue /\ inFlight' = inFlight + n
              /\ start' \in [Gids -> Attempt]
              /\ \A g \in Gids :
                    IF g \in Used + 1 .. Used + n
                    THEN /\ g - Used \in 1 .. n
                         /\ start'[g].content = queue[g - Used]
                         /\ start'[g].phase \in {"new", "decode"}
                    ELSE start'[g] = start[g]
              /\ queue \in Seq(Contents) /\ queue' \in Seq(Contents)
              /\ Len(queue) \in Nat /\ Len(queue') = Len(queue) - n
              /\ \A i \in 1 .. Len(queue') : queue'[i] = queue[i + n]
              /\ unacked' \subseteq Contents
<1> DEFINE n == IF Len(queue) < BatchSize THEN Len(queue) ELSE BatchSize
<1>1. Used \in Nat /\ MaxStarts \in Nat /\ BatchSize \in Nat
  BY UsedType, DownloaderAssumption
<1>2. queue \in Seq(Contents) /\ Len(queue) \in Nat
  BY LenProperties DEF TypeOK
<1>3. /\ n \in Nat /\ 0 < n /\ n <= Len(queue) /\ n <= BatchSize /\ n <= Cardinality(Free)
      /\ inFlight < AriaInQueue /\ inFlight' = inFlight + n
  BY <1>1, <1>2 DEF PollOnce
<1>4. /\ start' = [g \in Gids |->
                    IF g \in Used + 1 .. Used + n
                    THEN [content |-> queue[g - Used], href |-> jobHref[queue[g - Used]], entry |-> TRUE,
                          phase |-> IF queue[g - Used] \in Embedded THEN "decode" ELSE "new"]
                    ELSE start[g]]
      /\ queue' = SubSeq(queue, n + 1, Len(queue))
      /\ unacked' = unacked \cup ToSet(SubSeq(queue, 1, n))
  BY DEF PollOnce, Used
<1> HIDE DEF n
<1>5. ASSUME NEW g \in Gids, g \in Used + 1 .. Used + n
      PROVE  /\ g - Used \in 1 .. n
             /\ start'[g] \in Attempt
             /\ start'[g].content = queue[g - Used]
             /\ start'[g].phase \in {"new", "decode"}
  <2> DEFINE c == queue[g - Used]
  <2>1. g - Used \in 1 .. n
    BY <1>1, <1>3, <1>5 DEF Gids
  <2>2. c \in Contents
    BY <1>2, <1>3, <2>1, ElementOfSeq
  <2>3. jobHref[c] \in Hrefs \cup {NoHref}
    BY <2>2 DEF TypeOK
  <2>4. start'[g] = [content |-> c, href |-> jobHref[c], entry |-> TRUE,
                     phase |-> IF c \in Embedded THEN "decode" ELSE "new"]
    BY <1>4, <1>5
  <2> HIDE DEF c
  <2>5. start'[g].content = c /\ start'[g].phase \in {"new", "decode"} /\ start'[g] \in Attempt
    BY <2>2, <2>3, <2>4 DEF Attempt, Phases, Starting
  <2> QED
    BY <2>1, <2>5 DEF c
<1>6. ASSUME NEW g \in Gids, g \notin Used + 1 .. Used + n
      PROVE  start'[g] = start[g] /\ start[g] \in Attempt
  BY <1>4, <1>6 DEF TypeOK
<1>7. start' \in [Gids -> Attempt]
  <2>1. DOMAIN start' = Gids /\ start' = [g \in Gids |-> start'[g]]
    BY <1>4
  <2> QED
    BY <2>1, <1>5, <1>6
<1>8. /\ queue' \in Seq(Contents) /\ Len(queue') = Len(queue) - n
      /\ \A i \in 1 .. Len(queue') : queue'[i] = queue[i + n]
  <2>1. \A i \in n + 1 .. Len(queue) : queue[i] \in Contents
    BY <1>2, <1>3, ElementOfSeq
  <2> QED
    BY <1>2, <1>3, <1>4, <2>1, SubSeqProperties
<1>9. unacked' \subseteq Contents
  <2>1. \A i \in 1 .. n : queue[i] \in Contents
    BY <1>2, <1>3, ElementOfSeq
  <2>2. /\ SubSeq(queue, 1, n) \in Seq(Contents)
    BY <1>3, <2>1, SubSeqProperties
  <2>3. ToSet(SubSeq(queue, 1, n)) \subseteq Contents
    BY <2>2 DEF ToSet
  <2> QED
    BY <1>4, <2>3 DEF TypeOK
<1> QED
  BY <1>2, <1>3, <1>5, <1>6, <1>7, <1>8, <1>9

-----------------------------------------------------------------------------
(* Types                                                                   *)

LEMMA TypeInit == Init => TypeOK
<1> SUFFICES ASSUME Init PROVE TypeOK
  OBVIOUS
<1>1. NoStart \in Attempt /\ NoDecision \in Decision
  BY DownloaderAssumption, LimitAssumption
  DEF NoStart, Attempt, Phases, NoDecision, Decision
<1>2. EmptyFields \in Fields
  BY DEF EmptyFields, Fields, FieldValue
<1>3. attempt \in [Contents -> 0 .. AttemptLimit + 1]
  BY LimitAssumption DEF Init
<1>4. inFlight \in 0 .. AriaInQueue + BatchSize - 1 /\ copies \in 0 .. MaxCopies /\ faults \in 0 .. MaxFaults
  BY DownloaderAssumption DEF Init
<1>5. queue \in Seq(Contents)
  BY EmptySeq DEF Init
<1>6. start \in [Gids -> Attempt] /\ decision \in [Handlers -> Decision]
      /\ fields \in [Contents -> Fields]
  BY <1>1, <1>2 DEF Init
<1> QED
  BY <1>3, <1>4, <1>5, <1>6 DEF Init, TypeOK, Ended

\* The SUBSCRIBER and Redis.
LEMMA TypeOutside ==
    ASSUME TypeOK, NEW c \in Contents,
           Accept(c) \/ MarkerExpires(c) \/ \E h \in Hrefs : Copy(c, h)
    PROVE  TypeOK'
<1>1. CASE Accept(c)
  <2>1. queue' \in Seq(Contents)
    BY <1>1, AppendProperties DEF Accept, TypeOK
  <2>2. fields' \in [Contents -> Fields] /\ jobHref' \in [Contents -> Hrefs \cup {NoHref}]
    BY <1>1, DownloaderAssumption DEF Accept, TypeOK, Fields, FieldValue
  <2>3. attempt' \in [Contents -> 0 .. AttemptLimit + 1]
    BY <1>1, LimitAssumption DEF Accept, TypeOK
  <2> QED
    BY <1>1, <2>1, <2>2, <2>3 DEF Accept, TypeOK, attempts, handlers
<1>2. CASE MarkerExpires(c)
  BY <1>2 DEF MarkerExpires, TypeOK, attempts, handlers
<1>3. ASSUME NEW h \in Hrefs, Copy(c, h) PROVE TypeOK'
  <2>1. fields' \in [Contents -> Fields]
    BY <1>3 DEF Copy, TypeOK, Fields, FieldValue
  <2>2. copies' \in 0 .. MaxCopies
    <3>1. copies \in 0 .. MaxCopies
      BY DEF TypeOK
    <3> QED
      BY <1>3, <3>1, DownloaderAssumption DEF Copy
  <2> QED
    BY <1>3, <2>1, <2>2 DEF Copy, TypeOK, attempts, handlers
<1> QED
  BY <1>1, <1>2, <1>3

\* The two loops, the start of a download, aria2 and the CLEANER.
LEMMA TypeWorker ==
    ASSUME TypeOK,
           \/ PollOnce \/ PollCommands \/ Crash
           \/ \E g \in Gids : \/ Starter(g) \/ Notify(g) \/ CancelDue(g)
                             \/ \E how \in {"complete", "error"} : AriaEnds(g, how)
                             \/ StartFails(g) \/ EventLost(g)
    PROVE  TypeOK'
<1>1. CASE PollOnce
  <2>1. PICK n \in Nat :
            /\ n <= BatchSize /\ inFlight < AriaInQueue /\ inFlight' = inFlight + n
            /\ start' \in [Gids -> Attempt] /\ queue' \in Seq(Contents) /\ unacked' \subseteq Contents
    BY <1>1, PollStep
  <2>2. inFlight' \in 0 .. AriaInQueue + BatchSize - 1
    <3>1. inFlight \in Nat
      BY DownloaderAssumption DEF TypeOK
    <3> QED
      BY <2>1, <3>1, DownloaderAssumption
  <2> QED
    BY <1>1, <2>1, <2>2 DEF PollOnce, TypeOK, job, handlers
<1>2. CASE PollCommands
  BY <1>2 DEF PollCommands, TypeOK, job, Active, Acking
<1>3. CASE Crash
  <2>1. start' \in [Gids -> Attempt]
    <3>1. ASSUME NEW g \in Gids PROVE [start[g] EXCEPT !.phase = "dead"] \in Attempt /\ start[g] \in Attempt
      <4>1. start[g] \in Attempt
        BY DEF TypeOK
      <4> QED
        BY <4>1 DEF Attempt, Phases
    <3>2. start' = [g \in Gids |-> IF start[g].phase \in Starting
                                   THEN [start[g] EXCEPT !.phase = "dead"] ELSE start[g]]
      BY <1>3 DEF Crash
    <3> QED
      BY <3>1, <3>2
  <2>2. faults' \in 0 .. MaxFaults
    <3>1. faults \in 0 .. MaxFaults
      BY DEF TypeOK
    <3> QED
      BY <1>3, <3>1, DownloaderAssumption DEF Crash, Fault
  <2>3. inFlight' \in 0 .. AriaInQueue + BatchSize - 1
    <3>1. 0 \in 0 .. AriaInQueue + BatchSize - 1
      BY DownloaderAssumption
    <3> QED
      BY <1>3, <3>1 DEF Crash
  <2>4. pc' \in [Handlers -> Active \cup Ended]
    BY <1>3 DEF Crash, TypeOK, Ended
  <2>5. cancel' \in [Gids -> {"none", "scheduled", "sent"}] /\ event' \in [Gids -> BOOLEAN]
    BY <1>3 DEF Crash, TypeOK
  <2> QED
    BY <1>3, <2>1, <2>2, <2>3, <2>4, <2>5 DEF Crash, TypeOK, job
<1>4. ASSUME NEW g \in Gids, Starter(g) PROVE TypeOK'
  <2>1. {"new", "promote", "schedule", "up", "dead"} \subseteq Phases
    BY DEF Phases, Starting
  <2>2. start' \in [Gids -> Attempt]
    BY <1>4, <2>1, PhaseStep
    DEF Starter, DecodeWrite, DecodeFallback, AddUri, Promote, ScheduleCancel
  <2>3. pc' \in [Handlers -> Active \cup Ended]
    BY <1>4, AllHandlers
    DEF Starter, DecodeWrite, DecodeFallback, AddUri, Promote, ScheduleCancel, TypeOK, Active,
        Acking, handlers
  <2>4. /\ aria' \in [Gids -> {"none", "running", "complete", "error"}]
        /\ gidRec' \in [Gids -> BOOLEAN]
        /\ cancel' \in [Gids -> {"none", "scheduled", "sent"}]
    BY <1>4 DEF Starter, DecodeWrite, DecodeFallback, AddUri, Promote, ScheduleCancel, TypeOK
  <2>5. UNCHANGED <<queue, unacked, job, inFlight, event, awaited, decision, faults>>
    BY <1>4 DEF Starter, DecodeWrite, DecodeFallback, AddUri, Promote, ScheduleCancel, handlers
  <2> QED
    BY <2>2, <2>3, <2>4, <2>5 DEF TypeOK, job
<1>5. ASSUME NEW g \in Gids, Notify(g) PROVE TypeOK'
  BY <1>5, AllHandlers DEF Notify, TypeOK, job, Active, Acking
<1>6. ASSUME NEW g \in Gids, CancelDue(g) PROVE TypeOK'
  BY <1>6 DEF CancelDue, TypeOK, job, handlers
<1>7. ASSUME NEW g \in Gids, NEW how \in {"complete", "error"}, AriaEnds(g, how) PROVE TypeOK'
  BY <1>7 DEF AriaEnds, TypeOK, job, handlers
<1>8. ASSUME NEW g \in Gids, StartFails(g) PROVE TypeOK'
  <2>1. start' \in [Gids -> Attempt]
    BY <1>8, PhaseStep DEF StartFails, Phases
  <2>2. faults' \in 0 .. MaxFaults
    <3>1. faults \in 0 .. MaxFaults
      BY DEF TypeOK
    <3> QED
      BY <1>8, <3>1, DownloaderAssumption DEF StartFails, Fault
  <2>3. aria' \in [Gids -> {"none", "running", "complete", "error"}]
    BY <1>8 DEF StartFails, TypeOK
  <2> QED
    BY <1>8, <2>1, <2>2, <2>3 DEF StartFails, TypeOK, job, handlers
<1>9. ASSUME NEW g \in Gids, EventLost(g) PROVE TypeOK'
  BY <1>9 DEF EventLost, TypeOK, job, handlers
<1> QED
  BY <1>1, <1>2, <1>3, <1>4, <1>5, <1>6, <1>7, <1>8, <1>9

\* What a handler does.
LEMMA TypeHandler ==
    ASSUME TypeOK, NEW k \in Handlers,
           Handler(k) \/ StepFails(k) \/ FinishStepFails(k)
    PROVE  TypeOK'
<1>1. k[1] \in Gids /\ ContentOf(k) \in Contents
  <2>1. k[1] \in Gids
    BY HandlerParts
  <2>2. start[k[1]] \in Attempt
    BY <2>1 DEF TypeOK
  <2> QED
    BY <2>1, <2>2 DEF Attempt, ContentOf
<1>2. Released \in 0 .. AriaInQueue + BatchSize - 1
  <2>1. inFlight \in 0 .. AriaInQueue + BatchSize - 1
    BY DEF TypeOK
  <2> QED
    BY <2>1, DownloaderAssumption DEF Released
<1>3. ASSUME Fault PROVE faults' \in 0 .. MaxFaults
  <2>1. faults \in 0 .. MaxFaults
    BY DEF TypeOK
  <2> QED
    BY <1>3, <2>1, DownloaderAssumption DEF Fault
<1>4. AfterAck(k) \in {"tally", "read"}
  BY DEF AfterAck
<1>5. /\ fields[ContentOf(k)] \in Fields /\ jobHref[ContentOf(k)] \in Hrefs \cup {NoHref}
      /\ attempt[ContentOf(k)] \in 0 .. AttemptLimit + 1 /\ decision[k] \in Decision
  BY <1>1 DEF TypeOK
<1>6. \A next \in Active \cup Ended : Goto(k, next) => pc' \in [Handlers -> Active \cup Ended]
  BY GotoStep
<1>7. CASE LookupRecord(k) \/ GiveUp(k)
  <2>1. pc' \in [Handlers -> Active \cup Ended]
    BY <1>6, <1>7 DEF LookupRecord, GiveUp, Active, Acking, Ended
  <2> QED
    BY <1>7, <2>1 DEF LookupRecord, GiveUp, TypeOK, job, attempts
<1>8. CASE Clean(k)
  <2>1. pc' \in [Handlers -> Active \cup Ended]
    BY <1>4, <1>6, <1>8 DEF Clean, Active, Completing, Retrying
  <2>2. inFlight' \in 0 .. AriaInQueue + BatchSize - 1
    BY <1>2, <1>8 DEF Clean, TypeOK
  <2>3. faults' \in 0 .. MaxFaults
    BY <1>3, <1>8 DEF Clean, Fault, TypeOK
  <2>4. unacked' \subseteq Contents /\ gidRec' \in [Gids -> BOOLEAN]
    BY <1>8 DEF Clean, TypeOK
  <2> QED
    BY <1>8, <2>1, <2>2, <2>3, <2>4 DEF Clean, TypeOK, job
<1>9. CASE ReadRecord(k)
  BY <1>1, <1>9 DEF ReadRecord, Goto, TypeOK, job, Active, Completing
<1>10. ASSUME NEW next \in Ended \cup Active, Hash(k, next) PROVE TypeOK'
  <2>1. pc' \in [Handlers -> Active \cup Ended]
    BY <1>6, <1>10 DEF Hash
  <2>2. inFlight' \in 0 .. AriaInQueue + BatchSize - 1
    BY <1>2, <1>10 DEF Hash
  <2> QED
    BY <1>10, <2>1, <2>2 DEF Hash, TypeOK, job, attempts
<1>11. CASE CompleteHref(k)
  <2>1. LuaComplete(fields[ContentOf(k)], jobHref[ContentOf(k)]) \in Fields
    BY <1>5 DEF LuaComplete, Fields, FieldValue
  <2>2. fields' \in [Contents -> Fields]
    BY <1>11, <1>1, <2>1 DEF CompleteHref, TypeOK
  <2>3. pc' \in [Handlers -> Active \cup Ended]
    BY <1>6, <1>11 DEF CompleteHref, Active, Completing, Ended
  <2> QED
    BY <1>11, <2>2, <2>3 DEF CompleteHref, TypeOK, attempts
<1>12. CASE DeleteMarker(k) \/ MarkComplete(k) \/ ReportStored(k)
  <2>1. pc' \in [Handlers -> Active \cup Ended]
    BY <1>6, <1>12 DEF DeleteMarker, MarkComplete, ReportStored, Active, Completing, Ended
  <2>2. /\ marker' \in [Contents -> BOOLEAN] /\ completed' \in [Contents -> BOOLEAN]
        /\ reports' \in [Contents -> SUBSET {"stored", "failed"}]
    <3>1. CASE DeleteMarker(k) \/ MarkComplete(k)
      BY <3>1 DEF DeleteMarker, MarkComplete, TypeOK
    <3>2. CASE ReportStored(k)
      BY <3>2 DEF ReportStored, TypeOK
    <3> QED
      BY <1>12, <3>1, <3>2
  <2>3. UNCHANGED <<queue, unacked, fields, attempt, jobHref, missed, copies, inFlight, attempts,
                    awaited, decision, faults>>
    BY <1>12 DEF DeleteMarker, MarkComplete, ReportStored
  <2> QED
    BY <2>1, <2>2, <2>3 DEF TypeOK, attempts
<1>13. CASE Tally(k)
  BY <1>13 DEF Tally, Goto, TypeOK, job, attempts, Active, Retrying
<1>14. CASE Decide(k)
  <2>1. PICK d \in RetryDecisions(fields[ContentOf(k)], attempt[ContentOf(k)]) :
            /\ decision' = [decision EXCEPT ![k] = IF d.kind = "RETRY_OK" THEN d ELSE @]
            /\ Goto(k, CASE d.kind = "RETRY_OK" -> "delay"
                         [] d.kind = "RETRY_NOK" -> "nok-unmark"
                         [] OTHER -> "done")
    BY <1>14 DEF Decide
  <2>2. d \in Decision
    BY <1>5, DecisionType
  <2>3. decision' \in [Handlers -> Decision]
    BY <2>1, <2>2 DEF TypeOK
  <2>4. pc' \in [Handlers -> Active \cup Ended]
    BY <1>6, <2>1 DEF Active, Retrying, Ended
  <2> QED
    BY <1>14, <2>3, <2>4 DEF Decide, TypeOK, job, attempts
<1>15. CASE Requeue(k)
  <2>1. start' \in [Gids -> Attempt]
    <3>1. PICK g \in Gids : start' = [start EXCEPT ![g] =
                                [content |-> ContentOf(k), href |-> decision[k].promote,
                                 entry |-> FALSE, phase |-> "new"]]
      BY <1>15 DEF Requeue
    <3>2. [content |-> ContentOf(k), href |-> decision[k].promote,
           entry |-> FALSE, phase |-> "new"] \in Attempt
      BY <1>1, <1>5 DEF Decision, Attempt, Phases, Starting
    <3> QED
      BY <3>1, <3>2 DEF TypeOK
  <2>2. pc' \in [Handlers -> Active \cup Ended]
    BY <1>6, <1>15 DEF Requeue, Active, Retrying
  <2> QED
    BY <1>15, <2>1, <2>2 DEF Requeue, TypeOK, job
<1>16. CASE RetryTransition(k)
  <2>1. LuaRetry(fields[ContentOf(k)], decision[k].promote, decision[k].failed) \in Fields
    BY <1>5 DEF LuaRetry, Fields, FieldValue
  <2>2. fields' \in [Contents -> Fields]
    BY <1>16, <1>1, <2>1 DEF RetryTransition, TypeOK
  <2>3. decision[k].newAttempt \in 0 .. AttemptLimit + 1
    BY <1>5 DEF Decision
  <2>4. attempt' \in [Contents -> 0 .. AttemptLimit + 1]
    BY <1>16, <1>1, <2>3 DEF RetryTransition, TypeOK
  <2>5. decision' \in [Handlers -> Decision]
    <3>1. NoDecision \in Decision
      BY LimitAssumption DEF NoDecision, Decision
    <3> QED
      BY <1>16, <3>1 DEF RetryTransition, TypeOK
  <2>6. pc' \in [Handlers -> Active \cup Ended]
    BY <1>6, <1>16 DEF RetryTransition, Ended
  <2> QED
    BY <1>16, <2>2, <2>4, <2>5, <2>6 DEF RetryTransition, TypeOK, attempts
<1>17. CASE ExhaustMarker(k) \/ ReportFailed(k)
  <2>1. pc' \in [Handlers -> Active \cup Ended]
    BY <1>6, <1>17 DEF ExhaustMarker, ReportFailed, Active, Retrying, Ended
  <2>2. marker' \in [Contents -> BOOLEAN] /\ reports' \in [Contents -> SUBSET {"stored", "failed"}]
    <3>1. CASE ExhaustMarker(k)
      BY <3>1 DEF ExhaustMarker, TypeOK
    <3>2. CASE ReportFailed(k)
      BY <3>2 DEF ReportFailed, TypeOK
    <3> QED
      BY <1>17, <3>1, <3>2
  <2>3. UNCHANGED <<queue, unacked, fields, attempt, jobHref, completed, missed, copies, inFlight,
                    attempts, awaited, decision, faults>>
    BY <1>17 DEF ExhaustMarker, ReportFailed
  <2> QED
    BY <2>1, <2>2, <2>3 DEF TypeOK, attempts
<1>18. CASE StepFails(k)
  <2>1. faults' \in 0 .. MaxFaults
    BY <1>3, <1>18 DEF StepFails
  <2>2. pc' \in [Handlers -> Active \cup Ended]
    BY <1>6, <1>18 DEF StepFails, Ended
  <2>3. cancel' \in [Gids -> {"none", "scheduled", "sent"}] /\ awaited' \subseteq Gids
    BY <1>18 DEF StepFails, TypeOK
  <2> QED
    BY <1>18, <2>1, <2>2, <2>3 DEF StepFails, TypeOK, job
<1>19. CASE FinishStepFails(k)
  <2>1. faults' \in 0 .. MaxFaults
    BY <1>3, <1>19 DEF FinishStepFails
  <2>2. pc' \in [Handlers -> Active \cup Ended]
    BY <1>6, <1>19 DEF FinishStepFails, Active, Completing, Ended
  <2> QED
    BY <1>19, <2>1, <2>2 DEF FinishStepFails, TypeOK, job, attempts
<1> QED
  BY <1>7, <1>8, <1>9, <1>10, <1>11, <1>12, <1>13, <1>14, <1>15, <1>16, <1>17, <1>18, <1>19
  DEF Handler

LEMMA TypeNext == TypeOK /\ [Next]_vars => TypeOK'
<1> SUFFICES ASSUME TypeOK, [Next]_vars PROVE TypeOK'
  OBVIOUS
<1>1. CASE UNCHANGED vars
  BY <1>1 DEF vars, job, attempts, handlers, TypeOK
<1>2. CASE Next
  BY <1>2, TypeOutside, TypeWorker, TypeHandler DEF Next
<1> QED
  BY <1>1, <1>2

\* Every variable keeps its type: in particular the in-flight counter is never
\* negative and never passes aria-inqueue by more than a batch (InFlightCounter
\* and pollOnce, src/downloader/consumer.ts), and no attempt count passes the limit.
THEOREM TypeCorrect == Spec => []TypeOK
<1>1. Init => TypeOK
  BY TypeInit
<1>2. TypeOK /\ [Next]_vars => TypeOK'
  BY TypeNext
<1> QED
  BY <1>1, <1>2, PTL DEF Spec

-----------------------------------------------------------------------------
(* The invariant, whatever fails                                           *)

\* Attempts are taken in order, so the next one is always free.
InOrder == Free = Used + 1 .. MaxStarts

\* Nothing is known of an attempt that was not made yet.
Fresh ==
    \A g \in Gids : start[g].phase = "free" =>
        /\ aria[g] = "none" /\ ~event[g] /\ ~gidRec[g] /\ cancel[g] = "none"
        /\ g \notin awaited
        /\ pc[<<g, "notify">>] = "idle" /\ pc[<<g, "cancel">>] = "idle"

\* The worker only holds jobs the SUBSCRIBER has recorded.
Accepted(c) == jobHref[c] # NoHref
JobsAccepted ==
    /\ \A i \in 1 .. Len(queue) : Accepted(queue[i])
    /\ \A g \in Gids : start[g].phase # "free" => Accepted(start[g].content)

\* Nothing is recorded of a job before; the winner's link is, ever after.
Recorded ==
    \A c \in Contents :
        IF Accepted(c) THEN fields[c][jobHref[c]] # "none"
        ELSE /\ fields[c] = EmptyFields /\ ~marker[c] /\ ~completed[c]
             /\ reports[c] = {} /\ c \notin missed

\* An attempt is notified of once: until then nobody handles its notification.
NotifiedOnce ==
    \A g \in Gids :
        /\ event[g] => aria[g] \in {"complete", "error"}
        /\ start[g].phase \in {"new", "decode"} => aria[g] = "none"
        /\ event[g] \/ aria[g] = "running" \/ start[g].phase \in {"new", "decode"}
              => pc[<<g, "notify">>] = "idle"

\* A cancelled download is retried, never completed.
CancelRetries ==
    \A g \in Gids : pc[<<g, "cancel">>] \notin Completing \cup {"abandoned"}

Structure == InOrder /\ Fresh /\ JobsAccepted /\ Recorded /\ NotifiedOnce /\ CancelRetries

-----------------------------------------------------------------------------
(* The invariant while nothing fails                                       *)

At(c, places) == \E k \in Handlers : ContentOf(k) = c /\ pc[k] \in places

\* The command loop waits for what it started.
CommandsAwaited == \A g \in Gids : pc[<<g, "cancel">>] \in Active => g \in awaited

\* A completed link is on its way to the completion flag, or has it.
Flagged(c) == completed[c] \/ At(c, {"unmark", "flag"})
CompletionFlagged ==
    /\ \A c \in Contents : Holding(fields[c], "complete") # {} => Flagged(c)
    /\ \A k \in Handlers : pc[k] = "report" => completed[ContentOf(k)]

\* The marker is gone before anything is reported.
ReportsUnmarked ==
    /\ \A k \in Handlers : pc[k] \in {"flag", "report", "nok-report"} => ~marker[ContentOf(k)]
    /\ \A c \in Contents : marker[c] => c \notin missed /\ reports[c] = {}

\* The marker goes for a reason that stays.
Unmarked ==
    \A c \in Contents : Accepted(c) /\ ~marker[c] =>
        \/ c \in missed \/ completed[c] \/ "failed" \in reports[c]
        \/ At(c, {"flag", "nok-report"})

\* Who will move the job on: an attempt aria2 does not know yet, one registered
\* with a cancel to come or a lookup under way, or a handler past its lookup
\* that has not handed the job over to the next attempt.
Carried(g) ==
    \/ start[g].phase \in {"new", "decode", "promote"}
    \/ /\ gidRec[g]
       /\ \/ start[g].phase = "schedule"
          \/ cancel[g] \in {"scheduled", "sent"}
          \/ \E t \in Triggers : pc[<<g, t>>] = "lookup"
    \/ \E t \in Triggers : pc[<<g, t>>] \in Active \ {"lookup", "transition"}
Over(c) == Flagged(c) \/ "failed" \in reports[c] \/ At(c, {"abandoned"})
Served ==
    \A c \in Contents : Accepted(c) =>
        \/ Over(c)
        \/ Queued(c)
        \/ \E g \in Gids : start[g].phase # "free" /\ start[g].content = c /\ Carried(g)

Faultless == faults = 0 =>
    CommandsAwaited /\ CompletionFlagged /\ ReportsUnmarked /\ Unmarked /\ Served

Invariant == TypeOK /\ Structure /\ Faultless

-----------------------------------------------------------------------------
(* Attempts, handlers and jobs over a step                                 *)

LEMMA HandlerActive ==
    ASSUME TypeOK, NEW k \in Handlers, Handler(k) \/ StepFails(k) \/ FinishStepFails(k)
    PROVE  /\ pc[k] \in Active
           /\ \A l \in Handlers : l # k => pc'[l] = pc[l]
<1>1. pc[k] \in Active
  BY DEF Handler, StepFails, FinishStepFails, LookupRecord, GiveUp, Clean, ReadRecord, Hash,
         CompleteHref, DeleteMarker, MarkComplete, ReportStored, Tally, Decide, Requeue,
         RetryTransition, ExhaustMarker, ReportFailed, Active, Acking, Completing, Retrying
<1>2. \E next : Goto(k, next)
  BY DEF Handler, StepFails, FinishStepFails, LookupRecord, GiveUp, Clean, ReadRecord, Hash,
         CompleteHref, DeleteMarker, MarkComplete, ReportStored, Tally, Decide, Requeue,
         RetryTransition, ExhaustMarker, ReportFailed
<1> QED
  BY <1>1, <1>2 DEF Goto, TypeOK

\* What no handler touches, and what only the SUBSCRIBER, Redis and handlers do.
LEMMA HandlerFrame ==
    ASSUME NEW k \in Handlers, Handler(k) \/ StepFails(k) \/ FinishStepFails(k)
    PROVE  UNCHANGED <<queue, jobHref, missed, copies, aria, event>>
BY DEF Handler, StepFails, FinishStepFails, LookupRecord, GiveUp, Clean, ReadRecord, Hash,
       CompleteHref, DeleteMarker, MarkComplete, ReportStored, Tally, Decide, Requeue,
       RetryTransition, ExhaustMarker, ReportFailed, job, attempts

AttemptStep(g) == \/ Starter(g) \/ Notify(g) \/ CancelDue(g)
                  \/ \E how \in {"complete", "error"} : AriaEnds(g, how)
                  \/ StartFails(g) \/ EventLost(g)

LEMMA AttemptFrame ==
    ASSUME NEW g \in Gids, AttemptStep(g)
    PROVE  UNCHANGED <<queue, unacked, job, inFlight, awaited, decision>>
BY DEF AttemptStep, Starter, StartFails, DecodeWrite, DecodeFallback, AddUri, Promote, ScheduleCancel,
       Notify, CancelDue, EventLost, AriaEnds, handlers

LEMMA LoopFrame ==
    ASSUME PollOnce \/ PollCommands \/ Crash \/ UNCHANGED vars
    PROVE  UNCHANGED job /\ (PollOnce \/ UNCHANGED queue)
BY DEF PollOnce, PollCommands, Crash, vars

OutsideStep(c) == Accept(c) \/ MarkerExpires(c) \/ \E h \in Hrefs : Copy(c, h)

LEMMA OutsideFrame ==
    ASSUME NEW c \in Contents, OutsideStep(c)
    PROVE  UNCHANGED <<unacked, inFlight, attempts, handlers, faults, completed, reports>>
BY DEF OutsideStep, Accept, MarkerExpires, Copy

\* The steps, grouped.
LEMMA Steps ==
    [Next]_vars =>
        \/ \E c \in Contents : OutsideStep(c)
        \/ PollOnce \/ PollCommands \/ Crash \/ UNCHANGED vars
        \/ \E g \in Gids : AttemptStep(g)
        \/ \E k \in Handlers : Handler(k) \/ StepFails(k) \/ FinishStepFails(k)
BY DEF Next, OutsideStep, AttemptStep

\* A handler works for an attempt that was made, for a job that was accepted.
LEMMA HandlerOfJob ==
    ASSUME TypeOK, Fresh, JobsAccepted, NEW k \in Handlers, pc[k] # "idle"
    PROVE  /\ k[1] \in Gids /\ start[k[1]].phase # "free"
           /\ ContentOf(k) \in Contents /\ Accepted(ContentOf(k))
<1>1. k[1] \in Gids /\ k[2] \in Triggers /\ k = <<k[1], k[2]>>
  BY HandlerParts
<1>2. start[k[1]].phase # "free"
  <2>1. k = <<k[1], "notify">> \/ k = <<k[1], "cancel">>
    BY <1>1 DEF Triggers
  <2>2. pc[<<k[1], "notify">>] # "idle" \/ pc[<<k[1], "cancel">>] # "idle"
    BY <2>1, Zenon
  <2> QED
    BY <1>1, <2>2 DEF Fresh
<1>3. start[k[1]] \in Attempt
  BY <1>1 DEF TypeOK
<1> QED
  BY <1>1, <1>2, <1>3 DEF JobsAccepted, Attempt, ContentOf

\* n attempts more: the next ones in order.
LEMMA NextAttempts ==
    ASSUME TypeOK, InOrder, NEW n \in Nat, n <= Cardinality(Free),
           \A g \in Gids : start'[g].phase = "free"
                              <=> start[g].phase = "free" /\ g \notin Used + 1 .. Used + n
    PROVE  InOrder'
<1>1. MaxStarts \in Nat /\ Used \in Nat /\ Cardinality(Free) \in Nat
  BY UsedType, DownloaderAssumption
<1>2. Used + n <= MaxStarts
  BY <1>1 DEF Used
<1>3. Free' = Used + n + 1 .. MaxStarts
  <2>1. \A g \in Gids : start[g].phase = "free" <=> g \in Used + 1 .. MaxStarts
    BY DEF InOrder, Free
  <2>2. \A g \in Gids : start'[g].phase = "free" <=> g \in Used + n + 1 .. MaxStarts
    BY <1>1, <2>1 DEF Gids
  <2>3. Used + n + 1 .. MaxStarts \subseteq Gids
    BY <1>1 DEF Gids
  <2> QED
    BY <2>2, <2>3 DEF Free
<1>4. Cardinality(Free') = MaxStarts - (Used + n)
  <2>1. Used + n + 1 \in Int /\ MaxStarts \in Int
    BY <1>1
  <2>2. Cardinality(Used + n + 1 .. MaxStarts)
           = IF Used + n + 1 > MaxStarts THEN 0 ELSE MaxStarts - (Used + n + 1) + 1
    BY <2>1, FS_Interval
  <2> QED
    BY <1>1, <1>2, <1>3, <2>2
<1>5. Used' = Used + n
  BY <1>1, <1>4 DEF Used
<1> QED
  BY <1>3, <1>5 DEF InOrder

LEMMA SameAttempts ==
    ASSUME InOrder, \A g \in Gids : start'[g].phase = "free" <=> start[g].phase = "free"
    PROVE  InOrder'
<1>1. Free' = Free
  BY DEF Free
<1> QED
  BY <1>1 DEF InOrder, Used

\* Attempts that were made do not change when others are.
LEMMA OldAttempt ==
    ASSUME TypeOK, InOrder, NEW g \in Gids, start[g].phase # "free",
           PollOnce \/ \E k \in Handlers : Requeue(k)
    PROVE  start'[g] = start[g]
<1>1. /\ MaxStarts \in Nat /\ Used \in Nat /\ Cardinality(Free) \in Nat
      /\ start \in [Gids -> Attempt]
  BY UsedType, DownloaderAssumption DEF TypeOK
<1>2. g \notin Used + 1 .. MaxStarts
  BY DEF InOrder, Free
<1>3. CASE PollOnce
  <2>1. PICK n \in Nat :
          /\ n <= Cardinality(Free)
          /\ \A x \in Gids : IF x \in Used + 1 .. Used + n THEN TRUE ELSE start'[x] = start[x]
    BY <1>3, PollStep
  <2>2. Used + n <= MaxStarts
    BY <1>1, <2>1 DEF Used
  <2> QED
    BY <1>1, <1>2, <2>1, <2>2 DEF Gids
<1>4. ASSUME NEW k \in Handlers, Requeue(k) PROVE start'[g] = start[g]
  <2>1. start' = [start EXCEPT ![Used + 1] = start'[Used + 1]] /\ Used + 1 \in Gids
    BY <1>1, <1>4 DEF Requeue, Used
  <2>2. g # Used + 1
    BY <1>1, <1>2, <2>1 DEF Gids
  <2> QED
    BY <1>1, <2>1, <2>2
<1> QED
  BY <1>3, <1>4

\* An attempt keeps its job; a new one is of an accepted job.
AttemptKept(g) == /\ start'[g].phase # "free" /\ start'[g].content = start[g].content
AttemptMade(g) == /\ start'[g].phase \in {"new", "decode"}
                  /\ Accepted(start'[g].content)
                  /\ UNCHANGED <<aria, event, gidRec, cancel, awaited>>
                  /\ \A t \in Triggers : pc'[<<g, t>>] = pc[<<g, t>>]

LEMMA StartStep ==
    ASSUME TypeOK, Structure, [Next]_vars
    PROVE  /\ InOrder'
           /\ \A g \in Gids : start[g].phase # "free" => AttemptKept(g)
           /\ \A g \in Gids : start[g].phase = "free" /\ start'[g].phase # "free" => AttemptMade(g)
<1> DEFINE Goal == /\ InOrder'
                   /\ \A g \in Gids : start[g].phase # "free" => AttemptKept(g)
                   /\ \A g \in Gids : start[g].phase = "free" /\ start'[g].phase # "free"
                                         => AttemptMade(g)
<1>1. ASSUME UNCHANGED start PROVE Goal
  BY <1>1, SameAttempts DEF Structure, AttemptKept
<1>2. ASSUME NEW g \in Gids, NEW p \in Phases \ {"free"}, start[g].phase # "free", Phase(g, p)
      PROVE  Goal
  <2>1. \A x \in Gids : /\ start'[x].phase = "free" <=> start[x].phase = "free"
                        /\ start'[x].content = start[x].content
    BY <1>2, PhaseStep
  <2> QED
    BY <2>1, SameAttempts DEF Structure, AttemptKept
<1>3. ASSUME PollOnce PROVE Goal
  <2>1. PICK n \in Nat :
              /\ 0 < n /\ n <= Len(queue) /\ n <= Cardinality(Free)
              /\ \A g \in Gids :
                    IF g \in Used + 1 .. Used + n
                    THEN /\ g - Used \in 1 .. n
                         /\ start'[g].content = queue[g - Used]
                         /\ start'[g].phase \in {"new", "decode"}
                    ELSE start'[g] = start[g]
              /\ Len(queue) \in Nat
    BY <1>3, PollStep
  <2>2. \A g \in Gids : g \in Used + 1 .. Used + n => start[g].phase = "free"
    <3>1. MaxStarts \in Nat /\ Used \in Nat /\ Cardinality(Free) \in Nat
      BY UsedType, DownloaderAssumption
    <3>2. Used + n <= MaxStarts
      BY <2>1, <3>1 DEF Used
    <3>3. \A g \in Used + 1 .. Used + n : g \in Free
      BY <2>1, <3>1, <3>2 DEF Structure, InOrder
    <3> QED
      BY <3>3 DEF Free
  <2>3. \A g \in Gids : start'[g].phase = "free"
                           <=> start[g].phase = "free" /\ g \notin Used + 1 .. Used + n
    BY <2>1, <2>2
  <2>4. InOrder'
    BY <2>1, <2>3, NextAttempts DEF Structure
  <2>5. \A i \in 1 .. n : Accepted(queue[i])
    BY <2>1 DEF Structure, JobsAccepted
  <2>6. UNCHANGED <<aria, event, gidRec, cancel, awaited, pc>>
    BY <1>3 DEF PollOnce, handlers
  <2>7. \A g \in Gids : start[g].phase # "free" => AttemptKept(g)
    BY <2>1, <2>2 DEF AttemptKept
  <2>8. ASSUME NEW g \in Gids, start[g].phase = "free", start'[g].phase # "free"
        PROVE  AttemptMade(g)
    <3>1. g \in Used + 1 .. Used + n
      BY <2>3, <2>8
    <3> QED
      BY <2>1, <2>5, <2>6, <3>1 DEF AttemptMade
  <2> QED
    BY <2>4, <2>7, <2>8
<1>4. ASSUME NEW k \in Handlers, Requeue(k) PROVE Goal
  <2>1. /\ Used + 1 \in Gids
        /\ start' = [start EXCEPT ![Used + 1] = [content |-> ContentOf(k),
                                                 href |-> decision[k].promote,
                                                 entry |-> FALSE, phase |-> "new"]]
        /\ pc[k] = "delay" /\ Goto(k, "transition")
        /\ UNCHANGED <<aria, event, gidRec, cancel, awaited>>
    BY <1>4 DEF Requeue, Used
  <2>2. start \in [Gids -> Attempt] /\ Used \in Nat /\ Cardinality(Free) \in Nat /\ MaxStarts \in Nat
    BY UsedType, DownloaderAssumption DEF TypeOK
  <2>3. /\ start'[Used + 1].phase = "new" /\ start'[Used + 1].content = ContentOf(k)
        /\ \A g \in Gids : g # Used + 1 => start'[g] = start[g]
    BY <2>1, <2>2
  <2>4. start[Used + 1].phase = "free"
    <3>1. Used + 1 \in Free
      BY <2>1, <2>2 DEF Structure, InOrder, Gids
    <3> QED
      BY <3>1 DEF Free
  <2>5. InOrder'
    <3>1. \A g \in Gids : start'[g].phase = "free"
                           <=> start[g].phase = "free" /\ g \notin Used + 1 .. Used + 1
      BY <2>2, <2>3 DEF Gids
    <3>2. 1 <= Cardinality(Free)
      BY <2>1, <2>2 DEF Used, Gids
    <3> QED
      BY <3>1, <3>2, NextAttempts DEF Structure
  <2>6. k[1] # Used + 1 /\ Accepted(ContentOf(k))
    BY <2>1, <2>4, HandlerOfJob DEF Structure
  <2>7. \A l \in Handlers : l # k => pc'[l] = pc[l]
    BY <2>1, GotoStep DEF Active, Retrying
  <2>8. \A t \in Triggers : pc'[<<Used + 1, t>>] = pc[<<Used + 1, t>>]
    BY <2>1, <2>6, <2>7 DEF Handlers
  <2>9. AttemptMade(Used + 1)
    BY <2>1, <2>3, <2>6, <2>8 DEF AttemptMade
  <2>10. \A g \in Gids : start[g].phase # "free" => AttemptKept(g)
    BY <2>3, <2>4 DEF AttemptKept
  <2> QED
    BY <2>3, <2>5, <2>9, <2>10
<1>5. ASSUME Crash PROVE Goal
  <2>1. ASSUME NEW g \in Gids PROVE /\ start'[g].phase = "free" <=> start[g].phase = "free"
                                    /\ start'[g].content = start[g].content
    <3>1. start' = [x \in Gids |-> IF start[x].phase \in Starting
                                   THEN [start[x] EXCEPT !.phase = "dead"] ELSE start[x]]
      BY <1>5 DEF Crash
    <3>2. start[g] \in Attempt
      BY DEF TypeOK
    <3> QED
      BY <3>1, <3>2 DEF Starting, Attempt
  <2> QED
    BY <2>1, SameAttempts DEF Structure, AttemptKept
<1> HIDE DEF Goal
<1>6. ASSUME NEW c \in Contents, OutsideStep(c) PROVE Goal
  BY <1>1, <1>6, OutsideFrame DEF attempts
<1>7. ASSUME NEW g \in Gids, Starter(g) \/ StartFails(g) PROVE Goal
  <2>1. start[g].phase # "free"
    BY <1>7 DEF Starter, StartFails, DecodeWrite, DecodeFallback, AddUri, Promote, ScheduleCancel, Starting
  <2>2. \E p \in {"new", "promote", "schedule", "up", "dead"} : Phase(g, p)
    BY <1>7 DEF Starter, StartFails, DecodeWrite, DecodeFallback, AddUri, Promote, ScheduleCancel
  <2>3. {"new", "promote", "schedule", "up", "dead"} \subseteq Phases \ {"free"}
    BY DEF Phases, Starting
  <2> QED
    BY <1>2, <2>1, <2>2, <2>3
<1>8. ASSUME NEW g \in Gids, \/ Notify(g) \/ CancelDue(g) \/ EventLost(g)
                             \/ \E how \in {"complete", "error"} : AriaEnds(g, how)
      PROVE Goal
  BY <1>1, <1>8 DEF Notify, CancelDue, EventLost, AriaEnds
<1>9. ASSUME NEW k \in Handlers, Handler(k) \/ StepFails(k) \/ FinishStepFails(k) PROVE Goal
  <2>1. CASE Requeue(k)
    BY <1>4, <2>1
  <2>2. CASE ~Requeue(k)
    <3>1. UNCHANGED start
      BY <1>9, <2>2 DEF Handler, StepFails, FinishStepFails, LookupRecord, GiveUp, Clean, ReadRecord, Hash,
         CompleteHref, DeleteMarker, MarkComplete, ReportStored, Tally, Decide,
         RetryTransition, ExhaustMarker, ReportFailed, attempts
    <3> QED
      BY <1>1, <3>1
  <2> QED
    BY <2>1, <2>2
<1>10. ASSUME UNCHANGED vars \/ PollCommands PROVE Goal
  BY <1>1, <1>10 DEF vars, attempts, PollCommands
<1> QED
  BY <1>3, <1>5, <1>6, <1>7, <1>8, <1>9, <1>10, Steps DEF AttemptStep, Goal

LEMMA FreshStep ==
    ASSUME TypeOK, Structure, [Next]_vars
    PROVE  Fresh'
<1> SUFFICES ASSUME NEW g \in Gids, start'[g].phase = "free"
             PROVE  /\ aria'[g] = "none" /\ ~event'[g] /\ ~gidRec'[g] /\ cancel'[g] = "none"
                    /\ g \notin awaited'
                    /\ pc'[<<g, "notify">>] = "idle" /\ pc'[<<g, "cancel">>] = "idle"
  BY DEF Fresh
<1> DEFINE Goal == /\ aria'[g] = "none" /\ ~event'[g] /\ ~gidRec'[g] /\ cancel'[g] = "none"
                   /\ g \notin awaited'
                   /\ pc'[<<g, "notify">>] = "idle" /\ pc'[<<g, "cancel">>] = "idle"
<1>1. start[g].phase = "free"
  BY StartStep DEF AttemptKept
<1>2. /\ aria[g] = "none" /\ ~event[g] /\ ~gidRec[g] /\ cancel[g] = "none" /\ g \notin awaited
      /\ pc[<<g, "notify">>] = "idle" /\ pc[<<g, "cancel">>] = "idle"
  BY <1>1 DEF Structure, Fresh
<1>3. <<g, "notify">> \in Handlers /\ <<g, "cancel">> \in Handlers
  BY AllHandlers
<1>4. ASSUME UNCHANGED <<aria, event, gidRec, cancel, awaited, pc>> PROVE Goal
  BY <1>2, <1>4
<1>5. ASSUME NEW c \in Contents, OutsideStep(c) PROVE Goal
  BY <1>4, <1>5, OutsideFrame DEF attempts, handlers
<1>6. ASSUME PollCommands PROVE Goal
  BY <1>2, <1>3, <1>6 DEF PollCommands
<1>7. ASSUME Crash PROVE Goal
  BY <1>2, <1>3, <1>7 DEF Crash, Active, Acking, Completing, Retrying
<1>8. ASSUME NEW x \in Gids, Starter(x) \/ StartFails(x) PROVE Goal
  <2>1. x # g
    BY <1>1, <1>8 DEF Starter, StartFails, DecodeWrite, DecodeFallback, AddUri, Promote, ScheduleCancel, Starting
  <2> QED
    BY <1>2, <1>3, <1>8, <2>1 DEF Starter, StartFails, DecodeWrite, DecodeFallback, AddUri, Promote,
       ScheduleCancel, handlers, TypeOK
<1>9. ASSUME NEW x \in Gids, \/ Notify(x) \/ CancelDue(x) \/ EventLost(x)
                             \/ \E how \in {"complete", "error"} : AriaEnds(x, how)
      PROVE Goal
  BY <1>2, <1>3, <1>9 DEF Notify, CancelDue, EventLost, AriaEnds, handlers, TypeOK
<1>10. ASSUME NEW k \in Handlers, Handler(k) \/ StepFails(k) \/ FinishStepFails(k) PROVE Goal
  <2>1. pc[k] \in Active /\ \A l \in Handlers : l # k => pc'[l] = pc[l]
    BY <1>10, HandlerActive
  <2>2. pc[k] # "idle"
    BY <2>1 DEF Active, Acking, Completing, Retrying
  <2>3. k[1] \in Gids /\ k[1] # g
    BY <1>1, <2>2, HandlerOfJob DEF Structure
  <2>4. pc'[<<g, "notify">>] = "idle" /\ pc'[<<g, "cancel">>] = "idle"
    BY <1>2, <1>3, <2>1, <2>2
  <2>5. aria' = aria /\ event' = event
    BY <1>10, HandlerFrame
  <2>6. gidRec'[g] = gidRec[g]
    BY <1>10, <2>3 DEF Handler, StepFails, FinishStepFails, LookupRecord, GiveUp, Clean, ReadRecord, Hash,
         CompleteHref, DeleteMarker, MarkComplete, ReportStored, Tally, Decide, Requeue,
         RetryTransition, ExhaustMarker, ReportFailed, attempts, TypeOK
  <2>7. cancel'[g] = "none" /\ g \notin awaited'
    BY <1>2, <1>10, <2>3 DEF Handler, StepFails, FinishStepFails, LookupRecord, GiveUp, Clean, ReadRecord, Hash,
         CompleteHref, DeleteMarker, MarkComplete, ReportStored, Tally, Decide, Requeue,
         RetryTransition, ExhaustMarker, ReportFailed, attempts, TypeOK
  <2> QED
    BY <1>2, <2>4, <2>5, <2>6, <2>7
<1>11. ASSUME PollOnce PROVE Goal
  BY <1>4, <1>11 DEF PollOnce, handlers
<1>12. ASSUME UNCHANGED vars PROVE Goal
  BY <1>4, <1>12 DEF vars, attempts, handlers
<1> HIDE DEF Goal
<1>13. Goal
  BY <1>5, <1>6, <1>7, <1>8, <1>9, <1>10, <1>11, <1>12, Steps DEF AttemptStep
<1> QED
  BY <1>13 DEF Goal

\* Only the SUBSCRIBER writes the stored notification, and once.
LEMMA AcceptedOnce ==
    ASSUME TypeOK, [Next]_vars
    PROVE  \A c \in Contents : \/ jobHref'[c] = jobHref[c]
                               \/ ~Accepted(c) /\ Accepted(c)' /\ Accept(c)
<1>1. ASSUME NEW c \in Contents, Accept(c)
      PROVE  \A x \in Contents : \/ jobHref'[x] = jobHref[x]
                                 \/ x = c /\ ~Accepted(x) /\ Accepted(x)'
  BY <1>1, DownloaderAssumption, NoHrefAssumption DEF Accept, Accepted, TypeOK
<1>2. ASSUME UNCHANGED jobHref PROVE \A x \in Contents : jobHref'[x] = jobHref[x]
  BY <1>2
<1>3. ASSUME NEW c \in Contents, MarkerExpires(c) \/ \E h \in Hrefs : Copy(c, h)
      PROVE  UNCHANGED jobHref
  BY <1>3 DEF MarkerExpires, Copy
<1> QED
  BY <1>1, <1>2, <1>3, Steps, HandlerFrame, AttemptFrame, LoopFrame DEF OutsideStep, job

LEMMA JobsAcceptedStep ==
    ASSUME TypeOK, Structure, [Next]_vars
    PROVE  JobsAccepted'
<1>1. \A c \in Contents : Accepted(c) => Accepted(c)'
  BY AcceptedOnce DEF Accepted
<1>2. \A g \in Gids : start'[g].phase # "free" => start'[g].content \in Contents
  BY TypeNext DEF TypeOK, Attempt
<1>3. ASSUME NEW g \in Gids, start'[g].phase # "free" PROVE Accepted(start[g].content)'
  <2>1. Accepted(start'[g].content)
    <3>1. CASE start[g].phase # "free"
      BY <3>1, StartStep DEF AttemptKept, Structure, JobsAccepted
    <3>2. CASE start[g].phase = "free"
      BY <1>3, <3>2, StartStep DEF AttemptMade
    <3> QED
      BY <3>1, <3>2
  <2>2. jobHref'[start'[g].content] # NoHref
    BY <1>1, <1>2, <1>3, <2>1 DEF Accepted
  <2> QED
    BY <2>2 DEF Accepted
<1>4. queue \in Seq(Contents) /\ queue' \in Seq(Contents) /\ Len(queue) \in Nat /\ Len(queue') \in Nat
  BY TypeNext, LenProperties DEF TypeOK
<1>5. ASSUME NEW i \in 1 .. Len(queue') PROVE jobHref'[queue'[i]] # NoHref
  <2>1. \A j \in 1 .. Len(queue) : queue[j] \in Contents /\ jobHref'[queue[j]] # NoHref
    BY <1>1, <1>4, ElementOfSeq DEF Structure, JobsAccepted, Accepted
  <2>2. CASE UNCHANGED queue
    BY <2>1, <2>2
  <2>3. ASSUME NEW c \in Contents, Accept(c) PROVE jobHref'[queue'[i]] # NoHref
    <3>1. queue' = Append(queue, c) /\ jobHref'[c] # NoHref
      BY <2>3, DownloaderAssumption, NoHrefAssumption DEF Accept, TypeOK
    <3>2. /\ Len(queue') = Len(queue) + 1 /\ queue'[Len(queue) + 1] = c
          /\ \A j \in 1 .. Len(queue) : queue'[j] = queue[j]
      BY <1>4, <3>1, AppendProperties
    <3>3. CASE i = Len(queue) + 1
      BY <3>1, <3>2, <3>3
    <3>4. CASE i \in 1 .. Len(queue)
      BY <2>1, <3>2, <3>4
    <3> QED
      BY <1>4, <3>2, <3>3, <3>4
  <2>4. CASE PollOnce
    <3>1. PICK n \in Nat : /\ Len(queue') = Len(queue) - n
                           /\ \A j \in 1 .. Len(queue') : queue'[j] = queue[j + n]
      BY <2>4, PollStep
    <3>2. i + n \in 1 .. Len(queue)
      BY <1>4, <3>1
    <3> QED
      BY <2>1, <3>1, <3>2
  <2>5. ASSUME NEW c \in Contents, MarkerExpires(c) \/ \E h \in Hrefs : Copy(c, h)
        PROVE  UNCHANGED queue
    BY <2>5 DEF MarkerExpires, Copy
  <2> QED
    BY <2>2, <2>3, <2>4, <2>5, Steps, HandlerFrame, AttemptFrame, LoopFrame DEF OutsideStep
<1> QED
  BY <1>3, <1>5 DEF JobsAccepted, Accepted

\* A link stays once recorded, and a completed one is only written over by a copy.
LEMMA FieldStep ==
    ASSUME TypeOK, Structure, [Next]_vars, NEW c \in Contents, NEW h \in Hrefs
    PROVE  /\ fields[c][h] # "none" => fields'[c][h] # "none"
           /\ fields[c][h] = "complete" => fields'[c][h] \in {"complete", "wait"}
           /\ fields'[c][h] = "complete" =>
                 \/ fields[c][h] = "complete"
                 \/ \E k \in Handlers : CompleteHref(k) /\ ContentOf(k) = c
<1> DEFINE Goal == /\ fields[c][h] # "none" => fields'[c][h] # "none"
                   /\ fields[c][h] = "complete" => fields'[c][h] \in {"complete", "wait"}
                   /\ fields'[c][h] = "complete" =>
                         \/ fields[c][h] = "complete"
                         \/ \E k \in Handlers : CompleteHref(k) /\ ContentOf(k) = c
<1>1. fields \in [Contents -> Fields] /\ fields[c] \in [Hrefs -> FieldValue]
  BY DEF TypeOK, Fields
<1>2. ASSUME UNCHANGED fields PROVE Goal
  BY <1>2
<1>3. ASSUME NEW x \in Contents, Accept(x) PROVE Goal
  <2>1. fields[x] = EmptyFields
    BY <1>3 DEF Accept, Structure, Recorded, Accepted
  <2>2. x = c => fields[c][h] = "none"
    BY <2>1 DEF EmptyFields
  <2>3. x # c => fields'[c] = fields[c]
    BY <1>1, <1>3 DEF Accept
  <2>4. x = c => fields'[c][h] # "complete"
    <3>1. fields' = [fields EXCEPT ![x][JobLink[x]] = "queue"] /\ JobLink[x] \in Hrefs
      BY <1>3, DownloaderAssumption DEF Accept
    <3>2. fields[x][h] = "none"
      BY <2>1 DEF EmptyFields
    <3> QED
      BY <1>1, <3>1, <3>2
  <2> QED
    BY <2>2, <2>3, <2>4
<1>4. ASSUME NEW x \in Contents, NEW l \in Hrefs, Copy(x, l) PROVE Goal
  <2>1. fields' = [fields EXCEPT ![x][l] = "wait"]
    BY <1>4 DEF Copy
  <2>2. fields'[c][h] = "wait" \/ fields'[c][h] = fields[c][h]
    BY <1>1, <2>1 DEF Fields
  <2> QED
    BY <2>2
<1>5. ASSUME NEW k \in Handlers, CompleteHref(k) PROVE Goal
  <2>1. fields' = [fields EXCEPT ![ContentOf(k)] = LuaComplete(@, jobHref[ContentOf(k)])]
    BY <1>5 DEF CompleteHref
  <2>2. \/ fields'[c] = fields[c]
        \/ fields'[c] = LuaComplete(fields[c], jobHref[c]) /\ ContentOf(k) = c
    BY <1>1, <2>1
  <2>3. LuaComplete(fields[c], jobHref[c])[h] \in {fields[c][h], "complete"}
    BY <1>1 DEF LuaComplete
  <2> QED
    BY <1>5, <2>2, <2>3
<1>6. ASSUME NEW k \in Handlers, RetryTransition(k) PROVE Goal
  <2>1. fields' = [fields EXCEPT ![ContentOf(k)] = LuaRetry(@, decision[k].promote, decision[k].failed)]
    BY <1>6 DEF RetryTransition
  <2>2. fields'[c] = fields[c] \/ fields'[c] = LuaRetry(fields[c], decision[k].promote, decision[k].failed)
    BY <1>1, <2>1
  <2>3. \/ LuaRetry(fields[c], decision[k].promote, decision[k].failed)[h] = fields[c][h]
        \/ /\ fields[c][h] \in {"queue", "wait"}
           /\ LuaRetry(fields[c], decision[k].promote, decision[k].failed)[h] \in {"error", "queue"}
    BY DEF LuaRetry
  <2> QED
    BY <2>2, <2>3
<1>7. ASSUME NEW k \in Handlers, Handler(k) \/ StepFails(k) \/ FinishStepFails(k),
             ~CompleteHref(k), ~RetryTransition(k)
      PROVE  UNCHANGED fields
  BY <1>7 DEF Handler, StepFails, FinishStepFails, LookupRecord, GiveUp, Clean, ReadRecord, Hash,
       DeleteMarker, MarkComplete, ReportStored, Tally, Decide, Requeue,
       ExhaustMarker, ReportFailed, job
<1>8. ASSUME NEW x \in Contents, MarkerExpires(x) PROVE UNCHANGED fields
  BY <1>8 DEF MarkerExpires
<1> HIDE DEF Goal
<1> QED
  BY <1>2, <1>3, <1>4, <1>5, <1>6, <1>7, <1>8, Steps, AttemptFrame, LoopFrame
  DEF OutsideStep, job, Goal

LEMMA RecordedStep ==
    ASSUME TypeOK, Structure, [Next]_vars
    PROVE  Recorded'
<1> SUFFICES ASSUME NEW c \in Contents
             PROVE  IF jobHref'[c] # NoHref THEN fields'[c][jobHref'[c]] # "none"
                    ELSE /\ fields'[c] = EmptyFields /\ ~marker'[c] /\ ~completed'[c]
                         /\ reports'[c] = {} /\ c \notin missed'
  BY DEF Recorded, Accepted
<1>1. CASE Accepted(c)
  <2>1. jobHref'[c] = jobHref[c] /\ jobHref[c] \in Hrefs
    BY <1>1, AcceptedOnce DEF Accepted, TypeOK
  <2>2. fields[c][jobHref[c]] # "none"
    BY <1>1 DEF Structure, Recorded
  <2> QED
    BY <1>1, <2>1, <2>2, FieldStep DEF Accepted
<1>2. CASE Accept(c)
  <2>1. jobHref'[c] = JobLink[c] /\ JobLink[c] \in Hrefs
    BY <1>2, DownloaderAssumption DEF Accept, TypeOK
  <2>2. fields'[c][JobLink[c]] = "queue"
    BY <1>2, <2>1 DEF Accept, TypeOK, Fields
  <2> QED
    BY <2>1, <2>2, NoHrefAssumption
<1>3. CASE ~Accepted(c) /\ ~Accept(c)
  <2>1. jobHref'[c] = NoHref
    BY <1>3, AcceptedOnce DEF Accepted
  <2>2. /\ fields[c] = EmptyFields /\ ~marker[c] /\ ~completed[c]
        /\ reports[c] = {} /\ c \notin missed
    BY <1>3 DEF Structure, Recorded
  <2> DEFINE Goal == /\ fields'[c] = EmptyFields /\ ~marker'[c] /\ ~completed'[c]
                     /\ reports'[c] = {} /\ c \notin missed'
  <2>3. ASSUME UNCHANGED job PROVE Goal
    BY <2>2, <2>3 DEF job
  <2>4. ASSUME NEW x \in Contents, OutsideStep(x) PROVE Goal
    BY <1>3, <2>2, <2>4 DEF OutsideStep, Accept, Copy, MarkerExpires, Accepted, TypeOK
  <2>5. ASSUME NEW k \in Handlers, Handler(k) \/ StepFails(k) \/ FinishStepFails(k) PROVE Goal
    <3>1. pc[k] # "idle"
      BY <2>5, HandlerActive DEF Active, Acking, Completing, Retrying
    <3>2. ContentOf(k) \in Contents /\ ContentOf(k) # c
      BY <1>3, <3>1, HandlerOfJob DEF Structure
    <3>3. fields'[c] = fields[c] /\ marker'[c] = marker[c]
      BY <2>5, <3>2 DEF Handler, StepFails, FinishStepFails, LookupRecord, GiveUp, Clean, ReadRecord, Hash,
         CompleteHref, DeleteMarker, MarkComplete, ReportStored, Tally, Decide, Requeue,
         RetryTransition, ExhaustMarker, ReportFailed, job, TypeOK
    <3>4. completed'[c] = completed[c] /\ reports'[c] = reports[c]
      BY <2>5, <3>2 DEF Handler, StepFails, FinishStepFails, LookupRecord, GiveUp, Clean, ReadRecord, Hash,
         CompleteHref, DeleteMarker, MarkComplete, ReportStored, Tally, Decide, Requeue,
         RetryTransition, ExhaustMarker, ReportFailed, job, TypeOK
    <3> QED
      BY <2>2, <2>5, <3>3, <3>4, HandlerFrame
  <2> HIDE DEF Goal
  <2>6. Goal
    BY <2>3, <2>4, <2>5, Steps, AttemptFrame, LoopFrame
  <2> QED
    BY <2>1, <2>6 DEF Goal
<1> QED
  BY <1>1, <1>2, <1>3

LEMMA NotifiedOnceStep ==
    ASSUME TypeOK, Structure, [Next]_vars
    PROVE  NotifiedOnce'
<1> DEFINE Ok(g) == /\ event'[g] => aria'[g] \in {"complete", "error"}
                    /\ start'[g].phase \in {"new", "decode"} => aria'[g] = "none"
                    /\ event'[g] \/ aria'[g] = "running" \/ start'[g].phase \in {"new", "decode"}
                          => pc'[<<g, "notify">>] = "idle"
<1> SUFFICES ASSUME NEW g \in Gids PROVE Ok(g)
  BY DEF NotifiedOnce
<1>1. /\ event[g] => aria[g] \in {"complete", "error"}
      /\ start[g].phase \in {"new", "decode"} => aria[g] = "none"
      /\ event[g] \/ aria[g] = "running" \/ start[g].phase \in {"new", "decode"}
            => pc[<<g, "notify">>] = "idle"
  BY DEF Structure, NotifiedOnce
<1>2. start \in [Gids -> Attempt] /\ event \in [Gids -> BOOLEAN]
      /\ aria \in [Gids -> {"none", "running", "complete", "error"}]
      /\ pc \in [Handlers -> Active \cup Ended] /\ <<g, "notify">> \in Handlers
  BY AllHandlers DEF TypeOK
<1>3. ASSUME UNCHANGED <<event, aria>>, start'[g] = start[g],
             pc'[<<g, "notify">>] = pc[<<g, "notify">>]
      PROVE  Ok(g)
  BY <1>1, <1>3
<1>4. ASSUME start[g].phase = "free", start'[g].phase # "free" PROVE Ok(g)
  <2>1. /\ UNCHANGED <<aria, event>> /\ pc'[<<g, "notify">>] = pc[<<g, "notify">>]
    BY <1>4, StartStep DEF AttemptMade, Triggers
  <2>2. aria[g] = "none" /\ ~event[g] /\ pc[<<g, "notify">>] = "idle"
    BY <1>4 DEF Structure, Fresh
  <2> QED
    BY <2>1, <2>2
<1>5. ASSUME start[g].phase = "free", start'[g].phase = "free" PROVE Ok(g)
  BY <1>5, FreshStep DEF Fresh
<1>6. ASSUME start[g].phase # "free" PROVE Ok(g)
  <2>1. ASSUME NEW c \in Contents, OutsideStep(c) PROVE Ok(g)
    BY <1>3, <2>1, OutsideFrame DEF attempts, handlers
  <2>2. ASSUME PollOnce PROVE Ok(g)
    <3>1. start'[g] = start[g]
      BY <1>6, <2>2, OldAttempt DEF Structure
    <3> QED
      BY <1>3, <2>2, <3>1 DEF PollOnce, handlers
  <2>3. ASSUME PollCommands PROVE Ok(g)
    BY <1>2, <1>3, <2>3 DEF PollCommands
  <2>4. ASSUME Crash PROVE Ok(g)
    <3>1. /\ start'[g] = IF start[g].phase \in Starting
                         THEN [start[g] EXCEPT !.phase = "dead"] ELSE start[g]
          /\ ~event'[g] /\ aria'[g] = aria[g]
          /\ pc'[<<g, "notify">>] = IF pc[<<g, "notify">>] \in Active THEN "dead" ELSE pc[<<g, "notify">>]
      BY <1>2, <2>4 DEF Crash
    <3>2. start'[g].phase \in {"new", "decode"} => start'[g] = start[g]
      BY <1>2, <3>1 DEF Attempt, Starting
    <3> QED
      BY <1>1, <3>1, <3>2 DEF Active, Acking, Completing, Retrying
  <2>5. ASSUME UNCHANGED vars PROVE Ok(g)
    BY <1>3, <2>5 DEF vars, attempts, handlers
  <2>6. ASSUME NEW x \in Gids, AttemptStep(x), x # g PROVE Ok(g)
    <3>1. start'[g] = start[g]
      BY <1>2, <2>6 DEF AttemptStep, Starter, StartFails, DecodeWrite, DecodeFallback, AddUri, Promote,
         ScheduleCancel, Notify, CancelDue, EventLost, AriaEnds, Phase
    <3>2. pc'[<<g, "notify">>] = pc[<<g, "notify">>]
      BY <1>2, <2>6 DEF AttemptStep, Starter, StartFails, DecodeWrite, DecodeFallback, AddUri, Promote,
         ScheduleCancel, Notify, CancelDue, EventLost, AriaEnds, handlers
    <3>3. aria'[g] = aria[g] /\ event'[g] = event[g]
      BY <1>2, <2>6 DEF AttemptStep, Starter, StartFails, DecodeWrite, DecodeFallback, AddUri, Promote,
         ScheduleCancel, Notify, CancelDue, EventLost, AriaEnds
    <3> QED
      BY <1>1, <3>1, <3>2, <3>3
  <2>7. ASSUME AttemptStep(g) PROVE Ok(g)
    <3>1. CASE DecodeWrite(g) \/ DecodeFallback(g) \/ AddUri(g) \/ Promote(g) \/ ScheduleCancel(g)
      <4>1. \A p \in Phases : Phase(g, p) => start'[g].phase = p
        BY PhaseStep
      <4>2. {"new", "promote", "schedule", "up", "dead"} \subseteq Phases
        BY DEF Phases, Starting
      <4>3. CASE DecodeWrite(g)
        BY <1>1, <1>2, <4>1, <4>2, <4>3 DEF DecodeWrite
      <4>4. CASE DecodeFallback(g)
        BY <1>1, <1>2, <4>1, <4>2, <4>4 DEF DecodeFallback, handlers
      <4>5. CASE AddUri(g)
        BY <1>1, <1>2, <4>1, <4>2, <4>5 DEF AddUri, handlers
      <4>6. CASE Promote(g) \/ ScheduleCancel(g)
        BY <1>1, <1>2, <4>1, <4>2, <4>6 DEF Promote, ScheduleCancel, handlers
      <4> QED
        BY <3>1, <4>3, <4>4, <4>5, <4>6
    <3>2. CASE StartFails(g)
      <4>1. start'[g].phase = "dead" /\ start[g].phase \in Starting
        BY <3>2, PhaseStep DEF StartFails, Phases
      <4>2. /\ pc' = pc /\ event' = event
            /\ aria' = aria \/ (start[g].phase = "new" /\ aria'[g] = "running")
        BY <1>2, <3>2 DEF StartFails, handlers
      <4> QED
        BY <1>1, <4>1, <4>2
    <3>3. CASE Notify(g)
      BY <1>1, <1>2, <3>3 DEF Notify
    <3>4. CASE CancelDue(g) \/ EventLost(g)
      BY <1>1, <1>2, <3>4 DEF CancelDue, EventLost, handlers
    <3>5. ASSUME NEW how \in {"complete", "error"}, AriaEnds(g, how) PROVE Ok(g)
      BY <1>1, <1>2, <3>5 DEF AriaEnds, handlers
    <3> QED
      BY <2>7, <3>1, <3>2, <3>3, <3>4, <3>5 DEF AttemptStep, Starter
  <2>8. ASSUME NEW k \in Handlers, Handler(k) \/ StepFails(k) \/ FinishStepFails(k) PROVE Ok(g)
    <3>1. pc[k] \in Active /\ \A l \in Handlers : l # k => pc'[l] = pc[l]
      BY <2>8, HandlerActive
    <3>2. pc'[<<g, "notify">>] = "idle" \/ pc[<<g, "notify">>] # "idle"
      BY <1>2, <3>1 DEF Active, Acking, Completing, Retrying
    <3>3. start'[g] = start[g]
      <4>1. CASE Requeue(k)
        BY <1>6, <4>1, OldAttempt DEF Structure
      <4>2. CASE ~Requeue(k)
        BY <2>8, <4>2 DEF Handler, StepFails, FinishStepFails, LookupRecord, GiveUp, Clean, ReadRecord, Hash,
           CompleteHref, DeleteMarker, MarkComplete, ReportStored, Tally, Decide,
           RetryTransition, ExhaustMarker, ReportFailed, attempts
      <4> QED
        BY <4>1, <4>2
    <3> QED
      BY <1>1, <2>8, <3>2, <3>3, HandlerFrame
  <2> HIDE DEF Ok
  <2> QED
    BY <2>1, <2>2, <2>3, <2>4, <2>5, <2>6, <2>7, <2>8, Steps
<1> QED
  BY <1>4, <1>5, <1>6

LEMMA CancelRetriesStep ==
    ASSUME TypeOK, Structure, [Next]_vars
    PROVE  CancelRetries'
<1> DEFINE never == Completing \cup {"abandoned"}
<1> SUFFICES ASSUME NEW g \in Gids PROVE pc'[<<g, "cancel">>] \notin never
  BY DEF CancelRetries
<1>1. pc[<<g, "cancel">>] \notin never
  BY DEF Structure, CancelRetries
<1>2. pc \in [Handlers -> Active \cup Ended] /\ <<g, "cancel">> \in Handlers
  BY AllHandlers DEF TypeOK
<1>3. "lookup" \notin never /\ "dead" \notin never
  BY DEF Completing
<1>4. ASSUME pc'[<<g, "cancel">>] = pc[<<g, "cancel">>] PROVE pc'[<<g, "cancel">>] \notin never
  BY <1>1, <1>4
<1>5. ASSUME PollCommands \/ Crash PROVE pc'[<<g, "cancel">>] \notin never
  BY <1>1, <1>2, <1>3, <1>5 DEF PollCommands, Crash
<1>6. ASSUME NEW x \in Gids, AttemptStep(x) PROVE pc'[<<g, "cancel">>] = pc[<<g, "cancel">>]
  BY <1>2, <1>6 DEF AttemptStep, Starter, StartFails, DecodeWrite, DecodeFallback, AddUri, Promote,
     ScheduleCancel, Notify, CancelDue, EventLost, AriaEnds, handlers
<1>7. ASSUME NEW k \in Handlers, Handler(k) \/ StepFails(k) \/ FinishStepFails(k)
      PROVE  pc'[<<g, "cancel">>] \notin never
  <2>1. CASE k # <<g, "cancel">>
    BY <1>2, <1>4, <1>7, <2>1, HandlerActive
  <2>2. CASE k = <<g, "cancel">>
    <3>1. pc[k] \notin never /\ k[2] = "cancel"
      BY <1>1, <2>2
    <3>2. CASE Clean(k)
      BY <1>2, <2>2, <3>1, <3>2 DEF Clean, Goto, AfterAck, Completing
    <3>3. CASE ~Clean(k)
      <4>1. \E next \in {"clean", "ignored", "sleep", "delay", "nok-unmark", "done", "transition",
                         "nok-report", "dead"} : Goto(k, next)
        BY <1>7, <3>1, <3>3 DEF Handler, StepFails, FinishStepFails, LookupRecord, GiveUp, ReadRecord,
           Hash, CompleteHref, DeleteMarker, MarkComplete, ReportStored, Tally, Decide, Requeue,
           RetryTransition, ExhaustMarker, ReportFailed, Completing
      <4> QED
        BY <1>2, <2>2, <4>1 DEF Goto, Completing
    <3> QED
      BY <3>2, <3>3
  <2> QED
    BY <2>1, <2>2
<1>8. ASSUME PollOnce \/ UNCHANGED vars \/ \E c \in Contents : OutsideStep(c)
      PROVE  pc'[<<g, "cancel">>] = pc[<<g, "cancel">>]
  BY <1>8, OutsideFrame DEF PollOnce, vars, handlers
<1> HIDE DEF never
<1> QED
  BY <1>4, <1>5, <1>6, <1>7, <1>8, Steps

LEMMA StructureInit == Init => Structure
<1> SUFFICES ASSUME Init PROVE Structure
  OBVIOUS
<1>1. InOrder
  <2>1. MaxStarts \in Nat
    BY DownloaderAssumption
  <2>2. Free = Gids
    BY DEF Init, Free, NoStart
  <2>3. Cardinality(Free) = MaxStarts
    BY <2>1, <2>2, FS_Interval DEF Gids
  <2>4. Used = 0
    BY <2>1, <2>3 DEF Used
  <2> QED
    BY <2>1, <2>2, <2>4 DEF InOrder, Gids
<1>2. \A g \in Gids : start[g].phase = "free"
  BY DEF Init, NoStart
<1>3. \A k \in Handlers : pc[k] = "idle"
  BY DEF Init
<1>4. Fresh /\ NotifiedOnce /\ CancelRetries
  BY <1>2, <1>3, AllHandlers DEF Init, Fresh, NotifiedOnce, CancelRetries, Completing
<1>5. JobsAccepted
  <2>1. Len(queue) = 0
    BY EmptySeq DEF Init
  <2> QED
    BY <1>2, <2>1 DEF JobsAccepted
<1>6. Recorded
  BY DEF Init, Recorded, Accepted
<1> QED
  BY <1>1, <1>4, <1>5, <1>6 DEF Structure

LEMMA StructureNext == TypeOK /\ Structure /\ [Next]_vars => Structure'
BY StartStep, FreshStep, JobsAcceptedStep, RecordedStep, NotifiedOnceStep, CancelRetriesStep
DEF Structure

LEMMA StructureInvariant == Spec => [](TypeOK /\ Structure)
<1>1. Init => TypeOK /\ Structure
  BY TypeInit, StructureInit
<1>2. (TypeOK /\ Structure) /\ [Next]_vars => (TypeOK /\ Structure)'
  BY TypeNext, StructureNext
<1> QED
  BY <1>1, <1>2, PTL DEF Spec

\* A link recorded complete is never moved by a retry that was decided before
\* (LUA_RETRY looks at the old value, src/downloader/lua.ts): the completion of
\* any attempt, at any moment, wins over a retry decision already taken.
THEOREM CompletionIsFinal == Spec => CompleteIsFinal
<1>1. TypeOK /\ Structure /\ [Next]_vars =>
        [\A c \in Contents, h \in Hrefs :
            fields[c][h] = "complete" => fields'[c][h] \in {"complete", "wait"}]_vars
  BY FieldStep
<1> QED
  BY <1>1, StructureInvariant, PTL DEF Spec, CompleteIsFinal

-----------------------------------------------------------------------------
(* Steps while nothing fails                                               *)

LEMMA NoFault ==
    ASSUME TypeOK, [Next]_vars, faults' = 0
    PROVE  /\ faults = 0
           /\ ~Crash
           /\ \A k \in Handlers : ~StepFails(k) /\ ~FinishStepFails(k)
           /\ \A g \in Gids : ~StartFails(g)
           /\ \A k \in Handlers : Clean(k) => gidRec' = [gidRec EXCEPT ![k[1]] = FALSE]
<1>1. faults \in Nat
  BY DownloaderAssumption DEF TypeOK
<1>2. faults' = faults \/ faults' = faults + 1
  <2>1. CASE \E c \in Contents : OutsideStep(c)
    BY <2>1, OutsideFrame
  <2>2. CASE PollOnce \/ PollCommands \/ Crash \/ UNCHANGED vars
    BY <2>2 DEF PollOnce, PollCommands, Crash, Fault, vars
  <2>3. CASE \E g \in Gids : AttemptStep(g)
    BY <2>3 DEF AttemptStep, Starter, StartFails, DecodeWrite, DecodeFallback, AddUri, Promote,
     ScheduleCancel, Notify, CancelDue, EventLost, AriaEnds, Fault
  <2>4. CASE \E k \in Handlers : Handler(k) \/ StepFails(k) \/ FinishStepFails(k)
    BY <2>4 DEF Handler, StepFails, FinishStepFails, LookupRecord, GiveUp, Clean, ReadRecord, Hash,
       CompleteHref, DeleteMarker, MarkComplete, ReportStored, Tally, Decide, Requeue,
       RetryTransition, ExhaustMarker, ReportFailed, Fault
  <2> QED
    BY <2>1, <2>2, <2>3, <2>4, Steps
<1>3. faults = 0
  BY <1>1, <1>2
<1>4. faults + 1 # 0
  BY <1>1
<1> QED
  BY <1>3, <1>4 DEF Crash, StepFails, FinishStepFails, StartFails, Fault, Clean

\* What is recorded of a job stays, and who changes it.
LEMMA JobStep ==
    ASSUME TypeOK, [Next]_vars, NEW c \in Contents
    PROVE  /\ completed[c] => completed'[c]
           /\ c \in missed' <=> c \in missed \/ MarkerExpires(c)
           /\ \/ marker'[c] = marker[c]
              \/ Accept(c) /\ marker'[c]
              \/ MarkerExpires(c) /\ ~marker'[c]
              \/ \E k \in Handlers : /\ DeleteMarker(k) \/ ExhaustMarker(k)
                                     /\ ContentOf(k) = c /\ ~marker'[c]
           /\ \/ reports'[c] = reports[c]
              \/ \E k \in Handlers : /\ ContentOf(k) = c
                                     /\ \/ ReportStored(k) /\ reports'[c] = reports[c] \cup {"stored"}
                                        \/ ReportFailed(k) /\ reports'[c] = reports[c] \cup {"failed"}
<1> DEFINE Goal == /\ completed[c] => completed'[c]
                   /\ c \in missed' <=> c \in missed \/ MarkerExpires(c)
                   /\ \/ marker'[c] = marker[c]
                      \/ Accept(c) /\ marker'[c]
                      \/ MarkerExpires(c) /\ ~marker'[c]
                      \/ \E k \in Handlers : /\ DeleteMarker(k) \/ ExhaustMarker(k)
                                             /\ ContentOf(k) = c /\ ~marker'[c]
                   /\ \/ reports'[c] = reports[c]
                      \/ \E k \in Handlers :
                            /\ ContentOf(k) = c
                            /\ \/ ReportStored(k) /\ reports'[c] = reports[c] \cup {"stored"}
                               \/ ReportFailed(k) /\ reports'[c] = reports[c] \cup {"failed"}
<1>1. /\ marker \in [Contents -> BOOLEAN] /\ completed \in [Contents -> BOOLEAN]
      /\ reports \in [Contents -> SUBSET {"stored", "failed"}]
  BY DEF TypeOK
<1>2. MarkerExpires(c) => c \in missed'
  BY DEF MarkerExpires
<1>3. ASSUME UNCHANGED <<marker, completed, reports, missed>> PROVE Goal
  BY <1>2, <1>3
<1>4. ASSUME NEW x \in Contents, Accept(x) PROVE Goal
  <2>1. UNCHANGED <<completed, reports, missed>> /\ marker' = [marker EXCEPT ![x] = TRUE]
    BY <1>4 DEF Accept
  <2> QED
    BY <1>1, <1>2, <1>4, <2>1
<1>5. ASSUME NEW x \in Contents, MarkerExpires(x) PROVE Goal
  <2>1. /\ UNCHANGED <<completed, reports>> /\ marker' = [marker EXCEPT ![x] = FALSE]
        /\ missed' = missed \cup {x}
    BY <1>5 DEF MarkerExpires
  <2> QED
    BY <1>1, <1>2, <1>5, <2>1
<1>6. ASSUME NEW x \in Contents, NEW h \in Hrefs, Copy(x, h) PROVE Goal
  BY <1>3, <1>6 DEF Copy
<1>7. ASSUME NEW k \in Handlers, Handler(k) \/ StepFails(k) \/ FinishStepFails(k) PROVE Goal
  <2>1. missed' = missed
    BY <1>7, HandlerFrame
  <2>2. CASE DeleteMarker(k) \/ ExhaustMarker(k)
    <3>1. UNCHANGED <<completed, reports>> /\ marker' = [marker EXCEPT ![ContentOf(k)] = FALSE]
      BY <2>2 DEF DeleteMarker, ExhaustMarker
    <3> QED
      BY <1>1, <1>2, <2>1, <2>2, <3>1
  <2>3. CASE MarkComplete(k)
    <3>1. UNCHANGED <<marker, reports>> /\ completed' = [completed EXCEPT ![ContentOf(k)] = TRUE]
      BY <2>3 DEF MarkComplete
    <3> QED
      BY <1>1, <1>2, <2>1, <3>1
  <2>4. CASE ReportStored(k)
    <3>1. UNCHANGED <<marker, completed>>
          /\ reports' = [reports EXCEPT ![ContentOf(k)] = @ \cup {"stored"}]
      BY <2>4 DEF ReportStored
    <3> QED
      BY <1>1, <1>2, <2>1, <2>4, <3>1
  <2>5. CASE ReportFailed(k)
    <3>1. UNCHANGED <<marker, completed>>
          /\ reports' = [reports EXCEPT ![ContentOf(k)] = @ \cup {"failed"}]
      BY <2>5 DEF ReportFailed
    <3> QED
      BY <1>1, <1>2, <2>1, <2>5, <3>1
  <2>6. CASE /\ ~DeleteMarker(k) /\ ~ExhaustMarker(k) /\ ~MarkComplete(k)
             /\ ~ReportStored(k) /\ ~ReportFailed(k)
    <3>1. UNCHANGED <<marker, completed, reports>>
      BY <1>7, <2>6 DEF Handler, StepFails, FinishStepFails, LookupRecord, GiveUp, Clean, ReadRecord,
         Hash, CompleteHref, Tally, Decide, Requeue, RetryTransition, job
    <3> QED
      BY <1>3, <2>1, <3>1
  <2> QED
    BY <2>2, <2>3, <2>4, <2>5, <2>6
<1> HIDE DEF Goal
<1> QED
  BY <1>3, <1>4, <1>5, <1>6, <1>7, Steps, AttemptFrame, LoopFrame DEF OutsideStep, job, Goal

\* An active handler goes on by its own step only: no second trigger of the
\* attempt, no second command and no new attempt takes its place.
LEMMA HandlerMove ==
    ASSUME TypeOK, Structure, CommandsAwaited, [Next]_vars, faults' = 0, NEW k \in Handlers
    PROVE  \/ pc'[k] = pc[k]
           \/ Handler(k)
           \/ pc'[k] = "lookup" /\ pc[k] \notin Active \cup {"abandoned"}
<1> DEFINE Goal == \/ pc'[k] = pc[k]
                   \/ Handler(k)
                   \/ pc'[k] = "lookup" /\ pc[k] \notin Active \cup {"abandoned"}
<1>1. /\ k[1] \in Gids
      /\ k = <<k[1], "notify">> \/ k = <<k[1], "cancel">>
      /\ pc \in [Handlers -> Active \cup Ended]
  BY HandlerParts DEF Triggers, TypeOK
<1>2. "idle" \notin Active \cup {"abandoned"}
  BY DEF Active, Acking, Completing, Retrying
<1>3. ASSUME UNCHANGED pc PROVE Goal
  BY <1>3
<1>4. ASSUME NEW g \in Gids, AttemptStep(g) PROVE Goal
  <2>1. CASE DecodeWrite(g) \/ Notify(g)
    <3>1. pc[<<g, "notify">>] = "idle"
      BY <2>1 DEF DecodeWrite, Notify, Structure, NotifiedOnce
    <3>2. pc' = [pc EXCEPT ![<<g, "notify">>] = "lookup"]
      BY <2>1 DEF DecodeWrite, Notify
    <3> QED
      BY <1>1, <1>2, <3>1, <3>2
  <2>2. CASE ~DecodeWrite(g) /\ ~Notify(g)
    <3>1. UNCHANGED pc
      BY <1>4, <2>2 DEF AttemptStep, Starter, StartFails, DecodeFallback, AddUri, Promote,
         ScheduleCancel, CancelDue, EventLost, AriaEnds, handlers
    <3> QED
      BY <1>3, <3>1
  <2> QED
    BY <2>1, <2>2
<1>5. ASSUME PollCommands PROVE Goal
  <2>1. CASE pc'[k] # pc[k]
    <3>1. k[2] = "cancel" /\ pc'[k] = "lookup"
      BY <1>1, <1>5, <2>1 DEF PollCommands
    <3>2. k = <<k[1], "cancel">> /\ k[1] \in Gids
      BY <3>1, HandlerParts
    <3>3. pc[<<k[1], "cancel">>] \notin Active
      BY <1>5, <3>2 DEF PollCommands, CommandsSettled, CommandsAwaited
    <3>4. pc[<<k[1], "cancel">>] # "abandoned"
      BY <3>2 DEF Structure, CancelRetries
    <3> QED
      BY <3>1, <3>2, <3>3, <3>4
  <2> QED
    BY <2>1
<1>6. ASSUME NEW l \in Handlers, Handler(l) PROVE Goal
  BY <1>6, HandlerActive
<1>7. ASSUME PollOnce \/ UNCHANGED vars \/ \E c \in Contents : OutsideStep(c) PROVE UNCHANGED pc
  BY <1>7, OutsideFrame DEF PollOnce, vars, handlers
<1> HIDE DEF Goal
<1> QED
  BY <1>3, <1>4, <1>5, <1>6, <1>7, Steps, NoFault DEF Goal

LEMMA ContentKept ==
    ASSUME TypeOK, Structure, [Next]_vars, NEW k \in Handlers, pc[k] # "idle"
    PROVE  /\ ContentOf(k) \in Contents /\ Accepted(ContentOf(k))
           /\ ContentOf(k)' = ContentOf(k)
BY HandlerOfJob, StartStep DEF Structure, AttemptKept, ContentOf

LEMMA AtStep ==
    ASSUME TypeOK, Structure, CommandsAwaited, [Next]_vars, faults' = 0,
           NEW c \in Contents, NEW places \in SUBSET (Active \cup {"abandoned"}), At(c, places)
    PROVE  \/ At(c, places)'
           \/ \E k \in Handlers : ContentOf(k) = c /\ pc[k] \in places /\ Handler(k)
<1>1. PICK k \in Handlers : ContentOf(k) = c /\ pc[k] \in places
  BY DEF At
<1>2. ContentOf(k)' = c
  BY <1>1, ContentKept DEF Active, Acking, Completing, Retrying
<1>3. pc'[k] = pc[k] \/ Handler(k)
  BY <1>1, HandlerMove
<1> QED
  BY <1>1, <1>2, <1>3 DEF At

\* The order of the last steps of a handler.
LEMMA LastSteps ==
    ASSUME TypeOK, NEW k \in Handlers, Handler(k)
    PROVE  /\ pc[k] = "unmark" <=> DeleteMarker(k)
           /\ pc[k] = "flag" <=> MarkComplete(k)
           /\ pc[k] = "report" <=> ReportStored(k)
           /\ pc[k] = "nok-unmark" <=> ExhaustMarker(k)
           /\ pc[k] = "nok-report" <=> ReportFailed(k)
           /\ pc'[k] = "unmark" => CompleteHref(k)
           /\ pc'[k] = "flag" <=> DeleteMarker(k)
           /\ pc'[k] = "report" <=> MarkComplete(k)
           /\ pc'[k] = "nok-report" <=> ExhaustMarker(k)
           /\ pc[k] # "abandoned"
<1>1. /\ pc[k] = "unmark" <=> DeleteMarker(k)
      /\ pc[k] = "flag" <=> MarkComplete(k)
      /\ pc[k] = "report" <=> ReportStored(k)
      /\ pc[k] = "nok-unmark" <=> ExhaustMarker(k)
      /\ pc[k] = "nok-report" <=> ReportFailed(k)
      /\ pc[k] # "abandoned"
  BY DEF Handler, LookupRecord, GiveUp, Clean, ReadRecord, Hash, CompleteHref, DeleteMarker, MarkComplete,
         ReportStored, Tally, Decide, Requeue, RetryTransition, ExhaustMarker, ReportFailed
<1>2. \A next : Goto(k, next) => pc'[k] = next
  BY DEF Goto, TypeOK
<1>3. \/ CompleteHref(k)
      \/ DeleteMarker(k) /\ pc'[k] = "flag"
      \/ MarkComplete(k) /\ pc'[k] = "report"
      \/ ExhaustMarker(k) /\ pc'[k] = "nok-report"
      \/ pc'[k] \notin {"unmark", "flag", "report", "nok-report"}
  BY <1>2 DEF Handler, LookupRecord, GiveUp, Clean, AfterAck, ReadRecord, Hash, CompleteHref, DeleteMarker,
         MarkComplete, ReportStored, Tally, Decide, Requeue, RetryTransition, ExhaustMarker, ReportFailed
<1>4. CompleteHref(k) => pc'[k] \in {"unmark", "done"} /\ pc[k] = "gate"
  BY <1>2 DEF CompleteHref
<1> QED
  BY <1>1, <1>2, <1>3, <1>4 DEF DeleteMarker, MarkComplete, ExhaustMarker

LEMMA CommandsAwaitedStep ==
    ASSUME TypeOK, Structure, CommandsAwaited, [Next]_vars, faults' = 0
    PROVE  CommandsAwaited'
<1> SUFFICES ASSUME NEW g \in Gids, pc'[<<g, "cancel">>] \in Active PROVE g \in awaited'
  BY DEF CommandsAwaited
<1>1. <<g, "cancel">> \in Handlers /\ pc \in [Handlers -> Active \cup Ended]
  BY AllHandlers DEF TypeOK
<1>2. CASE PollCommands
  <2>1. CASE cancel[g] = "sent"
    BY <1>2, <2>1 DEF PollCommands
  <2>2. CASE cancel[g] # "sent"
    <3>1. pc'[<<g, "cancel">>] = pc[<<g, "cancel">>]
      BY <1>1, <1>2, <2>2 DEF PollCommands
    <3> QED
      BY <1>2, <3>1 DEF PollCommands, CommandsSettled, CommandsAwaited
  <2> QED
    BY <2>1, <2>2
<1>3. CASE ~PollCommands
  <2>1. UNCHANGED awaited
    <3>1. ASSUME NEW k \in Handlers, Handler(k) PROVE UNCHANGED awaited
      BY <3>1 DEF Handler, LookupRecord, GiveUp, Clean, ReadRecord, Hash, CompleteHref, DeleteMarker,
         MarkComplete, ReportStored, Tally, Decide, Requeue, RetryTransition, ExhaustMarker, ReportFailed
    <3>2. PollOnce \/ UNCHANGED vars => UNCHANGED awaited
      BY DEF PollOnce, vars, handlers
    <3> QED
      BY <1>3, <3>1, <3>2, Steps, NoFault, OutsideFrame, AttemptFrame DEF handlers
  <2>2. pc[<<g, "cancel">>] \in Active
    <3>1. CASE pc'[<<g, "cancel">>] = pc[<<g, "cancel">>]
      BY <3>1
    <3>2. CASE Handler(<<g, "cancel">>)
      BY <1>1, <3>2, HandlerActive
    <3>3. CASE pc'[<<g, "cancel">>] # pc[<<g, "cancel">>] /\ ~Handler(<<g, "cancel">>)
      <4>1. ASSUME NEW x \in Gids, AttemptStep(x) PROVE FALSE
        BY <1>1, <3>3, <4>1 DEF AttemptStep, Starter, StartFails, DecodeWrite, DecodeFallback, AddUri,
           Promote, ScheduleCancel, Notify, CancelDue, EventLost, AriaEnds, handlers
      <4>2. ASSUME NEW k \in Handlers, Handler(k) PROVE FALSE
        BY <1>1, <3>3, <4>2, HandlerActive
      <4>3. PollOnce \/ UNCHANGED vars => UNCHANGED pc
        BY DEF PollOnce, vars, handlers
      <4> QED
        BY <1>3, <3>3, <4>1, <4>2, <4>3, Steps, NoFault, OutsideFrame DEF handlers
    <3> QED
      BY <3>1, <3>2, <3>3
  <2> QED
    BY <2>1, <2>2 DEF CommandsAwaited
<1> QED
  BY <1>2, <1>3

LEMMA FlaggedStays ==
    ASSUME TypeOK, Structure, CommandsAwaited, [Next]_vars, faults' = 0,
           NEW c \in Contents, Flagged(c)
    PROVE  Flagged(c)'
<1>1. CASE completed[c]
  BY <1>1, JobStep DEF Flagged
<1>2. CASE At(c, {"unmark", "flag"})
  <2>1. {"unmark", "flag"} \subseteq Active \cup {"abandoned"}
    BY DEF Active, Completing
  <2>2. CASE At(c, {"unmark", "flag"})'
    BY <2>2 DEF Flagged
  <2>3. ASSUME NEW k \in Handlers, ContentOf(k) = c, pc[k] \in {"unmark", "flag"}, Handler(k)
        PROVE  Flagged(c)'
    <3>1. CASE DeleteMarker(k)
      <4>1. pc'[k] = "flag" /\ pc[k] # "idle"
        BY <2>3, <3>1, LastSteps
      <4>2. ContentOf(k)' = c
        BY <2>3, <4>1, ContentKept
      <4> QED
        BY <4>1, <4>2 DEF Flagged, At
    <3>2. CASE MarkComplete(k)
      BY <2>3, <3>2 DEF MarkComplete, Flagged, TypeOK
    <3> QED
      BY <2>3, <3>1, <3>2, LastSteps
  <2> QED
    BY <1>2, <2>1, <2>2, <2>3, AtStep
<1> QED
  BY <1>1, <1>2 DEF Flagged

LEMMA CompletionFlaggedStep ==
    ASSUME TypeOK, Structure, CommandsAwaited, CompletionFlagged, [Next]_vars, faults' = 0
    PROVE  CompletionFlagged'
<1>1. ASSUME NEW c \in Contents, NEW h \in Hrefs, fields'[c][h] = "complete" PROVE Flagged(c)'
  <2>1. CASE fields[c][h] = "complete"
    BY <2>1, FlaggedStays DEF CompletionFlagged, Holding
  <2>2. ASSUME NEW k \in Handlers, CompleteHref(k), ContentOf(k) = c PROVE Flagged(c)'
    <3>1. pc[k] = "gate" /\ pc[k] # "idle"
      BY <2>2 DEF CompleteHref
    <3>2. Accepted(c) /\ ContentOf(k)' = c
      BY <2>2, <3>1, ContentKept
    <3>3. CanComplete(fields[c], jobHref[c])
      BY <3>2 DEF Structure, Recorded, CanComplete
    <3>4. pc'[k] = "unmark"
      BY <2>2, <3>3 DEF CompleteHref, Goto, TypeOK
    <3> QED
      BY <3>2, <3>4 DEF Flagged, At
  <2> QED
    BY <1>1, <2>1, <2>2, FieldStep
<1>2. ASSUME NEW k \in Handlers, pc'[k] = "report" PROVE completed'[ContentOf(k)']
  <2>1. CASE pc[k] = "report"
    <3>1. completed[ContentOf(k)] /\ ContentOf(k) \in Contents /\ ContentOf(k)' = ContentOf(k)
      BY <2>1, ContentKept DEF CompletionFlagged
    <3> QED
      BY <3>1, JobStep
  <2>2. CASE pc[k] # "report"
    <3>1. MarkComplete(k)
      BY <1>2, <2>2, HandlerMove, LastSteps
    <3>2. pc[k] # "idle"
      BY <3>1 DEF MarkComplete
    <3>3. ContentOf(k) \in Contents /\ ContentOf(k)' = ContentOf(k)
      BY <3>2, ContentKept
    <3> QED
      BY <3>1, <3>3 DEF MarkComplete, TypeOK
  <2> QED
    BY <2>1, <2>2
<1> QED
  BY <1>1, <1>2 DEF CompletionFlagged, Holding

LEMMA ReportsUnmarkedStep ==
    ASSUME TypeOK, Structure, CommandsAwaited, ReportsUnmarked, [Next]_vars, faults' = 0
    PROVE  ReportsUnmarked'
<1>1. marker \in [Contents -> BOOLEAN] /\ marker' \in [Contents -> BOOLEAN]
  BY TypeNext DEF TypeOK
<1>2. ASSUME NEW k \in Handlers, pc'[k] \in {"flag", "report", "nok-report"}
      PROVE  ~marker'[ContentOf(k)']
  <2>1. pc[k] # "idle" /\ (~marker[ContentOf(k)] \/ DeleteMarker(k) \/ ExhaustMarker(k))
    <3>1. CASE pc'[k] = pc[k]
      BY <1>2, <3>1 DEF ReportsUnmarked
    <3>2. CASE Handler(k)
      BY <1>2, <3>2, LastSteps, HandlerActive
      DEF ReportsUnmarked, Active, Acking, Completing, Retrying
    <3> QED
      BY <1>2, <3>1, <3>2, HandlerMove
  <2>2. ContentOf(k) \in Contents /\ Accepted(ContentOf(k)) /\ ContentOf(k)' = ContentOf(k)
    BY <2>1, ContentKept
  <2>3. CASE ~marker[ContentOf(k)]
    BY <2>2, <2>3, JobStep DEF Accept, Accepted
  <2>4. CASE DeleteMarker(k) \/ ExhaustMarker(k)
    BY <2>2, <2>4 DEF DeleteMarker, ExhaustMarker, TypeOK
  <2> QED
    BY <2>1, <2>2, <2>3, <2>4
<1>3. ASSUME NEW c \in Contents, marker'[c] PROVE c \notin missed' /\ reports'[c] = {}
  <2>1. c \notin missed /\ reports[c] = {}
    <3>1. CASE marker[c]
      BY <3>1 DEF ReportsUnmarked
    <3>2. CASE Accept(c)
      BY <3>2 DEF Accept, Structure, Recorded, Accepted
    <3> QED
      BY <1>1, <1>3, <3>1, <3>2, JobStep
  <2>2. ~MarkerExpires(c)
    BY <1>1, <1>3 DEF MarkerExpires
  <2>3. ASSUME NEW k \in Handlers, ContentOf(k) = c, ReportStored(k) \/ ReportFailed(k) PROVE FALSE
    <3>1. pc[k] \in {"report", "nok-report"} /\ UNCHANGED marker
      BY <2>3 DEF ReportStored, ReportFailed
    <3> QED
      BY <1>3, <2>3, <3>1 DEF ReportsUnmarked
  <2> QED
    BY <2>1, <2>2, <2>3, JobStep
<1> QED
  BY <1>2, <1>3 DEF ReportsUnmarked

LEMMA UnmarkedStep ==
    ASSUME TypeOK, Structure, CommandsAwaited, Unmarked, [Next]_vars, faults' = 0
    PROVE  Unmarked'
<1> DEFINE Reason(c) == \/ c \in missed \/ completed[c] \/ "failed" \in reports[c]
                        \/ At(c, {"flag", "nok-report"})
<1> SUFFICES ASSUME NEW c \in Contents, jobHref'[c] # NoHref, ~marker'[c]
             PROVE  Reason(c)'
  BY DEF Unmarked, Accepted
<1>1. ASSUME NEW k \in Handlers, ContentOf(k) = c, DeleteMarker(k) \/ ExhaustMarker(k)
      PROVE  Reason(c)'
  <2>1. pc[k] # "idle" /\ pc'[k] \in {"flag", "nok-report"}
    BY <1>1 DEF DeleteMarker, ExhaustMarker, Goto, TypeOK
  <2>2. ContentOf(k)' = c
    BY <1>1, <2>1, ContentKept
  <2> QED
    BY <2>1, <2>2 DEF At
<1>2. CASE c \in missed \/ completed[c] \/ MarkerExpires(c)
  BY <1>2, JobStep
<1>3. CASE "failed" \in reports[c]
  BY <1>3, JobStep
<1>4. CASE At(c, {"flag", "nok-report"})
  <2>1. {"flag", "nok-report"} \subseteq Active \cup {"abandoned"}
    BY DEF Active, Completing, Retrying
  <2>2. ASSUME NEW k \in Handlers, ContentOf(k) = c, pc[k] \in {"flag", "nok-report"}, Handler(k)
        PROVE  Reason(c)'
    <3>1. CASE MarkComplete(k)
      BY <2>2, <3>1 DEF MarkComplete, TypeOK
    <3>2. CASE ReportFailed(k)
      BY <2>2, <3>2 DEF ReportFailed, TypeOK
    <3> QED
      BY <2>2, <3>1, <3>2, LastSteps
  <2> QED
    BY <1>4, <2>1, <2>2, AtStep
<1>5. CASE marker[c] /\ ~MarkerExpires(c)
  <2>1. marker'[c] # marker[c] /\ ~marker'[c]
    BY <1>5
  <2> QED
    BY <1>1, <1>5, <2>1, JobStep
<1>6. ASSUME ~Accepted(c) PROVE FALSE
  <2>1. Accept(c)
    BY <1>6, AcceptedOnce DEF Accepted
  <2> QED
    BY <2>1 DEF Accept, TypeOK
<1>7. CASE Accepted(c) /\ ~marker[c]
  BY <1>2, <1>3, <1>4, <1>7 DEF Unmarked
<1> HIDE DEF Reason
<1> QED
  BY <1>2, <1>5, <1>6, <1>7

-----------------------------------------------------------------------------
(* A job is never left to itself                                           *)

\* decideRetry finds no need for a retry only in a record with a completed link.
LEMMA NoNeedIsComplete ==
    ASSUME NEW f \in Fields, NEW n, NEW d \in RetryDecisions(f, n),
           d.kind # "RETRY_OK", d.kind # "RETRY_NOK"
    PROVE  Holding(f, "complete") # {}
<1>1. PICK seen \in SUBSET Hrefs, w \in Hrefs \cup {NoHref} : d \in Verdicts(f, n, seen, w)
  BY DEF RetryDecisions, Holding
<1>2. \E h \in seen : f[h] = "complete"
  BY <1>1 DEF Verdicts
<1> QED
  BY <1>2 DEF Holding

LEMMA OverStays ==
    ASSUME TypeOK, Structure, CommandsAwaited, [Next]_vars, faults' = 0,
           NEW c \in Contents, Over(c)
    PROVE  Over(c)'
<1>1. CASE Flagged(c)
  BY <1>1, FlaggedStays DEF Over
<1>2. CASE "failed" \in reports[c]
  BY <1>2, JobStep DEF Over
<1>3. CASE At(c, {"abandoned"})
  BY <1>3, AtStep, LastSteps DEF Over
<1> QED
  BY <1>1, <1>2, <1>3 DEF Over

\* An attempt that is made only changes by its own start.
LEMMA OwnStart ==
    ASSUME TypeOK, Structure, [Next]_vars, faults' = 0, NEW g \in Gids, start[g].phase # "free"
    PROVE  start'[g] = start[g] \/ Starter(g)
<1>1. ASSUME PollOnce \/ \E k \in Handlers : Requeue(k) PROVE start'[g] = start[g]
  BY <1>1, OldAttempt DEF Structure
<1>2. ASSUME NEW k \in Handlers, Handler(k), ~Requeue(k) PROVE UNCHANGED start
  BY <1>2 DEF Handler, LookupRecord, GiveUp, Clean, ReadRecord, Hash, CompleteHref, DeleteMarker,
     MarkComplete, ReportStored, Tally, Decide, RetryTransition, ExhaustMarker, ReportFailed, attempts
<1>3. ASSUME NEW x \in Gids, AttemptStep(x), x # g PROVE start'[g] = start[g]
  BY <1>3 DEF AttemptStep, Starter, StartFails, DecodeWrite, DecodeFallback, AddUri, Promote,
     ScheduleCancel, Notify, CancelDue, EventLost, AriaEnds, Phase, TypeOK
<1>4. ASSUME AttemptStep(g), ~Starter(g), ~StartFails(g) PROVE UNCHANGED start
  BY <1>4 DEF AttemptStep, Notify, CancelDue, EventLost, AriaEnds
<1>5. PollCommands \/ UNCHANGED vars => UNCHANGED start
  BY DEF PollCommands, vars, attempts
<1> QED
  BY <1>1, <1>2, <1>3, <1>4, <1>5, Steps, NoFault, OutsideFrame DEF attempts

\* The record of a gid goes with the handler that found it.
LEMMA RecordTaken ==
    ASSUME TypeOK, [Next]_vars, faults' = 0, NEW g \in Gids, gidRec[g]
    PROVE  \/ gidRec'[g]
           \/ \E t \in Triggers : pc'[<<g, t>>] \in Active \ {"lookup", "transition"}
<1>1. gidRec \in [Gids -> BOOLEAN] /\ pc \in [Handlers -> Active \cup Ended]
  BY DEF TypeOK
<1>2. ASSUME NEW k \in Handlers, Clean(k) \/ ReadRecord(k), k[1] = g
      PROVE  \E t \in Triggers : pc'[<<g, t>>] \in Active \ {"lookup", "transition"}
  <2>1. k = <<g, k[2]>> /\ k[2] \in Triggers
    BY <1>2, HandlerParts
  <2>2. pc'[k] \in {"tally", "read", "hash"}
    BY <1>1, <1>2 DEF Clean, ReadRecord, Goto, AfterAck
  <2>3. pc'[<<g, k[2]>>] \in {"tally", "read", "hash"}
    BY <2>1, <2>2, Zenon
  <2> QED
    BY <2>1, <2>3 DEF Active, Completing, Retrying
<1>3. ASSUME NEW k \in Handlers, Clean(k) \/ ReadRecord(k), k[1] # g PROVE gidRec'[g]
  BY <1>1, <1>3 DEF Clean, ReadRecord
<1>4. ASSUME NEW k \in Handlers, Handler(k), ~Clean(k), ~ReadRecord(k) PROVE UNCHANGED gidRec
  BY <1>4 DEF Handler, LookupRecord, GiveUp, Hash, CompleteHref, DeleteMarker, MarkComplete,
     ReportStored, Tally, Decide, Requeue, RetryTransition, ExhaustMarker, ReportFailed, attempts
<1>5. ASSUME NEW x \in Gids, AttemptStep(x) PROVE gidRec'[g]
  BY <1>1, <1>5 DEF AttemptStep, Starter, StartFails, DecodeWrite, DecodeFallback, AddUri, Promote,
     ScheduleCancel, Notify, CancelDue, EventLost, AriaEnds
<1>6. PollOnce \/ PollCommands \/ UNCHANGED vars => UNCHANGED gidRec
  BY DEF PollOnce, PollCommands, vars, attempts
<1> QED
  BY <1>2, <1>3, <1>4, <1>5, <1>6, Steps, NoFault, OutsideFrame DEF attempts

\* A scheduled or sent cancel stays one until it is handled.
LEMMA CancelTaken ==
    ASSUME TypeOK, [Next]_vars, faults' = 0, NEW g \in Gids, cancel[g] \in {"scheduled", "sent"}
    PROVE  \/ cancel'[g] \in {"scheduled", "sent"}
           \/ pc'[<<g, "cancel">>] = "lookup"
           \/ \E t \in Triggers : pc'[<<g, t>>] = "hash"
<1>1. cancel \in [Gids -> {"none", "scheduled", "sent"}] /\ pc \in [Handlers -> Active \cup Ended]
  BY DEF TypeOK
<1>2. ASSUME PollCommands PROVE cancel'[g] \in {"scheduled", "sent"} \/ pc'[<<g, "cancel">>] = "lookup"
  BY <1>1, <1>2, AllHandlers DEF PollCommands
<1>3. ASSUME NEW x \in Gids, AttemptStep(x) PROVE cancel'[g] \in {"scheduled", "sent"}
  BY <1>1, <1>3 DEF AttemptStep, Starter, StartFails, DecodeWrite, DecodeFallback, AddUri, Promote,
     ScheduleCancel, Notify, CancelDue, EventLost, AriaEnds
<1>4. ASSUME NEW k \in Handlers, ReadRecord(k), k[1] = g PROVE \E t \in Triggers : pc'[<<g, t>>] = "hash"
  <2>1. k = <<g, k[2]>> /\ k[2] \in Triggers
    BY <1>4, HandlerParts
  <2>2. pc'[k] = "hash"
    BY <1>1, <1>4 DEF ReadRecord, Goto
  <2>3. pc'[<<g, k[2]>>] = "hash"
    BY <2>1, <2>2, Zenon
  <2> QED
    BY <2>1, <2>3
<1>5. ASSUME NEW k \in Handlers, ReadRecord(k), k[1] # g PROVE cancel'[g] = cancel[g]
  BY <1>1, <1>5 DEF ReadRecord
<1>6. ASSUME NEW k \in Handlers, Handler(k), ~ReadRecord(k) PROVE UNCHANGED cancel
  BY <1>6 DEF Handler, LookupRecord, GiveUp, Clean, Hash, CompleteHref, DeleteMarker, MarkComplete,
     ReportStored, Tally, Decide, Requeue, RetryTransition, ExhaustMarker, ReportFailed, attempts
<1>7. PollOnce \/ UNCHANGED vars => UNCHANGED cancel
  BY DEF PollOnce, vars, attempts
<1> QED
  BY <1>2, <1>3, <1>4, <1>5, <1>6, <1>7, Steps, NoFault, OutsideFrame DEF attempts

\* A handler past its lookup ends by settling its job or by starting the next attempt.
LEMMA HandlerCarries ==
    ASSUME TypeOK, Structure, CommandsAwaited, CompletionFlagged, [Next]_vars, faults' = 0,
           NEW k \in Handlers, pc[k] \in Active \ {"lookup", "transition"}, Handler(k),
           NEW c \in Contents, ContentOf(k) = c
    PROVE  \/ pc'[k] \in Active \ {"lookup", "transition"}
           \/ Over(c)'
           \/ \E x \in Gids : start'[x].phase = "new" /\ start'[x].content = c
<1> DEFINE Goal == \/ pc'[k] \in Active \ {"lookup", "transition"}
                   \/ Over(c)'
                   \/ \E x \in Gids : start'[x].phase = "new" /\ start'[x].content = c
<1>1. Accepted(c) /\ ContentOf(k)' = c
  BY ContentKept DEF Active, Acking, Completing, Retrying
<1>2. pc \in [Handlers -> Active \cup Ended] /\ \A next : Goto(k, next) => pc'[k] = next
  BY DEF TypeOK, Goto
<1>3. fields[c] \in Fields
  BY <1>1 DEF TypeOK
<1>4. CASE Clean(k) \/ ReadRecord(k) \/ Tally(k) \/ DeleteMarker(k) \/ MarkComplete(k) \/ ExhaustMarker(k)
  BY <1>2, <1>4 DEF Clean, ReadRecord, Tally, DeleteMarker, MarkComplete, ExhaustMarker, AfterAck,
     Active, Acking, Completing, Retrying
<1>5. ASSUME NEW next \in Ended \cup Active, Hash(k, next) PROVE Goal
  <2>1. pc'[k] \in {"gate", "tally", "abandoned"}
    BY <1>2, <1>5 DEF Hash
  <2>2. CASE pc'[k] = "abandoned"
    BY <1>1, <2>2 DEF Over, At
  <2> QED
    BY <2>1, <2>2 DEF Active, Completing, Retrying
<1>6. CASE CompleteHref(k)
  <2>1. CanComplete(fields[c], jobHref[c])
    BY <1>1 DEF Structure, Recorded, CanComplete
  <2> QED
    BY <1>2, <1>6, <2>1 DEF CompleteHref, Active, Completing
<1>7. CASE ReportStored(k)
  <2>1. completed[c]
    BY <1>7 DEF ReportStored, CompletionFlagged
  <2> QED
    BY <1>1, <2>1, JobStep DEF Over, Flagged
<1>8. CASE Decide(k)
  <2>1. PICK d \in RetryDecisions(fields[c], attempt[c]) :
            Goto(k, CASE d.kind = "RETRY_OK" -> "delay"
                      [] d.kind = "RETRY_NOK" -> "nok-unmark"
                      [] OTHER -> "done")
    BY <1>8 DEF Decide
  <2>2. CASE d.kind = "RETRY_OK" \/ d.kind = "RETRY_NOK"
    <3>1. pc'[k] \in {"delay", "nok-unmark"}
      BY <1>2, <2>1, <2>2
    <3> QED
      BY <3>1 DEF Active, Retrying
  <2>3. CASE d.kind # "RETRY_OK" /\ d.kind # "RETRY_NOK"
    <3>1. Holding(fields[c], "complete") # {}
      BY <1>3, <2>3, NoNeedIsComplete
    <3>2. Over(c)
      BY <1>1, <3>1 DEF CompletionFlagged, Over
    <3> QED
      BY <1>1, <3>2, OverStays
  <2> QED
    BY <2>2, <2>3
<1>9. CASE Requeue(k)
  <2>1. PICK x \in Gids : start' = [start EXCEPT ![x] = [content |-> c, href |-> decision[k].promote,
                                                         entry |-> FALSE, phase |-> "new"]]
    BY <1>9 DEF Requeue
  <2>2. start'[x].phase = "new" /\ start'[x].content = c
    BY <2>1 DEF TypeOK
  <2> QED
    BY <2>2
<1>10. CASE ReportFailed(k)
  <2>1. "failed" \in reports'[c]
    BY <1>1, <1>10 DEF ReportFailed, TypeOK
  <2> QED
    BY <2>1 DEF Over
<1>11. ~LookupRecord(k) /\ ~GiveUp(k) /\ ~RetryTransition(k)
  BY DEF LookupRecord, GiveUp, RetryTransition
<1> HIDE DEF Goal
<1>12. Goal
  BY <1>4, <1>5, <1>6, <1>7, <1>8, <1>9, <1>10, <1>11 DEF Handler, Goal
<1> QED
  BY <1>12 DEF Goal

\* Whoever carries a job goes on, settles it or hands it over.
LEMMA CarriedStep ==
    ASSUME TypeOK, Structure, CommandsAwaited, CompletionFlagged, [Next]_vars, faults' = 0,
           NEW g \in Gids, start[g].phase # "free", Carried(g),
           NEW c \in Contents, start[g].content = c
    PROVE  \/ Carried(g)'
           \/ Over(c)'
           \/ \E x \in Gids : start'[x].phase = "new" /\ start'[x].content = c
<1> DEFINE Next4 == \/ Carried(g)'
                    \/ Over(c)'
                    \/ \E x \in Gids : start'[x].phase = "new" /\ start'[x].content = c
           Past == Active \ {"lookup", "transition"}
<1>1. \A t \in Triggers : <<g, t>> \in Handlers /\ ContentOf(<<g, t>>) = c
  BY DEF Handlers, ContentOf
<1>2. gidRec' \in [Gids -> BOOLEAN] /\ pc \in [Handlers -> Active \cup Ended] /\ start \in [Gids -> Attempt]
  BY TypeNext DEF TypeOK
<1>3. ASSUME \E t \in Triggers : pc'[<<g, t>>] \in Past PROVE Carried(g)'
  BY <1>3 DEF Carried
<1>4. CASE \E t \in Triggers : pc[<<g, t>>] \in Past
  <2>1. PICK t \in Triggers : pc[<<g, t>>] \in Past
    BY <1>4
  <2> DEFINE k == <<g, t>>
  <2>2. k \in Handlers /\ ContentOf(k) = c /\ pc[k] \in Past
    BY <1>1, <2>1
  <2>3. pc'[k] = pc[k] => Carried(g)'
    BY <1>3, <2>2
  <2>4. Handler(k) => pc'[k] \in Past \/ Over(c)'
                         \/ \E x \in Gids : start'[x].phase = "new" /\ start'[x].content = c
    BY <2>2, HandlerCarries
  <2>5. pc'[k] \in Past => Carried(g)'
    BY <1>3
  <2> QED
    BY <2>2, <2>3, <2>4, <2>5, HandlerMove
<1>5. CASE start[g].phase \in {"new", "decode", "promote"}
  <2>1. CASE start'[g] = start[g]
    BY <1>5, <2>1 DEF Carried
  <2>2. CASE Starter(g)
    <3>1. \A p \in Phases : Phase(g, p) => start'[g].phase = p
      BY PhaseStep
    <3>2. {"new", "promote", "schedule", "up"} \subseteq Phases
      BY DEF Phases, Starting
    <3>3. CASE DecodeWrite(g)
      <4>1. gidRec'[g] /\ pc'[<<g, "notify">>] = "lookup" /\ "notify" \in Triggers
        BY <1>1, <1>2, <3>3, AllHandlers DEF DecodeWrite, Triggers, TypeOK
      <4> QED
        BY <4>1 DEF Carried
    <3>4. CASE DecodeFallback(g) \/ AddUri(g)
      BY <3>1, <3>2, <3>4 DEF DecodeFallback, AddUri, Carried
    <3>5. CASE Promote(g)
      <4>1. gidRec'[g] /\ start'[g].phase = "schedule"
        BY <3>1, <3>2, <3>5 DEF Promote, TypeOK
      <4> QED
        BY <4>1 DEF Carried
    <3>6. ~ScheduleCancel(g)
      BY <1>5 DEF ScheduleCancel
    <3> QED
      BY <2>2, <3>3, <3>4, <3>5, <3>6 DEF Starter
  <2> QED
    BY <2>1, <2>2, OwnStart
<1>6. ASSUME gidRec[g], gidRec'[g],
             \/ start[g].phase = "schedule"
             \/ cancel[g] \in {"scheduled", "sent"}
             \/ \E t \in Triggers : pc[<<g, t>>] = "lookup"
      PROVE  Carried(g)'
  <2>1. CASE start[g].phase = "schedule"
    <3>1. CASE start'[g] = start[g]
      BY <1>6, <2>1, <3>1 DEF Carried
    <3>2. CASE Starter(g)
      <4>1. ScheduleCancel(g)
        BY <2>1, <3>2 DEF Starter, DecodeWrite, DecodeFallback, AddUri, Promote
      <4>2. cancel'[g] = "scheduled"
        BY <4>1 DEF ScheduleCancel, TypeOK
      <4> QED
        BY <1>6, <4>2 DEF Carried
    <3> QED
      BY <3>1, <3>2, OwnStart
  <2>2. CASE cancel[g] \in {"scheduled", "sent"}
    <3>1. CASE cancel'[g] \in {"scheduled", "sent"}
      BY <1>6, <3>1 DEF Carried
    <3>2. CASE pc'[<<g, "cancel">>] = "lookup"
      BY <1>6, <3>2 DEF Carried, Triggers
    <3>3. CASE \E t \in Triggers : pc'[<<g, t>>] = "hash"
      BY <3>3 DEF Carried, Active, Completing
    <3> QED
      BY <2>2, <3>1, <3>2, <3>3, CancelTaken
  <2>3. ASSUME NEW t \in Triggers, pc[<<g, t>>] = "lookup" PROVE Carried(g)'
    <3> DEFINE k == <<g, t>>
    <3>1. k \in Handlers /\ pc[k] = "lookup" /\ k[1] = g
      BY <1>1, <2>3
    <3>2. CASE pc'[k] = pc[k]
      BY <1>6, <2>3, <3>2 DEF Carried
    <3>3. CASE Handler(k)
      <4>1. LookupRecord(k)
        BY <1>6, <3>1, <3>3 DEF Handler, GiveUp, Clean, ReadRecord, Hash, CompleteHref, DeleteMarker,
           MarkComplete, ReportStored, Tally, Decide, Requeue, RetryTransition, ExhaustMarker, ReportFailed
      <4>2. pc'[k] = "clean"
        BY <1>2, <3>1, <4>1 DEF LookupRecord, Goto
      <4> QED
        BY <1>3, <4>2 DEF Active, Acking
    <3>4. "lookup" \in Active
      BY DEF Active, Acking
    <3> QED
      BY <3>1, <3>2, <3>3, <3>4, HandlerMove
  <2> QED
    BY <1>6, <2>1, <2>2, <2>3
<1>7. CASE gidRec[g] /\ ~gidRec'[g]
  BY <1>3, <1>7, RecordTaken
<1> HIDE DEF Next4
<1>8. CASE /\ gidRec[g]
           /\ \/ start[g].phase = "schedule"
              \/ cancel[g] \in {"scheduled", "sent"}
              \/ \E t \in Triggers : pc[<<g, t>>] = "lookup"
  BY <1>6, <1>7, <1>8
<1> QED
  BY <1>4, <1>5, <1>8 DEF Carried, Next4

LEMMA QueuedStep ==
    ASSUME TypeOK, Structure, [Next]_vars, NEW c \in Contents, Queued(c)
    PROVE  \/ Queued(c)'
           \/ \E x \in Gids : start'[x].phase \in {"new", "decode"} /\ start'[x].content = c
<1>1. queue \in Seq(Contents) /\ Len(queue) \in Nat /\ DOMAIN queue = 1 .. Len(queue)
  BY LenProperties DEF TypeOK
<1>2. queue' \in Seq(Contents) /\ Len(queue') \in Nat /\ DOMAIN queue' = 1 .. Len(queue')
  BY TypeNext, LenProperties DEF TypeOK
<1>3. PICK i \in 1 .. Len(queue) : queue[i] = c
  BY <1>1 DEF Queued
<1>4. CASE UNCHANGED queue
  BY <1>1, <1>3, <1>4 DEF Queued
<1>5. ASSUME NEW x \in Contents, Accept(x) PROVE Queued(c)'
  <2>1. queue' = Append(queue, x)
    BY <1>5 DEF Accept
  <2>2. Len(queue') = Len(queue) + 1 /\ queue'[i] = queue[i]
    BY <1>1, <1>3, <2>1, AppendProperties
  <2>3. i \in DOMAIN queue'
    BY <1>1, <1>2, <1>3, <2>2
  <2> QED
    BY <1>3, <2>2, <2>3 DEF Queued
<1>6. CASE PollOnce
  <2>1. PICK n \in Nat :
          /\ 0 < n /\ n <= Len(queue) /\ n <= Cardinality(Free)
          /\ \A g \in Gids :
                IF g \in Used + 1 .. Used + n
                THEN /\ start'[g].content = queue[g - Used]
                     /\ start'[g].phase \in {"new", "decode"}
                ELSE TRUE
          /\ Len(queue') = Len(queue) - n
          /\ \A j \in 1 .. Len(queue') : queue'[j] = queue[j + n]
    BY <1>6, PollStep
  <2>2. MaxStarts \in Nat /\ Used \in Nat /\ Cardinality(Free) \in Nat
    BY UsedType, DownloaderAssumption
  <2>3. CASE i <= n
    <3>1. Used + i \in Gids /\ Used + i \in Used + 1 .. Used + n /\ (Used + i) - Used = i
      <4>1. Used + n <= MaxStarts
        BY <2>1, <2>2 DEF Used
      <4> QED
        BY <1>1, <1>3, <2>2, <2>3, <4>1 DEF Gids
    <3> QED
      BY <1>3, <2>1, <3>1
  <2>4. CASE i > n
    <3>1. i - n \in 1 .. Len(queue') /\ (i - n) + n = i
      BY <1>1, <1>3, <2>1, <2>4
    <3> QED
      BY <1>2, <1>3, <2>1, <3>1 DEF Queued
  <2> QED
    BY <1>1, <1>3, <2>1, <2>3, <2>4
<1>7. ASSUME NEW x \in Contents, MarkerExpires(x) \/ \E h \in Hrefs : Copy(x, h)
      PROVE  UNCHANGED queue
  BY <1>7 DEF MarkerExpires, Copy
<1> QED
  BY <1>4, <1>5, <1>6, <1>7, Steps, HandlerFrame, AttemptFrame, LoopFrame DEF OutsideStep

LEMMA ServedStep ==
    ASSUME TypeOK, Structure, CommandsAwaited, CompletionFlagged, Served, [Next]_vars, faults' = 0
    PROVE  Served'
<1> DEFINE Held(c) == \E g \in Gids : start[g].phase # "free" /\ start[g].content = c /\ Carried(g)
<1> SUFFICES ASSUME NEW c \in Contents, jobHref'[c] # NoHref
             PROVE  Over(c)' \/ Queued(c)' \/ Held(c)'
  BY DEF Served, Accepted
<1>1. ASSUME NEW x \in Gids, start'[x].phase \in {"new", "decode"}, start'[x].content = c
      PROVE  Held(c)'
  BY <1>1 DEF Carried
<1>2. CASE ~Accepted(c)
  <2>1. Accept(c)
    BY <1>2, AcceptedOnce DEF Accepted
  <2>2. queue' = Append(queue, c) /\ queue \in Seq(Contents)
    BY <2>1 DEF Accept, TypeOK
  <2>3. queue' \in Seq(Contents) /\ Len(queue') = Len(queue) + 1 /\ queue'[Len(queue) + 1] = c
    BY <2>2, AppendProperties
  <2>4. Len(queue) + 1 \in DOMAIN queue'
    BY <2>2, <2>3, LenProperties
  <2> QED
    BY <2>3, <2>4 DEF Queued
<1>3. CASE Over(c)
  BY <1>3, OverStays
<1>4. CASE Queued(c)
  BY <1>1, <1>4, QueuedStep
<1>5. ASSUME NEW g \in Gids, start[g].phase # "free", start[g].content = c, Carried(g)
      PROVE  Over(c)' \/ Held(c)'
  <2>1. start'[g].phase # "free" /\ start'[g].content = c
    BY <1>5, StartStep DEF AttemptKept
  <2>2. CASE Carried(g)'
    BY <2>1, <2>2
  <2> QED
    BY <1>1, <1>5, <2>2, CarriedStep
<1> HIDE DEF Held
<1>6. CASE Accepted(c)
  BY <1>3, <1>4, <1>5, <1>6 DEF Served, Held
<1> QED
  BY <1>2, <1>6

LEMMA InvariantInit == Init => Invariant
<1> SUFFICES ASSUME Init PROVE Invariant
  OBVIOUS
<1>1. TypeOK /\ Structure
  BY TypeInit, StructureInit
<1>2. \A k \in Handlers : pc[k] = "idle"
  BY DEF Init
<1>3. \A c \in Contents : ~Accepted(c)
  BY DEF Init, Accepted
<1>4. CommandsAwaited
  BY <1>2, AllHandlers DEF CommandsAwaited, Active, Acking, Completing, Retrying
<1>5. CompletionFlagged /\ ReportsUnmarked
  BY <1>2 DEF Init, CompletionFlagged, ReportsUnmarked, Holding, EmptyFields
<1>6. Unmarked /\ Served
  BY <1>3 DEF Unmarked, Served
<1> QED
  BY <1>1, <1>4, <1>5, <1>6 DEF Invariant, Faultless

LEMMA InvariantNext == Invariant /\ [Next]_vars => Invariant'
<1> SUFFICES ASSUME Invariant, [Next]_vars PROVE Invariant'
  OBVIOUS
<1>1. TypeOK' /\ Structure'
  BY TypeNext, StructureNext DEF Invariant
<1>2. ASSUME faults' = 0
      PROVE (CommandsAwaited /\ CompletionFlagged /\ ReportsUnmarked /\ Unmarked /\ Served)'
  <2>1. TypeOK /\ Structure /\ CommandsAwaited /\ CompletionFlagged /\ ReportsUnmarked /\ Unmarked /\ Served
    BY <1>2, NoFault DEF Invariant, Faultless
  <2> QED
    BY <1>2, <2>1, CommandsAwaitedStep, CompletionFlaggedStep, ReportsUnmarkedStep, UnmarkedStep, ServedStep
<1> QED
  BY <1>1, <1>2 DEF Invariant, Faultless

LEMMA InvariantHolds == Spec => []Invariant
BY InvariantInit, InvariantNext, PTL DEF Spec

\* While nothing fails, a job whose marker is gone was missed, stored or given up:
\* deleteCacheMarker only runs for a completed or exhausted job (store.ts).
THEOREM UnmarkedJobsAreDecided == Spec => []UnmarkedIsDecided
<1>1. Invariant => UnmarkedIsDecided
  BY Zenon DEF Invariant, Faultless, Unmarked, UnmarkedIsDecided, Accepted, At, Stored, Exhausted
<1> QED
  BY <1>1, InvariantHolds, PTL

\* While nothing fails, no order of notifications, cancels, completions, copies
\* and retries leaves an unsettled job to itself: it is queued, or an attempt of
\* it is being started, is registered with a cancel to come, or is being handled.
THEOREM SomebodyAlwaysMoves == Spec => []SomebodyMoves
<1>1. ASSUME NEW g \in Gids, Carried(g) PROVE Moving(g)
  BY <1>1 DEF Carried, Moving, Netted, Starting, Active, Acking
<1>2. ASSUME NEW c \in Contents, Over(c) PROVE Settled(c)
  BY <1>2, Zenon DEF Over, Flagged, At, Settled, Stored, Abandoned
<1>3. Invariant => SomebodyMoves
  BY <1>1, <1>2 DEF Invariant, Faultless, Served, SomebodyMoves, Accepted
<1> QED
  BY <1>3, InvariantHolds, PTL

-----------------------------------------------------------------------------
(* The refinement of DownloadJob                                           *)

JobAccepted == {c \in Contents : jobHref[c] # NoHref}
JobAnswers == [c \in Contents |-> reports[c] \cup (IF c \in missed THEN {"missed"} ELSE {})]

LEMMA JobInit == Init => Job!Init
BY DEF Init, Job!Init

\* A step of the worker is one step of the promise, or none of its business: a
\* job is accepted, one answer is given, and "missed" only to the unanswered.
LEMMA JobNext ==
    ASSUME Invariant, [Next]_vars, faults' = 0
    PROVE  [Job!Next]_(Job!vars)
<1>1. /\ TypeOK /\ Structure /\ CommandsAwaited /\ CompletionFlagged /\ ReportsUnmarked
      /\ reports \in [Contents -> SUBSET {"stored", "failed"}]
      /\ marker \in [Contents -> BOOLEAN]
  BY NoFault DEF Invariant, Faultless, TypeOK
<1>2. ASSUME UNCHANGED <<jobHref, reports, missed>> PROVE UNCHANGED <<JobAccepted, JobAnswers>>
  BY <1>2 DEF JobAccepted, JobAnswers
<1>3. ASSUME NEW c \in Contents, NEW a \in {"stored", "failed", "missed"},
             Accepted(c), a = "missed" => JobAnswers[c] = {}, UNCHANGED jobHref,
             JobAnswers' = [JobAnswers EXCEPT ![c] = @ \cup {a}]
      PROVE  (\E x \in Contents : Job!Accept(x) \/ \E y \in Job!Answers : Job!Answer(x, y))
                \/ UNCHANGED <<JobAccepted, JobAnswers>>
  <2>1. UNCHANGED JobAccepted /\ c \in JobAccepted
    BY <1>3 DEF JobAccepted, Accepted
  <2>2. CASE a \in JobAnswers[c]
    <3>1. JobAnswers[c] \cup {a} = JobAnswers[c]
      BY <2>2
    <3>2. JobAnswers' = JobAnswers
      BY <1>3, <3>1 DEF JobAnswers
    <3> QED
      BY <2>1, <3>2
  <2>3. CASE a \notin JobAnswers[c]
    <3>1. Job!Answer(c, a)
      BY <1>3, <2>1, <2>3 DEF Job!Answer, JobAccepted, JobAnswers
    <3> QED
      BY <3>1 DEF Job!Answers
  <2> QED
    BY <2>2, <2>3
<1>4. ASSUME NEW c \in Contents, Accept(c) PROVE Job!Accept(c)
  <2>1. JobAccepted' = JobAccepted \cup {c} /\ c \notin JobAccepted /\ UNCHANGED JobAnswers
    <3>1. JobLink[c] \in Hrefs /\ JobLink[c] # NoHref
      BY DownloaderAssumption, NoHrefAssumption
    <3>2. /\ jobHref \in [Contents -> Hrefs \cup {NoHref}]
          /\ jobHref[c] = NoHref /\ jobHref' = [jobHref EXCEPT ![c] = JobLink[c]]
          /\ UNCHANGED <<reports, missed>>
      BY <1>1, <1>4 DEF Accept, TypeOK
    <3>3. \A d \in Contents : jobHref'[d] = IF d = c THEN JobLink[c] ELSE jobHref[d]
      BY <3>2
    <3>4. JobAccepted' = JobAccepted \cup {c} /\ c \notin JobAccepted
      BY <3>1, <3>2, <3>3 DEF JobAccepted
    <3> QED
      BY <3>2, <3>4 DEF JobAnswers
  <2> QED
    BY <2>1 DEF Job!Accept, JobAccepted, JobAnswers
<1>5. ASSUME NEW c \in Contents, MarkerExpires(c)
      PROVE  /\ Accepted(c) /\ JobAnswers[c] = {} /\ UNCHANGED jobHref
             /\ JobAnswers' = [JobAnswers EXCEPT ![c] = @ \cup {"missed"}]
  <2>1. marker[c] /\ missed' = missed \cup {c} /\ UNCHANGED <<jobHref, reports>>
    BY <1>5 DEF MarkerExpires
  <2>2. Accepted(c) /\ c \notin missed /\ reports[c] = {}
    BY <1>1, <2>1 DEF Structure, Recorded, ReportsUnmarked
  <2> QED
    BY <2>1, <2>2 DEF JobAnswers
<1>6. ASSUME NEW k \in Handlers, ReportStored(k) \/ ReportFailed(k)
      PROVE  \E c \in Contents, a \in {"stored", "failed"} :
                /\ Accepted(c) /\ UNCHANGED jobHref
                /\ JobAnswers' = [JobAnswers EXCEPT ![c] = @ \cup {a}]
  <2>1. pc[k] # "idle"
    BY <1>6 DEF ReportStored, ReportFailed
  <2>2. PICK c \in Contents : c = ContentOf(k) /\ Accepted(c)
    BY <1>1, <2>1, ContentKept
  <2>3. PICK a \in {"stored", "failed"} :
          /\ reports' = [reports EXCEPT ![c] = @ \cup {a}] /\ UNCHANGED <<jobHref, missed>>
    BY <1>6, <2>2 DEF ReportStored, ReportFailed
  <2>4. JobAnswers' = [JobAnswers EXCEPT ![c] = @ \cup {a}]
    BY <1>1, <2>3 DEF JobAnswers
  <2> QED
    BY <2>2, <2>3, <2>4
<1>7. ASSUME NEW k \in Handlers, Handler(k), ~ReportStored(k), ~ReportFailed(k)
      PROVE  UNCHANGED <<jobHref, reports, missed>>
  BY <1>7 DEF Handler, LookupRecord, GiveUp, Clean, ReadRecord, Hash, CompleteHref, DeleteMarker,
     MarkComplete, Tally, Decide, Requeue, RetryTransition, ExhaustMarker, job
<1>8. ASSUME NEW c \in Contents, NEW h \in Hrefs, Copy(c, h)
      PROVE  UNCHANGED <<jobHref, reports, missed>>
  BY <1>8 DEF Copy
<1> DEFINE SomeStep == (\E x \in Contents : Job!Accept(x) \/ \E y \in Job!Answers : Job!Answer(x, y))
                          \/ UNCHANGED <<JobAccepted, JobAnswers>>
<1>9. SomeStep
  <2>1. ASSUME NEW c \in Contents, OutsideStep(c) PROVE SomeStep
    BY <1>2, <1>3, <1>4, <1>5, <1>8, <2>1 DEF OutsideStep
  <2>2. ASSUME NEW k \in Handlers, Handler(k) PROVE SomeStep
    BY <1>2, <1>3, <1>6, <1>7, <2>2
  <2>3. ASSUME UNCHANGED job PROVE SomeStep
    BY <1>2, <2>3 DEF job
  <2> HIDE DEF SomeStep
  <2> QED
    BY <1>1, <2>1, <2>2, <2>3, Steps, NoFault, AttemptFrame, LoopFrame
<1> QED
  BY <1>9 DEF Job!Next, Job!vars, JobAccepted, JobAnswers

\* Until something fails, the worker implements the safety of DownloadJob: each
\* accepted job is answered at most once a kind, and its marker is only reported
\* missed while no answer was given (deleteCacheMarker comes before the reports).
JobSteps == [][faults' = 0 => [Job!Next]_(Job!vars)]_vars
THEOREM ImplementsDownloadJob == Spec => Job!Init /\ JobSteps
<1>1. Invariant /\ [Next]_vars => [faults' = 0 => [Job!Next]_(Job!vars)]_vars
  BY JobNext
<1> QED
  BY <1>1, JobInit, InvariantHolds, PTL DEF Spec, JobSteps

\* Where nothing fails at all, that is the promise itself, its liveness apart.
THEOREM FaultlessImplementsDownloadJob ==
    ASSUME MaxFaults = 0
    PROVE  Spec => Job!Init /\ [][Job!Next]_(Job!vars)
<1>1. Invariant /\ [Next]_vars /\ TypeOK' => [Job!Next]_(Job!vars)
  <2>1. TypeOK' => faults' = 0
    BY DEF TypeOK
  <2> QED
    BY <2>1, JobNext
<1>2. Invariant => TypeOK
  BY DEF Invariant
<1> QED
  BY <1>1, <1>2, JobInit, InvariantHolds, TypeCorrect, PTL DEF Spec
=============================================================================
