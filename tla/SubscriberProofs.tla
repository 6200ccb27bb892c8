--------------------------- MODULE SubscriberProofs ---------------------------
(***************************************************************************)
(* Subscriber keeps its types, never has more jobs for a content than      *)
(* claims that could have been held for it, and lets the deadline marker   *)
(* stand exactly over the downloads it watches, for all replicas, entries, *)
(* batch sizes and fault bounds.                                           *)
(*                                                                         *)
(* OneJobPerLease is not inductive: what makes it so is that a claim is    *)
(* won at most once per lapse (LeaseCount), that a lease number belongs to *)
(* one task (LeaseUnique), and that a task which may still enqueue has not *)
(* done so yet (WorkFresh).  The last needs a batch never to be read       *)
(* twice by one process (Started, RawOnce).                                *)
(*                                                                         *)
(* Before its first lapse a claim has one holder and so one job, hence the *)
(* marker a settled job deletes watched no other (SoleJob).                *)
(***************************************************************************)
EXTENDS Subscriber, TLAPS

MayEnqueue(t) == pc[t] = "marker" \/ "work" \in todo[t]

\* Every entry is on the stream once, and a task exists only behind the cursor.
RawOnce == \A i, j \in DOMAIN raw : raw[i] = raw[j] => i = j
Started == \A t \in Tasks : pc[t] # "idle" =>
               \E i \in DOMAIN raw : i <= cursor[t[1]] /\ raw[i] = t[2]

\* Writes are outstanding only while the two are awaited, or after one failed.
TodoInWrite == \A t \in Tasks : todo[t] # {} => pc[t] \in {"write", "failed"}

\* A claim is won again only after it lapsed.
LeaseCount == \A c \in Contents :
                  leases[c] = lapses[c] + (IF claim[c] THEN 1 ELSE 0)
LeaseBound == \A t \in Tasks : lease[t] <= leases[ContentOf(t)]
LeaseUnique == \A t, u \in Tasks :
                  /\ lease[t] # 0
                  /\ lease[t] = lease[u]
                  /\ ContentOf(t) = ContentOf(u)
                  => t = u
EnqueuerLeased == \A t \in Tasks : MayEnqueue(t) => lease[t] # 0

WorkBound == \A i \in DOMAIN work :
                 work[i].lease \in 1 .. leases[work[i].content]
WorkUnique == \A i, j \in DOMAIN work :
                 /\ work[i].content = work[j].content
                 /\ work[i].lease = work[j].lease
                 => i = j
WorkFresh == \A t \in Tasks, i \in DOMAIN work :
                 MayEnqueue(t) /\ work[i].content = ContentOf(t)
                     => work[i].lease # lease[t]

StreamInv == RawOnce /\ Started /\ TodoInWrite
LeaseInv == LeaseCount /\ LeaseBound /\ LeaseUnique /\ EnqueuerLeased
WorkInv == WorkBound /\ WorkUnique /\ WorkFresh

IInv == TypeOK /\ StreamInv /\ LeaseInv /\ WorkInv

-----------------------------------------------------------------------------
(* Types                                                                   *)

LEMMA MsgType == \A t \in Tasks : /\ t[1] \in Replicas /\ t[2] \in Entries
                                  /\ MsgOf(t) \in Message
                                  /\ ContentOf(t) \in Contents
BY MsgAssumption DEF Tasks, MsgOf, ContentOf, Message

LEMMA InitIInv == Init => IInv
<1> SUFFICES ASSUME Init PROVE IInv
  OBVIOUS
<1>1. TypeOK
  BY DEF Init, TypeOK, EmptyHash, Status, Awaiting, Outcome, Writes
<1>2. StreamInv
  BY DEF Init, StreamInv, RawOnce, Started, TodoInWrite
<1>3. LeaseInv
  BY MsgType DEF Init, LeaseInv, LeaseCount, LeaseBound, LeaseUnique, EnqueuerLeased, MayEnqueue
<1>4. WorkInv
  BY DEF Init, WorkInv, WorkBound, WorkUnique, WorkFresh
<1> QED BY <1>1, <1>2, <1>3, <1>4 DEF IInv

LEMMA TypeIngest == ASSUME TypeOK, NEW e \in Entries, Ingest(e) PROVE TypeOK'
BY DEF TypeOK, Ingest, memory, claims, faults

LEMMA TypeRead == ASSUME TypeOK, NEW r \in Replicas, Read(r) PROVE TypeOK'
BY BoundAssumption DEF TypeOK, Read, BatchEnd, claims, faults, Awaiting, Outcome

LEMMA TypeStep == ASSUME TypeOK, NEW t \in Tasks, Step(t) PROVE TypeOK'
<1> USE MsgType DEF TypeOK, Goto, claims, faults
<1>1. CASE LookupLineage(t) BY <1>1 DEF LookupLineage, Awaiting, Outcome
<1>2. CASE RecordLineage(t) BY <1>2 DEF RecordLineage, Awaiting, Message
<1>3. CASE CheckComplete(t) BY <1>3 DEF CheckComplete, Awaiting, Outcome
<1>4. CASE WinClaim(t) BY <1>4 DEF WinClaim, DecideClaimAction, Awaiting, Outcome
<1>5. CASE LoseClaim(t) BY <1>5 DEF LoseClaim, DecideClaimAction, Awaiting, Outcome
<1>6. CASE SetMarker(t) BY <1>6 DEF SetMarker, Awaiting
<1>7. CASE WriteJob(t) BY <1>7 DEF WriteJob, Answered, Message, Status, Outcome
<1>8. CASE EnqueueWork(t)
  BY <1>8, SMTT(30) DEF EnqueueWork, Job, Answered, Message, Outcome
<1>9. CASE RecordWait(t)
  <2> DEFINE c == ContentOf(t)
             entry == [hash[c] EXCEPT !.status[MsgOf(t).href] = "wait"]
  <2>1. c \in Contents /\ MsgOf(t).href \in Hrefs
    BY DEF Message
  <2>2. entry \in [status : [Hrefs -> Status], wnm : BOOLEAN, attempt : {0, 1}]
    <3>1. hash[c] \in [status : [Hrefs -> Status], wnm : BOOLEAN, attempt : {0, 1}]
      BY <2>1
    <3>2. "wait" \in Status
      BY DEF Status
    <3> HIDE DEF TypeOK, c
    <3> QED
      BY <2>1, <3>1, <3>2
  <2>3. hash' = [hash EXCEPT ![c] = entry]
    BY <1>9 DEF RecordWait
  <2> HIDE DEF c, entry
  <2>4. hash' \in [Contents -> [status : [Hrefs -> Status], wnm : BOOLEAN, attempt : {0, 1}]]
    BY <2>1, <2>2, <2>3
  <2>5. pc' \in [Tasks -> {"idle"} \cup Awaiting \cup Outcome]
    BY <1>9 DEF RecordWait, Outcome
  <2> QED
    BY <1>9, <2>4, <2>5 DEF RecordWait
<1>10. CASE InitAttempt(t) BY <1>10 DEF InitAttempt, Awaiting
<1>11. CASE Publish(t)
  <2>1. pc' \in [Tasks -> {"idle"} \cup Awaiting \cup Outcome]
    BY <1>11 DEF Publish, Awaiting
  <2>2. published' \in SUBSET Contents /\ failures' \in Nat
    BY <1>11 DEF Publish
  <2> QED
    BY <1>11, <2>1, <2>2 DEF Publish
<1>12. CASE ReleaseClaim(t) BY <1>12 DEF ReleaseClaim, Unclaim, Outcome
<1> QED BY <1>1, <1>2, <1>3, <1>4, <1>5, <1>6, <1>7, <1>8, <1>9, <1>10, <1>11, <1>12 DEF Step

LEMMA TypeFault == ASSUME TypeOK, NEW t \in Tasks, Fault(t) PROVE TypeOK'
<1> USE MsgType DEF TypeOK, Goto, claims, faults
<1>1. CASE StepFails(t) BY <1>1 DEF StepFails, Outcome
<1>2. CASE ClaimAnswerLost(t)
  BY <1>2 DEF ClaimAnswerLost, DecideClaimAction, Awaiting, Outcome
<1>3. CASE \E w \in Writes : WriteFails(t, w) BY <1>3 DEF WriteFails, Outcome
<1> QED BY <1>1, <1>2, <1>3 DEF Fault

LEMMA TypeCrash == ASSUME TypeOK, NEW r \in Replicas, Crash(r) PROVE TypeOK'
BY DEF TypeOK, Crash, claims

LEMMA TypeAround == ASSUME TypeOK, NEW c \in Contents, Around(c) PROVE TypeOK'
<1> USE DEF TypeOK, memory, faults
<1>1. CASE ClaimExpires(c) BY <1>1 DEF ClaimExpires, Unclaim
<1>2. CASE MarkerExpires(c) BY <1>2 DEF MarkerExpires, claims
<1> QED BY <1>1, <1>2 DEF Around

LEMMA JobType == TypeOK => \A i \in DOMAIN work :
                    /\ i \in Nat /\ work[i] \in Job /\ work[i].content \in Contents
                    /\ work[i].href \in Hrefs /\ work[i].lease \in Nat
<1> SUFFICES ASSUME TypeOK, NEW i \in DOMAIN work
             PROVE  /\ i \in Nat /\ work[i] \in Job /\ work[i].content \in Contents
                    /\ work[i].href \in Hrefs /\ work[i].lease \in Nat
  OBVIOUS
<1>1. work \in Seq(Job) BY DEF TypeOK
<1>2. i \in Nat /\ work[i] \in Job BY <1>1
<1> QED BY <1>2 DEF Job

LEMMA TypeDownload ==
    ASSUME TypeOK, NEW i \in DOMAIN work, DownloadEnds(i) \/ DownloadCompletes(i)
    PROVE  TypeOK'
<1>1. i \in Nat /\ work[i].content \in Contents /\ work[i].href \in Hrefs
  BY JobType
<1>2. CASE DownloadEnds(i)
  BY <1>1, <1>2 DEF TypeOK, DownloadEnds, memory, claims, faults
<1>3. CASE DownloadCompletes(i)
  <2> DEFINE c == work[i].content
             T == [status : [Hrefs -> Status], wnm : BOOLEAN, attempt : {0, 1}]
  <2>1. hash \in [Contents -> T] /\ completed \in [Contents -> BOOLEAN]
    BY DEF TypeOK
  <2>2. /\ hash' = [hash EXCEPT ![c].status[work[i].href] = "complete"]
        /\ completed' = [completed EXCEPT ![c] = TRUE]
        /\ UNCHANGED <<raw, memory, lineage, claims, marker, work, cleared,
                       published, missed, faults>>
    BY <1>3 DEF DownloadCompletes
  <2>3. hash' \in [Contents -> T]
    BY <1>1, <2>1, <2>2 DEF Status
  <2>4. completed' \in [Contents -> BOOLEAN]
    BY <2>1, <2>2
  <2> QED BY <2>2, <2>3, <2>4 DEF TypeOK, memory, claims, faults
<1> QED BY <1>2, <1>3

LEMMA TypeNext == ASSUME TypeOK, [Next]_vars PROVE TypeOK'
<1>1. CASE Next
  BY <1>1, TypeIngest, TypeRead, TypeStep, TypeFault, TypeCrash, TypeAround,
     TypeDownload DEF Next
<1>2. CASE UNCHANGED vars
  BY <1>2 DEF vars, memory, claims, faults, TypeOK
<1> QED BY <1>1, <1>2

\* The types of Subscriber hold in every reachable state.
THEOREM TypeCorrect == Spec => []TypeOK
BY InitIInv, TypeNext, PTL DEF Spec, IInv

-----------------------------------------------------------------------------
(* The tasks and the stream                                                *)

\* A step of a task that has been started, and its faults.
LEMMA StreamTask ==
    ASSUME TypeOK, StreamInv, NEW t \in Tasks, Step(t) \/ Fault(t)
    PROVE  StreamInv'
<1> DEFINE Local == /\ UNCHANGED <<raw, cursor>>
                    /\ pc[t] # "idle"
                    /\ \A u \in Tasks \ {t} : pc'[u] = pc[u] /\ todo'[u] = todo[u]
                    /\ todo'[t] # {} => pc'[t] \in {"write", "failed"}
<1>1. Local
  <2> USE DEF TypeOK, StreamInv, TodoInWrite, Goto
  <2>1. CASE LookupLineage(t) BY <2>1 DEF LookupLineage
  <2>2. CASE RecordLineage(t) BY <2>2 DEF RecordLineage
  <2>3. CASE CheckComplete(t) BY <2>3 DEF CheckComplete
  <2>4. CASE WinClaim(t) BY <2>4 DEF WinClaim, DecideClaimAction
  <2>5. CASE LoseClaim(t) BY <2>5 DEF LoseClaim
  <2>6. CASE SetMarker(t) BY <2>6 DEF SetMarker
  <2>7. CASE WriteJob(t) BY <2>7 DEF WriteJob, Answered
  <2>8. CASE EnqueueWork(t) BY <2>8 DEF EnqueueWork, Answered
  <2>9. CASE RecordWait(t) BY <2>9 DEF RecordWait
  <2>10. CASE InitAttempt(t) BY <2>10 DEF InitAttempt
  <2>11. CASE Publish(t) BY <2>11 DEF Publish
  <2>12. CASE ReleaseClaim(t) BY <2>12 DEF ReleaseClaim
  <2>13. CASE StepFails(t) BY <2>13 DEF StepFails, InRedis
  <2>14. CASE ClaimAnswerLost(t) BY <2>14 DEF ClaimAnswerLost, DecideClaimAction
  <2>15. CASE \E w \in Writes : WriteFails(t, w) BY <2>15 DEF WriteFails
  <2> QED BY <2>1, <2>2, <2>3, <2>4, <2>5, <2>6, <2>7, <2>8, <2>9, <2>10, <2>11, <2>12, <2>13, <2>14, <2>15 DEF Step, Fault
<1>2. RawOnce' BY <1>1 DEF StreamInv, RawOnce
<1>3. Started' BY <1>1 DEF StreamInv, Started
<1>4. TodoInWrite' BY <1>1 DEF StreamInv, TodoInWrite
<1> QED BY <1>2, <1>3, <1>4 DEF StreamInv

LEMMA StreamIngest ==
    ASSUME TypeOK, StreamInv, NEW e \in Entries, Ingest(e) PROVE StreamInv'
<1> USE DEF TypeOK, StreamInv, Ingest, memory
<1>0. UNCHANGED <<cursor, pc, todo>>
  OBVIOUS
<1>1. /\ DOMAIN raw' = DOMAIN raw \cup {Len(raw) + 1}
      /\ \A i \in DOMAIN raw : raw'[i] = raw[i] /\ raw[i] # e
      /\ raw'[Len(raw) + 1] = e
  OBVIOUS
<1>2. RawOnce' BY <1>1 DEF RawOnce
<1>3. Started'
  <2> SUFFICES ASSUME NEW t \in Tasks, pc[t] # "idle"
               PROVE  \E i \in DOMAIN raw' : i <= cursor[t[1]] /\ raw'[i] = t[2]
    BY <1>0 DEF Started
  <2>1. PICK i \in DOMAIN raw : i <= cursor[t[1]] /\ raw[i] = t[2]
    BY DEF Started
  <2> QED BY <1>1, <2>1
<1>4. TodoInWrite' BY <1>0 DEF TodoInWrite
<1> QED BY <1>2, <1>3, <1>4

\* The batch lies behind the old cursor, so none of its tasks exists yet.
LEMMA StreamRead ==
    ASSUME TypeOK, StreamInv, NEW r \in Replicas, Read(r)
    PROVE  StreamInv' /\ \A t \in Tasks : pc'[t] # pc[t] =>
                              pc[t] = "idle" /\ pc'[t] # "marker"
<1> USE DEF TypeOK, StreamInv, Read
<1>1. cursor[r] < BatchEnd(r) /\ BatchEnd(r) \in Nat /\ BatchEnd(r) <= Len(raw)
  BY BoundAssumption DEF BatchEnd
<1>2. ASSUME NEW t \in Tasks, pc'[t] # pc[t]
      PROVE  /\ pc[t] = "idle" /\ pc'[t] # "marker"
             /\ t[1] = r
             /\ \E i \in DOMAIN raw : i <= BatchEnd(r) /\ raw[i] = t[2]
  <2>1. t[1] = r /\ pc'[t] # "marker" BY <1>2
  <2>2. PICK i \in cursor[r] + 1 .. BatchEnd(r) : raw[i] = t[2] BY <1>2
  <2>3. i \in DOMAIN raw /\ i > cursor[r] BY <2>2, <1>1
  <2>4. pc[t] = "idle" BY <2>1, <2>2, <2>3 DEF Started, RawOnce
  <2> QED BY <2>1, <2>2, <2>3, <2>4
<1>3. RawOnce' BY DEF RawOnce
<1>4. Started'
  <2> SUFFICES ASSUME NEW t \in Tasks, pc'[t] # "idle"
               PROVE  \E i \in DOMAIN raw : i <= cursor'[t[1]] /\ raw[i] = t[2]
    BY DEF Started
  <2>1. CASE pc'[t] = pc[t] BY <2>1, <1>1, MsgType DEF Started
  <2>2. CASE pc'[t] # pc[t]
    <3>1. cursor'[t[1]] = BatchEnd(r)
      BY <1>2, <2>2
    <3> QED
      BY <1>2, <2>2, <3>1
  <2> QED BY <2>1, <2>2
<1>5. TodoInWrite' BY <1>2 DEF TodoInWrite
<1> QED BY <1>2, <1>3, <1>4, <1>5

LEMMA StreamCrash ==
    ASSUME TypeOK, StreamInv, NEW r \in Replicas, Crash(r) PROVE StreamInv'
BY MsgType DEF TypeOK, StreamInv, RawOnce, Started, TodoInWrite, Crash

LEMMA StreamRest ==
    ASSUME StreamInv, UNCHANGED <<raw, cursor, pc, todo>> PROVE StreamInv'
BY DEF StreamInv, RawOnce, Started, TodoInWrite

-----------------------------------------------------------------------------
(* Leases and jobs                                                         *)

\* Steps that win no claim, give none up and enqueue nothing.
Quiet == /\ UNCHANGED <<lease, claim, leases, lapses, work>>
         /\ \A u \in Tasks : MayEnqueue(u)' => MayEnqueue(u)

LEMMA QuietStep == ASSUME LeaseInv, WorkInv, Quiet PROVE LeaseInv' /\ WorkInv'
<1>1. LeaseInv'
  BY DEF Quiet, LeaseInv, LeaseCount, LeaseBound, LeaseUnique, EnqueuerLeased
<1>2. WorkInv'
  BY DEF Quiet, WorkInv, WorkBound, WorkUnique, WorkFresh
<1> QED BY <1>1, <1>2

LEMMA QuietTask ==
    ASSUME TypeOK, StreamInv, NEW t \in Tasks,
           \/ LookupLineage(t) \/ RecordLineage(t) \/ CheckComplete(t) \/ LoseClaim(t)
           \/ SetMarker(t) \/ WriteJob(t) \/ RecordWait(t) \/ InitAttempt(t)
           \/ Publish(t) \/ StepFails(t) \/ \E w \in Writes : WriteFails(t, w)
    PROVE  Quiet
<1> USE DEF TypeOK, Quiet, MayEnqueue, Goto, claims
<1>1. CASE LookupLineage(t) BY <1>1 DEF LookupLineage
<1>2. CASE RecordLineage(t) BY <1>2 DEF RecordLineage
<1>3. CASE CheckComplete(t) BY <1>3 DEF CheckComplete
<1>4. CASE LoseClaim(t) BY <1>4 DEF LoseClaim, DecideClaimAction
<1>5. CASE SetMarker(t) BY <1>5 DEF SetMarker
<1>6. CASE WriteJob(t) BY <1>6 DEF WriteJob, Answered
<1>7. CASE RecordWait(t) BY <1>7 DEF RecordWait
<1>8. CASE InitAttempt(t) BY <1>8 DEF InitAttempt
<1>9. CASE Publish(t) BY <1>9 DEF Publish
<1>10. CASE StepFails(t) BY <1>10 DEF StepFails
<1>11. CASE \E w \in Writes : WriteFails(t, w) BY <1>11 DEF WriteFails
<1> QED BY <1>1, <1>2, <1>3, <1>4, <1>5, <1>6, <1>7, <1>8, <1>9, <1>10, <1>11

\* A new claim carries a number above all those in use.
LEMMA NewClaim ==
    ASSUME TypeOK, StreamInv, LeaseInv, WorkInv, NEW t \in Tasks,
           WinClaim(t) \/ ClaimAnswerLost(t)
    PROVE  LeaseInv' /\ WorkInv'
<1> DEFINE c == ContentOf(t)
<1> USE MsgType, JobType
<1>1. /\ ~claim[c] /\ pc[t] = "claim"
      /\ claim' = [claim EXCEPT ![c] = TRUE]
      /\ leases' = [leases EXCEPT ![c] = @ + 1]
      /\ UNCHANGED <<lapses, todo, work>>
      /\ \A u \in Tasks \ {t} : pc'[u] = pc[u] /\ lease'[u] = lease[u]
  BY DEF WinClaim, ClaimAnswerLost, Goto, TypeOK
<1>2. \/ lease'[t] = leases[c] + 1
      \/ lease'[t] = lease[t] /\ pc'[t] # "marker"
  BY DEF WinClaim, ClaimAnswerLost, Goto, TypeOK, DecideClaimAction
<1>3. /\ lease \in [Tasks -> Nat] /\ leases \in [Contents -> Nat]
      /\ lapses \in [Contents -> Nat] /\ claim \in [Contents -> BOOLEAN]
      /\ c \in Contents
  BY DEF TypeOK
<1>4. todo[t] = {} BY <1>1 DEF StreamInv, TodoInWrite
<1>5. \A u \in Tasks \ {t} : MayEnqueue(u)' = MayEnqueue(u)
  BY <1>1 DEF MayEnqueue
<1>6. MayEnqueue(t)' => lease'[t] = leases[c] + 1
  BY <1>1, <1>2, <1>4 DEF MayEnqueue
<1>7. \A d \in Contents : leases[d] <= leases'[d] /\ leases'[d] \in Nat
  BY <1>1, <1>3
<1>8. leases'[c] = leases[c] + 1 BY <1>1, <1>3
<1>9. LeaseCount'
  BY <1>1, <1>3 DEF LeaseInv, LeaseCount
<1>10. LeaseBound'
  <2> SUFFICES ASSUME NEW u \in Tasks PROVE lease'[u] <= leases'[ContentOf(u)]
    BY DEF LeaseBound
  <2>1. lease[u] <= leases[ContentOf(u)] /\ lease[u] \in Nat /\ ContentOf(u) \in Contents
    BY <1>3 DEF LeaseInv, LeaseBound
  <2> QED BY <2>1, <1>1, <1>2, <1>3, <1>7, <1>8
<1>11. LeaseUnique'
  <2> SUFFICES ASSUME NEW u \in Tasks, NEW v \in Tasks, lease'[u] # 0,
                      lease'[u] = lease'[v], ContentOf(u) = ContentOf(v), u # v
               PROVE  FALSE
    BY DEF LeaseUnique
  <2>1. /\ lease[u] \in Nat /\ lease[u] <= leases[ContentOf(u)]
        /\ lease[v] \in Nat /\ lease[v] <= leases[ContentOf(v)]
    BY <1>3 DEF LeaseInv, LeaseBound
  <2>2. ~(lease[u] # 0 /\ lease[u] = lease[v])
    BY DEF LeaseInv, LeaseUnique
  <2> QED BY <2>1, <2>2, <1>1, <1>2, <1>3
<1>12. EnqueuerLeased'
  BY <1>1, <1>3, <1>5, <1>6 DEF LeaseInv, EnqueuerLeased
<1>13. WorkBound'
  <2> SUFFICES ASSUME NEW i \in DOMAIN work
               PROVE  work[i].lease \in 1 .. leases'[work[i].content]
    BY <1>1 DEF WorkBound
  <2>1. work[i].lease \in 1 .. leases[work[i].content] /\ work[i].content \in Contents
    BY DEF WorkInv, WorkBound
  <2> QED BY <2>1, <1>3, <1>7
<1>14. WorkUnique' BY <1>1 DEF WorkInv, WorkUnique
<1>15. WorkFresh'
  <2> SUFFICES ASSUME NEW u \in Tasks, NEW i \in DOMAIN work, MayEnqueue(u)',
                      work[i].content = ContentOf(u)
               PROVE  work[i].lease # lease'[u]
    BY <1>1 DEF WorkFresh
  <2>1. CASE u = t
    <3>1. work[i].lease \in 1 .. leases[c] BY <2>1 DEF WorkInv, WorkBound
    <3> QED BY <3>1, <2>1, <1>3, <1>6
  <2>2. CASE u # t BY <2>2, <1>1, <1>5 DEF WorkInv, WorkFresh
  <2> QED BY <2>1, <2>2
<1> QED BY <1>9, <1>10, <1>11, <1>12, <1>13, <1>14, <1>15 DEF LeaseInv, WorkInv

\* A task enqueues its own lease, once.
LEMMA NewJob ==
    ASSUME TypeOK, StreamInv, LeaseInv, WorkInv, NEW t \in Tasks, EnqueueWork(t)
    PROVE  LeaseInv' /\ WorkInv'
<1> DEFINE job == [content |-> ContentOf(t), href |-> MsgOf(t).href, lease |-> lease[t]]
           n == Len(work) + 1
<1> USE MsgType, JobType
<1>1. /\ UNCHANGED <<lease, claim, leases, lapses>>
      /\ "work" \in todo[t] /\ todo' = [todo EXCEPT ![t] = @ \ {"work"}]
      /\ work' = Append(work, job)
      /\ \A u \in Tasks : pc'[u] = pc[u] \/ (u = t /\ pc'[u] = "download")
  <2>1. pc \in [Tasks -> {"idle"} \cup Awaiting \cup Outcome] BY DEF TypeOK
  <2>2. pc' = [pc EXCEPT ![t] = "download"] \/ pc' = pc
    BY DEF EnqueueWork, Answered
  <2>3. \A u \in Tasks : pc'[u] = pc[u] \/ (u = t /\ pc'[u] = "download")
    BY <2>1, <2>2
  <2>4. UNCHANGED <<lease, claim, leases, lapses>> BY DEF EnqueueWork, claims
  <2>5. "work" \in todo[t] /\ todo' = [todo EXCEPT ![t] = @ \ {"work"}]
    BY DEF EnqueueWork, Answered
  <2>6. work' = Append(work, job) BY DEF EnqueueWork
  <2> QED BY <2>3, <2>4, <2>5, <2>6
<1>2. work \in Seq(Job) /\ todo \in [Tasks -> SUBSET Writes] /\ lease \in [Tasks -> Nat]
      /\ leases \in [Contents -> Nat]
  BY DEF TypeOK
<1>3. /\ n \notin DOMAIN work
      /\ DOMAIN work' = DOMAIN work \cup {n}
      /\ work'[n] = job
      /\ \A i \in DOMAIN work : work'[i] = work[i]
  BY <1>1, <1>2
<1>4. ~MayEnqueue(t)' /\ \A u \in Tasks \ {t} : MayEnqueue(u)' => MayEnqueue(u)
  BY <1>1, <1>2 DEF MayEnqueue, StreamInv, TodoInWrite
<1>5. MayEnqueue(t) BY <1>1 DEF MayEnqueue
<1>6. lease[t] # 0 /\ lease[t] \in 1 .. leases[ContentOf(t)]
  BY <1>2, <1>5 DEF LeaseInv, EnqueuerLeased, LeaseBound
<1>7. LeaseInv'
  <2>1. LeaseCount' /\ LeaseBound' /\ LeaseUnique'
    BY <1>1 DEF LeaseInv, LeaseCount, LeaseBound, LeaseUnique
  <2>2. EnqueuerLeased'
    BY <1>1, <1>4 DEF LeaseInv, EnqueuerLeased
  <2> QED BY <2>1, <2>2 DEF LeaseInv
<1>8. WorkBound'
  <2> SUFFICES ASSUME NEW i \in DOMAIN work'
               PROVE  work'[i].lease \in 1 .. leases[work'[i].content]
    BY <1>1 DEF WorkBound
  <2> QED BY <1>3, <1>6 DEF WorkInv, WorkBound
<1>9. WorkUnique'
  BY <1>3, <1>5 DEF WorkInv, WorkUnique, WorkFresh
<1>10. WorkFresh'
  <2> SUFFICES ASSUME NEW u \in Tasks, NEW i \in DOMAIN work', MayEnqueue(u)',
                      work'[i].content = ContentOf(u)
               PROVE  work'[i].lease # lease[u]
    BY <1>1 DEF WorkFresh
  <2>1. u # t /\ MayEnqueue(u) BY <1>4
  <2>2. CASE i = n
    <3>1. ContentOf(u) = ContentOf(t) BY <1>3, <2>2
    <3> QED BY <1>3, <1>6, <2>1, <2>2, <3>1 DEF LeaseInv, LeaseUnique
  <2>3. CASE i # n BY <1>3, <2>1, <2>3 DEF WorkInv, WorkFresh
  <2> QED BY <2>2, <2>3
<1> QED BY <1>7, <1>8, <1>9, <1>10 DEF WorkInv

LEMMA Lapse ==
    ASSUME TypeOK, LeaseInv, WorkInv, NEW c \in Contents, Unclaim(c),
           UNCHANGED <<lease, todo, work>>,
           \A t \in Tasks : pc'[t] = "marker" => pc[t] = "marker"
    PROVE  LeaseInv' /\ WorkInv'
<1> USE DEF Unclaim
<1>1. \A t \in Tasks : MayEnqueue(t)' => MayEnqueue(t)
  BY DEF MayEnqueue
<1>2. LeaseCount'
  BY DEF TypeOK, LeaseInv, LeaseCount
<1>3. LeaseBound' /\ LeaseUnique' /\ EnqueuerLeased'
  BY <1>1 DEF LeaseInv, LeaseBound, LeaseUnique, EnqueuerLeased
<1>4. WorkInv'
  BY <1>1 DEF WorkInv, WorkBound, WorkUnique, WorkFresh
<1> QED BY <1>2, <1>3, <1>4 DEF LeaseInv

LEMMA Forget ==
    ASSUME TypeOK, LeaseInv, WorkInv, NEW r \in Replicas, Crash(r)
    PROVE  LeaseInv' /\ WorkInv'
<1> USE MsgType
<1>1. \A t \in Tasks : \/ lease'[t] = 0 /\ ~MayEnqueue(t)'
                       \/ lease'[t] = lease[t] /\ MayEnqueue(t)' = MayEnqueue(t)
  BY DEF Crash, MayEnqueue
<1>2. UNCHANGED <<claim, leases, lapses, work>>
  BY DEF Crash, claims
<1>3. LeaseCount' BY <1>2 DEF LeaseInv, LeaseCount
<1>4. LeaseBound'
  <2>1. leases \in [Contents -> Nat] BY DEF TypeOK
  <2> QED BY <1>1, <1>2, <2>1 DEF LeaseInv, LeaseBound
<1>5. LeaseUnique' BY <1>1 DEF LeaseInv, LeaseUnique
<1>6. EnqueuerLeased' BY <1>1 DEF LeaseInv, EnqueuerLeased
<1>7. WorkInv' BY <1>1, <1>2 DEF WorkInv, WorkBound, WorkUnique, WorkFresh
<1> QED BY <1>3, <1>4, <1>5, <1>6, <1>7 DEF LeaseInv

LEMMA LeaseNext ==
    ASSUME TypeOK, StreamInv, LeaseInv, WorkInv, Next PROVE LeaseInv' /\ WorkInv'
<1>1. ASSUME NEW e \in Entries, Ingest(e) PROVE Quiet
  BY <1>1 DEF Ingest, Quiet, MayEnqueue, memory, claims
<1>2. ASSUME NEW r \in Replicas, Read(r) PROVE Quiet
  BY <1>2, StreamRead DEF Read, Quiet, MayEnqueue, claims
<1>3. ASSUME NEW t \in Tasks, Step(t) \/ Fault(t) PROVE LeaseInv' /\ WorkInv'
  <2>1. CASE ReleaseClaim(t)
    BY <2>1, MsgType, Lapse DEF ReleaseClaim, Goto, TypeOK
  <2>2. CASE WinClaim(t) \/ ClaimAnswerLost(t) BY <2>2, NewClaim
  <2>3. CASE EnqueueWork(t) BY <2>3, NewJob
  <2>4. CASE ~(\/ ReleaseClaim(t) \/ WinClaim(t) \/ ClaimAnswerLost(t)
               \/ EnqueueWork(t))
    BY <1>3, <2>4, QuietTask, QuietStep DEF Step, Fault
  <2> QED BY <2>1, <2>2, <2>3, <2>4
<1>4. ASSUME NEW r \in Replicas, Crash(r) PROVE LeaseInv' /\ WorkInv'
  BY <1>4, Forget
<1>5. ASSUME NEW c \in Contents, ClaimExpires(c) PROVE LeaseInv' /\ WorkInv'
  <2>1. UNCHANGED <<lease, todo, work, pc>> BY <1>5 DEF ClaimExpires, memory
  <2> QED BY <1>5, <2>1, Lapse DEF ClaimExpires
<1>6. ASSUME NEW c \in Contents, MarkerExpires(c) PROVE Quiet
  BY <1>6 DEF MarkerExpires, Quiet, MayEnqueue, memory, claims
<1>7. ASSUME NEW i \in DOMAIN work, DownloadEnds(i) \/ DownloadCompletes(i)
      PROVE  Quiet
  BY <1>7 DEF DownloadEnds, DownloadCompletes, Quiet, MayEnqueue, memory, claims
<1> QED BY <1>1, <1>2, <1>3, <1>4, <1>5, <1>6, <1>7, QuietStep DEF Next, Around

LEMMA IInvNext == ASSUME IInv, [Next]_vars PROVE IInv'
<1> USE DEF IInv
<1>1. TypeOK' BY TypeNext
<1>2. StreamInv'
  <2>1. ASSUME NEW c \in Contents, Around(c) PROVE UNCHANGED <<raw, cursor, pc, todo>>
    BY <2>1 DEF Around, ClaimExpires, MarkerExpires, memory
  <2>2. ASSUME NEW i \in DOMAIN work, DownloadEnds(i) \/ DownloadCompletes(i)
        PROVE  UNCHANGED <<raw, cursor, pc, todo>>
    BY <2>2 DEF DownloadEnds, DownloadCompletes, memory
  <2>3. CASE UNCHANGED vars BY <2>3, StreamRest DEF vars, memory
  <2>4. CASE Next
    BY <2>1, <2>2, <2>4, StreamIngest, StreamRead, StreamCrash, StreamTask,
       StreamRest DEF Next
  <2> QED BY <2>3, <2>4
<1>3. LeaseInv' /\ WorkInv'
  <2>1. CASE Next BY <2>1, LeaseNext
  <2>2. CASE UNCHANGED vars
    BY <2>2, QuietStep DEF vars, memory, claims, Quiet, MayEnqueue
  <2> QED BY <2>1, <2>2
<1> QED BY <1>1, <1>2, <1>3

LEMMA IInvOneJob == IInv => OneJobPerLease
<1> SUFFICES ASSUME IInv, NEW i \in DOMAIN work, NEW j \in DOMAIN work,
                    work[i].content = work[j].content
             PROVE  /\ work[i].lease \in 1 .. lapses[work[i].content] + 1
                    /\ work[i].lease = work[j].lease => i = j
  BY DEF OneJobPerLease
<1> USE DEF IInv
<1>1. work[i].content \in Contents BY JobType
<1>2. work[i].lease \in 1 .. leases[work[i].content]
  BY DEF WorkInv, WorkBound
<1>3. leases[work[i].content] \in Nat /\ lapses[work[i].content] \in Nat
  BY <1>1 DEF TypeOK
<1>4. \/ leases[work[i].content] = lapses[work[i].content] + 1
      \/ leases[work[i].content] = lapses[work[i].content] + 0
  BY <1>1 DEF LeaseInv, LeaseCount
<1> QED BY <1>2, <1>3, <1>4 DEF WorkInv, WorkUnique

\* Redundant subscribers never enqueue a content's download more often than once
\* plus the claims on it that lapsed (checkAndClaimDownload, enqueueWork).
THEOREM OneJobPerLeaseHolds == Spec => []OneJobPerLease
<1>1. Spec => []IInv
  BY InitIInv, IInvNext, PTL DEF Spec
<1> QED BY <1>1, IInvOneJob, PTL

-----------------------------------------------------------------------------
(* The marker of a download                                                *)

\* A writer of a job has seen its marker set; a settled job has had it deleted,
\* and only a settled job completes its content.
WriterIsWatched ==
    \A t \in Tasks : "work" \in todo[t] /\ lapses[ContentOf(t)] = 0
                         => marker[ContentOf(t)] \/ ContentOf(t) \in missed
ClearedOnQueue == cleared \subseteq DOMAIN work
CompletedIsCleared ==
    \A c \in Contents : completed[c] => \E i \in cleared : work[i].content = c
ClearedIsUnwatched ==
    \A i \in cleared : lapses[work[i].content] = 0 => ~marker[work[i].content]

MarkerInv == /\ WriterIsWatched /\ QueuedIsWatched
             /\ ClearedOnQueue /\ CompletedIsCleared /\ ClearedIsUnwatched

WatchInv == IInv /\ MarkerInv

\* Before a claim lapses, all jobs and writers of its content are one.
LEMMA SoleJob ==
    ASSUME IInv, NEW i \in DOMAIN work, lapses[work[i].content] = 0
    PROVE  /\ \A j \in DOMAIN work : work[j].content = work[i].content => j = i
           /\ \A t \in Tasks : ContentOf(t) = work[i].content => ~MayEnqueue(t)
<1> USE JobType, MsgType DEF IInv
<1> DEFINE c == work[i].content
<1>1. c \in Contents /\ leases[c] \in Nat
  BY DEF TypeOK
<1>2. leases[c] \in {0, 1}
  BY <1>1 DEF LeaseInv, LeaseCount
<1>3. \A j \in DOMAIN work : work[j].content = c => work[j].lease = 1
  BY <1>1, <1>2 DEF WorkInv, WorkBound
<1>4. ASSUME NEW t \in Tasks, ContentOf(t) = c, MayEnqueue(t) PROVE FALSE
  <2>1. lease[t] # 0 /\ lease[t] <= leases[c] /\ lease[t] \in Nat
    BY <1>4 DEF LeaseInv, EnqueuerLeased, LeaseBound, TypeOK
  <2>2. lease[t] = 1 BY <1>2, <2>1
  <2>3. work[i].lease # lease[t] BY <1>4 DEF WorkInv, WorkFresh
  <2> QED BY <1>3, <2>2, <2>3
<1> QED BY <1>3, <1>4 DEF WorkInv, WorkUnique

LEMMA InitMarker == Init => MarkerInv
BY DEF Init, MarkerInv, WriterIsWatched, QueuedIsWatched, ClearedOnQueue,
       CompletedIsCleared, ClearedIsUnwatched

\* Claims only ever lapse more.
Unlapsed == \A c \in Contents : lapses'[c] = 0 => lapses[c] = 0

\* Steps that leave markers, jobs and completions alone and begin no write.
Unmarking == /\ UNCHANGED <<work, cleared, marker, missed, completed>>
             /\ Unlapsed
             /\ \A t \in Tasks : "work" \in todo'[t] => "work" \in todo[t]

LEMMA UnmarkingStep == ASSUME IInv, MarkerInv, Unmarking PROVE MarkerInv'
<1> USE JobType, MsgType DEF IInv, MarkerInv, Unmarking, Unlapsed
<1>1. WriterIsWatched' BY DEF WriterIsWatched
<1>2. QueuedIsWatched' BY DEF QueuedIsWatched
<1>3. ClearedOnQueue' /\ CompletedIsCleared' BY DEF ClearedOnQueue, CompletedIsCleared
<1>4. ClearedIsUnwatched' BY DEF ClearedIsUnwatched, ClearedOnQueue
<1> QED BY <1>1, <1>2, <1>3, <1>4

LEMMA UnmarkingTask ==
    ASSUME TypeOK, NEW t \in Tasks, Step(t) \/ Fault(t), ~SetMarker(t), ~EnqueueWork(t)
    PROVE  Unmarking
<1> USE MsgType DEF TypeOK, Unmarking, Unlapsed, claims
<1>1. CASE LookupLineage(t) BY <1>1 DEF LookupLineage
<1>2. CASE RecordLineage(t) BY <1>2 DEF RecordLineage
<1>3. CASE CheckComplete(t) BY <1>3 DEF CheckComplete
<1>4. CASE WinClaim(t) BY <1>4 DEF WinClaim
<1>5. CASE LoseClaim(t) BY <1>5 DEF LoseClaim
<1>6. CASE WriteJob(t) BY <1>6 DEF WriteJob, Answered
<1>7. CASE RecordWait(t) BY <1>7 DEF RecordWait
<1>8. CASE InitAttempt(t) BY <1>8 DEF InitAttempt
<1>9. CASE Publish(t) BY <1>9 DEF Publish
<1>10. CASE ReleaseClaim(t) BY <1>10 DEF ReleaseClaim, Unclaim
<1>11. CASE StepFails(t) BY <1>11 DEF StepFails
<1>12. CASE ClaimAnswerLost(t) BY <1>12 DEF ClaimAnswerLost
<1>13. CASE \E w \in Writes : WriteFails(t, w) BY <1>13 DEF WriteFails
<1> QED BY <1>1, <1>2, <1>3, <1>4, <1>5, <1>6, <1>7, <1>8, <1>9, <1>10, <1>11,
           <1>12, <1>13 DEF Step, Fault

\* Nobody sets a marker again whose job has been settled.
LEMMA MarkerSet ==
    ASSUME IInv, MarkerInv, NEW t \in Tasks, SetMarker(t) PROVE MarkerInv'
<1> USE JobType, MsgType DEF IInv, MarkerInv
<1>1. /\ UNCHANGED <<work, cleared, lapses, completed, missed>>
      /\ marker' = [marker EXCEPT ![ContentOf(t)] = TRUE]
      /\ \A u \in Tasks \ {t} : todo'[u] = todo[u]
  BY DEF SetMarker, claims, TypeOK
<1>2. marker \in [Contents -> BOOLEAN] BY DEF TypeOK
<1>3. \A c \in Contents : marker[c] => marker'[c] BY <1>1, <1>2
<1>4. marker'[ContentOf(t)] BY <1>1, <1>2
<1>5. MayEnqueue(t) BY DEF SetMarker, MayEnqueue
<1>6. WriterIsWatched' BY <1>1, <1>3, <1>4 DEF WriterIsWatched
<1>7. QueuedIsWatched' BY <1>1, <1>3 DEF QueuedIsWatched
<1>8. ClearedOnQueue' /\ CompletedIsCleared'
  BY <1>1 DEF ClearedOnQueue, CompletedIsCleared
<1>9. ClearedIsUnwatched'
  <2> SUFFICES ASSUME NEW i \in cleared, lapses[work[i].content] = 0
               PROVE  ~marker'[work[i].content]
    BY <1>1 DEF ClearedIsUnwatched
  <2>1. i \in DOMAIN work BY DEF ClearedOnQueue
  <2>2. ContentOf(t) # work[i].content BY <1>5, <2>1, SoleJob
  <2> QED BY <1>1, <1>2, <2>1, <2>2 DEF ClearedIsUnwatched
<1> QED BY <1>6, <1>7, <1>8, <1>9

LEMMA MarkerEnqueued ==
    ASSUME IInv, MarkerInv, NEW t \in Tasks, EnqueueWork(t) PROVE MarkerInv'
<1> DEFINE job == [content |-> ContentOf(t), href |-> MsgOf(t).href, lease |-> lease[t]]
           n == Len(work) + 1
<1> USE JobType, MsgType DEF IInv, MarkerInv
<1>1. /\ UNCHANGED <<cleared, lapses, completed, missed, marker>>
      /\ "work" \in todo[t] /\ todo' = [todo EXCEPT ![t] = @ \ {"work"}]
      /\ work' = Append(work, job)
  BY DEF EnqueueWork, Answered, claims
<1>2. work \in Seq(Job) /\ todo \in [Tasks -> SUBSET Writes]
  BY DEF TypeOK
<1>3. /\ n \notin DOMAIN work /\ DOMAIN work' = DOMAIN work \cup {n}
      /\ work'[n].content = ContentOf(t)
      /\ \A i \in DOMAIN work : work'[i] = work[i]
  BY <1>1, <1>2
<1>4. WriterIsWatched' BY <1>1, <1>2 DEF WriterIsWatched
<1>5. QueuedIsWatched'
  BY <1>1, <1>3 DEF QueuedIsWatched, WriterIsWatched
<1>6. ClearedOnQueue' BY <1>1, <1>3 DEF ClearedOnQueue
<1>7. CompletedIsCleared' BY <1>1, <1>3 DEF CompletedIsCleared, ClearedOnQueue
<1>8. ClearedIsUnwatched' BY <1>1, <1>3 DEF ClearedIsUnwatched, ClearedOnQueue
<1> QED BY <1>4, <1>5, <1>6, <1>7, <1>8

LEMMA MarkerExpired ==
    ASSUME IInv, MarkerInv, NEW c \in Contents, MarkerExpires(c) PROVE MarkerInv'
<1> USE JobType, MsgType DEF IInv, MarkerInv
<1>1. /\ UNCHANGED <<work, cleared, lapses, completed, todo>>
      /\ marker' = [marker EXCEPT ![c] = FALSE] /\ missed' = missed \cup {c}
  BY DEF MarkerExpires, claims, memory
<1>2. marker \in [Contents -> BOOLEAN] BY DEF TypeOK
<1>3. \A d \in Contents : /\ marker'[d] => marker[d]
                          /\ marker[d] \/ d \in missed => marker'[d] \/ d \in missed'
  BY <1>1, <1>2
<1>4. WriterIsWatched' BY <1>1, <1>3 DEF WriterIsWatched
<1>5. QueuedIsWatched' BY <1>1, <1>3 DEF QueuedIsWatched
<1>6. ClearedOnQueue' /\ CompletedIsCleared'
  BY <1>1 DEF ClearedOnQueue, CompletedIsCleared
<1>7. ClearedIsUnwatched' BY <1>1, <1>3 DEF ClearedIsUnwatched, ClearedOnQueue
<1> QED BY <1>4, <1>5, <1>6, <1>7

\* The job that ends is the only one its marker could have watched.
LEMMA MarkerDeleted ==
    ASSUME IInv, MarkerInv, NEW i \in DOMAIN work, DownloadEnds(i) PROVE MarkerInv'
<1> DEFINE c == work[i].content
<1> USE JobType, MsgType DEF IInv, MarkerInv
<1>1. /\ UNCHANGED <<work, lapses, completed, missed, todo>>
      /\ cleared' = cleared \cup {i} /\ marker' = [marker EXCEPT ![c] = FALSE]
  BY DEF DownloadEnds, claims, memory
<1>2. marker \in [Contents -> BOOLEAN] /\ c \in Contents BY DEF TypeOK
<1>3. \A d \in Contents : d # c => marker'[d] = marker[d] BY <1>1, <1>2
<1>4. ~marker'[c] BY <1>1, <1>2
<1>5. WriterIsWatched'
  <2> SUFFICES ASSUME NEW t \in Tasks, "work" \in todo[t], lapses[ContentOf(t)] = 0
               PROVE  marker'[ContentOf(t)] \/ ContentOf(t) \in missed
    BY <1>1 DEF WriterIsWatched
  <2>1. MayEnqueue(t) BY DEF MayEnqueue
  <2>2. ContentOf(t) # c BY <2>1, SoleJob
  <2> QED BY <1>3, <2>2 DEF WriterIsWatched
<1>6. QueuedIsWatched'
  <2> SUFFICES ASSUME NEW j \in DOMAIN work \ cleared, j # i, lapses[work[j].content] = 0
               PROVE  marker'[work[j].content] \/ work[j].content \in missed
    BY <1>1 DEF QueuedIsWatched
  <2>1. work[j].content # c BY SoleJob
  <2> QED BY <1>3, <2>1 DEF QueuedIsWatched
<1>7. ClearedOnQueue' BY <1>1 DEF ClearedOnQueue
<1>8. CompletedIsCleared' BY <1>1 DEF CompletedIsCleared
<1>9. ClearedIsUnwatched'
  BY <1>1, <1>3, <1>4 DEF ClearedIsUnwatched, ClearedOnQueue
<1> QED BY <1>5, <1>6, <1>7, <1>8, <1>9

LEMMA MarkerCompleted ==
    ASSUME IInv, MarkerInv, NEW i \in DOMAIN work, DownloadCompletes(i) PROVE MarkerInv'
<1> USE JobType, MsgType DEF IInv, MarkerInv
<1>1. /\ UNCHANGED <<work, cleared, lapses, missed, marker, todo>>
      /\ i \in cleared /\ completed' = [completed EXCEPT ![work[i].content] = TRUE]
  BY DEF DownloadCompletes, claims, memory
<1>2. completed \in [Contents -> BOOLEAN] BY DEF TypeOK
<1>3. WriterIsWatched' /\ QueuedIsWatched' /\ ClearedOnQueue' /\ ClearedIsUnwatched'
  BY <1>1 DEF WriterIsWatched, QueuedIsWatched, ClearedOnQueue, ClearedIsUnwatched
<1>4. CompletedIsCleared' BY <1>1, <1>2 DEF CompletedIsCleared
<1> QED BY <1>3, <1>4

LEMMA MarkerNext == ASSUME IInv, MarkerInv, [Next]_vars PROVE MarkerInv'
<1> USE DEF IInv
<1>1. ASSUME NEW e \in Entries, Ingest(e) PROVE Unmarking
  BY <1>1 DEF Ingest, Unmarking, Unlapsed, memory, claims
<1>2. ASSUME NEW r \in Replicas, Read(r) \/ Crash(r) PROVE Unmarking
  BY <1>2 DEF Read, Crash, Unmarking, Unlapsed, claims, TypeOK
<1>3. ASSUME NEW t \in Tasks, Step(t) \/ Fault(t) PROVE MarkerInv'
  BY <1>3, MarkerSet, MarkerEnqueued, UnmarkingTask, UnmarkingStep
<1>4. ASSUME NEW c \in Contents, ClaimExpires(c) PROVE Unmarking
  BY <1>4 DEF ClaimExpires, Unclaim, Unmarking, Unlapsed, memory, TypeOK
<1>5. CASE UNCHANGED vars
  BY <1>5, UnmarkingStep DEF vars, memory, claims, Unmarking, Unlapsed
<1> QED BY <1>1, <1>2, <1>3, <1>4, <1>5, UnmarkingStep, MarkerExpired, MarkerDeleted,
           MarkerCompleted DEF Next, Around

LEMMA MarkerWatches == Spec => []WatchInv
<1>1. Init => WatchInv BY InitIInv, InitMarker DEF WatchInv
<1>2. WatchInv /\ [Next]_vars => WatchInv' BY IInvNext, MarkerNext DEF WatchInv
<1> QED BY <1>1, <1>2, PTL DEF Spec

\* A job that a worker can see and has not settled has its deadline marker, or is
\* reported missed already (setCacheMarker is awaited before enqueueWork).
THEOREM QueuedIsAlwaysWatched == Spec => []QueuedIsWatched
<1>1. WatchInv => QueuedIsWatched BY DEF WatchInv, MarkerInv
<1> QED BY <1>1, MarkerWatches, PTL

\* A completed content cannot be reported missed (deleteMarker comes before
\* markComplete, and no other task of the content sets the marker again).
THEOREM CompletedIsNeverWatched == Spec => []CompletedIsUnwatched
<1>1. WatchInv => CompletedIsUnwatched
  BY DEF WatchInv, MarkerInv, ClearedIsUnwatched, CompletedIsCleared, CompletedIsUnwatched
<1> QED BY <1>1, MarkerWatches, PTL
=============================================================================
