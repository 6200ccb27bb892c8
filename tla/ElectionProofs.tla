---------------------------- MODULE ElectionProofs -----------------------------
(***************************************************************************)
(* For any processes, uuids and timers: Election keeps its types, and a    *)
(* process that has led the hash for more than a poll interval is primary  *)
(* alone among those whose last poll succeeded.                            *)
(*                                                                         *)
(* A poll decides from the hash as it stands, so what a process decided since *)
(* a lead began, it decided for the leader (LeadIsObeyed).                 *)
(***************************************************************************)
EXTENDS Election, TLAPS

-----------------------------------------------------------------------------
(* The invariant                                                           *)

\* A process that runs has a uuid no other record and no other process has.
Named == \A w \in up : uuid[w] \in Uuids
Distinct == \A w \in up : /\ \A v \in Workers : record[v].uuid = uuid[w] => v = w
                          /\ \A v \in up : uuid[v] = uuid[w] => v = w

\* A lead that is counted is a lead the hash shows.
LeadIsCurrent == \A w \in Workers : leading[w] > 0 => Leads(record, w)

\* The loop deletes what its poll found before it sleeps.
ReapsBeforeSleep == \A w \in Workers : reaping[w] # {} => Polls(w) /\ poll[w] = 0

\* A role that never started its loop never is primary.
AbsentIsSecondary == \A w \in up : role[w] = "absent" => priority[w] = "secondary"

\* Ticks since the last poll, and what it decided: a lead older than the poll is
\* a lead the poll has seen.
SincePoll(v) == IF reaping[v] # {} THEN 0 ELSE Poll - poll[v]
LeadIsObeyed ==
    \A v \in up \ behind, w \in Workers :
        Polls(v) /\ leading[w] > SincePoll(v) => (priority[v] = "primary" <=> v = w)

Invariant == /\ TypeOK /\ Named /\ Distinct /\ LeadIsCurrent /\ ReapsBeforeSleep
             /\ AbsentIsSecondary /\ LeadIsObeyed

-----------------------------------------------------------------------------
(* Types                                                                   *)

LEMMA NoRecordHasNoUuid == NoRecord.uuid = 0 /\ NoRecord.age = Stale /\ 0 \notin Uuids
BY ElectionAssumption DEF NoRecord

LEMMA StillLeadingType ==
    ASSUME TypeOK, NEW rec
    PROVE  /\ StillLeading(rec) \in [Workers -> 0 .. Poll + 1]
           /\ \A w \in Workers : /\ StillLeading(rec)[w] <= leading[w]
                                 /\ StillLeading(rec)[w] > 0 => Leads(rec, w)
<1>1. Poll \in Nat /\ leading \in [Workers -> 0 .. Poll + 1]
  BY ElectionAssumption DEF TypeOK
<1> QED
  BY <1>1 DEF StillLeading

LEMMA TypeInit == Init => TypeOK
BY ElectionAssumption DEF Init, TypeOK

LEMMA StartType ==
    ASSUME TypeOK, NEW w \in Workers, NEW id \in Uuids, NEW r \in {"works", "idle", "absent"},
           Start(w, id, r)
    PROVE  TypeOK'
<1>1. /\ FirstBeat \in Nat /\ Heartbeat \in Nat /\ Poll \in Nat /\ MaxRestarts \in Nat /\ MaxFailures \in Nat
      /\ restarts \in 0 .. MaxRestarts /\ failures \in 0 .. MaxFailures
  BY ElectionAssumption DEF TypeOK
<1>2. restarts' \in 0 .. MaxRestarts /\ failures' \in 0 .. MaxFailures
  BY <1>1 DEF Start
<1>3. beat' \in [Workers -> 0 .. FirstBeat + Heartbeat] /\ poll' \in [Workers -> 0 .. Poll]
  BY <1>1 DEF Start, TypeOK
<1> QED
  BY <1>2, <1>3 DEF Start, TypeOK

LEMMA StopType == ASSUME TypeOK, NEW w \in Workers, Stop(w) PROVE TypeOK'
<1>1. FirstBeat \in Nat /\ Heartbeat \in Nat /\ Poll \in Nat
  BY ElectionAssumption
<1>2. /\ beat' \in [Workers -> 0 .. FirstBeat + Heartbeat] /\ poll' \in [Workers -> 0 .. Poll]
      /\ leading' \in [Workers -> 0 .. Poll + 1]
  BY <1>1 DEF Stop, TypeOK
<1> QED
  BY <1>2 DEF Stop, TypeOK

LEMMA LoopsType == ASSUME TypeOK, Named, NEW w \in Workers, Loops(w) PROVE TypeOK'
<1>1. /\ FirstBeat \in Nat /\ Heartbeat \in Nat /\ Poll \in Nat /\ MaxFailures \in Nat /\ Stale \in Nat
      /\ failures \in 0 .. MaxFailures
  BY ElectionAssumption DEF TypeOK
<1>2. CASE WriteHeartbeat(w)
  <2>1. beat' \in [Workers -> 0 .. FirstBeat + Heartbeat]
    BY <1>1, <1>2 DEF WriteHeartbeat, TypeOK
  <2>2. failures' \in 0 .. MaxFailures
    BY <1>1, <1>2 DEF WriteHeartbeat
  <2>3. record' \in [Workers -> Record \cup {NoRecord}]
    <3>1. [uuid |-> uuid[w], age |-> 0] \in Record
      BY <1>1, <1>2 DEF WriteHeartbeat, Named, Record
    <3> QED
      BY <1>2, <3>1 DEF WriteHeartbeat, TypeOK
  <2>4. leading' \in [Workers -> 0 .. Poll + 1]
    BY <1>2, StillLeadingType DEF WriteHeartbeat, TypeOK
  <2> QED
    BY <1>2, <2>1, <2>2, <2>3, <2>4 DEF WriteHeartbeat, TypeOK
<1>3. CASE PollElection(w)
  <2>1. /\ priority' \in [Workers -> {"primary", "secondary"}]
        /\ reaping' \in [Workers -> SUBSET Workers]
        /\ poll' \in [Workers -> 0 .. Poll]
    BY <1>1, <1>3 DEF PollElection, TypeOK, DecideElection, FindStaleFields
  <2> QED
    BY <1>3, <2>1 DEF PollElection, TypeOK
<1>4. CASE PollFails(w)
  <2>1. failures' \in 0 .. MaxFailures /\ poll' \in [Workers -> 0 .. Poll]
    BY <1>1, <1>4 DEF PollFails, TypeOK
  <2> QED
    BY <1>4, <2>1 DEF PollFails, TypeOK
<1>5. CASE DeleteFields(w)
  <2>1. leading' \in [Workers -> 0 .. Poll + 1]
    BY <1>5, StillLeadingType DEF DeleteFields
  <2>2. record' \in [Workers -> Record \cup {NoRecord}]
    BY <1>5 DEF DeleteFields, TypeOK
  <2>3. poll' \in [Workers -> 0 .. Poll] /\ reaping' \in [Workers -> SUBSET Workers]
    BY <1>1, <1>5 DEF DeleteFields, TypeOK
  <2> QED
    BY <1>5, <2>1, <2>2, <2>3 DEF DeleteFields, TypeOK
<1> QED
  BY <1>2, <1>3, <1>4, <1>5 DEF Loops

LEMMA TickType == ASSUME TypeOK, Tick PROVE TypeOK'
<1>1. FirstBeat \in Nat /\ Heartbeat \in Nat /\ Poll \in Nat /\ Stale \in Nat
  BY ElectionAssumption
<1>2. record' \in [Workers -> Record \cup {NoRecord}]
  <2>1. ASSUME NEW w \in Workers, record[w].age < Stale
        PROVE  [record[w] EXCEPT !.age = @ + 1] \in Record
    <3>1. record[w] \in Record
      BY <1>1, <2>1, NoRecordHasNoUuid DEF TypeOK
    <3> QED
      BY <1>1, <2>1, <3>1 DEF Record
  <2> QED
    BY <2>1 DEF Tick, TypeOK
<1>3. beat' \in [Workers -> 0 .. FirstBeat + Heartbeat]
  BY <1>1 DEF Tick, TypeOK, Down
<1>4. poll' \in [Workers -> 0 .. Poll]
  BY <1>1 DEF Tick, TypeOK, Down
<1>5. leading' \in [Workers -> 0 .. Poll + 1]
  <2>1. leading \in [Workers -> 0 .. Poll + 1]
    BY DEF TypeOK
  <2> QED
    BY <1>1, <2>1 DEF Tick
<1> QED
  BY <1>2, <1>3, <1>4, <1>5 DEF Tick, TypeOK

LEMMA TypeNext == TypeOK /\ Named /\ [Next]_vars => TypeOK' /\ Named'
<1> SUFFICES ASSUME TypeOK, Named, [Next]_vars PROVE TypeOK' /\ Named'
  OBVIOUS
<1>1. TypeOK'
  <2>1. CASE UNCHANGED vars
    BY <2>1 DEF vars, process, TypeOK
  <2> QED
    BY <2>1, StartType, StopType, LoopsType, TickType DEF Next
<1>2. Named'
  BY DEF Next, Start, Stop, Loops, WriteHeartbeat, PollElection, PollFails, DeleteFields, Tick,
         vars, process, Named, TypeOK
<1> QED
  BY <1>1, <1>2

\* Every variable keeps its type: no timer runs below zero, no record is written
\* under a uuid nobody drew, no age passes Stale.
THEOREM TypeCorrect == Spec => []TypeOK
<1>1. Init => TypeOK /\ Named
  BY TypeInit DEF Init, Named
<1>2. (TypeOK /\ Named) /\ [Next]_vars => (TypeOK /\ Named)'
  BY TypeNext
<1> QED
  BY <1>1, <1>2, PTL DEF Spec

-----------------------------------------------------------------------------
(* Who leads                                                               *)

LEMMA Step ==
    ASSUME [Next]_vars
    PROVE  \/ UNCHANGED vars \/ Tick
           \/ \E w \in Workers : \/ Stop(w) \/ WriteHeartbeat(w) \/ PollElection(w)
                                 \/ PollFails(w) \/ DeleteFields(w)
                                 \/ \E id \in Uuids, r \in {"works", "idle", "absent"} : Start(w, id, r)
BY DEF Next, Loops

\* A tick only ages the records.
LEMMA TickKeepsUuids ==
    ASSUME TypeOK, Tick
    PROVE  \A w \in Workers : record'[w].uuid = record[w].uuid
<1> SUFFICES ASSUME NEW w \in Workers PROVE record'[w].uuid = record[w].uuid
  OBVIOUS
<1>1. record[w] \in Record \/ record[w] = NoRecord
  BY DEF TypeOK
<1>2. record'[w] = record[w] \/ record'[w] = [record[w] EXCEPT !.age = @ + 1]
  BY DEF Tick
<1> QED
  BY <1>1, <1>2 DEF Record, NoRecord

LEMMA DistinctStep ==
    ASSUME TypeOK, Named, Distinct, [Next]_vars
    PROVE  Distinct'
<1>1. ASSUME UNCHANGED <<record, up, uuid>> PROVE Distinct'
  BY <1>1 DEF Distinct
<1>2. ASSUME Tick PROVE Distinct'
  BY <1>2, TickKeepsUuids DEF Distinct, Tick
<1>3. ASSUME NEW w \in Workers, Stop(w) PROVE Distinct'
  BY <1>3 DEF Distinct, Stop
<1>4. ASSUME NEW w \in Workers, WriteHeartbeat(w) PROVE Distinct'
  <2>1. CASE UNCHANGED record
    BY <1>1, <1>4, <2>1 DEF WriteHeartbeat
  <2>2. CASE record' = [record EXCEPT ![w] = [uuid |-> uuid[w], age |-> 0]]
    <3>1. \A v \in Workers : record'[v].uuid = IF v = w THEN uuid[w] ELSE record[v].uuid
      BY <2>2 DEF TypeOK
    <3>2. w \in up /\ UNCHANGED <<up, uuid>>
      BY <1>4 DEF WriteHeartbeat
    <3> QED
      BY <3>1, <3>2 DEF Distinct
  <2> QED
    BY <1>4, <2>1, <2>2 DEF WriteHeartbeat
<1>5. ASSUME NEW w \in Workers, DeleteFields(w) PROVE Distinct'
  <2>1. \A v \in Workers : record'[v].uuid = 0 \/ record'[v].uuid = record[v].uuid
    BY <1>5, NoRecordHasNoUuid DEF DeleteFields, TypeOK
  <2>2. UNCHANGED <<up, uuid>>
    BY <1>5 DEF DeleteFields
  <2>3. \A v \in up : uuid[v] # 0
    BY NoRecordHasNoUuid DEF Named
  <2> QED
    BY <2>1, <2>2, <2>3 DEF Distinct
<1>6. ASSUME NEW w \in Workers, NEW id \in Uuids, NEW r \in {"works", "idle", "absent"},
             Start(w, id, r)
      PROVE  Distinct'
  <2>1. /\ up' = up \cup {w} /\ w \notin up /\ UNCHANGED record
        /\ \A v \in Workers : uuid'[v] = IF v = w THEN id ELSE uuid[v]
    BY <1>6 DEF Start, TypeOK
  <2>2. /\ \A v \in Workers : record[v].uuid # id
        /\ \A v \in up : uuid[v] # id
    BY <1>6 DEF Start, Started
  <2>3. up \subseteq Workers
    BY DEF TypeOK
  <2>4. ASSUME NEW x \in up' PROVE /\ \A v \in Workers : record'[v].uuid = uuid'[x] => v = x
                                   /\ \A v \in up' : uuid'[v] = uuid'[x] => v = x
    <3>1. CASE x = w
      BY <2>1, <2>2, <2>3, <3>1
    <3>2. CASE x \in up
      BY <2>1, <2>2, <2>3, <3>2 DEF Distinct
    <3> QED
      BY <2>1, <2>4, <3>1, <3>2
  <2> QED
    BY <2>4 DEF Distinct
<1>7. ASSUME NEW w \in Workers, PollElection(w) \/ PollFails(w) PROVE Distinct'
  BY <1>1, <1>7 DEF PollElection, PollFails
<1>8. UNCHANGED vars => UNCHANGED <<record, up, uuid>>
  BY DEF vars, process
<1> QED
  BY <1>1, <1>2, <1>3, <1>4, <1>5, <1>6, <1>7, <1>8, Step

LEMMA LeadIsCurrentStep ==
    ASSUME TypeOK, LeadIsCurrent, [Next]_vars
    PROVE  LeadIsCurrent'
<1> SUFFICES ASSUME NEW w \in Workers, leading'[w] > 0
             PROVE  Leads(record, w)'
  BY DEF LeadIsCurrent
<1>1. leading[w] \in 0 .. Poll + 1 /\ Poll \in Nat
  BY ElectionAssumption DEF TypeOK
<1>2. leading[w] > 0 => Leads(record, w)
  BY DEF LeadIsCurrent
<1>3. ASSUME UNCHANGED <<record, leading, up, uuid>> PROVE Leads(record, w)'
  BY <1>2, <1>3 DEF Leads, Lowest, Live
<1>4. ASSUME Tick PROVE Leads(record, w)'
  BY <1>4 DEF Tick, Leads
<1>5. ASSUME leading' = StillLeading(record'), UNCHANGED <<up, uuid>> PROVE Leads(record, w)'
  <2>1. StillLeading(record')[w] > 0
    BY <1>5
  <2>2. Leads(record', w)
    BY <2>1, StillLeadingType
  <2> QED
    BY <1>5, <2>2 DEF Leads
<1>6. ASSUME NEW v \in Workers, Stop(v) PROVE Leads(record, w)'
  <2>1. w # v /\ leading'[w] = leading[w]
    BY <1>1, <1>6 DEF Stop, TypeOK
  <2>2. Leads(record, w)
    BY <1>2, <2>1
  <2> QED
    BY <1>6, <2>1, <2>2 DEF Stop, Leads, Lowest, Live
<1>7. ASSUME NEW v \in Workers, NEW id \in Uuids, NEW r \in {"works", "idle", "absent"}, Start(v, id, r)
      PROVE  Leads(record, w)'
  <2>1. Leads(record, w) /\ v \notin up
    BY <1>2, <1>7 DEF Start
  <2>2. w # v
    BY <2>1 DEF Leads
  <2> QED
    BY <1>7, <2>1, <2>2 DEF Start, Leads, Lowest, Live, TypeOK
<1>8. ASSUME NEW v \in Workers, WriteHeartbeat(v) \/ DeleteFields(v)
      PROVE  Leads(record, w)'
  BY <1>3, <1>5, <1>8 DEF WriteHeartbeat, DeleteFields
<1>9. ASSUME NEW v \in Workers, PollElection(v) \/ PollFails(v)
      PROVE  Leads(record, w)'
  BY <1>3, <1>9 DEF PollElection, PollFails
<1>10. UNCHANGED vars => UNCHANGED <<record, leading, up, uuid>>
  BY DEF vars, process
<1> QED
  BY <1>3, <1>4, <1>6, <1>7, <1>8, <1>9, <1>10, Step

LEMMA LoopStep ==
    ASSUME TypeOK, ReapsBeforeSleep, AbsentIsSecondary, [Next]_vars
    PROVE  ReapsBeforeSleep' /\ AbsentIsSecondary'
<1>1. ASSUME NEW w \in Workers, \/ Stop(w) \/ WriteHeartbeat(w) \/ PollElection(w)
                                \/ PollFails(w) \/ DeleteFields(w)
      PROVE  ReapsBeforeSleep' /\ AbsentIsSecondary'
  <2>1. ReapsBeforeSleep'
    BY <1>1 DEF Stop, WriteHeartbeat, PollElection, PollFails, DeleteFields, ReapsBeforeSleep, Polls, TypeOK
  <2>2. AbsentIsSecondary'
    BY <1>1 DEF Stop, WriteHeartbeat, PollElection, PollFails, DeleteFields, AbsentIsSecondary, Polls, TypeOK
  <2> QED
    BY <2>1, <2>2
<1>2. ASSUME NEW w \in Workers, NEW id \in Uuids, NEW r \in {"works", "idle", "absent"}, Start(w, id, r)
      PROVE  ReapsBeforeSleep' /\ AbsentIsSecondary'
  BY <1>2 DEF Start, ReapsBeforeSleep, AbsentIsSecondary, Polls, TypeOK
<1>3. ASSUME Tick PROVE ReapsBeforeSleep' /\ AbsentIsSecondary'
  <2>1. \A w \in Workers : Polls(w) => poll[w] > 0
    BY <1>3 DEF Tick, Polls
  <2>2. \A w \in Workers : reaping[w] = {}
    BY <2>1 DEF ReapsBeforeSleep
  <2> QED
    BY <1>3, <2>2 DEF Tick, ReapsBeforeSleep, AbsentIsSecondary
<1>4. UNCHANGED vars => ReapsBeforeSleep' /\ AbsentIsSecondary'
  BY DEF vars, process, ReapsBeforeSleep, AbsentIsSecondary, Polls
<1> QED
  BY <1>1, <1>2, <1>3, <1>4, Step

\* With one leader in the hash, decideElection tells it from everybody else.
LEMMA DecisionOfLead ==
    ASSUME TypeOK, Distinct, NEW w \in Workers, Leads(record, w), NEW v \in up
    PROVE  DecideElection(record, uuid[v]) = "primary" <=> v = w
<1>1. w \in Lowest(record) /\ w \in up /\ record[w].uuid = uuid[w]
  BY DEF Leads
<1>2. ASSUME NEW x \in Lowest(record), record[x].uuid = uuid[v] PROVE v = w
  <2>1. x \in Live(record) /\ w \in Live(record) /\ x \in Workers
    BY <1>1 DEF Lowest, Live
  <2>2. record[x].uuid <= record[w].uuid /\ record[w].uuid <= record[x].uuid
    BY <1>1, <2>1 DEF Lowest
  <2>3. record[x].uuid \in Int /\ record[w].uuid \in Int
    <3>1. \A y \in Workers : record[y] \in Record \/ record[y].uuid = 0
      BY NoRecordHasNoUuid DEF TypeOK
    <3>2. \A y \in Workers : record[y].uuid \in Uuids \/ record[y].uuid = 0
      BY <3>1 DEF Record
    <3>3. \A id \in Uuids : id \in Int
      BY ElectionAssumption
    <3> QED
      BY <2>1, <3>2, <3>3
  <2>4. uuid[v] = uuid[w]
    BY <1>1, <1>2, <2>2, <2>3
  <2> QED
    BY <1>1, <2>4 DEF Distinct
<1>3. v = w => \E x \in Lowest(record) : record[x].uuid = uuid[v]
  BY <1>1
<1> QED
  BY <1>2, <1>3 DEF DecideElection

LEMMA LeadIsObeyedStep ==
    ASSUME Invariant, [Next]_vars
    PROVE  LeadIsObeyed'
<1>1. /\ TypeOK /\ Named /\ Distinct /\ LeadIsCurrent /\ ReapsBeforeSleep /\ AbsentIsSecondary
      /\ LeadIsObeyed
  BY DEF Invariant
<1>2. Poll \in Nat /\ leading \in [Workers -> 0 .. Poll + 1] /\ poll \in [Workers -> 0 .. Poll]
      /\ leading' \in [Workers -> 0 .. Poll + 1] /\ poll' \in [Workers -> 0 .. Poll]
  BY <1>1, TypeNext, ElectionAssumption DEF TypeOK
<1> DEFINE Obeys(v, w) == leading[w] > SincePoll(v) => (priority[v] = "primary" <=> v = w)
<1> SUFFICES ASSUME NEW v \in up' \ behind', NEW w \in Workers, Polls(v)'
             PROVE  Obeys(v, w)'
  BY DEF LeadIsObeyed
<1>3. v \in Workers
  BY <1>1, TypeNext DEF TypeOK
<1>4. SincePoll(v) \in 0 .. Poll /\ SincePoll(v)' \in 0 .. Poll
  BY <1>2, <1>3 DEF SincePoll
<1>5. v \in up \ behind /\ Polls(v) => Obeys(v, w)
  BY <1>1 DEF LeadIsObeyed
\* A step that lengthens no lead and touches no poll of v.
<1>6. ASSUME leading'[w] <= leading[w], poll'[v] = poll[v], reaping'[v] = reaping[v],
             priority'[v] = priority[v], v \in up \ behind, Polls(v)
      PROVE  Obeys(v, w)'
  BY <1>2, <1>4, <1>5, <1>6 DEF SincePoll
<1>7. ASSUME UNCHANGED vars PROVE Obeys(v, w)'
  BY <1>2, <1>3, <1>6, <1>7 DEF vars, process, Polls
<1>8. ASSUME Tick PROVE Obeys(v, w)'
  <2>1. Polls(v) /\ v \in up \ behind /\ reaping' = reaping /\ priority' = priority
    BY <1>8 DEF Tick, Polls
  <2>2. poll[v] > 0 /\ reaping[v] = {}
    BY <1>1, <1>3, <1>8, <2>1 DEF Tick, ReapsBeforeSleep
  <2>3. poll'[v] = poll[v] - 1
    BY <1>3, <1>8, <2>2 DEF Tick, Down
  <2>4. leading'[w] <= leading[w] + 1
    BY <1>2, <1>8 DEF Tick
  <2> QED
    BY <1>2, <1>3, <1>5, <2>1, <2>2, <2>3, <2>4 DEF SincePoll
<1>9. ASSUME NEW x \in Workers, Stop(x) PROVE Obeys(v, w)'
  <2>1. v # x /\ Polls(v) /\ v \in up \ behind
    BY <1>1, <1>3, <1>9 DEF Stop, Polls, TypeOK
  <2>2. leading'[w] <= leading[w]
    BY <1>2, <1>9 DEF Stop
  <2> QED
    BY <1>1, <1>3, <1>6, <1>9, <2>1, <2>2 DEF Stop, TypeOK
<1>10. ASSUME NEW x \in Workers, NEW id \in Uuids, NEW r \in {"works", "idle", "absent"}, Start(x, id, r)
       PROVE  Obeys(v, w)'
  <2>1. leading' = leading
    BY <1>10 DEF Start
  <2>2. CASE v # x
    <3>1. Polls(v) /\ v \in up \ behind
      BY <1>1, <1>3, <1>10, <2>2 DEF Start, Polls, TypeOK
    <3> QED
      BY <1>1, <1>2, <1>3, <1>6, <1>10, <2>1, <2>2, <3>1 DEF Start, TypeOK
  <2>3. CASE v = x
    <3>1. /\ priority'[v] = "secondary" /\ SincePoll(v)' = Poll
      BY <1>1, <1>2, <1>3, <1>10, <2>3 DEF Start, SincePoll, TypeOK
    <3>2. leading[v] = 0
      <4>1. ~Leads(record, v)
        BY <1>10, <2>3 DEF Start, Leads
      <4> QED
        BY <1>1, <1>2, <1>3, <4>1 DEF LeadIsCurrent
    <3>3. v = w => leading'[w] = 0
      BY <2>1, <3>2
    <3> QED
      BY <1>2, <3>1, <3>3
  <2> QED
    BY <2>2, <2>3
<1>11. ASSUME NEW x \in Workers, WriteHeartbeat(x) PROVE Obeys(v, w)'
  <2>1. leading'[w] <= leading[w]
    BY <1>1, <1>2, <1>11, StillLeadingType DEF WriteHeartbeat
  <2> QED
    BY <1>6, <1>11, <2>1 DEF WriteHeartbeat, Polls
<1>12. ASSUME NEW x \in Workers, PollElection(x) PROVE Obeys(v, w)'
  <2>1. leading' = leading /\ UNCHANGED <<up, role>>
    BY <1>12 DEF PollElection
  <2>2. CASE v # x
    BY <1>1, <1>2, <1>3, <1>6, <1>12, <2>1, <2>2 DEF PollElection, Polls, TypeOK
  <2>3. CASE v = x
    <3>1. priority'[v] = DecideElection(record, uuid[v]) /\ v \in up
      BY <1>1, <1>3, <1>12, <2>3 DEF PollElection, Polls, TypeOK
    <3>2. CASE leading[w] > 0
      <4>1. Leads(record, w)
        BY <1>1, <3>2 DEF LeadIsCurrent
      <4> QED
        BY <1>1, <3>1, <4>1, DecisionOfLead
    <3>3. CASE ~(leading[w] > 0)
      BY <1>2, <1>4, <2>1, <3>3
    <3> QED
      BY <3>2, <3>3
  <2> QED
    BY <2>2, <2>3
<1>13. ASSUME NEW x \in Workers, PollFails(x) PROVE Obeys(v, w)'
  <2>1. v # x /\ Polls(v) /\ v \in up \ behind
    BY <1>13 DEF PollFails, Polls
  <2> QED
    BY <1>1, <1>2, <1>3, <1>6, <1>13, <2>1 DEF PollFails, TypeOK
<1>14. ASSUME NEW x \in Workers, DeleteFields(x) PROVE Obeys(v, w)'
  <2>1. leading'[w] <= leading[w]
    BY <1>1, <1>2, <1>14, StillLeadingType DEF DeleteFields
  <2>2. Polls(v) /\ v \in up \ behind /\ priority'[v] = priority[v]
    BY <1>14 DEF DeleteFields, Polls
  <2>3. CASE v # x
    BY <1>1, <1>3, <1>6, <1>14, <2>1, <2>2, <2>3 DEF DeleteFields, TypeOK
  <2>4. CASE v = x
    <3>1. SincePoll(v) = 0 /\ SincePoll(v)' = 0
      BY <1>1, <1>2, <1>3, <1>14, <2>4 DEF DeleteFields, SincePoll, TypeOK
    <3> QED
      BY <1>2, <1>5, <2>1, <2>2, <3>1
  <2> QED
    BY <2>3, <2>4
<1> QED
  BY <1>7, <1>8, <1>9, <1>10, <1>11, <1>12, <1>13, <1>14, Step

LEMMA InvariantInit == Init => Invariant
<1> SUFFICES ASSUME Init PROVE Invariant
  OBVIOUS
<1> QED
  BY TypeInit DEF Init, Invariant, Named, Distinct, LeadIsCurrent, ReapsBeforeSleep,
                  AbsentIsSecondary, LeadIsObeyed

LEMMA InvariantNext == Invariant /\ [Next]_vars => Invariant'
BY TypeNext, DistinctStep, LeadIsCurrentStep, LoopStep, LeadIsObeyedStep DEF Invariant

\* Whatever processes start, stop, fail to poll and reap, and however the timers
\* are set against each other: when one has been the lowest live uuid of the hash
\* for more than a poll interval, it is primary, and nobody else is whose last
\* poll succeeded (decideElection and the poll loop, src/election).
THEOREM LeaderSettles == Spec => []SettledLeader
<1>1. Invariant => SettledLeader
  <2> SUFFICES ASSUME Invariant, NEW w \in Workers, leading[w] > Poll, Polls(w), NEW v \in up \ behind
               PROVE  priority[v] = "primary" <=> v = w
    BY DEF SettledLeader
  <2>1. TypeOK /\ AbsentIsSecondary /\ LeadIsObeyed
    BY DEF Invariant
  <2>2. CASE Polls(v)
    <3>1. /\ Poll \in Nat /\ poll[v] \in 0 .. Poll /\ leading[w] \in 0 .. Poll + 1
      BY <2>1, ElectionAssumption DEF TypeOK
    <3>2. leading[w] > SincePoll(v)
      BY <3>1 DEF SincePoll
    <3> QED
      BY <2>1, <2>2, <3>2 DEF LeadIsObeyed
  <2>3. CASE ~Polls(v)
    BY <2>1, <2>3 DEF Polls, AbsentIsSecondary
  <2> QED
    BY <2>2, <2>3
<1> QED
  BY <1>1, InvariantInit, InvariantNext, PTL DEF Spec
=============================================================================
