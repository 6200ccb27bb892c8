------------------------------- MODULE Election -------------------------------
(***************************************************************************)
(* The leader election of wis2hauler's singleton roles (CLEANER, REPORTER, *)
(* REPLAYER): each process writes a heartbeat with its uuid to one Redis   *)
(* hash, and each elector polls that hash, decides whether it is primary,  *)
(* and reaps the fields of workers long silent.  Files: src/election/*.ts, *)
(* src/redis/ioredis-election-store.ts; and src/main.ts, which runs the    *)
(* heartbeat and the role of a process side by side.                       *)
(*                                                                         *)
(* Time passes in Ticks; a timer that has run out is served before the     *)
(* next one.  Clocks agree.  A record's age stands for now - ts, counted   *)
(* up to Stale, beyond which it makes no difference.                       *)
(***************************************************************************)
EXTENDS Integers, FiniteSets

CONSTANTS
    Workers,      \* worker names of the processes holding the role
    Uuids,        \* process uuids, ordered as the strings are
    FirstBeat,    \* HEARTBEAT_ONCE_DELAY_MS
    Heartbeat,    \* HEARTBEAT_INTERVAL_MS
    Poll,         \* ELECTION_POLL_INTERVAL_MS
    Alive,        \* ELECTION_ALIVE_MS
    Stale,        \* ELECTION_STALE_MS
    MaxRestarts,  \* bounds: starts of processes,
    MaxFailures   \* Redis commands that fail

ASSUME ElectionAssumption ==
    /\ Uuids \subseteq Nat \ {0}
    /\ FirstBeat \in Nat /\ Heartbeat \in Nat \ {0} /\ Poll \in Nat \ {0}
    /\ Alive \in Nat /\ Stale \in Nat /\ Alive <= Stale
    /\ MaxRestarts \in Nat /\ MaxFailures \in Nat

VARIABLES
    record,    \* the hash: a worker's uuid and age, or NoRecord
    up,        \* processes that run
    uuid,      \* the uuid each one drew at its start
    role,      \* its role: "works", "idle" (it polls), "absent" (nor that)
    priority,  \* its state.primary
    beat,      \* ticks to its next heartbeat
    poll,      \* ticks to its next election poll
    reaping,   \* workers whose fields its poll found stale, until the HDEL
    behind,    \* its last poll failed: the priority is that of an earlier one
    leading,   \* ticks it has been the lowest live uuid of the hash without a break
    restarts, failures

process == <<up, uuid, role, priority, beat, poll, reaping, behind>>
vars    == <<record, process, leading, restarts, failures>>

NoRecord == [uuid |-> 0, age |-> Stale]
Record == [uuid : Uuids, age : 0 .. Stale]

TypeOK ==
    /\ record \in [Workers -> Record \cup {NoRecord}]
    /\ up \subseteq Workers
    /\ uuid \in [Workers -> Uuids \cup {0}]
    /\ role \in [Workers -> {"works", "idle", "absent"}]
    /\ priority \in [Workers -> {"primary", "secondary"}]
    /\ beat \in [Workers -> 0 .. FirstBeat + Heartbeat]
    /\ poll \in [Workers -> 0 .. Poll]
    /\ reaping \in [Workers -> SUBSET Workers]
    /\ behind \subseteq Workers
    /\ leading \in [Workers -> 0 .. Poll + 1]
    /\ restarts \in 0 .. MaxRestarts
    /\ failures \in 0 .. MaxFailures

Init ==
    /\ record = [w \in Workers |-> NoRecord]
    /\ up = {}
    /\ uuid = [w \in Workers |-> 0]
    /\ role = [w \in Workers |-> "works"]
    /\ priority = [w \in Workers |-> "secondary"]
    /\ beat = [w \in Workers |-> 0]
    /\ poll = [w \in Workers |-> 0]
    /\ reaping = [w \in Workers |-> {}]
    /\ behind = {}
    /\ leading = [w \in Workers |-> 0]
    /\ restarts = 0
    /\ failures = 0

-----------------------------------------------------------------------------
(* elect.ts                                                                *)

Live(rec) == {w \in Workers : rec[w].uuid # 0 /\ rec[w].age < Alive}

Lowest(rec) == {w \in Live(rec) : \A v \in Live(rec) : rec[w].uuid <= rec[v].uuid}

\* Mutation: a record counts as alive until it is reaped.
MutDecideElection(rec, id) ==
    IF \A w \in Workers : rec[w].uuid # 0 => id <= rec[w].uuid
    THEN "primary" ELSE "secondary"

\* Mutation: a process competes with its own record.
MutDecideStrictly(rec, id) ==
    IF \A w \in Live(rec) : id < rec[w].uuid THEN "primary" ELSE "secondary"

\* decideElection: the lowest uuid among the live holders of the role.
DecideElection(rec, id) ==
    IF \E w \in Lowest(rec) : rec[w].uuid = id THEN "primary" ELSE "secondary"

\* Mutation: off by the age a record is counted up to.
MutFindStaleFields(rec) == {w \in Workers : rec[w].uuid # 0 /\ rec[w].age > Stale}

FindStaleFields(rec) == {w \in Workers : rec[w].uuid # 0 /\ rec[w].age >= Stale}

\* How long a worker leads is counted over what the hash says.
Leads(rec, w) == w \in up /\ w \in Lowest(rec) /\ rec[w].uuid = uuid[w]
StillLeading(rec) == [w \in Workers |-> IF Leads(rec, w) THEN leading[w] ELSE 0]

-----------------------------------------------------------------------------
(* The two loops of a process                                              *)

Started(w) == {record[w].uuid} \cup {uuid[v] : v \in up} \cup
              {record[v].uuid : v \in Workers}

\* main starts the heartbeat and the role side by side, and waits for both, so the
\* heartbeat goes on when the role fails.  A role whose start fails never works;
\* its election loop may have been started before that, or not.
Start(w, id, r) ==
    /\ w \notin up /\ restarts < MaxRestarts
    /\ id \in Uuids \ Started(w)
    /\ up' = up \cup {w}
    /\ uuid' = [uuid EXCEPT ![w] = id]
    /\ role' = [role EXCEPT ![w] = r]
    /\ IF r = "works" THEN UNCHANGED failures
       ELSE failures < MaxFailures /\ failures' = failures + 1
    /\ priority' = [priority EXCEPT ![w] = "secondary"]
    /\ beat' = [beat EXCEPT ![w] = FirstBeat]
    /\ poll' = [poll EXCEPT ![w] = 0]
    /\ reaping' = [reaping EXCEPT ![w] = {}]
    /\ behind' = behind \ {w}
    /\ restarts' = restarts + 1
    /\ UNCHANGED <<record, leading>>

Stop(w) ==
    /\ w \in up
    /\ up' = up \ {w}
    /\ role' = [role EXCEPT ![w] = "works"]
    /\ priority' = [priority EXCEPT ![w] = "secondary"]
    /\ reaping' = [reaping EXCEPT ![w] = {}]
    /\ beat' = [beat EXCEPT ![w] = 0]
    /\ poll' = [poll EXCEPT ![w] = 0]
    /\ behind' = behind \ {w}
    /\ leading' = [leading EXCEPT ![w] = 0]
    /\ UNCHANGED <<record, uuid, restarts, failures>>

\* writeHeartbeat, which may fail and is then only tried at the next beat.
WriteHeartbeat(w) ==
    /\ w \in up /\ beat[w] = 0
    /\ beat' = [beat EXCEPT ![w] = Heartbeat]
    /\ \/ /\ record' = [record EXCEPT ![w] = [uuid |-> uuid[w], age |-> 0]]
          /\ leading' = StillLeading(record')
          /\ UNCHANGED failures
       \/ /\ failures < MaxFailures
          /\ failures' = failures + 1
          /\ UNCHANGED <<record, leading>>
    /\ UNCHANGED <<up, uuid, role, priority, poll, reaping, behind, restarts>>

\* readElectionHash and what is decided from the reply: the priority at once, the
\* stale fields to delete next.  The loop sleeps when nothing is to be deleted.
Polls(w) == w \in up /\ role[w] # "absent"
PollElection(w) ==
    /\ Polls(w) /\ poll[w] = 0 /\ reaping[w] = {}
    /\ priority' = [priority EXCEPT ![w] = DecideElection(record, uuid[w])]
    /\ reaping' = [reaping EXCEPT ![w] = FindStaleFields(record)]
    /\ poll' = [poll EXCEPT ![w] = IF FindStaleFields(record) = {} THEN Poll ELSE 0]
    /\ behind' = behind \ {w}
    /\ UNCHANGED <<record, up, uuid, role, beat, leading, restarts, failures>>

\* A failed poll leaves the priority as it was.
PollFails(w) ==
    /\ Polls(w) /\ poll[w] = 0 /\ reaping[w] = {}
    /\ failures < MaxFailures
    /\ failures' = failures + 1
    /\ poll' = [poll EXCEPT ![w] = Poll]
    /\ behind' = behind \cup {w}
    /\ UNCHANGED <<record, up, uuid, role, priority, beat, reaping, leading, restarts>>

\* deleteFields: HDEL of the fields seen stale, whatever they hold by now.
DeleteFields(w) ==
    /\ reaping[w] # {}
    /\ record' = [v \in Workers |-> IF v \in reaping[w] THEN NoRecord ELSE record[v]]
    /\ leading' = StillLeading(record')
    /\ reaping' = [reaping EXCEPT ![w] = {}]
    /\ poll' = [poll EXCEPT ![w] = Poll]
    /\ UNCHANGED <<up, uuid, role, priority, beat, behind, restarts, failures>>

\* Mutation: a sleep of no length.
MutDown(n) == n - 1

\* A tick passes once nothing is due.
Down(n) == IF n > 0 THEN n - 1 ELSE 0
Tick ==
    /\ \A w \in up : beat[w] > 0 /\ (Polls(w) => poll[w] > 0)
    /\ record' = [w \in Workers |->
                    IF record[w].age < Stale THEN [record[w] EXCEPT !.age = @ + 1]
                    ELSE record[w]]
    /\ beat' = [w \in Workers |-> Down(beat[w])]
    /\ poll' = [w \in Workers |-> Down(poll[w])]
    /\ leading' = [w \in Workers |->
                    IF ~Leads(record', w) THEN 0
                    ELSE IF leading[w] > Poll THEN leading[w] ELSE leading[w] + 1]
    /\ UNCHANGED <<up, uuid, role, priority, reaping, behind, restarts, failures>>

-----------------------------------------------------------------------------
Loops(w) == WriteHeartbeat(w) \/ PollElection(w) \/ PollFails(w) \/ DeleteFields(w)

Next ==
    \/ Tick
    \/ \E w \in Workers : \/ Stop(w) \/ Loops(w)
                          \/ \E id \in Uuids, r \in {"works", "idle", "absent"} :
                                Start(w, id, r)

Spec == Init /\ [][Next]_vars

\* Time passes, and both loops of a running process go on.
FairSpec ==
    /\ Spec
    /\ WF_vars(Tick)
    /\ \A w \in Workers : WF_vars(Loops(w))

-----------------------------------------------------------------------------
(* Properties                                                              *)

\* Once a process has been the lowest live uuid for more than a poll interval,
\* it is primary and no other process whose last poll succeeded is: two primaries,
\* and a gap without one, last at most one poll interval after the hash changed.
SettledLeader ==
    \A w \in Workers : leading[w] > Poll /\ Polls(w) =>
        \A v \in up \ behind : priority[v] = "primary" <=> v = w

\* A standby takes over (configuration-and-roles.md on the singleton roles): while
\* some process stays whose role works, one that works is primary again and again
\* -- unless a process whose role failed at its start holds the place with a
\* heartbeat that goes on.
Serving == \E w \in up : role[w] = "works" /\ priority[w] = "primary"
Usurped == \E w \in up : role[w] # "works" /\ Leads(record, w)
StandbyTakesOver ==
    (\E w \in Workers : <>[](w \in up /\ role[w] = "works")) => []<>(Serving \/ Usurped)

\* The record of a worker that stays away is reaped in the end, while another
\* process stays.
DeadAreForgotten ==
    \A w \in Workers :
        (<>[](w \notin up) /\ \E v \in Workers : <>[]Polls(v))
            => <>[](record[w] = NoRecord)
===============================================================================
