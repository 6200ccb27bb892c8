----------------------------- MODULE CleanerProofs -----------------------------
(***************************************************************************)
(* Whatever is upset, restarted or stored again, Cleaner keeps its types;  *)
(* a cancel acts once as long as nothing of the CLEANER's own is upset;    *)
(* and no file goes before its retention is over, the second file of a     *)
(* path after a failure excepted.                                          *)
(*                                                                         *)
(* The invariant follows a command on its way, from the sorted set through *)
(* the sweep and the stream to the handler that carries it out: without an *)
(* upset only one process sweeps (OneSweeper), so a member is sent once    *)
(* (UntoldIsUnsent, SentOnce), and what is on its way to a path is about   *)
(* the file that lies there (ComingIsDue).                                 *)
(***************************************************************************)
EXTENDS Cleaner, FiniteSetTheorems, SequenceTheorems, TLAPS

\* Where a member may be.
Taken(m)  == \E c \in Cleaners : \E t \in sweep[c].taken : t[1] = m
ToSend(m) == \E c \in Cleaners : m \in sweep[c].todo
Sent(m)   == \E i \in DOMAIN stream : stream[i] = m
HasJob(m) == \E j \in Job : jobs[j] > 0 /\ j.m = m

\* How many entries of the stream have been read, the running batch included.
DoneTo    == IF batch = 0 THEN cursor ELSE batch
Unread(m) == \E i \in DOMAIN stream : i > DoneTo /\ stream[i] = m

-----------------------------------------------------------------------------
(* What holds whatever fails                                               *)

SweepShape ==
    \A c \in Cleaners :
        /\ sweep[c].stage \in {"idle", "between"} => sweep[c].todo = {} /\ sweep[c].taken = {}
        /\ \A m \in sweep[c].todo : \E t \in sweep[c].taken : t[1] = m
StageFits ==
    \A j \in Job : jobs[j] > 0 => (j.stage = "unlink" <=> j.m \in Paths)
HeardInTime == \A c \in Cleaners : heard[c] # <<>> => now + Keep <= MaxTime

Shape == SweepShape /\ StageFits /\ HeardInTime

\* A path that has had no file is nowhere; the first one is scheduled and deleted
\* in its time.
Untouched(p) ==
    /\ ~Exists(p) /\ zset[p] = Never
    /\ \A c \in Cleaners : \A i \in DOMAIN heard[c] : heard[c][i] # p
    /\ ~ToSend(p) /\ ~Sent(p) /\ ~HasJob(p)
FirstFile(p) ==
    /\ disk[p] <= now
    /\ stores[p] = 0 => Untouched(p)
    /\ stores[p] = 1 /\ Exists(p) =>
          /\ zset[p] # Never => zset[p] >= disk[p] + Keep
          /\ ToSend(p) \/ Sent(p) \/ HasJob(p) => now >= disk[p] + Keep
FirstFiles == \A p \in Paths : FirstFile(p)

-----------------------------------------------------------------------------
(* What holds while nothing is upset                                       *)

OneSweeper == /\ \A c, d \in primary : c = d
              /\ \A c \in Cleaners : sweep[c].stage # "idle" => primary = {c}
BatchOwnsJobs ==
    \A j \in Job : jobs[j] > 0 => j.awaited /\ batch # 0
SoleJobs(S) ==
    \A j, k \in Job : jobs[j] > 0 /\ jobs[k] > 0 /\ j.m = k.m /\ j.m \in S
                          => j = k /\ jobs[j] = 1

\* A cancel that is still to be sent has had no effect yet.
Untold(g) == \/ download[g] = "new" \/ ToSend(g)
             \/ zset[g] # Never /\ ~Taken(g)
NewIsUnset == \A g \in Gids : download[g] = "new" => zset[g] = Never /\ ~ToSend(g)
UntoldIsUnsent == \A g \in Gids : Untold(g) => ~Sent(g) /\ ~HasJob(g) /\ acted[g] = 0
SentOnce == \A i, k \in DOMAIN stream : stream[i] = stream[k] /\ stream[i] \in Gids => i = k

\* A cancel that has acted finds no record any more.
Acted(g) == acted[g] > 0 =>
                /\ acted[g] = 1 /\ download[g] = "acked"
                /\ \A j \in Job : jobs[j] > 0 /\ j.m = g => j.stage # "clean"
ActedIsOver == \A g \in Gids : Acted(g)

Cancels == /\ OneSweeper /\ BatchOwnsJobs /\ SoleJobs(Gids)
           /\ NewIsUnset /\ UntoldIsUnsent /\ SentOnce /\ ActedIsOver

-----------------------------------------------------------------------------
(* What holds while nothing has failed                                     *)

\* What is on its way to a path is about the file that lies there.
Coming(p) == ToSend(p) \/ Unread(p) \/ HasJob(p)
ComingIsDue ==
    \A p \in Paths : Coming(p) => /\ Exists(p) /\ now >= disk[p] + Keep
                                  /\ zset[p] # Never => Taken(p)
ComingOnce ==
    /\ \A p \in Paths : ToSend(p) => ~Unread(p) /\ ~HasJob(p)
    /\ \A p \in Paths : Unread(p) => ~HasJob(p)
    /\ \A i, k \in DOMAIN stream :
          i > DoneTo /\ k > DoneTo /\ stream[i] = stream[k] /\ stream[i] \in Paths => i = k
    /\ SoleJobs(Paths)
HeardIsFresh ==
    Keep > 0 => \A c \in Cleaners : \A i \in DOMAIN heard[c] :
                    Exists(heard[c][i]) /\ disk[heard[c][i]] = now
ScheduledIsKept ==
    \A p \in Paths : zset[p] # Never /\ ~Taken(p) => Exists(p) /\ zset[p] >= disk[p] + Keep

Deletes == ComingIsDue /\ ComingOnce /\ HeardIsFresh /\ ScheduledIsKept

-----------------------------------------------------------------------------
(* The invariant and its types                                             *)

SweepType == [stage : {"idle", "delete", "between", "cancel"},
              todo : SUBSET Members, taken : SUBSET (Members \X Scores)]

\* TypeOK, with the ranges written out.
Typed == /\ now \in Nat /\ now <= MaxTime
         /\ disk \in [Paths -> Scores \cup {Never}]
         /\ stores \in [Paths -> Nat]
         /\ zset \in [Members -> Scores \cup {Never}]
         /\ heard \in [Cleaners -> Seq(Paths)]
         /\ sweep \in [Cleaners -> SweepType]
         /\ stream \in Seq(Members) /\ cursor \in Nat /\ batch \in Nat
         /\ cursor <= Len(stream) /\ batch <= Len(stream)
         /\ batch # 0 => cursor < batch
         /\ jobs \in [Job -> Nat] /\ acted \in [Gids -> Nat]
         /\ download \in [Gids -> {"new", "open", "acked"}]
         /\ primary \subseteq Cleaners
         /\ allS3 \in BOOLEAN /\ leaked \subseteq Paths
         /\ upsets \in Nat /\ restarts \in Nat /\ upsets + restarts <= MaxFaults

IInv == /\ Typed /\ Shape /\ FirstFiles
        /\ upsets = 0 => Cancels
        /\ upsets + restarts = 0 => Deletes

LEMMA Types == TypeOK <=> Typed
<1>1. 0 .. MaxTime = Scores
  BY DEF Scores
<1>2. \A n : n \in Scores <=> n \in Nat /\ n <= MaxTime
  BY CleanerAssumption DEF Scores
<1>3. ASSUME NEW s \in Seq(Members), NEW k, NEW b
      PROVE  k \in 0 .. Len(s) /\ b \in {0} \cup k + 1 .. Len(s)
                 <=> /\ k \in Nat /\ b \in Nat /\ k <= Len(s) /\ b <= Len(s)
                     /\ b # 0 => k < b
  BY LenProperties
<1> QED
  BY <1>1, <1>2, <1>3 DEF TypeOK, Typed, SweepType

LEMMA InitInvariant == Init => IInv
<1> SUFFICES ASSUME Init PROVE IInv
  OBVIOUS
<1> USE CleanerAssumption DEF Init
<1>1. Typed
  <2>1. NoJobs \in [Job -> Nat] /\ IdleSweep \in SweepType /\ Never \in Scores \cup {Never}
    BY DEF NoJobs, IdleSweep, SweepType
  <2>2. <<>> \in Seq(Members) /\ <<>> \in Seq(Paths) /\ Len(<<>>) = 0
    OBVIOUS
  <2> QED
    BY <2>1, <2>2 DEF Typed
<1>2. Shape
  BY DEF Shape, SweepShape, StageFits, HeardInTime, NoJobs, IdleSweep
<1>3. FirstFiles
  BY DEF FirstFiles, FirstFile, Untouched, Exists, ToSend, Sent, HasJob, NoJobs, IdleSweep,
         Members, Never
<1>4. Cancels
  BY DEF Cancels, OneSweeper, BatchOwnsJobs, SoleJobs, NewIsUnset, UntoldIsUnsent, SentOnce,
         ActedIsOver, Acted, ToSend, Sent, HasJob, NoJobs, IdleSweep, Members
<1>5. Deletes
  BY DEF Deletes, ComingIsDue, ComingOnce, HeardIsFresh, ScheduledIsKept, Coming, Unread,
         SoleJobs, ToSend, HasJob, NoJobs, IdleSweep, Members
<1> QED
  BY <1>1, <1>2, <1>3, <1>4, <1>5 DEF IInv

-----------------------------------------------------------------------------
(* What single steps do                                                    *)

LEMMA JobFields ==
    \A j \in Job : /\ j.m \in Members /\ j.awaited \in BOOLEAN
                   /\ j.stage \in {"unlink", "lookup", "clean", "act"}
BY DEF Job

LEMMA SameJob ==
    ASSUME NEW j \in Job, NEW k \in Job, j.m = k.m, j.stage = k.stage, j.awaited = k.awaited
    PROVE  j = k
BY DEF Job

\* A handler that ends, or gets to its next stage.
Moves(j) ==
    /\ Running(j)
    /\ \/ Ends(j)
       \/ \E s \in {"clean", "act"} :
             j.stage \in {"lookup", "clean"} \ {s} /\ Reaches(j, s)

Moved(j, k) ==
    \/ k # j /\ jobs'[k] = jobs[k]
    \/ k = j /\ jobs'[k] = jobs[j] - 1
    \/ /\ k # j /\ jobs'[k] = jobs[k] + 1
       /\ k.m = j.m /\ k.awaited = j.awaited
       /\ k.stage \in {"clean", "act"} /\ j.stage \in {"lookup", "clean"}
       /\ Reaches(j, k.stage)

LEMMA HandlerMoves ==
    ASSUME Typed, NEW j \in Job, Moves(j)
    PROVE  jobs' \in [Job -> Nat] /\ \A k \in Job : Moved(j, k)
<1>1. jobs \in [Job -> Nat] /\ jobs[j] > 0
  BY DEF Typed, Moves, Running
<1>2. CASE Ends(j)
  BY <1>1, <1>2 DEF Ends, Moved
<1>3. ASSUME NEW s \in {"clean", "act"}, j.stage \in {"lookup", "clean"} \ {s}, Reaches(j, s)
      PROVE  jobs' \in [Job -> Nat] /\ \A k \in Job : Moved(j, k)
  <2> DEFINE n == [j EXCEPT !.stage = s]
  <2>1. n \in Job /\ n.m = j.m /\ n.awaited = j.awaited /\ n.stage = s /\ n # j
    BY <1>3 DEF Job
  <2>2. jobs' = [jobs EXCEPT ![j] = @ - 1, ![n] = @ + 1]
    BY <1>3 DEF Reaches
  <2> HIDE DEF n
  <2>3. jobs' \in [Job -> Nat]
    BY <1>1, <2>1, <2>2
  <2>4. \A k \in Job : jobs'[k] = IF k = j THEN jobs[j] - 1
                                  ELSE IF k = n THEN jobs[n] + 1 ELSE jobs[k]
    BY <1>1, <2>1, <2>2
  <2> QED
    BY <1>3, <2>1, <2>3, <2>4 DEF Moved
<1> QED
  BY <1>2, <1>3 DEF Moves

\* The handlers of one job go on one by one.
LEMMA MovesKeepJobs ==
    ASSUME Typed, StageFits, NEW j \in Job, Moves(j)
    PROVE  /\ StageFits'
           /\ \A m : HasJob(m)' => HasJob(m)
           /\ BatchOwnsJobs /\ batch' = batch => BatchOwnsJobs'
           /\ \A S : SoleJobs(S) => SoleJobs(S)'
<1>1. jobs \in [Job -> Nat] /\ jobs[j] > 0 /\ jobs' \in [Job -> Nat]
  BY HandlerMoves DEF Typed, Moves, Running
<1>2. \A k \in Job : Moved(j, k)
  BY HandlerMoves
<1>3. \A k \in Job : jobs'[k] > 0 =>
          \/ jobs[k] > 0
          \/ k.m = j.m /\ k.awaited = j.awaited /\ k.stage # "unlink" /\ j.stage # "unlink"
  BY <1>1, <1>2 DEF Moved
<1>4. StageFits'
  BY <1>1, <1>3 DEF StageFits
<1>5. \A m : HasJob(m)' => HasJob(m)
  BY <1>1, <1>3 DEF HasJob
<1>6. BatchOwnsJobs /\ batch' = batch => BatchOwnsJobs'
  BY <1>1, <1>3 DEF BatchOwnsJobs
<1>7. ASSUME NEW S, SoleJobs(S) PROVE SoleJobs(S)'
  <2> SUFFICES ASSUME NEW k \in Job, NEW l \in Job, jobs'[k] > 0, jobs'[l] > 0, k.m = l.m, k.m \in S
               PROVE  k = l /\ jobs'[k] = 1
    BY DEF SoleJobs
  <2>1. CASE k.m # j.m
    BY <1>1, <1>2, <1>7, <2>1 DEF Moved, SoleJobs
  <2>2. CASE k.m = j.m
    <3>1. jobs[j] = 1 /\ \A i \in Job : i.m = j.m /\ i # j => jobs[i] = 0
      BY <1>1, <1>7, <2>2 DEF SoleJobs
    <3>2. \A i \in Job : i.m = j.m /\ jobs'[i] > 0 =>
              /\ i # j /\ jobs'[i] = 1 /\ i.awaited = j.awaited
              /\ Reaches(j, i.stage) /\ i.stage \in {"clean", "act"}
      BY <1>1, <1>2, <3>1 DEF Moved
    <3>3. k.stage # l.stage => FALSE
      <4> SUFFICES ASSUME k.stage # l.stage PROVE FALSE
        OBVIOUS
      <4> DEFINE n == [j EXCEPT !.stage = k.stage]
      <4>1. n \in Job /\ n.m = j.m /\ n.stage = k.stage
        BY <3>2, <2>2 DEF Job
      <4>2. jobs' = [jobs EXCEPT ![j] = @ - 1, ![n] = @ + 1]
        BY <3>2, <2>2 DEF Reaches
      <4>3. l # n /\ l # j /\ jobs[l] = 0
        BY <2>2, <3>1, <3>2, <4>1
      <4> HIDE DEF n
      <4>4. jobs'[l] = jobs[l]
        BY <1>1, <4>1, <4>2, <4>3
      <4> QED
        BY <4>3, <4>4
    <3>4. k.awaited = j.awaited /\ l.awaited = j.awaited
      BY <2>2, <3>2
    <3>5. k = l
      BY <3>3, <3>4, SameJob
    <3> QED
      BY <2>2, <3>2, <3>5
  <2> QED
    BY <2>1, <2>2
<1> QED
  BY <1>4, <1>5, <1>6, <1>7

\* Every handler step moves its job.
LEMMA HandlersMove ==
    ASSUME NEW j \in Job,
           RetryDecided(j) \/ Lookup(j) \/ Clean(j) \/ Unlink(j)
    PROVE  Moves(j)
BY DEF RetryDecided, Lookup, Clean, Unlink, Moves

\* A batch starts one awaited handler for each entry read.
Starts(j) == {i \in cursor + 1 .. batch' : [m |-> stream[i], stage |-> FirstStage(stream[i]),
                                            awaited |-> TRUE] = j}

LEMMA PollStarts ==
    ASSUME Typed, PollCommands
    PROVE  /\ batch = 0 /\ batch' \in Nat /\ cursor < batch' /\ batch' <= Len(stream)
           /\ jobs' \in [Job -> Nat]
           /\ \A j \in Job :
                 /\ jobs'[j] >= jobs[j]
                 /\ jobs'[j] > jobs[j] =>
                        /\ j.awaited /\ j.stage = FirstStage(j.m)
                        /\ \E i \in DOMAIN stream : cursor < i /\ i <= batch' /\ stream[i] = j.m
                 /\ (\A i, k \in DOMAIN stream :
                        cursor < i /\ cursor < k /\ stream[i] = j.m /\ stream[k] = j.m => i = k)
                        => jobs'[j] <= jobs[j] + 1
<1>1. /\ stream \in Seq(Members) /\ cursor \in Nat /\ cursor <= Len(stream)
      /\ jobs \in [Job -> Nat]
  BY DEF Typed
<1>2. batch = 0 /\ batch' \in Nat /\ cursor < batch' /\ batch' <= Len(stream)
  BY <1>1, CleanerAssumption, LenProperties DEF PollCommands
<1>3. jobs' = [j \in Job |-> jobs[j] + Cardinality(Starts(j))]
  BY DEF PollCommands, Starts
<1>4. ASSUME NEW j \in Job PROVE IsFiniteSet(Starts(j)) /\ Cardinality(Starts(j)) \in Nat
  <2>1. IsFiniteSet(cursor + 1 .. batch')
    BY <1>1, <1>2, FS_Interval
  <2>2. Starts(j) \subseteq cursor + 1 .. batch'
    BY DEF Starts
  <2> QED
    BY <2>1, <2>2, FS_Subset, FS_CardinalityType
<1>5. jobs' \in [Job -> Nat]
  BY <1>1, <1>3, <1>4
<1>6. ASSUME NEW j \in Job, NEW i \in Starts(j)
      PROVE  /\ j.awaited /\ j.stage = FirstStage(j.m)
             /\ i \in DOMAIN stream /\ cursor < i /\ i <= batch' /\ stream[i] = j.m
  <2>1. i \in cursor + 1 .. batch' /\ j = [m |-> stream[i], stage |-> FirstStage(stream[i]),
                                           awaited |-> TRUE]
    BY <1>6 DEF Starts
  <2>2. i \in DOMAIN stream /\ cursor < i /\ i <= batch'
    BY <1>1, <1>2, <2>1, LenProperties
  <2>3. j.m = stream[i] /\ j.stage = FirstStage(stream[i]) /\ j.awaited = TRUE
    BY <2>1
  <2> QED
    BY <2>2, <2>3
<1>7. ASSUME NEW j \in Job, jobs'[j] > jobs[j]
      PROVE  \E i : i \in Starts(j)
  <2>1. Cardinality(Starts(j)) # 0
    BY <1>1, <1>3, <1>4, <1>7
  <2> QED
    BY <2>1, FS_EmptySet
<1>8. ASSUME NEW j \in Job,
             \A i, k \in DOMAIN stream :
                cursor < i /\ cursor < k /\ stream[i] = j.m /\ stream[k] = j.m => i = k
      PROVE  jobs'[j] <= jobs[j] + 1
  <2>1. CASE Starts(j) = {}
    BY <1>1, <1>3, <1>4, <2>1, FS_EmptySet
  <2>2. CASE Starts(j) # {}
    <3>1. PICK i \in Starts(j) : TRUE
      BY <2>2
    <3>2. Starts(j) = {i}
      BY <1>6, <1>8, <3>1
    <3>3. Cardinality(Starts(j)) = 1
      BY <3>2, FS_Singleton
    <3> QED
      BY <1>1, <1>3, <3>3
  <2> QED
    BY <2>1, <2>2
<1>9. \A j \in Job : jobs'[j] >= jobs[j]
  BY <1>1, <1>3, <1>4
<1> QED
  BY <1>2, <1>5, <1>6, <1>7, <1>8, <1>9

\* A trim leaves the entries from the last one read.
LEMMA TrimShifts ==
    ASSUME Typed, Trim
    PROVE  /\ stream' \in Seq(Members) /\ Len(stream') = Len(stream) - batch + 1
           /\ batch \in 1 .. Len(stream) /\ cursor' = 1 /\ batch' = 0 /\ DoneTo' = 1
           /\ DoneTo = batch
           /\ \A i \in DOMAIN stream' : /\ i \in 1 .. Len(stream) - batch + 1
                                        /\ batch + i - 1 \in DOMAIN stream
                                        /\ stream'[i] = stream[batch + i - 1]
<1>1. /\ stream \in Seq(Members) /\ batch \in 1 .. Len(stream)
      /\ stream' = SubSeq(stream, batch, Len(stream)) /\ cursor' = 1 /\ batch' = 0
  BY DEF Typed, Trim
<1>2. \A i \in batch .. Len(stream) : i \in DOMAIN stream /\ stream[i] \in Members
  BY <1>1, ElementOfSeq, LenProperties
<1>3. /\ stream' \in Seq(Members) /\ Len(stream') = Len(stream) - batch + 1
      /\ \A i \in 1 .. Len(stream) - batch + 1 : stream'[i] = stream[batch + i - 1]
  BY <1>1, <1>2, SubSeqProperties
<1>4. DoneTo = batch /\ DoneTo' = 1
  BY <1>1 DEF DoneTo
<1> QED
  BY <1>1, <1>3, <1>4, LenProperties

LEMMA SendAppends ==
    ASSUME Typed, NEW c \in Cleaners, NEW m \in Members, SendCommand(c, m)
    PROVE  /\ stream' \in Seq(Members) /\ Len(stream') = Len(stream) + 1
           /\ DOMAIN stream' = DOMAIN stream \cup {Len(stream) + 1}
           /\ Len(stream) + 1 \notin DOMAIN stream
           /\ stream'[Len(stream) + 1] = m
           /\ \A i \in DOMAIN stream : i \in Nat /\ i <= Len(stream) /\ stream'[i] = stream[i]
<1>1. stream \in Seq(Members) /\ stream' = Append(stream, m)
  BY DEF Typed, SendCommand
<1> QED
  BY <1>1, AppendProperties, LenProperties

\* The steps of a sweep: what is due is read ...
LEMMA ReadReads ==
    ASSUME Typed, SweepShape, NEW c \in Cleaners, ReadDue(c)
    PROVE  /\ sweep' \in [Cleaners -> SweepType] /\ SweepShape'
           /\ sweep[c].stage \in {"idle", "between"}
           /\ sweep[c].todo = {} /\ sweep[c].taken = {}
           /\ sweep[c].stage = "idle" => c \in primary
           /\ \A d \in Cleaners \ {c} : sweep'[d] = sweep[d]
           /\ \A m \in sweep'[c].todo : m \in Members /\ zset[m] # Never /\ zset[m] <= now
           /\ \A m : m \in sweep'[c].todo => \E t \in sweep'[c].taken : t[1] = m
           /\ \A t \in sweep'[c].taken : t[1] \in sweep'[c].todo
<1> DEFINE job == IF sweep[c].stage = "idle" /\ Due(Paths) # {} THEN Paths ELSE Gids
           due == Due(job)
           next == IF due = {} THEN "idle" ELSE IF job = Paths THEN "delete" ELSE "cancel"
           taken == {<<m, zset[m]>> : m \in due}
<1>1. /\ sweep \in [Cleaners -> SweepType] /\ zset \in [Members -> Scores \cup {Never}]
  BY DEF Typed
<1>2. sweep' = [sweep EXCEPT ![c] = [stage |-> next, todo |-> due, taken |-> taken]]
  BY DEF ReadDue
<1>3. sweep[c].stage \in {"idle", "between"} /\ (sweep[c].stage = "idle" => c \in primary)
  BY DEF ReadDue, Active
<1>4. due \subseteq Members /\ \A m \in due : zset[m] # Never /\ zset[m] <= now
  BY DEF Due, Members
<1>5. taken \subseteq Members \X Scores
  BY <1>1, <1>4
<1>6. /\ \A m \in due : <<m, zset[m]>> \in taken
      /\ \A t \in taken : t[1] \in due
  OBVIOUS
<1>7. next \in {"idle", "delete", "cancel"} /\ (next = "idle" => due = {})
  OBVIOUS
<1>8. next = "idle" => taken = {}
  BY <1>7
<1> HIDE DEF job, due, next, taken
<1>9. sweep' \in [Cleaners -> SweepType]
  BY <1>1, <1>2, <1>4, <1>5, <1>7 DEF SweepType
<1>10. /\ sweep'[c].todo = due /\ sweep'[c].taken = taken /\ sweep'[c].stage = next
       /\ \A d \in Cleaners \ {c} : sweep'[d] = sweep[d]
  BY <1>1, <1>2
<1>11. \A m \in due : \E t \in taken : t[1] = m
  BY <1>6
<1>12. SweepShape'
  <2> SUFFICES ASSUME NEW d \in Cleaners
               PROVE  /\ sweep'[d].stage \in {"idle", "between"}
                             => sweep'[d].todo = {} /\ sweep'[d].taken = {}
                      /\ \A m \in sweep'[d].todo : \E t \in sweep'[d].taken : t[1] = m
    BY DEF SweepShape
  <2>1. CASE d = c
    BY <1>7, <1>8, <1>10, <1>11, <2>1
  <2>2. CASE d # c
    BY <1>10, <2>2 DEF SweepShape
  <2> QED
    BY <2>1, <2>2
<1> QED
  BY <1>3, <1>4, <1>6, <1>9, <1>10, <1>11, <1>12 DEF SweepShape

\* ... one member of it is sent ...
LEMMA SendTakes ==
    ASSUME Typed, SweepShape, NEW c \in Cleaners, NEW m \in Members, SendCommand(c, m)
    PROVE  /\ sweep' \in [Cleaners -> SweepType] /\ SweepShape'
           /\ m \in sweep[c].todo /\ sweep[c].stage # "idle"
           /\ sweep'[c].todo = sweep[c].todo \ {m}
           /\ \A d \in Cleaners : /\ sweep'[d].stage = sweep[d].stage
                                  /\ sweep'[d].taken = sweep[d].taken
           /\ \A d \in Cleaners \ {c} : sweep'[d] = sweep[d]
<1>1. /\ sweep \in [Cleaners -> SweepType] /\ m \in sweep[c].todo
      /\ sweep' = [sweep EXCEPT ![c].todo = @ \ {m}]
  BY DEF Typed, SendCommand
<1>2. sweep[c] \in SweepType
  BY <1>1
<1>3. /\ sweep'[c].todo = sweep[c].todo \ {m}
      /\ sweep'[c].stage = sweep[c].stage /\ sweep'[c].taken = sweep[c].taken
      /\ \A d \in Cleaners \ {c} : sweep'[d] = sweep[d]
  BY <1>1, <1>2 DEF SweepType
<1>4. sweep' \in [Cleaners -> SweepType]
  BY <1>1, <1>2 DEF SweepType
<1>5. sweep[c].stage # "idle" /\ sweep[c].stage # "between"
  BY <1>1 DEF SweepShape
<1>6. SweepShape'
  <2> SUFFICES ASSUME NEW d \in Cleaners
               PROVE  /\ sweep'[d].stage \in {"idle", "between"}
                             => sweep'[d].todo = {} /\ sweep'[d].taken = {}
                      /\ \A n \in sweep'[d].todo : \E t \in sweep'[d].taken : t[1] = n
    BY DEF SweepShape
  <2>1. CASE d = c
    BY <1>3, <1>5, <2>1 DEF SweepShape
  <2>2. CASE d # c
    BY <1>3, <2>2 DEF SweepShape
  <2> QED
    BY <2>1, <2>2
<1> QED
  BY <1>1, <1>3, <1>4, <1>5, <1>6

\* ... and the sweep is over, or gone.
LEMMA SweepEnds ==
    ASSUME Typed, SweepShape, NEW c \in Cleaners,
           JobOver(c) \/ sweep' = [sweep EXCEPT ![c] = IdleSweep]
    PROVE  /\ sweep' \in [Cleaners -> SweepType] /\ SweepShape'
           /\ sweep'[c].todo = {} /\ sweep'[c].taken = {}
           /\ sweep'[c].stage # "idle" => sweep[c].stage # "idle"
           /\ \A d \in Cleaners \ {c} : sweep'[d] = sweep[d]
<1>1. sweep \in [Cleaners -> SweepType]
  BY DEF Typed
<1>2. \E s \in {"idle", "between"} :
         /\ sweep' = [sweep EXCEPT ![c] = [stage |-> s, todo |-> {}, taken |-> {}]]
         /\ s # "idle" => sweep[c].stage # "idle"
  BY DEF JobOver, IdleSweep
<1>3. PICK s \in {"idle", "between"} :
         /\ sweep' = [sweep EXCEPT ![c] = [stage |-> s, todo |-> {}, taken |-> {}]]
         /\ s # "idle" => sweep[c].stage # "idle"
  BY <1>2
<1>4. /\ sweep'[c] = [stage |-> s, todo |-> {}, taken |-> {}]
      /\ \A d \in Cleaners \ {c} : sweep'[d] = sweep[d]
  BY <1>1, <1>3
<1>5. [stage |-> s, todo |-> {}, taken |-> {}] \in SweepType
  BY DEF SweepType
<1>6. sweep' \in [Cleaners -> SweepType]
  BY <1>1, <1>3, <1>5
<1>7. SweepShape'
  <2> SUFFICES ASSUME NEW d \in Cleaners
               PROVE  /\ sweep'[d].stage \in {"idle", "between"}
                             => sweep'[d].todo = {} /\ sweep'[d].taken = {}
                      /\ \A n \in sweep'[d].todo : \E t \in sweep'[d].taken : t[1] = n
    BY DEF SweepShape
  <2>1. CASE d = c
    BY <1>4, <2>1
  <2>2. CASE d # c
    BY <1>4, <2>2 DEF SweepShape
  <2> QED
    BY <2>1, <2>2
<1> QED
  BY <1>3, <1>4, <1>6, <1>7
-----------------------------------------------------------------------------
(* Every step keeps the types and the shape                                *)

LEMMA ScoreRange == \A n : n \in Scores <=> n \in Nat /\ n <= MaxTime
BY CleanerAssumption DEF Scores

LEMMA MembersApart ==
    /\ \A p \in Paths : p \in Members /\ p \notin Gids
    /\ \A g \in Gids : g \in Members /\ g \notin Paths
BY CleanerAssumption DEF Members

\* What every process hears.
LEMMA StoreTells ==
    ASSUME Typed, NEW p \in Paths, Store(p)
    PROVE  /\ heard' \in [Cleaners -> Seq(Paths)]
           /\ \A c \in Cleaners : \A i \in DOMAIN heard'[c] :
                 heard'[c][i] = p \/ (i \in DOMAIN heard[c] /\ heard'[c][i] = heard[c][i])
<1>1. heard \in [Cleaners -> Seq(Paths)] /\ heard' = [c \in Cleaners |-> Append(heard[c], p)]
  BY DEF Typed, Store
<1>2. \A c \in Cleaners : heard[c] \in Seq(Paths) /\ heard'[c] = Append(heard[c], p)
  BY <1>1
<1>3. ASSUME NEW c \in Cleaners
      PROVE  /\ heard'[c] \in Seq(Paths)
             /\ \A i \in DOMAIN heard'[c] :
                   heard'[c][i] = p \/ (i \in DOMAIN heard[c] /\ heard'[c][i] = heard[c][i])
  <2>1. heard[c] \in Seq(Paths) /\ heard'[c] = Append(heard[c], p)
    BY <1>2
  <2>2. /\ heard'[c] \in Seq(Paths) /\ Len(heard'[c]) = Len(heard[c]) + 1
        /\ heard'[c][Len(heard[c]) + 1] = p
        /\ \A i \in 1 .. Len(heard[c]) : heard'[c][i] = heard[c][i]
    BY <2>1, AppendProperties
  <2>3. /\ DOMAIN heard[c] = 1 .. Len(heard[c]) /\ Len(heard[c]) \in Nat
        /\ DOMAIN heard'[c] = 1 .. Len(heard'[c])
    BY <2>1, <2>2, LenProperties
  <2>4. ASSUME NEW i \in DOMAIN heard'[c]
        PROVE  heard'[c][i] = p \/ (i \in DOMAIN heard[c] /\ heard'[c][i] = heard[c][i])
    <3>1. i \in 1 .. Len(heard[c]) \/ i = Len(heard[c]) + 1
      BY <2>2, <2>3, <2>4
    <3> QED
      BY <2>2, <2>3, <3>1
  <2> QED
    BY <2>2, <2>4
<1> QED
  BY <1>1, <1>3

LEMMA HearsTail ==
    ASSUME Typed, NEW c \in Cleaners, heard[c] # <<>>, heard' = [heard EXCEPT ![c] = Tail(@)]
    PROVE  /\ heard' \in [Cleaners -> Seq(Paths)]
           /\ heard[c] \in Seq(Paths) /\ Head(heard[c]) \in Paths
           /\ 1 \in DOMAIN heard[c] /\ heard[c][1] = Head(heard[c])
           /\ \A d \in Cleaners : heard'[d] # <<>> => heard[d] # <<>>
           /\ \A d \in Cleaners : \A i \in DOMAIN heard'[d] :
                 \E k \in DOMAIN heard[d] : heard[d][k] = heard'[d][i]
<1>1. heard \in [Cleaners -> Seq(Paths)]
  BY DEF Typed
<1>2. heard[c] \in Seq(Paths) /\ heard[c] # <<>>
  BY <1>1
<1>3. /\ Head(heard[c]) \in Paths /\ Tail(heard[c]) \in Seq(Paths)
      /\ Len(heard[c]) \in Nat \ {0} /\ DOMAIN heard[c] = 1 .. Len(heard[c])
      /\ Len(Tail(heard[c])) = Len(heard[c]) - 1
      /\ \A i \in 1 .. Len(heard[c]) - 1 : Tail(heard[c])[i] = heard[c][i + 1]
  BY <1>2, HeadTailProperties, LenProperties, EmptySeq
<1>4. DOMAIN Tail(heard[c]) = 1 .. Len(heard[c]) - 1
  BY <1>3, LenProperties
<1>5. \A d \in Cleaners : heard'[d] = IF d = c THEN Tail(heard[c]) ELSE heard[d]
  BY <1>1
<1>6. heard' \in [Cleaners -> Seq(Paths)]
  BY <1>1, <1>3
<1>7. ASSUME NEW d \in Cleaners, NEW i \in DOMAIN heard'[d]
      PROVE  \E k \in DOMAIN heard[d] : heard[d][k] = heard'[d][i]
  <2>1. CASE d = c
    <3>1. i \in 1 .. Len(heard[c]) - 1 /\ heard'[d][i] = heard[c][i + 1]
      BY <1>3, <1>4, <1>5, <1>7, <2>1
    <3>2. i + 1 \in DOMAIN heard[c]
      BY <1>3, <3>1
    <3> QED
      BY <2>1, <3>1, <3>2
  <2>2. CASE d # c
    BY <1>5, <1>7, <2>2
  <2> QED
    BY <2>1, <2>2
<1>8. 1 \in DOMAIN heard[c] /\ heard[c][1] = Head(heard[c])
  BY <1>2, <1>3
<1> QED
  BY <1>2, <1>3, <1>5, <1>6, <1>7, <1>8

\* A batch that fails leaves its handlers to themselves.
LEMMA FailOrphans ==
    ASSUME Typed, StageFits, BatchFails
    PROVE  jobs' \in [Job -> Nat] /\ StageFits' /\ \A m : HasJob(m)' => HasJob(m)
<1>1. jobs \in [Job -> Nat]
  BY DEF Typed
<1>2. CASE UNCHANGED jobs
  BY <1>1, <1>2 DEF StageFits, HasJob
<1>3. ASSUME NEW j \in Job, Running(j), jobs' = Orphaned([jobs EXCEPT ![j] = @ - 1])
      PROVE  jobs' \in [Job -> Nat] /\ StageFits' /\ \A m : HasJob(m)' => HasJob(m)
  <2> DEFINE running == [jobs EXCEPT ![j] = @ - 1]
  <2>1. running \in [Job -> Nat] /\ \A k \in Job : running[k] <= jobs[k]
    BY <1>1, <1>3 DEF Running
  <2>2. jobs' = [k \in Job |-> IF k.awaited THEN 0
                               ELSE running[k] + running[[k EXCEPT !.awaited = TRUE]]]
    BY <1>3 DEF Orphaned
  <2> HIDE DEF running
  <2>3. \A k \in Job : /\ [k EXCEPT !.awaited = TRUE] \in Job
                       /\ [k EXCEPT !.awaited = TRUE].m = k.m
                       /\ [k EXCEPT !.awaited = TRUE].stage = k.stage
    BY DEF Job
  <2>4. jobs' \in [Job -> Nat]
    BY <2>1, <2>2, <2>3
  <2>5. \A k \in Job : jobs'[k] > 0 => \E l \in Job : jobs[l] > 0 /\ l.m = k.m /\ l.stage = k.stage
    <3> SUFFICES ASSUME NEW k \in Job, jobs'[k] > 0
                 PROVE  \E l \in Job : jobs[l] > 0 /\ l.m = k.m /\ l.stage = k.stage
      OBVIOUS
    <3> DEFINE l == [k EXCEPT !.awaited = TRUE]
    <3>1. l \in Job /\ l.m = k.m /\ l.stage = k.stage
      BY <2>3
    <3>2. jobs'[k] = IF k.awaited THEN 0 ELSE running[k] + running[l]
      BY <2>2
    <3> HIDE DEF l
    <3>3. running[k] \in Nat /\ running[l] \in Nat /\ running[k] <= jobs[k] /\ running[l] <= jobs[l]
      BY <2>1, <3>1
    <3>4. jobs[k] \in Nat /\ jobs[l] \in Nat
      BY <1>1, <3>1
    <3>5. jobs[k] > 0 \/ jobs[l] > 0
      BY <3>2, <3>3, <3>4
    <3> QED
      BY <3>1, <3>5
  <2> QED
    BY <2>4, <2>5 DEF StageFits, HasJob
<1> QED
  BY <1>2, <1>3 DEF BatchFails

LEMMA TypesStep ==
    ASSUME Typed, Shape, Next
    PROVE  Typed' /\ Shape'
<1>1. /\ now \in Nat /\ now <= MaxTime
      /\ disk \in [Paths -> Scores \cup {Never}]
      /\ stores \in [Paths -> Nat]
      /\ zset \in [Members -> Scores \cup {Never}]
      /\ heard \in [Cleaners -> Seq(Paths)]
      /\ sweep \in [Cleaners -> SweepType]
      /\ stream \in Seq(Members) /\ cursor \in Nat /\ batch \in Nat
      /\ cursor <= Len(stream) /\ batch <= Len(stream)
      /\ batch # 0 => cursor < batch
      /\ jobs \in [Job -> Nat] /\ acted \in [Gids -> Nat]
      /\ download \in [Gids -> {"new", "open", "acked"}]
      /\ primary \subseteq Cleaners
      /\ allS3 \in BOOLEAN /\ leaked \subseteq Paths
      /\ upsets \in Nat /\ restarts \in Nat /\ upsets + restarts <= MaxFaults
  BY DEF Typed
<1>2. SweepShape /\ StageFits /\ HeardInTime
  BY DEF Shape
<1>3. Len(stream) \in Nat
  BY <1>1, LenProperties
<1>4. MaxTime \in Nat /\ Keep \in Nat /\ CancelAfter \in Nat /\ MaxFaults \in Nat
  BY CleanerAssumption
<1>5. UNCHANGED sweep => SweepShape'
  BY <1>2 DEF SweepShape
<1>6. UNCHANGED jobs => StageFits'
  BY <1>2 DEF StageFits
<1>7. UNCHANGED <<heard, now>> => HeardInTime'
  BY <1>2 DEF HeardInTime
<1>8. Never \in Scores \cup {Never} /\ now \in Scores
  BY <1>1, ScoreRange
<1>9. Upset => upsets' \in Nat /\ upsets' + restarts <= MaxFaults
  BY <1>1, <1>4 DEF Upset
<1>10. CASE Tick
  <2>1. HeardInTime'
    BY <1>10 DEF Tick, HeardInTime, cleaners
  <2>2. now' \in Nat /\ now' <= MaxTime
    BY <1>1, <1>4, <1>10 DEF Tick
  <2> QED
    BY <1>1, <1>5, <1>6, <1>10, <2>1, <2>2 DEF Tick, Typed, Shape, cleaners, worker
<1>11. CASE PollCommands
  <2>1. /\ batch' \in Nat /\ batch' <= Len(stream) /\ cursor < batch' /\ jobs' \in [Job -> Nat]
        /\ \A j \in Job :
              /\ jobs'[j] >= jobs[j]
              /\ jobs'[j] > jobs[j] => (j.stage = "unlink" <=> j.m \in Paths)
    BY <1>11, PollStarts DEF FirstStage
  <2>2. StageFits'
    BY <1>1, <1>2, <2>1 DEF StageFits
  <2> QED
    BY <1>1, <1>5, <1>7, <1>11, <2>1, <2>2 DEF PollCommands, Typed, Shape, cleaners
<1>12. CASE Trim
  <2>1. stream' \in Seq(Members) /\ cursor' = 1 /\ batch' = 0 /\ cursor' <= Len(stream')
    BY <1>1, <1>3, <1>12, TrimShifts
  <2>2. batch' <= Len(stream') /\ cursor' \in Nat /\ batch' \in Nat
    BY <2>1, LenProperties
  <2> QED
    BY <1>1, <1>5, <1>6, <1>7, <1>12, <2>1, <2>2 DEF Trim, Typed, Shape, cleaners
<1>13. CASE BatchFails
  <2>1. jobs' \in [Job -> Nat] /\ StageFits'
    BY <1>2, <1>13, FailOrphans
  <2>2. batch' = 0 /\ batch' <= Len(stream) /\ upsets' \in Nat /\ upsets' + restarts <= MaxFaults
    BY <1>3, <1>9, <1>13 DEF BatchFails
  <2> QED
    BY <1>1, <1>5, <1>7, <1>13, <2>1, <2>2 DEF BatchFails, Typed, Shape, cleaners
<1>14. CASE Restart
  <2>1. jobs' \in [Job -> Nat] /\ StageFits'
    BY <1>14 DEF Restart, NoJobs, StageFits
  <2>2. /\ batch' = 0 /\ cursor' = 0 /\ cursor' <= Len(stream)
        /\ restarts' \in Nat /\ upsets + restarts' <= MaxFaults
    BY <1>1, <1>3, <1>4, <1>14 DEF Restart
  <2> QED
    BY <1>1, <1>5, <1>7, <1>14, <2>1, <2>2 DEF Restart, Typed, Shape, cleaners
<1>15. ASSUME NEW p \in Paths, Store(p) PROVE Typed' /\ Shape'
  <2>1. heard' \in [Cleaners -> Seq(Paths)]
    BY <1>15, StoreTells
  <2>2. disk' \in [Paths -> Scores \cup {Never}] /\ stores' \in [Paths -> Nat]
    BY <1>1, <1>8, <1>15 DEF Store
  <2>3. HeardInTime'
    BY <1>15 DEF Store, HeardInTime
  <2> QED
    BY <1>1, <1>5, <1>6, <1>15, <2>1, <2>2, <2>3 DEF Store, Typed, Shape, worker
<1>16. ASSUME NEW g \in Gids, StartDownload(g) PROVE Typed' /\ Shape'
  <2>1. now + CancelAfter \in Scores
    <3>1. now + CancelAfter \in Nat /\ now + CancelAfter <= MaxTime
      BY <1>1, <1>4, <1>16 DEF StartDownload
    <3> QED
      BY <3>1, ScoreRange
  <2>2. zset' \in [Members -> Scores \cup {Never}] /\ download' \in [Gids -> {"new", "open", "acked"}]
    BY <1>1, <1>16, <2>1 DEF StartDownload
  <2> QED
    BY <1>1, <1>5, <1>6, <1>7, <1>16, <2>2 DEF StartDownload, Typed, Shape, worker
<1>17. ASSUME NEW g \in Gids, Notified(g) PROVE Typed' /\ Shape'
  <2>1. zset' \in [Members -> Scores \cup {Never}] /\ download' \in [Gids -> {"new", "open", "acked"}]
    BY <1>1, <1>8, <1>17 DEF Notified
  <2> QED
    BY <1>1, <1>5, <1>6, <1>7, <1>17, <2>1 DEF Notified, Typed, Shape, worker
<1>18. ASSUME NEW c \in Cleaners, Elect(c) PROVE Typed' /\ Shape'
  <2>1. primary' \subseteq Cleaners
    BY <1>18 DEF Elect
  <2> QED
    BY <1>1, <1>5, <1>6, <1>7, <1>18, <2>1 DEF Elect, Typed, Shape, worker
<1>19. ASSUME NEW c \in Cleaners, Unsettle(c) PROVE Typed' /\ Shape'
  <2>1. primary' \subseteq Cleaners
    BY <1>1, <1>19 DEF Unsettle
  <2> QED
    BY <1>1, <1>5, <1>6, <1>7, <1>9, <1>19, <2>1 DEF Unsettle, Typed, Shape, worker
<1>20. ASSUME NEW c \in Cleaners, ReadDue(c) PROVE Typed' /\ Shape'
  <2>1. sweep' \in [Cleaners -> SweepType] /\ SweepShape'
    BY <1>2, <1>20, ReadReads
  <2> QED
    BY <1>1, <1>6, <1>7, <1>20, <2>1 DEF ReadDue, Typed, Shape, worker
<1>21. ASSUME NEW c \in Cleaners, NEW m \in Members, SendCommand(c, m) PROVE Typed' /\ Shape'
  <2>1. sweep' \in [Cleaners -> SweepType] /\ SweepShape'
    BY <1>2, <1>21, SendTakes
  <2>2. stream' \in Seq(Members) /\ Len(stream') = Len(stream) + 1
    BY <1>21, SendAppends
  <2>3. cursor <= Len(stream') /\ batch <= Len(stream')
    BY <1>1, <1>3, <2>2
  <2> QED
    BY <1>1, <1>6, <1>7, <1>21, <2>1, <2>2, <2>3 DEF SendCommand, Typed, Shape, worker
<1>22. ASSUME NEW c \in Cleaners, RemoveSwept(c) PROVE Typed' /\ Shape'
  <2>1. sweep' \in [Cleaners -> SweepType] /\ SweepShape'
    BY <1>2, <1>22, SweepEnds DEF RemoveSwept
  <2>2. zset' \in [Members -> Scores \cup {Never}] /\ leaked' \subseteq Paths
    BY <1>1, <1>8, <1>22 DEF RemoveSwept
  <2> QED
    BY <1>1, <1>6, <1>7, <1>22, <2>1, <2>2 DEF RemoveSwept, Typed, Shape, worker
<1>23. ASSUME NEW c \in Cleaners, SweepFails(c) PROVE Typed' /\ Shape'
  <2>1. sweep' \in [Cleaners -> SweepType] /\ SweepShape'
    BY <1>2, <1>23, SweepEnds DEF SweepFails
  <2> QED
    BY <1>1, <1>6, <1>7, <1>9, <1>23, <2>1 DEF SweepFails, Typed, Shape, worker
<1>24. ASSUME NEW c \in Cleaners, CleanerCrash(c) PROVE Typed' /\ Shape'
  <2>1. sweep' \in [Cleaners -> SweepType] /\ SweepShape'
    BY <1>2, <1>24, SweepEnds DEF CleanerCrash
  <2>2. heard' \in [Cleaners -> Seq(Paths)] /\ HeardInTime' /\ primary' \subseteq Cleaners
    BY <1>1, <1>2, <1>24 DEF CleanerCrash, HeardInTime
  <2> QED
    BY <1>1, <1>6, <1>9, <1>24, <2>1, <2>2 DEF CleanerCrash, Typed, Shape, worker
<1>25. ASSUME NEW c \in Cleaners, Schedule(c) PROVE Typed' /\ Shape'
  <2>1. /\ heard' \in [Cleaners -> Seq(Paths)] /\ Head(heard[c]) \in Paths
        /\ \A d \in Cleaners : heard'[d] # <<>> => heard[d] # <<>>
    BY <1>25, HearsTail DEF Schedule
  <2>2. HeardInTime'
    BY <1>2, <1>25, <2>1 DEF HeardInTime, Schedule
  <2>3. now + Keep \in Scores
    <3>1. now + Keep \in Nat /\ now + Keep <= MaxTime
      BY <1>1, <1>2, <1>4, <1>25 DEF HeardInTime, Schedule
    <3> QED
      BY <3>1, ScoreRange
  <2>4. zset' \in [Members -> Scores \cup {Never}]
    <3>1. Head(heard[c]) \in Members
      BY <2>1, MembersApart
    <3>2. zset' = zset \/ zset' = [zset EXCEPT ![Head(heard[c])] = now + Keep]
                       \/ zset' = [zset EXCEPT ![Head(heard[c])] = @]
      BY <1>25 DEF Schedule, DecideSchedule
    <3> QED
      BY <1>1, <2>3, <3>1, <3>2
  <2> QED
    BY <1>1, <1>5, <1>6, <1>25, <2>1, <2>2, <2>4 DEF Schedule, Typed, Shape, worker
<1>26. ASSUME NEW c \in Cleaners, LoseReport(c) PROVE Typed' /\ Shape'
  <2>1. /\ heard' \in [Cleaners -> Seq(Paths)]
        /\ \A d \in Cleaners : heard'[d] # <<>> => heard[d] # <<>>
    BY <1>26, HearsTail DEF LoseReport
  <2>2. HeardInTime'
    BY <1>2, <1>26, <2>1 DEF HeardInTime, LoseReport
  <2> QED
    BY <1>1, <1>5, <1>6, <1>9, <1>26, <2>1, <2>2 DEF LoseReport, Typed, Shape, worker
<1>27. ASSUME NEW j \in Job, Unlink(j) PROVE Typed' /\ Shape'
  <2>1. jobs' \in [Job -> Nat] /\ StageFits'
    BY <1>2, <1>27, HandlersMove, HandlerMoves, MovesKeepJobs
  <2>2. j.m \in Paths
    BY <1>2, <1>27 DEF StageFits, Unlink, Running
  <2>3. disk' \in [Paths -> Scores \cup {Never}] /\ leaked' \subseteq Paths
    BY <1>1, <1>8, <1>27, <2>2 DEF Unlink
  <2>4. upsets' \in Nat /\ upsets' + restarts <= MaxFaults
    BY <1>1, <1>9, <1>27 DEF Unlink
  <2> QED
    BY <1>1, <1>5, <1>7, <1>27, <2>1, <2>3, <2>4 DEF Unlink, Typed, Shape, cleaners
<1>28. ASSUME NEW j \in Job, Lookup(j) PROVE Typed' /\ Shape'
  <2>1. jobs' \in [Job -> Nat] /\ StageFits'
    BY <1>2, <1>28, HandlersMove, HandlerMoves, MovesKeepJobs
  <2> QED
    BY <1>1, <1>5, <1>7, <1>28, <2>1 DEF Lookup, Typed, Shape, cleaners
<1>29. ASSUME NEW j \in Job, Clean(j) PROVE Typed' /\ Shape'
  <2>1. jobs' \in [Job -> Nat] /\ StageFits'
    BY <1>2, <1>29, HandlersMove, HandlerMoves, MovesKeepJobs
  <2>2. download' \in [Gids -> {"new", "open", "acked"}]
    BY <1>1, <1>29 DEF Clean
  <2>3. acted' \in [Gids -> Nat]
    <3>1. acted' = [acted EXCEPT ![j.m] = @ + 1]
      BY <1>29 DEF Clean
    <3>2. CASE j.m \in Gids
      <4>1. acted[j.m] + 1 \in Nat
        BY <1>1, <3>2
      <4> QED
        BY <1>1, <3>1, <4>1
    <3>3. CASE j.m \notin Gids
      BY <1>1, <3>1, <3>3
    <3> QED
      BY <3>2, <3>3
  <2> QED
    BY <1>1, <1>5, <1>7, <1>29, <2>1, <2>2, <2>3 DEF Clean, Typed, Shape, cleaners
<1>30. ASSUME NEW j \in Job, RetryDecided(j) PROVE Typed' /\ Shape'
  <2>1. jobs' \in [Job -> Nat] /\ StageFits'
    BY <1>2, <1>30, HandlersMove, HandlerMoves, MovesKeepJobs
  <2> QED
    BY <1>1, <1>5, <1>7, <1>30, <2>1 DEF RetryDecided, Typed, Shape, cleaners
<1>31. CASE Work
  BY <1>11, <1>12, <1>27, <1>28, <1>29, <1>30, <1>31 DEF Work, Handle
<1>32. ASSUME NEW c \in Cleaners, Sweep(c) PROVE Typed' /\ Shape'
  BY <1>20, <1>21, <1>22, <1>32 DEF Sweep
<1> QED
  BY <1>10, <1>13, <1>14, <1>15, <1>16, <1>17, <1>18, <1>19, <1>23, <1>24, <1>25, <1>26,
     <1>31, <1>32 DEF Next
-----------------------------------------------------------------------------
(* What a sweep does to the members on their way                           *)

LEMMA ReadTakes ==
    ASSUME Typed, SweepShape, NEW c \in Cleaners, ReadDue(c)
    PROVE  /\ \A m : ToSend(m)' <=> ToSend(m) \/ m \in sweep'[c].todo
           /\ \A m : Taken(m)' <=> Taken(m) \/ m \in sweep'[c].todo
<1>1. /\ sweep[c].todo = {} /\ sweep[c].taken = {}
      /\ \A d \in Cleaners \ {c} : sweep'[d] = sweep[d]
      /\ \A m : m \in sweep'[c].todo <=> \E t \in sweep'[c].taken : t[1] = m
  BY ReadReads
<1>2. \A m : ToSend(m)' <=> ToSend(m) \/ m \in sweep'[c].todo
  BY <1>1 DEF ToSend
<1>3. ASSUME NEW m, Taken(m)' PROVE Taken(m) \/ m \in sweep'[c].todo
  BY <1>1, <1>3 DEF Taken
<1>4. ASSUME NEW m, Taken(m) PROVE Taken(m)'
  <2>1. PICK d \in Cleaners : \E t \in sweep[d].taken : t[1] = m
    BY <1>4 DEF Taken
  <2>2. d # c
    BY <1>1, <2>1
  <2>3. sweep'[d] = sweep[d]
    BY <1>1, <2>2
  <2> QED
    BY <2>1, <2>3 DEF Taken
<1>5. ASSUME NEW m, m \in sweep'[c].todo PROVE Taken(m)'
  BY <1>1, <1>5 DEF Taken
<1> QED
  BY <1>2, <1>3, <1>4, <1>5

LEMMA SendMoves ==
    ASSUME Typed, SweepShape, NEW c \in Cleaners, NEW m \in Members, SendCommand(c, m)
    PROVE  /\ ToSend(m)
           /\ \A k : ToSend(k)' => ToSend(k)
           /\ \A k : Taken(k)' <=> Taken(k)
           /\ \A k : Sent(k)' <=> Sent(k) \/ k = m
<1>1. /\ m \in sweep[c].todo /\ sweep'[c].todo = sweep[c].todo \ {m}
      /\ \A d \in Cleaners \ {c} : sweep'[d] = sweep[d]
      /\ \A d \in Cleaners : sweep'[d].taken = sweep[d].taken
  BY SendTakes
<1>2. /\ DOMAIN stream' = DOMAIN stream \cup {Len(stream) + 1}
      /\ stream'[Len(stream) + 1] = m
      /\ \A i \in DOMAIN stream : stream'[i] = stream[i]
  BY SendAppends
<1>3. ToSend(m) /\ \A k : ToSend(k)' => ToSend(k)
  BY <1>1 DEF ToSend
<1>5. \A k : Taken(k)' <=> Taken(k)
  BY <1>1 DEF Taken
<1>6. \A k : Sent(k)' <=> Sent(k) \/ k = m
  BY <1>2 DEF Sent
<1> QED
  BY <1>3, <1>5, <1>6

LEMMA EndDrops ==
    ASSUME Typed, SweepShape, NEW c \in Cleaners,
           JobOver(c) \/ sweep' = [sweep EXCEPT ![c] = IdleSweep]
    PROVE  /\ \A m : ToSend(m)' => ToSend(m)
           /\ \A m : Taken(m)' => Taken(m)
           /\ \A m : Taken(m) => Taken(m)' \/ \E t \in sweep[c].taken : t[1] = m
<1>1. /\ sweep'[c].todo = {} /\ sweep'[c].taken = {}
      /\ \A d \in Cleaners \ {c} : sweep'[d] = sweep[d]
  BY SweepEnds
<1>2. \A m : ToSend(m)' => ToSend(m)
  BY <1>1 DEF ToSend
<1>3. \A m : Taken(m)' => Taken(m)
  BY <1>1 DEF Taken
<1>4. \A m : Taken(m) => Taken(m)' \/ \E t \in sweep[c].taken : t[1] = m
  BY <1>1 DEF Taken
<1> QED
  BY <1>2, <1>3, <1>4

\* A batch starts handlers for what was unread.
LEMMA PollTakes ==
    ASSUME Typed, PollCommands
    PROVE  \A m : /\ HasJob(m)' => HasJob(m) \/ Unread(m)
                  /\ Unread(m)' => Unread(m)
<1>1. /\ batch = 0 /\ batch' \in Nat /\ cursor < batch' /\ DoneTo = cursor /\ DoneTo' = batch'
      /\ cursor \in Nat
  BY PollStarts DEF Typed, DoneTo
<1>2. \A j \in Job : jobs'[j] > 0 =>
          jobs[j] > 0 \/ \E i \in DOMAIN stream : i > DoneTo /\ stream[i] = j.m
  <2>1. \A j \in Job : jobs[j] \in Nat /\ jobs'[j] \in Nat
    BY PollStarts DEF Typed
  <2>2. \A j \in Job : jobs'[j] > jobs[j] =>
            \E i \in DOMAIN stream : cursor < i /\ stream[i] = j.m
    BY PollStarts
  <2>3. \A i \in DOMAIN stream : i \in Nat
    BY LenProperties DEF Typed
  <2>4. \A j \in Job : jobs'[j] > jobs[j] =>
            \E i \in DOMAIN stream : i > DoneTo /\ stream[i] = j.m
    BY <1>1, <2>2, <2>3
  <2> QED
    BY <2>1, <2>4
<1>3. \A m : HasJob(m)' => HasJob(m) \/ Unread(m)
  BY <1>2 DEF HasJob, Unread
<1>4. \A m : Unread(m)' => Unread(m)
  <2>1. stream' = stream /\ \A i \in DOMAIN stream : i \in Nat
    BY LenProperties DEF Typed, PollCommands
  <2>2. \A i \in DOMAIN stream : i > batch' => i > cursor
    BY <1>1, <2>1
  <2> QED
    BY <1>1, <2>1, <2>2 DEF Unread
<1> QED
  BY <1>3, <1>4

\* A trim drops entries from the front of the stream, all of them read.
LEMMA TrimDrops ==
    ASSUME Typed, Trim
    PROVE  /\ \A m : Sent(m)' => Sent(m)
           /\ \A m : Unread(m)' => Unread(m)
<1>1. /\ batch \in Nat /\ DoneTo' = 1 /\ DoneTo = batch
      /\ \A i \in DOMAIN stream' : /\ i \in 1 .. Len(stream) - batch + 1
                                   /\ batch + i - 1 \in DOMAIN stream
                                   /\ stream'[i] = stream[batch + i - 1]
  BY TrimShifts DEF Typed
<1>2. \A m : Sent(m)' => Sent(m)
  BY <1>1 DEF Sent
<1>3. \A i \in DOMAIN stream' : i > DoneTo' => batch + i - 1 > DoneTo
  BY <1>1
<1>4. \A m : Unread(m)' => Unread(m)
  <2> SUFFICES ASSUME NEW m, Unread(m)' PROVE Unread(m)
    OBVIOUS
  <2>1. PICK i \in DOMAIN stream' : i > DoneTo' /\ stream'[i] = m
    BY DEF Unread
  <2>2. batch + i - 1 \in DOMAIN stream /\ batch + i - 1 > DoneTo /\ stream[batch + i - 1] = m
    BY <1>1, <1>3, <2>1
  <2> QED
    BY <2>2 DEF Unread
<1> QED
  BY <1>2, <1>4

-----------------------------------------------------------------------------
(* Every step keeps the first file of a path                               *)

\* Nothing new happens to p.
LEMMA QuietPath ==
    ASSUME NEW p \in Paths, now \in Nat, now' \in Nat, FirstFile(p), now' >= now,
           disk[p] \in Scores \cup {Never},
           disk'[p] \in {disk[p], Never}, stores'[p] = stores[p], zset'[p] \in {zset[p], Never},
           \A c \in Cleaners : \A i \in DOMAIN heard'[c] :
              heard'[c][i] = p => \E k \in DOMAIN heard[c] : heard[c][k] = p,
           ToSend(p)' \/ Sent(p)' \/ HasJob(p)' => ToSend(p) \/ Sent(p) \/ HasJob(p)
    PROVE  FirstFile(p)'
<1>1. disk[p] \in Int /\ disk[p] <= now
  BY ScoreRange DEF FirstFile, Never
<1>2. disk'[p] <= now'
  BY <1>1 DEF Never
<1>3. stores'[p] = 0 => Untouched(p)'
  <2> SUFFICES ASSUME stores'[p] = 0 PROVE Untouched(p)'
    OBVIOUS
  <2>1. Untouched(p)
    BY DEF FirstFile
  <2> QED
    BY <2>1 DEF Untouched, Exists
<1>4. stores'[p] = 1 /\ Exists(p)' =>
          /\ zset'[p] # Never => zset'[p] >= disk'[p] + Keep
          /\ ToSend(p)' \/ Sent(p)' \/ HasJob(p)' => now' >= disk'[p] + Keep
  <2> SUFFICES ASSUME stores'[p] = 1, Exists(p)'
               PROVE  /\ zset'[p] # Never => zset'[p] >= disk'[p] + Keep
                      /\ ToSend(p)' \/ Sent(p)' \/ HasJob(p)' => now' >= disk'[p] + Keep
    OBVIOUS
  <2>1. stores[p] = 1 /\ Exists(p) /\ disk'[p] = disk[p]
    BY DEF Exists
  <2>2. /\ zset[p] # Never => zset[p] >= disk[p] + Keep
        /\ ToSend(p) \/ Sent(p) \/ HasJob(p) => now >= disk[p] + Keep
    BY <2>1 DEF FirstFile
  <2>3. Keep \in Nat
    BY CleanerAssumption
  <2> QED
    BY <1>1, <2>1, <2>2, <2>3
<1> QED
  BY <1>2, <1>3, <1>4 DEF FirstFile

LEMMA FirstFilesStep ==
    ASSUME Typed, Shape, FirstFiles, Next
    PROVE  FirstFiles'
<1> DEFINE OnWay(m) == ToSend(m) \/ Sent(m) \/ HasJob(m)
           OnWayNext(m) == ToSend(m)' \/ Sent(m)' \/ HasJob(m)'
<1> SUFFICES ASSUME NEW p \in Paths PROVE FirstFile(p)'
  BY DEF FirstFiles
<1>1. /\ now \in Nat /\ disk[p] \in Scores \cup {Never} /\ stores[p] \in Nat
      /\ disk \in [Paths -> Scores \cup {Never}] /\ stores \in [Paths -> Nat]
      /\ zset \in [Members -> Scores \cup {Never}]
  BY DEF Typed
<1>2. SweepShape /\ StageFits /\ FirstFile(p) /\ p \in Members /\ p \notin Gids
  BY MembersApart DEF Shape, FirstFiles
<1>3. now' \in Nat /\ now' >= now
  <2>1. now' \in Nat
    BY TypesStep DEF Typed
  <2>2. now' = now \/ now' = now + 1
    BY DEF Next, Tick, Work, Handle, Sweep, BatchFails, Restart, Store, StartDownload, Notified,
           Elect, Unsettle, SweepFails, CleanerCrash, Schedule, LoseReport, PollCommands, Trim,
           Unlink, Lookup, Clean, RetryDecided, ReadDue, RemoveSwept, SendCommand
  <2> QED
    BY <1>1, <2>1, <2>2
<1>4. UNCHANGED heard => \A c \in Cleaners : \A i \in DOMAIN heard'[c] :
          heard'[c][i] = p => \E k \in DOMAIN heard[c] : heard[c][k] = p
  OBVIOUS
<1>5. UNCHANGED <<sweep, stream, jobs>> => (OnWayNext(p) => OnWay(p))
  BY DEF ToSend, Sent, HasJob
<1>6. CASE Tick
  BY <1>1, <1>2, <1>3, <1>4, <1>5, <1>6, QuietPath DEF Tick, cleaners, worker
<1>7. CASE PollCommands
  <2>1. HasJob(p)' => HasJob(p) \/ Sent(p)
    BY <1>7, PollTakes DEF Unread, Sent
  <2>2. OnWayNext(p) => OnWay(p)
    BY <1>7, <2>1 DEF PollCommands, ToSend, Sent, cleaners
  <2> QED
    BY <1>1, <1>2, <1>3, <1>4, <1>7, <2>2, QuietPath DEF PollCommands, cleaners
<1>8. CASE Trim
  <2>1. OnWayNext(p) => OnWay(p)
    BY <1>8, TrimDrops DEF Trim, ToSend, HasJob, cleaners
  <2> QED
    BY <1>1, <1>2, <1>3, <1>4, <1>8, <2>1, QuietPath DEF Trim, cleaners
<1>9. CASE BatchFails
  <2>1. OnWayNext(p) => OnWay(p)
    BY <1>2, <1>9, FailOrphans DEF BatchFails, ToSend, Sent, cleaners
  <2> QED
    BY <1>1, <1>2, <1>3, <1>4, <1>9, <2>1, QuietPath DEF BatchFails, cleaners
<1>10. CASE Restart
  <2>1. OnWayNext(p) => OnWay(p)
    BY <1>10 DEF Restart, ToSend, Sent, HasJob, NoJobs, cleaners
  <2> QED
    BY <1>1, <1>2, <1>3, <1>4, <1>10, <2>1, QuietPath DEF Restart, cleaners
<1>11. ASSUME NEW q \in Paths, Store(q) PROVE FirstFile(p)'
  <2>1. CASE q # p
    <3>1. /\ disk'[p] = disk[p] /\ stores'[p] = stores[p] /\ zset'[p] = zset[p]
      BY <1>1, <1>11, <2>1 DEF Store
    <3>2. \A c \in Cleaners : \A i \in DOMAIN heard'[c] :
              heard'[c][i] = p => \E k \in DOMAIN heard[c] : heard[c][k] = p
      BY <1>11, <2>1, StoreTells
    <3>3. OnWayNext(p) => OnWay(p)
      BY <1>5, <1>11 DEF Store, worker
    <3> QED
      BY <1>1, <1>2, <1>3, <3>1, <3>2, <3>3, QuietPath
  <2>2. CASE q = p
    <3>1. /\ disk'[p] = now /\ now' = now /\ stores'[p] = stores[p] + 1 /\ zset'[p] = zset[p]
      BY <1>1, <1>11, <2>2 DEF Store
    <3>2. OnWayNext(p) => OnWay(p)
      BY <1>5, <1>11 DEF Store, worker
    <3>3. stores'[p] # 0 /\ (stores'[p] = 1 => stores[p] = 0)
      BY <1>1, <3>1
    <3>4. stores'[p] = 1 => zset'[p] = Never /\ ~OnWayNext(p)
      BY <1>2, <3>1, <3>2, <3>3 DEF FirstFile, Untouched
    <3>5. disk'[p] <= now'
      BY <1>1, <3>1
    <3> HIDE DEF OnWay, OnWayNext
    <3> QED
      BY <3>3, <3>4, <3>5 DEF FirstFile, OnWayNext
  <2> QED
    BY <2>1, <2>2
<1>12. ASSUME NEW g \in Gids, StartDownload(g) \/ Notified(g) PROVE FirstFile(p)'
  <2>1. zset'[p] = zset[p]
    BY <1>1, <1>2, <1>12 DEF StartDownload, Notified
  <2>2. UNCHANGED <<disk, stores, heard, sweep, stream, jobs>>
    BY <1>12 DEF StartDownload, Notified, worker
  <2> QED
    BY <1>1, <1>2, <1>3, <1>4, <1>5, <2>1, <2>2, QuietPath
<1>13. ASSUME NEW c \in Cleaners, Elect(c) \/ Unsettle(c) PROVE FirstFile(p)'
  <2>1. UNCHANGED <<disk, stores, zset, heard, sweep, stream, jobs>>
    BY <1>13 DEF Elect, Unsettle, worker
  <2> QED
    BY <1>1, <1>2, <1>3, <1>4, <1>5, <2>1, QuietPath
<1>14. ASSUME NEW c \in Cleaners, ReadDue(c) PROVE FirstFile(p)'
  <2>1. UNCHANGED <<now, disk, stores, zset, heard, stream, jobs>>
    BY <1>14 DEF ReadDue, worker
  <2>2. ToSend(p)' => ToSend(p) \/ (zset[p] # Never /\ zset[p] <= now)
    BY <1>2, <1>14, ReadTakes, ReadReads
  <2>3. (Sent(p)' => Sent(p)) /\ (HasJob(p)' => HasJob(p))
    BY <2>1 DEF Sent, HasJob
  <2>4. stores[p] = 0 => Untouched(p)'
    BY <1>2, <2>1, <2>2, <2>3 DEF FirstFile, Untouched, Exists
  <2>5. stores[p] = 1 /\ Exists(p) =>
            /\ zset[p] # Never => zset[p] >= disk[p] + Keep
            /\ ToSend(p)' \/ Sent(p)' \/ HasJob(p)' => now >= disk[p] + Keep
    <3>1. disk[p] + Keep \in Int /\ (zset[p] # Never => zset[p] \in Int)
      BY <1>1, <1>2, CleanerAssumption, ScoreRange DEF Never
    <3> QED
      BY <1>1, <1>2, <2>2, <2>3, <3>1 DEF FirstFile
  <2> QED
    BY <1>2, <2>1, <2>4, <2>5 DEF FirstFile, Exists
<1>15. ASSUME NEW c \in Cleaners, NEW m \in Members, SendCommand(c, m) PROVE FirstFile(p)'
  <2>1. UNCHANGED <<now, disk, stores, zset, heard, jobs>>
    BY <1>15 DEF SendCommand, worker
  <2>2. OnWayNext(p) => OnWay(p)
    <3>1. HasJob(p)' => HasJob(p)
      BY <2>1 DEF HasJob
    <3> QED
      BY <1>2, <1>15, <3>1, SendMoves
  <2> QED
    BY <1>1, <1>2, <1>3, <1>4, <2>1, <2>2, QuietPath
<1>16. ASSUME NEW c \in Cleaners, RemoveSwept(c) PROVE FirstFile(p)'
  <2>1. UNCHANGED <<now, disk, stores, heard, stream, jobs>>
    BY <1>16 DEF RemoveSwept, worker
  <2>2. zset'[p] \in {zset[p], Never}
    BY <1>2, <1>16 DEF RemoveSwept
  <2>3. OnWayNext(p) => OnWay(p)
    <3>1. (HasJob(p)' => HasJob(p)) /\ (Sent(p)' => Sent(p))
      BY <2>1 DEF HasJob, Sent
    <3> QED
      BY <1>2, <1>16, <3>1, EndDrops DEF RemoveSwept
  <2> QED
    BY <1>1, <1>2, <1>3, <1>4, <2>1, <2>2, <2>3, QuietPath
<1>17. ASSUME NEW c \in Cleaners, SweepFails(c) \/ CleanerCrash(c) PROVE FirstFile(p)'
  <2>1. UNCHANGED <<now, disk, stores, zset, stream, jobs>>
    BY <1>17 DEF SweepFails, CleanerCrash, worker
  <2>2. heard \in [Cleaners -> Seq(Paths)]
    BY DEF Typed
  <2>3. \A d \in Cleaners : heard'[d] = heard[d] \/ heard'[d] = <<>>
    BY <1>17, <2>2 DEF SweepFails, CleanerCrash
  <2>4. \A d \in Cleaners : \A i \in DOMAIN heard'[d] :
            heard'[d][i] = p => \E k \in DOMAIN heard[d] : heard[d][k] = p
    BY <2>3
  <2>5. OnWayNext(p) => OnWay(p)
    <3>1. (HasJob(p)' => HasJob(p)) /\ (Sent(p)' => Sent(p))
      BY <2>1 DEF HasJob, Sent
    <3> QED
      BY <1>2, <1>17, <3>1, EndDrops DEF SweepFails, CleanerCrash
  <2> QED
    BY <1>1, <1>2, <1>3, <2>1, <2>4, <2>5, QuietPath
<1>18. ASSUME NEW c \in Cleaners, Schedule(c) \/ LoseReport(c) PROVE FirstFile(p)'
  <2>1. UNCHANGED <<now, disk, stores, sweep, stream, jobs>>
    BY <1>18 DEF Schedule, LoseReport, worker
  <2>2. /\ heard[c] # <<>> /\ heard' = [heard EXCEPT ![c] = Tail(@)]
    BY <1>18 DEF Schedule, LoseReport
  <2>3. /\ Head(heard[c]) \in Paths /\ 1 \in DOMAIN heard[c] /\ heard[c][1] = Head(heard[c])
        /\ \A d \in Cleaners : \A i \in DOMAIN heard'[d] :
              \E k \in DOMAIN heard[d] : heard[d][k] = heard'[d][i]
    BY <2>2, HearsTail
  <2>4. CASE zset'[p] = zset[p]
    BY <1>1, <1>2, <1>3, <1>5, <2>1, <2>3, <2>4, QuietPath
  <2>5. CASE zset'[p] # zset[p]
    <3>1. Head(heard[c]) = p /\ zset'[p] = now + Keep
      BY <1>1, <1>2, <1>18, <2>5 DEF Schedule, LoseReport, DecideSchedule
    <3>2. stores[p] # 0
      BY <1>2, <2>3, <3>1 DEF FirstFile, Untouched
    <3>3. now + Keep >= disk[p] + Keep /\ disk[p] <= now
      BY <1>1, <1>2, CleanerAssumption, ScoreRange DEF FirstFile, Never
    <3>4. OnWayNext(p) => OnWay(p)
      BY <1>5, <2>1
    <3> QED
      BY <1>2, <2>1, <3>1, <3>2, <3>3, <3>4 DEF FirstFile, Exists
  <2> QED
    BY <2>4, <2>5
<1>19. ASSUME NEW j \in Job, Handle(j) PROVE FirstFile(p)'
  <2>1. UNCHANGED <<now, stores, zset, heard, sweep, stream>>
    BY <1>19 DEF Handle, Unlink, Lookup, Clean, RetryDecided, cleaners
  <2>2. disk'[p] \in {disk[p], Never}
    BY <1>1, <1>19 DEF Handle, Unlink, Lookup, Clean, RetryDecided
  <2>3. HasJob(p)' => HasJob(p)
    BY <1>2, <1>19, HandlersMove, MovesKeepJobs DEF Handle
  <2>4. OnWayNext(p) => OnWay(p)
    BY <2>1, <2>3 DEF ToSend, Sent
  <2> QED
    BY <1>1, <1>2, <1>3, <1>4, <2>1, <2>2, <2>4, QuietPath
<1> QED
  BY <1>6, <1>7, <1>8, <1>9, <1>10, <1>11, <1>12, <1>13, <1>14, <1>15, <1>16, <1>17, <1>18, <1>19
  DEF Next, Work, Sweep
-----------------------------------------------------------------------------
(* As long as nothing is upset a cancel acts once                          *)

\* While one process sweeps, whoever reads what is due finds nothing taken, and
\* whoever sends is the only one to send.
LEMMA ReaderIsAlone ==
    ASSUME Typed, SweepShape, OneSweeper, NEW c \in Cleaners, ReadDue(c)
    PROVE  \A m : ~Taken(m) /\ ~ToSend(m)
<1>1. /\ sweep[c].stage \in {"idle", "between"} /\ sweep[c].todo = {} /\ sweep[c].taken = {}
      /\ sweep[c].stage = "idle" => c \in primary
  BY ReadReads
<1>2. \A d \in Cleaners : sweep[d].stage # "idle" => d = c
  BY <1>1 DEF OneSweeper
<1>3. \A d \in Cleaners : sweep[d].todo = {} /\ sweep[d].taken = {}
  BY <1>1, <1>2 DEF SweepShape
<1> QED
  BY <1>3 DEF Taken, ToSend

LEMMA SenderIsAlone ==
    ASSUME Typed, SweepShape, OneSweeper, NEW c \in Cleaners, NEW m \in Members, SendCommand(c, m)
    PROVE  ~ToSend(m)' /\ Taken(m)'
<1>1. /\ sweep[c].stage # "idle" /\ m \in sweep[c].todo /\ sweep'[c].todo = sweep[c].todo \ {m}
      /\ \A d \in Cleaners \ {c} : sweep'[d] = sweep[d]
  BY SendTakes
<1>2. \A d \in Cleaners : d # c => sweep[d].stage = "idle"
  BY <1>1 DEF OneSweeper
<1>3. \A d \in Cleaners : m \notin sweep'[d].todo
  BY <1>1, <1>2 DEF SweepShape
<1>4. Taken(m)
  BY <1>1 DEF SweepShape, Taken
<1> QED
  BY <1>3, <1>4, SendMoves DEF ToSend

LEMMA CancelsStep ==
    ASSUME Typed, Shape, Cancels, Next, upsets' = 0
    PROVE  Cancels'
<1>1. /\ upsets \in Nat /\ jobs \in [Job -> Nat] /\ acted \in [Gids -> Nat] /\ batch \in Nat
      /\ zset \in [Members -> Scores \cup {Never}]
      /\ download \in [Gids -> {"new", "open", "acked"}]
  BY DEF Typed
<1>2. /\ OneSweeper /\ BatchOwnsJobs /\ SoleJobs(Gids) /\ NewIsUnset /\ UntoldIsUnsent
      /\ SentOnce /\ ActedIsOver /\ SweepShape /\ StageFits
  BY DEF Cancels, Shape
<1>3. ~Upset
  BY <1>1 DEF Upset
<1>4. UNCHANGED <<primary, sweep>> => OneSweeper'
  BY <1>2 DEF OneSweeper
<1>5. UNCHANGED <<jobs, batch>> => BatchOwnsJobs'
  BY <1>2 DEF BatchOwnsJobs
<1>6. UNCHANGED jobs => SoleJobs(Gids)'
  BY <1>2 DEF SoleJobs
<1>7. UNCHANGED <<download, zset, sweep>> => NewIsUnset' /\ \A g : Untold(g)' => Untold(g)
  BY <1>2 DEF NewIsUnset, Untold, ToSend, Taken
<1>8. UNCHANGED <<stream, jobs, acted>> /\ (\A g \in Gids : Untold(g)' => Untold(g))
          => UntoldIsUnsent'
  BY <1>2 DEF UntoldIsUnsent, Sent, HasJob
<1>9. UNCHANGED stream => SentOnce'
  BY <1>2 DEF SentOnce
<1>10. UNCHANGED <<acted, download, jobs>> => ActedIsOver'
  BY <1>2 DEF ActedIsOver, Acted
<1>11. CASE Tick \/ (\E p \in Paths : Store(p))
  <2>1. UNCHANGED <<primary, sweep, jobs, batch, download, zset, stream, acted>>
    BY <1>11 DEF Tick, Store, cleaners, worker
  <2> QED
    BY <1>4, <1>5, <1>6, <1>7, <1>8, <1>9, <1>10, <2>1 DEF Cancels
<1>12. CASE PollCommands
  <2>1. UNCHANGED <<primary, sweep, download, zset, stream, acted>>
    BY <1>12 DEF PollCommands, cleaners
  <2>2. \A j \in Job : jobs[j] = 0
    <3>1. batch = 0
      BY <1>12, PollStarts
    <3> QED
      BY <1>1, <1>2, <3>1 DEF BatchOwnsJobs
  <2>3. /\ batch' # 0 /\ jobs' \in [Job -> Nat]
        /\ \A j \in Job : jobs'[j] > 0 => j.awaited /\ j.stage = FirstStage(j.m)
    BY <1>1, <1>12, <2>2, PollStarts DEF Typed
  <2>4. BatchOwnsJobs'
    BY <2>3 DEF BatchOwnsJobs
  <2>5. SoleJobs(Gids)'
    <3> SUFFICES ASSUME NEW j \in Job, NEW k \in Job, jobs'[j] > 0, jobs'[k] > 0, j.m = k.m,
                        j.m \in Gids
                 PROVE  j = k /\ jobs'[j] = 1
      BY DEF SoleJobs
    <3>1. j = k
      BY <2>3, SameJob, JobFields
    <3>2. jobs'[j] <= jobs[j] + 1
      <4>1. \A i, l \in DOMAIN stream : stream[i] = j.m /\ stream[l] = j.m => i = l
        BY <1>2 DEF SentOnce
      <4> QED
        BY <1>12, <4>1, PollStarts
    <3> QED
      BY <2>2, <2>3, <3>1, <3>2
  <2>6. UntoldIsUnsent'
    <3>1. \A g : HasJob(g)' => HasJob(g) \/ Sent(g)
      BY <1>12, PollTakes DEF Unread, Sent
    <3> QED
      BY <1>2, <1>7, <2>1, <3>1 DEF UntoldIsUnsent, Sent
  <2>7. ActedIsOver'
    <3>1. \A j \in Job : jobs'[j] > 0 => j.stage # "clean"
      BY <2>3 DEF FirstStage
    <3> QED
      BY <1>2, <2>1, <3>1 DEF ActedIsOver, Acted
  <2> QED
    BY <1>4, <1>7, <1>9, <2>1, <2>4, <2>5, <2>6, <2>7 DEF Cancels
<1>13. CASE Trim
  <2>1. UNCHANGED <<primary, sweep, jobs, download, zset, acted>>
    BY <1>13 DEF Trim, cleaners
  <2>2. \A j \in Job : jobs[j] = 0
    BY <1>1, <1>2, <1>13 DEF Trim, Settled, BatchOwnsJobs
  <2>3. BatchOwnsJobs'
    BY <2>1, <2>2 DEF BatchOwnsJobs
  <2>4. UntoldIsUnsent'
    <3>1. \A g : HasJob(g)' => HasJob(g)
      BY <2>1 DEF HasJob
    <3> QED
      BY <1>2, <1>7, <1>13, <2>1, <3>1, TrimDrops DEF UntoldIsUnsent
  <2>5. SentOnce'
    <3> SUFFICES ASSUME NEW i \in DOMAIN stream', NEW k \in DOMAIN stream',
                        stream'[i] = stream'[k], stream'[i] \in Gids
                 PROVE  i = k
      BY DEF SentOnce
    <3>1. /\ batch \in Nat /\ i \in Int /\ k \in Int
          /\ batch + i - 1 \in DOMAIN stream /\ stream'[i] = stream[batch + i - 1]
          /\ batch + k - 1 \in DOMAIN stream /\ stream'[k] = stream[batch + k - 1]
      BY <1>1, <1>13, TrimShifts
    <3>2. batch + i - 1 = batch + k - 1
      BY <1>2, <3>1 DEF SentOnce
    <3> QED
      BY <3>1, <3>2
  <2> QED
    BY <1>4, <1>6, <1>7, <1>10, <2>1, <2>3, <2>4, <2>5 DEF Cancels
<1>14. CASE Restart
  <2>1. UNCHANGED <<primary, sweep, download, zset, stream, acted>> /\ jobs' = NoJobs
    BY <1>14 DEF Restart, cleaners
  <2>2. \A j \in Job : jobs'[j] = 0
    BY <2>1 DEF NoJobs
  <2>3. BatchOwnsJobs' /\ SoleJobs(Gids)' /\ (\A g : ~HasJob(g)')
    BY <2>2 DEF BatchOwnsJobs, SoleJobs, HasJob
  <2>4. UntoldIsUnsent'
    BY <1>2, <1>7, <2>1, <2>3 DEF UntoldIsUnsent, Sent
  <2>5. ActedIsOver'
    BY <1>2, <2>1, <2>2 DEF ActedIsOver, Acted
  <2> QED
    BY <1>4, <1>7, <1>9, <2>1, <2>3, <2>4, <2>5 DEF Cancels
<1>15. ASSUME NEW g \in Gids, StartDownload(g) PROVE Cancels'
  <2>1. /\ UNCHANGED <<primary, sweep, jobs, batch, stream, acted>>
        /\ download[g] = "new" /\ download'[g] = "open"
        /\ \A h \in Gids \ {g} : download'[h] = download[h] /\ zset'[h] = zset[h]
    BY <1>1, <1>15 DEF StartDownload, worker
  <2>2. NewIsUnset'
    BY <1>2, <2>1 DEF NewIsUnset, ToSend
  <2>3. \A h \in Gids : Untold(h)' => Untold(h)
    BY <2>1 DEF Untold, ToSend, Taken
  <2>4. ActedIsOver'
    <3>1. acted[g] = 0
      BY <1>2, <2>1 DEF UntoldIsUnsent, Untold
    <3> QED
      BY <1>2, <2>1, <3>1 DEF ActedIsOver, Acted
  <2> QED
    BY <1>4, <1>5, <1>6, <1>8, <1>9, <2>1, <2>2, <2>3, <2>4 DEF Cancels
<1>16. ASSUME NEW g \in Gids, Notified(g) PROVE Cancels'
  <2>1. /\ UNCHANGED <<primary, sweep, jobs, batch, stream, acted>>
        /\ download[g] = "open" /\ download'[g] = "acked"
        /\ \A h \in Gids \ {g} : download'[h] = download[h] /\ zset'[h] = zset[h]
        /\ zset'[g] \in {zset[g], Never}
    BY <1>1, <1>16, MembersApart DEF Notified, worker
  <2>2. NewIsUnset'
    BY <1>2, <2>1 DEF NewIsUnset, ToSend
  <2>3. \A h \in Gids : Untold(h)' => Untold(h)
    BY <2>1 DEF Untold, ToSend, Taken
  <2>4. ActedIsOver'
    BY <1>2, <2>1 DEF ActedIsOver, Acted
  <2> QED
    BY <1>4, <1>5, <1>6, <1>8, <1>9, <2>1, <2>2, <2>3, <2>4 DEF Cancels
<1>17. ASSUME NEW c \in Cleaners, Elect(c) PROVE Cancels'
  <2>1. UNCHANGED <<sweep, jobs, batch, download, zset, stream, acted>>
    BY <1>17 DEF Elect, worker
  <2>2. OneSweeper'
    BY <1>2, <1>17, <2>1 DEF OneSweeper, Elect
  <2> QED
    BY <1>5, <1>6, <1>7, <1>8, <1>9, <1>10, <2>1, <2>2 DEF Cancels
<1>18. ASSUME NEW c \in Cleaners, ReadDue(c) PROVE Cancels'
  <2>1. UNCHANGED <<primary, jobs, batch, download, zset, stream, acted>>
    BY <1>18 DEF ReadDue, worker
  <2>2. /\ sweep[c].stage = "idle" => c \in primary
        /\ \A d \in Cleaners \ {c} : sweep'[d] = sweep[d]
        /\ \A m \in sweep'[c].todo : zset[m] # Never
    BY <1>2, <1>18, ReadReads
  <2>3. OneSweeper'
    <3>1. primary = {c}
      BY <1>2, <2>2 DEF OneSweeper
    <3> QED
      BY <1>2, <2>1, <2>2, <3>1 DEF OneSweeper
  <2>4. /\ \A m : ~Taken(m) /\ ~ToSend(m)
        /\ \A m : (ToSend(m)' \/ Taken(m)') => zset[m] # Never
        /\ \A m : ToSend(m)' => zset[m] # Never
    BY <1>2, <1>18, <2>2, ReaderIsAlone, ReadTakes
  <2>5. NewIsUnset'
    BY <1>2, <2>1, <2>4 DEF NewIsUnset
  <2>6. \A g \in Gids : Untold(g)' => Untold(g)
    BY <2>1, <2>4 DEF Untold
  <2> QED
    BY <1>5, <1>6, <1>8, <1>9, <1>10, <2>1, <2>3, <2>5, <2>6 DEF Cancels
<1>19. ASSUME NEW c \in Cleaners, NEW m \in Members, SendCommand(c, m) PROVE Cancels'
  <2>1. UNCHANGED <<primary, jobs, batch, download, zset, acted>>
    BY <1>19 DEF SendCommand, worker
  <2>2. OneSweeper'
    <3>1. \A d \in Cleaners : sweep'[d].stage = sweep[d].stage
      BY <1>2, <1>19, SendTakes
    <3> QED
      BY <1>2, <2>1, <3>1 DEF OneSweeper
  <2>3. /\ ToSend(m) /\ ~ToSend(m)' /\ Taken(m)'
        /\ \A k : ToSend(k)' => ToSend(k)
        /\ \A k : Taken(k)' <=> Taken(k)
        /\ \A k : Sent(k)' <=> Sent(k) \/ k = m
    BY <1>2, <1>19, SenderIsAlone, SendMoves
  <2>4. NewIsUnset'
    BY <1>2, <2>1, <2>3 DEF NewIsUnset
  <2>5. UntoldIsUnsent'
    <3> SUFFICES ASSUME NEW g \in Gids, Untold(g)' PROVE ~Sent(g)' /\ ~HasJob(g)' /\ acted'[g] = 0
      BY DEF UntoldIsUnsent
    <3>1. g # m
      BY <1>2, <2>1, <2>3 DEF Untold, NewIsUnset
    <3>2. Untold(g)
      BY <2>1, <2>3 DEF Untold
    <3> QED
      BY <1>2, <2>1, <2>3, <3>1, <3>2 DEF UntoldIsUnsent, HasJob
  <2>6. SentOnce'
    <3>1. m \in Gids => ~Sent(m)
      BY <1>2, <2>3 DEF UntoldIsUnsent, Untold
    <3>2. /\ DOMAIN stream' = DOMAIN stream \cup {Len(stream) + 1}
          /\ stream'[Len(stream) + 1] = m
          /\ \A i \in DOMAIN stream : stream'[i] = stream[i]
      BY <1>19, SendAppends
    <3> QED
      BY <1>2, <3>1, <3>2 DEF SentOnce, Sent
  <2> QED
    BY <1>5, <1>6, <1>10, <2>1, <2>2, <2>4, <2>5, <2>6 DEF Cancels
<1>20. ASSUME NEW c \in Cleaners, RemoveSwept(c) PROVE Cancels'
  <2>1. UNCHANGED <<primary, jobs, batch, download, stream, acted>>
    BY <1>20 DEF RemoveSwept, worker
  <2>2. /\ sweep'[c].stage # "idle" => sweep[c].stage # "idle"
        /\ \A d \in Cleaners \ {c} : sweep'[d] = sweep[d]
        /\ \A m : ToSend(m)' => ToSend(m)
        /\ \A m : Taken(m) => Taken(m)' \/ \E t \in sweep[c].taken : t[1] = m
    BY <1>2, <1>20, SweepEnds, EndDrops DEF RemoveSwept
  <2>3. OneSweeper'
    BY <1>2, <2>1, <2>2 DEF OneSweeper
  <2>4. \A g \in Gids : zset'[g] = IF \E t \in sweep[c].taken : t[1] = g THEN Never ELSE zset[g]
    BY <1>20, MembersApart DEF RemoveSwept
  <2>5. NewIsUnset'
    BY <1>2, <2>1, <2>2, <2>4 DEF NewIsUnset
  <2>6. \A g \in Gids : Untold(g)' => Untold(g)
    BY <2>1, <2>2, <2>4 DEF Untold
  <2> QED
    BY <1>5, <1>6, <1>8, <1>9, <1>10, <2>1, <2>3, <2>5, <2>6 DEF Cancels
<1>21. ASSUME NEW c \in Cleaners, Schedule(c) PROVE Cancels'
  <2>1. UNCHANGED <<primary, sweep, jobs, batch, download, stream, acted>>
    BY <1>21 DEF Schedule, worker
  <2>2. Head(heard[c]) \in Paths
    BY <1>21, HearsTail DEF Schedule
  <2>3. \A g \in Gids : zset'[g] = zset[g]
    BY <1>1, <1>21, <2>2, MembersApart DEF Schedule, DecideSchedule
  <2>4. NewIsUnset' /\ \A g \in Gids : Untold(g)' => Untold(g)
    BY <1>2, <2>1, <2>3 DEF NewIsUnset, Untold, ToSend, Taken
  <2> QED
    BY <1>4, <1>5, <1>6, <1>8, <1>9, <1>10, <2>1, <2>4 DEF Cancels
<1>22. ASSUME NEW j \in Job, Handle(j) PROVE Cancels'
  <2>1. UNCHANGED <<primary, sweep, zset, stream, batch>>
    BY <1>22 DEF Handle, Unlink, Lookup, Clean, RetryDecided, cleaners
  <2>2. Moves(j)
    BY <1>22, HandlersMove DEF Handle
  <2>3. BatchOwnsJobs' /\ SoleJobs(Gids)' /\ \A m : HasJob(m)' => HasJob(m)
    BY <1>2, <2>1, <2>2, MovesKeepJobs
  <2>4. jobs[j] > 0
    BY <2>2 DEF Moves, Running
  <2>5. CASE Clean(j)
    <3>1. j.m \in Gids /\ j.stage = "clean"
      BY <1>2, <1>22, <2>4, <2>5, JobFields DEF StageFits, Clean, Members
    <3>2. /\ download' = [download EXCEPT ![j.m] = "acked"]
          /\ acted' = [acted EXCEPT ![j.m] = @ + 1]
      BY <2>5 DEF Clean
    <3>3. acted[j.m] = 0
      BY <1>1, <1>2, <2>4, <3>1 DEF ActedIsOver, Acted
    <3>4. \A k \in Job : k.m = j.m /\ jobs'[k] > 0 => k.stage # "clean"
      <4> SUFFICES ASSUME NEW k \in Job, k.m = j.m, k.stage = "clean" PROVE ~(jobs'[k] > 0)
        OBVIOUS
      <4> DEFINE n == [j EXCEPT !.stage = "act"]
      <4>1. n \in Job /\ n.stage = "act" /\ n # j /\ n # k
        BY <3>1 DEF Job
      <4>2. jobs' = [jobs EXCEPT ![j] = @ - 1, ![n] = @ + 1]
        BY <2>5 DEF Clean, Reaches
      <4> HIDE DEF n
      <4>3. jobs'[k] = IF k = j THEN jobs[j] - 1 ELSE jobs[k]
        BY <1>1, <4>1, <4>2
      <4>4. jobs[j] = 1 /\ (k # j => jobs[k] = 0)
        BY <1>1, <1>2, <2>4, <3>1 DEF SoleJobs
      <4> QED
        BY <4>3, <4>4
    <3>5. ActedIsOver'
      <4> SUFFICES ASSUME NEW g \in Gids PROVE Acted(g)'
        BY DEF ActedIsOver
      <4>1. CASE g = j.m
        <5>1. acted'[g] = 1 /\ download'[g] = "acked"
          BY <1>1, <3>2, <3>3, <4>1
        <5> QED
          BY <3>4, <4>1, <5>1 DEF Acted
      <4>2. CASE g # j.m
        <5>1. acted'[g] = acted[g] /\ download'[g] = download[g]
          BY <1>1, <3>2, <4>2
        <5>2. \A k \in Job : k.m # j.m => jobs'[k] = jobs[k]
          BY <2>2, HandlerMoves DEF Moved
        <5> QED
          BY <1>2, <4>2, <5>1, <5>2 DEF ActedIsOver, Acted
      <4> QED
        BY <4>1, <4>2
    <3>6. \A g \in Gids : /\ download'[g] = "new" => download[g] = "new"
                          /\ g # j.m => acted'[g] = acted[g]
      BY <1>1, <3>1, <3>2
    <3>7. NewIsUnset'
      BY <1>2, <2>1, <3>6 DEF NewIsUnset, ToSend
    <3>8. UntoldIsUnsent'
      <4>1. \A g \in Gids : Untold(g)' => Untold(g)
        BY <2>1, <3>6 DEF Untold, ToSend, Taken
      <4>2. HasJob(j.m)
        BY <2>4 DEF HasJob
      <4> QED
        BY <1>2, <2>1, <2>3, <3>6, <4>1, <4>2 DEF UntoldIsUnsent, Sent
    <3> QED
      BY <1>4, <1>9, <2>1, <2>3, <3>5, <3>7, <3>8 DEF Cancels
  <2>6. CASE Unlink(j) \/ Lookup(j) \/ RetryDecided(j)
    <3>1. UNCHANGED <<download, acted>>
      BY <2>6 DEF Unlink, Lookup, RetryDecided
    <3>2. UntoldIsUnsent'
      BY <1>2, <1>7, <2>1, <2>3, <3>1 DEF UntoldIsUnsent, Sent
    <3>3. ActedIsOver'
      <4> SUFFICES ASSUME NEW g \in Gids, acted[g] > 0, NEW k \in Job, jobs'[k] > 0, k.m = g,
                          k.stage = "clean"
                   PROVE  FALSE
        BY <1>2, <3>1 DEF ActedIsOver, Acted
      <4>1. jobs[k] = 0 /\ download[g] = "acked"
        BY <1>1, <1>2 DEF ActedIsOver, Acted
      <4>2. k.m = j.m /\ Reaches(j, "clean") /\ k # j
        BY <1>1, <2>2, <2>4, <4>1, HandlerMoves DEF Moved
      <4>3. k = [j EXCEPT !.stage = "clean"]
        <5> DEFINE n == [j EXCEPT !.stage = "clean"]
        <5>1. n \in Job
          BY DEF Job
        <5>2. jobs' = [jobs EXCEPT ![j] = @ - 1, ![n] = @ + 1]
          BY <4>2 DEF Reaches
        <5> HIDE DEF n
        <5>3. k # n => jobs'[k] = jobs[k]
          BY <1>1, <4>2, <5>1, <5>2
        <5>4. k = n
          BY <4>1, <5>3
        <5> QED
          BY <5>4 DEF n
      <4>4. ~Ends(j)
        <5> SUFFICES ASSUME Ends(j) PROVE FALSE
          OBVIOUS
        <5>1. jobs'[k] = jobs[k]
          BY <1>1, <4>2 DEF Ends
        <5> QED
          BY <4>1, <5>1
      <4>5. Lookup(j) /\ download[j.m] = "open"
        BY <2>6, <4>4 DEF Unlink, Lookup, RetryDecided
      <4> QED
        BY <4>1, <4>2, <4>5
    <3> QED
      BY <1>4, <1>7, <1>9, <2>1, <2>3, <3>1, <3>2, <3>3 DEF Cancels
  <2> QED
    BY <1>22, <2>5, <2>6 DEF Handle
<1>23. CASE Work
  BY <1>12, <1>13, <1>22, <1>23 DEF Work
<1>24. ASSUME NEW c \in Cleaners, Sweep(c) PROVE Cancels'
  BY <1>18, <1>19, <1>20, <1>24 DEF Sweep
<1>25. ~BatchFails /\ \A c \in Cleaners : ~(Unsettle(c) \/ SweepFails(c) \/ CleanerCrash(c) \/ LoseReport(c))
  BY <1>3 DEF BatchFails, Unsettle, SweepFails, CleanerCrash, LoseReport
<1> QED
  BY <1>11, <1>14, <1>15, <1>16, <1>17, <1>21, <1>23, <1>24, <1>25 DEF Next
-----------------------------------------------------------------------------
(* As long as nothing failed a command reaches the file it is about        *)

\* No file comes or goes, and nothing new is on its way.
LEMMA QuietFiles ==
    ASSUME ComingIsDue, now \in Nat, now' \in Nat, now' >= now, UNCHANGED disk,
           disk \in [Paths -> Scores \cup {Never}],
           \A p \in Paths : /\ Coming(p)' => Coming(p)
                            /\ zset'[p] # Never => zset[p] # Never
                            /\ zset'[p] # Never /\ Taken(p) => Taken(p)'
    PROVE  ComingIsDue'
<1> SUFFICES ASSUME NEW p \in Paths, Coming(p)'
             PROVE  Exists(p)' /\ now' >= disk'[p] + Keep /\ (zset'[p] # Never => Taken(p)')
  BY DEF ComingIsDue
<1>1. Exists(p) /\ now >= disk[p] + Keep /\ (zset[p] # Never => Taken(p))
  BY DEF ComingIsDue
<1>2. disk[p] \in Int /\ Keep \in Nat
  BY CleanerAssumption, ScoreRange DEF Never
<1> QED
  BY <1>1, <1>2 DEF Exists

LEMMA DeletesStep ==
    ASSUME Typed, Shape, Cancels, Deletes, Next, upsets' = 0, restarts' = 0
    PROVE  Deletes'
<1>1. /\ upsets \in Nat /\ restarts \in Nat /\ now \in Nat /\ batch \in Nat /\ cursor \in Nat
      /\ jobs \in [Job -> Nat] /\ stream \in Seq(Members)
      /\ disk \in [Paths -> Scores \cup {Never}] /\ zset \in [Members -> Scores \cup {Never}]
  BY DEF Typed
<1>2. /\ OneSweeper /\ BatchOwnsJobs /\ SweepShape /\ StageFits
      /\ ComingIsDue /\ ComingOnce /\ HeardIsFresh /\ ScheduledIsKept
  BY DEF Cancels, Shape, Deletes
<1>3. /\ \A p \in Paths : ToSend(p) => ~Unread(p) /\ ~HasJob(p)
      /\ \A p \in Paths : Unread(p) => ~HasJob(p)
      /\ \A i, k \in DOMAIN stream :
            i > DoneTo /\ k > DoneTo /\ stream[i] = stream[k] /\ stream[i] \in Paths => i = k
      /\ SoleJobs(Paths)
  BY <1>2 DEF ComingOnce
<1>4. ~Upset /\ ~Restart
  BY <1>1 DEF Upset, Restart
<1>5. \A p \in Paths : disk[p] \in Int /\ p \in Members /\ (zset[p] # Never => zset[p] \in Int)
  BY <1>1, MembersApart, ScoreRange DEF Never
<1>6. Keep \in Nat
  BY CleanerAssumption
<1>7. UNCHANGED <<sweep, stream, jobs, cursor, batch>> =>
          /\ ComingOnce' /\ \A m : Coming(m)' <=> Coming(m)
  BY <1>2 DEF ComingOnce, Coming, SoleJobs, ToSend, Unread, HasJob, DoneTo
<1>8. UNCHANGED <<heard, disk, now>> => HeardIsFresh'
  BY <1>2 DEF HeardIsFresh, Exists
<1>9. UNCHANGED <<zset, disk, sweep>> => ScheduledIsKept'
  BY <1>2 DEF ScheduledIsKept, Exists, Taken
<1>10. UNCHANGED sweep => \A m : Taken(m)' <=> Taken(m)
  BY DEF Taken
<1>11. CASE Tick
  <2>1. UNCHANGED <<disk, zset, heard, sweep, stream, jobs, cursor, batch>> /\ now' = now + 1
    BY <1>11 DEF Tick, cleaners, worker
  <2>2. HeardIsFresh'
    BY <1>11, <2>1 DEF Tick, HeardIsFresh
  <2>3. ComingIsDue'
    BY <1>1, <1>2, <1>7, <1>10, <2>1, QuietFiles
  <2> QED
    BY <1>7, <1>9, <2>1, <2>2, <2>3 DEF Deletes
<1>12. ASSUME NEW q \in Paths, Store(q) PROVE Deletes'
  <2>1. /\ UNCHANGED <<now, zset, sweep, stream, jobs, cursor, batch>>
        /\ disk[q] = Never /\ disk' = [disk EXCEPT ![q] = now]
    BY <1>12 DEF Store, worker
  <2>2. /\ disk'[q] = now /\ now # Never
        /\ \A p \in Paths : p # q => disk'[p] = disk[p]
    BY <1>1, <2>1 DEF Never
  <2>3. ~Coming(q) /\ (zset[q] # Never => Taken(q))
    BY <1>2, <2>1 DEF ComingIsDue, ScheduledIsKept, Exists
  <2>4. ComingIsDue'
    BY <1>2, <1>7, <1>10, <2>1, <2>2, <2>3 DEF ComingIsDue, Exists
  <2>5. ScheduledIsKept'
    BY <1>2, <1>10, <2>1, <2>2, <2>3 DEF ScheduledIsKept, Exists
  <2>6. HeardIsFresh'
    <3> SUFFICES ASSUME Keep > 0, NEW c \in Cleaners, NEW i \in DOMAIN heard'[c]
                 PROVE  disk'[heard'[c][i]] # Never /\ disk'[heard'[c][i]] = now'
      BY DEF HeardIsFresh, Exists
    <3>1. /\ heard'[c][i] = q \/ (i \in DOMAIN heard[c] /\ heard'[c][i] = heard[c][i])
          /\ heard'[c] \in Seq(Paths)
      BY <1>12, StoreTells
    <3>2. heard'[c][i] \in Paths
      BY <3>1, ElementOfSeq, LenProperties
    <3>3. heard'[c][i] = q \/ disk[heard'[c][i]] = now
      BY <1>2, <3>1 DEF HeardIsFresh
    <3>4. disk'[heard'[c][i]] = now
      BY <2>2, <3>2, <3>3
    <3> QED
      BY <2>1, <2>2, <3>4
  <2> QED
    BY <1>7, <2>1, <2>4, <2>5, <2>6 DEF Deletes
<1>13. ASSUME NEW g \in Gids, StartDownload(g) \/ Notified(g) PROVE Deletes'
  <2>1. UNCHANGED <<now, disk, heard, sweep, stream, jobs, cursor, batch>>
    BY <1>13 DEF StartDownload, Notified, worker
  <2>2. \A p \in Paths : zset'[p] = zset[p]
    BY <1>1, <1>13, MembersApart DEF StartDownload, Notified
  <2>3. ComingIsDue'
    BY <1>1, <1>2, <1>7, <1>10, <2>1, <2>2, QuietFiles
  <2>4. ScheduledIsKept'
    BY <1>2, <1>10, <2>1, <2>2 DEF ScheduledIsKept, Exists
  <2> QED
    BY <1>7, <1>8, <2>1, <2>3, <2>4 DEF Deletes
<1>14. ASSUME NEW c \in Cleaners, Elect(c) PROVE Deletes'
  <2>1. UNCHANGED <<now, disk, zset, heard, sweep, stream, jobs, cursor, batch>>
    BY <1>14 DEF Elect, worker
  <2>2. ComingIsDue'
    BY <1>1, <1>2, <1>7, <1>10, <2>1, QuietFiles
  <2> QED
    BY <1>7, <1>8, <1>9, <2>1, <2>2 DEF Deletes
<1>15. ASSUME NEW c \in Cleaners, Schedule(c) PROVE Deletes'
  <2> DEFINE q == Head(heard[c])
  <2>1. UNCHANGED <<now, disk, sweep, stream, jobs, cursor, batch>>
    BY <1>15 DEF Schedule, worker
  <2>2. /\ q \in Paths /\ 1 \in DOMAIN heard[c] /\ heard[c][1] = q
        /\ \A d \in Cleaners : \A i \in DOMAIN heard'[d] :
              \E k \in DOMAIN heard[d] : heard[d][k] = heard'[d][i]
    BY <1>15, HearsTail DEF Schedule
  <2>3. HeardIsFresh'
    BY <1>2, <2>1, <2>2 DEF HeardIsFresh, Exists
  <2>4. CASE zset' = zset
    <3>1. ComingIsDue'
      BY <1>1, <1>2, <1>7, <1>10, <2>1, <2>4, QuietFiles
    <3> QED
      BY <1>7, <1>9, <2>1, <2>3, <2>4, <3>1 DEF Deletes
  <2>5. CASE zset' # zset
    <3>1. Keep > 0 /\ zset' = [zset EXCEPT ![q] = now + Keep]
      <4>1. zset' = [zset EXCEPT ![q] = IF Keep > 0 THEN now + Keep ELSE @]
        BY <1>15, <2>5 DEF Schedule, DecideSchedule
      <4> QED
        BY <1>1, <2>5, <4>1
    <3>2. Exists(q) /\ disk[q] = now
      BY <1>2, <2>2, <3>1 DEF HeardIsFresh
    <3>3. ~Coming(q)
      <4>1. ~(now >= disk[q] + Keep)
        BY <1>1, <1>6, <3>1, <3>2
      <4> QED
        BY <1>2, <2>2, <4>1 DEF ComingIsDue
    <3>4. zset'[q] = now + Keep /\ \A p \in Paths : p # q => zset'[p] = zset[p]
      BY <1>1, <1>5, <2>2, <3>1
    <3> HIDE DEF q
    <3>5. ComingIsDue'
      BY <1>2, <1>7, <1>10, <2>1, <3>3, <3>4 DEF ComingIsDue, Exists
    <3>6. now + Keep >= disk[q] + Keep
      BY <1>1, <1>6, <3>2
    <3>7. ScheduledIsKept'
      BY <1>2, <1>10, <2>1, <3>2, <3>4, <3>6 DEF ScheduledIsKept, Exists
    <3> QED
      BY <1>7, <2>1, <2>3, <3>5, <3>7 DEF Deletes
  <2> QED
    BY <2>4, <2>5
<1>16. ASSUME NEW c \in Cleaners, ReadDue(c) PROVE Deletes'
  <2>1. UNCHANGED <<now, disk, zset, heard, stream, jobs, cursor, batch>>
    BY <1>16 DEF ReadDue, worker
  <2>2. /\ \A m : ~Taken(m) /\ ~ToSend(m)
        /\ \A m : ToSend(m)' => zset[m] # Never /\ zset[m] <= now /\ Taken(m)'
    <3>1. \A m : ToSend(m)' => m \in sweep'[c].todo /\ Taken(m)'
      BY <1>2, <1>16, ReaderIsAlone, ReadTakes
    <3> QED
      BY <1>2, <1>16, <3>1, ReaderIsAlone, ReadReads
  <2>3. \A m : /\ Unread(m)' <=> Unread(m)
               /\ HasJob(m)' <=> HasJob(m)
    BY <2>1 DEF Unread, HasJob, DoneTo
  <2>4. ASSUME NEW p \in Paths, ToSend(p)'
        PROVE  /\ Exists(p) /\ now >= disk[p] + Keep /\ Taken(p)'
               /\ ~Unread(p) /\ ~HasJob(p)
    <3>1. zset[p] # Never /\ zset[p] <= now /\ Taken(p)' /\ ~Taken(p)
      BY <2>2, <2>4
    <3>2. Exists(p) /\ zset[p] >= disk[p] + Keep
      BY <1>2, <3>1 DEF ScheduledIsKept
    <3>3. now >= disk[p] + Keep
      BY <1>1, <1>5, <1>6, <3>1, <3>2
    <3>4. ~Coming(p)
      BY <1>2, <3>1 DEF ComingIsDue
    <3> QED
      BY <3>1, <3>2, <3>3, <3>4 DEF Coming
  <2>5. ComingIsDue'
    <3> SUFFICES ASSUME NEW p \in Paths, Coming(p)'
                 PROVE  Exists(p)' /\ now' >= disk'[p] + Keep /\ (zset'[p] # Never => Taken(p)')
      BY DEF ComingIsDue
    <3>1. CASE ToSend(p)'
      BY <2>1, <2>4, <3>1 DEF Exists
    <3>2. CASE ~ToSend(p)'
      <4>1. Coming(p)
        BY <2>3, <3>2 DEF Coming
      <4>2. Exists(p) /\ now >= disk[p] + Keep /\ zset[p] = Never
        BY <1>2, <2>2, <4>1 DEF ComingIsDue
      <4> QED
        BY <2>1, <4>2 DEF Exists
    <3> QED
      BY <3>1, <3>2
  <2>6. ComingOnce'
    BY <1>3, <2>1, <2>3, <2>4 DEF ComingOnce, SoleJobs, DoneTo
  <2>7. ScheduledIsKept'
    BY <1>2, <2>1, <2>2 DEF ScheduledIsKept, Exists
  <2> QED
    BY <1>8, <2>1, <2>5, <2>6, <2>7 DEF Deletes
<1>17. ASSUME NEW c \in Cleaners, NEW m \in Members, SendCommand(c, m) PROVE Deletes'
  <2>1. UNCHANGED <<now, disk, zset, heard, jobs, cursor, batch>> /\ DoneTo' = DoneTo
    BY <1>17 DEF SendCommand, worker, DoneTo
  <2>2. /\ ToSend(m) /\ ~ToSend(m)'
        /\ \A k : ToSend(k)' => ToSend(k)
        /\ \A k : Taken(k)' <=> Taken(k)
    BY <1>2, <1>17, SenderIsAlone, SendMoves
  <2>3. /\ DOMAIN stream' = DOMAIN stream \cup {Len(stream) + 1}
        /\ stream'[Len(stream) + 1] = m
        /\ \A i \in DOMAIN stream : stream'[i] = stream[i]
    BY <1>17, SendAppends
  <2>4. \A k : HasJob(k)' <=> HasJob(k)
    BY <2>1 DEF HasJob
  <2>5. \A k : Unread(k)' => Unread(k) \/ k = m
    BY <2>1, <2>3 DEF Unread
  <2>6. \A k : Coming(k)' => Coming(k)
    BY <2>2, <2>4, <2>5 DEF Coming
  <2>7. ComingIsDue'
    BY <1>1, <1>2, <2>1, <2>2, <2>6, QuietFiles
  <2>8. ASSUME NEW i \in DOMAIN stream', NEW k \in DOMAIN stream',
               i > DoneTo, k > DoneTo, stream'[i] = stream'[k], stream'[i] \in Paths
        PROVE  i = k
    <3>1. m \in Paths => \A l \in DOMAIN stream : l > DoneTo => stream[l] # m
      BY <1>3, <2>2 DEF Unread
    <3> QED
      BY <1>3, <2>3, <2>8, <3>1
  <2>9. ComingOnce'
    <3>1. SoleJobs(Paths)'
      BY <1>3, <2>1 DEF SoleJobs
    <3>2. \A p \in Paths : ToSend(p)' => ~Unread(p)' /\ ~HasJob(p)'
      BY <1>3, <2>2, <2>4, <2>5
    <3>3. \A p \in Paths : Unread(p)' => ~HasJob(p)'
      BY <1>3, <2>2, <2>4, <2>5
    <3> QED
      BY <2>1, <2>8, <3>1, <3>2, <3>3 DEF ComingOnce
  <2>10. ScheduledIsKept'
    BY <1>2, <2>1, <2>2 DEF ScheduledIsKept, Exists
  <2> QED
    BY <1>8, <2>1, <2>7, <2>9, <2>10 DEF Deletes
<1>18. ASSUME NEW c \in Cleaners, RemoveSwept(c) PROVE Deletes'
  <2>1. UNCHANGED <<now, disk, heard, stream, jobs, cursor, batch>>
    BY <1>18 DEF RemoveSwept, worker
  <2>2. /\ \A m : ToSend(m)' => ToSend(m)
        /\ \A m : Taken(m) => Taken(m)' \/ \E t \in sweep[c].taken : t[1] = m
    BY <1>2, <1>18, EndDrops DEF RemoveSwept
  <2>3. \A p \in Paths : zset'[p] = IF \E t \in sweep[c].taken : t[1] = p THEN Never ELSE zset[p]
    BY <1>5, <1>18 DEF RemoveSwept
  <2>4. \A m : /\ Unread(m)' <=> Unread(m)
               /\ HasJob(m)' <=> HasJob(m)
    BY <2>1 DEF Unread, HasJob, DoneTo
  <2>5. \A m : Coming(m)' => Coming(m)
    BY <2>2, <2>4 DEF Coming
  <2>6. ComingIsDue'
    BY <1>1, <1>2, <2>1, <2>2, <2>3, <2>5, QuietFiles
  <2>7. ComingOnce'
    BY <1>3, <2>1, <2>2, <2>4 DEF ComingOnce, SoleJobs, DoneTo
  <2>8. ScheduledIsKept'
    BY <1>2, <2>1, <2>2, <2>3 DEF ScheduledIsKept, Exists
  <2> QED
    BY <1>8, <2>1, <2>6, <2>7, <2>8 DEF Deletes
<1>19. CASE PollCommands
  <2>1. UNCHANGED <<now, disk, zset, heard, sweep, stream>>
    BY <1>19 DEF PollCommands, cleaners
  <2>2. /\ batch = 0 /\ batch' \in Nat /\ cursor < batch' /\ DoneTo = cursor /\ DoneTo' = batch'
        /\ jobs' \in [Job -> Nat]
        /\ \A j \in Job : jobs'[j] > jobs[j] =>
              /\ j.awaited /\ j.stage = FirstStage(j.m)
              /\ \E i \in DOMAIN stream : cursor < i /\ i <= batch' /\ stream[i] = j.m
    BY <1>1, <1>19, PollStarts DEF DoneTo
  <2>3. \A j \in Job : jobs[j] = 0
    BY <1>1, <1>2, <2>2 DEF BatchOwnsJobs
  <2>4. \A j \in Job : jobs'[j] > 0 =>
            /\ j.awaited /\ j.stage = FirstStage(j.m)
            /\ \E i \in DOMAIN stream : cursor < i /\ i <= batch' /\ stream[i] = j.m
    BY <2>2, <2>3
  <2>5. \A i \in DOMAIN stream : i \in Nat
    BY <1>1, LenProperties
  <2>6. \A m : /\ HasJob(m)' => Unread(m)
               /\ Unread(m)' => Unread(m)
               /\ ToSend(m)' <=> ToSend(m)
    <3>1. \A m : ~HasJob(m)
      BY <2>3 DEF HasJob
    <3> QED
      BY <1>19, <2>1, <3>1, PollTakes DEF ToSend
  <2>7. ASSUME NEW p \in Paths, Unread(p)' PROVE ~HasJob(p)'
    <3> SUFFICES ASSUME HasJob(p)' PROVE FALSE
      OBVIOUS
    <3>1. PICK k \in DOMAIN stream : k > batch' /\ stream[k] = p
      BY <2>1, <2>2, <2>7 DEF Unread
    <3>2. PICK i \in DOMAIN stream : cursor < i /\ i <= batch' /\ stream[i] = p
      BY <2>4 DEF HasJob
    <3>3. i > DoneTo /\ k > DoneTo /\ i # k
      BY <1>1, <2>2, <2>5, <3>1, <3>2
    <3> QED
      BY <1>3, <3>1, <3>2, <3>3
  <2>8. SoleJobs(Paths)'
    <3> SUFFICES ASSUME NEW j \in Job, NEW k \in Job, jobs'[j] > 0, jobs'[k] > 0, j.m = k.m,
                        j.m \in Paths
                 PROVE  j = k /\ jobs'[j] = 1
      BY DEF SoleJobs
    <3>1. j = k
      BY <2>4, SameJob, JobFields
    <3>2. jobs'[j] <= jobs[j] + 1
      <4>1. \A i, l \in DOMAIN stream :
               cursor < i /\ cursor < l /\ stream[i] = j.m /\ stream[l] = j.m => i = l
        BY <1>1, <1>3, <2>2, <2>5
      <4> QED
        BY <1>19, <4>1, PollStarts
    <3> QED
      BY <2>2, <2>3, <3>1, <3>2
  <2>9. ComingOnce'
    <3>1. ASSUME NEW i \in DOMAIN stream', NEW k \in DOMAIN stream', i > DoneTo', k > DoneTo',
                 stream'[i] = stream'[k], stream'[i] \in Paths
          PROVE  i = k
      <4>1. i \in Nat /\ k \in Nat /\ i > DoneTo /\ k > DoneTo
        BY <1>1, <2>1, <2>2, <2>5, <3>1
      <4> QED
        BY <1>3, <2>1, <3>1, <4>1
    <3> QED
      BY <1>3, <2>6, <2>7, <2>8, <3>1 DEF ComingOnce
  <2>10. ComingIsDue'
    <3>1. \A m : Coming(m)' => Coming(m)
      BY <2>6 DEF Coming
    <3> QED
      BY <1>1, <1>2, <1>10, <2>1, <3>1, QuietFiles
  <2> QED
    BY <1>8, <1>9, <2>1, <2>9, <2>10 DEF Deletes
<1>20. CASE Trim
  <2>1. UNCHANGED <<now, disk, zset, heard, sweep, jobs>>
    BY <1>20 DEF Trim, cleaners
  <2>2. \A m : /\ HasJob(m)' <=> HasJob(m)
               /\ Unread(m)' => Unread(m)
               /\ ToSend(m)' <=> ToSend(m)
    BY <1>20, <2>1, TrimDrops DEF HasJob, ToSend
  <2>3. ASSUME NEW i \in DOMAIN stream', NEW k \in DOMAIN stream', i > DoneTo', k > DoneTo',
               stream'[i] = stream'[k], stream'[i] \in Paths
        PROVE  i = k
    <3>1. /\ DoneTo' = 1 /\ DoneTo = batch /\ i \in Int /\ k \in Int
          /\ batch + i - 1 \in DOMAIN stream /\ stream'[i] = stream[batch + i - 1]
          /\ batch + k - 1 \in DOMAIN stream /\ stream'[k] = stream[batch + k - 1]
      BY <1>1, <1>20, TrimShifts
    <3>2. batch + i - 1 > DoneTo /\ batch + k - 1 > DoneTo
      BY <1>1, <2>3, <3>1
    <3>3. batch + i - 1 = batch + k - 1
      BY <1>3, <2>3, <3>1, <3>2
    <3> QED
      BY <1>1, <3>1, <3>3
  <2>4. ComingOnce'
    <3>1. SoleJobs(Paths)'
      BY <1>3, <2>1 DEF SoleJobs
    <3> QED
      BY <1>3, <2>2, <2>3, <3>1 DEF ComingOnce
  <2>5. ComingIsDue'
    <3>1. \A m : Coming(m)' => Coming(m)
      BY <2>2 DEF Coming
    <3> QED
      BY <1>1, <1>2, <1>10, <2>1, <3>1, QuietFiles
  <2> QED
    BY <1>8, <1>9, <2>1, <2>4, <2>5 DEF Deletes
<1>21. ASSUME NEW j \in Job, Handle(j) PROVE Deletes'
  <2>1. UNCHANGED <<now, zset, heard, sweep, stream, cursor, batch>>
    BY <1>21 DEF Handle, Unlink, Lookup, Clean, RetryDecided, cleaners
  <2>2. Moves(j)
    BY <1>21, HandlersMove DEF Handle
  <2>3. SoleJobs(Paths)' /\ \A m : HasJob(m)' => HasJob(m)
    BY <1>2, <1>3, <2>2, MovesKeepJobs
  <2>4. \A m : /\ Unread(m)' <=> Unread(m)
               /\ ToSend(m)' <=> ToSend(m)
    BY <2>1 DEF Unread, ToSend, DoneTo
  <2>5. ComingOnce'
    <3>1. DoneTo' = DoneTo
      BY <2>1 DEF DoneTo
    <3> QED
      BY <1>3, <2>1, <2>3, <2>4, <3>1 DEF ComingOnce
  <2>6. \A m : Coming(m)' => Coming(m)
    BY <2>3, <2>4 DEF Coming
  <2>7. CASE Unlink(j)
    <3>1. /\ jobs[j] > 0 /\ j.stage = "unlink" /\ Ends(j)
          /\ disk' = [disk EXCEPT ![j.m] = Never]
      BY <1>4, <2>7 DEF Unlink, Running
    <3>2. j.m \in Paths /\ HasJob(j.m)
      BY <1>2, <3>1 DEF StageFits, HasJob
    <3>3. ~HasJob(j.m)'
      <4>1. \A k \in Job : k.m = j.m => jobs'[k] = 0
        <5> SUFFICES ASSUME NEW k \in Job, k.m = j.m PROVE jobs'[k] = 0
          OBVIOUS
        <5>1. jobs'[k] = IF k = j THEN jobs[j] - 1 ELSE jobs[k]
          BY <1>1, <3>1 DEF Ends
        <5>2. jobs[j] = 1 /\ (k # j => jobs[k] = 0)
          BY <1>1, <1>3, <3>1, <3>2 DEF SoleJobs
        <5> QED
          BY <5>1, <5>2
      <4> QED
        BY <4>1 DEF HasJob
    <3>4. Exists(j.m) /\ now >= disk[j.m] + Keep /\ (zset[j.m] # Never => Taken(j.m))
      BY <1>2, <3>2 DEF ComingIsDue, Coming
    <3>5. ~Coming(j.m)'
      BY <1>3, <2>4, <3>2, <3>3 DEF Coming
    <3>6. \A p \in Paths : p # j.m => disk'[p] = disk[p]
      BY <1>1, <3>1
    <3>7. ComingIsDue'
      BY <1>2, <1>10, <2>1, <2>6, <3>5, <3>6 DEF ComingIsDue, Exists
    <3>8. ScheduledIsKept'
      BY <1>2, <1>10, <2>1, <3>4, <3>6 DEF ScheduledIsKept, Exists
    <3>9. HeardIsFresh'
      <4> SUFFICES ASSUME Keep > 0, NEW c \in Cleaners, NEW i \in DOMAIN heard[c]
                   PROVE  disk'[heard[c][i]] # Never /\ disk'[heard[c][i]] = now
        BY <2>1 DEF HeardIsFresh, Exists
      <4>1. Exists(heard[c][i]) /\ disk[heard[c][i]] = now
        BY <1>2 DEF HeardIsFresh
      <4>2. heard[c][i] \in Paths
        BY ElementOfSeq, LenProperties DEF Typed
      <4>3. heard[c][i] # j.m
        BY <1>1, <1>6, <3>4, <4>1
      <4> QED
        BY <3>6, <4>1, <4>2, <4>3 DEF Exists
    <3> QED
      BY <2>5, <3>7, <3>8, <3>9 DEF Deletes
  <2>8. CASE Lookup(j) \/ Clean(j) \/ RetryDecided(j)
    <3>1. UNCHANGED disk
      BY <2>8 DEF Lookup, Clean, RetryDecided
    <3>2. ComingIsDue'
      BY <1>1, <1>2, <1>10, <2>1, <2>6, <3>1, QuietFiles
    <3> QED
      BY <1>8, <1>9, <2>1, <2>5, <3>1, <3>2 DEF Deletes
  <2> QED
    BY <1>21, <2>7, <2>8 DEF Handle
<1>22. CASE Work
  BY <1>19, <1>20, <1>21, <1>22 DEF Work
<1>23. ASSUME NEW c \in Cleaners, Sweep(c) PROVE Deletes'
  BY <1>16, <1>17, <1>18, <1>23 DEF Sweep
<1>24. ~BatchFails /\ \A c \in Cleaners : ~(Unsettle(c) \/ SweepFails(c) \/ CleanerCrash(c) \/ LoseReport(c))
  BY <1>4 DEF BatchFails, Unsettle, SweepFails, CleanerCrash, LoseReport
<1> QED
  BY <1>4, <1>11, <1>12, <1>13, <1>14, <1>15, <1>22, <1>23, <1>24 DEF Next

-----------------------------------------------------------------------------
(* The theorems                                                            *)

\* Nothing that went wrong is forgotten.
LEMMA FailuresAdd ==
    ASSUME Typed, Next
    PROVE  upsets' >= upsets /\ restarts' >= restarts
<1>1. upsets \in Nat /\ restarts \in Nat
  BY DEF Typed
<1>2. upsets' \in {upsets, upsets + 1} /\ restarts' \in {restarts, restarts + 1}
  BY DEF Next, Tick, Work, Handle, Sweep, BatchFails, Restart, Store, StartDownload, Notified,
         Elect, Unsettle, SweepFails, CleanerCrash, Schedule, LoseReport, PollCommands, Trim,
         Unlink, Lookup, Clean, RetryDecided, ReadDue, RemoveSwept, SendCommand, Upset
<1> QED
  BY <1>1, <1>2

LEMMA StepInvariant == IInv /\ [Next]_vars => IInv'
<1> SUFFICES ASSUME IInv, [Next]_vars PROVE IInv'
  OBVIOUS
<1>1. /\ Typed /\ Shape /\ FirstFiles
      /\ upsets = 0 => Cancels
      /\ upsets + restarts = 0 => Deletes
  BY DEF IInv
<1>2. CASE Next
  <2>1. Typed' /\ Shape' /\ FirstFiles'
    BY <1>1, <1>2, TypesStep, FirstFilesStep
  <2>2. /\ upsets \in Nat /\ restarts \in Nat /\ upsets' \in Nat /\ restarts' \in Nat
        /\ upsets' >= upsets /\ restarts' >= restarts
    BY <1>1, <1>2, <2>1, FailuresAdd DEF Typed
  <2>3. upsets' = 0 => Cancels'
    <3> SUFFICES ASSUME upsets' = 0 PROVE Cancels'
      OBVIOUS
    <3>1. upsets = 0
      BY <2>2
    <3> QED
      BY <1>1, <1>2, <3>1, CancelsStep
  <2>4. upsets' + restarts' = 0 => Deletes'
    <3> SUFFICES ASSUME upsets' + restarts' = 0 PROVE Deletes'
      OBVIOUS
    <3>1. upsets' = 0 /\ restarts' = 0
      <4>1. \A a, b \in Nat : a + b = 0 => a = 0 /\ b = 0
        OBVIOUS
      <4> QED
        BY <2>2, <4>1
    <3>2. upsets = 0 /\ restarts = 0 /\ upsets + restarts = 0
      BY <2>2, <3>1
    <3> QED
      BY <1>1, <1>2, <3>1, <3>2, DeletesStep
  <2> QED
    BY <2>1, <2>3, <2>4 DEF IInv
<1>3. CASE UNCHANGED vars
  <2> USE <1>3 DEF vars, cleaners, worker
  <2>1. Typed'
    BY <1>1 DEF Typed
  <2>2. Shape'
    BY <1>1 DEF Shape, SweepShape, StageFits, HeardInTime
  <2>3. FirstFiles'
    BY <1>1 DEF FirstFiles, FirstFile, Untouched, Exists, ToSend, Sent, HasJob
  <2>4. upsets' = 0 => Cancels'
    BY <1>1 DEF Cancels, OneSweeper, BatchOwnsJobs, SoleJobs, NewIsUnset, UntoldIsUnsent, Untold,
                SentOnce, ActedIsOver, Acted, ToSend, Taken, Sent, HasJob
  <2>5. upsets' + restarts' = 0 => Deletes'
    BY <1>1 DEF Deletes, ComingIsDue, ComingOnce, HeardIsFresh, ScheduledIsKept, Coming, Unread,
                DoneTo, SoleJobs, ToSend, HasJob, Taken, Exists
  <2> QED
    BY <2>1, <2>2, <2>3, <2>4, <2>5 DEF IInv
<1> QED
  BY <1>2, <1>3

LEMMA Invariance == Spec => []IInv
<1> QED
  BY InitInvariant, StepInvariant, PTL DEF Spec

\* Every variable keeps the values the code gives it, whatever fails.
THEOREM TypeCorrect == Spec => []TypeOK
<1>1. IInv => TypeOK
  BY Types DEF IInv
<1> QED
  BY Invariance, <1>1, PTL

\* The cancel of a download starts one retry decision at most, however many
\* commands the worker has and however often it restarts, as long as the CLEANER
\* and Redis are not upset.
THEOREM CancelsActOnce == Spec => []CancelActsOnce
<1>1. IInv => CancelActsOnce
  <2> SUFFICES ASSUME IInv, upsets = 0, NEW g \in Gids PROVE acted[g] <= 1
    BY DEF CancelActsOnce
  <2>1. Acted(g) /\ acted[g] \in Nat
    BY DEF IInv, Typed, Cancels, ActedIsOver
  <2> QED
    BY <2>1 DEF Acted
<1> QED
  BY Invariance, <1>1, PTL

\* Only an unlink takes a file away, and only one the invariant has found due.
LEMMA UnlinkKeeps ==
    ASSUME IInv, [Next]_vars, NEW p \in Paths, Exists(p), disk'[p] = Never
    PROVE  now >= disk[p] + Keep \/ (stores[p] > 1 /\ upsets + restarts > 0)
<1>1. /\ Typed /\ Shape /\ FirstFile(p) /\ now \in Nat /\ stores[p] \in Nat
      /\ disk \in [Paths -> Scores \cup {Never}] /\ upsets \in Nat /\ restarts \in Nat
  BY DEF IInv, FirstFiles, Typed
<1>2. PICK j \in Job : Unlink(j)
  <2>1. disk' # disk
    BY DEF Exists
  <2>2. ~(\E q \in Paths : Store(q))
    <3> SUFFICES ASSUME NEW q \in Paths, Store(q) PROVE FALSE
      OBVIOUS
    <3>1. disk'[p] = disk[p] \/ disk'[p] = now
      BY <1>1 DEF Store
    <3> QED
      BY <1>1, <3>1 DEF Exists, Never
  <2> QED
    BY <2>1, <2>2 DEF Next, vars, Tick, Work, Handle, Sweep, BatchFails, Restart, StartDownload,
       Notified, Elect, Unsettle, SweepFails, CleanerCrash, Schedule, LoseReport, PollCommands,
       Trim, Lookup, Clean, RetryDecided, ReadDue, RemoveSwept, SendCommand
<1>3. j.m = p /\ HasJob(p)
  BY <1>1, <1>2 DEF Unlink, Running, HasJob, Exists
<1>4. stores[p] # 0
  BY <1>1, <1>3 DEF FirstFile, Untouched
<1>5. CASE stores[p] = 1
  BY <1>1, <1>3, <1>5 DEF FirstFile
<1>6. CASE upsets + restarts = 0
  BY <1>3, <1>6 DEF IInv, Deletes, ComingIsDue, Coming
<1> QED
  BY <1>1, <1>4, <1>5, <1>6

\* No file is deleted before it has lain for the retention, however the sweeps
\* overlap and however often a command is sent or read again -- the second file
\* of a path excepted, once something failed.
THEOREM RetentionKept == Spec => RetentionIsKept
<1>1. IInv /\ [Next]_vars =>
          [\A p \in Paths : Exists(p) /\ disk'[p] = Never =>
               \/ now >= disk[p] + Keep
               \/ stores[p] > 1 /\ upsets + restarts > 0]_vars
  BY UnlinkKeeps
<1> QED
  BY Invariance, <1>1, PTL DEF Spec, RetentionIsKept
===============================================================================
