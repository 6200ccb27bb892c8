---------------------------- MODULE RawStreamProofs ----------------------------
(***************************************************************************)
(* For any replicas, links, ids, limits and delays: an id enters the raw   *)
(* stream once, a trim takes away an entry in flight only if it was read   *)
(* late, the in-flight counter is exact, and, with one replica, the loss   *)
(* warning means an eviction.  The claims make the first; the order of the *)
(* stream in time the second and the last; that the batches of a replica   *)
(* have no entry in common the third.                                      *)
(***************************************************************************)
EXTENDS RawStream, FiniteSetTheorems, SequenceTheorems, TLAPS

\* An id in the stream is claimed, and one that is being appended is claimed by
\* the one handler that appends it and not yet in the stream.
ClaimedInv ==
    /\ \A i \in 1 .. Len(log) : log[i].id \in claimed
    /\ \A k \in Handlers : ingest[k] = "append" =>
          /\ k[3] \in claimed
          /\ \A i \in 1 .. Len(log) : log[i].id # k[3]
    /\ \A k, l \in Handlers :
          ingest[k] = "append" /\ ingest[l] = "append" /\ k[3] = l[3] => k = l

\* Every entry comes from a handler.
FromHandlers == \A i \in 1 .. Len(log) : \E k \in Handlers : k[3] = log[i].id

\* The stream is in order of time, and nothing in it is in the future.
InOrder ==
    /\ \A i \in 1 .. Len(log) : log[i].at <= now
    /\ \A i, j \in 1 .. Len(log) : i <= j => log[i].at <= log[j].at

\* An open batch has entries left, all of them read, none of them twice, and
\* none for longer than MaxDelay.
BatchInv ==
    \A r \in Replicas : \A b \in open[r] :
        /\ b.left # {} /\ b.left \subseteq b.read
        /\ b.read \subseteq 1 .. cursor[r]
        /\ b.at <= now /\ now <= b.at + MaxDelay
        /\ \A c \in open[r] : c = b \/ c.read \cap b.read = {}

IInv ==
    /\ TypeOK
    /\ ClaimedInv /\ FromHandlers /\ EntersOnce
    /\ InOrder
    /\ BatchInv /\ CounterIsExact /\ PunctualIsKept

-----------------------------------------------------------------------------
(* Lemmas                                                                  *)

\* What TypeOK says of the stream, without its sequence.
LEMMA LogFacts ==
    ASSUME TypeOK
    PROVE  /\ Len(log) \in Nat /\ low \in Nat /\ low <= Len(log) /\ now \in Nat
           /\ \A i \in 1 .. Len(log) : log[i].id \in Ids /\ log[i].at \in Nat
           /\ \A r \in Replicas : cursor[r] \in Nat /\ cursor[r] <= Len(log)
<1>1. log \in Seq([id : Ids, at : Time]) /\ Time \subseteq Nat
  BY RawStreamAssumption DEF TypeOK, Time
<1>2. Len(log) \in Nat
  BY <1>1, LenProperties
<1>3. \A i \in 1 .. Len(log) : log[i] \in [id : Ids, at : Time]
  BY <1>1, ElementOfSeq
<1>4. /\ low \in 0 .. Len(log) /\ now \in Time
      /\ cursor \in [Replicas -> 0 .. Len(log)]
  BY DEF TypeOK
<1>5. \A i \in 1 .. Len(log) : log[i].id \in Ids /\ log[i].at \in Nat
  BY <1>1, <1>3
<1>6. \A r \in Replicas : cursor[r] \in Nat /\ cursor[r] <= Len(log)
  BY <1>2, <1>4
<1>7. low \in Nat /\ low <= Len(log) /\ now \in Nat
  BY <1>1, <1>2, <1>4
<1> QED
  BY <1>2, <1>5, <1>6, <1>7

LEMMA UpTo == ASSUME NEW n \in Nat PROVE Cardinality(1 .. n) = n
<1>1. Cardinality(1 .. n) = IF 1 > n THEN 0 ELSE n - 1 + 1
  BY FS_Interval
<1> QED
  BY <1>1

\* The stream is never longer than there are deliveries: one entry for an id.
LEMMA LogFits ==
    ASSUME TypeOK, EntersOnce, FromHandlers
    PROVE  Len(log) <= Cardinality(Handlers) /\ Cardinality(Handlers) \in Nat
<1> DEFINE ids == {k[3] : k \in Handlers}
           idOf == [k \in Handlers |-> k[3]]
           idAt == [i \in 1 .. Len(log) |-> log[i].id]
<1>1. IsFiniteSet(Handlers) /\ Cardinality(Handlers) \in Nat
  BY RawStreamAssumption, FS_CardinalityType
<1>2. IsFiniteSet(ids) /\ Cardinality(ids) <= Cardinality(Handlers)
  <2>1. idOf \in Surjection(Handlers, ids)
    BY DEF Surjection
  <2> QED
    BY <1>1, <2>1, FS_Surjection
<1>3. Len(log) \in Nat
  BY LogFacts
<1>4. idAt \in Injection(1 .. Len(log), ids)
  BY DEF Injection, IsInjective, EntersOnce, FromHandlers
<1>5. Cardinality(1 .. Len(log)) <= Cardinality(ids) /\ Cardinality(ids) \in Nat
  BY <1>2, <1>4, FS_Injection, FS_CardinalityType
<1>6. Cardinality(1 .. Len(log)) = Len(log)
  BY <1>3, UpTo
<1> QED
  BY <1>1, <1>2, <1>3, <1>5, <1>6

\* The smallest and the largest number of an interval.
LEMMA IntervalEnds ==
    ASSUME NEW a \in Int, NEW z \in Int, a <= z
    PROVE  Min(a .. z) = a /\ Max(a .. z) = z
<1>1. \A m \in a .. z : (\A y \in a .. z : m <= y) => m = a
  OBVIOUS
<1>2. a \in a .. z /\ \A y \in a .. z : a <= y
  OBVIOUS
<1>3. \A m \in a .. z : (\A y \in a .. z : m >= y) => m = z
  OBVIOUS
<1>4. z \in a .. z /\ \A y \in a .. z : z >= y
  OBVIOUS
<1> QED
  BY <1>1, <1>2, <1>3, <1>4 DEF Min, Max

\* What XREAD returns: between one and Count entries in a row, behind the cursor
\* and behind the trims.
LEMMA TakeIsARun ==
    ASSUME TypeOK, NEW r \in Replicas, Unread(r) # {}
    PROVE  \E a, z \in Nat :
              /\ low < a /\ cursor[r] < a /\ a <= z /\ z <= Len(log)
              /\ z - a + 1 <= Count
              /\ Take(r) = a .. z /\ Max(Take(r)) = z
              /\ IsFiniteSet(Take(r)) /\ Cardinality(Take(r)) = z - a + 1
<1> DEFINE a == IF low < cursor[r] THEN cursor[r] + 1 ELSE low + 1
           n == Smaller(Count, Cardinality(Unread(r)))
           z == a + n - 1
<1>1. /\ Len(log) \in Nat /\ low \in Nat /\ cursor[r] \in Nat
      /\ a \in Nat /\ low < a /\ cursor[r] < a
  BY LogFacts
<1>2. Unread(r) = a .. Len(log)
  BY <1>1 DEF Unread, Present
<1> HIDE DEF a
<1>3. a <= Len(log)
  BY <1>1, <1>2
<1>4. Min(Unread(r)) = a /\ Cardinality(Unread(r)) = Len(log) - a + 1
  BY <1>1, <1>2, <1>3, IntervalEnds, FS_Interval
<1>5. n \in Nat /\ 1 <= n /\ n <= Count /\ n <= Len(log) - a + 1
  BY <1>1, <1>3, <1>4, RawStreamAssumption DEF Smaller
<1>6. Take(r) = a .. z
  BY <1>4 DEF Take
<1> HIDE DEF n
<1>7. z \in Nat /\ a <= z /\ z <= Len(log) /\ z - a + 1 <= Count
  BY <1>1, <1>5, RawStreamAssumption
<1>8. Max(Take(r)) = z /\ IsFiniteSet(Take(r)) /\ Cardinality(Take(r)) = z - a + 1
  BY <1>1, <1>6, <1>7, IntervalEnds, FS_Interval
<1> QED
  BY <1>1, <1>6, <1>7, <1>8
-----------------------------------------------------------------------------
(* The invariant                                                           *)

\* Nothing has arrived, nothing is read.
LEMMA InitInvariant == Init => IInv
<1> SUFFICES ASSUME Init PROVE IInv
  OBVIOUS
<1>1. log = <<>> /\ Len(log) = 0 /\ log \in Seq([id : Ids, at : Time])
  BY EmptySeq DEF Init
<1>2. TypeOK
  <2>1. now \in Time /\ crashes \in 0 .. MaxCrashes /\ low \in 0 .. Len(log)
    BY <1>1, RawStreamAssumption DEF Init, Time
  <2>2. inFlight \in [Replicas -> 0 .. MaxInFlight + Count - 1]
    BY RawStreamAssumption DEF Init
  <2>3. cursor \in [Replicas -> 0 .. Len(log)]
    BY <1>1 DEF Init
  <2>4. open \in [Replicas -> SUBSET Batch] /\ ingest \in [Handlers -> {"none", "append", "done", "dead"}]
    BY DEF Init
  <2> QED
    BY <1>1, <2>1, <2>2, <2>3, <2>4 DEF Init, TypeOK
<1>3. ClaimedInv /\ FromHandlers /\ EntersOnce /\ InOrder
  BY <1>1 DEF Init, ClaimedInv, FromHandlers, EntersOnce, InOrder
<1>4. BatchInv /\ PunctualIsKept
  BY DEF Init, BatchInv, PunctualIsKept
<1>5. CounterIsExact
  BY FS_EmptySet DEF Init, CounterIsExact, InFlightOf
<1> QED
  BY <1>2, <1>3, <1>4, <1>5 DEF IInv

\* A handler appends an id only if it was the one to claim it.
LEMMA ClaimKeeps ==
    ASSUME IInv, NEW k \in Handlers, ClaimMessageId(k)
    PROVE  IInv'
<1> USE DEF IInv
<1>1. k[3] \in Ids /\ ingest \in [Handlers -> {"none", "append", "done", "dead"}]
  BY RawStreamAssumption DEF TypeOK
<1>2. /\ claimed' = claimed \cup {k[3]}
      /\ ingest' = [ingest EXCEPT ![k] = IF k[3] \in claimed THEN "done" ELSE "append"]
      /\ UNCHANGED <<now, log, low, evicted, cursor, open, inFlight, settled, warned, crashes>>
  BY <1>1 DEF ClaimMessageId, stream, consumer
<1>3. TypeOK'
  BY <1>1, <1>2 DEF TypeOK
<1>4. ClaimedInv'
  BY <1>1, <1>2 DEF ClaimedInv
<1>5. FromHandlers' /\ EntersOnce' /\ InOrder' /\ BatchInv' /\ CounterIsExact' /\ PunctualIsKept'
  BY <1>2 DEF FromHandlers, EntersOnce, InOrder, BatchInv, CounterIsExact, InFlightOf,
              PunctualIsKept, Present
<1> QED
  BY <1>3, <1>4, <1>5

\* XADD puts a new id at the end; what its MAXLEN removes is evicted.
LEMMA AppendKeeps ==
    ASSUME IInv, NEW k \in Handlers, AppendRawMessage(k)
    PROVE  IInv'
<1> USE DEF IInv
<1> DEFINE e == [id |-> k[3], at |-> now]
<1>1. /\ ingest[k] = "append" /\ log' = Append(log, e)
      /\ ingest' = [ingest EXCEPT ![k] = "done"]
      /\ UNCHANGED <<now, claimed, cursor, open, inFlight, settled, warned, crashes>>
  BY DEF AppendRawMessage, consumer
<1>2. PICK cut \in {low} \cup (low + 1 .. Len(log)) :
          low' = cut /\ evicted' = evicted \cup (low + 1 .. cut)
  BY DEF AppendRawMessage
<1>3. /\ Len(log) \in Nat /\ low \in Nat /\ low <= Len(log) /\ now \in Nat
      /\ \A r \in Replicas : cursor[r] \in Nat /\ cursor[r] <= Len(log)
  BY LogFacts
<1>4. e \in [id : Ids, at : Time] /\ e.id = k[3] /\ e.at = now
  BY RawStreamAssumption DEF TypeOK
<1>5. log \in Seq([id : Ids, at : Time])
  BY DEF TypeOK
<1> HIDE DEF e
<1>6. /\ log' \in Seq([id : Ids, at : Time]) /\ Len(log') = Len(log) + 1
      /\ \A i \in 1 .. Len(log) : log'[i] = log[i]
      /\ log'[Len(log) + 1] = e
  BY <1>1, <1>4, <1>5, AppendProperties
<1>7. \A i \in 1 .. Len(log') : i \in 1 .. Len(log) \/ i = Len(log) + 1
  BY <1>3, <1>6
<1>8. TypeOK'
  <2>1. ingest' \in [Handlers -> {"none", "append", "done", "dead"}]
    BY <1>1 DEF TypeOK
  <2>2. low' \in 0 .. Len(log') /\ evicted' \subseteq 1 .. low'
    BY <1>2, <1>3, <1>6 DEF TypeOK
  <2>3. cursor \in [Replicas -> 0 .. Len(log')]
    BY <1>3, <1>6 DEF TypeOK
  <2>4. settled \subseteq 1 .. Len(log')
    BY <1>3, <1>6 DEF TypeOK
  <2> QED
    BY <1>1, <1>6, <2>1, <2>2, <2>3, <2>4 DEF TypeOK
<1>9. ClaimedInv'
  <2>1. k[3] \in claimed /\ \A i \in 1 .. Len(log) : log[i].id # k[3]
    BY <1>1 DEF ClaimedInv
  <2>2. \A i \in 1 .. Len(log') : log'[i].id \in claimed'
    BY <1>1, <1>4, <1>6, <1>7, <2>1 DEF ClaimedInv
  <2>3. \A l \in Handlers : ingest'[l] = "append" => ingest[l] = "append" /\ l # k
    BY <1>1 DEF TypeOK
  <2>4. \A l \in Handlers : ingest'[l] = "append" =>
            l[3] \in claimed' /\ \A i \in 1 .. Len(log') : log'[i].id # l[3]
    BY <1>1, <1>4, <1>6, <1>7, <2>3 DEF ClaimedInv
  <2>5. \A l, m \in Handlers :
            ingest'[l] = "append" /\ ingest'[m] = "append" /\ l[3] = m[3] => l = m
    BY <2>3 DEF ClaimedInv
  <2> QED
    BY <2>2, <2>4, <2>5 DEF ClaimedInv
<1>10. FromHandlers'
  BY <1>4, <1>6, <1>7 DEF FromHandlers
<1>11. EntersOnce'
  <2>1. \A i \in 1 .. Len(log) : log[i].id # k[3]
    BY <1>1 DEF ClaimedInv
  <2> QED
    BY <1>4, <1>6, <1>7, <2>1 DEF EntersOnce
<1>12. InOrder'
  BY <1>1, <1>3, <1>4, <1>6, <1>7 DEF InOrder
<1>13. BatchInv' /\ CounterIsExact'
  BY <1>1 DEF BatchInv, CounterIsExact, InFlightOf
<1>14. PunctualIsKept'
  <2> SUFFICES ASSUME NEW r \in Replicas, NEW b \in open[r], NEW i \in b.left
               PROVE  i \in Present' \/ i \in evicted' \/ b.at - log'[i].at > Margin - MaxDelay
    BY <1>1 DEF PunctualIsKept
  <2>1. i \in 1 .. Len(log) /\ log'[i] = log[i]
    BY <1>3, <1>6 DEF BatchInv
  <2>2. i \in Present => i \in Present' \/ i \in evicted'
    BY <1>2, <1>3, <1>6, <2>1 DEF Present
  <2> QED
    BY <1>2, <2>1, <2>2 DEF PunctualIsKept
<1> QED
  BY <1>8, <1>9, <1>10, <1>11, <1>12, <1>13, <1>14

\* The entries in the open batches of a replica are finitely many.
LEMMA InFlightIsFinite ==
    ASSUME IInv, NEW r \in Replicas
    PROVE  /\ IsFiniteSet(InFlightOf(r)) /\ InFlightOf(r) \subseteq 1 .. cursor[r]
           /\ Cardinality(InFlightOf(r)) \in Nat
<1>1. InFlightOf(r) \subseteq 1 .. cursor[r] /\ cursor[r] \in Nat
  BY LogFacts DEF IInv, BatchInv, InFlightOf
<1>2. IsFiniteSet(1 .. cursor[r])
  BY <1>1, FS_Interval
<1> QED
  BY <1>1, <1>2, FS_Subset, FS_CardinalityType

\* A batch is behind the cursor, so it has nothing in common with the others.
LEMMA ReadKeeps ==
    ASSUME IInv, NEW r \in Replicas, ReadRawMessages(r)
    PROVE  IInv'
<1> USE DEF IInv
<1> DEFINE T == Take(r)
           b == [at |-> now, read |-> T, left |-> T]
<1>1. PICK a \in Nat, z \in Nat :
          /\ low < a /\ cursor[r] < a /\ a <= z /\ z <= Len(log)
          /\ z - a + 1 <= Count
          /\ T = a .. z /\ Max(T) = z
          /\ IsFiniteSet(T) /\ Cardinality(T) = z - a + 1
  BY TakeIsARun DEF ReadRawMessages
<1>2. /\ inFlight[r] < MaxInFlight
      /\ cursor' = [cursor EXCEPT ![r] = z]
      /\ open' = [open EXCEPT ![r] = @ \cup {b}]
      /\ inFlight' = [inFlight EXCEPT ![r] = @ + Cardinality(T)]
      /\ UNCHANGED <<now, claimed, log, low, evicted, ingest, settled, warned, crashes>>
  BY <1>1 DEF ReadRawMessages, Dispatch, stream
<1>3. /\ Len(log) \in Nat /\ low \in Nat /\ now \in Nat
      /\ \A p \in Replicas : cursor[p] \in Nat /\ cursor[p] <= Len(log)
  BY LogFacts
<1> HIDE DEF T
<1>4. b.at = now /\ b.read = T /\ b.left = T
  OBVIOUS
<1>5. b \in Batch
  <2>1. T \subseteq Positions
    BY <1>1, <1>3, LogFits DEF Positions
  <2> QED
    BY <2>1 DEF Batch, TypeOK
<1> HIDE DEF b
<1>6. /\ cursor'[r] = z /\ \A p \in Replicas \ {r} : cursor'[p] = cursor[p]
      /\ open'[r] = open[r] \cup {b} /\ \A p \in Replicas \ {r} : open'[p] = open[p]
      /\ inFlight'[r] = inFlight[r] + Cardinality(T)
      /\ \A p \in Replicas \ {r} : inFlight'[p] = inFlight[p]
  BY <1>2 DEF TypeOK
<1>7. TypeOK'
  <2>1. cursor' \in [Replicas -> 0 .. Len(log)]
    BY <1>1, <1>2, <1>3 DEF TypeOK
  <2>2. open' \in [Replicas -> SUBSET Batch]
    BY <1>2, <1>5 DEF TypeOK
  <2>3. inFlight' \in [Replicas -> 0 .. MaxInFlight + Count - 1]
    <3>1. inFlight \in [Replicas -> 0 .. MaxInFlight + Count - 1]
      BY DEF TypeOK
    <3>2. Cardinality(T) \in 1 .. Count
      BY <1>1, RawStreamAssumption
    <3>3. inFlight[r] + Cardinality(T) \in 0 .. MaxInFlight + Count - 1
      BY <1>2, <3>1, <3>2, RawStreamAssumption
    <3> QED
      BY <1>2, <3>1, <3>3
  <2> QED
    BY <1>2, <2>1, <2>2, <2>3 DEF TypeOK
<1>8. ClaimedInv' /\ FromHandlers' /\ EntersOnce' /\ InOrder'
  BY <1>2 DEF ClaimedInv, FromHandlers, EntersOnce, InOrder
<1>9. \A c \in open[r] : c.read \cap T = {}
  BY <1>1, <1>3 DEF BatchInv
<1>10. BatchInv'
  <2> SUFFICES ASSUME NEW p \in Replicas, NEW c \in open'[p]
               PROVE  /\ c.left # {} /\ c.left \subseteq c.read
                      /\ c.read \subseteq 1 .. cursor'[p]
                      /\ c.at <= now /\ now <= c.at + MaxDelay
                      /\ \A d \in open'[p] : d = c \/ d.read \cap c.read = {}
    BY <1>2 DEF BatchInv
  <2>1. CASE p # r
    BY <1>6, <2>1 DEF BatchInv
  <2>2. CASE p = r /\ c = b
    <3>1. T # {} /\ T \subseteq 1 .. z
      <4>1. a \in a .. z /\ a .. z \subseteq 1 .. z
        BY <1>1, <1>3
      <4> QED
        BY <1>1, <4>1
    <3>2. now <= now /\ now <= now + MaxDelay
      BY <1>3, RawStreamAssumption
    <3> QED
      BY <1>4, <1>6, <1>9, <2>2, <3>1, <3>2
  <2>3. CASE p = r /\ c \in open[r]
    <3>1. c.read \subseteq 1 .. z
      BY <1>1, <1>3, <2>3 DEF BatchInv
    <3> QED
      BY <1>4, <1>6, <1>9, <2>3, <3>1 DEF BatchInv
  <2> QED
    BY <1>6, <2>1, <2>2, <2>3
<1>11. CounterIsExact'
  <2>1. InFlightOf(r)' = InFlightOf(r) \cup T
    BY <1>4, <1>6 DEF InFlightOf
  <2>2. InFlightOf(r) \cap T = {}
    BY <1>9 DEF InFlightOf
  <2>3. Cardinality(InFlightOf(r) \cup T) = Cardinality(InFlightOf(r)) + Cardinality(T)
    <3>1. Cardinality({}) = 0
      BY FS_EmptySet
    <3>2. IsFiniteSet(InFlightOf(r)) /\ Cardinality(InFlightOf(r)) \in Nat
      BY InFlightIsFinite
    <3>3. Cardinality(T) \in Nat
      BY <1>1, FS_CardinalityType
    <3>4. Cardinality(InFlightOf(r) \cup T)
              = Cardinality(InFlightOf(r)) + Cardinality(T) - Cardinality(InFlightOf(r) \cap T)
      BY <1>1, <3>2, FS_Union
    <3>5. Cardinality(InFlightOf(r) \cap T) = 0
      BY <2>2, <3>1
    <3> QED
      BY <3>2, <3>3, <3>4, <3>5
  <2>4. inFlight'[r] = Cardinality(InFlightOf(r)')
    BY <1>6, <2>1, <2>3 DEF CounterIsExact
  <2>5. \A p \in Replicas \ {r} : InFlightOf(p)' = InFlightOf(p)
    BY <1>6 DEF InFlightOf
  <2> QED
    BY <1>6, <2>4, <2>5 DEF CounterIsExact
<1>12. PunctualIsKept'
  <2> SUFFICES ASSUME NEW p \in Replicas, NEW c \in open'[p], NEW i \in c.left
               PROVE  i \in Present \/ i \in evicted \/ c.at - log[i].at > Margin - MaxDelay
    BY <1>2 DEF PunctualIsKept, Present
  <2>1. CASE c \in open[p]
    BY <2>1 DEF PunctualIsKept
  <2>2. CASE p = r /\ c = b
    BY <1>1, <1>3, <1>4, <2>2 DEF Present
  <2> QED
    BY <1>6, <2>1, <2>2
<1> QED
  BY <1>7, <1>8, <1>10, <1>11, <1>12
\* A batch gives its share of the counter back with its last entry.
LEMMA SettleKeeps ==
    ASSUME IInv, NEW r \in Replicas, NEW b \in open[r], NEW i \in b.left, Settle(r, b, i)
    PROVE  IInv'
<1> USE DEF IInv
<1> DEFINE c == [b EXCEPT !.left = @ \ {i}]
           rest == open[r] \ {b}
<1>1. /\ settled' = settled \cup {i}
      /\ UNCHANGED <<now, claimed, log, low, evicted, ingest, cursor, warned, crashes>>
  BY DEF Settle, stream
<1>2. /\ b \in Batch /\ open \in [Replicas -> SUBSET Batch]
      /\ inFlight \in [Replicas -> 0 .. MaxInFlight + Count - 1]
  BY DEF TypeOK
<1>3. /\ b.left # {} /\ b.left \subseteq b.read /\ b.read \subseteq 1 .. cursor[r]
      /\ \A d \in rest : d.read \cap b.read = {}
  BY DEF BatchInv
<1>4. settled' \subseteq 1 .. Len(log)
  <2>1. settled \subseteq 1 .. Len(log) /\ i \in 1 .. cursor[r]
    BY <1>3 DEF TypeOK
  <2>2. cursor[r] \in Nat /\ cursor[r] <= Len(log) /\ Len(log) \in Nat
    BY LogFacts
  <2> QED
    BY <1>1, <2>1, <2>2
<1>5. ClaimedInv' /\ FromHandlers' /\ EntersOnce' /\ InOrder'
  BY <1>1 DEF ClaimedInv, FromHandlers, EntersOnce, InOrder
<1>6. CASE b.left = {i}
  <2>1. open' = [open EXCEPT ![r] = rest] /\ inFlight' = [inFlight EXCEPT ![r] = @ - Cardinality(b.read)]
    BY <1>6 DEF Settle
  <2>2. /\ open'[r] = rest /\ \A p \in Replicas \ {r} : open'[p] = open[p]
        /\ inFlight'[r] = inFlight[r] - Cardinality(b.read)
        /\ \A p \in Replicas \ {r} : inFlight'[p] = inFlight[p]
    BY <1>2, <2>1
  <2>3. /\ InFlightOf(r)' = InFlightOf(r) \ b.read
        /\ b.read \subseteq InFlightOf(r)
        /\ \A p \in Replicas \ {r} : InFlightOf(p)' = InFlightOf(p)
    BY <1>3, <2>2 DEF InFlightOf
  <2>4. /\ Cardinality(InFlightOf(r)) \in Nat /\ Cardinality(b.read) \in Nat
        /\ Cardinality(InFlightOf(r)') = Cardinality(InFlightOf(r)) - Cardinality(b.read)
        /\ Cardinality(InFlightOf(r)') \in Nat
    <3>1. IsFiniteSet(InFlightOf(r)) /\ Cardinality(InFlightOf(r)) \in Nat
      BY InFlightIsFinite
    <3>2. IsFiniteSet(b.read) /\ Cardinality(b.read) \in Nat
      BY <2>3, <3>1, FS_Subset, FS_CardinalityType
    <3>3. InFlightOf(r) \cap b.read = b.read
      BY <2>3
    <3>4. /\ IsFiniteSet(InFlightOf(r) \ b.read)
          /\ Cardinality(InFlightOf(r) \ b.read) = Cardinality(InFlightOf(r)) - Cardinality(InFlightOf(r) \cap b.read)
      BY <3>1, FS_Difference
    <3>5. Cardinality(InFlightOf(r) \ b.read) \in Nat
      BY <3>4, FS_CardinalityType
    <3> QED
      BY <2>3, <3>1, <3>2, <3>3, <3>4, <3>5
  <2>5. CounterIsExact'
    BY <2>2, <2>3, <2>4 DEF CounterIsExact
  <2>6. TypeOK'
    <3>1. inFlight'[r] \in 0 .. MaxInFlight + Count - 1
      <4>1. inFlight[r] \in 0 .. MaxInFlight + Count - 1 /\ inFlight[r] = Cardinality(InFlightOf(r))
        BY <1>2 DEF CounterIsExact
      <4> QED
        BY <2>2, <2>4, <4>1, RawStreamAssumption
    <3>2. inFlight' \in [Replicas -> 0 .. MaxInFlight + Count - 1]
      BY <1>2, <2>1, <2>2, <3>1
    <3>3. open' \in [Replicas -> SUBSET Batch]
      BY <1>2, <2>1
    <3> QED
      BY <1>1, <1>4, <3>2, <3>3 DEF TypeOK
  <2>7. \A p \in Replicas : open'[p] \subseteq open[p]
    BY <2>2
  <2>8. BatchInv' /\ PunctualIsKept'
    BY <1>1, <2>7 DEF BatchInv, PunctualIsKept, Present
  <2> QED
    BY <1>5, <2>5, <2>6, <2>8
<1>7. CASE b.left # {i}
  <2>1. open' = [open EXCEPT ![r] = rest \cup {c}] /\ inFlight' = inFlight
    BY <1>7 DEF Settle
  <2>2. /\ c \in Batch /\ c.at = b.at /\ c.read = b.read /\ c.left = b.left \ {i}
    BY <1>2 DEF Batch
  <2> HIDE DEF c
  <2>3. open'[r] = rest \cup {c} /\ \A p \in Replicas \ {r} : open'[p] = open[p]
    BY <1>2, <2>1
  <2>4. \A p \in Replicas : InFlightOf(p)' = InFlightOf(p)
    BY <2>2, <2>3 DEF InFlightOf
  <2>5. CounterIsExact'
    BY <2>1, <2>4 DEF CounterIsExact
  <2>6. TypeOK'
    <3>1. open' \in [Replicas -> SUBSET Batch]
      BY <1>2, <2>1, <2>2
    <3> QED
      BY <1>1, <1>4, <2>1, <3>1 DEF TypeOK
  <2>7. BatchInv'
    <3> SUFFICES ASSUME NEW p \in Replicas, NEW d \in open'[p]
                 PROVE  /\ d.left # {} /\ d.left \subseteq d.read
                        /\ d.read \subseteq 1 .. cursor[p]
                        /\ d.at <= now /\ now <= d.at + MaxDelay
                        /\ \A x \in open'[p] : x = d \/ x.read \cap d.read = {}
      BY <1>1 DEF BatchInv
    <3>1. CASE p # r
      BY <2>3, <3>1 DEF BatchInv
    <3>2. CASE p = r /\ d = c
      <4>1. d.left # {} /\ d.left \subseteq d.read
        BY <1>3, <1>7, <2>2, <3>2
      <4>2. d.read \subseteq 1 .. cursor[p] /\ d.at <= now /\ now <= d.at + MaxDelay
        BY <2>2, <3>2 DEF BatchInv
      <4>3. \A x \in open'[p] : x = d \/ x.read \cap d.read = {}
        BY <1>3, <2>2, <2>3, <3>2
      <4> QED
        BY <4>1, <4>2, <4>3
    <3>3. CASE p = r /\ d \in rest
      <4>1. \A x \in open'[p] : x = d \/ x.read \cap d.read = {}
        BY <1>3, <2>2, <2>3, <3>3 DEF BatchInv
      <4> QED
        BY <3>3, <4>1 DEF BatchInv
    <3> QED
      BY <2>3, <3>1, <3>2, <3>3
  <2>8. PunctualIsKept'
    <3> SUFFICES ASSUME NEW p \in Replicas, NEW d \in open'[p], NEW j \in d.left
                 PROVE  j \in Present \/ j \in evicted \/ d.at - log[j].at > Margin - MaxDelay
      BY <1>1 DEF PunctualIsKept, Present
    <3>1. PICK x \in open[p] : x.at = d.at /\ j \in x.left
      BY <2>2, <2>3
    <3> QED
      BY <3>1 DEF PunctualIsKept
  <2> QED
    BY <1>5, <2>5, <2>6, <2>7, <2>8
<1> QED
  BY <1>6, <1>7

\* The cursor a trim goes by is not in the future, and an entry in flight was
\* read at most MaxDelay ago: if it is removed it was old when it was read.
LEMMA TrimKeeps ==
    ASSUME IInv, NEW r \in Replicas, TrimRawStreamBefore(r)
    PROVE  IInv'
<1> USE DEF IInv
<1>1. PICK cut \in OldEnough(r) : low' = cut
  BY DEF TrimRawStreamBefore
<1>2. /\ UNCHANGED <<now, claimed, log, evicted, ingest, cursor, open, inFlight, settled, warned,
                    crashes>>
  BY DEF TrimRawStreamBefore, consumer
<1>3. /\ Len(log) \in Nat /\ low \in Nat /\ low <= Len(log) /\ now \in Nat
      /\ \A p \in Replicas : cursor[p] \in Nat /\ cursor[p] <= Len(log)
      /\ \A i \in 1 .. Len(log) : log[i].at \in Nat
  BY LogFacts
<1>4. /\ cut \in low + 1 .. Len(log) /\ cursor[r] \in 1 .. Len(log)
      /\ log[cut].at < log[cursor[r]].at - Margin
  BY <1>3 DEF OldEnough, Present
<1>5. log[cut].at < now - Margin
  <2>1. cut \in 1 .. Len(log)
    BY <1>3, <1>4
  <2>2. log[cursor[r]].at <= now
    BY <1>4 DEF InOrder
  <2> QED
    <3>1. /\ log[cut].at \in Int /\ log[cursor[r]].at \in Int /\ now \in Int
          /\ Margin \in Int
      BY <1>3, <1>4, <2>1, RawStreamAssumption
    <3>2. log[cut].at < log[cursor[r]].at - Margin
      BY <1>4
    <3> QED
      BY <2>2, <3>1, <3>2
<1>6. TypeOK'
  <2>1. low' \in 0 .. Len(log) /\ evicted \subseteq 1 .. low'
    BY <1>1, <1>3, <1>4 DEF TypeOK
  <2> QED
    BY <1>2, <2>1 DEF TypeOK
<1>7. ClaimedInv' /\ FromHandlers' /\ EntersOnce' /\ InOrder' /\ BatchInv' /\ CounterIsExact'
  BY <1>2 DEF ClaimedInv, FromHandlers, EntersOnce, InOrder, BatchInv, CounterIsExact, InFlightOf
<1>8. PunctualIsKept'
  <2> SUFFICES ASSUME NEW p \in Replicas, NEW b \in open[p], NEW i \in b.left
               PROVE  i \in cut + 1 .. Len(log) \/ i \in evicted
                      \/ b.at - log[i].at > Margin - MaxDelay
    BY <1>1, <1>2 DEF PunctualIsKept, Present
  <2>1. CASE i \in Present /\ i <= cut
    <3>1. i \in 1 .. Len(log) /\ cut \in 1 .. Len(log)
      BY <1>3, <1>4, <2>1 DEF Present
    <3>2. log[i].at <= log[cut].at
      BY <2>1, <3>1 DEF InOrder
    <3>3. now <= b.at + MaxDelay /\ b.at \in Nat
      <4>1. b \in Batch /\ now <= b.at + MaxDelay
        BY DEF TypeOK, BatchInv
      <4> QED
        BY <4>1, RawStreamAssumption DEF Batch, Time
    <3>4. log[i].at \in Nat /\ log[cut].at \in Nat
      BY <1>3, <3>1
    <3>5. now \in Int /\ Margin \in Int /\ MaxDelay \in Int
      BY <1>3, RawStreamAssumption
    <3> QED
      BY <1>5, <3>2, <3>3, <3>4, <3>5
  <2>2. CASE i \in Present /\ ~(i <= cut)
    BY <1>3, <1>4, <2>2 DEF Present
  <2>3. CASE i \notin Present
    BY <2>3 DEF PunctualIsKept
  <2> QED
    BY <2>1, <2>2, <2>3
<1> QED
  BY <1>6, <1>7, <1>8

\* The remaining steps: the health check, the clock, and a crash.
LEMMA OtherKeeps ==
    ASSUME IInv, Tick \/ \E r \in Replicas : CheckLoss(r) \/ Crash(r)
    PROVE  IInv'
<1> USE DEF IInv
<1>1. CASE Tick
  <2>1. /\ now < MaxTime /\ now' = now + 1
        /\ \A r \in Replicas : \A b \in open[r] : now < b.at + MaxDelay
        /\ UNCHANGED <<claimed, log, low, evicted, ingest, cursor, open, inFlight, settled,
                       warned, crashes>>
    BY <1>1 DEF Tick, stream, consumer
  <2>2. now \in Nat /\ now' \in Time
    BY <2>1, LogFacts, RawStreamAssumption DEF Time
  <2>3. TypeOK'
    BY <2>1, <2>2 DEF TypeOK
  <2>4. InOrder'
    BY <2>1, <2>2, LogFacts DEF InOrder
  <2>5. BatchInv'
    <3> SUFFICES ASSUME NEW r \in Replicas, NEW b \in open[r]
                 PROVE  b.at <= now + 1 /\ now + 1 <= b.at + MaxDelay
      BY <2>1 DEF BatchInv
    <3>1. b.at \in Nat
      BY RawStreamAssumption DEF TypeOK, Batch, Time
    <3>2. b.at <= now /\ now < b.at + MaxDelay
      BY <2>1 DEF BatchInv
    <3> QED
      BY <2>2, <3>1, <3>2, RawStreamAssumption
  <2>6. ClaimedInv' /\ FromHandlers' /\ EntersOnce' /\ CounterIsExact' /\ PunctualIsKept'
    BY <2>1 DEF ClaimedInv, FromHandlers, EntersOnce, CounterIsExact, InFlightOf, PunctualIsKept,
                Present
  <2> QED
    BY <2>3, <2>4, <2>5, <2>6
<1>2. ASSUME NEW r \in Replicas, CheckLoss(r) PROVE IInv'
  <2>1. /\ warned' \subseteq Replicas
        /\ UNCHANGED <<now, claimed, log, low, evicted, ingest, cursor, open, inFlight, settled,
                       crashes>>
    BY <1>2 DEF CheckLoss, TypeOK, stream
  <2>2. TypeOK'
    BY <2>1 DEF TypeOK
  <2>3. /\ ClaimedInv' /\ FromHandlers' /\ EntersOnce' /\ InOrder' /\ BatchInv' /\ CounterIsExact'
        /\ PunctualIsKept'
    BY <2>1 DEF ClaimedInv, FromHandlers, EntersOnce, InOrder, BatchInv, CounterIsExact, InFlightOf,
                PunctualIsKept, Present
  <2> QED
    BY <2>2, <2>3
<1>3. ASSUME NEW r \in Replicas, Crash(r) PROVE IInv'
  <2>1. /\ crashes < MaxCrashes /\ crashes' = crashes + 1
        /\ cursor' = [cursor EXCEPT ![r] = 0] /\ open' = [open EXCEPT ![r] = {}]
        /\ inFlight' = [inFlight EXCEPT ![r] = 0] /\ warned' = warned \ {r}
        /\ UNCHANGED <<now, claimed, log, low, evicted, settled>>
    BY <1>3 DEF Crash, stream
  <2>2. /\ ingest' \in [Handlers -> {"none", "append", "done", "dead"}]
        /\ \A k \in Handlers : ingest'[k] = "append" => ingest[k] = "append"
    BY <1>3 DEF Crash, TypeOK
  <2>3. TypeOK'
    <3>1. crashes' \in 0 .. MaxCrashes
      <4>1. crashes \in 0 .. MaxCrashes
        BY DEF TypeOK
      <4> QED
        BY <2>1, <4>1, RawStreamAssumption
    <3>2. cursor' \in [Replicas -> 0 .. Len(log)]
      BY <2>1, LogFacts DEF TypeOK
    <3>3. inFlight' \in [Replicas -> 0 .. MaxInFlight + Count - 1]
      BY <2>1, RawStreamAssumption DEF TypeOK
    <3>4. open' \in [Replicas -> SUBSET Batch]
      BY <2>1 DEF TypeOK
    <3> QED
      BY <2>1, <2>2, <3>1, <3>2, <3>3, <3>4 DEF TypeOK
  <2>4. ClaimedInv'
    BY <2>1, <2>2 DEF ClaimedInv
  <2>5. FromHandlers' /\ EntersOnce' /\ InOrder'
    BY <2>1 DEF FromHandlers, EntersOnce, InOrder
  <2>6. /\ open'[r] = {} /\ inFlight'[r] = 0
        /\ \A p \in Replicas \ {r} : /\ open'[p] = open[p] /\ inFlight'[p] = inFlight[p]
                                    /\ cursor'[p] = cursor[p]
    BY <2>1 DEF TypeOK
  <2>7. BatchInv' /\ PunctualIsKept'
    BY <2>1, <2>6 DEF BatchInv, PunctualIsKept, Present
  <2>8. CounterIsExact'
    <3>1. InFlightOf(r)' = {} /\ \A p \in Replicas \ {r} : InFlightOf(p)' = InFlightOf(p)
      BY <2>6 DEF InFlightOf
    <3> QED
      BY <2>6, <3>1, FS_EmptySet DEF CounterIsExact
  <2> QED
    BY <2>3, <2>4, <2>5, <2>7, <2>8
<1> QED
  BY <1>1, <1>2, <1>3

\* Every step keeps the invariant.
LEMMA NextInvariant == IInv /\ [Next]_vars => IInv'
<1> SUFFICES ASSUME IInv, [Next]_vars PROVE IInv'
  OBVIOUS
<1>1. CASE UNCHANGED vars
  <2>1. UNCHANGED <<now, claimed, log, low, evicted, ingest, cursor, open, inFlight, settled,
                    warned, crashes>>
    BY <1>1 DEF vars, stream, consumer
  <2>2. TypeOK'
    BY <2>1 DEF IInv, TypeOK
  <2>3. /\ ClaimedInv' /\ FromHandlers' /\ EntersOnce' /\ InOrder' /\ BatchInv' /\ CounterIsExact'
        /\ PunctualIsKept'
    BY <2>1 DEF IInv, ClaimedInv, FromHandlers, EntersOnce, InOrder, BatchInv, CounterIsExact,
                InFlightOf, PunctualIsKept, Present
  <2> QED
    BY <2>2, <2>3 DEF IInv
<1>2. ASSUME NEW k \in Handlers, Ingest(k) PROVE IInv'
  BY <1>2, ClaimKeeps, AppendKeeps DEF Ingest
<1>3. ASSUME NEW r \in Replicas, ReadRawMessages(r) \/ SettleSome(r) \/ TrimRawStreamBefore(r)
      PROVE  IInv'
  BY <1>3, ReadKeeps, SettleKeeps, TrimKeeps DEF SettleSome
<1> QED
  BY <1>1, <1>2, <1>3, OtherKeeps DEF Next

LEMMA Invariant == Spec => []IInv
<1> QED
  BY InitInvariant, NextInvariant, PTL DEF Spec
\* Every variable keeps its type.  The in-flight counter is among them: it is
\* never negative and never more than one batch above the limit.
THEOREM TypeCorrect == Spec => []TypeOK
<1>1. IInv => TypeOK
  BY DEF IInv
<1> QED
  BY <1>1, Invariant, PTL

\* A notification enters the stream once, whatever delivers it.
THEOREM IdsEnterOnce == Spec => []EntersOnce
<1>1. IInv => EntersOnce
  BY DEF IInv
<1> QED
  BY <1>1, Invariant, PTL

\* The trim by any replica's cursor takes away an entry in flight at any other
\* only if that entry was read late.
THEOREM PunctualEntriesAreKept == Spec => []PunctualIsKept
<1>1. IInv => PunctualIsKept
  BY DEF IInv
<1> QED
  BY <1>1, Invariant, PTL

\* The counter of a replica is the number of entries in its open batches, so a
\* batch gives back what it took.
THEOREM InFlightIsCounted == Spec => []CounterIsExact
<1>1. IInv => CounterIsExact
  BY DEF IInv
<1> QED
  BY <1>1, Invariant, PTL

-----------------------------------------------------------------------------
(* The loss warning                                                        *)

\* What a lone replica has read last is not behind its own trims, and a warning
\* has been preceded by an eviction.
WarningInv ==
    /\ \A r \in Replicas : cursor[r] # 0 /\ evicted = {} => low < cursor[r]
    /\ AlarmIsFounded

\* Every step of a lone replica keeps that.
LEMMA NextWarning ==
    ASSUME NEW r, Replicas = {r}, IInv, WarningInv, [Next]_vars
    PROVE  WarningInv'
<1>1. /\ Len(log) \in Nat /\ low \in Nat /\ low <= Len(log)
      /\ cursor[r] \in Nat /\ cursor[r] <= Len(log)
      /\ \A i \in 1 .. Len(log) : log[i].at \in Nat
      /\ cursor \in [Replicas -> 0 .. Len(log)]
  BY LogFacts DEF IInv, TypeOK
<1>2. CASE UNCHANGED vars
  BY <1>2 DEF vars, stream, consumer, WarningInv, AlarmIsFounded
<1>3. CASE Tick
  BY <1>3 DEF Tick, stream, consumer, WarningInv, AlarmIsFounded
<1>4. ASSUME NEW k \in Handlers, Ingest(k) PROVE WarningInv'
  <2>1. CASE ClaimMessageId(k)
    BY <2>1 DEF ClaimMessageId, stream, consumer, WarningInv, AlarmIsFounded
  <2>2. CASE AppendRawMessage(k)
    <3>1. PICK cut \in {low} \cup (low + 1 .. Len(log)) :
              low' = cut /\ evicted' = evicted \cup (low + 1 .. cut)
      BY <2>2 DEF AppendRawMessage
    <3>2. cursor' = cursor /\ warned' = warned
      BY <2>2 DEF AppendRawMessage, consumer
    <3>3. evicted \subseteq evicted' /\ (evicted' = {} => low' = low)
      <4>1. CASE cut = low
        BY <3>1, <4>1
      <4>2. CASE cut \in low + 1 .. Len(log)
        <5>1. cut \in low + 1 .. cut
          BY <1>1, <4>2
        <5> QED
          BY <3>1, <5>1
      <4> QED
        BY <3>1, <4>1, <4>2
    <3> QED
      BY <3>2, <3>3 DEF WarningInv, AlarmIsFounded
  <2> QED
    BY <1>4, <2>1, <2>2 DEF Ingest
<1>5. CASE ReadRawMessages(r)
  <2>1. PICK a \in Nat, z \in Nat : low < a /\ a <= z /\ Max(Take(r)) = z
    BY <1>5, TakeIsARun DEF IInv, ReadRawMessages
  <2>2. cursor' = [cursor EXCEPT ![r] = z] /\ UNCHANGED <<low, evicted, warned>>
    BY <1>5, <2>1 DEF ReadRawMessages, Dispatch, stream
  <2>3. cursor'[r] = z /\ low < z
    BY <1>1, <2>1, <2>2
  <2> QED
    BY <2>2, <2>3 DEF WarningInv, AlarmIsFounded
<1>6. CASE SettleSome(r)
  BY <1>6 DEF SettleSome, Settle, stream, WarningInv, AlarmIsFounded
<1>7. CASE TrimRawStreamBefore(r)
  <2>1. PICK cut \in OldEnough(r) : low' = cut
    BY <1>7 DEF TrimRawStreamBefore
  <2>2. UNCHANGED <<cursor, evicted, warned>>
    BY <1>7 DEF TrimRawStreamBefore, consumer
  <2>3. /\ cut \in 1 .. Len(log) /\ cursor[r] \in 1 .. Len(log)
        /\ log[cut].at < log[cursor[r]].at - Margin
    BY <1>1, <2>1 DEF OldEnough, Present
  <2>4. ~(cursor[r] <= cut)
    <3> SUFFICES ASSUME cursor[r] <= cut PROVE FALSE
      OBVIOUS
    <3>1. log[cursor[r]].at <= log[cut].at
      BY <2>3 DEF IInv, InOrder
    <3>2. log[cursor[r]].at \in Nat /\ log[cut].at \in Nat
      BY <1>1, <2>3
    <3> QED
      BY <2>3, <3>1, <3>2, RawStreamAssumption
  <2> QED
    BY <1>1, <2>1, <2>2, <2>3, <2>4 DEF WarningInv, AlarmIsFounded
<1>8. CASE CheckLoss(r)
  <2>1. UNCHANGED <<cursor, low, evicted, log>> /\ cursor[r] # 0
    BY <1>8 DEF CheckLoss, stream
  <2>2. ASSUME Present # {}, Min(Present) > cursor[r] PROVE evicted # {}
    <3>1. low + 1 <= Len(log)
      BY <1>1, <2>2 DEF Present
    <3>2. Min(Present) = low + 1
      BY <1>1, <3>1, IntervalEnds DEF Present
    <3> QED
      BY <1>1, <2>1, <2>2, <3>2 DEF WarningInv
  <2> QED
    BY <1>8, <2>1, <2>2 DEF CheckLoss, WarningInv, AlarmIsFounded
<1>9. CASE Crash(r)
  <2>1. UNCHANGED <<low, evicted>> /\ cursor'[r] = 0 /\ warned' \subseteq warned
    BY <1>1, <1>9 DEF Crash, stream
  <2> QED
    BY <2>1 DEF WarningInv, AlarmIsFounded
<1> QED
  BY <1>2, <1>3, <1>4, <1>5, <1>6, <1>7, <1>8, <1>9 DEF Next

\* With one process on the queue, the loss warning means an eviction by MAXLEN.
\* (With several, the trim by a faster one sets it off at a slower one.)
THEOREM AloneAlarmIsFounded ==
    ASSUME NEW r, Replicas = {r}
    PROVE  Spec => []AlarmIsFounded
<1>1. Init => WarningInv
  BY DEF Init, WarningInv, AlarmIsFounded
<1>2. IInv /\ WarningInv /\ [Next]_vars => WarningInv'
  BY NextWarning
<1>3. WarningInv => AlarmIsFounded
  BY DEF WarningInv
<1> QED
  BY <1>1, <1>2, <1>3, Invariant, PTL DEF Spec
=============================================================================
