------------------------------ MODULE StatsProofs ------------------------------
(***************************************************************************)
(* Whatever timers, stalls, changes of the primary and failed reads do, no *)
(* process counts a completion by topic without counting it by source.     *)
(* This needs the order of the two scans: what the first one found is      *)
(* still there at the second (KeysStay), so it is among what the second    *)
(* one finds.                                                              *)
(*                                                                         *)
(* Unless a timer fires early, no process counts a completion more often   *)
(* than it was written either: the windows it reads are in the order of    *)
(* time (DueIsAhead), so what it has counted is at most what was written   *)
(* up to the last of them (CountedAreRead).  The sum over windows is a     *)
(* recursive function, and the lemmas about it go by induction: a set of   *)
(* numbers with 0 and the successor of each member has them all.           *)
(***************************************************************************)
EXTENDS StatsWindows, WellFoundedInduction, TLAPS

\* While the details are to be read, what the first scan found has been written.
FoundIsWritten ==
    \A r \in Reporters :
        tick[r] # "asleep" =>
            /\ reading[r] \in Windows
            /\ tick[r] = "details" => found[r] \subseteq Keys(reading[r])

DueAfterBoundary == \A r \in Reporters : due[r] => clock > 0

IInv == TypeOK /\ DueAfterBoundary /\ FoundIsWritten /\ SourcesKeepUp

\* The invariant holds when the processes start.
LEMMA InitInvariant == Init => IInv
<1> SUFFICES ASSUME Init PROVE IInv
  OBVIOUS
<1>1. 0 \in Windows /\ NoWindow < 0
  BY StatsAssumption DEF Windows, NoWindow
<1>2. TypeOK
  <2>1. clock = 0 /\ clock \in Windows /\ faults \subseteq Faults
    BY <1>1 DEF Init
  <2>2. primary \subseteq Reporters /\ switches \in 0 .. MaxSwitches
    BY StatsAssumption DEF Init
  <2>3. /\ heard \in [Reporters -> SUBSET Reports]
        /\ found \in [Reporters -> SUBSET Reports]
        /\ due \in [Reporters -> BOOLEAN]
        /\ tick \in [Reporters -> {"asleep", "combos", "details"}]
    BY DEF Init
  <2>4. /\ window \in [Reporters -> Windows \cup {NoWindow}]
        /\ reading \in [Reporters -> Windows \cup {NoWindow}]
        /\ \A r \in Reporters : reading[r] < clock
        /\ writing \in [Reporters -> [Reports -> Windows \cup {NoWindow}]]
    BY <1>1 DEF Init
  <2>5. /\ stats \in [Windows -> [Reports -> Nat]]
        /\ number \in [Reporters -> [Reports -> Nat]]
        /\ source \in [Reporters -> [Reports -> Nat]]
    BY DEF Init
  <2> QED
    BY <2>1, <2>2, <2>3, <2>4, <2>5 DEF TypeOK
<1>3. DueAfterBoundary /\ FoundIsWritten
  BY DEF Init, DueAfterBoundary, FoundIsWritten
<1>4. SourcesKeepUp
  BY DEF Init, SourcesKeepUp
<1> QED
  BY <1>2, <1>3, <1>4 DEF IInv

\* A write takes no key away from any window.
LEMMA KeysStay ==
    ASSUME TypeOK, NEW r \in Reporters, NEW m \in Reports, WriteStatsWindow(r, m),
           NEW w \in Windows
    PROVE  Keys(w) \subseteq Keys(w)'
<1> SUFFICES ASSUME NEW k \in Reports, stats[w][k] > 0
             PROVE  stats'[w][k] > 0
  BY DEF Keys
<1>1. stats \in [Windows -> [Reports -> Nat]] /\ writing[r][m] \in Windows
  BY DEF TypeOK, WriteStatsWindow
<1>2. stats' = [stats EXCEPT ![writing[r][m]][m] = @ + 1]
  BY DEF WriteStatsWindow
<1>3. stats'[w][k] = stats[w][k] \/ stats'[w][k] = stats[w][k] + 1
  BY <1>1, <1>2
<1> QED
  BY <1>1, <1>3

\* Adding counts to the counters of a process, pointwise.
LEMMA AddAdds ==
    ASSUME NEW counter \in [Reporters -> [Reports -> Nat]], NEW r \in Reporters,
           NEW counts \in [Reports -> Nat]
    PROVE  /\ Add(counter, r, counts) \in [Reporters -> [Reports -> Nat]]
           /\ \A p \in Reporters, m \in Reports :
                 Add(counter, r, counts)[p][m] =
                     IF p = r THEN counter[p][m] + counts[m] ELSE counter[p][m]
<1> DEFINE row == [m \in Reports |-> counter[r][m] + counts[m]]
<1>1. row \in [Reports -> Nat]
  OBVIOUS
<1>2. Add(counter, r, counts) = [counter EXCEPT ![r] = row]
  BY DEF Add
<1> QED
  BY <1>1, <1>2

\* The hashes of the keys of a window are numbers.
LEMMA HashesType ==
    ASSUME TypeOK, NEW w \in Windows, NEW keys
    PROVE  Hashes(w, keys) \in [Reports -> Nat]
BY DEF Hashes, TypeOK

\* Every step keeps the invariant.
LEMMA NextInvariant == IInv /\ [Next]_vars => IInv'
<1> SUFFICES ASSUME IInv, [Next]_vars PROVE IInv'
  OBVIOUS
<1> USE DEF IInv
<1>1. ASSUME NextWindow PROVE IInv'
  <2>1. clock \in Windows /\ clock' \in Windows /\ clock' = clock + 1
    BY <1>1, StatsAssumption DEF NextWindow, TypeOK, Windows
  <2>2. faults' \subseteq Faults
    BY <1>1 DEF NextWindow, Fault, Faults, TypeOK
  <2>3. \A r \in Reporters : reading'[r] < clock'
    <3> SUFFICES ASSUME NEW r \in Reporters PROVE reading[r] < clock + 1
      BY <2>1, <1>1 DEF NextWindow
    <3>1. reading[r] \in Int /\ clock \in Int /\ reading[r] < clock
      BY <2>1 DEF TypeOK, Windows, NoWindow
    <3> QED
      BY <3>1
  <2>4. due' \in [Reporters -> BOOLEAN]
    BY <1>1, Zenon DEF NextWindow, TypeOK, Asleep
  <2>5. TypeOK'
    BY <1>1, <2>1, <2>2, <2>3, <2>4 DEF NextWindow, TypeOK, counters
  <2>6. DueAfterBoundary' /\ FoundIsWritten'
    BY <1>1, <2>1 DEF NextWindow, DueAfterBoundary, FoundIsWritten, Keys, Windows
  <2>7. SourcesKeepUp'
    BY <1>1 DEF NextWindow, SourcesKeepUp, counters
  <2> QED
    BY <2>5, <2>6, <2>7
<1>2. ASSUME NEW r \in Reporters, Elect(r) PROVE IInv'
  <2>1. TypeOK'
    BY <1>2, StatsAssumption DEF Elect, TypeOK, loop, counters
  <2>2. DueAfterBoundary' /\ FoundIsWritten' /\ SourcesKeepUp'
    BY <1>2 DEF Elect, DueAfterBoundary, FoundIsWritten, SourcesKeepUp, Keys, loop, counters
  <2> QED
    BY <2>1, <2>2
<1>3. ASSUME NEW r \in Reporters, Tick(r) PROVE IInv'
  <2>1. clock \in Windows /\ clock \in Nat /\ window' \in [Reporters -> Windows \cup {NoWindow}]
    BY <1>3 DEF Tick, TypeOK, Windows
  <2>2. clock - 1 < clock /\ clock - 1 \in Windows
    BY <1>3, <2>1, StatsAssumption DEF Tick, DueAfterBoundary, Windows
  <2>3. faults' \subseteq Faults
    BY <1>3 DEF Tick, Fault, Faults, TypeOK
  <2>4. \A p \in Reporters : reading'[p] < clock'
    BY <1>3, <2>2 DEF Tick, TypeOK
  <2>5. TypeOK'
    BY <1>3, <2>1, <2>2, <2>3, <2>4 DEF Tick, TypeOK, counters
  <2>6. DueAfterBoundary' /\ FoundIsWritten'
    BY <1>3, <2>2 DEF Tick, DueAfterBoundary, FoundIsWritten, Keys, TypeOK
  <2>7. SourcesKeepUp'
    BY <1>3 DEF Tick, SourcesKeepUp, counters
  <2> QED
    BY <2>5, <2>6, <2>7
<1>4. ASSUME NEW r \in Reporters, ScanCombos(r) PROVE IInv'
  <2>1. Keys(reading[r]) \subseteq Reports
    BY DEF Keys
  <2>2. TypeOK'
    BY <1>4, <2>1 DEF ScanCombos, TypeOK, counters
  <2>3. DueAfterBoundary' /\ FoundIsWritten'
    BY <1>4 DEF ScanCombos, DueAfterBoundary, FoundIsWritten, Keys, TypeOK
  <2>4. SourcesKeepUp'
    BY <1>4 DEF ScanCombos, SourcesKeepUp, counters
  <2> QED
    BY <2>2, <2>3, <2>4
<1>5. ASSUME NEW r \in Reporters, ReadDetails(r) PROVE IInv'
  <2> DEFINE byTopic  == Hashes(reading[r], found[r])
             bySource == Hashes(reading[r], Keys(reading[r]))
  <2>1. reading[r] \in Windows /\ found[r] \subseteq Keys(reading[r])
    BY <1>5 DEF ReadDetails, FoundIsWritten
  <2>2. byTopic \in [Reports -> Nat] /\ bySource \in [Reports -> Nat]
    BY <2>1, HashesType
  <2>3. \A m \in Reports : byTopic[m] <= bySource[m]
    BY <2>1 DEF Hashes, Keys, TypeOK
  <2>4. number' = Add(number, r, byTopic) /\ source' = Add(source, r, bySource)
    BY <1>5 DEF ReadDetails
  <2>5. number \in [Reporters -> [Reports -> Nat]] /\ source \in [Reporters -> [Reports -> Nat]]
    BY DEF TypeOK
  <2> HIDE DEF byTopic, bySource
  <2>6. /\ number' \in [Reporters -> [Reports -> Nat]]
        /\ \A p \in Reporters, m \in Reports :
              number'[p][m] = IF p = r THEN number[p][m] + byTopic[m] ELSE number[p][m]
    BY <2>2, <2>4, <2>5, AddAdds
  <2>7. /\ source' \in [Reporters -> [Reports -> Nat]]
        /\ \A p \in Reporters, m \in Reports :
              source'[p][m] = IF p = r THEN source[p][m] + bySource[m] ELSE source[p][m]
    BY <2>2, <2>4, <2>5, AddAdds
  <2>8. TypeOK'
    BY <1>5, <2>6, <2>7 DEF ReadDetails, TypeOK
  <2>9. DueAfterBoundary' /\ FoundIsWritten'
    BY <1>5 DEF ReadDetails, DueAfterBoundary, FoundIsWritten, Keys, TypeOK
  <2>10. SourcesKeepUp'
    <3> SUFFICES ASSUME NEW p \in Reporters, NEW m \in Reports
                 PROVE  number'[p][m] <= source'[p][m]
      BY DEF SourcesKeepUp
    <3>1. /\ number[p][m] \in Nat /\ source[p][m] \in Nat
          /\ byTopic[m] \in Nat /\ bySource[m] \in Nat
          /\ number[p][m] <= source[p][m]
      BY <2>2, <2>5 DEF SourcesKeepUp
    <3> QED
      BY <3>1, <2>3, <2>6, <2>7
  <2> QED
    BY <2>8, <2>9, <2>10
<1>6. ASSUME NEW r \in Reporters, ReadFails(r) PROVE IInv'
  <2>1. faults' \subseteq Faults
    BY <1>6 DEF ReadFails, Fault, Faults, TypeOK
  <2>2. TypeOK'
    BY <1>6, <2>1 DEF ReadFails, TypeOK, counters
  <2>3. DueAfterBoundary' /\ FoundIsWritten' /\ SourcesKeepUp'
    BY <1>6 DEF ReadFails, DueAfterBoundary, FoundIsWritten, SourcesKeepUp, Keys, TypeOK, counters
  <2> QED
    BY <2>2, <2>3
<1>7. ASSUME NEW r \in Reporters, NEW m \in Reports, OnReport(r, m) PROVE IInv'
  <2>1. heard' \in [Reporters -> SUBSET Reports]
    BY <1>7 DEF OnReport, TypeOK
  <2>2. window[r] \in Windows \cup {NoWindow}
    BY DEF TypeOK
  <2>3. writing' \in [Reporters -> [Reports -> Windows \cup {NoWindow}]]
    <3> DEFINE row == [writing[r] EXCEPT ![m] = window[r]]
    <3>1. row \in [Reports -> Windows \cup {NoWindow}]
      BY <2>2 DEF TypeOK
    <3>2. writing' = writing \/ writing' = [writing EXCEPT ![r] = row]
      BY <1>7 DEF OnReport
    <3> HIDE DEF row
    <3> QED
      BY <3>1, <3>2 DEF TypeOK
  <2>4. TypeOK'
    BY <1>7, <2>1, <2>3 DEF OnReport, TypeOK, loop, counters
  <2>5. DueAfterBoundary' /\ FoundIsWritten' /\ SourcesKeepUp'
    BY <1>7 DEF OnReport, DueAfterBoundary, FoundIsWritten, SourcesKeepUp, Keys, loop, counters
  <2> QED
    BY <2>4, <2>5
<1>8. ASSUME NEW r \in Reporters, NEW m \in Reports, WriteStatsWindow(r, m) PROVE IInv'
  <2>1. writing' \in [Reporters -> [Reports -> Windows \cup {NoWindow}]]
    <3> DEFINE row == [writing[r] EXCEPT ![m] = NoWindow]
    <3>1. row \in [Reports -> Windows \cup {NoWindow}]
      BY DEF TypeOK
    <3>2. writing' = [writing EXCEPT ![r] = row]
      BY <1>8 DEF WriteStatsWindow
    <3> HIDE DEF row
    <3> QED
      BY <3>1, <3>2 DEF TypeOK
  <2>2. stats' \in [Windows -> [Reports -> Nat]]
    <3> DEFINE w == writing[r][m]
               row == [stats[w] EXCEPT ![m] = @ + 1]
    <3>1. w \in Windows
      BY <1>8 DEF WriteStatsWindow, TypeOK
    <3>2. row \in [Reports -> Nat]
      BY <3>1 DEF TypeOK
    <3>3. stats' = [stats EXCEPT ![w] = row]
      BY <1>8 DEF WriteStatsWindow
    <3> HIDE DEF row, w
    <3> QED
      BY <3>1, <3>2, <3>3 DEF TypeOK
  <2>3. TypeOK'
    BY <1>8, <2>1, <2>2 DEF WriteStatsWindow, TypeOK, loop, counters
  <2>4. FoundIsWritten'
    <3> SUFFICES ASSUME NEW p \in Reporters, tick[p] # "asleep"
                 PROVE  /\ reading[p] \in Windows
                        /\ tick[p] = "details" => found[p] \subseteq Keys(reading[p])'
      BY <1>8 DEF WriteStatsWindow, FoundIsWritten, loop, Keys
    <3>1. reading[p] \in Windows
      BY DEF FoundIsWritten
    <3>2. Keys(reading[p]) \subseteq Keys(reading[p])'
      BY <3>1, <1>8, KeysStay DEF WriteStatsWindow, loop, Keys
    <3> QED
      BY <3>1, <3>2 DEF FoundIsWritten
  <2>5. DueAfterBoundary' /\ SourcesKeepUp'
    BY <1>8 DEF WriteStatsWindow, DueAfterBoundary, SourcesKeepUp, loop, counters
  <2> QED
    BY <2>3, <2>4, <2>5
<1>9. ASSUME UNCHANGED vars PROVE IInv'
  <2>1. TypeOK'
    BY <1>9 DEF vars, TypeOK, loop, counters
  <2>2. DueAfterBoundary' /\ FoundIsWritten' /\ SourcesKeepUp'
    BY <1>9 DEF vars, DueAfterBoundary, FoundIsWritten, SourcesKeepUp, Keys, loop, counters
  <2> QED
    BY <2>1, <2>2
<1> QED
  BY <1>1, <1>2, <1>3, <1>4, <1>5, <1>6, <1>7, <1>8, <1>9 DEF Next, Loop

LEMMA Invariant == Spec => []IInv
<1> QED
  BY InitInvariant, NextInvariant, PTL DEF Spec

\* Every variable keeps its type; in particular the window a process reads is
\* always one that is over.
THEOREM TypeCorrect == Spec => []TypeOK
<1>1. IInv => TypeOK
  BY DEF IInv
<1> QED
  BY <1>1, Invariant, PTL

\* The counters by source have every completion the counters by topic have.
THEOREM SourcesAlwaysKeepUp == Spec => []SourcesKeepUp
<1>1. IInv => SourcesKeepUp
  BY DEF IInv
<1> QED
  BY <1>1, Invariant, PTL

-----------------------------------------------------------------------------
(* Sums over the windows                                                   *)

LEMMA NatsFromZero ==
    ASSUME NEW S, 0 \in S, \A n \in Nat : n \in S => n + 1 \in S
    PROVE  Nat \subseteq S
<1> DEFINE T == Nat \ S
           R == OpToRel(<, Nat)
<1> SUFFICES ASSUME T # {} PROVE FALSE
  OBVIOUS
<1>1. PICK x \in T : \A y \in T : ~ (<<y, x>> \in R)
  <2>1. IsWellFoundedOn(R, Nat)
    BY NatLessThanWellFounded
  <2>2. T \subseteq Nat
    OBVIOUS
  <2> HIDE DEF R, T
  <2> QED
    BY <2>1, <2>2, WFMin
<1>2. x \in Nat /\ x # 0 /\ x - 1 \in T
  OBVIOUS
<1>3. <<x - 1, x>> \in R
  BY <1>2 DEF OpToRel
<1> QED
  BY <1>1, <1>2, <1>3

\* SumsTo(f, h, n): h sums f up to window n.
SumsTo(f, h, n) == h = [w \in 0 .. n |-> f[w] + IF w = 0 THEN 0 ELSE h[w - 1]]

\* There is such a function for every n, so the recursion defines one.
LEMMA SumExists == ASSUME NEW f PROVE \A n \in Nat : \E h : SumsTo(f, h, n)
<1> DEFINE S == {n \in Nat : \E h : SumsTo(f, h, n)}
<1>1. 0 \in S
  <2> DEFINE h == [w \in 0 .. 0 |-> f[w] + 0]
  <2>1. SumsTo(f, h, 0)
    BY DEF SumsTo
  <2> QED
    BY <2>1
<1>2. \A n \in Nat : n \in S => n + 1 \in S
  <2> SUFFICES ASSUME NEW n \in Nat, NEW h, SumsTo(f, h, n)
               PROVE  \E k : SumsTo(f, k, n + 1)
    OBVIOUS
  <2> DEFINE k == [w \in 0 .. n + 1 |-> IF w = n + 1 THEN f[w] + h[n] ELSE h[w]]
  <2>1. \A w \in 0 .. n + 1 : k[w] = f[w] + IF w = 0 THEN 0 ELSE k[w - 1]
    <3> SUFFICES ASSUME NEW w \in 0 .. n + 1
                 PROVE  k[w] = f[w] + IF w = 0 THEN 0 ELSE k[w - 1]
      OBVIOUS
    <3>1. CASE w = n + 1
      BY <3>1
    <3>2. CASE w # n + 1
      <4>1. w \in 0 .. n
        BY <3>2
      <4>2. h[w] = f[w] + IF w = 0 THEN 0 ELSE h[w - 1]
        BY <4>1 DEF SumsTo
      <4> QED
        BY <4>1, <4>2
    <3> QED
      BY <3>1, <3>2
  <2>2. k = [w \in 0 .. n + 1 |-> k[w]]
    OBVIOUS
  <2> HIDE DEF k
  <2>3. SumsTo(f, k, n + 1)
    BY <2>1, <2>2 DEF SumsTo
  <2> QED
    BY <2>3
<1> HIDE DEF S
<1>3. Nat \subseteq S
  BY <1>1, <1>2, NatsFromZero
<1> QED
  BY <1>3 DEF S

\* An invariant of the window number holds for every window.
LEMMA WindowByWindow ==
    ASSUME NEW S, 0 \in S, \A w \in Windows : w \in S /\ w + 1 \in Windows => w + 1 \in S
    PROVE  Windows \subseteq S
<1> DEFINE T == {n \in Nat : n \in Windows => n \in S}
<1>1. 0 \in T
  OBVIOUS
<1>2. \A n \in Nat : n \in T => n + 1 \in T
  BY StatsAssumption DEF Windows
<1>3. Windows \subseteq Nat
  BY StatsAssumption DEF Windows
<1> HIDE DEF T
<1>4. Nat \subseteq T
  BY <1>1, <1>2, NatsFromZero
<1> QED
  BY <1>3, <1>4 DEF T

LEMMA SumIsSum ==
    ASSUME NEW f \in [Windows -> Nat]
    PROVE  /\ SumUpTo(f) \in [Windows -> Nat]
           /\ SumUpTo(f)[0] = f[0]
           /\ \A w \in Windows : w # 0 => /\ w - 1 \in Windows
                                          /\ SumUpTo(f)[w] = f[w] + SumUpTo(f)[w - 1]
<1> DEFINE h == SumUpTo(f)
<1>1. h = [w \in Windows |-> f[w] + IF w = 0 THEN 0 ELSE h[w - 1]]
  <2>1. \E k : k = [w \in Windows |-> f[w] + IF w = 0 THEN 0 ELSE k[w - 1]]
    BY SumExists, StatsAssumption DEF SumsTo, Windows
  <2> QED
    BY <2>1 DEF SumUpTo
<1> HIDE DEF h
<1>2. 0 \in Windows /\ \A w \in Windows : w \in Nat /\ (w # 0 => w - 1 \in Windows)
  BY StatsAssumption DEF Windows
<1>3. h[0] = f[0]
  BY <1>1, <1>2
<1>4. \A w \in Windows : w # 0 => h[w] = f[w] + h[w - 1]
  BY <1>1
<1>5. \A w \in Windows : h[w] \in Nat
  <2> DEFINE S == {w \in Windows : h[w] \in Nat}
  <2>1. 0 \in S
    BY <1>2, <1>3
  <2>2. ASSUME NEW w \in Windows, w \in S, w + 1 \in Windows PROVE w + 1 \in S
    <3>1. h[w + 1] = f[w + 1] + h[w]
      BY <1>2, <1>4, <2>2
    <3> QED
      BY <2>2, <3>1
  <2> HIDE DEF S
  <2>3. Windows \subseteq S
    BY <2>1, <2>2, WindowByWindow
  <2> QED
    BY <2>3 DEF S
<1>6. h \in [Windows -> Nat]
  BY <1>1, <1>5
<1> QED
  BY <1>2, <1>3, <1>4, <1>6 DEF h

\* More windows sum up to more.
LEMMA SumGrowsAlong ==
    ASSUME NEW f \in [Windows -> Nat], NEW v \in Windows, NEW w \in Windows, v <= w
    PROVE  SumUpTo(f)[v] <= SumUpTo(f)[w]
<1> DEFINE h == SumUpTo(f)
           S == {u \in Windows : v <= u => h[v] <= h[u]}
<1>1. /\ h \in [Windows -> Nat]
      /\ \A u \in Windows : u # 0 => h[u] = f[u] + h[u - 1]
      /\ Windows \subseteq Nat /\ 0 \in Windows
  BY SumIsSum, StatsAssumption DEF Windows
<1> HIDE DEF h
<1>2. 0 \in S
  BY <1>1
<1>3. ASSUME NEW u \in Windows, u \in S, u + 1 \in Windows PROVE u + 1 \in S
  <2>1. h[u + 1] = f[u + 1] + h[u] /\ u \in Nat /\ v \in Nat
    BY <1>1, <1>3
  <2>2. h[u] <= h[u + 1] /\ h[u] \in Nat /\ h[u + 1] \in Nat /\ h[v] \in Nat
    BY <1>1, <1>3, <2>1
  <2> QED
    BY <1>3, <2>1, <2>2
<1> HIDE DEF S
<1>4. Windows \subseteq S
  BY <1>2, <1>3, WindowByWindow
<1> QED
  BY <1>4 DEF S, h

\* Greater numbers sum up to more.
LEMMA SumGrowsWith ==
    ASSUME NEW f \in [Windows -> Nat], NEW g \in [Windows -> Nat],
           \A u \in Windows : f[u] <= g[u], NEW w \in Windows
    PROVE  SumUpTo(f)[w] <= SumUpTo(g)[w]
<1> DEFINE h == SumUpTo(f)
           k == SumUpTo(g)
           S == {u \in Windows : h[u] <= k[u]}
<1>1. /\ h \in [Windows -> Nat] /\ h[0] = f[0]
      /\ \A u \in Windows : u # 0 => h[u] = f[u] + h[u - 1]
  BY SumIsSum
<1>2. /\ k \in [Windows -> Nat] /\ k[0] = g[0]
      /\ \A u \in Windows : u # 0 => k[u] = g[u] + k[u - 1]
  BY SumIsSum
<1>3. Windows \subseteq Nat /\ 0 \in Windows
  BY StatsAssumption DEF Windows
<1> HIDE DEF h, k
<1>4. 0 \in S
  BY <1>1, <1>2, <1>3
<1>5. ASSUME NEW u \in Windows, u \in S, u + 1 \in Windows PROVE u + 1 \in S
  <2>1. h[u + 1] = f[u + 1] + h[u] /\ k[u + 1] = g[u + 1] + k[u]
    BY <1>1, <1>2, <1>3, <1>5
  <2>2. /\ h[u] \in Nat /\ k[u] \in Nat /\ h[u] <= k[u]
        /\ f[u + 1] \in Nat /\ g[u + 1] \in Nat /\ f[u + 1] <= g[u + 1]
    BY <1>1, <1>2, <1>5
  <2> QED
    BY <1>5, <2>1, <2>2
<1> HIDE DEF S
<1>6. Windows \subseteq S
  BY <1>4, <1>5, WindowByWindow
<1> QED
  BY <1>6 DEF S, h, k

-----------------------------------------------------------------------------
(* Nothing is counted twice                                                *)

\* A timer that is due has a window before it which its process has not read.
DueIsAhead == \A r \in Reporters : due[r] => reading[r] < clock - 1

\* The last window a process has been through with, -1 for none.
ReadTo(r) == IF tick[r] = "asleep" THEN reading[r] ELSE reading[r] - 1

WrittenTo(m, w) == IF w = NoWindow THEN 0 ELSE WrittenUpTo(m)[w]

CountedAreRead ==
    \A r \in Reporters, m \in Reports : number[r][m] <= WrittenTo(m, ReadTo(r))

CountInv == "early" \notin faults => DueIsAhead /\ CountedAreRead

LEMMA WrittenType ==
    TypeOK => \A m \in Reports :
        /\ [w \in Windows |-> stats[w][m]] \in [Windows -> Nat]
        /\ WrittenUpTo(m) \in [Windows -> Nat]
BY SumIsSum DEF TypeOK, WrittenUpTo

LEMMA WrittenToType ==
    ASSUME TypeOK, NEW m \in Reports, NEW w \in Windows \cup {NoWindow}
    PROVE  WrittenTo(m, w) \in Nat
BY WrittenType DEF WrittenTo

LEMMA WrittenToGrows ==
    ASSUME TypeOK, NEW m \in Reports, NEW v \in Windows \cup {NoWindow},
           NEW w \in Windows \cup {NoWindow}, v <= w
    PROVE  WrittenTo(m, v) <= WrittenTo(m, w)
<1>1. Windows \subseteq Nat /\ NoWindow = -1
  BY StatsAssumption DEF Windows, NoWindow
<1>2. CASE v = NoWindow
  <2>1. WrittenTo(m, w) \in Nat
    BY WrittenToType
  <2> QED
    BY <1>2, <2>1 DEF WrittenTo
<1>3. CASE v # NoWindow
  <2>1. v \in Windows /\ w \in Windows /\ w # NoWindow
    BY <1>1, <1>3
  <2>2. WrittenUpTo(m)[v] <= WrittenUpTo(m)[w]
    BY <2>1, WrittenType, SumGrowsAlong DEF WrittenUpTo
  <2> QED
    BY <1>3, <2>1, <2>2 DEF WrittenTo
<1> QED
  BY <1>2, <1>3

\* Writes only make the sums greater.
LEMMA WrittenToStays ==
    ASSUME TypeOK, TypeOK', NEW m \in Reports, NEW w \in Windows \cup {NoWindow},
           \A u \in Windows : stats[u][m] <= stats'[u][m]
    PROVE  WrittenTo(m, w) <= WrittenTo(m, w)'
<1>1. CASE w = NoWindow
  BY <1>1 DEF WrittenTo
<1>2. CASE w # NoWindow
  <2> DEFINE f == [u \in Windows |-> stats[u][m]]
             g == [u \in Windows |-> stats'[u][m]]
  <2>1. f \in [Windows -> Nat] /\ g \in [Windows -> Nat] /\ \A u \in Windows : f[u] <= g[u]
    BY DEF TypeOK
  <2>2. WrittenUpTo(m) = SumUpTo(f) /\ WrittenUpTo(m)' = SumUpTo(g)
    BY DEF WrittenUpTo
  <2> HIDE DEF f, g
  <2>3. SumUpTo(f)[w] <= SumUpTo(g)[w]
    BY <1>2, <2>1, SumGrowsWith
  <2> QED
    BY <1>2, <2>2, <2>3 DEF WrittenTo
<1> QED
  BY <1>1, <1>2

\* Where a process has read to is a window or before the first.
LEMMA ReadToType ==
    ASSUME NEW rd \in Windows \cup {NoWindow}, NEW asleep \in BOOLEAN,
           ~asleep => rd \in Windows
    PROVE  (IF asleep THEN rd ELSE rd - 1) \in Windows \cup {NoWindow}
BY StatsAssumption DEF Windows, NoWindow

LEMMA InitCount == Init => CountInv
<1> SUFFICES ASSUME Init PROVE DueIsAhead /\ CountedAreRead
  BY DEF CountInv
<1> QED
  BY DEF Init, DueIsAhead, CountedAreRead, ReadTo, WrittenTo

\* What has been counted of the windows up to v is covered by those up to a later
\* w, also after more has been written.
LEMMA CountStays ==
    ASSUME TypeOK, TypeOK', NEW m \in Reports, NEW count \in Nat,
           \A u \in Windows : stats[u][m] <= stats'[u][m],
           NEW v \in Windows \cup {NoWindow}, NEW w \in Windows \cup {NoWindow}, v <= w,
           count <= WrittenTo(m, v)
    PROVE  count <= WrittenTo(m, w)'
<1>1. WrittenTo(m, v) <= WrittenTo(m, w)
  BY WrittenToGrows
<1>2. WrittenTo(m, w) <= WrittenTo(m, w)'
  BY WrittenToStays
<1>3. WrittenTo(m, w)' \in Nat
  <2> DEFINE f == [u \in Windows |-> stats'[u][m]]
  <2>1. f \in [Windows -> Nat] /\ WrittenUpTo(m)' = SumUpTo(f)
    BY DEF TypeOK, WrittenUpTo
  <2> HIDE DEF f
  <2>2. SumUpTo(f) \in [Windows -> Nat]
    BY <2>1, SumIsSum
  <2> QED
    BY <2>1, <2>2 DEF WrittenTo
<1>4. WrittenTo(m, v) \in Nat /\ WrittenTo(m, w) \in Nat
  BY WrittenToType
<1> QED
  BY <1>1, <1>2, <1>3, <1>4

\* A process that counts nothing and has not read less than before.
LEMMA Uncounted ==
    ASSUME IInv, IInv', CountedAreRead, NEW r \in Reporters, NEW m \in Reports,
           \A u \in Windows : stats[u][m] <= stats'[u][m],
           number'[r][m] = number[r][m], ReadTo(r) <= ReadTo(r)'
    PROVE  number'[r][m] <= WrittenTo(m, ReadTo(r))'
<1>1. /\ reading[r] \in Windows \cup {NoWindow} /\ (tick[r] # "asleep" => reading[r] \in Windows)
      /\ TypeOK /\ TypeOK' /\ number[r][m] \in Nat
  BY DEF IInv, TypeOK, FoundIsWritten
<1>2. reading'[r] \in Windows \cup {NoWindow} /\ (tick'[r] # "asleep" => reading'[r] \in Windows)
  BY DEF IInv, TypeOK, FoundIsWritten
<1>3. ReadTo(r) \in Windows \cup {NoWindow} /\ ReadTo(r)' \in Windows \cup {NoWindow}
  BY <1>1, <1>2, ReadToType DEF ReadTo
<1>4. \A v, w \in Windows \cup {NoWindow} :
         v <= w /\ number[r][m] <= WrittenTo(m, v) => number[r][m] <= WrittenTo(m, w)'
  BY <1>1, CountStays
<1>5. number[r][m] <= WrittenTo(m, ReadTo(r))
  BY DEF CountedAreRead
<1> QED
  BY <1>3, <1>4, <1>5 DEF WrittenTo

\* A step after which every process has counted what it had, and read no less.
LEMMA NobodyCounts ==
    ASSUME IInv, IInv', CountedAreRead, UNCHANGED number,
           \A m \in Reports, u \in Windows : stats[u][m] <= stats'[u][m],
           \A r \in Reporters : ReadTo(r) <= ReadTo(r)'
    PROVE  CountedAreRead'
<1>1. \A r \in Reporters, m \in Reports : number'[r][m] <= WrittenTo(m, ReadTo(r))'
  BY Uncounted
<1> QED
  BY <1>1 DEF CountedAreRead

\* The details of a window add no more than what was written in it.
LEMMA DetailsCounted ==
    ASSUME IInv, IInv', CountedAreRead, NEW r \in Reporters, ReadDetails(r)
    PROVE  CountedAreRead'
<1> DEFINE byTopic == Hashes(reading[r], found[r])
           bySource == Hashes(reading[r], Keys(reading[r]))
<1>1. /\ tick[r] = "details" /\ tick' = [tick EXCEPT ![r] = "asleep"]
      /\ number' = Add(number, r, byTopic) /\ UNCHANGED <<reading, stats>>
  BY DEF ReadDetails
<1>2. /\ reading[r] \in Windows /\ TypeOK
      /\ number \in [Reporters -> [Reports -> Nat]]
      /\ tick \in [Reporters -> {"asleep", "combos", "details"}]
  BY <1>1 DEF IInv, FoundIsWritten, TypeOK
<1>3. byTopic \in [Reports -> Nat]
  BY <1>2, HashesType
<1>4. \A m \in Reports : byTopic[m] <= stats[reading[r]][m]
  BY <1>2 DEF Hashes, TypeOK
<1> HIDE DEF byTopic
<1>5. \A p \in Reporters, m \in Reports :
         number'[p][m] = IF p = r THEN number[p][m] + byTopic[m] ELSE number[p][m]
  BY <1>1, <1>2, <1>3, AddAdds
<1>6. ReadTo(r) = reading[r] - 1 /\ ReadTo(r)' = reading[r]
  BY <1>1, <1>2 DEF ReadTo
<1>7. \A p \in Reporters \ {r} : ReadTo(p)' = ReadTo(p)
  BY <1>1, <1>2 DEF ReadTo
<1> SUFFICES ASSUME NEW p \in Reporters, NEW m \in Reports
             PROVE  number'[p][m] <= WrittenTo(m, ReadTo(p))'
  BY DEF CountedAreRead
<1>8. WrittenUpTo(m)' = WrittenUpTo(m)
  BY <1>1 DEF WrittenUpTo
<1>9. number[p][m] <= WrittenTo(m, ReadTo(p))
  BY DEF CountedAreRead
<1>10. CASE p # r
  <2>1. ReadTo(p)' = ReadTo(p) /\ number'[p][m] = number[p][m]
    BY <1>5, <1>7, <1>10
  <2> QED
    BY <2>1, <1>8, <1>9 DEF WrittenTo
<1>11. CASE p = r
  <2> DEFINE f == [w \in Windows |-> stats[w][m]]
             w0 == reading[r]
  <2>1. f \in [Windows -> Nat] /\ f[w0] = stats[w0][m] /\ WrittenUpTo(m) = SumUpTo(f)
    BY <1>2 DEF WrittenUpTo, TypeOK
  <2> HIDE DEF f
  <2>2. /\ SumUpTo(f) \in [Windows -> Nat] /\ SumUpTo(f)[0] = f[0]
        /\ \A w \in Windows : w # 0 => /\ w - 1 \in Windows
                                       /\ SumUpTo(f)[w] = f[w] + SumUpTo(f)[w - 1]
    BY <2>1, SumIsSum
  <2>3. w0 \in Windows /\ w0 \in Nat /\ w0 # NoWindow
    BY <1>2, StatsAssumption DEF Windows, NoWindow
  <2>4. WrittenTo(m, w0)' = SumUpTo(f)[w0]
    BY <2>1, <2>3, <1>1, <1>8 DEF WrittenTo
  <2>5. WrittenTo(m, w0 - 1) + stats[w0][m] = SumUpTo(f)[w0] /\ WrittenTo(m, w0 - 1) \in Nat
    <3>1. CASE w0 = 0
      BY <2>1, <2>2, <2>3, <3>1 DEF WrittenTo, NoWindow
    <3>2. CASE w0 # 0
      <4>1. w0 - 1 # NoWindow /\ w0 - 1 \in Windows
        BY <2>2, <2>3, <3>2 DEF NoWindow
      <4>2. WrittenTo(m, w0 - 1) = SumUpTo(f)[w0 - 1] /\ SumUpTo(f)[w0 - 1] \in Nat
        BY <2>1, <2>2, <4>1 DEF WrittenTo
      <4>3. f[w0] \in Nat
        BY <2>1, <2>3
      <4> QED
        BY <2>1, <2>2, <2>3, <3>2, <4>2, <4>3
    <3> QED
      BY <3>1, <3>2
  <2>6. number[r][m] <= WrittenTo(m, w0 - 1)
    BY <1>6, <1>9, <1>11
  <2>7. number'[r][m] = number[r][m] + byTopic[m] /\ byTopic[m] <= stats[w0][m]
    BY <1>4, <1>5
  <2>8. number[r][m] \in Nat /\ byTopic[m] \in Nat /\ stats[w0][m] \in Nat
    BY <1>2, <1>3, <2>3 DEF TypeOK
  <2>9. number'[r][m] <= SumUpTo(f)[w0]
    BY <2>5, <2>6, <2>7, <2>8
  <2>10. WrittenTo(m, ReadTo(p))' = SumUpTo(f)[w0]
    BY <1>6, <1>8, <1>11, <2>1, <2>3 DEF WrittenTo
  <2> QED
    BY <1>11, <2>9, <2>10
<1> QED
  BY <1>10, <1>11

LEMMA DueNext == ASSUME IInv, IInv', DueIsAhead, [Next]_vars, "early" \notin faults'
                 PROVE  DueIsAhead'
<1>1. /\ clock \in Nat /\ \A r \in Reporters : reading[r] \in Int /\ reading[r] < clock
      /\ due \in [Reporters -> BOOLEAN] /\ reading \in [Reporters -> Windows \cup {NoWindow}]
  BY StatsAssumption DEF IInv, TypeOK, Windows, NoWindow
<1>2. CASE NextWindow
  <2>1. /\ clock' = clock + 1 /\ UNCHANGED reading
        /\ \A r \in Reporters : due'[r] => due[r] \/ Asleep(r)
    BY <1>2 DEF NextWindow
  <2>2. \A r \in Reporters : reading'[r] < clock' - 1
    BY <1>1, <2>1
  <2> QED
    BY <2>2 DEF DueIsAhead
<1>3. ASSUME NEW r \in Reporters, Tick(r) PROVE DueIsAhead'
  BY <1>1, <1>3 DEF Tick, DueIsAhead
<1>4. ASSUME UNCHANGED <<clock, due, reading>> PROVE DueIsAhead'
  BY <1>4 DEF DueIsAhead
<1>5. ASSUME NEW r \in Reporters, ScanCombos(r) \/ ReadDetails(r) \/ ReadFails(r)
      PROVE  UNCHANGED <<clock, due, reading>>
  BY <1>5 DEF ScanCombos, ReadDetails, ReadFails
<1>6. ASSUME NEW r \in Reporters, NEW m \in Reports, OnReport(r, m) \/ WriteStatsWindow(r, m)
      PROVE  UNCHANGED <<clock, due, reading>>
  BY <1>6 DEF OnReport, WriteStatsWindow, loop
<1>7. ASSUME NEW r \in Reporters, Elect(r) PROVE UNCHANGED <<clock, due, reading>>
  BY <1>7 DEF Elect, loop
<1>8. CASE UNCHANGED vars
  BY <1>4, <1>8 DEF vars, loop
<1> QED
  BY <1>2, <1>3, <1>4, <1>5, <1>6, <1>7, <1>8 DEF Next, Loop

LEMMA CountNext == ASSUME IInv, IInv', CountInv, [Next]_vars PROVE CountInv'
<1> SUFFICES ASSUME "early" \notin faults' PROVE DueIsAhead' /\ CountedAreRead'
  BY DEF CountInv
<1>1. /\ tick \in [Reporters -> {"asleep", "combos", "details"}]
      /\ reading \in [Reporters -> Windows \cup {NoWindow}]
      /\ stats \in [Windows -> [Reports -> Nat]]
      /\ \A r \in Reporters : reading[r] \in Int
      /\ \A r \in Reporters : ReadTo(r) \in Int
  <2>1. Windows \cup {NoWindow} \subseteq Int
    BY StatsAssumption DEF Windows, NoWindow
  <2>2. /\ tick \in [Reporters -> {"asleep", "combos", "details"}]
        /\ reading \in [Reporters -> Windows \cup {NoWindow}]
        /\ stats \in [Windows -> [Reports -> Nat]]
    BY DEF IInv, TypeOK
  <2>3. \A r \in Reporters : reading[r] \in Int
    BY <2>1, <2>2
  <2> QED
    BY <2>2, <2>3 DEF ReadTo
<1>2. \A m \in Reports, u \in Windows : stats[u][m] \in Nat /\ stats[u][m] <= stats[u][m]
  BY <1>1
<1>3. "early" \notin faults
  <2>1. faults \subseteq faults'
    BY DEF Next, NextWindow, Elect, Loop, Tick, ScanCombos, ReadDetails, ReadFails,
           OnReport, WriteStatsWindow, Fault, vars
  <2> QED
    BY <2>1
<1>4. DueIsAhead /\ CountedAreRead
  BY <1>3 DEF CountInv
<1>5. DueIsAhead'
  BY <1>4, DueNext
<1>6. ASSUME UNCHANGED <<number, stats, tick, reading>> PROVE CountedAreRead'
  <2>1. \A r \in Reporters : ReadTo(r) <= ReadTo(r)'
    BY <1>1, <1>6 DEF ReadTo
  <2>2. \A m \in Reports, u \in Windows : stats[u][m] <= stats'[u][m]
    BY <1>2, <1>6
  <2> QED
    BY <1>4, <1>6, <2>1, <2>2, NobodyCounts
<1>7. ASSUME NEW r \in Reporters, Tick(r) PROVE CountedAreRead'
  <2>1. /\ due[r] /\ tick[r] = "asleep" /\ tick' = [tick EXCEPT ![r] = "combos"]
        /\ reading' = [reading EXCEPT ![r] = clock - 1] /\ UNCHANGED <<number, stats>>
    BY <1>7 DEF Tick, Fault, Asleep, counters
  <2>2. reading[r] < clock - 1 /\ clock \in Nat
    BY <1>4, <2>1, StatsAssumption DEF DueIsAhead, IInv, TypeOK, Windows
  <2>3. ReadTo(r) = reading[r] /\ ReadTo(r)' = clock - 2
    BY <1>1, <2>1, <2>2 DEF ReadTo
  <2>4. \A p \in Reporters \ {r} : ReadTo(p)' = ReadTo(p)
    BY <1>1, <2>1 DEF ReadTo
  <2>5. \A p \in Reporters : ReadTo(p) <= ReadTo(p)'
    BY <1>1, <2>2, <2>3, <2>4
  <2>6. \A m \in Reports, u \in Windows : stats[u][m] <= stats'[u][m]
    BY <1>2, <2>1
  <2> QED
    BY <1>4, <2>1, <2>5, <2>6, NobodyCounts
<1>8. ASSUME NEW r \in Reporters, ScanCombos(r) \/ ReadFails(r) PROVE CountedAreRead'
  <2>1. /\ tick[r] # "asleep" /\ UNCHANGED <<number, stats, reading>>
        /\ \/ tick' = [tick EXCEPT ![r] = "details"]
           \/ tick' = [tick EXCEPT ![r] = "asleep"]
    BY <1>8 DEF ScanCombos, ReadFails, Asleep, counters
  <2>2. \A p \in Reporters : ReadTo(p) <= ReadTo(p)'
    BY <1>1, <2>1 DEF ReadTo
  <2>3. \A m \in Reports, u \in Windows : stats[u][m] <= stats'[u][m]
    BY <1>2, <2>1
  <2> QED
    BY <1>4, <2>1, <2>2, <2>3, NobodyCounts
<1>9. ASSUME NEW r \in Reporters, ReadDetails(r) PROVE CountedAreRead'
  BY <1>4, <1>9, DetailsCounted
<1>10. ASSUME NEW r \in Reporters, NEW m \in Reports, WriteStatsWindow(r, m)
       PROVE  CountedAreRead'
  <2>1. UNCHANGED <<number, tick, reading>>
    BY <1>10 DEF WriteStatsWindow, loop, counters
  <2>2. \A k \in Reports, u \in Windows :
           stats'[u][k] = stats[u][k] \/ stats'[u][k] = stats[u][k] + 1
    BY <1>1, <1>10 DEF WriteStatsWindow
  <2>3. \A k \in Reports, u \in Windows : stats[u][k] <= stats'[u][k]
    BY <1>2, <2>2
  <2>4. \A p \in Reporters : ReadTo(p) <= ReadTo(p)'
    BY <1>1, <2>1 DEF ReadTo
  <2> QED
    BY <1>4, <2>1, <2>3, <2>4, NobodyCounts
<1>11. ASSUME NextWindow \/ UNCHANGED vars PROVE CountedAreRead'
  BY <1>6, <1>11 DEF NextWindow, vars, loop, counters
<1>12. ASSUME NEW r \in Reporters, Elect(r) PROVE CountedAreRead'
  BY <1>6, <1>12 DEF Elect, loop, counters
<1>13. ASSUME NEW r \in Reporters, NEW m \in Reports, OnReport(r, m) PROVE CountedAreRead'
  BY <1>6, <1>13 DEF OnReport, loop, counters
<1> QED
  BY <1>5, <1>7, <1>8, <1>9, <1>10, <1>11, <1>12, <1>13 DEF Next, Loop

\* However late its timers, no process reads a window twice: it never counts a
\* completion more often than the primaries wrote it, unless a timer fires early.
THEOREM NothingIsCountedTwice == Spec => []NothingCountedTwice
<1>1. Init => IInv /\ CountInv
  BY InitInvariant, InitCount
<1>2. IInv /\ CountInv /\ [Next]_vars => (IInv /\ CountInv)'
  BY NextInvariant, CountNext
<1>3. IInv /\ CountInv => NothingCountedTwice
  <2> SUFFICES ASSUME IInv, CountInv, "early" \notin faults,
                      NEW r \in Reporters, NEW m \in Reports
               PROVE  number[r][m] <= Written(m)
    BY DEF NothingCountedTwice
  <2>1. /\ reading[r] \in Windows \cup {NoWindow} /\ (tick[r] # "asleep" => reading[r] \in Windows)
        /\ TypeOK /\ number[r][m] \in Nat
    BY DEF IInv, TypeOK, FoundIsWritten
  <2>2. ReadTo(r) \in Windows \cup {NoWindow}
    BY <2>1, ReadToType DEF ReadTo
  <2>3. MaxWindow \in Windows /\ ReadTo(r) <= MaxWindow /\ MaxWindow # NoWindow
    BY <2>2, StatsAssumption DEF Windows, NoWindow
  <2>4. number[r][m] <= WrittenTo(m, ReadTo(r))
    BY DEF CountInv, CountedAreRead
  <2>5. WrittenTo(m, ReadTo(r)) <= WrittenTo(m, MaxWindow)
    BY <2>1, <2>2, <2>3, WrittenToGrows
  <2>6. WrittenTo(m, ReadTo(r)) \in Nat /\ WrittenTo(m, MaxWindow) \in Nat
    BY <2>1, <2>2, <2>3, WrittenToType
  <2>7. WrittenTo(m, MaxWindow) = Written(m)
    BY <2>3 DEF WrittenTo, Written
  <2> QED
    BY <2>1, <2>4, <2>5, <2>6, <2>7
<1> QED
  BY <1>1, <1>2, <1>3, PTL DEF Spec
===============================================================================
