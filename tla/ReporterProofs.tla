---------------------------- MODULE ReporterProofs -----------------------------
(***************************************************************************)
(* For any processes, any changes of the primary and any losses: nothing   *)
(* stored in time is reported missed, and one primary writes no line twice.*)
(* The first needs the order in which the record, the marker and its       *)
(* expiry change; the second that the DOWNLOADER publishes at most once,   *)
(* and that a line not yet written is still owed by the primary alone.     *)
(***************************************************************************)
EXTENDS Reporter, SequenceTheorems, TLAPS

\* Before its report is published nobody has it, and no line comes from it.
PublishedOnce ==
    stage \notin {"stored", "failed"} =>
        /\ \A r \in Reporters : messages[r] = <<>>
        /\ \A i \in DOMAIN lines : lines[i] = "missed"

\* A marker that has not expired has told nobody of its expiry.
ExpiryInv ==
    marker # "expired" =>
        /\ \A r \in Reporters : expiry[r] = "none"
        /\ "missed" \notin Range(lines)

\* Who reads the record of a download stored in time sees that it is complete.
ReadersSee ==
    record = "in time" =>
        /\ \A r \in Reporters : expiry[r] = "reading" => seen[r]
        /\ "missed" \notin Range(lines)

\* Under one primary, what it has still to write is not among the lines.
OwedByPrimary ==
    switches = 0 =>
        /\ \A p, q \in primary : p = q
        /\ \A r \in Reporters : expiry[r] = "reading" => r \in primary
        /\ \A r \in primary :
              /\ messages[r] # <<>> => Head(messages[r]) \notin Range(lines)
              /\ expiry[r] # "over" => "missed" \notin Range(lines)

IInv == TypeOK /\ PublishedOnce /\ ExpiryInv /\ ReadersSee /\ OwedByPrimary /\ NoLineTwice

\* A sequence one line longer: what it contains, and when no line repeats.
LEMMA AppendLine ==
    ASSUME NEW S, NEW s \in Seq(S), NEW x \in S
    PROVE  /\ Append(s, x) \in Seq(S)
           /\ Range(Append(s, x)) = Range(s) \cup {x}
           /\ IsInjective(s) /\ x \notin Range(s) => IsInjective(Append(s, x))
<1> DEFINE t == Append(s, x)
<1>1. /\ t \in Seq(S)
      /\ Len(s) \in Nat
      /\ DOMAIN s = 1 .. Len(s)
      /\ DOMAIN t = 1 .. Len(s) + 1
      /\ t[Len(s) + 1] = x
      /\ \A i \in 1 .. Len(s) : t[i] = s[i]
  OBVIOUS
<1> HIDE DEF t
<1>2. Range(t) = Range(s) \cup {x}
  <2>1. Range(t) \subseteq Range(s) \cup {x}
    <3> SUFFICES ASSUME NEW i \in 1 .. Len(s) + 1 PROVE t[i] \in Range(s) \cup {x}
      BY <1>1 DEF Range
    <3>1. CASE i = Len(s) + 1
      BY <3>1, <1>1
    <3>2. CASE i \in 1 .. Len(s)
      BY <3>2, <1>1 DEF Range
    <3> QED
      BY <3>1, <3>2, <1>1
  <2>2. Range(s) \cup {x} \subseteq Range(t)
    <3>1. ASSUME NEW i \in 1 .. Len(s) PROVE s[i] \in Range(t)
      <4>1. i \in DOMAIN t /\ t[i] = s[i]
        BY <1>1
      <4> QED
        BY <4>1 DEF Range
    <3>2. x \in Range(t)
      <4>1. Len(s) + 1 \in DOMAIN t /\ t[Len(s) + 1] = x
        BY <1>1
      <4> QED
        BY <4>1 DEF Range
    <3> QED
      BY <3>1, <3>2, <1>1 DEF Range
  <2> QED
    BY <2>1, <2>2
<1>3. ASSUME IsInjective(s), x \notin Range(s) PROVE IsInjective(t)
  <2> SUFFICES ASSUME NEW i \in 1 .. Len(s) + 1, NEW j \in 1 .. Len(s) + 1, t[i] = t[j]
               PROVE  i = j
    BY <1>1 DEF IsInjective
  <2>1. \A k \in 1 .. Len(s) : t[k] # x
    BY <1>1, <1>3 DEF Range
  <2>2. CASE i \in 1 .. Len(s) /\ j \in 1 .. Len(s)
    BY <2>2, <1>1, <1>3 DEF IsInjective
  <2>3. CASE i = Len(s) + 1 \/ j = Len(s) + 1
    BY <2>1, <2>3, <1>1
  <2> QED
    BY <2>2, <2>3, <1>1
<1> QED
  BY <1>1, <1>2, <1>3 DEF t

\* What the subscription of a process has not delivered is at most one report.
Outcomes == {"cached", "late", "failed"}

\* A sequence of at most one element: delivering it leaves nothing.
LEMMA ShortSequence ==
    ASSUME NEW S, NEW s \in Seq(S), Len(s) <= 1, s # <<>>
    PROVE  Head(s) \in S /\ Tail(s) = <<>>
<1>1. Len(Tail(s)) = 0 /\ Tail(s) \in Seq(S) /\ Head(s) \in S
  <2>1. Len(s) \in Nat /\ Len(s) # 0
    BY EmptySeq, LenProperties
  <2>2. Head(s) \in S /\ Tail(s) \in Seq(S) /\ Len(Tail(s)) = Len(s) - 1
    BY HeadTailProperties
  <2> QED
    BY <2>1, <2>2
<1> QED
  BY <1>1, EmptySeq

\* A report published to a process that has none.
LEMMA FirstReport ==
    ASSUME NEW S, NEW m \in S
    PROVE  /\ Append(<<>>, m) \in Seq(S) /\ Len(Append(<<>>, m)) = 1
           /\ Append(<<>>, m) # <<>> /\ Head(Append(<<>>, m)) = m
<1>1. <<>> \in Seq(S) /\ Len(<<>>) = 0
  BY EmptySeq
<1> QED
  BY <1>1, AppendProperties, HeadTailAppend

\* The invariant holds when the notification is accepted.
LEMMA InitInvariant == Init => IInv
<1> SUFFICES ASSUME Init PROVE IInv
  OBVIOUS
<1>1. TypeOK
  <2>1. /\ messages \in [Reporters -> Seq({"cached", "late", "failed"})]
        /\ \A r \in Reporters : Len(messages[r]) <= 1
        /\ lines \in Seq(Statuses)
    BY EmptySeq DEF Init
  <2>2. primary \subseteq Reporters /\ switches \in 0 .. MaxSwitches /\ losses \in 0 .. MaxLosses
    BY ReporterAssumption DEF Init
  <2> QED
    BY <2>1, <2>2 DEF Init, TypeOK, Working
<1>2. Range(lines) = {} /\ IsInjective(lines)
  BY DEF Init, Range, IsInjective
<1>3. PublishedOnce /\ ExpiryInv /\ ReadersSee /\ OwedByPrimary /\ NoLineTwice
  BY <1>2 DEF Init, PublishedOnce, ExpiryInv, ReadersSee, OwedByPrimary, NoLineTwice
<1> QED
  BY <1>1, <1>3 DEF IInv

\* Every step keeps the invariant.
LEMMA NextInvariant == IInv /\ [Next]_vars => IInv'
<1> SUFFICES ASSUME IInv, [Next]_vars PROVE IInv'
  OBVIOUS
<1> USE DEF IInv
<1>1. ASSUME DeadlinePasses \/ Verify \/ Abandon PROVE IInv'
  <2>1. TypeOK'
    BY <1>1 DEF DeadlinePasses, Verify, Abandon, TypeOK, Working, Final, logging
  <2>2. PublishedOnce' /\ ExpiryInv' /\ ReadersSee' /\ OwedByPrimary' /\ NoLineTwice'
    BY <1>1 DEF DeadlinePasses, Verify, Abandon, PublishedOnce, ExpiryInv, ReadersSee,
                OwedByPrimary, NoLineTwice, logging
  <2> QED
    BY <2>1, <2>2
<1>2. ASSUME RecordComplete PROVE IInv'
  <2>1. TypeOK'
    BY <1>2 DEF RecordComplete, TypeOK, Working, Final, logging
  <2>2. ReadersSee'
    BY <1>2 DEF RecordComplete, ReadersSee, ExpiryInv, logging
  <2>3. PublishedOnce' /\ ExpiryInv' /\ OwedByPrimary' /\ NoLineTwice'
    BY <1>2 DEF RecordComplete, PublishedOnce, ExpiryInv, OwedByPrimary, NoLineTwice, logging
  <2> QED
    BY <2>1, <2>2, <2>3
<1>3. ASSUME DeleteMarker PROVE IInv'
  <2>1. TypeOK'
    BY <1>3 DEF DeleteMarker, Unmarked, TypeOK, Working, Final, logging
  <2>2. PublishedOnce' /\ ExpiryInv' /\ ReadersSee' /\ OwedByPrimary' /\ NoLineTwice'
    BY <1>3 DEF DeleteMarker, Unmarked, PublishedOnce, ExpiryInv, ReadersSee, OwedByPrimary,
                NoLineTwice, logging
  <2> QED
    BY <2>1, <2>2
<1>4. ASSUME PublishReport PROVE IInv'
  <2>1. PICK m \in Outcomes : Publish(m)
    BY <1>4 DEF PublishReport, Outcomes
  <2>2. \A r \in Reporters : messages'[r] = Append(<<>>, m)
    <3>1. \A r \in Reporters : messages[r] = <<>>
      BY <1>4 DEF PublishReport, PublishedOnce
    <3> QED
      BY <2>1, <3>1 DEF Publish
  <2>3. messages' \in [Reporters -> Seq(Outcomes)]
    BY <2>1, <2>2, FirstReport DEF Publish
  <2>4. TypeOK'
    <3>1. ASSUME NEW r \in Reporters PROVE Len(messages'[r]) <= 1
      <4>1. Len(Append(<<>>, m)) = 1 /\ 1 <= 1
        BY <2>1, FirstReport
      <4>2. messages'[r] = Append(<<>>, m)
        BY <2>2
      <4> QED
        BY <4>1, <4>2, Zenon
    <3> QED
      BY <1>4, <2>3, <3>1 DEF PublishReport, TypeOK, Working, Final, Outcomes
  <2>5. Range(lines') = Range(lines) /\ m \notin Range(lines)
    BY <1>4, <2>1 DEF PublishReport, PublishedOnce, Outcomes, Range
  <2>6. OwedByPrimary'
    <3>1. UNCHANGED <<switches, primary, expiry, lines>>
      BY <1>4 DEF PublishReport
    <3>2. \A r \in Reporters : Head(messages'[r]) = m
      BY <2>1, <2>2, FirstReport
    <3>3. primary \subseteq Reporters
      BY DEF TypeOK
    <3> QED
      BY <2>5, <3>1, <3>2, <3>3 DEF OwedByPrimary
  <2>7. PublishedOnce' /\ ExpiryInv' /\ ReadersSee' /\ NoLineTwice'
    BY <1>4 DEF PublishReport, PublishedOnce, ExpiryInv, ReadersSee, NoLineTwice
  <2> QED
    BY <2>4, <2>6, <2>7
<1>5. ASSUME MarkerExpires PROVE IInv'
  <2>1. TypeOK'
    BY <1>5 DEF MarkerExpires, TypeOK
  <2>2. "missed" \notin Range(lines) /\ lines' = lines
    BY <1>5 DEF MarkerExpires, ExpiryInv
  <2>3. PublishedOnce' /\ ExpiryInv' /\ ReadersSee' /\ OwedByPrimary' /\ NoLineTwice'
    BY <1>5, <2>2 DEF MarkerExpires, PublishedOnce, ExpiryInv, ReadersSee, OwedByPrimary,
                      NoLineTwice
  <2> QED
    BY <2>1, <2>3
<1>6. ASSUME NEW r \in Reporters, Elect(r) PROVE IInv'
  <2>1. TypeOK' /\ switches' # 0
    <3>1. switches' \in 0 .. MaxSwitches /\ switches' # 0 /\ primary' \subseteq Reporters
      <4>1. switches \in 0 .. MaxSwitches /\ primary \subseteq Reporters
        BY DEF TypeOK
      <4> QED
        BY <1>6, <4>1, ReporterAssumption DEF Elect
    <3> QED
      BY <1>6, <3>1 DEF Elect, TypeOK, download, logging
  <2>2. PublishedOnce' /\ ExpiryInv' /\ ReadersSee' /\ OwedByPrimary' /\ NoLineTwice'
    BY <1>6, <2>1 DEF Elect, PublishedOnce, ExpiryInv, ReadersSee, OwedByPrimary, NoLineTwice, download, logging
  <2> QED
    BY <2>1, <2>2
<1>7. ASSUME NEW r \in Reporters, OnReport(r) PROVE IInv'
  <2> DEFINE m == Head(messages[r])
  <2>1. m \in Outcomes /\ messages'[r] = <<>> /\ messages[r] # <<>>
    <3>1. messages[r] \in Seq(Outcomes) /\ Len(messages[r]) <= 1 /\ messages[r] # <<>>
      BY <1>7 DEF OnReport, TypeOK, Outcomes
    <3>2. m \in Outcomes /\ Tail(messages[r]) = <<>>
      BY <3>1, ShortSequence
    <3>3. messages'[r] = Tail(messages[r])
      BY <1>7 DEF OnReport, TypeOK
    <3> QED
      BY <3>1, <3>2, <3>3
  <2> HIDE DEF m
  <2>2. /\ messages' \in [Reporters -> Seq(Outcomes)]
        /\ \A p \in Reporters \ {r} : messages'[p] = messages[p]
    <3>1. \A p \in Reporters \ {r} : messages'[p] = messages[p]
      BY <1>7 DEF OnReport, TypeOK
    <3>2. messages' \in [Reporters -> Seq(Outcomes)]
      <4>1. <<>> \in Seq(Outcomes)
        BY EmptySeq
      <4>2. messages' = [messages EXCEPT ![r] = <<>>]
        BY <1>7, <2>1 DEF OnReport, TypeOK
      <4> QED
        BY <4>1, <4>2 DEF TypeOK, Outcomes
    <3> QED
      BY <3>1, <3>2
  <2>3. m \in Statuses /\ m # "missed" /\ lines \in Seq(Statuses)
    BY <2>1 DEF Statuses, Outcomes, TypeOK
  <2>4. lines' = (IF r \in primary THEN Append(lines, m) ELSE lines)
    BY <1>7 DEF OnReport, m
  <2>5. /\ lines' \in Seq(Statuses)
        /\ Range(lines') = (IF r \in primary THEN Range(lines) \cup {m} ELSE Range(lines))
        /\ IsInjective(lines) /\ (r \in primary => m \notin Range(lines)) => IsInjective(lines')
    <3>1. CASE r \in primary
      BY <2>3, <2>4, <3>1, AppendLine
    <3>2. CASE r \notin primary
      BY <2>3, <2>4, <3>2
    <3> QED
      BY <3>1, <3>2
  <2>6. TypeOK'
    <3>1. \A p \in Reporters : Len(messages'[p]) <= 1
      <4>1. Len(<<>>) = 0
        BY EmptySeq
      <4>2. \A p \in Reporters : Len(messages[p]) <= 1
        BY DEF TypeOK
      <4> QED
        BY <2>1, <2>2, <4>1, <4>2
    <3> QED
      BY <1>7, <2>2, <2>5, <3>1 DEF OnReport, TypeOK, Outcomes, download
  <2>7. PublishedOnce'
    BY <1>7, <2>1 DEF OnReport, PublishedOnce, download
  <2>8. ExpiryInv' /\ ReadersSee'
    BY <1>7, <2>3, <2>5 DEF OnReport, ExpiryInv, ReadersSee, download
  <2>9. switches = 0 /\ r \in primary => m \notin Range(lines)
    BY <2>1 DEF OwedByPrimary, m
  <2>10. NoLineTwice'
    BY <1>7, <2>5, <2>9 DEF OnReport, NoLineTwice
  <2>11. OwedByPrimary'
    <3> SUFFICES ASSUME switches = 0
                 PROVE  /\ \A p, q \in primary : p = q
                        /\ \A p \in Reporters : expiry[p] = "reading" => p \in primary
                        /\ \A p \in primary :
                              /\ messages'[p] # <<>> => Head(messages'[p]) \notin Range(lines')
                              /\ expiry[p] # "over" => "missed" \notin Range(lines')
      BY <1>7 DEF OnReport, OwedByPrimary
    <3>1. ASSUME NEW p \in primary, messages'[p] # <<>>
          PROVE  Head(messages'[p]) \notin Range(lines')
      <4>1. p # r /\ p \in Reporters
        BY <2>1, <3>1 DEF TypeOK
      <4>2. r \notin primary
        BY <4>1 DEF OwedByPrimary
      <4> QED
        BY <2>2, <2>5, <3>1, <4>1, <4>2 DEF OwedByPrimary
    <3>2. ASSUME NEW p \in primary, expiry[p] # "over" PROVE "missed" \notin Range(lines')
      BY <2>3, <2>5, <3>2 DEF OwedByPrimary
    <3> QED
      BY <3>1, <3>2 DEF OwedByPrimary
  <2> QED
    BY <2>6, <2>7, <2>8, <2>10, <2>11
<1>8. ASSUME NEW r \in Reporters, OnExpired(r) PROVE IInv'
  <2>1. TypeOK'
    BY <1>8, Zenon DEF OnExpired, TypeOK, download
  <2>2. PublishedOnce' /\ ExpiryInv' /\ NoLineTwice'
    BY <1>8 DEF OnExpired, PublishedOnce, ExpiryInv, NoLineTwice, download,
                TypeOK
  <2>3. ReadersSee'
    BY <1>8 DEF OnExpired, ReadersSee, download, TypeOK
  <2>4. OwedByPrimary'
    BY <1>8 DEF OnExpired, OwedByPrimary, download, TypeOK
  <2> QED
    BY <2>1, <2>2, <2>3, <2>4
<1>9. ASSUME NEW r \in Reporters, LogMissed(r) PROVE IInv'
  <2>1. lines \in Seq(Statuses) /\ "missed" \in Statuses
    BY DEF TypeOK, Statuses
  <2>2. /\ lines' \in Seq(Statuses)
        /\ Range(lines') = (IF seen[r] THEN Range(lines) ELSE Range(lines) \cup {"missed"})
        /\ IsInjective(lines) /\ "missed" \notin Range(lines) => IsInjective(lines')
    <3>1. CASE seen[r]
      BY <1>9, <2>1, <3>1 DEF LogMissed
    <3>2. CASE ~seen[r]
      BY <1>9, <2>1, <3>2, AppendLine DEF LogMissed
    <3> QED
      BY <3>1, <3>2
  <2>3. TypeOK'
    BY <1>9, <2>2 DEF LogMissed, TypeOK, download
  <2>4. marker = "expired"
    BY <1>9 DEF LogMissed, ExpiryInv
  <2>5. PublishedOnce'
    <3>1. \A i \in DOMAIN lines' : lines'[i] = "missed" \/ (i \in DOMAIN lines /\ lines'[i] = lines[i])
      BY <1>9, <2>1 DEF LogMissed
    <3> QED
      BY <1>9, <3>1 DEF LogMissed, PublishedOnce, download
  <2>6. ExpiryInv' /\ ReadersSee'
    BY <1>9, <2>2, <2>4 DEF LogMissed, ExpiryInv, ReadersSee, download, TypeOK
  <2>7. switches = 0 => r \in primary /\ "missed" \notin Range(lines)
    BY <1>9 DEF LogMissed, OwedByPrimary
  <2>8. NoLineTwice'
    BY <1>9, <2>2, <2>7 DEF LogMissed, NoLineTwice
  <2>9. OwedByPrimary'
    <3> SUFFICES ASSUME switches = 0
                 PROVE  /\ \A p, q \in primary : p = q
                        /\ \A p \in Reporters : expiry'[p] = "reading" => p \in primary
                        /\ \A p \in primary :
                              /\ messages[p] # <<>> => Head(messages[p]) \notin Range(lines')
                              /\ expiry'[p] # "over" => "missed" \notin Range(lines')
      BY <1>9 DEF LogMissed, OwedByPrimary
    <3>1. \A p \in primary : p = r
      BY <2>7 DEF OwedByPrimary
    <3>2. expiry'[r] = "over"
      BY <1>9 DEF LogMissed, TypeOK
    <3>3. messages[r] # <<>> => Head(messages[r]) # "missed"
      <4>1. messages[r] \in Seq(Outcomes) /\ Len(messages[r]) <= 1
        BY DEF TypeOK, Outcomes
      <4> QED
        BY <4>1, ShortSequence DEF Outcomes
    <3>4. \A p \in Reporters : expiry'[p] = "reading" => expiry[p] = "reading"
      BY <1>9 DEF LogMissed, TypeOK
    <3> QED
      BY <2>2, <2>7, <3>1, <3>2, <3>3, <3>4 DEF OwedByPrimary
  <2> QED
    BY <2>3, <2>5, <2>6, <2>8, <2>9
<1>10. ASSUME Loss PROVE IInv'
  <2>1. /\ messages' \in [Reporters -> Seq(Outcomes)]
        /\ \A r \in Reporters : messages'[r] \in {messages[r], <<>>}
    <3>1. <<>> \in Seq(Outcomes) /\ messages \in [Reporters -> Seq(Outcomes)]
      BY EmptySeq DEF TypeOK, Outcomes
    <3>2. messages' = messages \/ \E r \in Reporters : messages' = [messages EXCEPT ![r] = <<>>]
      BY <1>10 DEF Loss
    <3> QED
      BY <3>1, <3>2
  <2>2. /\ expiry' \in [Reporters -> {"none", "sent", "reading", "over"}]
        /\ \A r \in Reporters : \/ expiry'[r] = expiry[r]
                             \/ (expiry'[r] = "over" /\ expiry[r] # "none")
    BY <1>10 DEF Loss, TypeOK
  <2>3. stage' = stage \/ (stage \in Working /\ stage' = "stopped")
    BY <1>10 DEF Loss
  <2>4. TypeOK'
    <3>1. losses' \in 0 .. MaxLosses
      <4>1. losses \in 0 .. MaxLosses
        BY DEF TypeOK
      <4> QED
        BY <1>10, <4>1, ReporterAssumption DEF Loss
    <3>2. \A r \in Reporters : Len(messages'[r]) <= 1
      <4>1. Len(<<>>) = 0
        BY EmptySeq
      <4>2. \A r \in Reporters : Len(messages[r]) <= 1
        BY DEF TypeOK
      <4> QED
        BY <2>1, <4>1, <4>2
    <3> QED
      BY <1>10, <2>1, <2>2, <2>3, <3>1, <3>2 DEF Loss, TypeOK, Working, Final, Outcomes
  <2>5. PublishedOnce'
    BY <1>10, <2>1, <2>3 DEF Loss, PublishedOnce, Working
  <2>6. ExpiryInv' /\ ReadersSee' /\ NoLineTwice'
    BY <1>10, <2>2 DEF Loss, ExpiryInv, ReadersSee, NoLineTwice
  <2>7. OwedByPrimary'
    BY <1>10, <2>1, <2>2 DEF Loss, OwedByPrimary, TypeOK
  <2> QED
    BY <2>4, <2>5, <2>6, <2>7
<1>11. ASSUME UNCHANGED vars PROVE IInv'
  <2>1. TypeOK'
    BY <1>11 DEF vars, TypeOK, download, logging
  <2>2. PublishedOnce' /\ ExpiryInv' /\ ReadersSee' /\ OwedByPrimary' /\ NoLineTwice'
    BY <1>11 DEF vars, PublishedOnce, ExpiryInv, ReadersSee, OwedByPrimary, NoLineTwice,
                 download, logging
  <2> QED
    BY <2>1, <2>2
<1> QED
  BY <1>1, <1>2, <1>3, <1>4, <1>5, <1>6, <1>7, <1>8, <1>9, <1>10, <1>11
  DEF Next, Download, Report

LEMMA Invariant == Spec => []IInv
<1> QED
  BY InitInvariant, NextInvariant, PTL DEF Spec

\* Every variable keeps its type; in particular no process has two reports to
\* deal with, since at most one is published.
THEOREM TypeCorrect == Spec => []TypeOK
<1>1. IInv => TypeOK
  BY DEF IInv
<1> QED
  BY <1>1, Invariant, PTL

\* While the primary does not change, no outcome is written twice.
THEOREM NoLineIsWrittenTwice == Spec => []NoLineTwice
<1>1. IInv => NoLineTwice
  BY DEF IInv
<1> QED
  BY <1>1, Invariant, PTL

\* What was recorded complete while its marker stood is never reported missed.
THEOREM InTimeIsNotMissed == Spec => []CompleteIsNotMissed
<1>1. IInv => CompleteIsNotMissed
  BY DEF IInv, ReadersSee, CompleteIsNotMissed
<1> QED
  BY <1>1, Invariant, PTL
=============================================================================
