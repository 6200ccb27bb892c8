------------------------------ MODULE AriaProofs ------------------------------
(***************************************************************************)
(* The safety properties of AriaClient hold for any number of calls and    *)
(* connections.  They are inductive together with the fact that a socket   *)
(* connectOnce has not created yet is in no state.                         *)
(***************************************************************************)
EXTENDS AriaClient, TLAPS

Fresh == \A s \in Sockets : s > created <=> sock[s] = "none"

IInv == TypeOK /\ Fresh /\ ConnectedIsOpen /\ PendingIsAnswerable

\* The invariant holds when the client has been constructed.
LEMMA InitInvariant == Init => IInv
<1> SUFFICES ASSUME Init PROVE IInv
  OBVIOUS
<1>1. TypeOK
  <2>1. created \in 0 .. MaxSockets /\ current \in 0 .. created
    BY AriaAssumption DEF Init, NoSocket
  <2>2. sock \in [Sockets -> {"none", "connecting", "open", "closing", "closed"}]
    BY DEF Init
  <2>3. via \in [Calls -> 0 .. created]
    BY DEF Init, NoSocket
  <2>4. /\ call \in [Calls -> {"unused", "pending"} \cup Settlements]
        /\ reply \in [Calls -> {"none", "asked", "sent"}]
    BY DEF Init
  <2> QED
    BY <2>1, <2>2, <2>3, <2>4 DEF Init, TypeOK
<1>2. Fresh
  BY AriaAssumption DEF Init, Fresh, Sockets
<1>3. ConnectedIsOpen /\ PendingIsAnswerable
  BY DEF Init, ConnectedIsOpen, PendingIsAnswerable
<1> QED
  BY <1>1, <1>2, <1>3 DEF IInv

\* A new socket disturbs none of those there are.
LEMMA ConnectOnceKeeps ==
    ASSUME IInv, ConnectOnce, run' = "started", UNCHANGED <<connected, call, via, reply>>,
           run \in {"new", "started"}
    PROVE  IInv'
<1> DEFINE n == created + 1
<1>1. /\ n \in Sockets /\ created \in Nat
      /\ sock[n] = "none"
      /\ \A s \in Sockets : s # n => sock'[s] = sock[s]
      /\ sock'[n] = "connecting"
  BY AriaAssumption DEF IInv, TypeOK, Fresh, ConnectOnce, Sockets
<1>2. TypeOK'
  <2>1. created' = n /\ n \in 0 .. MaxSockets /\ n # NoSocket
    BY <1>1, AriaAssumption DEF ConnectOnce, NoSocket
  <2>2. current' = n /\ current' \in 0 .. created'
    BY <2>1, <1>1 DEF ConnectOnce
  <2>3. sock' \in [Sockets -> {"none", "connecting", "open", "closing", "closed"}]
    BY DEF IInv, TypeOK, ConnectOnce
  <2>4. via' \in [Calls -> 0 .. created']
    BY <2>1, <1>1 DEF IInv, TypeOK
  <2> QED
    BY <2>1, <2>2, <2>3, <2>4 DEF IInv, TypeOK
<1>3. Fresh'
  BY <1>1, AriaAssumption DEF IInv, TypeOK, Fresh, ConnectOnce, Sockets
<1>4. ConnectedIsOpen'
  BY <1>1 DEF IInv, ConnectedIsOpen, Open
<1>5. PendingIsAnswerable'
  <2> SUFFICES ASSUME NEW r \in Calls, call[r] = "pending"
               PROVE  Open(via[r])'
    BY DEF PendingIsAnswerable
  <2>1. Open(via[r]) /\ via[r] \in 0 .. created
    BY DEF IInv, TypeOK, PendingIsAnswerable
  <2>2. via[r] # n
    BY <2>1, <1>1
  <2> QED
    BY <2>1, <2>2 DEF Open, ConnectOnce, IInv, TypeOK
<1> QED
  BY <1>2, <1>3, <1>4, <1>5 DEF IInv

\* When a socket closes nothing is pending and the flag is down.
LEMMA ClosedKeeps ==
    ASSUME IInv, NEW s \in Sockets, Closed(s)
    PROVE  IInv'
<1>1. ~connected' /\ \A r \in Calls : call'[r] # "pending"
  BY DEF Closed, FailAllPending
<1>2. TypeOK'
  BY DEF IInv, TypeOK, Closed, FailAllPending, Settlements
<1>3. Fresh'
  BY DEF IInv, TypeOK, Fresh, Closed
<1> QED
  BY <1>1, <1>2, <1>3 DEF IInv, ConnectedIsOpen, PendingIsAnswerable

\* Nor when the client is stopped.
LEMMA StopKeeps ==
    ASSUME IInv, Stop
    PROVE  IInv'
<1>1. ~connected' /\ \A r \in Calls : call'[r] # "pending"
  BY DEF Stop, FailAllPending
<1>2. TypeOK'
  <2>1. current' = NoSocket /\ run' = "stopped" /\ created' = created
        /\ current' \in 0 .. created'
    BY AriaAssumption DEF IInv, TypeOK, Stop, NoSocket
  <2>2. sock' \in [Sockets -> {"none", "connecting", "open", "closing", "closed"}]
    BY DEF IInv, TypeOK, Stop
  <2>3. call' \in [Calls -> {"unused", "pending"} \cup Settlements]
    BY DEF IInv, TypeOK, Stop, FailAllPending, Settlements
  <2> QED
    BY <2>1, <2>2, <2>3, <1>1 DEF IInv, TypeOK, Stop
<1>3. Fresh'
  BY DEF IInv, TypeOK, Fresh, Stop
<1> QED
  BY <1>1, <1>2, <1>3 DEF IInv, ConnectedIsOpen, PendingIsAnswerable

\* A call that is accepted goes out on the current socket, which is open.
LEMMA CallKeeps ==
    ASSUME IInv, NEW r \in Calls, Call(r)
    PROVE  IInv'
<1>1. TypeOK'
  BY DEF IInv, TypeOK, Call, Settlements
<1>2. Fresh' /\ ConnectedIsOpen'
  BY DEF IInv, Fresh, ConnectedIsOpen, Open, Call
<1>3. PendingIsAnswerable'
  <2> SUFFICES ASSUME NEW q \in Calls, call'[q] = "pending"
               PROVE  run' = "started" /\ Open(via[q])'
    BY DEF PendingIsAnswerable
  <2>1. CASE q # r
    BY <2>1 DEF IInv, TypeOK, PendingIsAnswerable, Open, Call
  <2>2. CASE q = r
    <3>1. Usable
      BY <2>2 DEF IInv, TypeOK, Call
    <3> QED
      BY <2>2, <3>1 DEF IInv, TypeOK, Usable, Open, Call
  <2> QED
    BY <2>1, <2>2
<1> QED
  BY <1>1, <1>2, <1>3 DEF IInv

\* Every step keeps the invariant.
LEMMA NextKeeps == IInv /\ [Next]_vars => IInv'
<1> SUFFICES ASSUME IInv, [Next]_vars PROVE IInv'
  OBVIOUS
<1>1. CASE Start
  BY <1>1, ConnectOnceKeeps DEF Start
<1>2. CASE Retry
  BY <1>2, ConnectOnceKeeps DEF Retry
<1>3. CASE Stop
  BY <1>3, StopKeeps
<1>4. ASSUME NEW s \in Sockets, Opened(s) PROVE IInv'
  <2>1. TypeOK' /\ Fresh' /\ ConnectedIsOpen'
    BY <1>4 DEF IInv, TypeOK, Fresh, ConnectedIsOpen, Open, Opened
  <2>2. PendingIsAnswerable'
    BY <1>4 DEF IInv, TypeOK, PendingIsAnswerable, Open, Opened
  <2> QED
    BY <2>1, <2>2 DEF IInv
<1>5. ASSUME NEW s \in Sockets, Closed(s) PROVE IInv'
  BY <1>5, ClosedKeeps
<1>6. ASSUME NEW r \in Calls, Call(r) PROVE IInv'
  BY <1>6, CallKeeps
<1>7. ASSUME NEW r \in Calls,
             Served(r) \/ TimedOut(r) \/ \E how \in Settlements : Answered(r, how)
      PROVE  IInv'
  <2>1. TypeOK'
    BY <1>7 DEF IInv, TypeOK, Served, TimedOut, Answered, Settlements
  <2>2. UNCHANGED <<created, sock, connected>>
    BY <1>7 DEF Served, TimedOut, Answered
  <2>3. Fresh' /\ ConnectedIsOpen'
    BY <2>2 DEF IInv, Fresh, ConnectedIsOpen, Open
  <2>4. \A q \in Calls : call'[q] = "pending" => call[q] = "pending"
    BY <1>7 DEF IInv, TypeOK, Served, TimedOut, Answered
  <2>5. PendingIsAnswerable'
    BY <1>7, <2>4 DEF IInv, PendingIsAnswerable, Open, Served, TimedOut, Answered
  <2> QED
    BY <2>1, <2>3, <2>5 DEF IInv
<1>8. CASE UNCHANGED vars
  BY <1>8 DEF vars, IInv, TypeOK, Fresh, ConnectedIsOpen, PendingIsAnswerable, Open
<1> QED
  BY <1>1, <1>2, <1>3, <1>4, <1>5, <1>6, <1>7, <1>8 DEF Next

\* The strengthened invariant of every behaviour.
THEOREM Invariant == Spec => []IInv
  BY InitInvariant, NextKeeps, PTL DEF Spec

\* The client's variables keep their types, and this.socket is set exactly while
\* the client runs.
THEOREM TypeCorrect == Spec => []TypeOK
  BY Invariant, PTL DEF IInv

\* connected is never true without an open socket, however the callbacks of
\* overlapping sockets interleave.
THEOREM ConnectedIsBacked == Spec => []ConnectedIsOpen
  BY Invariant, PTL DEF IInv

\* No call is ever left waiting on a socket that is gone or on a stopped client.
THEOREM PendingCallsAreAnswerable == Spec => []PendingIsAnswerable
  BY Invariant, PTL DEF IInv
=============================================================================
