------------------------------ MODULE AriaClient ------------------------------
(***************************************************************************)
(* The websocket client a DOWNLOADER worker of wis2hauler talks to aria2   *)
(* with: the connection and its reconnect timer, the JSON-RPC calls and    *)
(* their timeouts.  File: src/downloader/aria2.ts.                         *)
(*                                                                         *)
(* Sockets are numbered in the order connectOnce creates them.  The timer  *)
(* starts another one while an earlier one is still connecting, and the    *)
(* callbacks of every one of them act on the same client.                  *)
(***************************************************************************)
EXTENDS Naturals

CONSTANTS
    Calls,      \* calls of addUri and tellStatus, one per id
    MaxSockets  \* bound: connections tried

ASSUME AriaAssumption == MaxSockets \in Nat

VARIABLES
    run,        \* the client: new, started, stopped
    created,    \* how many sockets there have been
    sock,       \* the state of each
    current,    \* this.socket, NoSocket for null
    connected,  \* this.connected
    call,       \* each call: unused, pending, then how it settled
    via,        \* the socket it was sent on
    reply       \* aria2's side of it: none, asked, sent

vars == <<run, created, sock, current, connected, call, via, reply>>

Sockets == 1 .. MaxSockets
NoSocket == 0
Settlements == {"resolved", "rejected", "timed out"}

TypeOK ==
    /\ run \in {"new", "started", "stopped"}
    /\ created \in 0 .. MaxSockets
    /\ sock \in [Sockets -> {"none", "connecting", "open", "closing", "closed"}]
    /\ current \in 0 .. created
    /\ current # NoSocket <=> run = "started"
    /\ connected \in BOOLEAN
    /\ call \in [Calls -> {"unused", "pending"} \cup Settlements]
    /\ via \in [Calls -> 0 .. created]
    /\ reply \in [Calls -> {"none", "asked", "sent"}]

Init ==
    /\ run = "new"
    /\ created = 0
    /\ sock = [s \in Sockets |-> "none"]
    /\ current = NoSocket
    /\ connected = FALSE
    /\ call = [r \in Calls |-> "unused"]
    /\ via = [r \in Calls |-> NoSocket]
    /\ reply = [r \in Calls |-> "none"]

-----------------------------------------------------------------------------
(* The connection                                                          *)

FailAllPending == call' = [r \in Calls |-> IF call[r] = "pending" THEN "rejected"
                                           ELSE call[r]]

ConnectOnce ==
    /\ created < MaxSockets
    /\ created' = created + 1
    /\ sock' = [sock EXCEPT ![created + 1] = "connecting"]
    /\ current' = created + 1

Start ==
    /\ run = "new"
    /\ run' = "started"
    /\ ConnectOnce
    /\ UNCHANGED <<connected, call, via, reply>>

\* The five-second timer looks at the flag, not at the socket.
Retry ==
    /\ run = "started"
    /\ ~connected
    /\ ConnectOnce
    /\ UNCHANGED <<run, connected, call, via, reply>>

\* onopen, of whichever socket
Opened(s) ==
    /\ sock[s] = "connecting"
    /\ sock' = [sock EXCEPT ![s] = "open"]
    /\ connected' = TRUE
    /\ UNCHANGED <<run, created, current, call, via, reply>>

\* Mutation: the flag is not cleared.
MutClosed(s) ==
    /\ sock[s] \in {"connecting", "open", "closing"}
    /\ sock' = [sock EXCEPT ![s] = "closed"]
    /\ FailAllPending
    /\ UNCHANGED <<run, created, current, connected, via, reply>>

\* Mutation: the calls under way wait for their timeouts.
MutClosedQuietly(s) ==
    /\ sock[s] \in {"connecting", "open", "closing"}
    /\ sock' = [sock EXCEPT ![s] = "closed"]
    /\ connected' = FALSE
    /\ UNCHANGED <<run, created, current, call, via, reply>>

\* onclose, of whichever socket: refused, dropped, or closed by stop
Closed(s) ==
    /\ sock[s] \in {"connecting", "open", "closing"}
    /\ sock' = [sock EXCEPT ![s] = "closed"]
    /\ connected' = FALSE
    /\ FailAllPending
    /\ UNCHANGED <<run, created, current, via, reply>>

\* Mutation: this.socket is kept.
MutStop ==
    /\ run = "started"
    /\ run' = "stopped"
    /\ sock' = [s \in Sockets |-> IF s = current /\ sock[s] \in {"connecting", "open"}
                                  THEN "closing" ELSE sock[s]]
    /\ connected' = FALSE
    /\ FailAllPending
    /\ UNCHANGED <<created, current, via, reply>>

\* stop closes the latest socket only.
Stop ==
    /\ run = "started"
    /\ run' = "stopped"
    /\ sock' = [s \in Sockets |-> IF s = current /\ sock[s] \in {"connecting", "open"}
                                  THEN "closing" ELSE sock[s]]
    /\ current' = NoSocket
    /\ connected' = FALSE
    /\ FailAllPending
    /\ UNCHANGED <<created, via, reply>>

-----------------------------------------------------------------------------
(* The calls                                                               *)

Usable == current # NoSocket /\ sock[current] = "open"

\* call: refused unless this.socket is open
Call(r) ==
    /\ call[r] = "unused"
    /\ IF Usable
       THEN /\ call' = [call EXCEPT ![r] = "pending"]
            /\ via' = [via EXCEPT ![r] = current]
            /\ reply' = [reply EXCEPT ![r] = "asked"]
       ELSE /\ call' = [call EXCEPT ![r] = "rejected"]
            /\ UNCHANGED <<via, reply>>
    /\ UNCHANGED <<run, created, sock, current, connected>>

\* aria2 carries the call out, whether or not anybody still waits for it.
Served(r) ==
    /\ reply[r] = "asked"
    /\ sock[via[r]] = "open"
    /\ reply' = [reply EXCEPT ![r] = "sent"]
    /\ UNCHANGED <<run, created, sock, current, connected, call, via>>

\* handleMessage with a result or an error; one nobody waits for is warned of.
Answered(r, how) ==
    /\ reply[r] = "sent"
    /\ sock[via[r]] = "open"
    /\ how \in {"resolved", "rejected"}
    /\ reply' = [reply EXCEPT ![r] = "none"]
    /\ call' = IF call[r] = "pending" THEN [call EXCEPT ![r] = how] ELSE call
    /\ UNCHANGED <<run, created, sock, current, connected, via>>

\* After requestTimeoutMs.
TimedOut(r) ==
    /\ call[r] = "pending"
    /\ call' = [call EXCEPT ![r] = "timed out"]
    /\ UNCHANGED <<run, created, sock, current, connected, via, reply>>

-----------------------------------------------------------------------------
Next ==
    \/ Start \/ Retry \/ Stop
    \/ \E s \in Sockets : Opened(s) \/ Closed(s)
    \/ \E r \in Calls : \/ Call(r) \/ Served(r) \/ TimedOut(r)
                        \/ \E how \in Settlements : Answered(r, how)

Spec == Init /\ [][Next]_vars

\* The timers of the client fire, and a connection that is tried has an end.
FairSpec ==
    /\ Spec
    /\ WF_vars(Retry)
    /\ \A s \in Sockets : WF_vars(sock[s] = "connecting" /\ (Opened(s) \/ Closed(s)))
    /\ \A r \in Calls : WF_vars(TimedOut(r))

-----------------------------------------------------------------------------
(* Properties                                                              *)

Open(s) == sock[s] = "open"

\* The flag the timer goes by is never set with nothing behind it: it takes an
\* open socket -- though not always the one the calls would use.
ConnectedIsOpen == connected => \E s \in Sockets : Open(s)

\* No call waits for an answer that cannot come: its socket is open, whatever
\* sockets opened and closed around it; and none waits on a stopped client.
PendingIsAnswerable ==
    \A r \in Calls : call[r] = "pending" => run = "started" /\ Open(via[r])

\* While the client runs, a connection that is down is tried again: in the end
\* the calls have an open socket, or an earlier socket than theirs holds the
\* flag, or (the bound) no socket is left.
Overtaken == connected /\ ~Usable /\ \E s \in Sockets : s < current /\ Open(s)
Spent == created = MaxSockets
Down == run = "started" /\ ~Usable
ConnectionReturns == Down ~> ~Down \/ Overtaken \/ Spent
===============================================================================
