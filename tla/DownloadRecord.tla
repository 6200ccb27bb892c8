---------------------------- MODULE DownloadRecord ----------------------------
(***************************************************************************)
(* The downloader_id hash as the roles use it: one field per candidate     *)
(* link ("none" standing for no field), and the transitions the DOWNLOADER *)
(* makes on it, the two Lua scripts (src/downloader/lua.ts) and the        *)
(* decision of decideRetry (src/downloader/retry.ts).                      *)
(***************************************************************************)
EXTENDS Integers

CONSTANTS Hrefs,        \* link targets
          NoHref,       \* the empty string decideRetry returns for "no link"
          AttemptLimit  \* a retry needs attempt <= AttemptLimit (6 in the code)

ASSUME NoHrefAssumption == NoHref \notin Hrefs
ASSUME LimitAssumption == AttemptLimit \in Nat

FieldValue == {"none", "queue", "wait", "complete", "error"}
Fields == [Hrefs -> FieldValue]
EmptyFields == [h \in Hrefs |-> "none"]

Holding(f, v) == {h \in Hrefs : f[h] = v}

\* LUA_COMPLETE succeeds on any existing field, a complete one included.
CanComplete(f, h) == f[h] # "none"
LuaComplete(f, h) == IF CanComplete(f, h) THEN [f EXCEPT ![h] = "complete"] ELSE f

\* Mutation: the old value of the failed link is not looked at.
MutLuaRetryBlind(f, promote, failed) ==
    [h \in Hrefs |-> IF h = failed THEN "error"
                     ELSE IF h = promote /\ f[h] = "wait" THEN "queue"
                     ELSE f[h]]

\* LUA_RETRY: both fields move only from the value the decision saw in them.
LuaRetry(f, promote, failed) ==
    [h \in Hrefs |-> IF h = failed /\ f[h] = "queue" THEN "error"
                     ELSE IF h = promote /\ f[h] = "wait" THEN "queue"
                     ELSE f[h]]
Promotes(f, promote) == promote \in Hrefs /\ f[promote] = "wait"

-----------------------------------------------------------------------------
(* decideRetry scans the HGETALL reply and stops at the first link that    *)
(* waits.  Redis gives the fields of a hash in no particular order, so     *)
(* what the scan has seen by then is any part of the other fields.         *)

Decision == [kind : {"RETRY_OK", "RETRY_NOK", "RETRY_NONEED"},
             promote : Hrefs \cup {NoHref}, failed : Hrefs \cup {NoHref},
             newAttempt : 0 .. AttemptLimit + 1]

\* What is decided once the links in seen, and then wait (if any), were read.
Verdicts(f, attempt, seen, wait) ==
    LET complete == \E h \in seen : f[h] = "complete"
        queued   == Holding(f, "queue") \cap seen
        retry    == wait # NoHref /\ attempt <= AttemptLimit
        kind     == IF complete THEN "RETRY_NONEED"
                    ELSE IF retry THEN "RETRY_OK" ELSE "RETRY_NOK"
    IN  {[kind |-> kind,
          promote |-> IF retry THEN wait ELSE NoHref,
          failed |-> h,
          newAttempt |-> IF retry THEN attempt + 1 ELSE 0] :
            h \in IF complete \/ queued = {} THEN {NoHref} ELSE queued}

RetryDecisions(f, attempt) ==
    LET waits  == Holding(f, "wait")
        others == Hrefs \ (waits \cup Holding(f, "none"))
    IN  IF waits = {}
        THEN Verdicts(f, attempt, others, NoHref)
        ELSE UNION {Verdicts(f, attempt, seen, w) :
                        seen \in SUBSET others, w \in waits}
=============================================================================
