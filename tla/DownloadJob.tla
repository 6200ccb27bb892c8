------------------------------ MODULE DownloadJob ------------------------------
(***************************************************************************)
(* What DOWNLOADER promises for a download it is given: an answer for the  *)
(* REPORTER in the end, whatever becomes of it.  It is told "stored" or    *)
(* "failed" by the worker, or "missed" by the expiry of its marker, which  *)
(* never contradicts an answer already given; a late answer may follow.    *)
(***************************************************************************)
CONSTANT Contents
VARIABLES accepted, answers

vars == <<accepted, answers>>
Answers == {"stored", "failed", "missed"}

TypeOK == accepted \subseteq Contents /\ answers \in [Contents -> SUBSET Answers]

Init == accepted = {} /\ answers = [c \in Contents |-> {}]

Accept(c) ==
    /\ c \notin accepted
    /\ accepted' = accepted \cup {c}
    /\ UNCHANGED answers

Answer(c, a) ==
    /\ c \in accepted
    /\ a \notin answers[c]
    /\ a = "missed" => answers[c] = {}
    /\ answers' = [answers EXCEPT ![c] = @ \cup {a}]
    /\ UNCHANGED accepted

First(c) == answers[c] = {} /\ \E a \in Answers : Answer(c, a)

Next == \E c \in Contents : Accept(c) \/ \E a \in Answers : Answer(c, a)

Spec == Init /\ [][Next]_vars /\ \A c \in Contents : WF_vars(First(c))
=============================================================================
