----------------------------- MODULE MCSubscriber -----------------------------
(* Instances of Subscriber for TLC: a published granule that reaches the    *)
(* queue from its origin and from a Global Cache, an update of it, ...      *)
EXTENDS Subscriber, TLC

CONSTANTS r1, r2, origin1, cache1, repeat1, update1, nocache2,
          other, c1, c2, hOrigin, hCache, kOrigin, kCache

M(k, p, u, c, h, n) == [ignored |-> FALSE, key |-> k, pub |-> p, update |-> u,
                        content |-> c, href |-> h, nocache |-> n]

\* origin1 and cache1 announce the same content; repeat1 is the origin saying
\* it again; update1 is its next version; nocache2 must not be stored; other is
\* on a topic nobody races for.
MCMsg ==
    origin1  :> M(kOrigin, 1, FALSE, c1, hOrigin, FALSE) @@
    cache1   :> M(kCache, 1, FALSE, c1, hCache, FALSE) @@
    repeat1  :> M(kOrigin, 1, FALSE, c1, hOrigin, FALSE) @@
    update1  :> M(kOrigin, 2, TRUE, c2, hOrigin, FALSE) @@
    nocache2 :> M(kCache, 1, FALSE, c1, hCache, TRUE) @@
    other    :> [M(kCache, 3, FALSE, c2, hCache, FALSE) EXCEPT !.ignored = TRUE]

MsgOfEntries == [e \in Entries |-> MCMsg[e]]
ReplicaSymmetry == Permutations(Replicas)
=============================================================================
