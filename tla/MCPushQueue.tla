----------------------------- MODULE MCPushQueue -----------------------------
(* Two workers (a deployment in which the old one still runs), one job and    *)
(* two subscriptions that may be registered with two keys in two sessions;    *)
(* three attempts: a first, a retry and a last one; one rollback.             *)
EXTENDS PushQueue, TLC
CONSTANTS j1, w1, w2, s1, s2, k1, k2, x1, x2
OneJob           == {j1}
TwoWorkers       == {w1, w2}
TwoSubscriptions == {s1, s2}
TwoKeys          == {k1, k2}
TwoSessions      == {x1, x2}
PushSymmetry == Permutations(Workers) \cup Permutations(Subscriptions)
                  \cup Permutations(Keys) \cup Permutations(Sessions)
=============================================================================
