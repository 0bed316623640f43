---------------------------- MODULE MCLiveStreams ----------------------------
EXTENDS LiveStreams, TLC
CONSTANTS c1, c2, d1, d2

Symmetry == Permutations(Readers) \cup Permutations(Watchers)

(* The feeds share no state: each is explored with the other one at rest.  *)
FeedsApart ==
  Init /\ [][\/ RunFeed /\ alerts.count = 0 /\ \A w \in Watchers : watcher[w] = Off
             \/ AlertFeed /\ now = 0 /\ run = NewRun /\ \A r \in Readers : reader[r] = NotConnected]_vars
=============================================================================
