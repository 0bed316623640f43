--------------------------- MODULE AnchorPromise ---------------------------
(***************************************************************************)
(* What the anchoring pipeline promises for each step, with no word of     *)
(* batches, nonces, claims or processes: invariant I1 of the code base (a  *)
(* step is anchored or explicitly dead-lettered, never silently dropped)   *)
(* and the ledger it is anchored to.                                       *)
(*                                                                         *)
(*   queued -----> anchored    only for steps some ledger entry covers     *)
(*   queued -----> abandoned   and out of it only to anchored              *)
(*   anchored ---> queued or abandoned: the one thing the code does not    *)
(*   keep, when a replaced transaction was mined and the worker waiting on *)
(*   its replacement gives the batch up after the indexer confirmed it.    *)
(***************************************************************************)
EXTENDS Sequences

CONSTANT Steps

VARIABLES
  stage,  \* what the database says of each step
  ledger  \* the sets of steps under each root on chain, in order

promiseVars == <<stage, ledger>>

Stages == {"none", "queued", "anchored", "abandoned"}

Init ==
  /\ stage = [s \in Steps |-> "none"]
  /\ ledger = <<>>

OnLedger(s) == \E i \in DOMAIN ledger : s \in ledger[i]

(* The stage becomes x for the steps of S.                                 *)
Become(S, x) == stage' = [s \in Steps |-> IF s \in S THEN x ELSE stage[s]]

Record(s) ==
  /\ stage[s] = "none"
  /\ Become({s}, "queued")
  /\ UNCHANGED ledger

(* The chain accepts a root: of recorded steps, never seen before.         *)
Extend(S) ==
  /\ S # {} /\ \A s \in S : stage[s] # "none"
  /\ \A i \in DOMAIN ledger : ledger[i] # S
  /\ ledger' = Append(ledger, S)
  /\ UNCHANGED stage

(* One entry's steps, or part of them, are declared anchored.              *)
Settle(S) ==
  /\ S # {} /\ \A s \in S : stage[s] \in {"queued", "anchored", "abandoned"}
  /\ \E i \in DOMAIN ledger : S \subseteq ledger[i]
  /\ Become(S, "anchored")
  /\ UNCHANGED ledger

(* A claim or a submission is given up: its steps are abandoned or wait    *)
(* again.                                                                  *)
GiveUp(S, Q) ==
  /\ S \cap Q = {}
  /\ \A s \in S \cup Q : stage[s] \in {"queued", "anchored"}
  /\ stage' = [s \in Steps |-> IF s \in S THEN "abandoned"
                               ELSE IF s \in Q THEN "queued" ELSE stage[s]]
  /\ UNCHANGED ledger

Next ==
  \/ \E s \in Steps : Record(s)
  \/ \E S \in SUBSET Steps : Extend(S) \/ Settle(S)
  \/ \E S, Q \in SUBSET Steps : GiveUp(S, Q)

Spec == Init /\ [][Next]_promiseVars
===========================================================================
