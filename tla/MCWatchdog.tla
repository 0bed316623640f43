----------------------------- MODULE MCWatchdog -----------------------------
(***************************************************************************)
(* A small instance of Watchdog for TLC, on which TLC also checks the      *)
(* assumptions of MerkleTree, whose roots Watchdog recomputes, and of      *)
(* StepHistory, whose records it shows with its alerts.                    *)
(***************************************************************************)
EXTENDS Watchdog, MerkleTree, StepHistory
CONSTANTS o1, o2, l1, l2, l3, l4
TwoStepOrgs == <<o1, o2>>
AloneOrTogether == {<<1>>, <<2>>, <<2, 1>>}
===========================================================================
