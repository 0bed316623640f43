---------------------------- MODULE MCRunLifecycle ----------------------------
(***************************************************************************)
(* Small instances for TLC of the runs themselves, and of the request that *)
(* verifies one.                                                           *)
(***************************************************************************)
EXTENDS RunLifecycle, VerifyRun

MCSymmetryRuns == Permutations(Requests)

RunsAndVerifyInit == InitRuns /\ VerifyInit

(* They share no state: each is explored with the other one at rest, and   *)
(* verify-run up to its answer.                                            *)
RunsAndVerifyApart ==
  /\ RunsAndVerifyInit
  /\ [][\/ VerifyInit /\ NextRuns /\ UNCHANGED verifyVars
        \/ InitRuns /\ verify.pc # "answered" /\ VerifyNext /\ UNCHANGED runVars
       ]_<<runVars, verifyVars>>
===============================================================================
