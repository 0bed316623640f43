----------------------------- MODULE MerkleTree -----------------------------
(***************************************************************************)
(* blockchain/merkle.py: the tree of a batch, its proofs and their check,  *)
(* with an ideal hash.  A leaf hash is an atom: it hashes a hash, which no *)
(* inner node does, so that no leaf is an inner node, and steps of both    *)
(* leaf schemas are atoms alike.  A sorted pair hashes to its set.         *)
(***************************************************************************)
EXTENDS Naturals, Sequences, FiniteSets
LOCAL INSTANCE SequencesExt

CONSTANTS Leaves, MaxLeaves

HashPair(a, b) == {a, b}

(* One level up: an odd node is promoted unchanged.                        *)
NextLevel(level) ==
  [i \in 1..((Len(level) + 1) \div 2) |->
     IF 2 * i <= Len(level) THEN HashPair(level[2 * i - 1], level[2 * i])
                            ELSE level[2 * i - 1]]

(* build_levels: <<leaves, ..., <<root>>>>.                                *)
BuildLevels(leaves) ==
  LET f[n \in 0..Len(leaves)] == IF n = 0 THEN leaves ELSE NextLevel(f[n - 1])
      height == CHOOSE n \in 0..Len(leaves) :
                  Len(f[n]) = 1 /\ \A k \in 0..(n - 1) : Len(f[k]) > 1
  IN  [k \in 1..(height + 1) |-> f[k - 1]]

Root(leaves) == Last(BuildLevels(leaves))[1]

(* proof_for, with indices from 1: the siblings on the way up; a promoted  *)
(* node has none.                                                          *)
ProofFor(levels, index) ==
  LET at[k \in 1..Len(levels)] == IF k = 1 THEN index ELSE (at[k - 1] + 1) \div 2
      sibling(k) == IF at[k] % 2 = 0 THEN at[k] - 1 ELSE at[k] + 1
      paired == SelectSeq([k \in 1..(Len(levels) - 1) |-> k], LAMBDA k : sibling(k) <= Len(levels[k]))
  IN  [i \in 1..Len(paired) |-> levels[paired[i]][sibling(paired[i])]]

(* verify_proof, AgentAuditLogV2.verifyProof.                              *)
VerifyProof(leaf, proof, root) == FoldLeft(HashPair, leaf, proof) = root

(* get_step_proof: from the leaves of the batch in their stored order.     *)
StepProof(leaves, index) == ProofFor(BuildLevels(leaves), index)

---------------------------------------------------------------------------
LeafSeqs == UNION {[1..n -> Leaves] : n \in 1..MaxLeaves}
DistinctSeqs == {s \in LeafSeqs : IsInjective(s)}

(* A proof that is served verifies its own leaf on chain and no other.     *)
ASSUME ProofsVerify ==
  \A s \in DistinctSeqs : \A i \in 1..Len(s) : \A x \in Leaves :
    VerifyProof(x, StepProof(s, i), Root(s)) <=> x = s[i]

(* A root stands for one set of steps, as the other modules take it, and   *)
(* for one number of them: merkle.py:26-31, no leaf repeated at the end    *)
(* gives the root of a longer batch.                                       *)
ASSUME RootIsOfOneBatch ==
  LET Steps(s) == <<Len(s), {s[i] : i \in 1..Len(s)}>>
  IN  Cardinality({<<Root(s), Steps(s)>> : s \in LeafSeqs}) = Cardinality({Root(s) : s \in LeafSeqs})
=============================================================================
