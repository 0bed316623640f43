------------------------- MODULE AnchorRefinement -------------------------
(***************************************************************************)
(* The pipeline keeps AnchorPromise as long as the nonce-authority lock is *)
(* held by one process (LockMayDrop = FALSE).                              *)
(***************************************************************************)
EXTENDS AnchorPipeline

(* claimed is a way of being queued; dead_letter is the code's abandoned.  *)
StageOf(s) ==
  CASE outbox[s].status = "none" -> "none"
    [] outbox[s].status \in {"pending", "claimed"} -> "queued"
    [] outbox[s].status = "anchored" -> "anchored"
    [] outbox[s].status = "dead_letter" -> "abandoned"

Promise == INSTANCE AnchorPromise
             WITH stage <- [s \in Steps |-> StageOf(s)], ledger <- anchors

(* Every behaviour of the API, the worker, the chain and the indexer is one*)
(* that invariant I1 allows: what log_step records is only ever anchored   *)
(* when the chain covers it, the log on chain only grows and holds no root *)
(* twice, and a dead letter is left only to be anchored.                   *)
PromiseKept == Promise!Spec
===========================================================================
