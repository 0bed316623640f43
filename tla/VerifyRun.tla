----------------------------- MODULE VerifyRun -----------------------------
(***************************************************************************)
(* POST /integrity/verify-run of one run (main.py): whether the run is     *)
(* intact, right now.  verify_run reads the steps, each of their batches,  *)
(* the leaves of that batch and the root on chain, one await after the     *)
(* other, while the anchor worker and the indexer batch, confirm, give up  *)
(* and reap, and somebody edits the database by hand.                      *)
(*                                                                         *)
(* The session reads committed rows, and does not refresh the steps it has *)
(* (expire_on_commit=False, no populate_existing): a second query tells it *)
(* which steps are left, not what has become of them.                      *)
(*                                                                         *)
(* Abstractions.  A leaf hash is "old" or "new".  A root is the function   *)
(* from its leaves to their hashes, as leaf_order keeps their order, and   *)
(* an anchor id is the root it stands for.  build_batches never mixes runs,*)
(* so that another run's steps do not matter.  A claim and the batch built *)
(* of it are one action; attempts, gas and a dropped lock are AnchorPipe-  *)
(* line's.  A request that is cut short answers nothing: it just stops.    *)
(***************************************************************************)
EXTENDS Naturals

CONSTANTS
  StepTotal,  \* the run's steps are 1..StepTotal, in the order of their insertion
  BatchTotal, \* its batches are 1..BatchTotal, in the order of their ids
  None,       \* NULL
  ByHand,     \* bound: the steps whose rows are edited by hand
  MaxEdits    \* bound: edits by hand

RunSteps == 1..StepTotal
BatchIds == 1..BatchTotal

ASSUME VerifyRunAssumption == {StepTotal, BatchTotal, MaxEdits} \subseteq Nat /\ None \notin Nat

VARIABLES
  row,        \* steps: how each row compares with what was logged
  batchOf,    \* steps.anchor_batch_id
  outboxRow,  \* anchor_outbox.status of each step
  record,     \* anchor_batches
  built,      \* the root the worker built each batch with, and sends
  inHand,     \* batches the worker has yet to settle
  mined,      \* batches whose transaction was mined, and not reverted
  falsified,  \* history: batches whose stored root was changed by hand
  edits,      \* edits counted against MaxEdits
  verify      \* locals of verify_run

workerVars == <<outboxRow, built, inHand, mined>>
verifyVars == <<row, batchOf, record, workerVars, falsified, edits, verify>>

RowForm == {"absent", "intact", "edited", "rewritten", "deleted"}
LeafHashes == {"old", "new", "other"}
RootForm == (UNION {[S -> LeafHashes] : S \in SUBSET RunSteps}) \cup {None}

(* A batch is open while building, submitted or failed.                    *)
BatchRecord == [leaves : SUBSET RunSteps, root : RootForm, anchor : RootForm,
                status : {"none", "open", "confirmed"}]

(* row, batchOf: the steps as loaded; todo: batches to look at; at: the one*)
(* looked at, as loaded; bad: root_bad_batches; silent: history, batches   *)
(* passed without a word from the chain.                                   *)
Request == [pc : {"idle", "reading", "rebuilding", "consulting", "answered"},
            row : [RunSteps -> RowForm], batchOf : [RunSteps -> BatchIds \cup {None}],
            todo : SUBSET BatchIds, id : BatchIds \cup {None}, at : BatchRecord,
            bad : SUBSET BatchIds, silent : SUBSET BatchIds]

NoRecord == [leaves |-> {}, root |-> None, anchor |-> None, status |-> "none"]

NoRequest == [pc |-> "idle", row |-> [s \in RunSteps |-> "absent"],
              batchOf |-> [s \in RunSteps |-> None], todo |-> {}, id |-> None,
              at |-> NoRecord, bad |-> {}, silent |-> {}]

VerifyInit ==
  /\ row = [s \in RunSteps |-> "absent"] /\ batchOf = [s \in RunSteps |-> None]
  /\ outboxRow = [s \in RunSteps |-> "none"]
  /\ record = [b \in BatchIds |-> NoRecord]
  /\ built = [b \in BatchIds |-> None]
  /\ inHand = {} /\ mined = {}
  /\ falsified = {} /\ edits = 0
  /\ verify = NoRequest

Present(rows) == {s \in RunSteps : rows[s] \notin {"absent", "deleted"}}

(* steps.leaf_hash; recompute_leaf agrees with it unless the row is edited.*)
LeafOf(rows, s) == IF rows[s] = "rewritten" THEN "new" ELSE "old"
RootOf(rows, leaves) == [s \in leaves |-> LeafOf(rows, s)]

(* Through anchor_outbox.batch_id, which agrees with steps.anchor_batch_id *)
(* (AnchorPipeline's BatchPointersAgree).                                  *)
RowsOf(b) == {s \in RunSteps : batchOf[s] = b}

(* usedRoots: the roots that were anchored.                                *)
OnChain == {built[b] : b \in mined}

---------------------------------------------------------------------------
(* The step log, the anchor worker and the indexer.                        *)

AppendStep(s) ==
  /\ row[s] = "absent" /\ \A t \in 1..(s - 1) : row[t] # "absent"
  /\ row' = [row EXCEPT ![s] = "intact"]
  /\ outboxRow' = [outboxRow EXCEPT ![s] = "pending"]
  /\ UNCHANGED <<batchOf, record, built, inHand, mined, falsified, edits, verify>>

(* claim_batch and build_batches.                                          *)
BuildBatch(b, leaves) ==
  /\ record[b].status = "none" /\ \A c \in 1..(b - 1) : record[c].status # "none"
  /\ leaves # {} /\ leaves \subseteq Present(row)
  /\ \A s \in leaves : outboxRow[s] = "pending"
  /\ record' = [record EXCEPT ![b] = [leaves |-> leaves, root |-> RootOf(row, leaves),
                                      anchor |-> None, status |-> "open"]]
  /\ built' = [built EXCEPT ![b] = RootOf(row, leaves)]
  /\ batchOf' = [s \in RunSteps |-> IF s \in leaves THEN b ELSE batchOf[s]]
  /\ outboxRow' = [s \in RunSteps |-> IF s \in leaves THEN "claimed" ELSE outboxRow[s]]
  /\ inHand' = inHand \cup {b}
  /\ UNCHANGED <<row, mined, falsified, edits, verify>>

(* usedRoots admits a root once.  A transaction that is mined after its    *)
(* batch was given up or reaped is taken as mined before, and heard of late*)
TransactionMined(b) ==
  /\ b \in inHand /\ built[b] \notin OnChain
  /\ mined' = mined \cup {b}
  /\ UNCHANGED <<row, batchOf, record, outboxRow, built, inHand, falsified, edits, verify>>

(* Whoever has confirmed the batch by now.                                 *)
MarkSubmitted(b) ==
  /\ b \in inHand
  /\ record' = [record EXCEPT ![b].status = "open"]
  /\ UNCHANGED <<row, batchOf, workerVars, falsified, edits, verify>>

(* A receipt with status 1.                                                *)
MarkConfirmed(b) ==
  /\ b \in inHand \cap mined
  /\ record' = [record EXCEPT ![b].status = "confirmed", ![b].anchor = built[b]]
  /\ outboxRow' = [s \in RunSteps |-> IF s \in RowsOf(b) THEN "anchored" ELSE outboxRow[s]]
  /\ inHand' = inHand \ {b}
  /\ UNCHANGED <<row, batchOf, built, mined, falsified, edits, verify>>

(* handle_submit_failure and handle_gas_ceiling_skip.  A dead-lettered row *)
(* is one that is not claimed again.                                       *)
GiveUpBatch(b) ==
  /\ b \in inHand
  /\ record' = [record EXCEPT ![b].status = "open"]
  /\ outboxRow' = [s \in RunSteps |-> IF s \in RowsOf(b) THEN "pending" ELSE outboxRow[s]]
  /\ batchOf' = [s \in RunSteps |-> IF s \in RowsOf(b) THEN None ELSE batchOf[s]]
  /\ inHand' = inHand \ {b}
  /\ UNCHANGED <<row, built, mined, falsified, edits, verify>>

(* The worker died; its claims go back, and their steps keep the batch.    *)
ReapClaims ==
  /\ inHand # {}
  /\ inHand' = {}
  /\ outboxRow' = [s \in RunSteps |-> IF outboxRow[s] = "claimed" THEN "pending" ELSE outboxRow[s]]
  /\ UNCHANGED <<row, batchOf, record, built, mined, falsified, edits, verify>>

(* reconcile_batch_anchored: every batch that is stored with the root, and *)
(* the rows of the first.                                                  *)
ReconcileAnchored(root) ==
  LET matched == {b \in BatchIds : record[b].root = root /\ record[b].status \notin {"none", "confirmed"}} IN
  /\ matched # {}
  /\ record' = [b \in BatchIds |-> IF b \in matched
                                   THEN [record[b] EXCEPT !.status = "confirmed", !.anchor = root]
                                   ELSE record[b]]
  /\ \E first \in matched :
       outboxRow' = [s \in RunSteps |-> IF s \in RowsOf(first) THEN "anchored" ELSE outboxRow[s]]
  /\ UNCHANGED <<row, batchOf, built, inHand, mined, falsified, edits, verify>>

---------------------------------------------------------------------------
(* The database edited by hand: a row with or without its leaf hash, a row *)
(* deleted, a stored root made to agree with the rows or not.  Not edited  *)
(* are which batch a step is in, a batch's leaves and its anchor id.       *)

EditRow(s, form) ==
  /\ edits < MaxEdits /\ edits' = edits + 1
  /\ s \in Present(row) \cap ByHand
  /\ form = "edited" => row[s] = "intact"
  /\ form = "rewritten" => row[s] # "rewritten"
  /\ row' = [row EXCEPT ![s] = form]
  /\ UNCHANGED <<batchOf, record, workerVars, falsified, verify>>

FalsifyRoot(b) ==
  /\ edits < MaxEdits /\ edits' = edits + 1
  /\ record[b].status # "none"
  /\ \E root \in {RootOf(row, record[b].leaves), [s \in record[b].leaves |-> "other"]} \ {record[b].root} :
       record' = [record EXCEPT ![b].root = root]
  /\ falsified' = falsified \cup {b}
  /\ UNCHANGED <<row, batchOf, workerVars, verify>>

---------------------------------------------------------------------------
(* verify_run.                                                             *)

LoadSteps ==
  /\ verify.pc \in {"idle", "answered"}
  /\ verify' = [NoRequest EXCEPT !.pc = "reading", !.row = row, !.batchOf = batchOf,
                   !.todo = {batchOf[s] : s \in Present(row)} \ {None}]
  /\ UNCHANGED <<row, batchOf, record, workerVars, falsified, edits>>

GetBatch(b) ==
  /\ verify.pc = "reading" /\ b \in verify.todo
  /\ verify' = [verify EXCEPT !.pc = "rebuilding", !.todo = @ \ {b}, !.id = b, !.at = record[b]]
  /\ UNCHANGED <<row, batchOf, record, workerVars, falsified, edits>>

(* rebuild_root, of the leaves that are left and as they were loaded.      *)
Passed(r) == [r EXCEPT !.pc = "reading", !.id = None, !.at = NoRecord]

RebuildFails ==
  \/ verify.at.leaves \ Present(row) # {}
  \/ RootOf(verify.row, verify.at.leaves) # verify.at.root

CheckBatch ==
  /\ verify.pc = "rebuilding"
  /\ verify' =
       IF RebuildFails THEN [Passed(verify) EXCEPT !.bad = @ \cup {verify.id}]
       ELSE IF verify.at.anchor = None
            THEN [Passed(verify) EXCEPT !.silent = @ \cup {verify.id}]
            ELSE [verify EXCEPT !.pc = "consulting"]
  /\ UNCHANGED <<row, batchOf, record, workerVars, falsified, edits>>

(* check_onchain_root.  Variant: the root is only known to be there.       *)
AnchorExists(batch)       == batch.anchor # None
OnchainRootMatches(batch) == batch.anchor = batch.root

CheckOnchain ==
  /\ verify.pc = "consulting"
  /\ verify' = [Passed(verify) EXCEPT
                   !.bad = IF OnchainRootMatches(verify.at) THEN @ ELSE @ \cup {verify.id}]
  /\ UNCHANGED <<row, batchOf, record, workerVars, falsified, edits>>

(* The call raises: verify_run logs it and takes the batch for good.       *)
CheckOnchainRaises ==
  /\ verify.pc = "consulting"
  /\ verify' = [Passed(verify) EXCEPT !.silent = @ \cup {verify.id}]
  /\ UNCHANGED <<row, batchOf, record, workerVars, falsified, edits>>

AnswerRun ==
  /\ verify.pc = "reading" /\ verify.todo = {}
  /\ verify' = [verify EXCEPT !.pc = "answered"]
  /\ UNCHANGED <<row, batchOf, record, workerVars, falsified, edits>>

(* What the answer says of a step it lists; allVerified is all of them.    *)
Verified(s) == verify.row[s] # "edited" /\ verify.batchOf[s] \notin verify.bad

---------------------------------------------------------------------------
VerifyNext ==
  \/ \E s \in RunSteps : AppendStep(s) \/ (\E form \in {"edited", "rewritten", "deleted"} : EditRow(s, form))
  \/ \E b \in BatchIds :
       \/ \E leaves \in SUBSET RunSteps : BuildBatch(b, leaves)
       \/ TransactionMined(b) \/ MarkSubmitted(b) \/ MarkConfirmed(b)
       \/ GiveUpBatch(b) \/ FalsifyRoot(b) \/ GetBatch(b)
  \/ ReapClaims \/ (\E root \in OnChain : ReconcileAnchored(root))
  \/ LoadSteps \/ CheckBatch \/ CheckOnchain \/ CheckOnchainRaises \/ AnswerRun

VerifySpec == VerifyInit /\ [][VerifyNext]_verifyVars

---------------------------------------------------------------------------

(* Every variable stays in its type.                                       *)
VerifyTypeOK ==
  /\ row \in [RunSteps -> RowForm]
  /\ batchOf \in [RunSteps -> BatchIds \cup {None}]
  /\ outboxRow \in [RunSteps -> {"none", "pending", "claimed", "anchored"}]
  /\ record \in [BatchIds -> BatchRecord]
  /\ built \in [BatchIds -> RootForm]
  /\ inHand \subseteq BatchIds /\ mined \subseteq BatchIds /\ falsified \subseteq BatchIds
  /\ edits \in Nat
  /\ verify \in Request
  /\ verify.pc \in {"rebuilding", "consulting"} => verify.id # None

(* When the request loaded the run, every leaf of b was there, and was what*)
(* the worker had built the batch of.                                      *)
WasIntact(b) ==
  /\ record[b].leaves \subseteq Present(verify.row)
  /\ RootOf(verify.row, record[b].leaves) = built[b]

(* Its leaves as loaded are a batch that was anchored, whichever.          *)
WasAnchored(b) == RootOf(verify.row, record[b].leaves) \in OnChain

(* A step that the answer calls verified was not edited, and every leaf of *)
(* its batch was there as anchored at one moment, when the run was loaded, *)
(* whatever was written during the request, and whatever was done to the   *)
(* stored root: unless that was changed and the chain not heard, because   *)
(* the batch was not confirmed yet or the call raised.  A step that it does*)
(* not call verified was edited, or its batch has lost or changed a leaf,  *)
(* or its stored root was changed: the worker, the indexer and the reaper  *)
(* never make it accuse.  A batch without a step left in the run is not    *)
(* looked at, so of a run or batch deleted as a whole nothing is said.     *)
VerdictIsRight ==
  verify.pc = "answered" =>
    \A s \in Present(verify.row) :
      LET b == verify.batchOf[s] IN
      /\ Verified(s) =>
           /\ verify.row[s] # "edited"
           /\ b # None => \/ WasIntact(b)
                          \/ b \in falsified /\ (b \in verify.silent \/ WasAnchored(b))
      /\ ~ Verified(s) =>
           \/ verify.row[s] = "edited"
           \/ b # None /\ (~ WasIntact(b) \/ b \in falsified \/ ~ record[b].leaves \subseteq Present(row))
============================================================================
