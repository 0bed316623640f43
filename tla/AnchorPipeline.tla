-------------------------- MODULE AnchorPipeline --------------------------
(***************************************************************************)
(* The anchoring pipeline of TrustChain: the transactional outbox written  *)
(* by log_step (backend/agents/base.py), the anchor worker that claims,    *)
(* batches and submits it (backend/anchor_worker/), the on-chain log       *)
(* (contracts/src/v2/AgentAuditLogV2.sol) behind a mempool, and the        *)
(* indexer that reconciles the worker's crash window                       *)
(* (backend/indexer/reconcile.py).                                         *)
(*                                                                         *)
(* Each database transaction and each RPC call of the worker is one action:*)
(* a crash, an aborted iteration, the indexer, the API, a miner or a second*)
(* worker may act between any two of them.                                 *)
(*                                                                         *)
(* Faulty variants of some definitions stand before them; no action uses   *)
(* one, they serve to confirm that the properties notice such a fault.     *)
(*                                                                         *)
(* Abstractions.  A Merkle root is the set of steps under it: leaves are   *)
(* sorted by step_index and the hash is taken to be collision free.  Clocks*)
(* are nondeterministic: a claim expires, a backoff elapses, a receipt     *)
(* wait times out at any moment.  Every confirmed batch costs one unit of  *)
(* gas.                                                                    *)
(***************************************************************************)
EXTENDS Naturals, Sequences, FiniteSets

CONSTANTS
  Steps,        \* rows of the steps table that will ever be logged
  Runs, RunOf,  \* runs, and the run each step belongs to
  Orgs, OrgOf,  \* organizations, and the one that owns each run
  CreatedAt,    \* the second in which each step's outbox row is created
  Workers,      \* anchor-worker processes
  MaxAttempts,  \* settings.anchor_max_attempts
  BatchSize,    \* settings.anchor_max_batch_size
  RbfAttempts,  \* settings.anchor_rbf_max_attempts
  InitialBudget,\* gas_budget_wei of each organization at the start
  MaxBudget,    \* bound: an operator raises no budget beyond it
  MaxBatches,   \* bound: rows of anchor_batches
  LockMayDrop   \* may the connection holding the advisory lock die alone?

ASSUME SetsAssumption ==
  /\ IsFiniteSet(Steps) /\ IsFiniteSet(Runs) /\ IsFiniteSet(Orgs)
  /\ RunOf \in [Steps -> Runs]
  /\ OrgOf \in [Runs -> Orgs]
  /\ CreatedAt \in [Steps -> Nat]

ASSUME LimitsAssumption ==
  /\ MaxAttempts \in Nat \ {0}
  /\ BatchSize \in Nat \ {0}
  /\ RbfAttempts \in Nat \ {0}
  /\ InitialBudget \in Nat /\ MaxBudget \in Nat /\ InitialBudget <= MaxBudget
  /\ MaxBatches \in Nat
  /\ LockMayDrop \in BOOLEAN

VARIABLES
  outbox,     \* anchor_outbox, one row per step
  stepBatch,  \* steps.anchor_batch_id
  batches,    \* anchor_batches
  nextBatch,  \* next id of anchor_batches
  worker,     \* volatile state of each anchor-worker process
  authority,  \* the process whose connection holds the advisory lock
  txs,        \* the transactions broadcast for each batch, and the receipt
  chainNonce, \* nonce of the next transaction of the signer to be mined
  poolNonce,  \* eth_getTransactionCount(signer, "pending")
  anchors,    \* AgentAuditLogV2.batches, also the BatchAnchored event log
  cursor,     \* events the indexer has handled
  spent,      \* organizations.gas_spent_wei
  budget      \* organizations.gas_budget_wei

dbVars     == <<outbox, stepBatch, batches, nextBatch>>
workerVars == <<worker, authority>>
chainVars  == <<txs, chainNonce, poolNonce, anchors>>
gasVars    == <<spent, budget>>
vars       == <<dbVars, workerVars, chainVars, cursor, gasVars>>

BatchIds == 1..MaxBatches
Tries    == 0..RbfAttempts
NoBatch  == 0         \* a NULL batch id
NoAnchor == 0         \* a NULL on-chain anchor id
Nobody   == "nobody"  \* the advisory lock is free

ASSUME NobodyAssumption == Nobody \notin Workers

OutboxStatus == {"none", "pending", "claimed", "anchored", "dead_letter"}
BatchStatus  == {"unused", "building", "submitted", "confirmed", "failed"}
Phases       == {"down", "idle", "polled", "claimed", "loop", "send", "sent",
                 "wait", "confirmed", "failing"}

(* backoff: the batch whose failure set next_attempt_at in the future, or  *)
(* NoBatch when the row is due.  expired: claimed_at is past the claim     *)
(* timeout.  faults: a history of the claims that ended in a failed        *)
(* submission or a reaped claim; no action reads it.                       *)
OutboxRow == [status : OutboxStatus, attempts : Nat, batch : Nat,
              backoff : Nat, expired : BOOLEAN, faults : Nat]

BatchRow == [status : BatchStatus, steps : SUBSET Steps, anchor : Nat]

(* held: the rows of the claim in progress; todo: batches built and not yet*)
(* submitted; batch, try, nonce: the locals of submit_batch.               *)
WorkerState == [phase : Phases, held : SUBSET Steps, todo : SUBSET BatchIds,
                batch : Nat, try : Nat, nonce : Nat]

(* tries: replace-by-fee attempts broadcast; mined: the one that was mined;*)
(* anchor: the anchor id it created, NoAnchor when it reverted.            *)
TxState == [nonce : Nat, tries : Nat, mined : Nat, anchor : Nat]

NoRow    == [status |-> "none", attempts |-> 0, batch |-> NoBatch,
             backoff |-> NoBatch, expired |-> FALSE, faults |-> 0]
NoWorker == [phase |-> "down", held |-> {}, todo |-> {}, batch |-> NoBatch,
             try |-> 0, nonce |-> 0]
NoTx     == [nonce |-> 0, tries |-> 0, mined |-> 0, anchor |-> NoAnchor]

Init ==
  /\ outbox = [s \in Steps |-> NoRow]
  /\ stepBatch = [s \in Steps |-> NoBatch]
  /\ batches = [b \in BatchIds |->
                  [status |-> "unused", steps |-> {}, anchor |-> NoAnchor]]
  /\ nextBatch = 1
  /\ worker = [w \in Workers |-> NoWorker]
  /\ authority = Nobody
  /\ txs = [b \in BatchIds |-> NoTx]
  /\ chainNonce = 1 /\ poolNonce = 1
  /\ anchors = <<>>
  /\ cursor = 0
  /\ spent = [o \in Orgs |-> 0]
  /\ budget = [o \in Orgs |-> InitialBudget]

---------------------------------------------------------------------------
(* Queries.                                                                *)

RunsOf(S)     == {RunOf[s] : s \in S}
OrgOfSteps(S) == {OrgOf[r] : r \in RunsOf(S)}
OnChain(s)    == \E i \in DOMAIN anchors : s \in anchors[i]

(* usedRoots of the contract; the variant is a contract without the guard. *)
ReplayableRoots == {}
UsedRoots       == {anchors[i] : i \in DOMAIN anchors}

Pending == {s \in Steps : outbox[s].status = "pending"}
Due     == {s \in Pending : outbox[s].backoff = NoBatch}

Breached(b) == \E o \in OrgOfSteps(batches[b].steps) : spent[o] >= budget[o]

(* The nonce submit_batch asks the node for: the "pending" count.          *)
PendingNonce == poolNonce

(* ORDER BY created_at LIMIT :batch_size over the due rows; rows created in*)
(* the same second come in any order.                                      *)
Claimable(S) ==
  /\ S \in SUBSET Due /\ S # {}
  /\ Cardinality(S) <= BatchSize
  /\ S = Due \/ Cardinality(S) = BatchSize
  /\ \A s \in S, t \in Due \ S : CreatedAt[s] <= CreatedAt[t]

(* The loop over `batches` in run_once moves on, or run_once returns.      *)
Advanced(me) ==
  [phase |-> IF me.todo = {} THEN "idle" ELSE "loop",
   held  |-> IF me.todo = {} THEN {} ELSE me.held,
   todo  |-> me.todo, batch |-> NoBatch, try |-> 0, nonce |-> 0]

(* steps.anchor_batch_id once batch b is abandoned.                        *)
Detached(b) == [s \in Steps |-> IF stepBatch[s] = b THEN NoBatch ELSE stepBatch[s]]

---------------------------------------------------------------------------
(* UPDATEs of one outbox row.                                              *)

(* reap_stale_claims: dead-lettered when the attempts are exhausted, else  *)
(* pending and due at once.  Neither touches batch_id.  The variant leaves *)
(* the claim in place.                                                     *)
Unreaped(row) == row
Reaped(row) ==
  [row EXCEPT
     !.status = IF row.attempts >= MaxAttempts THEN "dead_letter" ELSE "pending",
     !.expired = FALSE, !.backoff = NoBatch, !.faults = @ + 1]

(* handle_gas_ceiling_skip: requeued, the claim's attempt undone.          *)
Skipped(row) ==
  [row EXCEPT !.status = "pending", !.batch = NoBatch, !.expired = FALSE,
     !.attempts = IF @ > 0 THEN @ - 1 ELSE 0]

(* handle_submit_failure: dead-lettered or requeued with a backoff, by the *)
(* row's own attempts.  The variant allows an attempt too few.             *)
FailedEarly(row, b) ==
  [row EXCEPT
     !.status = IF row.attempts + 1 >= MaxAttempts THEN "dead_letter" ELSE "pending",
     !.batch = NoBatch, !.faults = @ + 1]
Failed(row, b) ==
  IF row.attempts >= MaxAttempts
  THEN [row EXCEPT !.status = "dead_letter", !.batch = NoBatch, !.faults = @ + 1]
  ELSE [row EXCEPT !.status = "pending", !.batch = NoBatch, !.expired = FALSE,
          !.backoff = b, !.faults = @ + 1]

(* The rows of batch b become anchored.                                    *)
RowsAnchored(b) ==
  [s \in Steps |-> IF outbox[s].batch = b
                   THEN [outbox[s] EXCEPT !.status = "anchored"] ELSE outbox[s]]

---------------------------------------------------------------------------
(* The API process.                                                        *)

(* log_step: the step and its outbox row commit together.                  *)
LogStep(s) ==
  /\ outbox[s].status = "none"
  /\ \A t \in Steps : CreatedAt[t] < CreatedAt[s] => outbox[t].status # "none"
  /\ outbox' = [outbox EXCEPT ![s].status = "pending"]
  /\ UNCHANGED <<stepBatch, batches, nextBatch, workerVars, chainVars, cursor, gasVars>>

(* An operator raises an organization's gas budget.                        *)
RaiseBudget(o) ==
  /\ budget[o] < MaxBudget
  /\ budget' = [budget EXCEPT ![o] = @ + 1]
  /\ UNCHANGED <<dbVars, workerVars, chainVars, cursor, spent>>

---------------------------------------------------------------------------
(* The anchor worker: start, one iteration of run_once, and its ends.      *)

(* NonceAuthorityLock.try_acquire, polled by main() until it succeeds.     *)
AcquireAuthority(w) ==
  /\ worker[w].phase = "down"
  /\ authority = Nobody
  /\ authority' = w
  /\ worker' = [worker EXCEPT ![w].phase = "idle"]
  /\ UNCHANGED <<dbVars, chainVars, cursor, gasVars>>

(* reap_stale_claims, the first transaction of run_once.                   *)
ReapStaleClaims(w) ==
  /\ worker[w].phase = "idle"
  /\ outbox' = [s \in Steps |->
       IF outbox[s].status = "claimed" /\ outbox[s].expired
       THEN Reaped(outbox[s]) ELSE outbox[s]]
  /\ worker' = [worker EXCEPT ![w].phase = "polled"]
  /\ UNCHANGED <<stepBatch, batches, nextBatch, authority, chainVars, cursor, gasVars>>

(* run_once returns early: nothing is due, or fewer rows than a batch are  *)
(* pending and the oldest is younger than anchor_max_batch_age_seconds.    *)
DeferFlush(w) ==
  /\ worker[w].phase = "polled"
  /\ Due = {} \/ Cardinality(Pending) < BatchSize
  /\ worker' = [worker EXCEPT ![w].phase = "idle"]
  /\ UNCHANGED <<dbVars, authority, chainVars, cursor, gasVars>>

(* claim_batch.  The last conjunct is the bound on anchor_batches rows.    *)
ClaimBatch(w) ==
  /\ worker[w].phase = "polled"
  /\ \E S \in SUBSET Due :
       /\ Claimable(S)
       /\ nextBatch + Cardinality(RunsOf(S)) <= MaxBatches + 1
       /\ outbox' = [s \in Steps |->
            IF s \in S
            THEN [outbox[s] EXCEPT !.status = "claimed", !.attempts = @ + 1]
            ELSE outbox[s]]
       /\ worker' = [worker EXCEPT ![w] = [@ EXCEPT !.phase = "claimed", !.held = S]]
  /\ UNCHANGED <<stepBatch, batches, nextBatch, authority, chainVars, cursor, gasVars>>

(* build_batches: one anchor_batches row per run of the claimed steps, in  *)
(* one transaction; rows and steps point to their new batch whatever the   *)
(* row's status has become since the claim.                                *)
BuildBatches(w) ==
  /\ worker[w].phase = "claimed"
  /\ LET S == worker[w].held IN
     \E id \in [RunsOf(S) -> BatchIds], last \in BatchIds :
       /\ \A r, q \in RunsOf(S) : id[r] = id[q] => r = q
       /\ {id[r] : r \in RunsOf(S)} = nextBatch..last
       /\ nextBatch' = last + 1
       /\ batches' = [b \in BatchIds |->
            IF b \in nextBatch..last
            THEN [status |-> "building", anchor |-> NoAnchor,
                  steps |-> {s \in S : id[RunOf[s]] = b}]
            ELSE batches[b]]
       /\ outbox' = [s \in Steps |->
            IF s \in S THEN [outbox[s] EXCEPT !.batch = id[RunOf[s]]]
            ELSE outbox[s]]
       /\ stepBatch' = [s \in Steps |->
            IF s \in S THEN id[RunOf[s]] ELSE stepBatch[s]]
       /\ worker' = [worker EXCEPT ![w] =
                      [@ EXCEPT !.phase = "loop", !.todo = nextBatch..last]]
  /\ UNCHANGED <<authority, chainVars, cursor, gasVars>>

(* The gas ceiling is breached: handle_gas_ceiling_skip fails the batch and*)
(* returns every row that points to it.                                    *)
HandleGasCeilingSkip(w, b) ==
  /\ worker[w].phase = "loop" /\ b \in worker[w].todo
  /\ Breached(b)
  /\ batches' = [batches EXCEPT ![b].status = "failed"]
  /\ outbox' = [s \in Steps |->
       IF outbox[s].batch = b THEN Skipped(outbox[s]) ELSE outbox[s]]
  /\ stepBatch' = Detached(b)
  /\ worker' = [worker EXCEPT ![w] = Advanced([worker[w] EXCEPT !.todo = @ \ {b}])]
  /\ UNCHANGED <<nextBatch, authority, chainVars, cursor, gasVars>>

(* submit_batch reads the pending nonce, or its RPC call fails.            *)
ReadNonce(w, b) ==
  /\ worker[w].phase = "loop" /\ b \in worker[w].todo
  /\ ~ Breached(b)
  /\ \E next \in {"send", "failing"} :
       worker' = [worker EXCEPT ![w] =
                    [worker[w] EXCEPT !.phase = next, !.todo = @ \ {b},
                       !.batch = b, !.try = 1, !.nonce = PendingNonce]]
  /\ UNCHANGED <<dbVars, authority, chainVars, cursor, gasVars>>

(* send_raw_transaction.  The node takes the transaction unless its nonce  *)
(* was already mined; the call may still raise after the node took it, in  *)
(* which case no tx_hash is ever recorded.                                 *)
SendTransaction(w) ==
  LET b == worker[w].batch  n == worker[w].nonce IN
  /\ worker[w].phase = "send"
  /\ n >= chainNonce
  /\ txs' = [txs EXCEPT ![b] = [@ EXCEPT !.nonce = n, !.tries = worker[w].try]]
  /\ poolNonce' = IF n = poolNonce THEN n + 1 ELSE poolNonce
  /\ \E next \in {"sent", "failing"} : worker' = [worker EXCEPT ![w].phase = next]
  /\ UNCHANGED <<dbVars, authority, chainNonce, anchors, cursor, gasVars>>

(* The node rejects the transaction (nonce too low, underpriced, no funds) *)
(* or the RPC fails: every exception becomes a SubmitError.                *)
SendRejected(w) ==
  /\ worker[w].phase = "send"
  /\ worker' = [worker EXCEPT ![w].phase = "failing"]
  /\ UNCHANGED <<dbVars, authority, chainVars, cursor, gasVars>>

(* The batch row becomes 'submitted', whatever its status was.             *)
MarkSubmitted(w) ==
  /\ worker[w].phase = "sent"
  /\ batches' = [batches EXCEPT ![worker[w].batch].status = "submitted"]
  /\ worker' = [worker EXCEPT ![w].phase = "wait"]
  /\ UNCHANGED <<outbox, stepBatch, nextBatch, authority, chainVars, cursor, gasVars>>

(* wait_for_transaction_receipt times out on the latest hash: the same     *)
(* nonce is sent again with a higher fee, or the last attempt gives up.    *)
ReceiptTimeout(w) ==
  /\ worker[w].phase = "wait"
  /\ txs[worker[w].batch].mined # worker[w].try
  /\ worker' = [worker EXCEPT ![w] =
       IF worker[w].try < RbfAttempts
       THEN [worker[w] EXCEPT !.phase = "send", !.try = @ + 1]
       ELSE [worker[w] EXCEPT !.phase = "failing"]]
  /\ UNCHANGED <<dbVars, authority, chainVars, cursor, gasVars>>

(* The receipt of the latest hash is in.  The status the worker sees; the  *)
(* variant takes any receipt for a success.                                *)
AnyReceiptSucceeded(b) == TRUE
ReceiptSucceeded(b) == txs[b].anchor # NoAnchor

(* A receipt with status 0.                                                *)
ReceiptReverted(w) ==
  LET b == worker[w].batch IN
  /\ worker[w].phase = "wait"
  /\ txs[b].mined = worker[w].try /\ ~ ReceiptSucceeded(b)
  /\ worker' = [worker EXCEPT ![w].phase = "failing"]
  /\ UNCHANGED <<dbVars, authority, chainVars, cursor, gasVars>>

(* A receipt with status 1: batch confirmed and its rows anchored in one   *)
(* transaction.                                                            *)
ConfirmBatch(w) ==
  LET b == worker[w].batch IN
  /\ worker[w].phase = "wait"
  /\ txs[b].mined = worker[w].try /\ ReceiptSucceeded(b)
  /\ batches' = [batches EXCEPT ![b] =
                   [@ EXCEPT !.status = "confirmed", !.anchor = txs[b].anchor]]
  /\ outbox' = RowsAnchored(b)
  /\ worker' = [worker EXCEPT ![w].phase = "confirmed"]
  /\ UNCHANGED <<stepBatch, nextBatch, authority, chainVars, cursor, gasVars>>

(* The gas of one confirmed batch, read from the receipt; the variant adds *)
(* it up over the outbox rows of the batch.                                *)
GasPerStep(b) == Cardinality(batches[b].steps)
GasCost(b)    == 1

(* record_gas_spend, in a transaction of its own after the confirmation.   *)
RecordGasSpend(w) ==
  LET b == worker[w].batch IN
  /\ worker[w].phase = "confirmed"
  /\ spent' = [o \in Orgs |->
       IF o \in OrgOfSteps(batches[b].steps) THEN spent[o] + GasCost(b) ELSE spent[o]]
  /\ worker' = [worker EXCEPT ![w] = Advanced(@)]
  /\ UNCHANGED <<dbVars, authority, chainVars, cursor, budget>>

(* handle_submit_failure: the batch fails, and so does every row that still*)
(* points to it.                                                           *)
HandleSubmitFailure(w) ==
  LET b == worker[w].batch IN
  /\ worker[w].phase = "failing"
  /\ batches' = [batches EXCEPT ![b].status = "failed"]
  /\ outbox' = [s \in Steps |->
       IF outbox[s].batch = b THEN Failed(outbox[s], b) ELSE outbox[s]]
  /\ stepBatch' = Detached(b)
  /\ worker' = [worker EXCEPT ![w] = Advanced(@)]
  /\ UNCHANGED <<nextBatch, authority, chainVars, cursor, gasVars>>

(* An exception other than SubmitError ends the iteration: main() logs it  *)
(* and goes on.  Nothing of what was claimed is undone.                    *)
AbortIteration(w) ==
  /\ worker[w].phase \in Phases \ {"down", "idle", "polled"}
  /\ worker' = [worker EXCEPT ![w] = [NoWorker EXCEPT !.phase = "idle"]]
  /\ UNCHANGED <<dbVars, authority, chainVars, cursor, gasVars>>

(* The process dies.  Its connection, and with it the lock, goes too.      *)
Crash(w) ==
  /\ worker[w].phase \in Phases \ {"down", "idle", "polled"}
  /\ worker' = [worker EXCEPT ![w] = NoWorker]
  /\ authority' = IF authority = w THEN Nobody ELSE authority
  /\ UNCHANGED <<dbVars, chainVars, cursor, gasVars>>

(* SIGTERM, honoured between two iterations only.                          *)
Shutdown(w) ==
  /\ worker[w].phase = "idle"
  /\ worker' = [worker EXCEPT ![w] = NoWorker]
  /\ authority' = IF authority = w THEN Nobody ELSE authority
  /\ UNCHANGED <<dbVars, chainVars, cursor, gasVars>>

(* Only the connection dies: PostgreSQL frees the lock, the process never  *)
(* looks at it again and goes on.                                          *)
LoseAuthority ==
  /\ LockMayDrop
  /\ authority # Nobody
  /\ authority' = Nobody
  /\ UNCHANGED <<dbVars, worker, chainVars, cursor, gasVars>>

---------------------------------------------------------------------------
(* Time.                                                                   *)

(* claimed_at passes the cutoff: rows of one claim share their claimed_at. *)
(* Claims abandoned at different times expire together.  That a live claim *)
(* expires is seen only by the reaper of another process.                  *)
ClaimsExpire ==
  LET unexpired == {s \in Steps : outbox[s].status = "claimed" /\ ~ outbox[s].expired}
      orphans == unexpired \ UNION {worker[w].held : w \in Workers}
      overdue == {unexpired \cap worker[w].held : w \in
                    {u \in Workers : \E v \in Workers \ {u} : worker[v].phase # "down"}}
  IN \E S \in {orphans} \cup overdue :
       /\ S # {}
       /\ outbox' = [s \in Steps |->
            IF s \in S THEN [outbox[s] EXCEPT !.expired = TRUE] ELSE outbox[s]]
       /\ UNCHANGED <<stepBatch, batches, nextBatch, workerVars, chainVars, cursor, gasVars>>

(* next_attempt_at arrives: rows that failed together after the same number*)
(* of attempts come due together, the fewer the attempts the sooner.       *)
BackoffElapses(b) ==
  LET waiting == {s \in Pending : outbox[s].backoff = b}
  IN \E n \in {outbox[s].attempts : s \in waiting} :
       /\ b # NoBatch
       /\ \A s \in waiting : outbox[s].attempts >= n
       /\ outbox' = [s \in Steps |->
            IF s \in waiting /\ outbox[s].attempts = n
            THEN [outbox[s] EXCEPT !.backoff = NoBatch] ELSE outbox[s]]
       /\ UNCHANGED <<stepBatch, batches, nextBatch, workerVars, chainVars, cursor, gasVars>>

---------------------------------------------------------------------------
(* The chain.  Any broadcast attempt of the next nonce may be mined, also  *)
(* one the worker has since replaced.                                      *)

(* anchorBatch succeeds: the root was not used before.                     *)
MineAnchor(b, k) ==
  /\ k \in 1..txs[b].tries /\ txs[b].mined = 0 /\ txs[b].nonce = chainNonce
  /\ batches[b].steps \notin UsedRoots
  /\ anchors' = Append(anchors, batches[b].steps)
  /\ txs' = [txs EXCEPT ![b] = [@ EXCEPT !.mined = k, !.anchor = Len(anchors) + 1]]
  /\ chainNonce' = chainNonce + 1
  /\ UNCHANGED <<dbVars, workerVars, poolNonce, cursor, gasVars>>

(* anchorBatch reverts: DuplicateRoot, paused, a revoked role, no gas left.*)
MineRevert(b, k) ==
  /\ k \in 1..txs[b].tries /\ txs[b].mined = 0 /\ txs[b].nonce = chainNonce
  /\ txs' = [txs EXCEPT ![b].mined = k]
  /\ chainNonce' = chainNonce + 1
  /\ UNCHANGED <<dbVars, workerVars, poolNonce, anchors, cursor, gasVars>>

---------------------------------------------------------------------------
(* The indexer.  The unconfirmed batches an event is about: those of its   *)
(* merkle root.  The variant matches on the event's run id.                *)
Unconfirmed == {b \in BatchIds : batches[b].status \notin {"unused", "confirmed"}}

MatchingByRun(i) == {b \in Unconfirmed : RunsOf(batches[b].steps) = RunsOf(anchors[i])}
Matching(i) == {b \in Unconfirmed : batches[b].steps = anchors[i]}

(* The next BatchAnchored event.  Every matching batch is confirmed; the   *)
(* rows of the first one returned, and only of that one, are anchored.     *)
ReconcileBatchAnchored ==
  LET i == cursor + 1 IN
  /\ i \in DOMAIN anchors
  /\ cursor' = i
  /\ batches' = [b \in BatchIds |->
       IF b \in Matching(i) THEN [batches[b] EXCEPT !.status = "confirmed", !.anchor = i]
       ELSE batches[b]]
  /\ \/ Matching(i) = {} /\ UNCHANGED outbox
     \/ \E first \in Matching(i) : outbox' = RowsAnchored(first)
  /\ UNCHANGED <<stepBatch, nextBatch, workerVars, chainVars, gasVars>>

---------------------------------------------------------------------------

RunOnce(w) ==
  \/ ReapStaleClaims(w) \/ DeferFlush(w) \/ ClaimBatch(w) \/ BuildBatches(w)
  \/ \E b \in BatchIds : HandleGasCeilingSkip(w, b) \/ ReadNonce(w, b)
  \/ SendTransaction(w) \/ SendRejected(w) \/ MarkSubmitted(w)
  \/ ReceiptTimeout(w) \/ ReceiptReverted(w) \/ ConfirmBatch(w)
  \/ RecordGasSpend(w) \/ HandleSubmitFailure(w)

Passing == ClaimsExpire \/ \E b \in BatchIds : BackoffElapses(b)

Chain == \E b \in BatchIds, k \in 1..RbfAttempts : MineAnchor(b, k) \/ MineRevert(b, k)

Next ==
  \/ \E s \in Steps : LogStep(s)
  \/ \E o \in Orgs : RaiseBudget(o)
  \/ \E w \in Workers : AcquireAuthority(w) \/ RunOnce(w) \/ AbortIteration(w)
                        \/ Crash(w) \/ Shutdown(w)
  \/ LoseAuthority
  \/ Passing
  \/ Chain
  \/ ReconcileBatchAnchored

Spec == Init /\ [][Next]_vars

(* Fairness.  A live worker goes on with its iteration and, stopped between*)
(* two iterations, is started again and gets to run one (the process       *)
(* supervisor); the flush is not deferred forever because the oldest row's *)
(* age only grows; claims expire and backoffs elapse because clocks        *)
(* advance.  Neither the chain nor the indexer is assumed to do anything.  *)
FairSpec ==
  /\ Spec
  /\ \A w \in Workers : /\ WF_vars(AcquireAuthority(w))
                        /\ WF_vars(RunOnce(w))
                        /\ SF_vars(ReapStaleClaims(w))
                        /\ SF_vars(ClaimBatch(w))
  /\ WF_vars(Passing)

---------------------------------------------------------------------------

(* Every variable stays in its type.                                       *)
TypeOK ==
  /\ outbox \in [Steps -> OutboxRow]
  /\ stepBatch \in [Steps -> Nat]
  /\ batches \in [BatchIds -> BatchRow]
  /\ nextBatch \in Nat
  /\ worker \in [Workers -> WorkerState]
  /\ authority \in Workers \cup {Nobody}
  /\ txs \in [BatchIds -> TxState]
  /\ chainNonce \in Nat /\ poolNonce \in Nat
  /\ anchors \in Seq(SUBSET Steps)
  /\ cursor \in Nat
  /\ spent \in [Orgs -> Nat]
  /\ budget \in [Orgs -> Nat]

(* A batch the database calls confirmed is on chain under the anchor id it *)
(* records, with exactly its own root, whoever confirmed it: the worker    *)
(* from its receipt or the indexer from the event.                         *)
ConfirmedIsOnChain ==
  \A b \in BatchIds : batches[b].status = "confirmed" =>
    /\ batches[b].anchor \in DOMAIN anchors
    /\ anchors[batches[b].anchor] = batches[b].steps

(* An outbox row says anchored only of a step that some on-chain root      *)
(* really covers, in spite of stale batch ids left behind by the reaper.   *)
AnchoredIsOnChain ==
  \A s \in Steps : outbox[s].status = "anchored" => OnChain(s)

(* The proof GET /steps/{id}/proof serves for a step whose batch carries an*)
(* anchor id (read_model.get_step_proof) verifies on chain: the step is a  *)
(* leaf of its batch and that anchor holds the batch's root.               *)
ServedProofVerifies ==
  \A s \in Steps, b \in BatchIds :
    stepBatch[s] = b /\ batches[b].anchor # NoAnchor =>
      /\ s \in batches[b].steps
      /\ batches[b].anchor \in DOMAIN anchors
      /\ anchors[batches[b].anchor] = batches[b].steps

(* anchor_outbox.batch_id and steps.anchor_batch_id, written by separate   *)
(* UPDATEs keyed on different columns, never disagree.                     *)
BatchPointersAgree == \A s \in Steps : outbox[s].batch = stepBatch[s]

(* A step is dead-lettered only after max_attempts claims of it really     *)
(* failed; claims returned by the gas ceiling do not count.                *)
DeadLetterEarned ==
  \A s \in Steps : outbox[s].status = "dead_letter" => outbox[s].faults >= MaxAttempts

(* The gas an organization is charged never exceeds what its batches cost  *)
(* on chain (record_gas_spend).                                            *)
NeverOvercharged ==
  \A o \in Orgs :
    spent[o] <= Cardinality({i \in DOMAIN anchors : o \in OrgOfSteps(anchors[i])})

(* Every logged step is in the end anchored or dead-lettered, however the  *)
(* worker crashes and whatever the chain does.                             *)
EveryStepSettles ==
  \A s \in Steps :
    outbox[s].status = "pending" ~> outbox[s].status \in {"anchored", "dead_letter"}

(* The contract's claim: at-least-once delivery has exactly-once effect on *)
(* chain, so no step is under two anchored roots.                          *)
StepAnchoredOnce ==
  \A i, j \in DOMAIN anchors : i # j => anchors[i] \cap anchors[j] = {}
===========================================================================
