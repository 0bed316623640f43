----------------------- MODULE AnchorPipelineProofs -----------------------
(***************************************************************************)
(* Theorems of AnchorPipeline, for every value of its constants: any number*)
(* of steps, runs, organizations and workers, and, where a theorem does    *)
(* not say so, whether or not the connection of the nonce-authority lock   *)
(* may die alone; the last is that it implements AnchorPromise.            *)
(***************************************************************************)
EXTENDS AnchorRefinement, TLAPS, FiniteSetTheorems

---------------------------------------------------------------------------
(* The operators that compute a row, a batch or a worker keep their types. *)

(* The UPDATEs of an outbox row give an outbox row.                        *)
LEMMA RowTypes ==
  ASSUME NEW row \in OutboxRow, NEW b \in Nat
  PROVE  /\ Reaped(row) \in OutboxRow
         /\ Skipped(row) \in OutboxRow
         /\ Failed(row, b) \in OutboxRow
         /\ [row EXCEPT !.status = "anchored"] \in OutboxRow
         /\ [row EXCEPT !.status = "claimed", !.attempts = @ + 1] \in OutboxRow
<1>1. Reaped(row) \in OutboxRow
  <2>1. (IF row.attempts >= MaxAttempts THEN "dead_letter" ELSE "pending") \in OutboxStatus
    BY DEF OutboxStatus
  <2>2. row.faults + 1 \in Nat
    BY DEF OutboxRow
  <2> QED
    BY <2>1, <2>2 DEF Reaped, OutboxRow, NoBatch
<1>2. Skipped(row) \in OutboxRow
  <2>1. (IF row.attempts > 0 THEN row.attempts - 1 ELSE 0) \in Nat
    BY DEF OutboxRow
  <2> QED
    BY <2>1 DEF Skipped, OutboxRow, OutboxStatus, NoBatch
<1>3. Failed(row, b) \in OutboxRow
  <2>1. row.faults + 1 \in Nat
    BY DEF OutboxRow
  <2>2. CASE row.attempts >= MaxAttempts
    BY <2>1, <2>2 DEF Failed, OutboxRow, OutboxStatus, NoBatch
  <2>3. CASE ~ (row.attempts >= MaxAttempts)
    BY <2>1, <2>3 DEF Failed, OutboxRow, OutboxStatus, NoBatch
  <2> QED
    BY <2>2, <2>3
<1>4. [row EXCEPT !.status = "anchored"] \in OutboxRow
  BY DEF OutboxRow, OutboxStatus
<1>5. [row EXCEPT !.status = "claimed", !.attempts = @ + 1] \in OutboxRow
  <2>1. row.attempts + 1 \in Nat
    BY DEF OutboxRow
  <2> QED
    BY <2>1 DEF OutboxRow, OutboxStatus
<1> QED
  BY <1>1, <1>2, <1>3, <1>4, <1>5

(* Confirming a batch, by the worker or the indexer, keeps it a batch row. *)
LEMMA ConfirmedType ==
  ASSUME NEW row \in BatchRow, NEW n \in Nat
  PROVE  [row EXCEPT !.status = "confirmed", !.anchor = n] \in BatchRow
  BY DEF BatchRow, BatchStatus

(* A broadcast attempt is recorded in a well-typed transaction.            *)
LEMMA SentType ==
  ASSUME NEW tx \in TxState, NEW n \in Nat, NEW k \in Nat
  PROVE  [tx EXCEPT !.nonce = n, !.tries = k] \in TxState
  BY DEF TxState

(* So is the attempt that was mined.                                       *)
LEMMA MinedType ==
  ASSUME NEW tx \in TxState, NEW k \in Nat, NEW n \in Nat
  PROVE  [tx EXCEPT !.mined = k, !.anchor = n] \in TxState
  BY DEF TxState

(* The assignments run_once makes to the worker's locals keep their types. *)
LEMMA WorkerTypes ==
  ASSUME NEW me \in WorkerState, NEW x \in Phases, NEW S \in SUBSET Steps,
         NEW T \in SUBSET BatchIds, NEW b \in Nat, NEW n \in Nat, NEW k \in Nat
  PROVE  /\ [me EXCEPT !.phase = x] \in WorkerState
         /\ [me EXCEPT !.phase = x, !.held = S] \in WorkerState
         /\ [me EXCEPT !.phase = x, !.todo = T] \in WorkerState
         /\ [me EXCEPT !.todo = T] \in WorkerState
         /\ [me EXCEPT !.phase = x, !.try = k] \in WorkerState
         /\ [me EXCEPT !.phase = x, !.todo = T, !.batch = b, !.try = k, !.nonce = n]
              \in WorkerState
  BY DEF WorkerState

(* So does moving on to the next batch, or out of the iteration.           *)
LEMMA AdvancedType ==
  ASSUME NEW me \in WorkerState
  PROVE  Advanced(me) \in WorkerState
  BY DEF Advanced, WorkerState, Phases, NoBatch

(* Most actions of the worker only move it to another phase.               *)
LEMMA MovesType ==
  ASSUME TypeOK, NEW w \in Workers, NEW x \in Phases,
         worker' = [worker EXCEPT ![w].phase = x]
  PROVE  worker' \in [Workers -> WorkerState]
<1>1. worker[w] \in WorkerState /\ worker \in [Workers -> WorkerState]
  BY DEF TypeOK
<1>2. [worker[w] EXCEPT !.phase = x] \in WorkerState
  BY <1>1 DEF WorkerState
<1> QED
  BY <1>1, <1>2

(* A process that is down has well-typed (empty) locals.                   *)
LEMMA NoWorkerType == NoWorker \in WorkerState
  BY DEF NoWorker, WorkerState, Phases, NoBatch

---------------------------------------------------------------------------
(* Type correctness.                                                       *)

(* The empty database, the fresh contract and no process running.          *)
LEMMA TypeInit == Init => TypeOK
  BY SetsAssumption, LimitsAssumption, NoWorkerType
  DEF Init, TypeOK, NoRow, NoTx, OutboxRow, OutboxStatus, BatchRow, BatchStatus, TxState,
      BatchIds, NoBatch, NoAnchor, Nobody

(* Every action keeps the types; one step below per action of Next.        *)
LEMMA TypeStep == TypeOK /\ [Next]_vars => TypeOK'
<1> SUFFICES ASSUME TypeOK, [Next]_vars PROVE TypeOK'
  OBVIOUS
<1> USE SetsAssumption, LimitsAssumption
<1>1. ASSUME NEW s \in Steps, LogStep(s) PROVE TypeOK'
  <2>1. [outbox[s] EXCEPT !.status = "pending"] \in OutboxRow
    BY DEF TypeOK, OutboxRow, OutboxStatus
  <2> QED
    BY <1>1, <2>1 DEF LogStep, TypeOK, workerVars, chainVars, gasVars
<1>2. ASSUME NEW o \in Orgs, RaiseBudget(o) PROVE TypeOK'
  BY <1>2 DEF RaiseBudget, TypeOK, dbVars, workerVars, chainVars
<1>3. ASSUME NEW w \in Workers, AcquireAuthority(w) PROVE TypeOK'
  <2>1. worker' = [worker EXCEPT ![w].phase = "idle"]
    BY <1>3 DEF AcquireAuthority
  <2>2. worker' \in [Workers -> WorkerState]
    BY <2>1, MovesType DEF Phases
  <2> QED
    BY <1>3, <2>2 DEF AcquireAuthority, TypeOK, dbVars, chainVars, gasVars
<1>4. ASSUME NEW w \in Workers, ReapStaleClaims(w) PROVE TypeOK'
  <2>1. outbox' \in [Steps -> OutboxRow]
    BY <1>4, RowTypes DEF ReapStaleClaims, TypeOK
  <2>2. worker' \in [Workers -> WorkerState]
    BY <1>4, MovesType DEF ReapStaleClaims, Phases
  <2> QED
    BY <1>4, <2>1, <2>2 DEF ReapStaleClaims, TypeOK, chainVars, gasVars
<1>5. ASSUME NEW w \in Workers, DeferFlush(w) PROVE TypeOK'
  <2>1. worker' = [worker EXCEPT ![w].phase = "idle"]
    BY <1>5 DEF DeferFlush
  <2>2. worker' \in [Workers -> WorkerState]
    BY <2>1, MovesType DEF Phases
  <2> QED
    BY <1>5, <2>2 DEF DeferFlush, TypeOK, dbVars, chainVars, gasVars
<1>6. ASSUME NEW w \in Workers, ClaimBatch(w) PROVE TypeOK'
  <2>1. PICK S \in SUBSET Due :
          /\ outbox' = [s \in Steps |->
               IF s \in S
               THEN [outbox[s] EXCEPT !.status = "claimed", !.attempts = @ + 1]
               ELSE outbox[s]]
          /\ worker' = [worker EXCEPT ![w] = [@ EXCEPT !.phase = "claimed", !.held = S]]
    BY <1>6 DEF ClaimBatch
  <2>2. S \in SUBSET Steps
    BY DEF Due, Pending
  <2>3. outbox' \in [Steps -> OutboxRow]
    BY <2>1, RowTypes DEF TypeOK
  <2>4. worker' \in [Workers -> WorkerState]
    <3>1. worker[w] \in WorkerState /\ "claimed" \in Phases
      BY DEF TypeOK, Phases
    <3>2. [worker[w] EXCEPT !.phase = "claimed", !.held = S] \in WorkerState
      BY <2>2, <3>1 DEF WorkerState
    <3> QED
      BY <2>1, <3>2 DEF TypeOK
  <2> QED
    BY <1>6, <2>3, <2>4 DEF ClaimBatch, TypeOK, chainVars, gasVars
<1>7. ASSUME NEW w \in Workers, BuildBatches(w) PROVE TypeOK'
  <2> DEFINE S == worker[w].held
  <2>1. PICK id \in [RunsOf(S) -> BatchIds], last \in BatchIds :
          /\ nextBatch' = last + 1
          /\ batches' = [b \in BatchIds |->
               IF b \in nextBatch..last
               THEN [status |-> "building", anchor |-> NoAnchor,
                     steps |-> {s \in S : id[RunOf[s]] = b}]
               ELSE batches[b]]
          /\ outbox' = [s \in Steps |->
               IF s \in S THEN [outbox[s] EXCEPT !.batch = id[RunOf[s]]]
               ELSE outbox[s]]
          /\ stepBatch' = [s \in Steps |->
               IF s \in S THEN id[RunOf[s]] ELSE stepBatch[s]]
          /\ {id[r] : r \in RunsOf(S)} = nextBatch..last
          /\ worker' = [worker EXCEPT ![w] =
               [@ EXCEPT !.phase = "loop", !.todo = nextBatch..last]]
    BY <1>7 DEF BuildBatches
  <2>2. S \subseteq Steps
    BY DEF TypeOK, WorkerState
  <2>3. \A s \in S : id[RunOf[s]] \in BatchIds
    BY <2>2 DEF RunsOf
  <2>4. BatchIds \subseteq Nat
    BY DEF BatchIds
  <2>5. outbox' \in [Steps -> OutboxRow]
    <3>1. ASSUME NEW s \in S PROVE [outbox[s] EXCEPT !.batch = id[RunOf[s]]] \in OutboxRow
      <4>1. id[RunOf[s]] \in Nat /\ outbox[s] \in OutboxRow
        BY <2>2, <2>3, <2>4 DEF TypeOK
      <4> QED
        BY <4>1 DEF OutboxRow
    <3>2. \A s \in Steps : outbox[s] \in OutboxRow
      BY DEF TypeOK
    <3>3. outbox' = [s \in Steps |->
            IF s \in S THEN [outbox[s] EXCEPT !.batch = id[RunOf[s]]] ELSE outbox[s]]
      BY <2>1
    <3> HIDE DEF S
    <3> QED
      BY <3>1, <3>2, <3>3
  <2>6. stepBatch' \in [Steps -> Nat]
    BY <2>1, <2>3, <2>4 DEF TypeOK
  <2>7. batches' \in [BatchIds -> BatchRow]
    <3>1. \A b \in BatchIds : {s \in S : id[RunOf[s]] = b} \in SUBSET Steps
      BY <2>2
    <3> QED
      BY <2>1, <3>1 DEF TypeOK, BatchRow, BatchStatus, NoAnchor
  <2>8. worker' \in [Workers -> WorkerState]
    <3>1. nextBatch..last \in SUBSET BatchIds
      BY <2>1
    <3>2. [worker[w] EXCEPT !.phase = "loop", !.todo = nextBatch..last] \in WorkerState
      BY <3>1 DEF TypeOK, WorkerState, Phases
    <3> QED
      BY <2>1, <3>2 DEF TypeOK
  <2>9. nextBatch' \in Nat
    BY <2>1, <2>4
  <2> QED
    BY <1>7, <2>5, <2>6, <2>7, <2>8, <2>9 DEF BuildBatches, TypeOK, chainVars, gasVars
<1>8. ASSUME NEW w \in Workers, NEW b \in BatchIds, HandleGasCeilingSkip(w, b) PROVE TypeOK'
  <2>1. b \in Nat
    BY DEF BatchIds
  <2>2. outbox' \in [Steps -> OutboxRow]
    BY <1>8, <2>1, RowTypes DEF HandleGasCeilingSkip, TypeOK
  <2>3. stepBatch' \in [Steps -> Nat]
    BY <1>8 DEF HandleGasCeilingSkip, Detached, TypeOK, NoBatch
  <2>4. batches' \in [BatchIds -> BatchRow]
    BY <1>8 DEF HandleGasCeilingSkip, TypeOK, BatchRow, BatchStatus
  <2>5. [worker[w] EXCEPT !.todo = @ \ {b}] \in WorkerState
    BY DEF TypeOK, WorkerState
  <2>6. Advanced([worker[w] EXCEPT !.todo = @ \ {b}]) \in WorkerState
    BY <2>5, AdvancedType
  <2>7. worker' \in [Workers -> WorkerState]
    BY <1>8, <2>6 DEF HandleGasCeilingSkip, TypeOK
  <2> QED
    BY <1>8, <2>2, <2>3, <2>4, <2>7 DEF HandleGasCeilingSkip, TypeOK, chainVars, gasVars
<1>9. ASSUME NEW w \in Workers, NEW b \in BatchIds, ReadNonce(w, b) PROVE TypeOK'
  <2>1. PICK next \in {"send", "failing"} :
          worker' = [worker EXCEPT ![w] =
            [worker[w] EXCEPT !.phase = next, !.todo = @ \ {b},
               !.batch = b, !.try = 1, !.nonce = PendingNonce]]
    BY <1>9 DEF ReadNonce
  <2>2. worker[w] \in WorkerState /\ next \in Phases /\ PendingNonce \in Nat /\ b \in Nat
    BY DEF TypeOK, Phases, PendingNonce, BatchIds
  <2>3. worker[w].todo \ {b} \in SUBSET BatchIds
    BY DEF TypeOK, WorkerState
  <2>4. [worker[w] EXCEPT !.phase = next, !.todo = @ \ {b},
           !.batch = b, !.try = 1, !.nonce = PendingNonce] \in WorkerState
    BY <2>2, <2>3, WorkerTypes
  <2>5. worker' \in [Workers -> WorkerState]
    BY <2>1, <2>4 DEF TypeOK
  <2> QED
    BY <1>9, <2>5 DEF ReadNonce, TypeOK, dbVars, chainVars, gasVars
<1>10. ASSUME NEW w \in Workers, SendTransaction(w) PROVE TypeOK'
  <2>1. worker[w] \in WorkerState /\ worker[w].nonce \in Nat /\ worker[w].try \in Nat
    BY DEF TypeOK, WorkerState
  <2>2. txs' = [txs EXCEPT ![worker[w].batch] =
                  [@ EXCEPT !.nonce = worker[w].nonce, !.tries = worker[w].try]]
    BY <1>10 DEF SendTransaction
  <2>3. txs' \in [BatchIds -> TxState]
    BY <2>1, <2>2, SentType DEF TypeOK
  <2>4. poolNonce' \in Nat
    BY <1>10, <2>1 DEF SendTransaction, TypeOK
  <2>5. PICK next \in {"sent", "failing"} : worker' = [worker EXCEPT ![w].phase = next]
    BY <1>10 DEF SendTransaction
  <2>6. worker' \in [Workers -> WorkerState]
    BY <2>5, MovesType DEF Phases
  <2> QED
    BY <1>10, <2>3, <2>4, <2>6 DEF SendTransaction, TypeOK, dbVars, gasVars
<1>11. ASSUME NEW w \in Workers, SendRejected(w) PROVE TypeOK'
  <2>1. worker' = [worker EXCEPT ![w].phase = "failing"]
    BY <1>11 DEF SendRejected
  <2>2. worker' \in [Workers -> WorkerState]
    BY <2>1, MovesType DEF Phases
  <2> QED
    BY <1>11, <2>2 DEF SendRejected, TypeOK, dbVars, chainVars, gasVars
<1>12. ASSUME NEW w \in Workers, MarkSubmitted(w) PROVE TypeOK'
  <2>1. batches' \in [BatchIds -> BatchRow]
    <3>1. CASE worker[w].batch \in BatchIds
      <4>1. [batches[worker[w].batch] EXCEPT !.status = "submitted"] \in BatchRow
        BY <3>1 DEF TypeOK, BatchRow, BatchStatus
      <4> QED
        BY <1>12, <3>1, <4>1 DEF MarkSubmitted, TypeOK
    <3>2. CASE worker[w].batch \notin BatchIds
      BY <1>12, <3>2 DEF MarkSubmitted, TypeOK
    <3> QED
      BY <3>1, <3>2
  <2>2. worker' \in [Workers -> WorkerState]
    BY <1>12, MovesType DEF MarkSubmitted, Phases
  <2> QED
    BY <1>12, <2>1, <2>2 DEF MarkSubmitted, TypeOK, chainVars, gasVars
<1>13. ASSUME NEW w \in Workers, ReceiptTimeout(w) PROVE TypeOK'
  <2>1. worker[w] \in WorkerState /\ worker[w].try + 1 \in Nat
    BY DEF TypeOK, WorkerState
  <2>2. [worker[w] EXCEPT !.phase = "send", !.try = @ + 1] \in WorkerState
    BY <2>1 DEF WorkerState, Phases
  <2>3. [worker[w] EXCEPT !.phase = "failing"] \in WorkerState
    BY <2>1 DEF WorkerState, Phases
  <2>4. worker' \in [Workers -> WorkerState]
    BY <1>13, <2>2, <2>3 DEF ReceiptTimeout, TypeOK
  <2> QED
    BY <1>13, <2>4 DEF ReceiptTimeout, TypeOK, dbVars, chainVars, gasVars
<1>14. ASSUME NEW w \in Workers, ReceiptReverted(w) PROVE TypeOK'
  <2>1. worker' = [worker EXCEPT ![w].phase = "failing"]
    BY <1>14 DEF ReceiptReverted
  <2>2. worker' \in [Workers -> WorkerState]
    BY <2>1, MovesType DEF Phases
  <2> QED
    BY <1>14, <2>2 DEF ReceiptReverted, TypeOK, dbVars, chainVars, gasVars
<1>15. ASSUME NEW w \in Workers, ConfirmBatch(w) PROVE TypeOK'
  <2> DEFINE b == worker[w].batch
  <2>1. outbox' \in [Steps -> OutboxRow]
    BY <1>15, RowTypes DEF ConfirmBatch, RowsAnchored, TypeOK
  <2>2. worker' \in [Workers -> WorkerState]
    BY <1>15, MovesType DEF ConfirmBatch, Phases
  <2>3. batches' \in [BatchIds -> BatchRow]
    <3>1. CASE b \in BatchIds
      <4>1. txs[b].anchor \in Nat
        BY <3>1 DEF TypeOK, TxState
      <4>2. batches' = [batches EXCEPT ![b] =
                          [@ EXCEPT !.status = "confirmed", !.anchor = txs[b].anchor]]
        BY <1>15 DEF ConfirmBatch
      <4> QED
        BY <4>1, <4>2, <3>1, ConfirmedType DEF TypeOK
    <3>2. CASE b \notin BatchIds
      BY <1>15, <3>2 DEF ConfirmBatch, TypeOK
    <3> QED
      BY <3>1, <3>2
  <2> QED
    BY <1>15, <2>1, <2>2, <2>3 DEF ConfirmBatch, TypeOK, chainVars, gasVars
<1>16. ASSUME NEW w \in Workers, RecordGasSpend(w) PROVE TypeOK'
  <2>1. spent' \in [Orgs -> Nat]
    BY <1>16 DEF RecordGasSpend, GasCost, TypeOK
  <2>2. worker' \in [Workers -> WorkerState]
    BY <1>16, AdvancedType DEF RecordGasSpend, TypeOK
  <2> QED
    BY <1>16, <2>1, <2>2 DEF RecordGasSpend, TypeOK, dbVars, chainVars
<1>17. ASSUME NEW w \in Workers, HandleSubmitFailure(w) PROVE TypeOK'
  <2>1. worker[w].batch \in Nat
    BY DEF TypeOK, WorkerState
  <2>2. outbox' \in [Steps -> OutboxRow]
    BY <1>17, <2>1, RowTypes DEF HandleSubmitFailure, TypeOK
  <2>3. stepBatch' \in [Steps -> Nat]
    BY <1>17 DEF HandleSubmitFailure, Detached, TypeOK, NoBatch
  <2>4. batches' \in [BatchIds -> BatchRow]
    <3>1. \A b \in BatchIds : [batches[b] EXCEPT !.status = "failed"] \in BatchRow
      BY DEF TypeOK, BatchRow, BatchStatus
    <3> QED
      BY <1>17, <3>1 DEF HandleSubmitFailure, TypeOK
  <2>5. worker' \in [Workers -> WorkerState]
    BY <1>17, AdvancedType DEF HandleSubmitFailure, TypeOK
  <2> QED
    BY <1>17, <2>2, <2>3, <2>4, <2>5 DEF HandleSubmitFailure, TypeOK, chainVars, gasVars
<1>18. ASSUME NEW w \in Workers, AbortIteration(w) PROVE TypeOK'
  <2>1. [NoWorker EXCEPT !.phase = "idle"] \in WorkerState
    BY NoWorkerType DEF WorkerState, Phases
  <2> QED
    BY <1>18, <2>1 DEF AbortIteration, TypeOK, dbVars, chainVars, gasVars
<1>19. ASSUME NEW w \in Workers, Crash(w) \/ Shutdown(w) PROVE TypeOK'
  BY <1>19, NoWorkerType DEF Crash, Shutdown, TypeOK, Nobody, dbVars, chainVars, gasVars
<1>20. ASSUME LoseAuthority PROVE TypeOK'
  BY <1>20 DEF LoseAuthority, TypeOK, dbVars, chainVars, gasVars
<1>21. ASSUME ClaimsExpire PROVE TypeOK'
  <2>1. PICK S : outbox' = [s \in Steps |->
                   IF s \in S THEN [outbox[s] EXCEPT !.expired = TRUE] ELSE outbox[s]]
    BY <1>21 DEF ClaimsExpire
  <2>2. outbox' \in [Steps -> OutboxRow]
    BY <2>1 DEF TypeOK, OutboxRow
  <2> QED
    BY <1>21, <2>2 DEF ClaimsExpire, TypeOK, workerVars, chainVars, gasVars
<1>22. ASSUME NEW b \in BatchIds, BackoffElapses(b) PROVE TypeOK'
  <2>1. PICK S : outbox' = [s \in Steps |->
                   IF s \in S THEN [outbox[s] EXCEPT !.backoff = NoBatch] ELSE outbox[s]]
    <3> DEFINE waiting == {s \in Pending : outbox[s].backoff = b}
    <3>1. PICK n : outbox' = [s \in Steps |->
                     IF s \in waiting /\ outbox[s].attempts = n
                     THEN [outbox[s] EXCEPT !.backoff = NoBatch] ELSE outbox[s]]
      BY <1>22 DEF BackoffElapses
    <3> WITNESS {s \in waiting : outbox[s].attempts = n}
    <3> QED
      BY <3>1
  <2>2. outbox' \in [Steps -> OutboxRow]
    BY <2>1 DEF TypeOK, OutboxRow, NoBatch
  <2> QED
    BY <1>22, <2>2 DEF BackoffElapses, TypeOK, workerVars, chainVars, gasVars
<1>23. ASSUME NEW b \in BatchIds, NEW k \in 1..RbfAttempts, MineAnchor(b, k) PROVE TypeOK'
  <2>1. batches[b].steps \in SUBSET Steps
    BY DEF TypeOK, BatchRow
  <2>2. anchors' \in Seq(SUBSET Steps) /\ Len(anchors) + 1 \in Nat
    BY <1>23, <2>1 DEF MineAnchor, TypeOK
  <2>3. txs' \in [BatchIds -> TxState]
    <3>1. txs' = [txs EXCEPT ![b] = [@ EXCEPT !.mined = k, !.anchor = Len(anchors) + 1]]
      BY <1>23 DEF MineAnchor
    <3> QED
      BY <2>2, <3>1, k \in Nat, MinedType DEF TypeOK
  <2> QED
    <3>1. UNCHANGED <<dbVars, workerVars, poolNonce, cursor, gasVars>>
      BY <1>23 DEF MineAnchor
    <3>2. chainNonce' \in Nat
      BY <1>23 DEF MineAnchor, TypeOK
    <3> QED
      BY <2>2, <2>3, <3>1, <3>2 DEF TypeOK, dbVars, workerVars, gasVars
<1>24. ASSUME NEW b \in BatchIds, NEW k \in 1..RbfAttempts, MineRevert(b, k) PROVE TypeOK'
  <2>1. txs' \in [BatchIds -> TxState]
    <3>1. [txs[b] EXCEPT !.mined = k] \in TxState
      <4>1. k \in Nat /\ txs[b] \in TxState
        BY DEF TypeOK
      <4> HIDE SetsAssumption, LimitsAssumption
      <4> QED
        BY <4>1 DEF TxState
    <3>2. txs' = [txs EXCEPT ![b] = [txs[b] EXCEPT !.mined = k]]
      BY <1>24 DEF MineRevert
    <3> QED
      BY <3>1, <3>2 DEF TypeOK
  <2> QED
    <3>1. UNCHANGED <<dbVars, workerVars, poolNonce, anchors, cursor, gasVars>>
      BY <1>24 DEF MineRevert
    <3>2. chainNonce' \in Nat
      BY <1>24 DEF MineRevert, TypeOK
    <3> QED
      BY <2>1, <3>1, <3>2 DEF TypeOK, dbVars, workerVars, gasVars
<1>25. ASSUME ReconcileBatchAnchored PROVE TypeOK'
  <2>1. outbox' \in [Steps -> OutboxRow]
    <3>1. CASE UNCHANGED outbox
      BY <3>1 DEF TypeOK
    <3>2. CASE ~ UNCHANGED outbox
      <4>1. PICK first : outbox' = RowsAnchored(first)
        BY <1>25, <3>2 DEF ReconcileBatchAnchored
      <4> QED
        BY <4>1, RowTypes DEF RowsAnchored, TypeOK
    <3> QED
      BY <3>1, <3>2
  <2>2. batches' \in [BatchIds -> BatchRow]
    <3>1. cursor + 1 \in Nat
      BY DEF TypeOK
    <3>2. batches' = [b \in BatchIds |->
            IF b \in Matching(cursor + 1)
            THEN [batches[b] EXCEPT !.status = "confirmed", !.anchor = cursor + 1]
            ELSE batches[b]]
      BY <1>25 DEF ReconcileBatchAnchored
    <3> QED
      BY <3>1, <3>2, ConfirmedType DEF TypeOK
  <2>3. cursor' \in Nat
    <3>1. cursor' = cursor + 1
      BY <1>25 DEF ReconcileBatchAnchored
    <3> QED
      BY <3>1 DEF TypeOK
  <2> QED
    BY <1>25, <2>1, <2>2, <2>3 DEF ReconcileBatchAnchored, TypeOK, workerVars, chainVars, gasVars
<1>26. CASE UNCHANGED vars
  BY <1>26 DEF TypeOK, vars, dbVars, workerVars, chainVars, gasVars
<1> QED
  BY <1>1, <1>2, <1>3, <1>4, <1>5, <1>6, <1>7, <1>8, <1>9, <1>10, <1>11, <1>12, <1>13,
     <1>14, <1>15, <1>16, <1>17, <1>18, <1>19, <1>20, <1>21, <1>22, <1>23, <1>24, <1>25,
     <1>26 DEF Next, RunOnce, Passing, Chain

(* Every state the pipeline reaches is well typed, whatever its parameters.*)
THEOREM TypeCorrect == Spec => []TypeOK
  BY TypeInit, TypeStep, PTL DEF Spec

---------------------------------------------------------------------------
(* What the database says is on chain, is.  The three properties are not   *)
(* inductive: they rest on the batch ids, which are handed out in order and*)
(* never reused, so that a row, a worker or a transaction that names a     *)
(* batch names one whose steps are settled for good.                       *)

(* A row points to no batch or to one that was handed out and contains it. *)
RowsInTheirBatch ==
  \A s \in Steps : outbox[s].batch # NoBatch =>
    /\ outbox[s].batch \in BatchIds /\ outbox[s].batch < nextBatch
    /\ s \in batches[outbox[s].batch].steps

(* Ids not yet handed out name no batch, no transaction and no anchor.     *)
LaterIdsUnused ==
  \A b \in BatchIds : b >= nextBatch =>
    /\ batches[b].status = "unused" /\ batches[b].anchor = NoAnchor
    /\ txs[b].tries = 0 /\ txs[b].anchor = NoAnchor

Submitting == {"send", "sent", "wait"}

(* The batches a worker holds in its locals were handed out before.        *)
WorkersNameBuiltBatches ==
  \A w \in Workers :
    /\ worker[w].batch < nextBatch
    /\ worker[w].phase \in Submitting => worker[w].batch \in BatchIds
    /\ \A b \in worker[w].todo : b < nextBatch
    /\ worker[w].phase = "claimed" => worker[w].held # {}

(* A batch that records an anchor id records that of its own root.         *)
BatchAnchorsMatch ==
  \A b \in BatchIds : batches[b].anchor # NoAnchor =>
    /\ batches[b].anchor \in DOMAIN anchors
    /\ anchors[batches[b].anchor] = batches[b].steps

(* A mined transaction created an anchor with its own batch's root.        *)
TxAnchorsMatch ==
  \A b \in BatchIds : txs[b].anchor # NoAnchor =>
    /\ txs[b].anchor \in DOMAIN anchors
    /\ anchors[txs[b].anchor] = batches[b].steps

(* A confirmed batch records an anchor id.                                 *)
ConfirmedHasAnchor ==
  \A b \in BatchIds : batches[b].status = "confirmed" => batches[b].anchor # NoAnchor

IndInv ==
  /\ TypeOK
  /\ 0 < nextBatch
  /\ BatchPointersAgree /\ RowsInTheirBatch
  /\ LaterIdsUnused /\ WorkersNameBuiltBatches
  /\ BatchAnchorsMatch /\ TxAnchorsMatch /\ ConfirmedHasAnchor
  /\ AnchoredIsOnChain

(* The inductive invariant holds before anything is logged.                *)
LEMMA IndInit == Init => IndInv
<1> SUFFICES ASSUME Init PROVE IndInv
  OBVIOUS
<1>1. TypeOK
  BY TypeInit
<1>2. BatchPointersAgree /\ RowsInTheirBatch /\ AnchoredIsOnChain
  BY DEF Init, BatchPointersAgree, RowsInTheirBatch, AnchoredIsOnChain, NoRow
<1>3. WorkersNameBuiltBatches
  BY DEF Init, WorkersNameBuiltBatches, Submitting, NoWorker, NoBatch
<1>4. 0 < nextBatch /\ LaterIdsUnused /\ BatchAnchorsMatch /\ TxAnchorsMatch /\ ConfirmedHasAnchor
  BY DEF Init, LaterIdsUnused, BatchAnchorsMatch, TxAnchorsMatch, ConfirmedHasAnchor, NoTx
<1> QED
  BY <1>1, <1>2, <1>3, <1>4 DEF IndInv

(* A step that moves one worker along without giving it a new batch.       *)
LEMMA WorkerMoves ==
  ASSUME TypeOK, WorkersNameBuiltBatches, UNCHANGED nextBatch, 0 < nextBatch,
         NEW w \in Workers, NEW me, worker' = [worker EXCEPT ![w] = me],
         me.batch \in {worker[w].batch, NoBatch},
         me.todo \subseteq worker[w].todo,
         me.phase \in Submitting => /\ worker[w].phase \in Submitting
                                    /\ me.batch = worker[w].batch,
         me.phase = "claimed" => me.held # {}
  PROVE  WorkersNameBuiltBatches'
<1> SUFFICES ASSUME NEW v \in Workers
             PROVE  /\ worker'[v].batch < nextBatch
                    /\ worker'[v].phase \in Submitting => worker'[v].batch \in BatchIds
                    /\ \A b \in worker'[v].todo : b < nextBatch
                    /\ worker'[v].phase = "claimed" => worker'[v].held # {}
  BY DEF WorkersNameBuiltBatches
<1>1. CASE v = w
  <2>1. worker'[v] = me
    BY <1>1 DEF TypeOK
  <2>2. me.batch < nextBatch
    BY DEF WorkersNameBuiltBatches, NoBatch
  <2> QED
    BY <2>1, <2>2 DEF WorkersNameBuiltBatches
<1>2. CASE v # w
  <2>1. worker'[v] = worker[v]
    BY <1>2 DEF TypeOK
  <2> QED
    BY <2>1 DEF WorkersNameBuiltBatches
<1> QED
  BY <1>1, <1>2

(* The same for a worker that changes its phase only.                      *)
LEMMA PhaseMoves ==
  ASSUME TypeOK, WorkersNameBuiltBatches, UNCHANGED nextBatch, 0 < nextBatch,
         NEW w \in Workers, NEW x, worker' = [worker EXCEPT ![w].phase = x],
         x \in Submitting => worker[w].phase \in Submitting,
         x # "claimed"
  PROVE  WorkersNameBuiltBatches'
<1>1. worker[w] \in WorkerState
  BY DEF TypeOK
<1> DEFINE me == [worker[w] EXCEPT !.phase = x]
<1>2. worker' = [worker EXCEPT ![w] = me]
  OBVIOUS
<1>3. me.batch = worker[w].batch /\ me.todo = worker[w].todo /\ me.phase = x
  BY <1>1 DEF WorkerState
<1> HIDE DEF me
<1> QED
  BY <1>2, <1>3, WorkerMoves

(* The same for a worker that leaves the batch it was working on.          *)
LEMMA AdvancedMoves ==
  ASSUME TypeOK, WorkersNameBuiltBatches, UNCHANGED nextBatch, 0 < nextBatch,
         NEW w \in Workers, NEW me, worker' = [worker EXCEPT ![w] = Advanced(me)],
         me.todo \subseteq worker[w].todo
  PROVE  WorkersNameBuiltBatches'
<1>1. /\ Advanced(me).batch = NoBatch /\ Advanced(me).todo = me.todo
      /\ Advanced(me).phase \in {"idle", "loop"}
  BY DEF Advanced
<1> QED
  BY <1>1, WorkerMoves DEF Submitting

(* A step that leaves batches and the chain alone, and anchors no row.     *)
LEMMA QuietStep ==
  ASSUME IndInv, TypeOK',
         UNCHANGED <<stepBatch, batches, nextBatch, txs, anchors>>,
         \A s \in Steps :
           /\ outbox'[s].batch = outbox[s].batch
           /\ outbox'[s].status = "anchored" => outbox[s].status = "anchored",
         WorkersNameBuiltBatches'
  PROVE  IndInv'
<1>1. BatchPointersAgree' /\ RowsInTheirBatch'
  BY DEF IndInv, BatchPointersAgree, RowsInTheirBatch
<1>2. LaterIdsUnused' /\ BatchAnchorsMatch' /\ TxAnchorsMatch' /\ ConfirmedHasAnchor'
  BY DEF IndInv, LaterIdsUnused, BatchAnchorsMatch, TxAnchorsMatch, ConfirmedHasAnchor
<1>3. AnchoredIsOnChain' /\ (0 < nextBatch)'
  BY DEF IndInv, AnchoredIsOnChain, OnChain
<1> QED
  BY <1>1, <1>2, <1>3 DEF IndInv

(* The rows of a batch that is on chain become anchored.                   *)
LEMMA RowsAnchoredOnChain ==
  ASSUME TypeOK, BatchPointersAgree, RowsInTheirBatch, AnchoredIsOnChain,
         UNCHANGED <<stepBatch, nextBatch, anchors>>,
         NEW b \in BatchIds, NEW i \in DOMAIN anchors, anchors[i] = batches[b].steps,
         \A c \in BatchIds : batches'[c].steps = batches[c].steps,
         outbox' = RowsAnchored(b)
  PROVE  BatchPointersAgree' /\ RowsInTheirBatch' /\ AnchoredIsOnChain'
<1>1. \A s \in Steps : outbox'[s].batch = outbox[s].batch
  BY DEF RowsAnchored, TypeOK, OutboxRow
<1>2. BatchPointersAgree' /\ RowsInTheirBatch'
  BY <1>1 DEF BatchPointersAgree, RowsInTheirBatch
<1>3. ASSUME NEW s \in Steps, outbox'[s].status = "anchored" PROVE OnChain(s)'
  <2>1. CASE outbox[s].batch = b
    <3>1. s \in batches[b].steps
      BY <2>1 DEF RowsInTheirBatch, BatchIds, NoBatch
    <3> QED
      BY <3>1 DEF OnChain
  <2>2. CASE outbox[s].batch # b
    BY <1>3, <2>2 DEF RowsAnchored, AnchoredIsOnChain, OnChain
  <2> QED
    BY <2>1, <2>2
<1> QED
  BY <1>2, <1>3 DEF AnchoredIsOnChain

(* The rows of an abandoned batch are detached from it.                    *)
LEMMA RowsDetached ==
  ASSUME TypeOK, BatchPointersAgree, RowsInTheirBatch, AnchoredIsOnChain,
         UNCHANGED <<nextBatch, anchors>>, NEW b,
         \A c \in BatchIds : batches'[c].steps = batches[c].steps,
         \A s \in Steps :
           /\ outbox[s].batch # b => outbox'[s] = outbox[s]
           /\ outbox[s].batch = b => /\ outbox'[s].batch = NoBatch
                                     /\ outbox'[s].status # "anchored",
         stepBatch' = Detached(b)
  PROVE  BatchPointersAgree' /\ RowsInTheirBatch' /\ AnchoredIsOnChain'
<1>1. BatchPointersAgree'
  BY DEF BatchPointersAgree, Detached
<1>2. RowsInTheirBatch'
  BY DEF RowsInTheirBatch
<1>3. AnchoredIsOnChain'
  BY DEF AnchoredIsOnChain, OnChain
<1> QED
  BY <1>1, <1>2, <1>3

(* Every action keeps the inductive invariant; one step per action of Next.*)
LEMMA IndStep == IndInv /\ [Next]_vars => IndInv'
<1> SUFFICES ASSUME IndInv, [Next]_vars PROVE IndInv'
  OBVIOUS
<1> TypeOK /\ TypeOK'
  BY TypeStep DEF IndInv
<1> WorkersNameBuiltBatches /\ 0 < nextBatch
  BY DEF IndInv
<1>1. ASSUME NEW s \in Steps, LogStep(s) PROVE IndInv'
  <2>1. \A t \in Steps : /\ outbox'[t].batch = outbox[t].batch
                         /\ outbox'[t].status = "anchored" => outbox[t].status = "anchored"
    BY <1>1 DEF LogStep, TypeOK, OutboxRow
  <2>2. WorkersNameBuiltBatches'
    BY <1>1 DEF LogStep, workerVars, WorkersNameBuiltBatches
  <2> QED
    BY <1>1, <2>1, <2>2, QuietStep DEF LogStep, chainVars
<1>2. ASSUME NEW o \in Orgs, RaiseBudget(o) PROVE IndInv'
  <2>1. WorkersNameBuiltBatches'
    BY <1>2 DEF RaiseBudget, workerVars, dbVars, WorkersNameBuiltBatches
  <2> QED
    BY <1>2, <2>1, QuietStep DEF RaiseBudget, dbVars, chainVars
<1>3. ASSUME NEW w \in Workers, AcquireAuthority(w) PROVE IndInv'
  <2>1. WorkersNameBuiltBatches'
    BY <1>3, PhaseMoves DEF AcquireAuthority, Submitting, dbVars
  <2> QED
    BY <1>3, <2>1, QuietStep DEF AcquireAuthority, dbVars, chainVars
<1>4. ASSUME NEW w \in Workers, ReapStaleClaims(w) PROVE IndInv'
  <2>1. \A s \in Steps : /\ outbox'[s].batch = outbox[s].batch
                         /\ outbox'[s].status = "anchored" => outbox[s].status = "anchored"
    BY <1>4 DEF ReapStaleClaims, Reaped, TypeOK, OutboxRow
  <2>2. WorkersNameBuiltBatches'
    BY <1>4, PhaseMoves DEF ReapStaleClaims, Submitting
  <2> QED
    BY <1>4, <2>1, <2>2, QuietStep DEF ReapStaleClaims, chainVars
<1>5. ASSUME NEW w \in Workers, DeferFlush(w) PROVE IndInv'
  <2>1. WorkersNameBuiltBatches'
    BY <1>5, PhaseMoves DEF DeferFlush, Submitting, dbVars
  <2> QED
    BY <1>5, <2>1, QuietStep DEF DeferFlush, dbVars, chainVars
<1>6. ASSUME NEW w \in Workers, ClaimBatch(w) PROVE IndInv'
  <2>1. PICK S \in SUBSET Due :
          /\ S # {}
          /\ outbox' = [s \in Steps |->
               IF s \in S
               THEN [outbox[s] EXCEPT !.status = "claimed", !.attempts = @ + 1]
               ELSE outbox[s]]
          /\ worker' = [worker EXCEPT ![w] = [@ EXCEPT !.phase = "claimed", !.held = S]]
    BY <1>6 DEF ClaimBatch, Claimable
  <2>2. \A s \in Steps : /\ outbox'[s].batch = outbox[s].batch
                         /\ outbox'[s].status = "anchored" => outbox[s].status = "anchored"
    BY <2>1 DEF TypeOK, OutboxRow
  <2>3. WorkersNameBuiltBatches'
    <3> DEFINE me == [worker[w] EXCEPT !.phase = "claimed", !.held = S]
    <3>1. /\ me.batch = worker[w].batch /\ me.todo = worker[w].todo
          /\ me.phase = "claimed" /\ me.held = S
      BY DEF TypeOK, WorkerState
    <3>2. worker' = [worker EXCEPT ![w] = me] /\ UNCHANGED nextBatch
      BY <1>6, <2>1 DEF ClaimBatch
    <3> HIDE DEF me
    <3> QED
      BY <2>1, <3>1, <3>2, WorkerMoves DEF Submitting
  <2> QED
    BY <1>6, <2>2, <2>3, QuietStep DEF ClaimBatch, chainVars
<1>7. ASSUME NEW w \in Workers, BuildBatches(w) PROVE IndInv'
  <2> DEFINE S == worker[w].held
  <2>1. PICK id \in [RunsOf(S) -> BatchIds], last \in BatchIds :
          /\ {id[r] : r \in RunsOf(S)} = nextBatch..last
          /\ nextBatch' = last + 1
          /\ batches' = [b \in BatchIds |->
               IF b \in nextBatch..last
               THEN [status |-> "building", anchor |-> NoAnchor,
                     steps |-> {s \in S : id[RunOf[s]] = b}]
               ELSE batches[b]]
          /\ outbox' = [s \in Steps |->
               IF s \in S THEN [outbox[s] EXCEPT !.batch = id[RunOf[s]]]
               ELSE outbox[s]]
          /\ stepBatch' = [s \in Steps |->
               IF s \in S THEN id[RunOf[s]] ELSE stepBatch[s]]
          /\ worker' = [worker EXCEPT ![w] =
               [@ EXCEPT !.phase = "loop", !.todo = nextBatch..last]]
    BY <1>7 DEF BuildBatches
  <2>2. S # {} /\ S \subseteq Steps
    BY <1>7 DEF BuildBatches, WorkersNameBuiltBatches, TypeOK, WorkerState
  <2>3. \A s \in S : id[RunOf[s]] \in nextBatch..last
    BY <2>1 DEF RunsOf
  <2>4. last \in Nat /\ nextBatch \in Nat /\ nextBatch <= last /\ 0 < nextBatch'
    <3>1. last \in Nat /\ nextBatch \in Nat
      BY LimitsAssumption DEF TypeOK, BatchIds
    <3>2. PICK i \in nextBatch..last : TRUE
      BY <2>2, <2>3
    <3> QED
      BY <2>1, <3>1, <3>2
  <2>5. BatchPointersAgree'
    BY <2>1 DEF IndInv, BatchPointersAgree, TypeOK, OutboxRow
  <2>6. RowsInTheirBatch'
    <3> SUFFICES ASSUME NEW s \in Steps, outbox'[s].batch # NoBatch
                 PROVE  /\ outbox'[s].batch \in BatchIds /\ outbox'[s].batch < nextBatch'
                        /\ s \in batches'[outbox'[s].batch].steps
      BY DEF RowsInTheirBatch
    <3>1. CASE s \in S
      <4>1. outbox'[s].batch = id[RunOf[s]] /\ id[RunOf[s]] \in BatchIds
        BY <2>1, <3>1 DEF TypeOK, OutboxRow, RunsOf
      <4> QED
        BY <2>1, <2>3, <2>4, <3>1, <4>1
    <3>2. CASE s \notin S
      <4>1. outbox'[s] = outbox[s]
        BY <2>1, <3>2
      <4>2. /\ outbox[s].batch \in BatchIds /\ outbox[s].batch < nextBatch
            /\ s \in batches[outbox[s].batch].steps
        BY <4>1 DEF IndInv, RowsInTheirBatch
      <4> QED
        <5>1. outbox[s].batch \in Nat /\ outbox[s].batch \notin nextBatch..last
          <6>1. outbox[s] \in OutboxRow
            BY DEF TypeOK
          <6> QED
            BY <2>4, <4>2, <6>1 DEF OutboxRow
        <5>2. outbox[s].batch < nextBatch'
          BY <2>1, <2>4, <4>2, <5>1
        <5> QED
          BY <2>1, <4>1, <4>2, <5>1, <5>2
    <3> QED
      BY <3>1, <3>2
  <2>7. txs' = txs /\ anchors' = anchors
    BY <1>7 DEF BuildBatches, chainVars
  <2>8. LaterIdsUnused'
    BY <2>1, <2>4, <2>7 DEF IndInv, LaterIdsUnused, BatchIds
  <2>9. WorkersNameBuiltBatches'
    <3> SUFFICES ASSUME NEW v \in Workers
                 PROVE  /\ worker'[v].batch < nextBatch'
                        /\ worker'[v].phase \in Submitting => worker'[v].batch \in BatchIds
                        /\ \A b \in worker'[v].todo : b < nextBatch'
                        /\ worker'[v].phase = "claimed" => worker'[v].held # {}
      BY DEF WorkersNameBuiltBatches
    <3>1. worker[v].batch \in Nat /\ worker[v].todo \subseteq Nat
      <4>1. BatchIds \subseteq Nat
        BY DEF BatchIds
      <4> QED
        BY <4>1 DEF TypeOK, WorkerState
    <3>2. CASE v = w
      <4>1. /\ worker'[w].batch = worker[w].batch
            /\ worker'[w].todo = nextBatch..last
            /\ worker'[w].phase = "loop"
        BY <2>1 DEF TypeOK, WorkerState
      <4> QED
        BY <2>1, <2>4, <3>1, <3>2, <4>1 DEF WorkersNameBuiltBatches, Submitting
    <3>3. CASE v # w
      <4>1. worker'[v] = worker[v]
        BY <2>1, <3>3 DEF TypeOK
      <4> QED
        <5>1. worker[v].batch < nextBatch /\ \A b \in worker[v].todo : b < nextBatch
          BY DEF WorkersNameBuiltBatches
        <5>2. worker[v].batch < nextBatch' /\ \A b \in worker[v].todo : b < nextBatch'
          BY <2>1, <2>4, <3>1, <5>1
        <5> QED
          BY <4>1, <5>2 DEF WorkersNameBuiltBatches
    <3> QED
      BY <3>2, <3>3
  <2>10. BatchAnchorsMatch' /\ ConfirmedHasAnchor'
    BY <2>1, <2>7 DEF IndInv, BatchAnchorsMatch, ConfirmedHasAnchor
  <2>11. TxAnchorsMatch'
    BY <2>1, <2>7 DEF IndInv, TxAnchorsMatch, LaterIdsUnused
  <2>12. AnchoredIsOnChain'
    BY <2>1, <2>7 DEF IndInv, AnchoredIsOnChain, OnChain, TypeOK, OutboxRow
  <2> QED
    BY <2>4, <2>5, <2>6, <2>8, <2>9, <2>10, <2>11, <2>12 DEF IndInv
<1>8. ASSUME NEW w \in Workers, NEW b \in BatchIds, HandleGasCeilingSkip(w, b) PROVE IndInv'
  <2>1. /\ batches' = [batches EXCEPT ![b].status = "failed"]
        /\ stepBatch' = Detached(b)
        /\ worker' = [worker EXCEPT ![w] = Advanced([worker[w] EXCEPT !.todo = @ \ {b}])]
        /\ UNCHANGED <<nextBatch, txs, anchors>>
    BY <1>8 DEF HandleGasCeilingSkip, chainVars
  <2>2. \A s \in Steps :
          /\ outbox[s].batch # b => outbox'[s] = outbox[s]
          /\ outbox[s].batch = b => /\ outbox'[s].batch = NoBatch
                                    /\ outbox'[s].status # "anchored"
    <3> SUFFICES ASSUME NEW s \in Steps
                 PROVE  /\ outbox[s].batch # b => outbox'[s] = outbox[s]
                        /\ outbox[s].batch = b => /\ outbox'[s].batch = NoBatch
                                                  /\ outbox'[s].status # "anchored"
      OBVIOUS
    <3>1. outbox'[s] = IF outbox[s].batch = b THEN Skipped(outbox[s]) ELSE outbox[s]
      BY <1>8 DEF HandleGasCeilingSkip
    <3>2. outbox[s] \in OutboxRow
      BY DEF TypeOK
    <3>3. Skipped(outbox[s]).batch = NoBatch /\ Skipped(outbox[s]).status # "anchored"
      BY <3>2 DEF Skipped, OutboxRow
    <3> QED
      BY <3>1, <3>3
  <2>3. \A c \in BatchIds : /\ batches'[c].steps = batches[c].steps
                            /\ batches'[c].anchor = batches[c].anchor
                            /\ batches'[c].status \in {batches[c].status, "failed"}
    BY <2>1 DEF TypeOK, BatchRow
  <2>4. BatchPointersAgree' /\ RowsInTheirBatch' /\ AnchoredIsOnChain'
    BY <2>1, <2>2, <2>3, RowsDetached DEF IndInv
  <2>5. b < nextBatch
    BY <1>8 DEF HandleGasCeilingSkip, WorkersNameBuiltBatches
  <2>6. LaterIdsUnused' /\ BatchAnchorsMatch' /\ TxAnchorsMatch' /\ ConfirmedHasAnchor'
    <3>1. LaterIdsUnused'
      <4>1. \A c \in BatchIds : c # b => batches'[c] = batches[c]
        BY <2>1 DEF TypeOK
      <4>2. ~ (b >= nextBatch)
        BY <2>5 DEF BatchIds, TypeOK
      <4> QED
        BY <2>1, <4>1, <4>2 DEF IndInv, LaterIdsUnused
    <3> QED
      BY <2>1, <2>3, <3>1 DEF IndInv, BatchAnchorsMatch, TxAnchorsMatch, ConfirmedHasAnchor
  <2>7. WorkersNameBuiltBatches'
    <3>1. [worker[w] EXCEPT !.todo = @ \ {b}].todo \subseteq worker[w].todo
      BY DEF TypeOK, WorkerState
    <3> QED
      BY <2>1, <3>1, AdvancedMoves
  <2> QED
    BY <2>1, <2>4, <2>6, <2>7 DEF IndInv
<1>9. ASSUME NEW w \in Workers, NEW b \in BatchIds, ReadNonce(w, b) PROVE IndInv'
  <2>1. PICK next \in {"send", "failing"} :
          worker' = [worker EXCEPT ![w] =
            [worker[w] EXCEPT !.phase = next, !.todo = @ \ {b},
               !.batch = b, !.try = 1, !.nonce = PendingNonce]]
    BY <1>9 DEF ReadNonce
  <2>2. b \in worker[w].todo /\ UNCHANGED <<dbVars, chainVars>>
    BY <1>9 DEF ReadNonce
  <2>3. WorkersNameBuiltBatches'
    <3>1. /\ worker'[w].batch = b
          /\ worker'[w].todo \subseteq worker[w].todo
          /\ worker'[w].phase # "claimed"
      BY <2>1 DEF TypeOK, WorkerState
    <3>2. \A v \in Workers \ {w} : worker'[v] = worker[v]
      BY <2>1 DEF TypeOK
    <3> QED
      BY <2>2, <3>1, <3>2 DEF WorkersNameBuiltBatches, dbVars
  <2> QED
    BY <2>2, <2>3, QuietStep DEF dbVars, chainVars
<1>10. ASSUME NEW w \in Workers, SendTransaction(w) PROVE IndInv'
  <2> DEFINE b == worker[w].batch
  <2>1. /\ txs' = [txs EXCEPT ![b] = [@ EXCEPT !.nonce = worker[w].nonce, !.tries = worker[w].try]]
        /\ UNCHANGED <<dbVars, anchors>>
    BY <1>10 DEF SendTransaction
  <2>2. \A c \in BatchIds : /\ txs'[c].anchor = txs[c].anchor
                            /\ c # b => txs'[c] = txs[c]
    BY <2>1 DEF TypeOK, TxState
  <2>3. LaterIdsUnused'
    <3>1. \A c \in BatchIds : c >= nextBatch => c # b
      BY DEF WorkersNameBuiltBatches, TypeOK, WorkerState, BatchIds
    <3> QED
      BY <2>1, <2>2, <3>1 DEF IndInv, LaterIdsUnused, dbVars
  <2>4. TxAnchorsMatch' /\ BatchAnchorsMatch' /\ ConfirmedHasAnchor'
    BY <2>1, <2>2 DEF IndInv, TxAnchorsMatch, BatchAnchorsMatch, ConfirmedHasAnchor, dbVars
  <2>5. BatchPointersAgree' /\ RowsInTheirBatch' /\ AnchoredIsOnChain' /\ (0 < nextBatch)'
    BY <2>1 DEF IndInv, BatchPointersAgree, RowsInTheirBatch, AnchoredIsOnChain, OnChain, dbVars
  <2>6. WorkersNameBuiltBatches'
    <3>1. PICK next \in {"sent", "failing"} : worker' = [worker EXCEPT ![w].phase = next]
      BY <1>10 DEF SendTransaction
    <3> QED
      BY <1>10, <2>1, <3>1, PhaseMoves DEF SendTransaction, Submitting, dbVars
  <2> QED
    BY <2>3, <2>4, <2>5, <2>6 DEF IndInv
<1>11. ASSUME NEW w \in Workers, SendRejected(w) \/ ReceiptReverted(w) PROVE IndInv'
  <2>1. worker' = [worker EXCEPT ![w].phase = "failing"] /\ UNCHANGED <<dbVars, chainVars>>
    BY <1>11 DEF SendRejected, ReceiptReverted
  <2>2. WorkersNameBuiltBatches'
    BY <2>1, PhaseMoves DEF Submitting, dbVars
  <2> QED
    BY <2>1, <2>2, QuietStep DEF dbVars, chainVars
<1>12. ASSUME NEW w \in Workers, MarkSubmitted(w) PROVE IndInv'
  <2> DEFINE b == worker[w].batch
  <2>1. /\ batches' = [batches EXCEPT ![b].status = "submitted"]
        /\ worker' = [worker EXCEPT ![w].phase = "wait"]
        /\ UNCHANGED <<outbox, stepBatch, nextBatch, txs, anchors>>
    BY <1>12 DEF MarkSubmitted, chainVars
  <2>2. \A c \in BatchIds : /\ batches'[c].steps = batches[c].steps
                            /\ batches'[c].anchor = batches[c].anchor
                            /\ batches'[c].status \in {batches[c].status, "submitted"}
                            /\ c # b => batches'[c] = batches[c]
    BY <2>1 DEF TypeOK, BatchRow
  <2>3. LaterIdsUnused'
    <3>1. \A c \in BatchIds : c >= nextBatch => c # b
      BY DEF WorkersNameBuiltBatches, TypeOK, WorkerState, BatchIds
    <3> QED
      BY <2>1, <2>2, <3>1 DEF IndInv, LaterIdsUnused
  <2>4. TxAnchorsMatch' /\ BatchAnchorsMatch' /\ ConfirmedHasAnchor'
    BY <2>1, <2>2 DEF IndInv, TxAnchorsMatch, BatchAnchorsMatch, ConfirmedHasAnchor
  <2>5. BatchPointersAgree' /\ RowsInTheirBatch' /\ AnchoredIsOnChain' /\ (0 < nextBatch)'
    BY <2>1, <2>2 DEF IndInv, BatchPointersAgree, RowsInTheirBatch, AnchoredIsOnChain, OnChain
  <2>6. WorkersNameBuiltBatches'
    BY <1>12, <2>1, PhaseMoves DEF MarkSubmitted, Submitting
  <2> QED
    BY <2>3, <2>4, <2>5, <2>6 DEF IndInv
<1>13. ASSUME NEW w \in Workers, ReceiptTimeout(w) PROVE IndInv'
  <2>1. UNCHANGED <<dbVars, chainVars>> /\ worker[w].phase = "wait" /\ worker[w] \in WorkerState
    BY <1>13 DEF ReceiptTimeout, TypeOK
  <2>2. PICK me \in { [worker[w] EXCEPT !.phase = "send", !.try = @ + 1],
                      [worker[w] EXCEPT !.phase = "failing"] } :
          worker' = [worker EXCEPT ![w] = me]
    BY <1>13 DEF ReceiptTimeout
  <2>3. /\ me.batch = worker[w].batch /\ me.todo = worker[w].todo
        /\ me.phase \in {"send", "failing"}
    BY <2>1 DEF WorkerState
  <2>4. WorkersNameBuiltBatches'
    BY <2>1, <2>2, <2>3, WorkerMoves DEF Submitting, dbVars
  <2> QED
    BY <2>1, <2>4, QuietStep DEF dbVars, chainVars
<1>14. ASSUME NEW w \in Workers, ConfirmBatch(w) PROVE IndInv'
  <2> DEFINE b == worker[w].batch
  <2>1. /\ batches' = [batches EXCEPT ![b] =
                         [@ EXCEPT !.status = "confirmed", !.anchor = txs[b].anchor]]
        /\ outbox' = RowsAnchored(b)
        /\ worker' = [worker EXCEPT ![w].phase = "confirmed"]
        /\ UNCHANGED <<stepBatch, nextBatch, txs, anchors>>
    BY <1>14 DEF ConfirmBatch, chainVars
  <2>2. \A c \in BatchIds : /\ batches'[c].steps = batches[c].steps
                            /\ c # b => batches'[c] = batches[c]
                            /\ c = b => batches'[c].anchor = txs[b].anchor
    BY <2>1 DEF TypeOK, BatchRow
  <2>3. WorkersNameBuiltBatches'
    BY <2>1, PhaseMoves DEF Submitting
  <2>4. LaterIdsUnused'
    <3>1. \A c \in BatchIds : c >= nextBatch => c # b
      BY DEF WorkersNameBuiltBatches, TypeOK, WorkerState, BatchIds
    <3> QED
      BY <2>1, <2>2, <3>1 DEF IndInv, LaterIdsUnused
  <2>5. b \in BatchIds
    BY <1>14 DEF ConfirmBatch, WorkersNameBuiltBatches, Submitting
  <2>6. /\ txs[b].anchor # NoAnchor
        /\ txs[b].anchor \in DOMAIN anchors
        /\ anchors[txs[b].anchor] = batches[b].steps
    BY <1>14, <2>5 DEF ConfirmBatch, ReceiptSucceeded, IndInv, TxAnchorsMatch
  <2>7. BatchPointersAgree' /\ RowsInTheirBatch' /\ AnchoredIsOnChain'
    BY <2>1, <2>2, <2>5, <2>6, RowsAnchoredOnChain DEF IndInv
  <2>8. BatchAnchorsMatch' /\ TxAnchorsMatch' /\ ConfirmedHasAnchor'
    <3>1. BatchAnchorsMatch'
      BY <2>1, <2>2, <2>5, <2>6 DEF IndInv, BatchAnchorsMatch
    <3>2. TxAnchorsMatch'
      BY <2>1, <2>2, <2>5, <2>6 DEF IndInv, TxAnchorsMatch
    <3>3. ConfirmedHasAnchor'
      BY <2>1, <2>2, <2>5, <2>6 DEF IndInv, ConfirmedHasAnchor
    <3> QED
      BY <3>1, <3>2, <3>3
  <2> QED
    BY <2>1, <2>3, <2>4, <2>7, <2>8 DEF IndInv
<1>15. ASSUME NEW w \in Workers, RecordGasSpend(w) PROVE IndInv'
  <2>1. worker' = [worker EXCEPT ![w] = Advanced(worker[w])] /\ UNCHANGED <<dbVars, chainVars>>
    BY <1>15 DEF RecordGasSpend
  <2>2. WorkersNameBuiltBatches'
    BY <2>1, AdvancedMoves DEF dbVars
  <2> QED
    BY <2>1, <2>2, QuietStep DEF dbVars, chainVars
<1>16. ASSUME NEW w \in Workers, HandleSubmitFailure(w) PROVE IndInv'
  <2> DEFINE b == worker[w].batch
  <2>1. /\ batches' = [batches EXCEPT ![b].status = "failed"]
        /\ stepBatch' = Detached(b)
        /\ worker' = [worker EXCEPT ![w] = Advanced(worker[w])]
        /\ UNCHANGED <<nextBatch, txs, anchors>>
    BY <1>16 DEF HandleSubmitFailure, chainVars
  <2>2. \A s \in Steps :
          /\ outbox[s].batch # b => outbox'[s] = outbox[s]
          /\ outbox[s].batch = b => /\ outbox'[s].batch = NoBatch
                                    /\ outbox'[s].status # "anchored"
    <3>1. ASSUME NEW s \in Steps
          PROVE  Failed(outbox[s], b).batch = NoBatch /\ Failed(outbox[s], b).status # "anchored"
      <4>1. CASE outbox[s].attempts >= MaxAttempts
        BY <4>1 DEF Failed, TypeOK, OutboxRow
      <4>2. CASE ~ (outbox[s].attempts >= MaxAttempts)
        BY <4>2 DEF Failed, TypeOK, OutboxRow
      <4> QED
        BY <4>1, <4>2
    <3> QED
      BY <1>16, <3>1 DEF HandleSubmitFailure
  <2>3. \A c \in BatchIds : /\ batches'[c].steps = batches[c].steps
                            /\ batches'[c].anchor = batches[c].anchor
                            /\ batches'[c].status \in {batches[c].status, "failed"}
                            /\ c # b => batches'[c] = batches[c]
    BY <2>1 DEF TypeOK, BatchRow
  <2>4. BatchPointersAgree' /\ RowsInTheirBatch' /\ AnchoredIsOnChain'
    BY <2>1, <2>2, <2>3, RowsDetached DEF IndInv
  <2>5. LaterIdsUnused'
    <3>1. \A c \in BatchIds : c >= nextBatch => c # b
      BY DEF WorkersNameBuiltBatches, TypeOK, WorkerState, BatchIds
    <3> QED
      BY <2>1, <2>3, <3>1 DEF IndInv, LaterIdsUnused
  <2>6. BatchAnchorsMatch' /\ TxAnchorsMatch' /\ ConfirmedHasAnchor'
    BY <2>1, <2>3 DEF IndInv, BatchAnchorsMatch, TxAnchorsMatch, ConfirmedHasAnchor
  <2>7. WorkersNameBuiltBatches'
    BY <2>1, AdvancedMoves
  <2> QED
    BY <2>1, <2>4, <2>5, <2>6, <2>7 DEF IndInv
<1>17. ASSUME NEW w \in Workers, AbortIteration(w) \/ Crash(w) \/ Shutdown(w) PROVE IndInv'
  <2>1. UNCHANGED <<dbVars, chainVars>>
    BY <1>17 DEF AbortIteration, Crash, Shutdown
  <2>2. PICK me \in {NoWorker, [NoWorker EXCEPT !.phase = "idle"]} :
          worker' = [worker EXCEPT ![w] = me]
    BY <1>17 DEF AbortIteration, Crash, Shutdown
  <2>3. me.batch = NoBatch /\ me.todo = {} /\ me.phase \in {"idle", "down"}
    BY <2>2 DEF NoWorker
  <2>4. WorkersNameBuiltBatches'
    BY <2>1, <2>2, <2>3, WorkerMoves DEF Submitting, dbVars
  <2> QED
    BY <2>1, <2>4, QuietStep DEF dbVars, chainVars
<1>18. ASSUME LoseAuthority PROVE IndInv'
  <2>1. WorkersNameBuiltBatches'
    BY <1>18 DEF LoseAuthority, dbVars, WorkersNameBuiltBatches
  <2> QED
    BY <1>18, <2>1, QuietStep DEF LoseAuthority, dbVars, chainVars
<1>19. ASSUME ClaimsExpire PROVE IndInv'
  <2>1. PICK S : outbox' = [s \in Steps |->
                   IF s \in S THEN [outbox[s] EXCEPT !.expired = TRUE] ELSE outbox[s]]
    BY <1>19 DEF ClaimsExpire
  <2>2. \A s \in Steps : /\ outbox'[s].batch = outbox[s].batch
                         /\ outbox'[s].status = "anchored" => outbox[s].status = "anchored"
    BY <2>1 DEF TypeOK, OutboxRow
  <2>3. UNCHANGED <<stepBatch, batches, nextBatch, workerVars, chainVars>>
    BY <1>19 DEF ClaimsExpire
  <2>4. WorkersNameBuiltBatches'
    BY <2>3 DEF workerVars, WorkersNameBuiltBatches
  <2> QED
    BY <2>2, <2>3, <2>4, QuietStep DEF chainVars
<1>20. ASSUME NEW b \in BatchIds, BackoffElapses(b) PROVE IndInv'
  <2>1. \A s \in Steps : /\ outbox'[s].batch = outbox[s].batch
                         /\ outbox'[s].status = outbox[s].status
    BY <1>20 DEF BackoffElapses, TypeOK, OutboxRow
  <2>2. UNCHANGED <<stepBatch, batches, nextBatch, workerVars, chainVars>>
    BY <1>20 DEF BackoffElapses
  <2>3. WorkersNameBuiltBatches'
    BY <2>2 DEF workerVars, WorkersNameBuiltBatches
  <2> QED
    BY <2>1, <2>2, <2>3, QuietStep DEF chainVars
<1>21. ASSUME NEW b \in BatchIds, NEW k \in 1..RbfAttempts, MineAnchor(b, k) PROVE IndInv'
  <2>1. /\ anchors' = Append(anchors, batches[b].steps)
        /\ txs' = [txs EXCEPT ![b] = [@ EXCEPT !.mined = k, !.anchor = Len(anchors) + 1]]
        /\ UNCHANGED <<dbVars, workerVars>>
    BY <1>21 DEF MineAnchor
  <2>2. /\ Len(anchors) \in Nat /\ DOMAIN anchors = 1..Len(anchors)
        /\ DOMAIN anchors' = 1..(Len(anchors) + 1)
        /\ \A i \in DOMAIN anchors : i \in DOMAIN anchors' /\ anchors'[i] = anchors[i]
        /\ anchors'[Len(anchors) + 1] = batches[b].steps
    BY <2>1 DEF TypeOK, BatchRow
  <2>3. \A c \in BatchIds : /\ c # b => txs'[c] = txs[c]
                            /\ c = b => txs'[c].anchor = Len(anchors) + 1
                            /\ txs'[c].tries = txs[c].tries
    BY <2>1 DEF TypeOK, TxState
  <2>4. ~ (b >= nextBatch)
    BY <1>21 DEF MineAnchor, IndInv, LaterIdsUnused
  <2>5. LaterIdsUnused'
    BY <2>1, <2>3, <2>4 DEF IndInv, LaterIdsUnused, dbVars
  <2>6. TxAnchorsMatch' /\ BatchAnchorsMatch' /\ ConfirmedHasAnchor'
    BY <2>1, <2>2, <2>3 DEF IndInv, TxAnchorsMatch, BatchAnchorsMatch, ConfirmedHasAnchor, dbVars
  <2>7. BatchPointersAgree' /\ RowsInTheirBatch' /\ WorkersNameBuiltBatches' /\ (0 < nextBatch)'
    BY <2>1 DEF IndInv, BatchPointersAgree, RowsInTheirBatch, WorkersNameBuiltBatches,
                dbVars, workerVars
  <2>8. AnchoredIsOnChain'
    BY <2>1, <2>2 DEF IndInv, AnchoredIsOnChain, OnChain, dbVars
  <2> QED
    BY <2>5, <2>6, <2>7, <2>8 DEF IndInv
<1>22. ASSUME NEW b \in BatchIds, NEW k \in 1..RbfAttempts, MineRevert(b, k) PROVE IndInv'
  <2>1. /\ txs' = [txs EXCEPT ![b].mined = k]
        /\ UNCHANGED <<dbVars, workerVars, anchors>>
    BY <1>22 DEF MineRevert
  <2>2. \A c \in BatchIds : txs'[c].anchor = txs[c].anchor /\ txs'[c].tries = txs[c].tries
    BY <2>1 DEF TypeOK, TxState
  <2>3. LaterIdsUnused' /\ TxAnchorsMatch' /\ BatchAnchorsMatch' /\ ConfirmedHasAnchor'
    BY <2>1, <2>2 DEF IndInv, LaterIdsUnused, TxAnchorsMatch, BatchAnchorsMatch,
                      ConfirmedHasAnchor, dbVars
  <2>4. BatchPointersAgree' /\ RowsInTheirBatch' /\ WorkersNameBuiltBatches'
        /\ AnchoredIsOnChain' /\ (0 < nextBatch)'
    BY <2>1 DEF IndInv, BatchPointersAgree, RowsInTheirBatch, WorkersNameBuiltBatches,
                AnchoredIsOnChain, OnChain, dbVars, workerVars
  <2> QED
    BY <2>3, <2>4 DEF IndInv
<1>23. ASSUME ReconcileBatchAnchored PROVE IndInv'
  <2> DEFINE i == cursor + 1
  <2>1. /\ i \in DOMAIN anchors
        /\ batches' = [b \in BatchIds |->
             IF b \in Matching(i)
             THEN [batches[b] EXCEPT !.status = "confirmed", !.anchor = i]
             ELSE batches[b]]
        /\ UNCHANGED <<stepBatch, nextBatch, workerVars, chainVars>>
    BY <1>23 DEF ReconcileBatchAnchored
  <2>2. \A b \in Matching(i) : /\ b \in BatchIds /\ anchors[i] = batches[b].steps
                               /\ ~ (b >= nextBatch)
    BY DEF Matching, Unconfirmed, IndInv, LaterIdsUnused
  <2>3. i # NoAnchor
    BY DEF TypeOK, NoAnchor
  <2>4. \A b \in BatchIds : /\ batches'[b].steps = batches[b].steps
                            /\ b \in Matching(i) => batches'[b].anchor = i
                            /\ b \notin Matching(i) => batches'[b] = batches[b]
    BY <2>1 DEF TypeOK, BatchRow
  <2>5. LaterIdsUnused'
    <3>1. \A b \in BatchIds : b >= nextBatch => batches'[b] = batches[b]
      BY <2>2, <2>4
    <3> QED
      BY <2>1, <3>1 DEF IndInv, LaterIdsUnused, chainVars
  <2>6. TxAnchorsMatch' /\ BatchAnchorsMatch' /\ ConfirmedHasAnchor'
    <3>1. TxAnchorsMatch'
      BY <2>1, <2>4 DEF IndInv, TxAnchorsMatch, chainVars
    <3>2. BatchAnchorsMatch'
      <4>1. anchors' = anchors
        BY <2>1 DEF chainVars
      <4>2. \A b \in Matching(i) : batches'[b].anchor = i /\ anchors[i] = batches'[b].steps
        BY <2>2, <2>4
      <4>3. \A b \in BatchIds \ Matching(i) : batches'[b] = batches[b]
        BY <2>4
      <4> HIDE DEF i
      <4> QED
        BY <2>1, <4>1, <4>2, <4>3 DEF IndInv, BatchAnchorsMatch
    <3>3. ConfirmedHasAnchor'
      BY <2>3, <2>4 DEF IndInv, ConfirmedHasAnchor
    <3> QED
      BY <3>1, <3>2, <3>3
  <2>7. WorkersNameBuiltBatches' /\ (0 < nextBatch)'
    BY <2>1 DEF WorkersNameBuiltBatches, workerVars
  <2>8. BatchPointersAgree' /\ RowsInTheirBatch' /\ AnchoredIsOnChain'
    <3>1. CASE UNCHANGED outbox
      <4>1. BatchPointersAgree'
        BY <2>1, <3>1 DEF IndInv, BatchPointersAgree
      <4>2. RowsInTheirBatch'
        BY <2>1, <2>4, <3>1 DEF IndInv, RowsInTheirBatch
      <4>3. AnchoredIsOnChain'
        BY <2>1, <3>1 DEF IndInv, AnchoredIsOnChain, OnChain, chainVars
      <4> QED
        BY <4>1, <4>2, <4>3
    <3>2. CASE ~ UNCHANGED outbox
      <4>1. PICK first \in Matching(i) : outbox' = RowsAnchored(first)
        BY <1>23, <3>2 DEF ReconcileBatchAnchored
      <4> QED
        BY <2>1, <2>2, <2>4, <4>1, RowsAnchoredOnChain DEF IndInv, chainVars
    <3> QED
      BY <3>1, <3>2
  <2> QED
    BY <2>5, <2>6, <2>7, <2>8 DEF IndInv
<1>24. CASE UNCHANGED vars
  <2>1. WorkersNameBuiltBatches'
    BY <1>24 DEF vars, dbVars, workerVars, WorkersNameBuiltBatches
  <2> QED
    BY <1>24, <2>1, QuietStep DEF vars, dbVars, chainVars
<1> QED
  BY <1>1, <1>2, <1>3, <1>4, <1>5, <1>6, <1>7, <1>8, <1>9, <1>10, <1>11, <1>12, <1>13,
     <1>14, <1>15, <1>16, <1>17, <1>18, <1>19, <1>20, <1>21, <1>22, <1>23, <1>24
  DEF Next, RunOnce, Passing, Chain

(* Hence it holds in every reachable state.                                *)
LEMMA Inductive == Spec => []IndInv
  BY IndInit, IndStep, PTL DEF Spec

(* A batch the database calls confirmed is on chain under the anchor id it *)
(* records, with exactly its own root: for the worker's own confirmation   *)
(* and the indexer's, any number of workers, lock or no lock.              *)
THEOREM ConfirmedBatchesAreOnChain == Spec => []ConfirmedIsOnChain
<1>1. IndInv => ConfirmedIsOnChain
  BY DEF IndInv, BatchAnchorsMatch, ConfirmedHasAnchor, ConfirmedIsOnChain
<1> QED
  BY <1>1, Inductive, PTL

(* A row that says anchored is of a step some on-chain root covers.        *)
THEOREM AnchoredStepsAreOnChain == Spec => []AnchoredIsOnChain
<1>1. IndInv => AnchoredIsOnChain
  BY DEF IndInv
<1> QED
  BY <1>1, Inductive, PTL

(* The proof served for a step verifies against the anchor it names.       *)
THEOREM ServedProofsVerify == Spec => []ServedProofVerifies
<1>1. IndInv => ServedProofVerifies
  <2> SUFFICES ASSUME IndInv, NEW s \in Steps, NEW b \in BatchIds,
                      stepBatch[s] = b, batches[b].anchor # NoAnchor
               PROVE  /\ s \in batches[b].steps
                      /\ batches[b].anchor \in DOMAIN anchors
                      /\ anchors[batches[b].anchor] = batches[b].steps
    BY DEF ServedProofVerifies
  <2>1. outbox[s].batch = b /\ b # NoBatch
    BY DEF IndInv, BatchPointersAgree, BatchIds, NoBatch
  <2> QED
    BY <2>1 DEF IndInv, RowsInTheirBatch, BatchAnchorsMatch
<1> QED
  BY <1>1, Inductive, PTL

(* The outbox row and the step always name the same batch.                 *)
THEOREM PointersAgree == Spec => []BatchPointersAgree
<1>1. IndInv => BatchPointersAgree
  BY DEF IndInv
<1> QED
  BY <1>1, Inductive, PTL

---------------------------------------------------------------------------
(* No step is dead-lettered early.  Each claim counts one attempt; the     *)
(* invariant is that all of them but the one in progress have failed.      *)

(* Claims counted against a row all failed, but the one in progress.       *)
AttemptsWereFaults ==
  \A s \in Steps :
    /\ outbox[s].attempts <= outbox[s].faults + 1
    /\ outbox[s].status \in {"none", "pending", "dead_letter"} =>
         outbox[s].attempts <= outbox[s].faults

CountInv == TypeOK /\ AttemptsWereFaults /\ DeadLetterEarned

Counted(row) ==
  /\ row.attempts <= row.faults + 1
  /\ row.status \in {"none", "pending", "dead_letter"} => row.attempts <= row.faults
  /\ row.status = "dead_letter" => row.faults >= MaxAttempts

(* The count is a fact about each outbox row by itself.                    *)
LEMMA CountInvPerRow == CountInv <=> TypeOK /\ \A s \in Steps : Counted(outbox[s])
  BY DEF CountInv, AttemptsWereFaults, DeadLetterEarned, Counted

(* Each UPDATE of an outbox row keeps the count.                           *)
LEMMA CountedUpdates ==
  ASSUME NEW row \in OutboxRow, NEW b \in Nat, Counted(row)
  PROVE  /\ Counted(Reaped(row)) /\ Counted(Skipped(row)) /\ Counted(Failed(row, b))
         /\ Counted([row EXCEPT !.status = "anchored"])
         /\ row.status = "pending" =>
              Counted([row EXCEPT !.status = "claimed", !.attempts = @ + 1])
<1> USE LimitsAssumption DEF OutboxRow
<1>1. Counted(Reaped(row))
  <2>1. CASE row.attempts >= MaxAttempts
    BY <2>1 DEF Reaped, Counted
  <2>2. CASE ~ (row.attempts >= MaxAttempts)
    BY <2>2 DEF Reaped, Counted
  <2> QED
    BY <2>1, <2>2
<1>2. Counted(Skipped(row))
  <2>1. CASE row.attempts > 0
    BY <2>1 DEF Skipped, Counted
  <2>2. CASE ~ (row.attempts > 0)
    BY <2>2 DEF Skipped, Counted
  <2> QED
    BY <2>1, <2>2
<1>3. Counted(Failed(row, b))
  <2>1. CASE row.attempts >= MaxAttempts
    BY <2>1 DEF Failed, Counted
  <2>2. CASE ~ (row.attempts >= MaxAttempts)
    BY <2>2 DEF Failed, Counted
  <2> QED
    BY <2>1, <2>2
<1>4. Counted([row EXCEPT !.status = "anchored"])
  BY DEF Counted
<1>5. ASSUME row.status = "pending"
      PROVE  Counted([row EXCEPT !.status = "claimed", !.attempts = @ + 1])
  BY <1>5 DEF Counted
<1> QED
  BY <1>1, <1>2, <1>3, <1>4, <1>5

(* Every action keeps the count.                                           *)
LEMMA CountStep == CountInv /\ [Next]_vars => CountInv'
<1> SUFFICES ASSUME CountInv, [Next]_vars, TypeOK, TypeOK', NEW s \in Steps,
                    Counted(outbox[s]), outbox[s] \in OutboxRow
             PROVE  Counted(outbox'[s])
  <2>1. CountInv' <=> TypeOK' /\ \A s \in Steps : Counted(outbox'[s])
    BY DEF CountInv, AttemptsWereFaults, DeadLetterEarned, Counted
  <2> QED
    BY <2>1, TypeStep, CountInvPerRow DEF CountInv, TypeOK
<1>1. ASSUME UNCHANGED outbox PROVE Counted(outbox'[s])
  BY <1>1
<1>2. ASSUME NEW t \in Steps, LogStep(t) PROVE Counted(outbox'[s])
  <2>1. CASE s = t
    BY <1>2, <2>1 DEF LogStep, Counted, TypeOK, OutboxRow
  <2>2. CASE s # t
    BY <1>2, <2>2 DEF LogStep, TypeOK
  <2> QED
    BY <2>1, <2>2
<1>3. ASSUME NEW w \in Workers, ReapStaleClaims(w) PROVE Counted(outbox'[s])
  BY <1>3, CountedUpdates DEF ReapStaleClaims
<1>4. ASSUME NEW w \in Workers, ClaimBatch(w) PROVE Counted(outbox'[s])
  <2>1. PICK S \in SUBSET Due :
          outbox' = [t \in Steps |->
            IF t \in S
            THEN [outbox[t] EXCEPT !.status = "claimed", !.attempts = @ + 1]
            ELSE outbox[t]]
    BY <1>4 DEF ClaimBatch
  <2>2. s \in S => outbox[s].status = "pending"
    BY DEF Due, Pending
  <2> QED
    BY <2>1, <2>2, CountedUpdates
<1>5. ASSUME NEW w \in Workers, BuildBatches(w) PROVE Counted(outbox'[s])
  <2>1. PICK id : outbox' = [t \in Steps |->
                    IF t \in worker[w].held
                    THEN [outbox[t] EXCEPT !.batch = id[RunOf[t]]] ELSE outbox[t]]
    BY <1>5 DEF BuildBatches
  <2> QED
    BY <2>1 DEF Counted, OutboxRow
<1>6. ASSUME NEW w \in Workers, NEW b \in BatchIds, HandleGasCeilingSkip(w, b)
      PROVE  Counted(outbox'[s])
  BY <1>6, CountedUpdates DEF HandleGasCeilingSkip
<1>7. ASSUME NEW b, outbox' = RowsAnchored(b) PROVE Counted(outbox'[s])
  BY <1>7, CountedUpdates DEF RowsAnchored
<1>8. ASSUME NEW w \in Workers, HandleSubmitFailure(w) PROVE Counted(outbox'[s])
  <2>1. worker[w].batch \in Nat
    BY DEF TypeOK, WorkerState
  <2> QED
    BY <1>8, <2>1, CountedUpdates DEF HandleSubmitFailure
<1>9. ASSUME ClaimsExpire PROVE Counted(outbox'[s])
  <2>1. PICK S : outbox' = [t \in Steps |->
                   IF t \in S THEN [outbox[t] EXCEPT !.expired = TRUE] ELSE outbox[t]]
    BY <1>9 DEF ClaimsExpire
  <2> QED
    BY <2>1 DEF Counted, OutboxRow
<1>10. ASSUME NEW b \in BatchIds, BackoffElapses(b) PROVE Counted(outbox'[s])
  <2>1. /\ outbox'[s].status = outbox[s].status
        /\ outbox'[s].attempts = outbox[s].attempts /\ outbox'[s].faults = outbox[s].faults
    BY <1>10 DEF BackoffElapses, OutboxRow
  <2> QED
    BY <2>1 DEF Counted
<1>11. ASSUME NEW w \in Workers, RunOnce(w) PROVE Counted(outbox'[s])
  BY <1>1, <1>3, <1>4, <1>5, <1>6, <1>7, <1>8, <1>11
  DEF RunOnce, DeferFlush, ReadNonce, SendTransaction, SendRejected, MarkSubmitted,
      ReceiptTimeout, ReceiptReverted, ConfirmBatch, RecordGasSpend, dbVars
<1>12. CASE ReconcileBatchAnchored
  BY <1>1, <1>7, <1>12 DEF ReconcileBatchAnchored
<1>13. CASE Chain
  BY <1>1, <1>13 DEF Chain, MineAnchor, MineRevert, dbVars
<1> QED
  BY <1>1, <1>2, <1>9, <1>10, <1>11, <1>12, <1>13
  DEF Next, Passing, RaiseBudget, AcquireAuthority, AbortIteration, Crash, Shutdown,
      LoseAuthority, vars, dbVars

(* A dead letter took max_attempts failed claims: what the gas ceiling     *)
(* returned, restarts, late reaps and a second worker never add to them.   *)
THEOREM DeadLettersAreEarned == Spec => []DeadLetterEarned
<1>1. Init => CountInv
  BY TypeInit, LimitsAssumption
  DEF CountInv, Init, AttemptsWereFaults, DeadLetterEarned, NoRow
<1>2. CountInv => DeadLetterEarned
  BY DEF CountInv
<1> QED
  BY <1>1, <1>2, CountStep, PTL DEF Spec

---------------------------------------------------------------------------
(* Nobody is overcharged.  A batch is charged when the worker that built it*)
(* lets it go, ids are handed out once, and each anchor is of one batch.   *)

(* The batches a worker may still charge for.                              *)
Holding(me) == me.todo \cup ({me.batch} \ {NoBatch})

(* No batch is in two hands, nor twice in one.                             *)
HeldApart ==
  \A w \in Workers :
    /\ worker[w].batch \notin worker[w].todo
    /\ \A v \in Workers \ {w} : Holding(worker[v]) \cap Holding(worker[w]) = {}

(* A worker about to charge saw the receipt of an anchor.                  *)
ConfirmedHasTx ==
  \A w \in Workers : worker[w].phase = "confirmed" =>
    worker[w].batch \in BatchIds /\ txs[worker[w].batch].anchor # NoAnchor

(* An anchor was created by the transaction of one batch.                  *)
AnchorsOwned ==
  \A b, c \in BatchIds :
    txs[b].anchor # NoAnchor /\ txs[b].anchor = txs[c].anchor => b = c

(* The anchored batches of o nobody will charge for any more.              *)
Charged(o) == {b \in BatchIds : /\ txs[b].anchor # NoAnchor
                                /\ o \in OrgOfSteps(batches[b].steps)
                                /\ \A w \in Workers : b \notin Holding(worker[w])}

ChargedOnce == \A o \in Orgs : spent[o] <= Cardinality(Charged(o))

GasInv == IndInv /\ HeldApart /\ ConfirmedHasTx /\ AnchorsOwned /\ ChargedOnce

(* Sets of batches are finite.                                             *)
LEMMA ChargedFinite == \A o : IsFiniteSet(Charged(o))
<1>1. IsFiniteSet(BatchIds)
  BY LimitsAssumption, FS_Interval DEF BatchIds
<1>2. \A o : Charged(o) \subseteq BatchIds
  BY DEF Charged
<1> QED
  BY <1>1, <1>2, FS_Subset

(* When no batch leaves Charged the count of them stays an upper bound.    *)
LEMMA ChargedOnceKept ==
  ASSUME ChargedOnce, TypeOK, UNCHANGED spent, \A o \in Orgs : Charged(o) \subseteq Charged(o)'
  PROVE  ChargedOnce'
<1> SUFFICES ASSUME NEW o \in Orgs PROVE spent[o] <= Cardinality(Charged(o)')
  BY DEF ChargedOnce
<1>1. IsFiniteSet(Charged(o)) /\ IsFiniteSet(Charged(o)')
  <2>1. IsFiniteSet(BatchIds)
    BY LimitsAssumption, FS_Interval DEF BatchIds
  <2>2. Charged(o)' \subseteq BatchIds
    BY DEF Charged
  <2> QED
    BY <2>1, <2>2, ChargedFinite, FS_Subset
<1>2. Cardinality(Charged(o)) <= Cardinality(Charged(o)')
  BY <1>1, FS_Subset
<1>3. Cardinality(Charged(o)) \in Nat /\ Cardinality(Charged(o)') \in Nat /\ spent[o] \in Nat
  BY <1>1, FS_CardinalityType DEF TypeOK
<1>4. spent[o] <= Cardinality(Charged(o))
  BY DEF ChargedOnce
<1> QED
  BY <1>2, <1>3, <1>4

(* An anchored batch was handed out.                                       *)
LEMMA AnchoredIsBuilt ==
  ASSUME IndInv, NEW b \in BatchIds, txs[b].anchor # NoAnchor
  PROVE  b < nextBatch
  BY DEF IndInv, LaterIdsUnused, TypeOK, BatchIds

(* A step of one worker that takes up no batch and charges for none.       *)
LEMMA GasWorkerMoves ==
  ASSUME GasInv, IndInv', UNCHANGED spent,
         \A b \in BatchIds : txs'[b].anchor = txs[b].anchor,
         \A b \in BatchIds : b < nextBatch => batches'[b].steps = batches[b].steps,
         NEW w \in Workers, NEW me, worker' = [worker EXCEPT ![w] = me],
         Holding(me) \subseteq Holding(worker[w]), me.batch \notin me.todo,
         me.phase = "confirmed" => me.batch \in BatchIds /\ txs[me.batch].anchor # NoAnchor
  PROVE  GasInv'
<1>1. worker'[w] = me /\ \A v \in Workers \ {w} : worker'[v] = worker[v]
  BY DEF GasInv, IndInv, TypeOK
<1>2. \A v \in Workers : Holding(worker'[v]) \subseteq Holding(worker[v])
  BY <1>1
<1>3. HeldApart'
  <2> SUFFICES ASSUME NEW u \in Workers
               PROVE  /\ worker'[u].batch \notin worker'[u].todo
                      /\ \A v \in Workers \ {u} : Holding(worker'[v]) \cap Holding(worker'[u]) = {}
    BY DEF HeldApart, Holding
  <2>1. worker'[u].batch \notin worker'[u].todo
    BY <1>1 DEF GasInv, HeldApart
  <2>2. ASSUME NEW v \in Workers \ {u} PROVE Holding(worker'[v]) \cap Holding(worker'[u]) = {}
    BY <1>2 DEF GasInv, HeldApart
  <2> QED
    BY <2>1, <2>2
<1>4. ConfirmedHasTx'
  BY <1>1 DEF GasInv, ConfirmedHasTx
<1>5. AnchorsOwned'
  BY DEF GasInv, AnchorsOwned
<1>6. ChargedOnce'
  <2>1. \A o \in Orgs : Charged(o) \subseteq Charged(o)'
    BY <1>2, AnchoredIsBuilt DEF Charged, GasInv, OrgOfSteps, RunsOf, Holding
  <2> QED
    BY <2>1, ChargedOnceKept DEF GasInv, IndInv
<1> QED
  BY <1>3, <1>4, <1>5, <1>6 DEF GasInv

(* A step of anyone else: the API, time, the indexer, the lock.            *)
LEMMA GasOthersMove ==
  ASSUME GasInv, IndInv', UNCHANGED <<spent, worker>>,
         \A b \in BatchIds : txs'[b].anchor = txs[b].anchor,
         \A b \in BatchIds : batches'[b].steps = batches[b].steps
  PROVE  GasInv'
<1>1. HeldApart' /\ ConfirmedHasTx' /\ AnchorsOwned'
  BY DEF GasInv, HeldApart, ConfirmedHasTx, AnchorsOwned, Holding
<1>2. \A o \in Orgs : Charged(o) \subseteq Charged(o)'
  BY DEF Charged, OrgOfSteps, RunsOf, Holding
<1> QED
  BY <1>1, <1>2, ChargedOnceKept DEF GasInv, IndInv

(* What moving on does to the batches in hand.                             *)
LEMMA AdvancedHolding ==
  ASSUME NEW me \in WorkerState
  PROVE  /\ Holding(Advanced(me)) = me.todo \ {NoBatch}
         /\ Advanced(me).batch \notin Advanced(me).todo /\ Advanced(me).phase # "confirmed"
<1>1. me.todo \subseteq BatchIds /\ NoBatch \notin BatchIds
  BY DEF WorkerState, BatchIds, NoBatch
<1>2. Advanced(me).todo = me.todo /\ Advanced(me).batch = NoBatch
      /\ Advanced(me).phase \in {"idle", "loop"}
  BY DEF Advanced
<1> QED
  BY <1>1, <1>2 DEF Holding

(* A phase move, but to "confirmed", is a GasWorkerMoves.                  *)
LEMMA GasPhaseMoves ==
  ASSUME GasInv, IndInv', UNCHANGED spent,
         \A b \in BatchIds : txs'[b].anchor = txs[b].anchor,
         \A b \in BatchIds : b < nextBatch => batches'[b].steps = batches[b].steps,
         NEW w \in Workers, NEW x, worker' = [worker EXCEPT ![w].phase = x], x # "confirmed"
  PROVE  GasInv'
<1> DEFINE me == [worker[w] EXCEPT !.phase = x]
<1>1. worker' = [worker EXCEPT ![w] = me]
  OBVIOUS
<1>2. me.batch = worker[w].batch /\ me.todo = worker[w].todo /\ me.phase = x
  BY DEF GasInv, IndInv, TypeOK, WorkerState
<1>3. Holding(me) = Holding(worker[w]) /\ worker[w].batch \notin worker[w].todo
  BY <1>2 DEF Holding, GasInv, HeldApart
<1> HIDE DEF me
<1> QED
  BY <1>1, <1>2, <1>3, GasWorkerMoves

(* One step below per action of Next.                                      *)
LEMMA GasStep == GasInv /\ [Next]_vars => GasInv'
<1> SUFFICES ASSUME GasInv, [Next]_vars PROVE GasInv'
  OBVIOUS
<1> IndInv /\ IndInv' /\ TypeOK /\ TypeOK'
  BY IndStep DEF GasInv, IndInv
<1>1. ASSUME UNCHANGED <<spent, worker, txs, batches>> PROVE GasInv'
  BY <1>1, GasOthersMove
<1>2. ASSUME NEW w \in Workers, NEW x, worker' = [worker EXCEPT ![w].phase = x], x # "confirmed",
             UNCHANGED <<spent, txs, batches>>
      PROVE  GasInv'
  BY <1>2, GasPhaseMoves
<1>3. ASSUME NEW w \in Workers, ClaimBatch(w) PROVE GasInv'
  <2>1. PICK S : worker' = [worker EXCEPT ![w] = [@ EXCEPT !.phase = "claimed", !.held = S]]
    BY <1>3 DEF ClaimBatch
  <2> DEFINE me == [worker[w] EXCEPT !.phase = "claimed", !.held = S]
  <2>2. me.batch = worker[w].batch /\ me.todo = worker[w].todo /\ me.phase = "claimed"
    BY DEF TypeOK, WorkerState
  <2>3. Holding(me) = Holding(worker[w]) /\ me.batch \notin me.todo
    BY <2>2 DEF Holding, GasInv, HeldApart
  <2>4. worker' = [worker EXCEPT ![w] = me] /\ UNCHANGED <<spent, txs, batches>>
    BY <1>3, <2>1 DEF ClaimBatch, chainVars, gasVars
  <2> HIDE DEF me
  <2> QED
    BY <2>2, <2>3, <2>4, GasWorkerMoves
<1>4. ASSUME NEW w \in Workers, BuildBatches(w) PROVE GasInv'
  <2>1. PICK last \in BatchIds :
          /\ nextBatch' = last + 1
          /\ \A b \in BatchIds : b \notin nextBatch..last => batches'[b] = batches[b]
          /\ worker' = [worker EXCEPT ![w] = [@ EXCEPT !.phase = "loop", !.todo = nextBatch..last]]
    <3>1. PICK id \in [RunsOf(worker[w].held) -> BatchIds], last \in BatchIds :
            /\ nextBatch' = last + 1
            /\ batches' = [b \in BatchIds |->
                 IF b \in nextBatch..last
                 THEN [status |-> "building", anchor |-> NoAnchor,
                       steps |-> {s \in worker[w].held : id[RunOf[s]] = b}]
                 ELSE batches[b]]
            /\ worker' = [worker EXCEPT ![w] =
                           [@ EXCEPT !.phase = "loop", !.todo = nextBatch..last]]
      BY <1>4 DEF BuildBatches
    <3>2. \A b \in BatchIds : b \notin nextBatch..last => batches'[b] = batches[b]
      BY <3>1
    <3> QED
      BY <3>1, <3>2
  <2>2. UNCHANGED <<spent, txs>>
    BY <1>4 DEF BuildBatches, chainVars, gasVars
  <2>3. worker[w] \in WorkerState /\ nextBatch \in Nat /\ last \in Nat
    BY DEF TypeOK, BatchIds
  <2>4. /\ worker'[w].todo = nextBatch..last /\ worker'[w].batch = worker[w].batch
        /\ worker'[w].phase = "loop"
        /\ \A v \in Workers \ {w} : worker'[v] = worker[v]
    BY <2>1, <2>3 DEF TypeOK, WorkerState
  <2>5. \A v \in Workers : \A b \in Holding(worker[v]) : b \in Nat /\ b < nextBatch
    <3>1. \A v \in Workers : worker[v].todo \subseteq BatchIds /\ worker[v].batch \in Nat
      BY DEF TypeOK, WorkerState
    <3> QED
      BY <3>1 DEF Holding, IndInv, WorkersNameBuiltBatches, BatchIds
  <2>6. worker[w].batch \notin nextBatch..last
    BY <2>3 DEF IndInv, WorkersNameBuiltBatches, WorkerState
  <2>7. Holding(worker'[w]) \subseteq Holding(worker[w]) \cup nextBatch..last
    BY <2>4 DEF Holding
  <2>8. HeldApart'
    <3>1. \A v \in Workers \ {w} : Holding(worker'[v]) \cap Holding(worker'[w]) = {}
      <4>1. \A v \in Workers \ {w} : Holding(worker[v]) \cap Holding(worker[w]) = {}
        BY DEF GasInv, HeldApart
      <4>2. \A v \in Workers : Holding(worker[v]) \cap (nextBatch..last) = {}
        BY <2>3, <2>5
      <4> QED
        BY <2>4, <2>7, <4>1, <4>2
    <3>2. \A u, v \in Workers \ {w} : u # v => Holding(worker'[v]) \cap Holding(worker'[u]) = {}
      BY <2>4 DEF GasInv, HeldApart
    <3>3. \A u \in Workers : worker'[u].batch \notin worker'[u].todo
      BY <2>4, <2>6 DEF GasInv, HeldApart
    <3> QED
      BY <3>1, <3>2, <3>3 DEF HeldApart, Holding
  <2>9. ConfirmedHasTx' /\ AnchorsOwned'
    BY <2>2, <2>4 DEF GasInv, ConfirmedHasTx, AnchorsOwned
  <2>10. \A o \in Orgs : Charged(o) \subseteq Charged(o)'
    <3> SUFFICES ASSUME NEW o \in Orgs, NEW b \in Charged(o) PROVE b \in Charged(o)'
      OBVIOUS
    <3>1. /\ b \in BatchIds /\ txs[b].anchor # NoAnchor /\ b < nextBatch
          /\ o \in OrgOfSteps(batches[b].steps)
          /\ \A v \in Workers : b \notin Holding(worker[v])
      BY AnchoredIsBuilt DEF Charged
    <3>2. batches'[b] = batches[b] /\ b \notin nextBatch..last
      BY <2>1, <2>3, <3>1 DEF BatchIds
    <3>3. \A v \in Workers : b \notin Holding(worker'[v])
      BY <2>4, <2>7, <3>1, <3>2
    <3> QED
      BY <2>2, <3>1, <3>2, <3>3 DEF Charged, OrgOfSteps, RunsOf, Holding
  <2> QED
    BY <2>2, <2>8, <2>9, <2>10, ChargedOnceKept DEF GasInv
<1>5. ASSUME NEW w \in Workers, NEW b \in BatchIds, HandleGasCeilingSkip(w, b) PROVE GasInv'
  <2> DEFINE left == [worker[w] EXCEPT !.todo = @ \ {b}]
  <2>1. /\ worker' = [worker EXCEPT ![w] = Advanced(left)]
        /\ batches' = [batches EXCEPT ![b].status = "failed"]
        /\ UNCHANGED <<spent, txs>>
    BY <1>5 DEF HandleGasCeilingSkip, chainVars, gasVars
  <2>2. left \in WorkerState /\ left.todo = worker[w].todo \ {b}
    BY DEF TypeOK, WorkerState
  <2>3. \A c \in BatchIds : batches'[c].steps = batches[c].steps
    BY <2>1 DEF TypeOK, BatchRow
  <2> HIDE DEF left
  <2>4. /\ Holding(Advanced(left)) \subseteq Holding(worker[w])
        /\ Advanced(left).batch \notin Advanced(left).todo /\ Advanced(left).phase # "confirmed"
    BY <2>2, AdvancedHolding DEF Holding
  <2> QED
    BY <2>1, <2>3, <2>4, GasWorkerMoves
<1>6. ASSUME NEW w \in Workers, NEW b \in BatchIds, ReadNonce(w, b) PROVE GasInv'
  <2>1. PICK next \in {"send", "failing"} :
          worker' = [worker EXCEPT ![w] =
            [worker[w] EXCEPT !.phase = next, !.todo = @ \ {b},
               !.batch = b, !.try = 1, !.nonce = PendingNonce]]
    BY <1>6 DEF ReadNonce
  <2> DEFINE me == [worker[w] EXCEPT !.phase = next, !.todo = @ \ {b},
                      !.batch = b, !.try = 1, !.nonce = PendingNonce]
  <2>2. b \in worker[w].todo /\ UNCHANGED <<spent, txs, batches>>
    BY <1>6 DEF ReadNonce, dbVars, chainVars, gasVars
  <2>3. me.batch = b /\ me.todo = worker[w].todo \ {b} /\ me.phase = next
    BY DEF TypeOK, WorkerState
  <2>4. Holding(me) \subseteq Holding(worker[w]) /\ me.batch \notin me.todo
    BY <2>2, <2>3 DEF Holding
  <2>5. worker' = [worker EXCEPT ![w] = me]
    BY <2>1
  <2> HIDE DEF me
  <2> QED
    BY <2>2, <2>3, <2>4, <2>5, GasWorkerMoves
<1>7. ASSUME NEW w \in Workers, SendTransaction(w) PROVE GasInv'
  <2>1. /\ txs' = [txs EXCEPT ![worker[w].batch] =
                     [@ EXCEPT !.nonce = worker[w].nonce, !.tries = worker[w].try]]
        /\ UNCHANGED <<spent, batches>>
    BY <1>7 DEF SendTransaction, dbVars, gasVars
  <2>2. \A c \in BatchIds : txs'[c].anchor = txs[c].anchor
    BY <2>1 DEF TypeOK, TxState
  <2>3. PICK next \in {"sent", "failing"} : worker' = [worker EXCEPT ![w].phase = next]
    BY <1>7 DEF SendTransaction
  <2> QED
    BY <2>1, <2>2, <2>3, GasPhaseMoves
<1>8. ASSUME NEW w \in Workers, MarkSubmitted(w) PROVE GasInv'
  <2>1. /\ batches' = [batches EXCEPT ![worker[w].batch].status = "submitted"]
        /\ worker' = [worker EXCEPT ![w].phase = "wait"]
        /\ UNCHANGED <<spent, txs>>
    BY <1>8 DEF MarkSubmitted, chainVars, gasVars
  <2>2. \A c \in BatchIds : batches'[c].steps = batches[c].steps
    BY <2>1 DEF TypeOK, BatchRow
  <2> QED
    BY <2>1, <2>2, GasPhaseMoves
<1>9. ASSUME NEW w \in Workers, ReceiptTimeout(w) PROVE GasInv'
  <2>1. PICK me \in { [worker[w] EXCEPT !.phase = "send", !.try = @ + 1],
                      [worker[w] EXCEPT !.phase = "failing"] } :
          worker' = [worker EXCEPT ![w] = me]
    BY <1>9 DEF ReceiptTimeout
  <2>2. /\ me.batch = worker[w].batch /\ me.todo = worker[w].todo
        /\ me.phase # "confirmed"
    BY DEF TypeOK, WorkerState
  <2>3. Holding(me) = Holding(worker[w]) /\ me.batch \notin me.todo
    BY <2>2 DEF Holding, GasInv, HeldApart
  <2>4. UNCHANGED <<spent, txs, batches>>
    BY <1>9 DEF ReceiptTimeout, dbVars, chainVars, gasVars
  <2> QED
    BY <2>1, <2>2, <2>3, <2>4, GasWorkerMoves
<1>10. ASSUME NEW w \in Workers, ConfirmBatch(w) PROVE GasInv'
  <2> DEFINE b == worker[w].batch
             me == [worker[w] EXCEPT !.phase = "confirmed"]
  <2>1. /\ batches' = [batches EXCEPT ![b] =
                         [@ EXCEPT !.status = "confirmed", !.anchor = txs[b].anchor]]
        /\ worker' = [worker EXCEPT ![w] = me]
        /\ txs[b].anchor # NoAnchor
        /\ UNCHANGED <<spent, txs>>
    BY <1>10 DEF ConfirmBatch, ReceiptSucceeded, chainVars, gasVars
  <2>2. b \in BatchIds
    BY <1>10 DEF ConfirmBatch, IndInv, WorkersNameBuiltBatches, Submitting
  <2>3. me.batch = b /\ me.todo = worker[w].todo
    BY DEF TypeOK, WorkerState
  <2>4. Holding(me) = Holding(worker[w]) /\ me.batch \notin me.todo
    BY <2>3 DEF Holding, GasInv, HeldApart
  <2>5. \A c \in BatchIds : batches'[c].steps = batches[c].steps
    BY <2>1 DEF TypeOK, BatchRow
  <2> HIDE DEF me
  <2> QED
    BY <2>1, <2>2, <2>3, <2>4, <2>5, GasWorkerMoves
<1>11. ASSUME NEW w \in Workers, RecordGasSpend(w) PROVE GasInv'
  <2> DEFINE b == worker[w].batch
  <2>1. /\ worker' = [worker EXCEPT ![w] = Advanced(worker[w])]
        /\ spent' = [o \in Orgs |->
             IF o \in OrgOfSteps(batches[b].steps) THEN spent[o] + 1 ELSE spent[o]]
        /\ UNCHANGED <<txs, batches>>
    BY <1>11 DEF RecordGasSpend, GasCost, chainVars, dbVars
  <2>2. b \in BatchIds /\ txs[b].anchor # NoAnchor /\ b # NoBatch
    BY <1>11 DEF RecordGasSpend, GasInv, ConfirmedHasTx, BatchIds, NoBatch
  <2>3. /\ worker'[w] = Advanced(worker[w])
        /\ \A v \in Workers \ {w} : worker'[v] = worker[v]
    BY <2>1 DEF TypeOK
  <2>4. /\ Holding(worker'[w]) = worker[w].todo \ {NoBatch} /\ worker'[w].phase # "confirmed"
        /\ worker'[w].batch \notin worker'[w].todo
    BY <2>3, AdvancedHolding DEF TypeOK
  <2>5. Holding(worker'[w]) \subseteq Holding(worker[w]) \ {b}
    BY <2>4 DEF Holding, GasInv, HeldApart
  <2>6. HeldApart'
    <3>1. \A v \in Workers : Holding(worker'[v]) \subseteq Holding(worker[v])
      BY <2>3, <2>5
    <3>2. \A u \in Workers : \A v \in Workers \ {u} : Holding(worker'[v]) \cap Holding(worker'[u]) = {}
      BY <3>1 DEF GasInv, HeldApart
    <3>3. \A u \in Workers : worker'[u].batch \notin worker'[u].todo
      BY <2>3, <2>4 DEF GasInv, HeldApart
    <3> QED
      BY <3>2, <3>3 DEF HeldApart, Holding
  <2>7. ConfirmedHasTx' /\ AnchorsOwned'
    BY <2>1, <2>3, <2>4 DEF GasInv, ConfirmedHasTx, AnchorsOwned
  <2>8. ChargedOnce'
    <3> SUFFICES ASSUME NEW o \in Orgs PROVE spent'[o] <= Cardinality(Charged(o)')
      BY DEF ChargedOnce
    <3>1. b \in Holding(worker[w]) /\ \A v \in Workers : b \notin Holding(worker'[v])
      <4>1. b \in Holding(worker[w])
        BY <2>2 DEF Holding
      <4> QED
        BY <2>3, <2>5, <4>1 DEF GasInv, HeldApart
    <3>2. \A v \in Workers : Holding(worker'[v]) \subseteq Holding(worker[v])
      BY <2>3, <2>5
    <3>3. IsFiniteSet(Charged(o)) /\ IsFiniteSet(Charged(o)')
      <4>1. IsFiniteSet(BatchIds)
        BY LimitsAssumption, FS_Interval DEF BatchIds
      <4>2. Charged(o)' \subseteq BatchIds
        BY DEF Charged
      <4> QED
        BY <4>1, <4>2, ChargedFinite, FS_Subset
    <3>4. /\ Cardinality(Charged(o)) \in Nat /\ Cardinality(Charged(o)') \in Nat
          /\ spent[o] \in Nat /\ spent[o] <= Cardinality(Charged(o))
      BY <3>3, FS_CardinalityType DEF TypeOK, GasInv, ChargedOnce
    <3>5. Charged(o) \subseteq Charged(o)'
      BY <2>1, <3>2 DEF Charged, OrgOfSteps, RunsOf, Holding
    <3>6. CASE o \in OrgOfSteps(batches[b].steps)
      <4>1. b \notin Charged(o)
        BY <3>1 DEF Charged
      <4>2. b \in Charged(o)'
        BY <2>1, <2>2, <3>1, <3>6 DEF Charged, OrgOfSteps, RunsOf, Holding
      <4>3. Charged(o) \cup {b} \subseteq Charged(o)'
        BY <3>5, <4>2
      <4>4. IsFiniteSet(Charged(o) \cup {b})
            /\ Cardinality(Charged(o) \cup {b}) = Cardinality(Charged(o)) + 1
        BY <3>3, <4>1, FS_AddElement
      <4>5. Cardinality(Charged(o)) + 1 <= Cardinality(Charged(o)')
        BY <3>3, <4>3, <4>4, FS_Subset
      <4>6. spent'[o] = spent[o] + 1
        BY <2>1, <3>6
      <4> QED
        BY <3>4, <4>5, <4>6
    <3>7. CASE o \notin OrgOfSteps(batches[b].steps)
      <4>1. spent'[o] = spent[o]
        BY <2>1, <3>7
      <4>2. Cardinality(Charged(o)) <= Cardinality(Charged(o)')
        BY <3>3, <3>5, FS_Subset
      <4> QED
        BY <3>4, <4>1, <4>2
    <3> QED
      BY <3>6, <3>7
  <2> QED
    BY <2>6, <2>7, <2>8 DEF GasInv
<1>12. ASSUME NEW w \in Workers, HandleSubmitFailure(w) PROVE GasInv'
  <2>1. /\ worker' = [worker EXCEPT ![w] = Advanced(worker[w])]
        /\ batches' = [batches EXCEPT ![worker[w].batch].status = "failed"]
        /\ UNCHANGED <<spent, txs>>
    BY <1>12 DEF HandleSubmitFailure, chainVars, gasVars
  <2>2. \A c \in BatchIds : batches'[c].steps = batches[c].steps
    BY <2>1 DEF TypeOK, BatchRow
  <2>3. /\ Holding(Advanced(worker[w])) \subseteq Holding(worker[w])
        /\ Advanced(worker[w]).batch \notin Advanced(worker[w]).todo
        /\ Advanced(worker[w]).phase # "confirmed"
    <3>1. worker[w] \in WorkerState
      BY DEF TypeOK
    <3> QED
      BY <3>1, AdvancedHolding DEF Holding
  <2> QED
    BY <2>1, <2>2, <2>3, GasWorkerMoves
<1>13. ASSUME NEW w \in Workers, AbortIteration(w) \/ Crash(w) \/ Shutdown(w) PROVE GasInv'
  <2>1. UNCHANGED <<spent, txs, batches>>
    BY <1>13 DEF AbortIteration, Crash, Shutdown, dbVars, chainVars, gasVars
  <2>2. PICK me \in {NoWorker, [NoWorker EXCEPT !.phase = "idle"]} :
          worker' = [worker EXCEPT ![w] = me]
    BY <1>13 DEF AbortIteration, Crash, Shutdown
  <2>3. me.batch = NoBatch /\ me.todo = {} /\ me.phase # "confirmed"
    BY <2>2 DEF NoWorker
  <2>4. Holding(me) = {} /\ me.batch \notin me.todo
    BY <2>3 DEF Holding
  <2> QED
    BY <2>1, <2>2, <2>3, <2>4, GasWorkerMoves
<1>14. ASSUME NEW b \in BatchIds, NEW k \in 1..RbfAttempts, MineAnchor(b, k) PROVE GasInv'
  <2>1. /\ txs' = [txs EXCEPT ![b] = [@ EXCEPT !.mined = k, !.anchor = Len(anchors) + 1]]
        /\ UNCHANGED <<spent, batches, worker>>
    BY <1>14 DEF MineAnchor, dbVars, workerVars, gasVars
  <2>2. /\ txs'[b].anchor = Len(anchors) + 1 /\ Len(anchors) \in Nat
        /\ \A c \in BatchIds \ {b} : txs'[c] = txs[c]
    BY <2>1 DEF TypeOK, TxState
  <2>3. \A c \in BatchIds : txs[c].anchor # NoAnchor => txs'[c].anchor # NoAnchor
    BY <2>2 DEF NoAnchor
  <2>4. \A c \in BatchIds : txs[c].anchor # Len(anchors) + 1
    <3>1. Len(anchors) + 1 \notin DOMAIN anchors /\ Len(anchors) + 1 # NoAnchor
      BY <2>2 DEF TypeOK, NoAnchor
    <3> QED
      BY <3>1 DEF IndInv, TxAnchorsMatch
  <2>5. AnchorsOwned'
    BY <2>2, <2>4 DEF GasInv, AnchorsOwned
  <2>6. HeldApart' /\ ConfirmedHasTx'
    BY <2>1, <2>3 DEF GasInv, HeldApart, ConfirmedHasTx, Holding
  <2>7. \A o \in Orgs : Charged(o) \subseteq Charged(o)'
    BY <2>1, <2>3 DEF Charged, OrgOfSteps, RunsOf, Holding
  <2> QED
    BY <2>1, <2>5, <2>6, <2>7, ChargedOnceKept DEF GasInv
<1>15. ASSUME NEW b \in BatchIds, NEW k \in 1..RbfAttempts, MineRevert(b, k) PROVE GasInv'
  <2>1. /\ txs' = [txs EXCEPT ![b].mined = k]
        /\ UNCHANGED <<spent, batches, worker>>
    BY <1>15 DEF MineRevert, dbVars, workerVars, gasVars
  <2>2. \A c \in BatchIds : txs'[c].anchor = txs[c].anchor
    BY <2>1 DEF TypeOK, TxState
  <2> QED
    BY <2>1, <2>2, GasOthersMove
<1>16. ASSUME ReconcileBatchAnchored PROVE GasInv'
  <2>1. UNCHANGED <<spent, worker, txs>>
    BY <1>16 DEF ReconcileBatchAnchored, workerVars, chainVars, gasVars
  <2>2. \A c \in BatchIds : batches'[c].steps = batches[c].steps
    BY <1>16 DEF ReconcileBatchAnchored, TypeOK, BatchRow
  <2> QED
    BY <2>1, <2>2, GasOthersMove
<1>17. ASSUME NEW w \in Workers, RunOnce(w) PROVE GasInv'
  BY <1>2, <1>3, <1>4, <1>5, <1>6, <1>7, <1>8, <1>9, <1>10, <1>11, <1>12, <1>17
  DEF RunOnce, ReapStaleClaims, DeferFlush, SendRejected, ReceiptReverted, dbVars, chainVars,
      gasVars
<1>18. ASSUME NEW w \in Workers, AcquireAuthority(w) PROVE GasInv'
  BY <1>2, <1>18 DEF AcquireAuthority, dbVars, chainVars, gasVars
<1>19. CASE Chain
  BY <1>14, <1>15, <1>19 DEF Chain
<1>20. CASE Passing
  BY <1>1, <1>20 DEF Passing, ClaimsExpire, BackoffElapses, workerVars, chainVars, gasVars
<1>21. ASSUME NEW s \in Steps, LogStep(s) PROVE GasInv'
  BY <1>1, <1>21 DEF LogStep, workerVars, chainVars, gasVars
<1>22. ASSUME NEW o \in Orgs, RaiseBudget(o) PROVE GasInv'
  BY <1>1, <1>22 DEF RaiseBudget, dbVars, workerVars, chainVars
<1>23. CASE LoseAuthority
  BY <1>1, <1>23 DEF LoseAuthority, dbVars, chainVars, gasVars
<1>24. CASE UNCHANGED vars
  BY <1>1, <1>24 DEF vars, dbVars, workerVars, chainVars, gasVars
<1> QED
  BY <1>13, <1>16, <1>17, <1>18, <1>19, <1>20, <1>21, <1>22, <1>23, <1>24 DEF Next

(* An organization is charged for no more batches than the chain holds of  *)
(* its own, however workers crash between the confirmation of a batch and  *)
(* its charge, and although the indexer confirms batches too.              *)
THEOREM NobodyIsOvercharged == Spec => []NeverOvercharged
<1>1. Init => GasInv
  <2> SUFFICES ASSUME Init PROVE GasInv
    OBVIOUS
  <2>1. IndInv
    BY IndInit
  <2>2. \A w \in Workers : worker[w] = NoWorker
    BY DEF Init
  <2>3. NoWorker.batch = NoBatch /\ NoWorker.todo = {} /\ NoWorker.phase = "down"
    BY DEF NoWorker
  <2>4. HeldApart /\ ConfirmedHasTx
    BY <2>2, <2>3 DEF HeldApart, ConfirmedHasTx, Holding
  <2>5. AnchorsOwned
    BY DEF Init, AnchorsOwned, NoTx, NoAnchor
  <2>6. ChargedOnce
    BY ChargedFinite, FS_CardinalityType DEF Init, ChargedOnce
  <2> QED
    BY <2>1, <2>4, <2>5, <2>6 DEF GasInv
<1>2. GasInv => NeverOvercharged
  <2> SUFFICES ASSUME GasInv, NEW o \in Orgs
               PROVE  spent[o] <= Cardinality({i \in DOMAIN anchors : o \in OrgOfSteps(anchors[i])})
    BY DEF NeverOvercharged
  <2> DEFINE T == {i \in DOMAIN anchors : o \in OrgOfSteps(anchors[i])}
             f == [b \in Charged(o) |-> txs[b].anchor]
  <2>1. IsFiniteSet(T)
    <3>1. DOMAIN anchors = 1..Len(anchors) /\ Len(anchors) \in Nat
      BY DEF GasInv, IndInv, TypeOK
    <3>2. IsFiniteSet(1..Len(anchors))
      BY <3>1, FS_Interval
    <3> QED
      BY <3>1, <3>2, FS_Subset
  <2>2. f \in Injection(Charged(o), T)
    <3>1. f \in [Charged(o) -> T]
      <4> SUFFICES ASSUME NEW b \in Charged(o) PROVE txs[b].anchor \in T
        OBVIOUS
      <4>1. b \in BatchIds /\ txs[b].anchor # NoAnchor /\ o \in OrgOfSteps(batches[b].steps)
        BY DEF Charged
      <4>2. txs[b].anchor \in DOMAIN anchors /\ anchors[txs[b].anchor] = batches[b].steps
        BY <4>1 DEF GasInv, IndInv, TxAnchorsMatch
      <4> QED
        BY <4>1, <4>2
    <3>2. \A b, c \in Charged(o) : f[b] = f[c] => b = c
      BY DEF Charged, GasInv, AnchorsOwned
    <3> QED
      BY <3>1, <3>2 DEF Injection, IsInjective
  <2>3. Cardinality(Charged(o)) <= Cardinality(T)
    BY <2>1, <2>2, FS_Injection
  <2>4. /\ Cardinality(Charged(o)) \in Nat /\ Cardinality(T) \in Nat /\ spent[o] \in Nat
        /\ spent[o] <= Cardinality(Charged(o))
    BY <2>1, ChargedFinite, FS_CardinalityType DEF GasInv, IndInv, TypeOK, ChargedOnce
  <2> QED
    BY <2>3, <2>4
<1> QED
  BY <1>1, <1>2, GasStep, PTL DEF Spec
---------------------------------------------------------------------------
(* While the lock holds, the pipeline keeps AnchorPromise: each of its     *)
(* steps is one the promise allows, or none at all.  That a dead letter is *)
(* never requeued or dead-lettered again, and that no root covers a step   *)
(* nobody logged, takes an invariant of what the one live worker holds.    *)

(* The process that runs has the lock.                                     *)
OneAtWork == \A w \in Workers : worker[w].phase # "down" => authority = w

Resting == {"down", "idle", "polled", "claimed"}

(* Outside the loop over its batches a worker holds none.                  *)
RestingHoldsNothing ==
  \A w \in Workers : worker[w].phase \in Resting =>
    worker[w].todo = {} /\ worker[w].batch = NoBatch

(* A failed submission was one of a batch.                                 *)
FailingHasBatch ==
  \A w \in Workers : worker[w].phase = "failing" => worker[w].batch \in BatchIds

(* A row the worker has in hand, claimed or in a batch, is no dead letter: *)
(* whoever dead-letters rows has let go of them.                           *)
HeldAlive ==
  \A w \in Workers, s \in Steps :
    /\ worker[w].phase = "claimed" /\ s \in worker[w].held =>
         outbox[s].status \notin {"none", "dead_letter"}
    /\ outbox[s].batch \in Holding(worker[w]) => outbox[s].status # "dead_letter"

(* A batch was built of steps, all of them logged.                         *)
BuiltBatches ==
  \A b \in BatchIds : b < nextBatch =>
    batches[b].steps # {} /\ \A s \in batches[b].steps : outbox[s].status # "none"

PromiseInv ==
  /\ IndInv
  /\ OneAtWork /\ RestingHoldsNothing /\ FailingHasBatch
  /\ HeldAlive /\ BuiltBatches

(* A step of the worker at work, other than building batches.              *)
LEMMA PromiseWorkerMoves ==
  ASSUME PromiseInv, IndInv', UNCHANGED <<authority, nextBatch>>,
         \A b \in BatchIds : batches'[b].steps = batches[b].steps,
         NEW w \in Workers, NEW me, worker' = [worker EXCEPT ![w] = me],
         worker[w].phase # "down",
         Holding(me) \subseteq Holding(worker[w]),
         me.phase \in Resting => me.todo = {} /\ me.batch = NoBatch,
         me.phase = "failing" => me.batch \in BatchIds,
         me.phase = "claimed" =>
           \A s \in me.held : outbox'[s].status \notin {"none", "dead_letter"},
         \A s \in Steps : outbox[s].status # "none" => outbox'[s].status # "none",
         \A s \in Steps : outbox'[s].batch \in Holding(me) => outbox'[s].status # "dead_letter"
  PROVE  PromiseInv'
<1>1. worker'[w] = me /\ \A v \in Workers \ {w} : worker'[v] = worker[v]
  BY DEF PromiseInv, IndInv, TypeOK
<1>2. \A v \in Workers \ {w} :
        worker[v].phase = "down" /\ worker[v].todo = {} /\ worker[v].batch = NoBatch
  BY DEF PromiseInv, OneAtWork, RestingHoldsNothing, Resting
<1>3. OneAtWork' /\ RestingHoldsNothing' /\ FailingHasBatch'
  BY <1>1, <1>2 DEF PromiseInv, OneAtWork, RestingHoldsNothing, FailingHasBatch
<1>4. HeldAlive'
  <2> SUFFICES ASSUME NEW v \in Workers, NEW s \in Steps
               PROVE  /\ worker'[v].phase = "claimed" /\ s \in worker'[v].held =>
                           outbox'[s].status \notin {"none", "dead_letter"}
                      /\ outbox'[s].batch \in Holding(worker'[v]) =>
                           outbox'[s].status # "dead_letter"
    BY DEF HeldAlive, Holding
  <2>1. CASE v = w
    BY <1>1, <2>1
  <2>2. CASE v # w
    <3>1. worker'[v].phase = "down" /\ worker'[v].todo = {} /\ worker'[v].batch = NoBatch
      BY <1>1, <1>2, <2>2
    <3> QED
      BY <3>1 DEF Holding
  <2> QED
    BY <2>1, <2>2
<1>5. BuiltBatches'
  <2>1. \A b \in BatchIds : batches[b].steps \subseteq Steps
    BY DEF PromiseInv, IndInv, TypeOK, BatchRow
  <2> QED
    BY <2>1 DEF PromiseInv, BuiltBatches
<1> QED
  BY <1>3, <1>4, <1>5 DEF PromiseInv

(* A step of the worker that leaves the rows alone.                        *)
LEMMA PromisePlainMoves ==
  ASSUME PromiseInv, IndInv', UNCHANGED <<outbox, authority, nextBatch>>,
         \A b \in BatchIds : batches'[b].steps = batches[b].steps,
         NEW w \in Workers, NEW me, worker' = [worker EXCEPT ![w] = me],
         worker[w].phase # "down",
         Holding(me) \subseteq Holding(worker[w]),
         me.phase \in Resting => me.todo = {} /\ me.batch = NoBatch,
         me.phase = "failing" => me.batch \in BatchIds,
         me.phase # "claimed"
  PROVE  PromiseInv'
<1>1. \A s \in Steps : outbox'[s].batch \in Holding(me) => outbox'[s].status # "dead_letter"
  BY DEF PromiseInv, HeldAlive
<1> QED
  BY <1>1, PromiseWorkerMoves

(* The worker only goes to another phase.                                  *)
LEMMA PromisePhaseMoves ==
  ASSUME PromiseInv, IndInv', UNCHANGED <<outbox, authority, nextBatch>>,
         \A b \in BatchIds : batches'[b].steps = batches[b].steps,
         NEW w \in Workers, NEW x, worker' = [worker EXCEPT ![w].phase = x],
         worker[w].phase # "down", x # "claimed",
         x \in Resting => worker[w].phase \in Resting,
         x = "failing" => worker[w].batch \in BatchIds
  PROVE  PromiseInv'
<1> DEFINE me == [worker[w] EXCEPT !.phase = x]
<1>1. worker' = [worker EXCEPT ![w] = me]
  OBVIOUS
<1>2. me.batch = worker[w].batch /\ me.todo = worker[w].todo /\ me.phase = x
  BY DEF PromiseInv, IndInv, TypeOK, WorkerState
<1> HIDE DEF me
<1>3. Holding(me) = Holding(worker[w])
  BY <1>2 DEF Holding
<1>4. me.phase \in Resting => me.todo = {} /\ me.batch = NoBatch
  BY <1>2 DEF PromiseInv, RestingHoldsNothing
<1> QED
  BY <1>1, <1>2, <1>3, <1>4, PromisePlainMoves

(* A step of anyone but a worker.                                          *)
LEMMA PromiseOthersMove ==
  ASSUME PromiseInv, IndInv', UNCHANGED <<worker, authority, nextBatch>>,
         \A b \in BatchIds : batches'[b].steps = batches[b].steps,
         \A s \in Steps : outbox'[s].batch = outbox[s].batch,
         \A s \in Steps : outbox[s].status # "none" => outbox'[s].status # "none",
         \A s \in Steps : outbox'[s].status = "dead_letter" => outbox[s].status = "dead_letter"
  PROVE  PromiseInv'
<1>1. OneAtWork' /\ RestingHoldsNothing' /\ FailingHasBatch'
  BY DEF PromiseInv, OneAtWork, RestingHoldsNothing, FailingHasBatch
<1>2. HeldAlive'
  BY DEF PromiseInv, HeldAlive, Holding
<1>3. BuiltBatches'
  <2>1. \A b \in BatchIds : batches[b].steps \subseteq Steps
    BY DEF PromiseInv, IndInv, TypeOK, BatchRow
  <2> QED
    BY <2>1 DEF PromiseInv, BuiltBatches
<1> QED
  BY <1>1, <1>2, <1>3 DEF PromiseInv

(* Advanced leaves the loop with nothing in hand.                          *)
LEMMA AdvancedRests ==
  ASSUME NEW me \in WorkerState
  PROVE  /\ Advanced(me).phase \in {"idle", "loop"}
         /\ Advanced(me).phase \in Resting =>
              Advanced(me).todo = {} /\ Advanced(me).batch = NoBatch
<1>1. /\ Advanced(me).todo = me.todo /\ Advanced(me).batch = NoBatch
      /\ Advanced(me).phase = IF me.todo = {} THEN "idle" ELSE "loop"
  BY DEF Advanced
<1> QED
  BY <1>1 DEF Resting

LEMMA PromiseInvInit == Init => PromiseInv
<1> SUFFICES ASSUME Init PROVE PromiseInv
  OBVIOUS
<1>1. \A w \in Workers : worker[w] = NoWorker
  BY DEF Init
<1>2. NoWorker.batch = NoBatch /\ NoWorker.todo = {} /\ NoWorker.phase = "down"
  BY DEF NoWorker
<1>3. OneAtWork /\ RestingHoldsNothing /\ FailingHasBatch /\ HeldAlive
  BY <1>1, <1>2 DEF OneAtWork, RestingHoldsNothing, FailingHasBatch, HeldAlive, Holding
<1>4. BuiltBatches
  BY DEF Init, BuiltBatches, BatchIds
<1> QED
  BY <1>3, <1>4, IndInit DEF PromiseInv

(* One step below per action of Next.                                      *)
LEMMA PromiseInvStep ==
  ASSUME ~ LockMayDrop
  PROVE  PromiseInv /\ [Next]_vars => PromiseInv'
<1> SUFFICES ASSUME PromiseInv, [Next]_vars PROVE PromiseInv'
  OBVIOUS
<1> IndInv /\ IndInv' /\ TypeOK /\ TypeOK'
  BY IndStep DEF PromiseInv, IndInv
<1> USE DEF Resting
<1>1. ASSUME NEW w \in Workers, AcquireAuthority(w) PROVE PromiseInv'
  <2>1. /\ authority = Nobody /\ authority' = w /\ worker[w].phase = "down"
        /\ worker' = [worker EXCEPT ![w].phase = "idle"]
        /\ UNCHANGED <<outbox, batches, nextBatch>>
    BY <1>1 DEF AcquireAuthority, dbVars
  <2>2. \A v \in Workers :
          worker[v].phase = "down" /\ worker[v].todo = {} /\ worker[v].batch = NoBatch
    BY <2>1, NobodyAssumption DEF PromiseInv, OneAtWork, RestingHoldsNothing
  <2>3. /\ worker'[w].phase = "idle" /\ worker'[w].todo = {} /\ worker'[w].batch = NoBatch
        /\ \A v \in Workers \ {w} : worker'[v] = worker[v]
    BY <2>1, <2>2 DEF TypeOK, WorkerState
  <2>4. OneAtWork' /\ RestingHoldsNothing' /\ FailingHasBatch' /\ HeldAlive'
    BY <2>1, <2>2, <2>3
    DEF OneAtWork, RestingHoldsNothing, FailingHasBatch, HeldAlive, Holding
  <2>5. BuiltBatches'
    BY <2>1 DEF PromiseInv, BuiltBatches
  <2> QED
    BY <2>4, <2>5 DEF PromiseInv
<1>2. ASSUME NEW w \in Workers, ReapStaleClaims(w) PROVE PromiseInv'
  <2>1. /\ outbox' = [s \in Steps |-> IF outbox[s].status = "claimed" /\ outbox[s].expired
                                      THEN Reaped(outbox[s]) ELSE outbox[s]]
        /\ worker' = [worker EXCEPT ![w].phase = "polled"] /\ worker[w].phase = "idle"
        /\ UNCHANGED <<batches, nextBatch, authority>>
    BY <1>2 DEF ReapStaleClaims
  <2> DEFINE me == [worker[w] EXCEPT !.phase = "polled"]
  <2>2. worker' = [worker EXCEPT ![w] = me]
    BY <2>1
  <2>3. me.batch = NoBatch /\ me.todo = {} /\ me.phase = "polled"
    BY <2>1 DEF PromiseInv, RestingHoldsNothing, TypeOK, WorkerState
  <2> HIDE DEF me
  <2>4. Holding(me) = {}
    BY <2>3 DEF Holding
  <2>5. \A s \in Steps : outbox[s].status # "none" => outbox'[s].status # "none"
    BY <2>1 DEF TypeOK, OutboxRow, Reaped
  <2> QED
    BY <2>1, <2>2, <2>3, <2>4, <2>5, PromiseWorkerMoves
<1>3. ASSUME NEW w \in Workers, DeferFlush(w) PROVE PromiseInv'
  BY <1>3, PromisePhaseMoves DEF DeferFlush, dbVars
<1>4. ASSUME NEW w \in Workers, ClaimBatch(w) PROVE PromiseInv'
  <2>1. PICK S \in SUBSET Due :
          /\ outbox' = [s \in Steps |->
               IF s \in S
               THEN [outbox[s] EXCEPT !.status = "claimed", !.attempts = @ + 1]
               ELSE outbox[s]]
          /\ worker' = [worker EXCEPT ![w] = [@ EXCEPT !.phase = "claimed", !.held = S]]
    BY <1>4 DEF ClaimBatch
  <2>2. worker[w].phase = "polled" /\ UNCHANGED <<batches, nextBatch, authority>>
    BY <1>4 DEF ClaimBatch
  <2> DEFINE me == [worker[w] EXCEPT !.phase = "claimed", !.held = S]
  <2>3. worker' = [worker EXCEPT ![w] = me]
    BY <2>1
  <2>4. me.batch = NoBatch /\ me.todo = {} /\ me.phase = "claimed" /\ me.held = S
    BY <2>2 DEF PromiseInv, RestingHoldsNothing, TypeOK, WorkerState
  <2> HIDE DEF me
  <2>5. Holding(me) = {}
    BY <2>4 DEF Holding
  <2>6. /\ \A s \in S : s \in Steps /\ outbox'[s].status = "claimed"
        /\ \A s \in Steps : outbox[s].status # "none" => outbox'[s].status # "none"
    BY <2>1 DEF TypeOK, OutboxRow, Due, Pending
  <2> QED
    BY <2>2, <2>3, <2>4, <2>5, <2>6, PromiseWorkerMoves
<1>5. ASSUME NEW w \in Workers, BuildBatches(w) PROVE PromiseInv'
  <2> DEFINE S == worker[w].held
  <2>1. PICK id \in [RunsOf(S) -> BatchIds], last \in BatchIds :
          /\ {id[r] : r \in RunsOf(S)} = nextBatch..last
          /\ nextBatch' = last + 1
          /\ batches' = [b \in BatchIds |->
               IF b \in nextBatch..last
               THEN [status |-> "building", anchor |-> NoAnchor,
                     steps |-> {s \in S : id[RunOf[s]] = b}]
               ELSE batches[b]]
          /\ outbox' = [s \in Steps |->
               IF s \in S THEN [outbox[s] EXCEPT !.batch = id[RunOf[s]]]
               ELSE outbox[s]]
          /\ worker' = [worker EXCEPT ![w] =
               [@ EXCEPT !.phase = "loop", !.todo = nextBatch..last]]
    BY <1>5 DEF BuildBatches
  <2>2. S \subseteq Steps /\ worker[w].phase = "claimed" /\ UNCHANGED authority
    BY <1>5 DEF BuildBatches, TypeOK, WorkerState
  <2>3. /\ worker'[w].todo = nextBatch..last /\ worker'[w].batch = NoBatch
        /\ worker'[w].phase = "loop"
        /\ \A v \in Workers \ {w} : worker'[v] = worker[v]
    BY <2>1, <2>2 DEF TypeOK, WorkerState, PromiseInv, RestingHoldsNothing
  <2>4. \A v \in Workers \ {w} :
          worker[v].phase = "down" /\ worker[v].todo = {} /\ worker[v].batch = NoBatch
    BY <2>2 DEF PromiseInv, OneAtWork, RestingHoldsNothing
  <2>5. OneAtWork' /\ RestingHoldsNothing' /\ FailingHasBatch'
    BY <2>2, <2>3, <2>4 DEF PromiseInv, OneAtWork, RestingHoldsNothing, FailingHasBatch
  <2>6. \A s \in Steps : /\ outbox'[s].status = outbox[s].status
                         /\ s \notin S => outbox'[s].batch = outbox[s].batch
    BY <2>1 DEF TypeOK, OutboxRow
  <2>7. \A s \in S : outbox[s].status \notin {"none", "dead_letter"}
    BY <2>2 DEF PromiseInv, HeldAlive
  <2>8. HeldAlive'
    <3> SUFFICES ASSUME NEW v \in Workers, NEW s \in Steps, outbox'[s].batch \in Holding(worker'[v])
                 PROVE  outbox'[s].status # "dead_letter"
      BY <2>3, <2>4 DEF HeldAlive, Holding
    <3>1. v = w /\ outbox'[s].batch \in nextBatch..last
      BY <2>3, <2>4 DEF Holding
    <3>2. s \in S
      <4>1. outbox[s].batch = NoBatch \/ outbox[s].batch < nextBatch
        BY DEF IndInv, RowsInTheirBatch
      <4>2. \A x \in nextBatch..last : x # NoBatch /\ ~ (x < nextBatch)
        BY DEF TypeOK, IndInv, NoBatch, BatchIds
      <4> QED
        BY <2>6, <3>1, <4>1, <4>2
    <3> QED
      BY <2>6, <2>7, <3>2
  <2>9. BuiltBatches'
    <3> SUFFICES ASSUME NEW b \in BatchIds, b < nextBatch'
                 PROVE  batches'[b].steps # {} /\ \A s \in batches'[b].steps : outbox'[s].status # "none"
      BY DEF BuiltBatches
    <3>1. CASE b \in nextBatch..last
      <4>1. PICK r \in RunsOf(S) : id[r] = b
        BY <2>1, <3>1
      <4>2. PICK t \in S : RunOf[t] = r
        BY <4>1 DEF RunsOf
      <4>3. batches'[b].steps = {s \in S : id[RunOf[s]] = b}
        BY <2>1, <3>1
      <4> QED
        BY <2>2, <2>6, <2>7, <4>1, <4>2, <4>3
    <3>2. CASE b \notin nextBatch..last
      <4>1. b < nextBatch /\ batches'[b] = batches[b]
        BY <2>1, <3>2 DEF TypeOK, BatchIds
      <4>2. batches[b].steps \subseteq Steps
        BY DEF TypeOK, BatchRow
      <4> QED
        BY <2>6, <4>1, <4>2 DEF PromiseInv, BuiltBatches
    <3> QED
      BY <3>1, <3>2
  <2> QED
    BY <2>5, <2>8, <2>9 DEF PromiseInv
<1>6. ASSUME NEW w \in Workers, NEW b \in BatchIds, HandleGasCeilingSkip(w, b) PROVE PromiseInv'
  <2> DEFINE left == [worker[w] EXCEPT !.todo = @ \ {b}]
  <2>1. /\ worker' = [worker EXCEPT ![w] = Advanced(left)]
        /\ worker[w].phase = "loop" /\ b \in worker[w].todo
        /\ batches' = [batches EXCEPT ![b].status = "failed"]
        /\ outbox' = [s \in Steps |->
             IF outbox[s].batch = b THEN Skipped(outbox[s]) ELSE outbox[s]]
        /\ UNCHANGED <<nextBatch, authority>>
    BY <1>6 DEF HandleGasCeilingSkip
  <2>2. left \in WorkerState /\ left.todo = worker[w].todo \ {b}
    BY DEF TypeOK, WorkerState
  <2>3. \A c \in BatchIds : batches'[c].steps = batches[c].steps
    BY <2>1 DEF TypeOK, BatchRow
  <2>4. \A s \in Steps : IF outbox[s].batch = b THEN outbox'[s].status = "pending"
                                                ELSE outbox'[s] = outbox[s]
    BY <2>1 DEF TypeOK, OutboxRow, Skipped
  <2> HIDE DEF left
  <2>5. Holding(Advanced(left)) \subseteq Holding(worker[w])
    BY <2>2, AdvancedHolding DEF Holding
  <2>6. \A s \in Steps :
          /\ outbox[s].status # "none" => outbox'[s].status # "none"
          /\ outbox'[s].batch \in Holding(Advanced(left)) => outbox'[s].status # "dead_letter"
    BY <2>4, <2>5 DEF PromiseInv, HeldAlive
  <2>7. Advanced(left).phase \in {"idle", "loop"}
        /\ (Advanced(left).phase \in Resting =>
              Advanced(left).todo = {} /\ Advanced(left).batch = NoBatch)
    BY <2>2, AdvancedRests
  <2> QED
    BY <2>1, <2>3, <2>5, <2>6, <2>7, PromiseWorkerMoves
<1>7. ASSUME NEW w \in Workers, NEW b \in BatchIds, ReadNonce(w, b) PROVE PromiseInv'
  <2>1. PICK next \in {"send", "failing"} :
          worker' = [worker EXCEPT ![w] =
            [worker[w] EXCEPT !.phase = next, !.todo = @ \ {b},
               !.batch = b, !.try = 1, !.nonce = PendingNonce]]
    BY <1>7 DEF ReadNonce
  <2> DEFINE me == [worker[w] EXCEPT !.phase = next, !.todo = @ \ {b},
                      !.batch = b, !.try = 1, !.nonce = PendingNonce]
  <2>2. /\ worker[w].phase = "loop" /\ b \in worker[w].todo
        /\ UNCHANGED <<outbox, batches, nextBatch, authority>>
    BY <1>7 DEF ReadNonce, dbVars
  <2>3. me.batch = b /\ me.todo = worker[w].todo \ {b} /\ me.phase = next
    BY DEF TypeOK, WorkerState
  <2>4. Holding(me) \subseteq Holding(worker[w])
    BY <2>2, <2>3 DEF Holding
  <2>5. worker' = [worker EXCEPT ![w] = me]
    BY <2>1
  <2> HIDE DEF me
  <2> QED
    BY <2>2, <2>3, <2>4, <2>5, PromisePlainMoves
<1>8. ASSUME NEW w \in Workers, SendTransaction(w) PROVE PromiseInv'
  <2>1. PICK next \in {"sent", "failing"} : worker' = [worker EXCEPT ![w].phase = next]
    BY <1>8 DEF SendTransaction
  <2>2. /\ worker[w].phase = "send" /\ worker[w].batch \in BatchIds
        /\ UNCHANGED <<outbox, batches, nextBatch, authority>>
    BY <1>8 DEF SendTransaction, dbVars, IndInv, WorkersNameBuiltBatches, Submitting
  <2> QED
    BY <2>1, <2>2, PromisePhaseMoves
<1>9. ASSUME NEW w \in Workers, SendRejected(w) \/ ReceiptReverted(w) PROVE PromiseInv'
  <2>1. /\ worker' = [worker EXCEPT ![w].phase = "failing"]
        /\ worker[w].phase \in {"send", "wait"}
        /\ UNCHANGED <<outbox, batches, nextBatch, authority>>
    BY <1>9 DEF SendRejected, ReceiptReverted, dbVars
  <2>2. worker[w].batch \in BatchIds
    BY <2>1 DEF IndInv, WorkersNameBuiltBatches, Submitting
  <2> QED
    BY <2>1, <2>2, PromisePhaseMoves
<1>10. ASSUME NEW w \in Workers, MarkSubmitted(w) PROVE PromiseInv'
  <2>1. /\ batches' = [batches EXCEPT ![worker[w].batch].status = "submitted"]
        /\ worker' = [worker EXCEPT ![w].phase = "wait"] /\ worker[w].phase = "sent"
        /\ UNCHANGED <<outbox, nextBatch, authority>>
    BY <1>10 DEF MarkSubmitted
  <2>2. \A c \in BatchIds : batches'[c].steps = batches[c].steps
    BY <2>1 DEF TypeOK, BatchRow
  <2> QED
    BY <2>1, <2>2, PromisePhaseMoves
<1>11. ASSUME NEW w \in Workers, ReceiptTimeout(w) PROVE PromiseInv'
  <2>1. PICK me \in { [worker[w] EXCEPT !.phase = "send", !.try = @ + 1],
                      [worker[w] EXCEPT !.phase = "failing"] } :
          worker' = [worker EXCEPT ![w] = me]
    BY <1>11 DEF ReceiptTimeout
  <2>2. /\ worker[w].phase = "wait" /\ worker[w].batch \in BatchIds
        /\ UNCHANGED <<outbox, batches, nextBatch, authority>>
    BY <1>11 DEF ReceiptTimeout, dbVars, IndInv, WorkersNameBuiltBatches, Submitting
  <2>3. me.batch = worker[w].batch /\ me.todo = worker[w].todo /\ me.phase \in {"send", "failing"}
    BY DEF TypeOK, WorkerState
  <2>4. Holding(me) = Holding(worker[w])
    BY <2>3 DEF Holding
  <2> QED
    BY <2>1, <2>2, <2>3, <2>4, PromisePlainMoves
<1>12. ASSUME NEW w \in Workers, ConfirmBatch(w) PROVE PromiseInv'
  <2> DEFINE b == worker[w].batch
             me == [worker[w] EXCEPT !.phase = "confirmed"]
  <2>1. /\ batches' = [batches EXCEPT ![b] =
                         [@ EXCEPT !.status = "confirmed", !.anchor = txs[b].anchor]]
        /\ outbox' = RowsAnchored(b)
        /\ worker' = [worker EXCEPT ![w] = me] /\ worker[w].phase = "wait"
        /\ UNCHANGED <<nextBatch, authority>>
    BY <1>12 DEF ConfirmBatch
  <2>2. me.batch = b /\ me.todo = worker[w].todo /\ me.phase = "confirmed"
    BY DEF TypeOK, WorkerState
  <2>3. Holding(me) = Holding(worker[w])
    BY <2>2 DEF Holding
  <2>4. \A c \in BatchIds : batches'[c].steps = batches[c].steps
    BY <2>1 DEF TypeOK, BatchRow
  <2>5. \A s \in Steps : \/ outbox'[s] = outbox[s]
                         \/ outbox'[s].status = "anchored"
    BY <2>1 DEF RowsAnchored, TypeOK, OutboxRow
  <2> HIDE DEF me
  <2>6. \A s \in Steps :
          /\ outbox[s].status # "none" => outbox'[s].status # "none"
          /\ outbox'[s].batch \in Holding(me) => outbox'[s].status # "dead_letter"
    BY <2>3, <2>5 DEF PromiseInv, HeldAlive
  <2> QED
    BY <2>1, <2>2, <2>3, <2>4, <2>6, PromiseWorkerMoves
<1>13. ASSUME NEW w \in Workers, RecordGasSpend(w) PROVE PromiseInv'
  <2>1. /\ worker' = [worker EXCEPT ![w] = Advanced(worker[w])] /\ worker[w].phase = "confirmed"
        /\ UNCHANGED <<outbox, batches, nextBatch, authority>>
    BY <1>13 DEF RecordGasSpend, dbVars
  <2>2. worker[w] \in WorkerState
    BY DEF TypeOK
  <2>3. Holding(Advanced(worker[w])) \subseteq Holding(worker[w])
    BY <2>2, AdvancedHolding DEF Holding
  <2>4. Advanced(worker[w]).phase \in {"idle", "loop"}
        /\ (Advanced(worker[w]).phase \in Resting =>
              Advanced(worker[w]).todo = {} /\ Advanced(worker[w]).batch = NoBatch)
    BY <2>2, AdvancedRests
  <2> QED
    BY <2>1, <2>3, <2>4, PromisePlainMoves
<1>14. ASSUME NEW w \in Workers, HandleSubmitFailure(w) PROVE PromiseInv'
  <2> DEFINE b == worker[w].batch
  <2>1. /\ worker' = [worker EXCEPT ![w] = Advanced(worker[w])] /\ worker[w].phase = "failing"
        /\ batches' = [batches EXCEPT ![b].status = "failed"]
        /\ outbox' = [s \in Steps |->
             IF outbox[s].batch = b THEN Failed(outbox[s], b) ELSE outbox[s]]
        /\ UNCHANGED <<nextBatch, authority>>
    BY <1>14 DEF HandleSubmitFailure
  <2>2. worker[w] \in WorkerState /\ b \in BatchIds
    BY <2>1 DEF TypeOK, PromiseInv, FailingHasBatch
  <2>3. \A c \in BatchIds : batches'[c].steps = batches[c].steps
    BY <2>1 DEF TypeOK, BatchRow
  <2>4. \A s \in Steps : \/ outbox'[s] = outbox[s]
                         \/ outbox'[s].status # "none" /\ outbox'[s].batch = NoBatch
    <3>1. \A row \in OutboxRow : /\ Failed(row, b).status \in {"dead_letter", "pending"}
                                 /\ Failed(row, b).batch = NoBatch
      BY DEF OutboxRow, Failed
    <3> HIDE DEF b
    <3> QED
      BY <2>1, <3>1 DEF TypeOK
  <2>5. /\ Holding(Advanced(worker[w])) \subseteq Holding(worker[w])
        /\ NoBatch \notin Holding(Advanced(worker[w]))
    BY <2>2, AdvancedHolding DEF Holding
  <2>6. \A s \in Steps :
          /\ outbox[s].status # "none" => outbox'[s].status # "none"
          /\ outbox'[s].batch \in Holding(Advanced(worker[w])) => outbox'[s].status # "dead_letter"
    BY <2>4, <2>5 DEF PromiseInv, HeldAlive
  <2>7. Advanced(worker[w]).phase \in {"idle", "loop"}
        /\ (Advanced(worker[w]).phase \in Resting =>
              Advanced(worker[w]).todo = {} /\ Advanced(worker[w]).batch = NoBatch)
    BY <2>2, AdvancedRests
  <2> QED
    BY <2>1, <2>3, <2>5, <2>6, <2>7, PromiseWorkerMoves
<1>15. ASSUME NEW w \in Workers, AbortIteration(w) PROVE PromiseInv'
  <2> DEFINE me == [NoWorker EXCEPT !.phase = "idle"]
  <2>1. /\ worker' = [worker EXCEPT ![w] = me] /\ worker[w].phase # "down"
        /\ UNCHANGED <<outbox, batches, nextBatch, authority>>
    BY <1>15 DEF AbortIteration, dbVars
  <2>2. me.batch = NoBatch /\ me.todo = {} /\ me.phase = "idle"
    BY DEF NoWorker
  <2> HIDE DEF me
  <2>3. Holding(me) = {}
    BY <2>2 DEF Holding
  <2> QED
    BY <2>1, <2>2, <2>3, PromisePlainMoves
<1>16. ASSUME NEW w \in Workers, Crash(w) \/ Shutdown(w) PROVE PromiseInv'
  <2>1. /\ worker' = [worker EXCEPT ![w] = NoWorker] /\ worker[w].phase # "down"
        /\ UNCHANGED <<outbox, batches, nextBatch>>
    BY <1>16 DEF Crash, Shutdown, dbVars
  <2>2. NoWorker.batch = NoBatch /\ NoWorker.todo = {} /\ NoWorker.phase = "down"
    BY DEF NoWorker
  <2>3. \A v \in Workers :
          worker'[v].phase = "down" /\ worker'[v].todo = {} /\ worker'[v].batch = NoBatch
    BY <2>1, <2>2 DEF PromiseInv, OneAtWork, RestingHoldsNothing, TypeOK
  <2>4. OneAtWork' /\ RestingHoldsNothing' /\ FailingHasBatch' /\ HeldAlive'
    BY <2>3 DEF OneAtWork, RestingHoldsNothing, FailingHasBatch, HeldAlive, Holding
  <2>5. BuiltBatches'
    BY <2>1 DEF PromiseInv, BuiltBatches
  <2> QED
    BY <2>4, <2>5 DEF PromiseInv
<1>17. ASSUME NEW w \in Workers, RunOnce(w) PROVE PromiseInv'
  BY <1>2, <1>3, <1>4, <1>5, <1>6, <1>7, <1>8, <1>9, <1>10, <1>11, <1>12, <1>13, <1>14, <1>17
  DEF RunOnce
<1>18. ASSUME NEW s \in Steps, LogStep(s) PROVE PromiseInv'
  <2>1. /\ outbox' = [outbox EXCEPT ![s].status = "pending"]
        /\ UNCHANGED <<batches, nextBatch, worker, authority>>
    BY <1>18 DEF LogStep, workerVars
  <2>2. \A t \in Steps : /\ outbox'[t].batch = outbox[t].batch
                         /\ outbox'[t].status \in {outbox[t].status, "pending"}
    BY <2>1 DEF TypeOK, OutboxRow
  <2> QED
    BY <2>1, <2>2, PromiseOthersMove
<1>19. ASSUME UNCHANGED <<outbox, batches, nextBatch, worker, authority>> PROVE PromiseInv'
  BY <1>19, PromiseOthersMove
<1>20. CASE Passing
  <2>1. UNCHANGED <<batches, nextBatch, worker, authority>>
    BY <1>20 DEF Passing, ClaimsExpire, BackoffElapses, workerVars
  <2>2. \A t \in Steps : /\ outbox'[t].batch = outbox[t].batch
                         /\ outbox'[t].status = outbox[t].status
    <3>1. CASE ClaimsExpire
      <4>1. PICK S : outbox' = [s \in Steps |->
              IF s \in S THEN [outbox[s] EXCEPT !.expired = TRUE] ELSE outbox[s]]
        BY <3>1 DEF ClaimsExpire
      <4> QED
        BY <4>1 DEF TypeOK, OutboxRow
    <3>2. ASSUME NEW b \in BatchIds, BackoffElapses(b)
          PROVE  \A t \in Steps : /\ outbox'[t].batch = outbox[t].batch
                                  /\ outbox'[t].status = outbox[t].status
      <4>1. PICK n : outbox' = [s \in Steps |->
              IF s \in {t \in Pending : outbox[t].backoff = b} /\ outbox[s].attempts = n
              THEN [outbox[s] EXCEPT !.backoff = NoBatch] ELSE outbox[s]]
        BY <3>2 DEF BackoffElapses
      <4> QED
        BY <4>1 DEF TypeOK, OutboxRow
    <3> QED
      BY <1>20, <3>1, <3>2 DEF Passing
  <2> QED
    BY <2>1, <2>2, PromiseOthersMove
<1>21. CASE Chain
  BY <1>19, <1>21 DEF Chain, MineAnchor, MineRevert, dbVars, workerVars
<1>22. CASE ReconcileBatchAnchored
  <2>1. UNCHANGED <<nextBatch, worker, authority>>
    BY <1>22 DEF ReconcileBatchAnchored, workerVars
  <2>2. \A c \in BatchIds : batches'[c].steps = batches[c].steps
    BY <1>22 DEF ReconcileBatchAnchored, TypeOK, BatchRow
  <2>3. UNCHANGED outbox \/ \E first : outbox' = RowsAnchored(first)
    BY <1>22 DEF ReconcileBatchAnchored
  <2>4. \A t \in Steps : /\ outbox'[t].batch = outbox[t].batch
                         /\ outbox'[t].status \in {outbox[t].status, "anchored"}
    <3>1. ASSUME NEW first, outbox' = RowsAnchored(first)
          PROVE  \A t \in Steps : /\ outbox'[t].batch = outbox[t].batch
                                  /\ outbox'[t].status \in {outbox[t].status, "anchored"}
      BY <3>1 DEF RowsAnchored, TypeOK, OutboxRow
    <3> QED
      BY <2>3, <3>1
  <2> QED
    BY <2>1, <2>2, <2>4, PromiseOthersMove
<1>23. ASSUME NEW o \in Orgs, RaiseBudget(o) PROVE PromiseInv'
  BY <1>19, <1>23 DEF RaiseBudget, dbVars, workerVars
<1>24. CASE UNCHANGED vars
  BY <1>19, <1>24 DEF vars, dbVars, workerVars
<1>25. ~ LoseAuthority
  BY DEF LoseAuthority
<1> QED
  BY <1>1, <1>15, <1>16, <1>17, <1>18, <1>20, <1>21, <1>22, <1>23, <1>24, <1>25 DEF Next

(* The stage of a step, now and in the next state.                         *)
LEMMA StageValue ==
  ASSUME NEW s
  PROVE  /\ outbox[s].status = "none" => StageOf(s) = "none"
         /\ outbox[s].status \in {"pending", "claimed"} => StageOf(s) = "queued"
         /\ outbox[s].status = "anchored" => StageOf(s) = "anchored"
         /\ outbox[s].status = "dead_letter" => StageOf(s) = "abandoned"
  BY DEF StageOf

LEMMA StageValueNext ==
  ASSUME NEW s
  PROVE  /\ outbox'[s].status = "none" => StageOf(s)' = "none"
         /\ outbox'[s].status \in {"pending", "claimed"} => StageOf(s)' = "queued"
         /\ outbox'[s].status = "anchored" => StageOf(s)' = "anchored"
         /\ outbox'[s].status = "dead_letter" => StageOf(s)' = "abandoned"
  BY DEF StageOf

(* Claiming, expiring and coming due are no business of the promise.       *)
LEMMA PromiseStutters ==
  ASSUME TypeOK, TypeOK', UNCHANGED anchors,
         \A s \in Steps : \/ outbox'[s].status = outbox[s].status
                          \/ outbox[s].status = "pending" /\ outbox'[s].status = "claimed"
  PROVE  UNCHANGED Promise!promiseVars
<1>1. ASSUME NEW s \in Steps PROVE StageOf(s)' = StageOf(s)
  <2>1. outbox[s].status \in OutboxStatus
    BY DEF TypeOK, OutboxRow
  <2> QED
    BY <2>1, StageValue, StageValueNext DEF OutboxStatus
<1>2. [s \in Steps |-> StageOf(s)]' = [s \in Steps |-> StageOf(s)]
  BY <1>1
<1> QED
  BY <1>2 DEF Promise!promiseVars

(* The rows of one batch that is on chain become anchored.                 *)
LEMMA PromiseSettles ==
  ASSUME PromiseInv, TypeOK', UNCHANGED anchors,
         NEW b \in BatchIds, NEW i \in DOMAIN anchors, anchors[i] = batches[b].steps,
         outbox' = RowsAnchored(b)
  PROVE  [Promise!Next]_Promise!promiseVars
<1> DEFINE S == {s \in Steps : outbox[s].batch = b}
<1>1. TypeOK
  BY DEF PromiseInv, IndInv
<1>2. \A s \in Steps : IF s \in S THEN outbox'[s].status = "anchored"
                                  ELSE outbox'[s].status = outbox[s].status
  BY <1>1 DEF RowsAnchored, TypeOK, OutboxRow
<1>3. CASE S = {}
  BY <1>1, <1>2, <1>3, PromiseStutters
<1>4. CASE S # {}
  <2>1. \A s \in S : s \in batches[b].steps /\ outbox[s].status # "none"
    BY DEF PromiseInv, IndInv, RowsInTheirBatch, BuiltBatches, BatchIds, NoBatch
  <2>2. \A s \in Steps : outbox[s].status \in OutboxStatus
    BY <1>1 DEF TypeOK, OutboxRow
  <2>3. \A s \in S : StageOf(s) \in {"queued", "anchored", "abandoned"}
    BY <2>1, <2>2, StageValue DEF OutboxStatus
  <2>4. \A s \in Steps : StageOf(s)' = IF s \in S THEN "anchored" ELSE StageOf(s)
    BY <1>2, <2>2, StageValue, StageValueNext DEF OutboxStatus
  <2>5. S \subseteq anchors[i]
    BY <2>1
  <2> HIDE DEF S
  <2>6. S \in SUBSET Steps
    BY DEF S
  <2>7. Promise!Settle(S)
    BY <1>4, <2>3, <2>4, <2>5, <2>6 DEF Promise!Settle, Promise!Become
  <2> QED
    BY <2>6, <2>7 DEF Promise!Next
<1> QED
  BY <1>3, <1>4

(* Rows that are waiting, claimed or anchored are requeued or dead-lettered.*)
LEMMA PromiseGivesUp ==
  ASSUME TypeOK, TypeOK', UNCHANGED anchors, NEW T \in SUBSET Steps,
         \A s \in T : /\ outbox[s].status \in {"pending", "claimed", "anchored"}
                      /\ outbox'[s].status \in {"pending", "dead_letter"},
         \A s \in Steps \ T : outbox'[s].status = outbox[s].status
  PROVE  Promise!Next
<1> DEFINE S == {s \in T : outbox'[s].status = "dead_letter"}
           Q == T \ S
<1>1. \A s \in T : StageOf(s) \in {"queued", "anchored"}
  BY StageValue
<1>2. \A s \in Steps : StageOf(s)' = IF s \in S THEN "abandoned"
                                     ELSE IF s \in Q THEN "queued" ELSE StageOf(s)
  <2>1. \A s \in Steps : outbox[s].status \in OutboxStatus
    BY DEF TypeOK, OutboxRow
  <2> QED
    BY <2>1, StageValue, StageValueNext DEF OutboxStatus
<1>3. S \in SUBSET Steps /\ Q \in SUBSET Steps /\ S \cap Q = {} /\ S \cup Q = T
  OBVIOUS
<1> HIDE DEF S, Q
<1>4. Promise!GiveUp(S, Q)
  BY <1>1, <1>2, <1>3 DEF Promise!GiveUp
<1> QED
  BY <1>3, <1>4 DEF Promise!Next

(* Every step of the pipeline is a step of the promise or none.            *)
LEMMA PromiseStep ==
  PromiseInv /\ PromiseInv' /\ [Next]_vars => [Promise!Next]_Promise!promiseVars
<1> SUFFICES ASSUME PromiseInv, PromiseInv', [Next]_vars
             PROVE  [Promise!Next]_Promise!promiseVars
  OBVIOUS
<1> IndInv /\ IndInv' /\ TypeOK /\ TypeOK'
  BY DEF PromiseInv, IndInv
<1>1. ASSUME UNCHANGED <<outbox, anchors>> PROVE [Promise!Next]_Promise!promiseVars
  BY <1>1, PromiseStutters
<1>2. ASSUME NEW s \in Steps, LogStep(s) PROVE [Promise!Next]_Promise!promiseVars
  <2>1. /\ outbox[s].status = "none" /\ UNCHANGED anchors
        /\ outbox' = [outbox EXCEPT ![s].status = "pending"]
    BY <1>2 DEF LogStep, chainVars
  <2>2. /\ outbox'[s].status = "pending"
        /\ \A t \in Steps \ {s} : outbox'[t].status = outbox[t].status
        /\ \A t \in Steps : outbox[t].status \in OutboxStatus
    BY <2>1 DEF TypeOK, OutboxRow
  <2>3. \A t \in Steps : StageOf(t)' = IF t \in {s} THEN "queued" ELSE StageOf(t)
    BY <2>2, StageValue, StageValueNext DEF OutboxStatus
  <2>4. StageOf(s) = "none"
    BY <2>1, StageValue
  <2>5. Promise!Record(s)
    BY <2>1, <2>3, <2>4 DEF Promise!Record, Promise!Become
  <2> QED
    BY <2>5 DEF Promise!Next
<1>3. ASSUME NEW w \in Workers, ReapStaleClaims(w) PROVE [Promise!Next]_Promise!promiseVars
  <2> DEFINE T == {s \in Steps : outbox[s].status = "claimed" /\ outbox[s].expired}
  <2>1. /\ outbox' = [s \in Steps |-> IF s \in T THEN Reaped(outbox[s]) ELSE outbox[s]]
        /\ UNCHANGED anchors
    BY <1>3 DEF ReapStaleClaims, chainVars
  <2>2. \A s \in T : outbox'[s].status \in {"pending", "dead_letter"}
    <3>1. \A row \in OutboxRow : Reaped(row).status \in {"pending", "dead_letter"}
      BY DEF Reaped, OutboxRow
    <3> QED
      BY <2>1, <3>1 DEF TypeOK
  <2>3. \A s \in Steps \ T : outbox'[s].status = outbox[s].status
    BY <2>1
  <2>4. \A s \in T : outbox[s].status \in {"pending", "claimed", "anchored"}
    OBVIOUS
  <2>5. T \in SUBSET Steps
    OBVIOUS
  <2> HIDE DEF T
  <2> QED
    BY <2>1, <2>2, <2>3, <2>4, <2>5, PromiseGivesUp
<1>4. ASSUME NEW w \in Workers, ClaimBatch(w) PROVE [Promise!Next]_Promise!promiseVars
  <2>1. PICK S \in SUBSET Due :
          outbox' = [s \in Steps |->
            IF s \in S THEN [outbox[s] EXCEPT !.status = "claimed", !.attempts = @ + 1]
            ELSE outbox[s]]
    BY <1>4 DEF ClaimBatch
  <2>2. UNCHANGED anchors
    BY <1>4 DEF ClaimBatch, chainVars
  <2>3. \A s \in Steps : \/ outbox'[s].status = outbox[s].status
                         \/ outbox[s].status = "pending" /\ outbox'[s].status = "claimed"
    BY <2>1 DEF Due, Pending, TypeOK, OutboxRow
  <2> QED
    BY <2>2, <2>3, PromiseStutters
<1>5. ASSUME NEW w \in Workers, BuildBatches(w) PROVE [Promise!Next]_Promise!promiseVars
  <2>1. PICK id : outbox' = [s \in Steps |->
          IF s \in worker[w].held THEN [outbox[s] EXCEPT !.batch = id[RunOf[s]]] ELSE outbox[s]]
    BY <1>5 DEF BuildBatches
  <2>2. UNCHANGED anchors
    BY <1>5 DEF BuildBatches, chainVars
  <2>3. \A s \in Steps : outbox'[s].status = outbox[s].status
    BY <2>1 DEF TypeOK, OutboxRow
  <2> QED
    BY <2>2, <2>3, PromiseStutters
<1>6. ASSUME NEW w \in Workers, NEW b \in BatchIds, HandleGasCeilingSkip(w, b)
      PROVE  [Promise!Next]_Promise!promiseVars
  <2> DEFINE T == {s \in Steps : outbox[s].batch = b}
  <2>1. /\ outbox' = [s \in Steps |-> IF s \in T THEN Skipped(outbox[s]) ELSE outbox[s]]
        /\ b \in worker[w].todo /\ UNCHANGED anchors
    BY <1>6 DEF HandleGasCeilingSkip, chainVars
  <2>2. \A s \in T : outbox'[s].status = "pending"
    <3>1. \A row \in OutboxRow : Skipped(row).status = "pending"
      BY DEF Skipped, OutboxRow
    <3> QED
      BY <2>1, <3>1 DEF TypeOK
  <2>3. \A s \in Steps \ T : outbox'[s].status = outbox[s].status
    BY <2>1
  <2>4. \A s \in T : outbox[s].status # "none" /\ outbox[s].status # "dead_letter"
    <3>1. \A s \in T : outbox[s].status # "none"
      BY DEF PromiseInv, IndInv, RowsInTheirBatch, BuiltBatches, BatchIds, NoBatch
    <3>2. \A s \in T : outbox[s].status # "dead_letter"
      BY <2>1 DEF PromiseInv, HeldAlive, Holding
    <3> QED
      BY <3>1, <3>2
  <2>5. \A s \in T : outbox[s].status \in {"pending", "claimed", "anchored"}
    BY <2>4 DEF TypeOK, OutboxRow, OutboxStatus
  <2>6. T \in SUBSET Steps
    OBVIOUS
  <2> HIDE DEF T
  <2> QED
    BY <2>1, <2>2, <2>3, <2>5, <2>6, PromiseGivesUp
<1>7. ASSUME NEW w \in Workers, ConfirmBatch(w) PROVE [Promise!Next]_Promise!promiseVars
  <2> DEFINE b == worker[w].batch
  <2>1. outbox' = RowsAnchored(b) /\ txs[b].anchor # NoAnchor /\ UNCHANGED anchors
    BY <1>7 DEF ConfirmBatch, ReceiptSucceeded, chainVars
  <2>2. b \in BatchIds
    BY <1>7 DEF ConfirmBatch, IndInv, WorkersNameBuiltBatches, Submitting
  <2>3. txs[b].anchor \in DOMAIN anchors /\ anchors[txs[b].anchor] = batches[b].steps
    BY <2>1, <2>2 DEF IndInv, TxAnchorsMatch
  <2> QED
    BY <2>1, <2>2, <2>3, PromiseSettles
<1>8. ASSUME NEW w \in Workers, HandleSubmitFailure(w) PROVE [Promise!Next]_Promise!promiseVars
  <2> DEFINE b == worker[w].batch
             T == {s \in Steps : outbox[s].batch = b}
  <2>1. /\ outbox' = [s \in Steps |-> IF s \in T THEN Failed(outbox[s], b) ELSE outbox[s]]
        /\ worker[w].phase = "failing" /\ UNCHANGED anchors
    BY <1>8 DEF HandleSubmitFailure, chainVars
  <2>2. b \in BatchIds /\ b # NoBatch
    BY <2>1 DEF PromiseInv, FailingHasBatch, BatchIds, NoBatch
  <2>3. \A s \in T : outbox'[s].status \in {"pending", "dead_letter"}
    <3>1. \A row \in OutboxRow : Failed(row, b).status \in {"pending", "dead_letter"}
      BY DEF Failed, OutboxRow
    <3> QED
      BY <2>1, <3>1 DEF TypeOK
  <2>4. \A s \in Steps \ T : outbox'[s].status = outbox[s].status
    BY <2>1
  <2>5. \A s \in T : outbox[s].status # "none" /\ outbox[s].status # "dead_letter"
    <3>1. \A s \in T : outbox[s].status # "none"
      BY <2>2 DEF PromiseInv, IndInv, RowsInTheirBatch, BuiltBatches
    <3>2. \A s \in T : outbox[s].status # "dead_letter"
      BY <2>2 DEF PromiseInv, HeldAlive, Holding
    <3> QED
      BY <3>1, <3>2
  <2>6. \A s \in T : outbox[s].status \in {"pending", "claimed", "anchored"}
    BY <2>5 DEF TypeOK, OutboxRow, OutboxStatus
  <2>7. T \in SUBSET Steps
    OBVIOUS
  <2> HIDE DEF T, b
  <2> QED
    BY <2>1, <2>3, <2>4, <2>6, <2>7, PromiseGivesUp
<1>9. ASSUME NEW b \in BatchIds, NEW k \in 1..RbfAttempts, MineAnchor(b, k)
      PROVE  [Promise!Next]_Promise!promiseVars
  <2> DEFINE S == batches[b].steps
  <2>1. /\ anchors' = Append(anchors, S) /\ S \notin UsedRoots
        /\ k \in 1..txs[b].tries /\ UNCHANGED outbox
    BY <1>9 DEF MineAnchor, dbVars
  <2>2. b < nextBatch /\ S \in SUBSET Steps
    <3>1. nextBatch \in Nat /\ b \in Nat /\ k \in Nat /\ txs[b].tries # 0
      BY <2>1 DEF TypeOK, BatchIds, TxState
    <3>2. ~ (b >= nextBatch)
      BY <3>1 DEF IndInv, LaterIdsUnused
    <3>3. S \in SUBSET Steps
      BY DEF TypeOK, BatchRow
    <3> QED
      BY <3>1, <3>2, <3>3
  <2>3. S # {} /\ \A s \in S : StageOf(s) # "none"
    <3>1. S # {} /\ \A s \in S : outbox[s].status \in OutboxStatus \ {"none"}
      BY <2>2 DEF PromiseInv, BuiltBatches, TypeOK, OutboxRow
    <3> QED
      BY <3>1, StageValue DEF OutboxStatus
  <2>4. \A i \in DOMAIN anchors : anchors[i] # S
    BY <2>1 DEF UsedRoots
  <2>5. [s \in Steps |-> StageOf(s)]' = [s \in Steps |-> StageOf(s)]
    BY <2>1 DEF StageOf
  <2> HIDE DEF S
  <2>6. Promise!Extend(S)
    BY <2>1, <2>2, <2>3, <2>4, <2>5 DEF Promise!Extend
  <2> QED
    BY <2>2, <2>6 DEF Promise!Next
<1>10. ASSUME ReconcileBatchAnchored PROVE [Promise!Next]_Promise!promiseVars
  <2> DEFINE i == cursor + 1
  <2>1. i \in DOMAIN anchors /\ UNCHANGED anchors
    BY <1>10 DEF ReconcileBatchAnchored, chainVars
  <2>2. UNCHANGED outbox \/ \E first \in Matching(i) : outbox' = RowsAnchored(first)
    BY <1>10 DEF ReconcileBatchAnchored
  <2>3. ASSUME NEW first \in Matching(i), outbox' = RowsAnchored(first)
        PROVE  [Promise!Next]_Promise!promiseVars
    <3>1. first \in BatchIds /\ anchors[i] = batches[first].steps
      BY DEF Matching, Unconfirmed
    <3> QED
      BY <2>1, <2>3, <3>1, PromiseSettles
  <2> QED
    BY <1>1, <2>1, <2>2, <2>3
<1>11. CASE Passing
  <2>1. UNCHANGED anchors
    BY <1>11 DEF Passing, ClaimsExpire, BackoffElapses, chainVars
  <2>2. \A t \in Steps : outbox'[t].status = outbox[t].status
    <3>1. CASE ClaimsExpire
      <4>1. PICK S : outbox' = [s \in Steps |->
              IF s \in S THEN [outbox[s] EXCEPT !.expired = TRUE] ELSE outbox[s]]
        BY <3>1 DEF ClaimsExpire
      <4> QED
        BY <4>1 DEF TypeOK, OutboxRow
    <3>2. ASSUME NEW b \in BatchIds, BackoffElapses(b)
          PROVE  \A t \in Steps : outbox'[t].status = outbox[t].status
      <4>1. PICK n : outbox' = [s \in Steps |->
              IF s \in {t \in Pending : outbox[t].backoff = b} /\ outbox[s].attempts = n
              THEN [outbox[s] EXCEPT !.backoff = NoBatch] ELSE outbox[s]]
        BY <3>2 DEF BackoffElapses
      <4> QED
        BY <4>1 DEF TypeOK, OutboxRow
    <3> QED
      BY <1>11, <3>1, <3>2 DEF Passing
  <2> QED
    BY <2>1, <2>2, PromiseStutters
<1>12. ASSUME NEW w \in Workers, RunOnce(w) PROVE [Promise!Next]_Promise!promiseVars
  <2>1. ASSUME \/ DeferFlush(w) \/ SendTransaction(w) \/ SendRejected(w) \/ MarkSubmitted(w)
               \/ ReceiptTimeout(w) \/ ReceiptReverted(w) \/ RecordGasSpend(w)
               \/ \E b \in BatchIds : ReadNonce(w, b)
        PROVE  UNCHANGED <<outbox, anchors>>
    BY <2>1 DEF DeferFlush, SendTransaction, SendRejected, MarkSubmitted, ReceiptTimeout,
                ReceiptReverted, RecordGasSpend, ReadNonce, dbVars, chainVars
  <2> QED
    BY <1>1, <1>3, <1>4, <1>5, <1>6, <1>7, <1>8, <1>12, <2>1 DEF RunOnce
<1>13. ASSUME NEW w \in Workers,
              AcquireAuthority(w) \/ AbortIteration(w) \/ Crash(w) \/ Shutdown(w)
       PROVE  [Promise!Next]_Promise!promiseVars
  BY <1>1, <1>13 DEF AcquireAuthority, AbortIteration, Crash, Shutdown, dbVars, chainVars
<1>14. CASE LoseAuthority
  BY <1>1, <1>14 DEF LoseAuthority, dbVars, chainVars
<1>15. CASE Chain
  <2>1. ASSUME NEW b \in BatchIds, NEW k \in 1..RbfAttempts, MineRevert(b, k)
        PROVE  UNCHANGED <<outbox, anchors>>
    BY <2>1 DEF MineRevert, dbVars
  <2> QED
    BY <1>1, <1>9, <1>15, <2>1 DEF Chain
<1>16. ASSUME NEW o \in Orgs, RaiseBudget(o) PROVE [Promise!Next]_Promise!promiseVars
  BY <1>1, <1>16 DEF RaiseBudget, dbVars, chainVars
<1>17. CASE UNCHANGED vars
  BY <1>1, <1>17 DEF vars, dbVars, chainVars
<1> QED
  BY <1>2, <1>10, <1>11, <1>12, <1>13, <1>14, <1>15, <1>16, <1>17 DEF Next

(* As long as the advisory lock keeps a second worker away, every behaviour*)
(* of the API, the worker, the chain and the indexer is one the promise    *)
(* allows: a logged step is anchored only when a root on chain covers it,  *)
(* no root is on chain twice, and a dead letter is left only by being      *)
(* anchored, for any number of steps, workers and crashes.                 *)
THEOREM PipelineKeepsPromise ==
  ASSUME ~ LockMayDrop
  PROVE  Spec => PromiseKept
<1>1. Init => Promise!Init
  <2> SUFFICES ASSUME Init PROVE Promise!Init
    OBVIOUS
  <2>1. \A s \in Steps : outbox[s].status = "none"
    BY DEF Init, NoRow
  <2>2. \A s \in Steps : StageOf(s) = "none"
    BY <2>1, StageValue
  <2> QED
    BY <2>2 DEF Init, Promise!Init
<1>2. PromiseInv /\ [Next]_vars => PromiseInv'
  BY PromiseInvStep
<1> QED
  BY <1>1, <1>2, PromiseInvInit, PromiseStep, PTL DEF Spec, PromiseKept, Promise!Spec
===========================================================================
