# TrustChain in TLA+

TLA+ models of TrustChain, checked with TLC and in part proved with TLAPS. This
file is for a reader who has the repository: what the parts of the system are,
which module models which, what each check shows, what is proved, and what is
not modelled.

## 1. The system

| component | state it keeps | operations | what makes it correct | module |
|---|---|---|---|---|
| Step logging (`backend/agents/base.py`) | `steps`, `anchor_outbox` | `log_step` commits a step with its outbox row | no step without an outbox row | `AnchorPipeline` |
| Anchor worker (`backend/anchor_worker/`) | `anchor_outbox`, `anchor_batches`, `steps.anchor_batch_id`; an advisory lock; locals of the iteration | reap, flush or defer, claim, build batches, gas check, submit with replace-by-fee, confirm, fail, shut down | a step is anchored or dead-lettered, never lost; the database claims no more than the chain | `AnchorPipeline` |
| Audit log contract (`AgentAuditLogV2.sol`) | `batches`, `usedRoots` | `anchorBatch`, `verifyProof`, pause | a root is anchored once | `AnchorPipeline`, `MerkleTree` |
| Indexer (`backend/indexer/`) | `indexer_cursor`, `rm_agent_events`, `rm_scores`, `agents`; the worker's tables | poll per event stream, reconcile `BatchAnchored`, index identity events and scores | nothing skipped, the read model follows the chain (I6), crash window closed | `ChainIndexer`, `AnchorPipeline`, `ChainWriters` |
| Identity and score registries (`AgentIdentityRegistryV2.sol`, `TrustScoreRegistryV2.sol`) | one record per agent; state, history and leaderboard per run | register, revoke, verify; update, reset, pause | revocation is permanent; the views of a score agree | `ChainWriters`, `ChainIndexer` |
| Chain writers (`score_writer.py`, `identity_writer.py`) | none; they share the worker's key | nonce, fees, send, receipt | what is reported as written was written once; the key is never blocked | `ChainWriters` |
| RPC failover (`blockchain/resilient_provider.py`) | a breaker per endpoint, shared by threads | allow, retry in place, record, fail over | a dead endpoint is spared, an outage leaves no mark | `RpcFailover` |
| Alerts (`backend/db/alerts.py`) | `alerts`, `alert_deliveries` | raise with deduplication, acknowledge, resolve, reopen | nothing accused wrongly, nothing wrong left unsaid | `Watchdog` |
| Email sender (`backend/notifications/sender.py`) | `alert_deliveries` | reap, claim, send, mark | every delivery settles, duplicates only by retry | `AlertSender` |
| Alert digests (`notifications/digest.py`, `db/alerts.py`) | `notification_preferences`, `alerts` | find who is due, list alerts, mail, mark | every alert reaches whoever asked for digests | `AlertDigest` |
| Integrity watchdog (`backend/integrity_watchdog/`) | rolling cursors, `batch_verifications` | sweep rows, roots and liveness, compare with the chain | a tampered row is found and alerted | `Watchdog` |
| Verification of a run (`verify_run` in `main.py`) | locals of the request | load the steps, rebuild and compare the root of each batch | what it says of a step is so, for what it loaded | `VerifyRun` |
| Step history (`steps_history`, `db_operator.py`) | a record per update | trigger, evidence, verify-content | the evidence names the last change and its author | `StepHistory` |
| Gas and token budgets (`db/tenancy.py`) | `gas_spent_wei`, `tokens_spent` | check, record | nobody overcharged | `AnchorPipeline`, `RunLifecycle` |
| Sessions (`refresh.py`, `db/password_reset.py`, ...) | `refresh_tokens`, link tokens, password hashes | login, issue, rotate, revoke, reset, verify | a replayed token kills its family, a reset ends the sessions before it, a link acts once | `Sessions` |
| Membership (`db/orgs.py`, `membership_cache.py`, `db/invitations.py`) | `memberships`, projects, invitations, a Redis cache | roles, removal, transfer, invitations, projects | an organization keeps its owner and a project, the cache follows the roles, an invitation is used once | `Membership` |
| Runs and idempotency (`main.py`, `agents/`, `db/idempotency.py`) | `runs`, `steps`, `idempotency_keys`, background tasks | start, run the nodes, finish, replay a response, shut down | one run per key, a run ends as its stream said, steps are numbered apart | `RunLifecycle` |
| Live streams, rate limiter (`run_events.py`, `alert_events.py`, `rate_limit.py`) | Redis streams, token buckets | publish, terminal marker, read, expire | who is told "complete" saw all; no gap; the budget holds | `LiveStreams` |
| Merkle trees (`blockchain/merkle.py`) | none | build, prove, verify | proofs verify, and only for their leaf | `MerkleTree` |
| Evidence manifests, account emails, clients, deployment | | | | not modelled, see section 7 |

**Interaction.** The API commits steps and outbox rows to PostgreSQL; the anchor
worker, the holder of a PostgreSQL advisory lock, turns them into transactions;
the API's own chain writers send with the same key and without that lock; the
indexer reads the chain's events back and writes to the same tables the worker
writes; detectors (API, indexer, watchdog) raise alerts, whose emails the
sender drains. Requests pass the membership cache and the token bucket in
Redis; the events of a run go through a Redis stream to whoever watches.
Nothing but PostgreSQL, the chain and Redis is shared.

**What is hard.** Every part is a sequence of short transactions and remote
calls, so a crash, a lost reply, a timeout or another process falls between any
two of them. Endpoints count or look in one transaction and write in another.
The same row is written by processes that identify it by different keys (batch
id, step id, merkle root). The chain may mine what the worker has given up, and
may take back what the indexer has read. `PROJECT.json` lists each such hazard
with its line in `hazards`, and the properties that would catch it.

## 2. The modules

| module | what it is |
|---|---|
| `AnchorPipeline` | outbox, anchor worker, audit log contract with its mempool, reconciliation: the core |
| `AnchorPromise`, `AnchorRefinement` | what each step is promised, and the mapping under which `AnchorPipeline` implements it |
| `ChainIndexer` | polling through reorganizations, read model, agents table, identity alerts |
| `AlertSender` | the delivery outbox and its senders |
| `AlertDigest` | the digests, and the preference that asks for them |
| `Membership` | organizations, members, projects, invitations, the cache of roles |
| `Sessions` | refresh tokens, passwords, reset and verification links |
| `Watchdog` | the integrity watchdog and its alerts |
| `VerifyRun` | verify-run, query by query, while batches are built, settled and tampered with |
| `RunLifecycle` | requests with idempotency keys, background pipelines, the shutdown of the API |
| `ChainWriters` | the API's transactions, the score and identity registries, the read model of scores |
| `RpcFailover` | circuit breakers and failover among RPC endpoints |
| `LiveStreams` | the feeds of runs and alerts, the token bucket |
| `IdOrder` | rows in the order of their ids, for `LiveStreams` and `ChainWriters` |
| `MerkleTree`, `StepHistory` | pure definitions, with their claims as assumptions that TLC evaluates in the run `watchdog` |
| `AnchorPipelineProofs`, `ChainIndexerProofs`, `AlertProofs`, `MembershipProofs`, `SessionsProofs`, `ChainWritersProofs`, `RunLifecycleProofs`, `LiveStreamsProofs` | the theorems: `AlertProofs` those of `AlertSender`, `AlertDigest` and `Watchdog`, `ChainWritersProofs` those of `RpcFailover` too, `RunLifecycleProofs` those of `VerifyRun` too |
| `MC...` | definitions of the instances TLC checks |

### AnchorPipeline

State: `outbox`, `stepBatch` and `batches` are the tables `anchor_outbox`,
`steps.anchor_batch_id` and `anchor_batches`; `worker` holds the locals of each
process (`held` the claim, `todo` the batches of the loop, and the locals of
`submit_batch`); `authority` is the advisory lock; `txs`, `chainNonce`,
`poolNonce` and `anchors` are the chain; `cursor` is the indexer's place in the
event log; `spent` and `budget` are the organizations' gas columns.

One action is one database transaction or one RPC call of `run_once`, in the
order of the code:

    ReapStaleClaims -> DeferFlush | ClaimBatch -> BuildBatches
      -> for each batch: HandleGasCeilingSkip
                       | ReadNonce -> SendTransaction | SendRejected
                         -> MarkSubmitted -> ReceiptTimeout (replace-by-fee or give up)
                                           | ReceiptReverted | ConfirmBatch -> RecordGasSpend
                         any SubmitError  -> HandleSubmitFailure

`AbortIteration` is the `except Exception` of `main()`, `Crash` the death of the
process, `Shutdown` the SIGTERM path, `LoseAuthority` the death of the lock's
connection alone. `MineAnchor` and `MineRevert` mine any broadcast attempt of
the next nonce, also one that was replaced or given up.
`ReconcileBatchAnchored` is the indexer's handler.

Abstractions: a root is its set of steps (the hash is collision free and leaves
are sorted by step index, so equal sets give equal roots); clocks are
nondeterministic; a confirmed batch costs one unit of gas; the fee arithmetic,
evidence publishing and the worker's metrics are left out. The chain under this
module does not reorganize and its mempool does not drop transactions.

`faults` in an outbox row is a history variable: it counts the claims that ended
in a failed submission or a reaped claim, apart from `attempts`, which the code
increments, decrements and compares.

### ChainIndexer

State: the canonical chain (`chain`, `forks`), the tables (`cursors`, `rows`,
`agent`), the transactions an alert was raised for (`alerted`) and the locals
and uncommitted session of the poll (`poll`). `ResolveStartBlock`, `ReadTip`,
`GetLogs`, `IndexEvent`, `RaiseIdentityAlert` and `SaveCursor` are the RPC calls
and commits of `poll_once`; `Mine`, `Reorganize` and `AbortPoll` (error, crash,
restart) come between any two. The finality gate is a variable chosen at the
start, so that one run covers the default (0) and a gate.

`torn` is a history variable: whether a reorganization ever struck in the
middle of a poll. With the default gate of 0 that is the one case in which an
event may be skipped: the logs are read from one fork and the hash of the last
block from another. `NothingSkipped` holds outside that case, or behind a gate
as deep as the reorganizations.

### AlertSender

State: `deliveries` (with two histories, `emails` the provider accepted and
`retries`), and each sender's claims. `ReapStuckClaims` and `ClaimDeliveries`
open `run_once`; `SendOne` is the provider's answer, or its absence; `MarkSent`
and `MarkRefused` are the `_mark` UPDATEs, by id and without a check that the
claim is still held; `SenderStops` is a crash or an exception other than
`EmailSendError`. A claim may be reaped while its sender still works on it.

### AlertDigest

State: `alert` and `pref` are the tables `alerts` and
`notification_preferences`, `now` the clock, `digest` the locals of
`send_due_digests`: `FindRecipients`, `ListAlerts` and, per recipient,
`SendDigest` and `MarkDigestSent` are its queries, mails and commits;
`DigestStops` is a crash or an exception. Around it alerts are raised, seen
again, reopened and resolved, and people change their preference. `told` and
`passed` are histories: what each one was mailed since it was last seen, and
what no digest of theirs owes them any more. `MCAlertSender` explores the two
ways an alert is mailed in one run, each with the other at rest: they share no
state.

### Membership

State: `role` (memberships), `orgState`, projects and `invitations` are the
tables, `cache` is Redis, `handler` and `request` the locals of the endpoints
and of the token checks under way. An endpoint begins with its permission check
(`BeginChangeRole`, `BeginTransfer`, `BeginAccept`, ...), goes on with one action
per transaction (`ReadTarget`, `CountOwners`, `WriteRole`, ...) and ends with one
`Invalidate` per cache key; `HandlerDies` and failing calls of Redis are bounded
by `MaxFaults`. A token check is `CacheMiss`, `GetRole`, `CacheSet`. Names,
plans and audit events are left out; an expired invitation is a read that
changes nothing.

Histories name what the properties except: `overlapped` organizations (two
handlers at once), `selfGiven` (an owner who transfers to himself), `excused`
cache entries (a fill that raced the invalidation, a failed call, a dead
handler, a membership that began) and `unmarked` invitations (a signup between
its commit and its mark; under row-level security the mark never matches a row).

### Sessions

State: `tokens`, `links`, `password`, `legacy` and `confirmed` are the tables;
`worker` the locals of the endpoints. Each read (`Authenticate`, `ReadToken`,
`OpenLink`) and each write (`Rehash`, `IssueAfterLogin`, `Rotate`,
`RevokeReplayed`, `ResetPassword`, `RevokeAll`, ...) is an action. A password is
the number of resets before it was chosen. `doubled`, `escaped` and `late` are
histories of the overlaps the code allows: two rotations that both read the
token unused, a rotation that writes after a revocation it did not see, and a
family begun with a password that is no longer the newest.

### Watchdog

State: `rows`, `history`, `outbox`, `batches`, `chain`, `verified` and `alerts`
are the tables and the chain; `cycle` and `cursor` those of `run_cycle`. The
actions are its queries and transactions in their order: hot steps, hot
batches with the comparison on chain, liveness, rolling steps, rolling batches;
a finding becomes an alert by `LookForOpen` and `WriteAlert`, between which the
API may answer, resolve or reopen alerts. Around it, steps are logged and
anchored, rows edited, rewritten consistently with their leaf hash, or deleted,
stored roots changed, and the watchdog stopped. A hash is the value it hashes, a
root the sequence of its leaves, which `MerkleTree` justifies
(`RootIsOfOneBatch`).

### VerifyRun

State: `row` and `batchOf` are the run's `steps`, `outboxRow` and `record` the
tables `anchor_outbox` and `anchor_batches`; `built`, `inHand` and `mined` belong
to the anchor worker and the chain; `verify` holds the locals of `verify_run`
(`main.py:2604-2668`). Each of its awaits is an action: `LoadSteps`, `GetBatch`,
`CheckBatch` (the query for the leaves and the rebuilt root), `CheckOnchain` or
`CheckOnchainRaises`, `AnswerRun`. An exception of `check_onchain_root` is
swallowed and the batch passes, as in the code. Between the awaits the worker
and the indexer build, send, confirm, give up, reap and reconcile batches, and
somebody edits by hand: a row, with or without its leaf hash, a deletion, a
stored root. Which batch a step is in, a batch's leaves and its anchor id are not
edited. The session keeps the attributes it loaded, so a row edited later counts
as loaded while one deleted later is missing. A leaf hash is "old" or "new", and
a root maps its leaves to their hashes. `AnchorPipeline` has the details that
are left out here: attempts, gas, the lock, several workers.

### RunLifecycle

State: `runs`, `steps`, `keys`, `spent` and `stream` are the tables and the run's
stream; `request` and `task` the handlers and background tasks, `process`,
`pending` and `failing` the lifespan of the API. `Lookup` to `StoreResponse` are
the transactions of `POST /run-agent` and `POST /steps`; `TaskStep` runs the four
nodes (`build_graph` lists the steps each one logs), publishes the outcome,
writes the status, the spend and the marker. `Shutdown`, `DrainEnds`,
`AbandonRun`, `FailAbandoned`, `Stop`, `Crash` and `Restart` are the lifespan.
Histories: `faulted`, `killed` and `lost` tasks, `excused` keys, `entangled`
requests (two that number a step of one run at a time).

### ChainWriters

State: `write` holds the locals of each task, `pool` and `mined` the
transactions of the shared key, `board` and `identity` the contracts, `rows` the
table `rm_scores`. A write is `ReadNonce`, `SendTransaction` (or `SendRejected`,
or `SendReplyLost`, after which the provider sends again), `GetReceipt` or
`ReceiptTimeout`. Another endpoint may answer with any nonce from the mined
ones to the pending ones; a transaction of the same nonce is replaced by one
that pays more. Two fee levels are enough for that. `Mine` runs the contract;
the admin may reset a run or pause.

### RpcFailover

State: `breaker` per endpoint, `request` per thread. `AllowRequest`,
`AttemptFails`, `Answer` and `Unavailable` are the steps of `make_request`;
`CooldownElapses` is the clock. Endpoints go down and come back at any time. An
error the chain answers with is an answer.

### LiveStreams

State: `run` is the stream of a run id with the pipeline that writes it,
`alerts` that of an organization, `reader` and `watcher` the connections,
`bucket` the rate limiter's key. The time stamp of a request and its evaluation
in Redis are two actions, as are the terminal marker and its `EXPIRE`. The two
feeds share nothing; the run explores each with the other at rest
(`FeedsApart`).

## 3. The runs

All run with two TLC workers; each takes from a few seconds to about two minutes.

| run | question | result |
|---|---|---|
| `anchor_core` | Two steps of one run, two claims of each, up to three batches, a gas ceiling in reach: is every row of the database true of the chain, through crash, revert, lost receipt, reaping and reconciliation? Is anyone overcharged? Does the pipeline implement `AnchorPromise`? | holds |
| `anchor_live` | One step, two claims, two workers and a lock that drops: does every pending step settle, if the chain and the indexer owe nothing? | holds |
| `anchor_twice` | Is the effect on chain exactly once? | violated |
| `indexer` | Two registrations and a revocation over three blocks, a reorganization anywhere: nothing skipped, read model equal to the chain behind the gate, no identity alert lost, agents row current? | holds |
| `alert_sender` | Two senders, two deliveries, one crash, one claim that times out too soon: duplicates only by retry, sent means mailed, given up only after all attempts, all settle for good? Two recipients of digests and an alert that recurs: do the digests leave nothing out? | holds |
| `membership` | Two endpoints and a token check over two organizations, three people and two invitations: do owners, projects, the cache and the invitations stay right outside the named overlaps? | holds |
| `sessions` | Two requests over three tokens, two links and the password of one account: do families stay chains, does revocation cover a family, does a reset end the sessions before it, does a link act once? | holds |
| `watchdog` | Two steps anchored together or in turn, two disturbances: are alerts earned, failed verifications raised, and is whatever is wrong raised in the end? Also evaluates the assumptions of `MerkleTree` and `StepHistory`. | holds |
| `runs` | Two requests, one failed call, crash or shutdown: one execution per key, steps numbered apart, status as announced, no run left behind? And of verify-run, over two steps and two batches with two edits: is what it answers of a step so, whatever is written while it reads? | holds |
| `writers` | Two scorers of one run and a registrar on one key, a lost reply or an unavailable RPC, a price peak, a reset or a pause: do reports, chain, leaderboard and read model agree, and is the key never blocked? | holds |
| `failover` | Two threads, two endpoints, two outages, two blips: is a dead endpoint spared, and does an outage leave no mark? | holds |
| `streams` | Two clients of one run, a run id used twice, expiry; two clients of the alerts, five alerts with two kept: completeness, order, and the bucket's budget? | holds |

**Bounds.** In the anchoring runs one step suffices for every race about one
row; two give batches that grow between a claim and the next and a batch that
overlaps an earlier one. Two claims of a row (`MaxAttempts = 2`) give one retry
and one dead letter; `MaxBatches` bounds the rows of `anchor_batches` in the
guard of `ClaimBatch`. In `indexer`, three blocks hold every order of the three
transactions, and a rewind of 1 with a reorganization of 1 is the code's rewind
of 12 with one of up to 12: `IndexerAssumption` says that the rewind covers the
reorganization. In `alert_sender`, `MaxStops` and `MaxTimeouts` bound crashes and
claims that time out under a live sender; a clock of four is two intervals, so
that a second digest follows the first, or is late. In `membership`, three calls
(`MaxCalls`) are two overlapping handlers and a token check or a third handler
after them; three people are an owner, a member and an outsider. In `sessions`,
three tokens are a family with a rotation and a fork, or two families; one reset
and one death of a process. In `watchdog`, a budget of one row makes the rolling
cursors turn over two rows, and one batch of two steps lists them in the reverse
order of their ids; only step 2 is edited, the one that is not there at the
start. In `runs`, two requests are what overlaps; the other values are the
smallest at which quota and budget refuse. For verify-run in the same run, two
steps in two batches are a step that is batched again and a batch that shares a
leaf with another; a rewritten row and a stored root made to agree are two edits,
the least that can deceive it; the later step alone is edited, and the request is
explored up to its answer (`RunsAndVerifyApart`: the two parts share no state,
and each is explored with the other at rest). In `writers`, one scorer makes two
writes in turn, so that a report of the first is followed by a race. In
`failover`, a failed request is two failed attempts and three failures open a
breaker. In `streams`, a batch of two and a TTL of two ticks make reads come in
parts and keys expire under them. `MaxOps = 4` for `StepHistory`: an issue, a
change, a revocation and a second; `MaxLeaves = 4` for `MerkleTree` has odd and
even levels.

**Deadlock** is checked in `failover`, whose threads go on for ever. The other
systems come to rest when all their rows are settled and their bounds used up.

**Fairness.** `AnchorPipeline!FairSpec`: a live worker goes on with its
iteration (`WF RunOnce`); a dead one is restarted by its supervisor (`WF
AcquireAuthority`) and, however often it is stopped, gets to start and to flush
again and again (`SF ReapStaleClaims`, `SF ClaimBatch`: the poll loop runs every
few seconds and the flush depends on an age that only grows); clocks advance
(`WF Passing`). Nothing is assumed of the chain, the indexer or the mempool.
`AlertSender!FairSpec`: a sender goes on with its iteration, a delivery that is
due or abandoned is taken up by one of the loops (`run_forever` catches every
exception). `Watchdog!WatchdogFairSpec`: the cycle goes on and, after an exception or a
restart, starts again (`main` loops for ever); nothing is assumed of the API, the
editors or the anchoring. `RpcFailover!FairSpec`: a thread with a request in hand
goes on with it, and cooldowns elapse; outages need not end. No other
specification uses fairness.

### The violated run

`StepAnchoredOnce`: the comment at `AgentAuditLogV2.sol:65-67` and ADR 0001
promise exactly-once effect. `usedRoots` guards roots, not steps: when a mined
batch is given up and its step is claimed together with a later one, the new
root is fresh and the step is anchored twice.

### Exceptions the properties name

Several properties hold only outside cases that the code allows and a document,
a comment or a docstring passes over. Each case is a history variable or a
condition of the property, so that the exception is exactly as wide as it is
stated there.

- `docs/runbooks.md:159-161` calls a dead-lettered step never anchored. The
  transaction behind a receipt that timed out may still be mined.
- `docs/threat-model.md:225-226`: spend beyond a gas ceiling is rejected before
  it happens. It is recorded after the confirmation, on the worker's path only.
- `db/models.py:286-290`: of the batches with one root at most one has not
  failed. The reaper leaves a crashed worker's batch `building` or `submitted`.
- `indexer/agent_events.py:20-23`: the agents row converges. After a
  reorganization it may not; `AgentCurrent` is about chains without one.
- `db/orgs.py:238-240`: never two owners or none. An owner who names himself in a
  transfer ends as admin (`selfGiven`), and counts taken by two handlers at once
  let both act (`overlapped`).
- `db/invitations.py:8-10`: single use. `mark_accepted` names no organization, so
  under row-level security (`RowSecurity`) it matches no row (`unmarked`).
- `refresh.py:144`: two rotations that both read the token unused leave two live
  tokens in a family (`doubled`); a rotation may outlive a revocation
  (`escaped`). A reset is survived by families begun with an old credential
  (`late`).
- `resilient_provider.py:32-34` says one half-open trial; every thread gets one,
  hence the bound `Threshold + |Threads|`.
- `integrity_watchdog/main.py:251`: a crash between a failed verification and
  its alerts silences it for good (`past.lost`); a root changed after a cached
  verification is not compared again.
- `main.py:2605-2610`: whether a run is intact right now. When the call to the
  chain raises, `main.py:2649-2650` logs it and takes the batch for good, and of
  a batch that is not confirmed the chain is not asked at all: rows rewritten
  with their leaf hashes, and a stored root made to agree, then pass as verified
  (`silent`, `falsified`). They also pass when the leaves as rewritten were
  anchored in another batch. A batch no step of which is left in the run is not
  looked at, and a run without steps is answered `allVerified: true`.
- `notifications/digest.py:63-65` and `db/alerts.py:378`: a digest tells what
  happened since the recipient's last one. Its window reaches one interval back
  from the clock the digest starts with, so an alert older than that when a
  first or a late digest comes is in none, nor is one whose row is written in a
  later second than its own (`passed`).
- A bumped alert keeps its severity: a stall never becomes critical.
- `main.py:2682-2690` and `integrity_watchdog/main.py:70-83` promise what a step
  said before an edit; the trigger also fires on the update that puts the step
  in a batch, after which neither answers it (`StepHistory`,
  `RoutineUpdatesHideEdits`).
- `db/__init__.py:317`: steps posted to a run while its pipeline logs, or posted
  together, may share an index.
- A failing call after the outcome was announced turns a complete run into an
  error (`faulted`); a crash leaves a run running for ever (`lost`).
- A run id chosen a second time inherits the first stream's marker and TTL.
- `main.py:977`, `db/idempotency.py:69-76`: two requests with one key that
  overlap both run the handler, and a crash before the response is stored loses
  it (`excused`). The check covers every repetition after them.
- `membership_cache.py:78`: a role read before a removal and cached after the
  invalidation is served until its TTL, and so is what a failed call of Redis
  leaves (`excused`).
- `alert_events.py:50-58`: until a client got a first entry, `"$"` is resolved
  anew at each XREAD, and what comes in between is lost; what MAXLEN trims under
  a slow client is lost too. `DeltasHaveNoGap` is about the entries between two
  that the client got.
- A rate-limited request overtaken between its clock and Redis refills the
  bucket twice (`overtaken`).

## 4. The proofs

Each theorem holds for every value of the constants: any number of steps,
workers, clients, endpoints, requests, crashes and retries. It assumes the named
assumptions of its component's module and nothing else, but for
`PipelineKeepsPromise`, which states its hypothesis. Every safety property that
a run checks is stated by one of them.

| module | theorem | property |
|---|---|---|
| `AnchorPipelineProofs` | `TypeCorrect` | `TypeOK` |
| | `ConfirmedBatchesAreOnChain`, `AnchoredStepsAreOnChain` | `ConfirmedIsOnChain`, `AnchoredIsOnChain` |
| | `ServedProofsVerify` | `ServedProofVerifies` |
| | `PointersAgree` | `BatchPointersAgree`, which no run checks any more |
| | `DeadLettersAreEarned` | `DeadLetterEarned` |
| | `NobodyIsOvercharged` | `NeverOvercharged` |
| | `PipelineKeepsPromise` | `PromiseKept`, the refinement of `AnchorPromise` |
| `ChainIndexerProofs` | `IndexerTypeCorrect` | `IndexerTypeOK` |
| | `NothingSkippedAlways`, `ReadModelIsChainAlways`, `IndexedIsAlertedAlways` | `NothingSkipped`, `ReadModelIsChain`, `IndexedIsAlerted` |
| | `AgentCurrentAlways` | `AgentCurrent` |
| `AlertProofs` | `SenderTypeCorrect` | `SenderTypeOK` |
| | `DuplicatesAreRetriesAlways`, `SentWasMailedAlways`, `GivenUpLateAlways` | `DuplicatesAreRetries`, `SentWasMailed`, `GivenUpLate` |
| | `DigestLeavesNothingOutAlways` | `DigestLeavesNothingOut` |
| | `WatchdogTypeCorrect` | `WatchdogTypeOK` |
| | `AlertsAreEarnedAlways`, `MismatchIsAlertedAlways` | `AlertsAreEarned`, `MismatchIsAlerted` |
| `MembershipProofs` | `MembershipTypeCorrect` | `MembershipTypeOK` |
| | `CacheFollowsRolesAlways`, `InvitationUsedOnceAlways`, `OwnerAndProjectAlways` | `CacheFollowsRoles`, `InvitationUsedOnce`, `OwnerAndProject` |
| `SessionsProofs` | `SessionsTypeCorrect` | `SessionsTypeOK` |
| | `ChainDoesNotForkAlways`, `RevokedFamilyIsDeadAlways`, `ResetEndsSessionsAlways`, `LinkActsOnceAlways` | `ChainDoesNotFork`, `RevokedFamilyIsDead`, `ResetEndsSessions`, `LinkActsOnce` |
| `ChainWritersProofs` | `WritersTypeCorrect` | `WritersTypeOK` |
| | `QueueNeverStuckAlways`, `ReportedWritesAreMinedAlways`, `RevokedForGoodAlways`, `ScoresAgreeAlways` | `QueueNeverStuck`, `ReportedWritesAreMined`, `RevokedForGood`, `ScoresAgree` |
| | `DeadEndpointIsSparedAlways` | `DeadEndpointIsSpared` |
| `RunLifecycleProofs` | `RunsTypeCorrect` | `RunsTypeOK` |
| | `OneRunPerKeyAlways`, `StepsNumberedOnceAlways`, `RunEndsAsItSaidAlways`, `NoRunIsLeftBehind` | `OneRunPerKey`, `StepsNumberedOnce`, `RunEndsAsItSaid`, `NoRunLeftBehind` |
| | `VerifyTypeCorrect` | `VerifyTypeOK` |
| | `VerdictIsRightAlways` | `VerdictIsRight` |
| `LiveStreamsProofs` | `StreamsTypeCorrect` | `StreamsTypeOK` |
| | `CompleteSawAllAlways`, `DeltasHaveNoGapAlways`, `BucketHoldsAlways` | `CompleteSawAll`, `DeltasHaveNoGap`, `BucketHolds` |

None of the properties is inductive alone. What each argument adds is what the
code relies on without saying so.

*Anchoring.* `IndInv`: a row that points to a batch is one of its steps
(`RowsInTheirBatch`), ids not handed out yet are unused (`LaterIdsUnused`), a
worker that is submitting or looping names batches that were built
(`WorkersNameBuiltBatches`), a batch's anchor id and a mined transaction's
anchor id both point at the batch's own root (`BatchAnchorsMatch`,
`TxAnchorsMatch`), and a confirmed batch has an anchor id
(`ConfirmedHasAnchor`). `anchored` follows because the only two writers of it
select rows by batch id, and by `RowsInTheirBatch` those are leaves of the root
on chain. No part of the argument uses the lock, which is why the theorems
cover two workers. For dead letters `CountInv` relates `attempts` and `faults`
row by row (`AttemptsWereFaults`): attempts never exceed the faults, plus one
for a claim in progress. Every UPDATE of one row keeps it (`CountedUpdates`).

*Gas* (`GasInv`). A batch is charged when the worker that built it lets it go,
after it saw the receipt of an anchor (`ConfirmedHasTx`); no batch is in two
hands, nor twice in one (`HeldApart`), and an anchor was created by the
transaction of one batch (`AnchorsOwned`). So what an organization has spent is
at most the number of its anchored batches that nobody will charge for any more
(`ChargedOnce`). This too holds for two workers.

*Refinement* (`PromiseInv`). Under the mapping of `AnchorRefinement` every step
of the pipeline is a step of `AnchorPromise` or a stutter (`PromiseStep`). It
needs that a process that runs holds the lock (`OneAtWork`), that outside the
loop over its batches a worker holds none (`RestingHoldsNothing`), that a failed
submission was one of a batch (`FailingHasBatch`), that a row the worker has in
hand is no dead letter (`HeldAlive`) and that batches are built of logged steps
(`BuiltBatches`). Its hypothesis is that the lock's connection does not die
alone (`~ LockMayDrop`). It is needed: with it dropped and `InitialBudget = 0`
TLC finds eleven states in which the next worker reaps a claim into the dead
letters, and the first, at the gas ceiling, requeues the row
(`HandleGasCeilingSkip` selects rows by batch and does not look at their status).

*Indexing.* `IndexerInv` says that a cursor's block is a finality below the
head, that a fork determines the chain below it, and that no reorganization
reaches behind a cursor by more than the rewind, as `ReorgDepth <= Rewind` and
the chain never gets shorter (`RewindCovers`); a poll's logs reach from behind
the cursor to its bound (`PollCovers`), are on the chain behind the gate
(`LogsOnChain`, `RowsOnChain`), and an alert is raised before its row is
committed (`Alerted`).

*Agents* (`AgentInv`). The agents row is written with what `getAgent` returned
at some moment at or after each event it has indexed (`ReadAfter`); on a chain
without forks, once all events are indexed, nothing happened since. The
uncommitted value of a poll is covered in the same way.

*Deliveries.* A delivery's mails are bounded by its retries plus the attempt
that may be under way; the invariant counts, per claim, what the holder may
still do to the row after it was reaped.

*Digests* (`DigestInv`). No clock of a digest is ahead (`ClocksBehind`); once
listed, a digest has every live alert of its window seen before its clock was
read, but for those written late (`DigestListsOwed`); and who was just mailed
was told all of them (`JustMailed`). The argument turns on `mark_digest_sent`
writing the time of the start and not of the mail.

*Watchdog* (`WatchdogInv`). The trigger has a record of every changed row and of
no other (`Recorded`). A batch's root is what is on chain unless it was altered,
and what its rows rebuild unless a leaf was changed or is gone (`Anchored`).
What a cycle carries of a batch is as good as what is stored, and what it is
about to raise is earned (`Sweeping`); what an alert tells of stays true,
whatever step follows (`Onward`, `EarnedStays`): changed rows stay changed and
what is old enough to be called stalled only ages. A failed verification was
raised, is about to be, or was lost with a cycle that was cut short (`Told`).

*Membership.* Besides the types it needs that a handler knows only users and
organizations its endpoint named and still owes every key it has not deleted
(`HandlersHold`), and that an open invitation not yet used up has given no
membership except through a signup not yet marked (`Uses`).

*Owners* (`OwnedInv`). An organization that nothing was written to over another
handler's head (`Firm`) has one owner and a live project (`Sole`). A handler
about to write has made sure that what it takes is not the last, and while its
view is current that is still so (`Sound`, with `Course` for the endpoint each
check belongs to).

*Sessions.* An endpoint's rows keep their owner and password (`WorkersHold`); a
rotation in progress has read a token of its family (`Begun`); tokens of one
family are of one user and one password (`Alike`); an unused token is the only
one of its family outside `doubled` (`UnusedOnce`). One lemma (`TokenStep`) says
what any step may do to a token.

*Failover.* `wasted` counts failed requests since an endpoint was last answered
or cooled; the invariant adds the threads in flight at it.

*Chain writers.* The pool holds the nonces from the next one of the chain up to
some `p`, none twice, and a task about to send has read a nonce of at most `p`
(`Queue`); a transaction in the pool or mined is its task's current write or an
earlier one (`Ours`); no write is mined twice, and what a task counts as done is
mined with success (`Once`); a revoked agent is not active (`Identities`).

*Scores* (`ScoresInv`). The agents a run has scored are as many as its
leaderboard has places, and each is on it (`Tallied`); the rows of `rm_scores`
are the first events, each once, whatever range a poll takes again; and of an
agent in a run that was not reset, the event with n of its own before it is the
entry n + 1 of its history (`Tells`). `LatestId` says what a new event does to
those ranks. `Served` puts them together: the rows of an agent in the order of
their ids are its history.

*Runs.* `BaseInv` has the types, and that a request has executed only what it is
past. `KeyInv`: with a key that is not excused one request at most is under way,
none once its response is stored, and one that has executed is still to store
its response or has done so. `LeftInv`: a shutdown that abandons runs finds
every live task pending or killed, and a task past its status has left a
terminal one unless its run is about to be failed. `EndInv`: the stream is
written before the status it calls for, so it says where in between the only
task of a run may be. `NumberInv`: a client's step is numbered below the rows of
its run, and a request that has counted them above all logged before, unless
another was logged since (`entangled`); the numbers of a pipeline grow along
`build_graph` (`NumbersApart`). The proof of `NoRunIsLeftBehind` corrected the
model: a crash while a run is being abandoned leaves it running, so `Crash` now
counts that task among the `lost`.

*verify-run* (`VerdictInv`). What is stored of a batch that was built stays what
the worker built, but for a falsified root, and an anchor id stands for a root on
chain (`StoredInv`). A batch the request has passed is `Vouched` for, as what it
loaded says, or called bad and `Accusable`; the one in hand is as it was loaded
(`AtInv`, `RequestInv`). What others write in between cannot take this away
(`RequestUntouched`, `OthersStep`): leaves of a built batch never change, a
deleted row stays deleted, a falsified root stays known as one. Each await of the
request keeps it (`VerifySteps`). The theorem has no bound on steps, batches or
edits, and no hypothesis but the constants'.

*Streams* (`StreamsInv`). What the bucket has granted and still holds is at most
what it held and regained, and a key outlives the time it takes to be full again
(`Budget`); a client of the feed has all ids up to the last it got but those
trimmed (`Following`); a reader's events are a prefix of the first stream of its
run (`Seen`, with `FirstStream` and `Holds`). Ids in order are intervals, by
lemmas about `IdOrder`.

*Only model-checked.* Liveness (`EveryStepSettles`, `DeliveriesSettle`,
`ProblemsSettle`, `OutageSettles`): fairness and ENABLED are outside what TLAPS
proves. The claims of `MerkleTree` and `StepHistory` are induction over data,
which it cannot do either: TLC evaluates them over bounded inputs. In
`Watchdog` and `AnchorPipeline` a root is therefore the value it hashes, and the
theorems rest on `RootIsOfOneBatch` to that extent.

## 5. Faulty variants

Some definitions are preceded by a faulty variant (`FailedEarly` before
`Failed`, `UngatedLatest` before `LatestBlock`): an off-by-one, a lost guard, a
swapped key, a wrong fork of a choice. No action uses them. Put in place of the
definition each makes TLC report the property paired with it in `mutants` of
`PROJECT.json`, which shows that the property depends on that code.

## 6. Plan

What is left, in order of importance:

1. Starvation of an organization's rows in the claim behind one that is at its
   ceiling (`anchor_worker/main.py:131`), of the deliveries behind one that
   keeps raising (`sender.py:187`), and of the indexer's later streams behind
   one whose handler does (`indexer/main.py:73`): hazards that are listed
   without a property.
2. Leads-to arguments for the liveness properties as far as safety carries them:
   that a step which is not settled always has an action that brings it nearer
   is a state predicate, and could be proved.
3. The V1 client of the API, which counts its nonces itself (`client.py:430-449`).

## 7. Not modelled, and why

- The chain under the anchor worker and under the chain writers neither
  reorganizes nor drops transactions: confirmations are taken from one receipt,
  and reorganizations are studied where the code handles them, in
  `ChainIndexer`. The worker and the chain writers share a key, but each has its
  own mempool in its module.
- Fee estimation, gas margins, wei and token arithmetic, the 64 bits of
  `gas_budget_wei` (`db/models.py:105`): numbers no property reads.
- The watchdog's advisory lock, which keeps a second process waiting, and its
  metrics; occurrence counts of alerts, and who of an organization is told of
  which severity. Mails to new members and for password resets keep no state.
- The login backoff of `rate_limit.py`, API keys, the read-only endpoints
  (leaderboard, spend, audit log, integrity status), error formats.
- Evidence manifests: a failed upload falls back to no evidence URI, and nothing
  reads it back.
- The memoized deployment lookup (`contracts_v2.py:84`), signers and KMS.
- SDKs, CLI, MCP servers and frontend: stateless clients. V1 contracts and
  `TrustChainRegistry`: retired, or written by a deployment script only.
- Email, LLM and RPC protocols: I/O, represented by what may come back.
