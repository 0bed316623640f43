------------------------------ MODULE Watchdog ------------------------------
(***************************************************************************)
(* The integrity watchdog (backend/integrity_watchdog/), the alerts it     *)
(* raises (db/alerts.py) and the endpoints that answer them (main.py).  One*)
(* process sweeps cycle after cycle: the recent steps and the newest       *)
(* batches, the liveness of anchoring, then a budget of all steps and all  *)
(* batches from a cursor that wraps around.  The same detectors run on     *)
(* demand are VerifyRun's.                                                 *)
(*                                                                         *)
(* An action is a query and the computation that follows it, or a          *)
(* transaction.  raise_alert looks for an open alert and then writes, so   *)
(* that the API may answer an alert in between; a batch is loaded before   *)
(* its steps are.                                                          *)
(*                                                                         *)
(* Abstractions.  A hash is the value it hashes, "old" or "new", so a root *)
(* is the sequence of its leaves.  Ages are counted in ticks, and a cycle  *)
(* is short next to one.                                                   *)
(* The advisory lock keeps a second watchdog waiting, and is not modelled. *)
(*                                                                         *)
(* Faulty variants stand before the definitions they are variants of; no   *)
(* action uses one, they confirm that the properties notice such a fault.  *)
(***************************************************************************)
EXTENDS Naturals, FiniteSets, Sequences, SequencesExt, FiniteSetsExt

CONSTANTS
  Orgs,           \* organizations
  StepCount,      \* steps are 1..StepCount, in the order of their insertion
  Logged,         \* how many of them the watchdog finds at its first start
  StepOrg,        \* step -> organization, through its run and project
  BatchCount,     \* batches are 1..BatchCount, in the order of their ids
  LeafOrders,     \* the sequences of steps a batch may be made of
  StepBudget,     \* settings.watchdog_rolling_steps_per_cycle
  BatchBudget,    \* settings.watchdog_rolling_batches_per_cycle
  StallAge,       \* watchdog_hot_window_seconds / 4
  HotAge,         \* watchdog_hot_window_seconds
  Editable,       \* bound: the steps whose rows are changed
  MaxAge,         \* bound: ages count up to it
  MaxDisturbances \* bound: changes of what is anchored, alerts answered,
                  \* steps given up, failed RPC calls, crashes, taken together

Steps   == 1..StepCount
Batches == 1..BatchCount

ASSUME WatchdogAssumption ==
  /\ StepCount \in Nat /\ Logged \in 0..StepCount
  /\ StepOrg \in [Steps -> Orgs]
  /\ BatchCount \in Nat /\ LeafOrders \subseteq Seq(Steps)
  /\ {StepBudget, BatchBudget, StallAge} \subseteq Nat \ {0}
  /\ {HotAge, MaxAge, MaxDisturbances} \subseteq Nat

VARIABLES
  rows,     \* steps: how each row compares with what was logged
  history,  \* steps_history: the steps its trigger has a record of
  outbox,   \* anchor_outbox: the status of each step
  ages,     \* ticks since each step was created
  batches,  \* anchor_batches: leaf_order, empty until it is confirmed, and merkle_root
  chain,    \* the root each batch was anchored with
  verified, \* batch_verifications.last_result
  alerts,   \* the alerts of each dedupe key
  cycle,    \* locals of run_cycle
  cursor,   \* watchdog_cursor of the two rolling tiers
  disturbances, \* events counted against MaxDisturbances
  past      \* histories

env == <<rows, history, outbox, ages, batches, chain>>
dog == <<verified, cycle, cursor>>
watchdogVars == <<env, dog, alerts, disturbances, past>>

(* (alert_type, organization, subject): what compute_dedupe_key hashes.    *)
Keys == {"row"} \X Orgs \X Steps
          \cup {"missing", "root", "onchain"} \X Orgs \X Batches
          \cup {"stalled", "dead"} \X Orgs \X {0}

(* past.changed: batches with a leaf changed since they were anchored;     *)
(* altered: those whose stored root was; lost: those whose failed          *)
(* verification was committed by a cycle that ended before its alerts were *)
(* raised.                                                                 *)

(* The alerts of a key: whether one is open, acknowledged, resolved; the   *)
(* severity of the last.                                                   *)
NoAlert == [open |-> FALSE, acked |-> FALSE, resolved |-> FALSE, severity |-> "critical"]
AtRest  == [stage |-> "idle", last |-> 0, todo |-> {}, check |-> <<>>, findings |-> {}, found |-> <<>>]

WatchdogInit ==
  /\ rows = [s \in Steps |-> IF s <= Logged THEN "intact" ELSE "none"] /\ history = {}
  /\ outbox = [s \in Steps |-> IF s <= Logged THEN "pending" ELSE "none"] /\ ages = [s \in Steps |-> 0]
  /\ batches = [b \in Batches |-> [leaves |-> <<>>, root |-> <<>>]]
  /\ chain = [b \in Batches |-> <<>>]
  /\ verified = [b \in Batches |-> "none"]
  /\ alerts = [k \in Keys |-> NoAlert]
  /\ cycle = AtRest /\ cursor = [steps |-> 0, batches |-> 0]
  /\ disturbances = 0
  /\ past = [changed |-> {}, altered |-> {}, lost |-> {}]

---------------------------------------------------------------------------
(* What is watched: the step log, the anchor worker, and whoever edits the *)
(* database by hand.                                                       *)

Stored     == {s \in Steps : rows[s] \in {"intact", "edited", "rewritten"}}
Inserted   == {s \in Steps : rows[s] # "none"}
Confirmed  == {b \in Batches : batches[b].leaves # <<>>}
LeavesOf(b) == Range(batches[b].leaves)

(* leaf_hash as stored, and as recompute_leaf derives it from the content. *)
LeafHash(s)      == IF rows[s] = "rewritten" THEN "new" ELSE "old"
RecomputeLeaf(s) == IF rows[s] = "intact" THEN "old" ELSE "new"

LogStep(s) ==
  /\ rows[s] = "none" /\ \A t \in 1..(s - 1) : rows[t] # "none"
  /\ rows' = [rows EXCEPT ![s] = "intact"]
  /\ outbox' = [outbox EXCEPT ![s] = "pending"]
  /\ UNCHANGED <<history, ages, batches, chain, dog, alerts, disturbances, past>>

HashesOf(leaves) == [i \in DOMAIN leaves |-> LeafHash(leaves[i])]

ConfirmBatch(b, leaves) ==
  /\ b \notin Confirmed /\ 1..(b - 1) \subseteq Confirmed
  /\ \A s \in Range(leaves) : s \in Stored /\ outbox[s] = "pending"
  /\ batches' = [batches EXCEPT ![b] = [leaves |-> leaves, root |-> HashesOf(leaves)]]
  /\ chain' = [chain EXCEPT ![b] = HashesOf(leaves)]
  /\ outbox' = [s \in Steps |-> IF s \in Range(leaves) THEN "confirmed" ELSE outbox[s]]
  /\ UNCHANGED <<rows, history, ages, dog, alerts, disturbances, past>>

DeadLetter(s) ==
  /\ outbox[s] = "pending" /\ disturbances < MaxDisturbances
  /\ disturbances' = disturbances + 1
  /\ outbox' = [outbox EXCEPT ![s] = "dead_letter"]
  /\ UNCHANGED <<rows, history, ages, batches, chain, dog, alerts, past>>

(* An edited row fails its own leaf hash, a rewritten one does not; the    *)
(* steps_audit_trigger keeps a record of each change and deletion.         *)
ChangeRow(s, form) ==
  /\ disturbances < MaxDisturbances
  /\ s \in Stored \cap Editable
  /\ form = "edited" => rows[s] = "intact"
  /\ form = "rewritten" => rows[s] # "rewritten"
  /\ rows' = [rows EXCEPT ![s] = form]
  /\ history' = history \cup {s}
  /\ past' = [past EXCEPT !.changed = @ \cup {b \in Confirmed : form = "rewritten" /\ s \in LeavesOf(b)}]
  /\ disturbances' = disturbances + 1
  /\ UNCHANGED <<outbox, ages, batches, chain, dog, alerts>>

(* merkle_root is made to agree with the steps as they are, or with others.*)
AlterRoot(b) ==
  /\ disturbances < MaxDisturbances
  /\ b \in Confirmed
  /\ \E root \in {HashesOf(batches[b].leaves), [i \in DOMAIN batches[b].leaves |-> "other"]}
                   \ {batches[b].root} :
       batches' = [batches EXCEPT ![b].root = root]
  /\ past' = [past EXCEPT !.altered = @ \cup {b}]
  /\ disturbances' = disturbances + 1
  /\ UNCHANGED <<rows, history, outbox, ages, chain, dog, alerts>>

Older(age) == IF age < MaxAge THEN age + 1 ELSE age
AgesGrow ==
  /\ cycle.stage = "idle"
  /\ ages' = [s \in Steps |-> IF s \in Inserted THEN Older(ages[s]) ELSE 0]
  /\ UNCHANGED <<rows, history, outbox, batches, chain, dog, alerts, disturbances, past>>

---------------------------------------------------------------------------
(* Raising an alert (db/alerts.py).                                        *)

Quiet == cycle.findings = {} /\ cycle.found = <<>>

(* raise_alert looks for an open alert with the dedupe key ...             *)
LookForOpen(f) ==
  /\ f \in cycle.findings /\ cycle.found = <<>>
  /\ cycle' = [cycle EXCEPT !.findings = @ \ {f},
                !.found = <<[key |-> f.key, severity |-> f.severity, open |-> alerts[f.key].open]>>]
  /\ UNCHANGED <<env, verified, alerts, cursor, disturbances, past>>

(* ... bumps the one it found, answered or not in the meantime, leaving its*)
(* status and its severity as they are (the count is left out) ...         *)
BumpAlert == alerts

(* ... or inserts one.                                                     *)
InsertAlert(k, severity) ==
  [alerts EXCEPT ![k].open = TRUE, ![k].severity = severity]

(* The batches whose verification was committed and is not raised yet.     *)
Unraised == {f.key[3] : f \in {g \in cycle.findings \cup Range(cycle.found) : g.key[1] = "onchain"}}

(* What ends run_cycle early: main logs it and starts over at the next poll*)
EndCycle ==
  /\ cycle' = AtRest
  /\ past' = [past EXCEPT !.lost = @ \cup Unraised]
  /\ UNCHANGED <<env, verified, cursor>>

WriteAlert ==
  /\ cycle.found # <<>>
  /\ LET f == Head(cycle.found) IN
     \/ /\ f.open \/ ~alerts[f.key].open
        /\ alerts' = IF f.open THEN BumpAlert ELSE InsertAlert(f.key, f.severity)
        /\ cycle' = [cycle EXCEPT !.found = <<>>]
        /\ UNCHANGED <<env, verified, cursor, past>>
     \/ /\ ~f.open /\ alerts[f.key].open  \* uq_alerts_open_dedupe: reopened since
        /\ EndCycle /\ UNCHANGED alerts
  /\ UNCHANGED disturbances

Answered == /\ disturbances < MaxDisturbances
            /\ disturbances' = disturbances + 1
            /\ UNCHANGED <<env, dog, past>>

AcknowledgeAlert(k) ==
  /\ Answered /\ alerts[k].open
  /\ alerts' = [alerts EXCEPT ![k].open = FALSE, ![k].acked = TRUE]

ResolveAlert(k) ==
  /\ Answered
  /\ \/ /\ alerts[k].open
        /\ alerts' = [alerts EXCEPT ![k].open = FALSE, ![k].resolved = TRUE]
     \/ /\ alerts[k].acked
        /\ alerts' = [alerts EXCEPT ![k].acked = FALSE, ![k].resolved = TRUE]

(* Of a key with an open alert, the unique index refuses to reopen another.*)
ReopenAlert(k) ==
  /\ Answered /\ alerts[k].resolved /\ ~alerts[k].open
  /\ alerts' = [alerts EXCEPT ![k].open = TRUE, ![k].resolved = FALSE]

---------------------------------------------------------------------------
(* The detectors and the sweeps (integrity_watchdog/).                     *)

(* group_steps_by_org: through the step's run, or through its history when *)
(* the row is gone.                                                        *)
GroupByOrg(ids) == {StepOrg[s] : s \in ids \cap (Stored \cup history)}

Finding(type, org, subject, severity) == [key |-> <<type, org, subject>>, severity |-> severity]

(* check_steps and _raise_step_row_alerts.                                 *)
CheckSteps(ids) == {s \in ids \cap Stored : RecomputeLeaf(s) # LeafHash(s)}
StepRowFindings(ids) == {Finding("row", StepOrg[s], s, "critical") : s \in CheckSteps(ids)}

(* _raise_batch_alerts: an alert for every organization in the batch.      *)
BatchFindings(type, b) == {Finding(type, o, b, "critical") : o \in GroupByOrg(LeavesOf(b))}

(* rebuild_root over the steps present, in the order of the leaves.        *)
(* Variant: in the order the query returned them.                          *)
Missing(b) == LeavesOf(b) \ Stored
RebuiltById(b) == HashesOf(SetToSortSeq(LeavesOf(b), <))
RebuildRoot(b) == HashesOf(batches[b].leaves)

(* A batch as a sweep loaded it.                                           *)
Loaded(b) == [id |-> b, root |-> batches[b].root]

(* The hot tier's rows and batches.                                        *)
HotSteps == {s \in Stored : ages[s] <= HotAge}
HotBatches == {b \in Confirmed : Cardinality({c \in Confirmed : c > b}) < BatchBudget}

SweepHotSteps ==
  /\ cycle.stage = "idle"
  /\ cycle' = [AtRest EXCEPT !.stage = "hotSteps", !.findings = StepRowFindings(HotSteps)]
  /\ UNCHANGED <<env, verified, alerts, cursor, disturbances, past>>

LoadHotBatches ==
  /\ cycle.stage = "hotSteps" /\ Quiet
  /\ cycle' = [cycle EXCEPT !.stage = "hotBatches", !.todo = {Loaded(b) : b \in HotBatches}]
  /\ UNCHANGED <<env, verified, alerts, cursor, disturbances, past>>

(* sweep_merkle_roots, one batch: the rebuild ...                          *)
Rebuilt(batch) ==
  IF Missing(batch.id) # {} THEN BatchFindings("missing", batch.id)
  ELSE IF RebuildRoot(batch.id) # batch.root THEN BatchFindings("root", batch.id) ELSE {}

(* The hot tier begins with the newest, the rolling one with the oldest.   *)
IsNext(batch) ==
  \A other \in cycle.todo :
    IF cycle.stage = "hotBatches" THEN other.id <= batch.id ELSE batch.id <= other.id

SweepBatch ==
  /\ cycle.stage \in {"hotBatches", "rollBatches"} /\ Quiet
  /\ cycle.check = <<>>
  /\ \E batch \in cycle.todo :
       /\ IsNext(batch)
       /\ cycle' = [cycle EXCEPT !.todo = @ \ {batch}, !.findings = Rebuilt(batch),
                                 !.check = IF Missing(batch.id) = {} THEN <<batch>> ELSE <<>>]
  /\ UNCHANGED <<env, verified, alerts, cursor, disturbances, past>>

(* ... and then the root on chain, unless a result is cached.  The result  *)
(* is committed before its alerts are raised.  Variant: it is only cached. *)
CacheOnly(batch) == {}
OnchainFindings(batch) ==
  IF chain[batch.id] = batch.root THEN {} ELSE BatchFindings("onchain", batch.id)

CheckOnchainRoot ==
  /\ cycle.check # <<>> /\ Quiet
  /\ LET batch == Head(cycle.check) IN
     IF verified[batch.id] # "none"
     THEN cycle' = [cycle EXCEPT !.check = <<>>] /\ UNCHANGED verified
     ELSE /\ verified' = [verified EXCEPT ![batch.id] = IF chain[batch.id] = batch.root THEN "ok" ELSE "mismatch"]
          /\ cycle' = [cycle EXCEPT !.check = <<>>, !.findings = OnchainFindings(batch)]
  /\ UNCHANGED <<env, alerts, cursor, disturbances, past>>

OnchainCheckFails ==
  /\ cycle.check # <<>> /\ Quiet /\ verified[Head(cycle.check).id] = "none"
  /\ disturbances < MaxDisturbances
  /\ disturbances' = disturbances + 1
  /\ cycle' = [cycle EXCEPT !.check = <<>>]
  /\ UNCHANGED <<env, verified, alerts, cursor, past>>

(* sweep_liveness: only the oldest step still waiting is looked at, and    *)
(* only its organization told.                                             *)
Waiting == {s \in Steps : outbox[s] = "pending"}
StalledFindings ==
  IF Waiting = {} \/ ages[Min(Waiting)] < StallAge THEN {}
  ELSE {Finding("stalled", o, 0, IF ages[Min(Waiting)] >= 2 * StallAge THEN "critical" ELSE "warning") :
          o \in GroupByOrg({Min(Waiting)})}
DeadFindings == {Finding("dead", o, 0, "critical") : o \in GroupByOrg({s \in Steps : outbox[s] = "dead_letter"})}

BatchesSwept(stage) == cycle.stage = stage /\ Quiet /\ cycle.check = <<>> /\ cycle.todo = {}

SweepLiveness ==
  /\ BatchesSwept("hotBatches")
  /\ cycle' = [cycle EXCEPT !.stage = "liveness", !.findings = StalledFindings \cup DeadFindings]
  /\ UNCHANGED <<env, verified, alerts, cursor, disturbances, past>>

(* The first n of ids above a cursor.                                      *)
NextIds(ids, after, n) == LET above == {i \in ids : i > after}
                          IN  {i \in above : Cardinality({j \in above : j < i}) < n}

(* The cursor's next value: it wraps once a cycle finds nothing above it.  *)
(* The variant stays at the end.                                           *)
NeverWraps(ids, last) == IF ids = {} THEN last ELSE Max(ids)
Advanced(ids, last) == IF ids = {} THEN 0 ELSE Max(ids)

SweepRollingSteps ==
  /\ cycle.stage = "liveness" /\ Quiet
  /\ LET ids == NextIds(Stored, cursor.steps, StepBudget) IN
     cycle' = [cycle EXCEPT !.stage = "rollSteps", !.findings = StepRowFindings(ids),
                            !.last = Advanced(ids, cursor.steps)]
  /\ UNCHANGED <<env, verified, alerts, cursor, disturbances, past>>

(* The step cursor is advanced, and the batches above theirs loaded.       *)
AdvanceStepCursor ==
  /\ cycle.stage = "rollSteps" /\ Quiet
  /\ cursor' = [cursor EXCEPT !.steps = cycle.last]
  /\ LET ids == NextIds(Confirmed, cursor.batches, BatchBudget) IN
     cycle' = [cycle EXCEPT !.stage = "rollBatches", !.todo = {Loaded(b) : b \in ids},
                            !.last = Advanced(ids, cursor.batches)]
  /\ UNCHANGED <<env, verified, alerts, disturbances, past>>

AdvanceBatchCursor ==
  /\ BatchesSwept("rollBatches")
  /\ cursor' = [cursor EXCEPT !.batches = cycle.last]
  /\ cycle' = AtRest
  /\ UNCHANGED <<env, verified, alerts, disturbances, past>>

(* The process dies, or a query fails.                                     *)
WatchdogStops ==
  /\ cycle.stage # "idle" /\ disturbances < MaxDisturbances
  /\ disturbances' = disturbances + 1
  /\ EndCycle /\ UNCHANGED alerts

---------------------------------------------------------------------------

Raise == (\E f \in cycle.findings : LookForOpen(f)) \/ WriteAlert
Sweep == \/ SweepHotSteps \/ LoadHotBatches \/ SweepBatch \/ CheckOnchainRoot
         \/ SweepLiveness \/ SweepRollingSteps \/ AdvanceStepCursor \/ AdvanceBatchCursor
Run == Raise \/ Sweep

WatchdogNext ==
  \/ \E s \in Steps : LogStep(s) \/ DeadLetter(s) \/ (\E form \in {"edited", "rewritten", "deleted"} : ChangeRow(s, form))
  \/ \E b \in Batches : AlterRoot(b) \/ (\E leaves \in LeafOrders : ConfirmBatch(b, leaves))
  \/ AgesGrow
  \/ Run \/ OnchainCheckFails \/ WatchdogStops
  \/ \E k \in Keys : AcknowledgeAlert(k) \/ ResolveAlert(k) \/ ReopenAlert(k)

WatchdogSpec == WatchdogInit /\ [][WatchdogNext]_watchdogVars

(* main loops for ever: an iteration that raised is followed by the next.  *)
WatchdogFairSpec == WatchdogSpec /\ WF_watchdogVars(Run)

---------------------------------------------------------------------------
Raised(k) == alerts[k].open \/ alerts[k].acked \/ alerts[k].resolved

(* What an alert tells of has happened.                                    *)
Earned(k) ==
  CASE k[1] = "row"     -> StepOrg[k[3]] = k[2] /\ k[3] \in history
    [] k[1] = "missing" -> \E s \in LeavesOf(k[3]) : StepOrg[s] = k[2] /\ Missing(k[3]) # {}
    [] k[1] = "root"    -> \E s \in LeavesOf(k[3]) : StepOrg[s] = k[2]
                             /\ k[3] \in past.changed \cup past.altered
    [] k[1] = "onchain" -> (\E s \in LeavesOf(k[3]) : StepOrg[s] = k[2]) /\ k[3] \in past.altered
    [] k[1] = "stalled" -> \E s \in Inserted : StepOrg[s] = k[2] /\ ages[s] >= StallAge
    [] k[1] = "dead"    -> \E s \in Steps : StepOrg[s] = k[2] /\ outbox[s] = "dead_letter"

(* No alert accuses what was left alone, and none goes to an organization  *)
(* with no step in its subject: not even with sweeps under way while       *)
(* batches are confirmed and steps deleted.                                *)
AlertsAreEarned == \A k \in {x \in Keys : Raised(x)} : Earned(k)

(* A verification that failed has been raised with everyone in the batch,  *)
(* or the cycle is about to, or that cycle was cut short between its commit*)
(* and its alerts: the cached result then keeps it silent for good.        *)
MismatchIsAlerted ==
  \A b \in Batches : verified[b] = "mismatch" =>
    b \in past.lost \cup Unraised \/ \A s \in LeavesOf(b) : Raised(<<"onchain", StepOrg[s], b>>)

(* What a key is about is the case in the database.                        *)
Problem(k) ==
  CASE k[1] = "row"     -> StepOrg[k[3]] = k[2] /\ rows[k[3]] = "edited"
    [] k[1] = "missing" -> k[3] \in Confirmed /\ Missing(k[3]) # {} /\ k[2] \in GroupByOrg(LeavesOf(k[3]))
    [] k[1] = "root"    -> k[3] \in Confirmed /\ Missing(k[3]) = {} /\ k[2] \in GroupByOrg(LeavesOf(k[3]))
                             /\ RebuildRoot(k[3]) # batches[k[3]].root
    [] k[1] = "onchain" -> k[3] \in Confirmed /\ Missing(k[3]) = {} /\ k[2] \in GroupByOrg(LeavesOf(k[3]))
                             /\ chain[k[3]] # batches[k[3]].root /\ verified[k[3]] # "ok" /\ k[3] \notin past.lost
    [] k[1] = "dead"    -> k[2] \in GroupByOrg({s \in Steps : outbox[s] = "dead_letter"})
    [] OTHER            -> FALSE

(* Whatever is wrong with a step or a batch, recent or long out of the hot *)
(* window, is raised in the end: again and again there is nothing wrong    *)
(* that no alert tells of.  Not a stored root changed after its            *)
(* verification was cached.                                                *)
ProblemsSettle == []<>(\A k \in Keys : Problem(k) => Raised(k))
===========================================================================
