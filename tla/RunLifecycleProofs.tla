------------------------- MODULE RunLifecycleProofs -------------------------
(***************************************************************************)
(* Theorems of RunLifecycle: any number of runs, requests and idempotency  *)
(* keys, any quota and budget, and however often the process is stopped,   *)
(* dies or sees a call fail; and of VerifyRun: any number of steps and     *)
(* batches, and any bound on the edits.                                    *)
(***************************************************************************)
EXTENDS RunLifecycle, VerifyRun, TLAPS, FiniteSetTheorems, SequenceTheorems

---------------------------------------------------------------------------
(* What the locals of a request and of a task look like at each point.     *)

RequestPcs == {"lookup", "quota", "budget", "create", "own", "index", "log", "store",
               "answered", "died"}
TaskPcs    == {"graph", "publish", "status", "spend", "handler", "fail", "terminal",
               "done", "dead"}
Outcomes   == {"complete", "error"}

RequestState == [pc : RequestPcs, kind : {"run", "steps"}, key : Keys \cup {Absent},
                 asked : Chosen \cup {Absent}, index : Nat]
TaskState    == [pc : TaskPcs, at : Nat, event : {"none"} \cup Outcomes, run : Runs]

(* The step a client logged, and the one a pipeline did.                   *)
ExternalRow(r, i, q)    == [run |-> r, index |-> i, by |-> q, at |-> 0, step |-> 0]
PipelineRow(r, n, i, q) == [run |-> r, index |-> StepIndex(n, i), by |-> q, at |-> n, step |-> i]

StepRows == {ExternalRow(r, i, q) : r \in Runs, i \in Nat, q \in Requests}
            \cup {PipelineRow(r, p[1], p[2], q) : r \in Runs, p \in NodeSteps, q \in Requests}

Past == {"store", "answered", "died"}

(* A request to log a step names its run, and a request has executed only  *)
(* what it is past.                                                        *)
RequestsInOrder ==
  \A q \in Requests :
    /\ request[q].pc \in {"own", "index", "log"} => request[q].kind = "steps"
    /\ request[q].pc \in {"lookup", "own", "index", "log"} /\ request[q].kind = "steps" =>
         request[q].asked \in Runs
    /\ request[q].pc = "store" => request[q].key # Absent
    /\ Executed(q) => request[q].pc \in Past

RunsTypeOK ==
  /\ runs \in [Runs -> {"none", "running"} \cup Outcomes]
  /\ steps \in SUBSET StepRows /\ IsFiniteSet(steps)
  /\ keys \in SUBSET Keys
  /\ stream \in [Runs -> Seq(Outcomes \cup {"none", "end"})]
  /\ request \in [Requests -> {Idle} \cup RequestState]
  /\ task \in [Requests -> {Idle} \cup TaskState]
  /\ process \in {"up", "draining", "abandoning", "down"}
  /\ pending \subseteq Requests /\ failing \subseteq Requests

BaseInv == RunsTypeOK /\ RequestsInOrder

(* A request or a task that is not idle has all its locals.                *)
LEMMA RequestKnown ==
  ASSUME RunsTypeOK, NEW q \in Requests, request[q].pc # "idle"
  PROVE  request[q] \in RequestState
  BY DEF RunsTypeOK, Idle

LEMMA TaskKnown ==
  ASSUME RunsTypeOK, NEW q \in Requests, task[q].pc # "idle"
  PROVE  task[q] \in TaskState
  BY DEF RunsTypeOK, Idle

LEMMA IdleOrNot ==
  ASSUME RunsTypeOK, NEW q \in Requests
  PROVE  /\ task[q].pc = "idle" <=> task[q] = Idle
         /\ request[q].pc = "idle" <=> request[q] = Idle
         /\ Idle.pc = "idle"
<1>1. Idle.pc = "idle"
  BY DEF Idle
<1>2. \A me \in TaskState : me.pc # "idle"
  BY DEF TaskState, TaskPcs
<1>3. \A me \in RequestState : me.pc # "idle"
  BY DEF RequestState, RequestPcs
<1>4. task[q] \in {Idle} \cup TaskState /\ request[q] \in {Idle} \cup RequestState
  BY DEF RunsTypeOK
<1> QED
  BY <1>1, <1>2, <1>3, <1>4

(* The graph has four nodes of at most three steps.                        *)
LEMMA GraphShape ==
  Len(build_graph) = 4 /\ \A n \in 1..4 : Len(build_graph[n]) \in 1..3
<1>1. Len(build_graph) = 4
  BY DEF build_graph
<1>2. /\ build_graph[1] = <<0, 0, 0>> /\ build_graph[2] = <<0, 0, 0>>
      /\ build_graph[3] = <<0, 4>> /\ build_graph[4] = <<0, 0>>
  BY DEF build_graph, researcher_node, validator_node, scorer_node, reporter_node
<1>3. Len(<<0, 0, 0>>) = 3 /\ Len(<<0, 4>>) = 2 /\ Len(<<0, 0>>) = 2
  OBVIOUS
<1>4. \A n \in 1..4 : n = 1 \/ n = 2 \/ n = 3 \/ n = 4
  OBVIOUS
<1> QED
  BY <1>1, <1>2, <1>3, <1>4

LEMMA NodesTyped ==
  \A n \in 1..4 : build_graph[n] \in Seq(Nat) /\ \A i \in 1 .. Len(build_graph[n]) : build_graph[n][i] \in 0..4
<1>1. /\ build_graph[1] = <<0, 0, 0>> /\ build_graph[2] = <<0, 0, 0>>
      /\ build_graph[3] = <<0, 4>> /\ build_graph[4] = <<0, 0>>
  BY DEF build_graph, researcher_node, validator_node, scorer_node, reporter_node
<1>2. <<0, 0, 0>> \in Seq(Nat) /\ \A i \in 1 .. Len(<<0, 0, 0>>) : <<0, 0, 0>>[i] \in 0..4
  OBVIOUS
<1>3. <<0, 4>> \in Seq(Nat) /\ \A i \in 1 .. Len(<<0, 4>>) : <<0, 4>>[i] \in 0..4
  OBVIOUS
<1>4. <<0, 0>> \in Seq(Nat) /\ \A i \in 1 .. Len(<<0, 0>>) : <<0, 0>>[i] \in 0..4
  OBVIOUS
<1>5. \A n \in 1..4 : n = 1 \/ n = 2 \/ n = 3 \/ n = 4
  OBVIOUS
<1> QED
  BY <1>1, <1>2, <1>3, <1>4, <1>5

(* Where an exception goes.                                                *)
LEMMA CaughtTypes ==
  /\ DOMAIN Caught = {"graph", "publish", "status", "spend", "handler", "fail", "terminal"}
  /\ \A pc \in DOMAIN Caught : Caught[pc] \in {"handler", "terminal", "done"}
  BY DEF Caught

(* The steps of the graph are those of its nodes.                          *)
LEMMA NodeStepsOf ==
  /\ \A n \in 1..4 : \A i \in 1 .. Len(build_graph[n]) : <<n, i>> \in NodeSteps
  /\ \A p \in NodeSteps : /\ p = <<p[1], p[2]>> /\ p[1] \in 1..4 /\ p[2] \in 1..3
                          /\ build_graph[p[1]][p[2]] \in 0..4
<1>1. DOMAIN build_graph = 1..4
  BY GraphShape DEF build_graph
<1>2. \A n \in 1..4 : DOMAIN build_graph[n] = 1 .. Len(build_graph[n])
  <2> SUFFICES ASSUME NEW n \in 1..4 PROVE DOMAIN build_graph[n] = 1 .. Len(build_graph[n])
    OBVIOUS
  <2>1. build_graph[n] \in Seq(Nat)
    BY NodesTyped
  <2> QED
    BY <2>1
<1>3. ASSUME NEW n \in 1..4, NEW i \in 1 .. Len(build_graph[n]) PROVE <<n, i>> \in NodeSteps
  BY <1>1, <1>2 DEF NodeSteps
<1>4. ASSUME NEW p \in NodeSteps
      PROVE  /\ p = <<p[1], p[2]>> /\ p[1] \in 1..4 /\ p[2] \in 1..3
             /\ build_graph[p[1]][p[2]] \in 0..4
  <2>1. PICK n \in 1..4 : p \in {n} \X (1 .. Len(build_graph[n]))
    BY <1>1, <1>2 DEF NodeSteps
  <2>2. p = <<p[1], p[2]>> /\ p[1] = n /\ p[2] \in 1 .. Len(build_graph[n])
    BY <2>1
  <2>3. build_graph[n][p[2]] \in 0..4
    BY <2>2, NodesTyped
  <2>4. p[2] \in 1..3
    <3> DEFINE size == Len(build_graph[n])
    <3>1. size \in 1..3 /\ p[2] \in 1..size
      BY <2>2, GraphShape
    <3> HIDE DEF size
    <3> QED
      BY <3>1
  <2> QED
    BY <2>2, <2>3, <2>4
<1> QED
  BY <1>3, <1>4

(* The rows LogSteps adds are rows of the pipeline.                        *)
LEMMA LogStepsTypes ==
  ASSUME NEW q \in Requests, NEW n \in 1..4, NEW count \in 0 .. Len(build_graph[n]),
         task[q].run \in Runs, steps \subseteq StepRows, LogSteps(q, n, count)
  PROVE  /\ steps' \subseteq StepRows
         /\ steps \subseteq steps'
         /\ \A s \in steps' \ steps : \E p \in NodeSteps : s = PipelineRow(task[q].run, p[1], p[2], q)
         /\ IsFiniteSet(steps) => IsFiniteSet(steps')
<1>1. \A s \in steps' \ steps : \E p \in NodeSteps : s = PipelineRow(task[q].run, p[1], p[2], q)
  <2> SUFFICES ASSUME NEW s \in steps' \ steps
               PROVE  \E p \in NodeSteps : s = PipelineRow(task[q].run, p[1], p[2], q)
    OBVIOUS
  <2>1. PICK i \in 1..count : s = PipelineRow(task[q].run, n, i, q)
    BY DEF LogSteps, PipelineRow
  <2>2. <<n, i>> \in NodeSteps
    <3> DEFINE size == Len(build_graph[n])
    <3>1. size \in 1..3 /\ count \in 0..size
      BY GraphShape
    <3> HIDE DEF size
    <3>2. i \in 1..size
      BY <3>1
    <3> QED
      BY <3>2, NodeStepsOf DEF size
  <2> QED
    BY <2>1, <2>2
<1>2. steps \subseteq steps'
  BY DEF LogSteps
<1>3. \A p \in NodeSteps : PipelineRow(task[q].run, p[1], p[2], q) \in StepRows
  BY DEF StepRows
<1>4. IsFiniteSet(steps) => IsFiniteSet(steps')
  <2> DEFINE f   == [i \in 1..count |-> PipelineRow(task[q].run, n, i, q)]
             new == {PipelineRow(task[q].run, n, i, q) : i \in 1..count}
  <2>1. f \in Surjection(1..count, new)
    BY DEF Surjection
  <2>2. count \in Int
    <3>1. Len(build_graph[n]) \in Int
      BY GraphShape
    <3> QED
      BY <3>1
  <2>3. IsFiniteSet(new)
    BY <2>1, <2>2, FS_Interval, FS_Surjection
  <2>4. steps' = steps \cup new
    BY DEF LogSteps, PipelineRow
  <2> QED
    BY <2>3, <2>4, FS_Union
<1> QED
  BY <1>1, <1>2, <1>3, <1>4

(* Nothing is executed by a step that starts no task and logs no external  *)
(* step.                                                                   *)
LEMMA ExecutedSame ==
  ASSUME \A p \in Requests : task'[p] = Idle <=> task[p] = Idle,
         steps \subseteq steps', \A s \in steps' \ steps : s.at # 0
  PROVE  \A p \in Requests : Executed(p)' = Executed(p)
<1> SUFFICES ASSUME NEW p \in Requests PROVE Executed(p)' <=> Executed(p)
  BY DEF Executed
<1>1. (\E s \in steps' : s.by = p /\ s.at = 0) <=> (\E s \in steps : s.by = p /\ s.at = 0)
  OBVIOUS
<1> QED
  BY <1>1 DEF Executed

(* The handler of one request goes on.                                     *)
LEMMA BaseRequestMoves ==
  ASSUME BaseInv, NEW q \in Requests, NEW me \in RequestState,
         request' = [request EXCEPT ![q] = me],
         \A p \in Requests : Executed(p)' => Executed(p) \/ p = q,
         me.pc \in {"own", "index", "log"} => me.kind = "steps",
         me.pc \in {"lookup", "own", "index", "log"} /\ me.kind = "steps" => me.asked \in Runs,
         me.pc = "store" => me.key # Absent,
         Executed(q)' => me.pc \in Past
  PROVE  request' \in [Requests -> {Idle} \cup RequestState] /\ RequestsInOrder'
<1>1. request'[q] = me /\ \A p \in Requests \ {q} : request'[p] = request[p]
  BY DEF BaseInv, RunsTypeOK
<1>2. request' \in [Requests -> {Idle} \cup RequestState]
  BY DEF BaseInv, RunsTypeOK
<1>3. RequestsInOrder'
  <2> SUFFICES ASSUME NEW p \in Requests
               PROVE  /\ request'[p].pc \in {"own", "index", "log"} => request'[p].kind = "steps"
                      /\ request'[p].pc \in {"lookup", "own", "index", "log"}
                           /\ request'[p].kind = "steps" => request'[p].asked \in Runs
                      /\ request'[p].pc = "store" => request'[p].key # Absent
                      /\ Executed(p)' => request'[p].pc \in Past
    BY DEF RequestsInOrder
  <2>1. CASE p = q
    BY <1>1, <2>1
  <2>2. CASE p # q
    BY <1>1, <2>2 DEF BaseInv, RequestsInOrder
  <2> QED
    BY <2>1, <2>2
<1> QED
  BY <1>2, <1>3

(* A step of anyone else.                                                  *)
LEMMA BaseOthersMove ==
  ASSUME BaseInv, UNCHANGED request, \A p \in Requests : Executed(p)' = Executed(p)
  PROVE  RequestsInOrder'
  BY DEF BaseInv, RequestsInOrder

(* A task goes on: at another point, or at another node.                   *)
LEMMA TaskMoves ==
  ASSUME RunsTypeOK, NEW q \in Requests, task[q].pc # "idle", NEW me \in TaskState,
         task' = [task EXCEPT ![q] = me]
  PROVE  /\ task' \in [Requests -> {Idle} \cup TaskState]
         /\ \A p \in Requests : task'[p] = Idle <=> task[p] = Idle
<1>1. task'[q] = me /\ \A p \in Requests \ {q} : task'[p] = task[p]
  BY DEF RunsTypeOK
<1>2. me # Idle /\ task[q] # Idle
  BY DEF Idle, TaskState, TaskPcs
<1> QED
  BY <1>1, <1>2 DEF RunsTypeOK

(* Announce, as one update of the task.                                    *)
LEMMA Announced ==
  ASSUME RunsTypeOK, NEW q \in Requests, task[q] \in TaskState, NEW event, Announce(q, event)
  PROVE  task' = [task EXCEPT ![q] = [task[q] EXCEPT !.pc = "publish", !.at = 0, !.event = event]]
<1> DEFINE one   == [task EXCEPT ![q].pc = "publish"]
           two   == [one EXCEPT ![q].at = 0]
           three == [two EXCEPT ![q].event = event]
<1>1. task' = three
  BY DEF Announce
<1>2. q \in DOMAIN task /\ DOMAIN task = Requests
  BY DEF RunsTypeOK
<1>3. one = [task EXCEPT ![q] = [task[q] EXCEPT !.pc = "publish"]]
  OBVIOUS
<1>4. two = [task EXCEPT ![q] = [task[q] EXCEPT !.pc = "publish", !.at = 0]]
  BY <1>2, <1>3
<1>5. three = [task EXCEPT ![q] = [task[q] EXCEPT !.pc = "publish", !.at = 0, !.event = event]]
  BY <1>2, <1>4
<1> QED
  BY <1>1, <1>5

LEMMA BaseInit == InitRuns => BaseInv
<1> SUFFICES ASSUME InitRuns PROVE BaseInv
  OBVIOUS
<1>1. RunsTypeOK
  BY FS_EmptySet DEF InitRuns, RunsTypeOK
<1>2. RequestsInOrder
  BY DEF InitRuns, RequestsInOrder, Executed, Idle
<1> QED
  BY <1>1, <1>2 DEF BaseInv

(* Where each step of a task takes it.                                     *)
TaskGoes(q, me) ==
  \/ RunNode(q) /\ me.pc = "graph"
  \/ (NodeRaises(q) \/ GraphEnds(q)) /\ me.pc = "publish" /\ me.event \in Outcomes
  \/ PublishOutcome(q) /\ me.pc = "status" /\ me.event = task[q].event
  \/ SetRunStatus(q) /\ me.pc = IF task[q].event = "complete" THEN "spend" ELSE "terminal"
  \/ (RecordTokenSpend(q) \/ FailRun(q)) /\ me.pc = "terminal"
  \/ PublishError(q) /\ me.pc = "fail"
  \/ PublishTerminal(q) /\ me.pc = "done"
  \/ TaskCallFails(q) /\ me.pc \in {"handler", "terminal", "done"}
     /\ (task[q].pc = "terminal" => me.pc = "done")

(* What each step of a task does to it, for the rest of the proofs.        *)
LEMMA TaskStepTask ==
  ASSUME RunsTypeOK, NEW q \in Requests, TaskStep(q) \/ TaskCallFails(q)
  PROVE  /\ task[q].pc \notin {"idle", "done", "dead"}
         /\ task[q] \in TaskState /\ task[q].run \in Runs
         /\ \E me \in TaskState :
              task' = [task EXCEPT ![q] = me] /\ me.run = task[q].run /\ TaskGoes(q, me)
         /\ UNCHANGED <<request, keys, process, pending, failing, killed, lost, excused, entangled>>
<1>1. /\ task[q].pc \notin {"idle", "done", "dead"}
      /\ UNCHANGED <<request, keys, process, pending, failing, killed, lost, excused, entangled>>
  BY CaughtTypes
  DEF TaskStep, RunNode, NodeRaises, GraphEnds, PublishOutcome, SetRunStatus, RecordTokenSpend,
      PublishError, FailRun, PublishTerminal, TaskCallFails, tables, serving, histories
<1>2. task[q] \in TaskState
  BY <1>1, TaskKnown
<1>3. task[q].run \in Runs
  BY <1>2 DEF TaskState
<1>4. \E me \in TaskState :
        task' = [task EXCEPT ![q] = me] /\ me.run = task[q].run /\ TaskGoes(q, me)
  <2>1. CASE RunNode(q)
    <3> DEFINE me == [task[q] EXCEPT !.at = @ + 1]
    <3>1. task' = [task EXCEPT ![q] = me]
      BY <1>2, <2>1 DEF RunNode, TaskState
    <3>2. me \in TaskState /\ me.run = task[q].run /\ me.pc = "graph"
      BY <1>2, <2>1 DEF TaskState, RunNode
    <3> HIDE DEF me
    <3> QED
      BY <2>1, <3>1, <3>2 DEF TaskGoes
  <2>2. CASE NodeRaises(q) \/ GraphEnds(q)
    <3>1. PICK event \in Outcomes : Announce(q, event)
      BY <2>2 DEF NodeRaises, GraphEnds, Outcomes
    <3> DEFINE me == [task[q] EXCEPT !.pc = "publish", !.at = 0, !.event = event]
    <3>2. task' = [task EXCEPT ![q] = me]
      BY <1>2, <3>1, Announced
    <3>3. me \in TaskState /\ me.run = task[q].run /\ me.pc = "publish" /\ me.event = event
      BY <1>2 DEF TaskState, TaskPcs
    <3> HIDE DEF me
    <3> QED
      BY <2>2, <3>2, <3>3 DEF TaskGoes
  <2>3. ASSUME NEW pc \in TaskPcs, Resume(q, pc),
               \A me \in TaskState : me.pc = pc /\ me.event = task[q].event => TaskGoes(q, me)
        PROVE  \E me \in TaskState :
                 task' = [task EXCEPT ![q] = me] /\ me.run = task[q].run /\ TaskGoes(q, me)
    <3> DEFINE me == [task[q] EXCEPT !.pc = pc]
    <3>1. task' = [task EXCEPT ![q] = me]
      BY <2>3 DEF Resume
    <3>2. me \in TaskState /\ me.run = task[q].run /\ me.pc = pc /\ me.event = task[q].event
      BY <1>2 DEF TaskState
    <3> HIDE DEF me
    <3> QED
      BY <2>3, <3>1, <3>2
  <2>4. CASE PublishOutcome(q)
    BY <2>3, <2>4 DEF PublishOutcome, AfterOutcome, TaskGoes, TaskPcs
  <2>5. CASE SetRunStatus(q)
    <3> DEFINE pc == IF task[q].event = "complete" THEN "spend" ELSE "terminal"
    <3>1. Resume(q, pc) /\ pc \in TaskPcs
      BY <2>5 DEF SetRunStatus, TaskPcs
    <3>2. \A me \in TaskState : me.pc = pc => TaskGoes(q, me)
      BY <2>5 DEF TaskGoes
    <3> HIDE DEF pc
    <3> QED
      BY <2>3, <3>1, <3>2
  <2>6. CASE RecordTokenSpend(q) \/ FailRun(q)
    BY <2>3, <2>6 DEF RecordTokenSpend, FailRun, TaskGoes, TaskPcs
  <2>7. CASE PublishError(q)
    BY <2>3, <2>7 DEF PublishError, TaskGoes, TaskPcs
  <2>8. CASE PublishTerminal(q)
    BY <2>3, <2>8 DEF PublishTerminal, TaskGoes, TaskPcs
  <2>9. CASE TaskCallFails(q)
    <3> DEFINE pc == Caught[task[q].pc]
               me == [task[q] EXCEPT !.pc = pc, !.at = 0]
    <3>1. task' = [task EXCEPT ![q] = me]
      BY <1>2, <2>9 DEF TaskCallFails
    <3>2. pc \in {"handler", "terminal", "done"} /\ (task[q].pc = "terminal" => pc = "done")
      BY <2>9, CaughtTypes DEF TaskCallFails, Caught
    <3> HIDE DEF pc
    <3>3. me \in TaskState /\ me.run = task[q].run /\ me.pc = pc
      BY <1>2, <3>2 DEF TaskState, TaskPcs
    <3> HIDE DEF me
    <3> QED
      BY <2>9, <3>1, <3>2, <3>3 DEF TaskGoes
  <2> QED
    BY <2>1, <2>2, <2>4, <2>5, <2>6, <2>7, <2>8, <2>9 DEF TaskStep
<1> QED
  BY <1>1, <1>2, <1>3, <1>4

(* What it does to the steps: only rows of its own pipeline are added.     *)
LEMMA TaskStepSteps ==
  ASSUME RunsTypeOK, NEW q \in Requests, TaskStep(q) \/ TaskCallFails(q)
  PROVE  /\ steps' \subseteq StepRows /\ IsFiniteSet(steps') /\ steps \subseteq steps'
         /\ \A s \in steps' \ steps : \E p \in NodeSteps : s = PipelineRow(task[q].run, p[1], p[2], q)
         /\ \A s \in steps' \ steps : s.at # 0
<1>1. task[q] \in TaskState /\ task[q].run \in Runs
  BY TaskStepTask
<1>2. steps' = steps \/ \E n \in 1..4 : \E count \in 0 .. Len(build_graph[n]) : LogSteps(q, n, count)
  <2> DEFINE n == task[q].at + 1
  <2>1. CASE RunNode(q)
    <3>1. n \in 1..4
      BY <1>1, <2>1, GraphShape DEF RunNode, TaskState
    <3>2. Len(build_graph[n]) \in 0 .. Len(build_graph[n])
      <4>1. Len(build_graph[n]) \in 1..3
        BY <3>1, GraphShape
      <4> QED
        BY <4>1
    <3>3. LogSteps(q, n, Len(build_graph[n]))
      BY <2>1 DEF RunNode
    <3> QED
      BY <3>1, <3>2, <3>3
  <2>2. CASE NodeRaises(q)
    <3>1. n \in 1..4
      BY <1>1, <2>2, GraphShape DEF NodeRaises, TaskState
    <3>2. PICK count \in 0 .. Len(build_graph[n]) - 1 : LogSteps(q, n, count)
      BY <2>2 DEF NodeRaises, LogSteps
    <3>3. count \in 0 .. Len(build_graph[n])
      <4> DEFINE size == Len(build_graph[n])
      <4>1. size \in 1..3 /\ count \in 0 .. size - 1
        BY <3>1, <3>2, GraphShape
      <4> HIDE DEF size
      <4>2. count \in 0 .. size
        BY <4>1
      <4> QED
        BY <4>2 DEF size
    <3> QED
      BY <3>1, <3>2, <3>3
  <2>3. CASE ~ RunNode(q) /\ ~ NodeRaises(q)
    BY <2>3
    DEF TaskStep, GraphEnds, PublishOutcome, SetRunStatus, RecordTokenSpend,
        PublishError, FailRun, PublishTerminal, TaskCallFails, tables
  <2> QED
    BY <2>1, <2>2, <2>3
<1>3. steps \subseteq StepRows /\ IsFiniteSet(steps)
  BY DEF RunsTypeOK
<1>4. CASE steps' = steps
  BY <1>3, <1>4
<1>5. CASE \E n \in 1..4 : \E count \in 0 .. Len(build_graph[n]) : LogSteps(q, n, count)
  <2>1. /\ steps' \subseteq StepRows /\ IsFiniteSet(steps') /\ steps \subseteq steps'
        /\ \A s \in steps' \ steps : \E p \in NodeSteps : s = PipelineRow(task[q].run, p[1], p[2], q)
    BY <1>1, <1>3, <1>5, LogStepsTypes
  <2>2. \A p \in NodeSteps : PipelineRow(task[q].run, p[1], p[2], q).at # 0
    BY NodeStepsOf DEF PipelineRow
  <2> QED
    BY <2>1, <2>2
<1> QED
  BY <1>2, <1>4, <1>5

(* What the steps of a handler that only goes on do to the request.        *)
LEMMA GotoMoves ==
  ASSUME RunsTypeOK, NEW q \in Requests, request[q].pc # "idle", NEW pc \in RequestPcs, Goto(q, pc)
  PROVE  \E me \in RequestState :
           /\ request' = [request EXCEPT ![q] = me]
           /\ me.pc = pc /\ me.kind = request[q].kind
           /\ me.key = request[q].key /\ me.asked = request[q].asked
<1> DEFINE me == [request[q] EXCEPT !.pc = pc]
<1>1. request[q] \in RequestState
  BY RequestKnown
<1>2. request' = [request EXCEPT ![q] = me]
  BY DEF Goto
<1>3. /\ me \in RequestState /\ me.pc = pc /\ me.kind = request[q].kind
      /\ me.key = request[q].key /\ me.asked = request[q].asked
  BY <1>1 DEF RequestState
<1> HIDE DEF me
<1> QED
  BY <1>2, <1>3

LEMMA SettledMoves ==
  ASSUME RunsTypeOK, NEW q \in Requests, request[q].pc # "idle"
  PROVE  /\ Settled(q) \in RequestState
         /\ Settled(q).pc = IF request[q].key = Absent THEN "answered" ELSE "store"
         /\ Settled(q).key = request[q].key
<1>1. request[q] \in RequestState
  BY RequestKnown
<1>2. AfterFact(q) \in RequestPcs
  BY DEF AfterFact, RequestPcs
<1> QED
  BY <1>1, <1>2 DEF Settled, AfterFact, RequestState

(* A run row that is made where there was none.                            *)
LEMMA RunMadeType ==
  ASSUME RunsTypeOK, NEW r,
         runs' = [runs EXCEPT ![r] = IF @ = "none" THEN "running" ELSE @]
  PROVE  runs' \in [Runs -> {"none", "running"} \cup Outcomes]
  BY DEF RunsTypeOK

(* Appending to a stream.                                                  *)
LEMMA StreamAppends ==
  ASSUME RunsTypeOK, NEW r \in Runs, NEW e \in Outcomes \cup {"none", "end"},
         stream' = [stream EXCEPT ![r] = Append(@, e)]
  PROVE  /\ stream' \in [Runs -> Seq(Outcomes \cup {"none", "end"})]
         /\ stream'[r] = Append(stream[r], e)
         /\ \A x \in Runs \ {r} : stream'[x] = stream[x]
<1>1. stream[r] \in Seq(Outcomes \cup {"none", "end"})
  BY DEF RunsTypeOK
<1>2. Append(stream[r], e) \in Seq(Outcomes \cup {"none", "end"})
  BY <1>1
<1> QED
  BY <1>2 DEF RunsTypeOK

LEMMA AppendsOf ==
  ASSUME NEW S, NEW s \in Seq(S), NEW b \in S
  PROVE  /\ s = <<>> => Append(s, b) = <<b>>
         /\ \A a : s = <<a>> => Append(s, b) = <<a, b>>
<1> DEFINE t == Append(s, b)
<1>1. t \in Seq(S) /\ Len(t) = Len(s) + 1 /\ t[Len(s) + 1] = b /\ \A i \in 1 .. Len(s) : t[i] = s[i]
  BY AppendProperties
<1> HIDE DEF t
<1>2. ASSUME s = <<>> PROVE t = <<b>>
  <2>1. \A c : Append(<<>>, c) = <<c>>
    OBVIOUS
  <2> QED
    BY <1>2, <2>1 DEF t
<1>3. ASSUME NEW a, s = <<a>> PROVE t = <<a, b>>
  <2>1. Len(s) = 1 /\ s[1] = a
    BY <1>3
  <2>2. t \in Seq(S) /\ Len(t) = 2 /\ t[1] = s[1] /\ t[2] = b
    BY <1>1, <2>1
  <2>3. t = <<s[1], b>>
    BY <2>2
  <2> QED
    BY <2>1, <2>3
<1> QED
  BY <1>2, <1>3 DEF t

(* What abandoning a task does to it.                                      *)
LEMMA AbandonMoves ==
  ASSUME RunsTypeOK, NEW q \in Requests, AbandonRun(q)
  PROVE  /\ task' \in [Requests -> {Idle} \cup TaskState]
         /\ \A p \in Requests : task'[p] = Idle <=> task[p] = Idle
         /\ \A p \in Requests \ {q} : task'[p] = task[p]
         /\ ~ Alive(q) => task'[q] = task[q]
         /\ Alive(q) => /\ task'[q].pc = IF task[q].pc = "terminal" THEN "done" ELSE "terminal"
                        /\ task'[q].run = task[q].run
<1>1. CASE ~ Alive(q)
  <2>1. task' = task
    BY <1>1 DEF AbandonRun
  <2> QED
    BY <1>1, <2>1 DEF RunsTypeOK
<1>2. CASE Alive(q)
  <2> DEFINE pc == IF task[q].pc = "terminal" THEN "done" ELSE "terminal"
             me == [task[q] EXCEPT !.pc = pc]
  <2>1. task[q] \in TaskState /\ task[q].pc # "idle"
    BY <1>2, TaskKnown DEF Alive
  <2>2. task' = [task EXCEPT ![q] = me]
    BY <1>2 DEF AbandonRun, Resume
  <2>3. me \in TaskState /\ me.pc = pc /\ me.run = task[q].run
    BY <2>1 DEF TaskState, TaskPcs
  <2> HIDE DEF me
  <2>4. task'[q] = me /\ \A p \in Requests \ {q} : task'[p] = task[p]
    BY <2>2 DEF RunsTypeOK
  <2>5. /\ task' \in [Requests -> {Idle} \cup TaskState]
        /\ \A p \in Requests : task'[p] = Idle <=> task[p] = Idle
    BY <2>1, <2>2, <2>3, TaskMoves
  <2> QED
    BY <1>2, <2>3, <2>4, <2>5
<1> QED
  BY <1>1, <1>2

(* What the end of the process does to its tasks.                          *)
LEMMA EndsMoves ==
  ASSUME RunsTypeOK, Ends
  PROVE  /\ task' \in [Requests -> {Idle} \cup TaskState]
         /\ \A p \in Requests : task'[p] = Idle <=> task[p] = Idle
         /\ \A p \in Requests : IF Alive(p)
              THEN task'[p].pc = "dead" /\ task'[p].run = task[p].run ELSE task'[p] = task[p]
         /\ process' = "down" /\ pending' = {} /\ failing' = {}
         /\ UNCHANGED <<runs, steps, spent, keys, stream, faulted, killed, entangled>>
<1>1. /\ UNCHANGED <<runs, steps, spent, keys, stream, faulted, killed, entangled>>
      /\ process' = "down" /\ pending' = {} /\ failing' = {}
      /\ task' = [q \in Requests |-> IF Alive(q)
           THEN [task[q] EXCEPT !.pc = "dead", !.at = 0, !.event = "none"] ELSE task[q]]
  BY DEF Ends, tables
<1>2. ASSUME NEW q \in Requests
      PROVE  /\ task'[q] \in {Idle} \cup TaskState
             /\ task'[q] = Idle <=> task[q] = Idle
             /\ IF Alive(q)
                THEN task'[q].pc = "dead" /\ task'[q].run = task[q].run ELSE task'[q] = task[q]
  <2>1. CASE Alive(q)
    <3> DEFINE me == [task[q] EXCEPT !.pc = "dead", !.at = 0, !.event = "none"]
    <3>1. task[q] \in TaskState /\ task[q].pc # "idle" /\ task'[q] = me
      BY <1>1, <2>1, TaskKnown DEF Alive
    <3>2. me \in TaskState /\ me.pc = "dead" /\ me.run = task[q].run
      BY <3>1 DEF TaskState, TaskPcs
    <3> HIDE DEF me
    <3> QED
      BY <2>1, <3>1, <3>2, IdleOrNot
  <2>2. CASE ~ Alive(q)
    BY <1>1, <2>2 DEF RunsTypeOK
  <2> QED
    BY <2>1, <2>2
<1> QED
  BY <1>1, <1>2

(* The base invariant: one step per action.                                *)
LEMMA BaseStep == BaseInv /\ [NextRuns]_runVars => BaseInv'
<1> SUFFICES ASSUME BaseInv, [NextRuns]_runVars PROVE BaseInv'
  OBVIOUS
<1> RunsTypeOK /\ RequestsInOrder
  BY DEF BaseInv
<1>e. ASSUME UNCHANGED <<steps, task>> PROVE \A p \in Requests : Executed(p)' = Executed(p)
  BY <1>e DEF Executed
<1>1. ASSUME NEW q \in Requests, NEW kind \in {"run", "steps"}, NEW key \in Keys \cup {Absent},
             NEW asked \in Chosen \cup {Absent}, Arrive(q, kind, key, asked)
      PROVE  BaseInv'
  <2> DEFINE me == [pc |-> IF key # Absent THEN "lookup" ELSE IF kind = "run" THEN "quota" ELSE "own",
                    kind |-> kind, key |-> key, asked |-> asked, index |-> 0]
  <2>1. request' = [request EXCEPT ![q] = me] /\ (kind = "steps" => asked # Absent)
        /\ request[q].pc = "idle"
        /\ UNCHANGED <<runs, steps, keys, stream, task, process, pending, failing>>
    BY <1>1 DEF Arrive, At, tables, serving
  <2>2. me \in RequestState /\ me.kind = kind /\ me.asked = asked
        /\ me.pc = (IF key # Absent THEN "lookup" ELSE IF kind = "run" THEN "quota" ELSE "own")
    BY DEF RequestState, RequestPcs
  <2>3. \A p \in Requests : Executed(p)' = Executed(p)
    BY <1>e, <2>1
  <2>4. ~ Executed(q)
    BY <2>1 DEF RequestsInOrder, Past
  <2> HIDE DEF me
  <2>5. request' \in [Requests -> {Idle} \cup RequestState] /\ RequestsInOrder'
    BY <2>1, <2>2, <2>3, <2>4, RunsAssumption, BaseRequestMoves
  <2> QED
    BY <2>1, <2>5 DEF BaseInv, RunsTypeOK
<1>2. ASSUME NEW q \in Requests, request[q].pc # "idle", NEW pc \in RequestPcs, Goto(q, pc),
             UNCHANGED <<steps, task>>,
             pc \in {"own", "index", "log"} => request[q].kind = "steps" /\ request[q].asked \in Runs,
             pc \notin {"lookup", "store"}, Executed(q) => pc \in Past
      PROVE  request' \in [Requests -> {Idle} \cup RequestState] /\ RequestsInOrder'
  <2>1. PICK me \in RequestState :
           /\ request' = [request EXCEPT ![q] = me]
           /\ me.pc = pc /\ me.kind = request[q].kind
           /\ me.key = request[q].key /\ me.asked = request[q].asked
    BY <1>2, GotoMoves
  <2>2. \A p \in Requests : Executed(p)' = Executed(p)
    BY <1>e, <1>2
  <2> QED
    BY <1>2, <2>1, <2>2, BaseRequestMoves
<1>3. ASSUME NEW q \in Requests, Lookup(q) PROVE BaseInv'
  <2>1. PICK pc \in {"answered", "quota", "own"} :
          Goto(q, pc) /\ (pc = "own" => request[q].kind # "run")
    BY <1>3 DEF Lookup
  <2>2. /\ request[q].pc = "lookup"
        /\ UNCHANGED <<runs, steps, keys, stream, task, process, pending, failing>>
    BY <1>3 DEF Lookup, At, tables, serving
  <2>3. request[q].kind \in {"run", "steps"} /\ pc \in RequestPcs
    BY <2>2, RequestKnown DEF RequestState, RequestPcs
  <2>4. ~ Executed(q) /\ (request[q].kind = "steps" => request[q].asked \in Runs)
    BY <2>2 DEF RequestsInOrder, Past
  <2> QED
    BY <1>2, <2>1, <2>2, <2>3, <2>4 DEF BaseInv, RunsTypeOK
<1>4. ASSUME NEW q \in Requests, CheckQuota(q) \/ CheckBudget(q) PROVE BaseInv'
  <2>1. PICK pc \in {"answered", "budget", "create"} : Goto(q, pc)
    BY <1>4 DEF CheckQuota, CheckBudget
  <2>2. /\ request[q].pc \in {"quota", "budget"}
        /\ UNCHANGED <<runs, steps, keys, stream, task, process, pending, failing>>
    BY <1>4 DEF CheckQuota, CheckBudget, At, tables, serving
  <2>3. ~ Executed(q) /\ pc \in RequestPcs
    BY <2>2 DEF RequestsInOrder, Past, RequestPcs
  <2> QED
    BY <1>2, <2>1, <2>2, <2>3 DEF BaseInv, RunsTypeOK
<1>5. ASSUME NEW q \in Requests, GetOrCreateRun(q) PROVE BaseInv'
  <2>1. /\ Goto(q, "index") /\ request[q].pc = "own"
        /\ runs' = [runs EXCEPT ![request[q].asked] = IF @ = "none" THEN "running" ELSE @]
        /\ UNCHANGED <<steps, keys, stream, task, process, pending, failing>>
    BY <1>5 DEF GetOrCreateRun, At, serving
  <2>2. ~ Executed(q) /\ request[q].kind = "steps" /\ request[q].asked \in Runs
    BY <2>1 DEF RequestsInOrder, Past
  <2>3. request' \in [Requests -> {Idle} \cup RequestState] /\ RequestsInOrder'
    BY <1>2, <2>1, <2>2 DEF RequestPcs
  <2>4. runs' \in [Runs -> {"none", "running"} \cup Outcomes]
    BY <2>1, RunMadeType
  <2> QED
    BY <2>1, <2>3, <2>4 DEF BaseInv, RunsTypeOK
<1>6. ASSUME NEW q \in Requests, NextStepIndex(q) PROVE BaseInv'
  <2> DEFINE count == Cardinality(StepsOf(request[q].asked))
             me == [request[q] EXCEPT !.index = count, !.pc = "log"]
  <2>1. /\ request' = [request EXCEPT ![q] = me] /\ request[q].pc = "index"
        /\ UNCHANGED <<runs, steps, keys, stream, task, process, pending, failing>>
    BY <1>6 DEF NextStepIndex, At, tables, serving
  <2>2. request[q] \in RequestState
    BY <2>1, RequestKnown
  <2>3. count \in Nat
    <3>1. IsFiniteSet(StepsOf(request[q].asked))
      BY FS_Subset DEF StepsOf, RunsTypeOK
    <3> QED
      BY <3>1, FS_CardinalityType
  <2> HIDE DEF count
  <2>4. /\ me \in RequestState /\ me.pc = "log" /\ me.kind = request[q].kind
        /\ me.asked = request[q].asked
    BY <2>2, <2>3 DEF RequestState, RequestPcs
  <2>5. \A p \in Requests : Executed(p)' = Executed(p)
    BY <1>e, <2>1
  <2>6. ~ Executed(q) /\ request[q].kind = "steps" /\ request[q].asked \in Runs
    BY <2>1 DEF RequestsInOrder, Past
  <2> HIDE DEF me
  <2>7. request' \in [Requests -> {Idle} \cup RequestState] /\ RequestsInOrder'
    BY <2>1, <2>4, <2>5, <2>6, BaseRequestMoves
  <2> QED
    BY <2>1, <2>7 DEF BaseInv, RunsTypeOK
<1>7. ASSUME NEW q \in Requests, request[q].pc # "idle", request' = [request EXCEPT ![q] = Settled(q)],
             \A p \in Requests : Executed(p)' => Executed(p) \/ p = q
      PROVE  request' \in [Requests -> {Idle} \cup RequestState] /\ RequestsInOrder'
  <2>1. /\ Settled(q) \in RequestState /\ Settled(q).pc \in Past
        /\ Settled(q).pc = "store" => Settled(q).key # Absent
    BY <1>7, SettledMoves DEF Past
  <2>2. Settled(q).pc \notin {"lookup", "own", "index", "log"}
    BY <2>1 DEF Past
  <2> QED
    BY <1>7, <2>1, <2>2, BaseRequestMoves
<1>8. ASSUME NEW q \in Requests, LogExternalStep(q) PROVE BaseInv'
  <2> DEFINE entry == ExternalRow(request[q].asked, request[q].index, q)
  <2>1. /\ request[q].pc = "log" /\ steps' = steps \cup {entry}
        /\ request' = [request EXCEPT ![q] = Settled(q)]
        /\ UNCHANGED <<runs, keys, stream, task, process, pending, failing>>
    BY <1>8 DEF LogExternalStep, At, serving, ExternalRow
  <2>2. request[q] \in RequestState /\ request[q].asked \in Runs
    BY <2>1, RequestKnown DEF RequestsInOrder
  <2>3. entry \in StepRows /\ entry.by = q
    BY <2>2 DEF StepRows, RequestState, ExternalRow
  <2> HIDE DEF entry
  <2>4. steps' \in SUBSET StepRows /\ IsFiniteSet(steps')
    BY <2>1, <2>3, FS_AddElement DEF RunsTypeOK
  <2>5. \A p \in Requests : Executed(p)' => Executed(p) \/ p = q
    BY <2>1, <2>3 DEF Executed
  <2>6. request' \in [Requests -> {Idle} \cup RequestState] /\ RequestsInOrder'
    BY <1>7, <2>1, <2>5
  <2> QED
    BY <2>1, <2>4, <2>6 DEF BaseInv, RunsTypeOK
<1>9. ASSUME NEW q \in Requests, NEW r \in Runs, CreateRun(q, r) PROVE BaseInv'
  <2> DEFINE new == [pc |-> "graph", at |-> 0, event |-> "none", run |-> r]
  <2>1. /\ request[q].pc = "create" /\ task' = [task EXCEPT ![q] = new]
        /\ request' = [request EXCEPT ![q] = Settled(q)]
        /\ runs' = [runs EXCEPT ![r] = IF @ = "none" THEN "running" ELSE @]
        /\ UNCHANGED <<steps, keys, stream, process, pending, failing>>
    BY <1>9 DEF CreateRun, At, serving
  <2>2. new \in TaskState
    BY DEF TaskState, TaskPcs
  <2> HIDE DEF new
  <2>3. task' \in [Requests -> {Idle} \cup TaskState]
    BY <2>1, <2>2 DEF RunsTypeOK
  <2>4. \A p \in Requests : Executed(p)' => Executed(p) \/ p = q
    BY <2>1 DEF Executed, RunsTypeOK
  <2>5. request' \in [Requests -> {Idle} \cup RequestState] /\ RequestsInOrder'
    BY <1>7, <2>1, <2>4
  <2>6. runs' \in [Runs -> {"none", "running"} \cup Outcomes]
    BY <2>1, RunMadeType
  <2> QED
    BY <2>1, <2>3, <2>5, <2>6 DEF BaseInv, RunsTypeOK
<1>10. ASSUME NEW q \in Requests, StoreResponse(q) PROVE BaseInv'
  <2>1. /\ Goto(q, "answered") /\ request[q].pc = "store" /\ keys' = keys \cup {request[q].key}
        /\ UNCHANGED <<runs, steps, stream, task, process, pending, failing>>
    BY <1>10 DEF StoreResponse, At, serving
  <2>2. request[q].key \in Keys
    BY <2>1, RequestKnown DEF RequestState, RequestsInOrder
  <2>3. request' \in [Requests -> {Idle} \cup RequestState] /\ RequestsInOrder'
    BY <1>2, <2>1 DEF RequestPcs, Past
  <2> QED
    BY <2>1, <2>2, <2>3 DEF BaseInv, RunsTypeOK
<1>11. ASSUME NEW q \in Requests, RequestFails(q) PROVE BaseInv'
  <2>1. /\ Goto(q, "answered") /\ request[q].pc # "idle"
        /\ UNCHANGED <<runs, steps, keys, stream, task, process, pending, failing>>
    BY <1>11 DEF RequestFails, tables, serving
  <2>2. request' \in [Requests -> {Idle} \cup RequestState] /\ RequestsInOrder'
    BY <1>2, <2>1 DEF RequestPcs, Past
  <2> QED
    BY <2>1, <2>2 DEF BaseInv, RunsTypeOK
<1>12. ASSUME NEW q \in Requests, Serve(q) PROVE BaseInv'
  BY <1>1, <1>3, <1>4, <1>5, <1>6, <1>8, <1>9, <1>10, <1>11, <1>12 DEF Serve
<1>13. ASSUME NEW q \in Requests, TaskStep(q) \/ TaskCallFails(q) PROVE BaseInv'
  <2>1. /\ task[q].pc # "idle" /\ task[q] \in TaskState /\ task[q].run \in Runs
        /\ UNCHANGED <<request, keys, process, pending, failing>>
    BY <1>13, TaskStepTask
  <2>2. PICK me \in TaskState : task' = [task EXCEPT ![q] = me] /\ me.run = task[q].run
    BY <1>13, TaskStepTask
  <2>3. /\ task' \in [Requests -> {Idle} \cup TaskState]
        /\ \A p \in Requests : task'[p] = Idle <=> task[p] = Idle
    BY <2>1, <2>2, TaskMoves
  <2>4. steps' \subseteq StepRows /\ IsFiniteSet(steps') /\ steps \subseteq steps'
    BY <1>13, TaskStepSteps
  <2>5. \A s \in steps' \ steps : s.at # 0
    BY <1>13, TaskStepSteps
  <2>6. RequestsInOrder'
    BY <2>1, <2>3, <2>4, <2>5, ExecutedSame, BaseOthersMove
  <2>7. runs' \in [Runs -> {"none", "running"} \cup Outcomes]
    <3>1. task[q].event \in {"none"} \cup Outcomes
      BY <2>1 DEF TaskState
    <3> QED
      BY <1>13, <3>1
      DEF RunsTypeOK, TaskStep, RunNode, NodeRaises, GraphEnds, PublishOutcome, SetRunStatus,
          RecordTokenSpend, PublishError, FailRun, PublishTerminal, TaskCallFails, tables, Outcomes
  <2>8. stream' \in [Runs -> Seq(Outcomes \cup {"none", "end"})]
    <3>1. task[q].event \in {"none"} \cup Outcomes
      BY <2>1 DEF TaskState
    <3>2. \/ UNCHANGED stream
          \/ \E e \in Outcomes \cup {"none", "end"} :
               stream' = [stream EXCEPT ![task[q].run] = Append(@, e)]
      BY <1>13, <3>1
      DEF TaskStep, RunNode, NodeRaises, GraphEnds, PublishOutcome, SetRunStatus,
          RecordTokenSpend, PublishError, FailRun, PublishTerminal, TaskCallFails, tables, Outcomes
    <3> QED
      BY <2>1, <3>2, StreamAppends DEF RunsTypeOK
  <2> QED
    BY <2>1, <2>3, <2>4, <2>6, <2>7, <2>8 DEF BaseInv, RunsTypeOK
<1>14. ASSUME NEW k \in Keys, PurgeKey(k) PROVE BaseInv'
  <2>1. keys' = keys \ {k} /\ UNCHANGED <<runs, steps, stream, request, task, process, pending, failing>>
    BY <1>14 DEF PurgeKey, serving
  <2>2. RequestsInOrder'
    BY <1>e, <2>1, BaseOthersMove
  <2> QED
    BY <2>1, <2>2 DEF BaseInv, RunsTypeOK
<1>15. CASE Shutdown \/ DrainEnds \/ Restart
  <2>1. UNCHANGED <<runs, steps, keys, stream, request, task, failing>>
    BY <1>15 DEF Shutdown, DrainEnds, Restart, tables
  <2>2. process' \in {"up", "draining", "abandoning", "down"} /\ pending' \subseteq Requests
    BY <1>15 DEF Shutdown, DrainEnds, Restart, RunsTypeOK
  <2>3. RequestsInOrder'
    BY <1>e, <2>1, BaseOthersMove
  <2> QED
    BY <2>1, <2>2, <2>3 DEF BaseInv, RunsTypeOK
<1>16. ASSUME NEW q \in Requests, AbandonRun(q) PROVE BaseInv'
  <2>1. /\ UNCHANGED <<runs, steps, keys, stream, request, process>>
        /\ pending' \subseteq Requests /\ failing' \subseteq Requests
    BY <1>16 DEF AbandonRun, tables, RunsTypeOK
  <2>2. /\ task' \in [Requests -> {Idle} \cup TaskState]
        /\ \A p \in Requests : task'[p] = Idle <=> task[p] = Idle
    BY <1>16, AbandonMoves
  <2>3. RequestsInOrder'
    BY <2>1, <2>2, ExecutedSame, BaseOthersMove
  <2> QED
    BY <2>1, <2>2, <2>3 DEF BaseInv, RunsTypeOK
<1>17. ASSUME NEW q \in Requests, FailAbandoned(q) PROVE BaseInv'
  <2>1. /\ UNCHANGED <<steps, keys, stream, request, task, process, pending>>
        /\ failing' = {}
        /\ \/ UNCHANGED runs
           \/ runs' = [runs EXCEPT ![task[q].run] = StillRunning(@)]
    BY <1>17 DEF FailAbandoned
  <2>2. runs' \in [Runs -> {"none", "running"} \cup Outcomes]
    BY <2>1 DEF StillRunning, RunsTypeOK, Outcomes
  <2>3. RequestsInOrder'
    BY <1>e, <2>1, BaseOthersMove
  <2> QED
    BY <2>1, <2>2, <2>3 DEF BaseInv, RunsTypeOK
<1>18. ASSUME Ends
       PROVE  /\ task' \in [Requests -> {Idle} \cup TaskState]
              /\ \A p \in Requests : Executed(p)' = Executed(p)
              /\ process' = "down" /\ pending' = {} /\ failing' = {}
              /\ UNCHANGED <<runs, steps, keys, stream>>
  BY <1>18, EndsMoves, ExecutedSame
<1>19. ASSUME Stop PROVE BaseInv'
  <2>1. Ends /\ UNCHANGED request
    BY <1>19 DEF Stop
  <2>2. RequestsInOrder'
    BY <1>18, <2>1, BaseOthersMove
  <2> QED
    BY <1>18, <2>1, <2>2 DEF BaseInv, RunsTypeOK
<1>20. ASSUME Crash PROVE BaseInv'
  <2>1. /\ Ends
        /\ request' = [q \in Requests |->
             IF Executing(q) THEN [request[q] EXCEPT !.pc = "died"] ELSE request[q]]
    BY <1>20 DEF Crash
  <2>2. ASSUME NEW q \in Requests
        PROVE  /\ request'[q] \in {Idle} \cup RequestState
               /\ request'[q] = request[q] \/ request'[q].pc = "died"
    <3>1. CASE Executing(q)
      <4>1. request[q] \in RequestState
        BY <3>1, RequestKnown DEF Executing
      <4> QED
        BY <2>1, <3>1, <4>1 DEF RequestState, RequestPcs
    <3>2. CASE ~ Executing(q)
      BY <2>1, <3>2 DEF RunsTypeOK
    <3> QED
      BY <3>1, <3>2
  <2>3. request' \in [Requests -> {Idle} \cup RequestState]
    BY <2>1, <2>2
  <2>4. RequestsInOrder'
    BY <1>18, <2>1, <2>2 DEF RequestsInOrder, Past
  <2> QED
    BY <1>18, <2>1, <2>3, <2>4 DEF BaseInv, RunsTypeOK
<1>21. CASE UNCHANGED runVars
  <2>1. UNCHANGED <<runs, steps, keys, stream, request, task, process, pending, failing>>
    BY <1>21 DEF runVars, tables, serving
  <2>2. RequestsInOrder'
    BY <1>e, <2>1, BaseOthersMove
  <2> QED
    BY <2>1, <2>2 DEF BaseInv, RunsTypeOK
<1> QED
  BY <1>12, <1>13, <1>14, <1>15, <1>16, <1>17, <1>19, <1>20, <1>21 DEF NextRuns, StopRuns

THEOREM RunsTypeCorrect == RunsSpec => []RunsTypeOK
<1>1. BaseInv => RunsTypeOK
  BY DEF BaseInv
<1> QED
  BY <1>1, BaseInit, BaseStep, PTL DEF RunsSpec

---------------------------------------------------------------------------
(* A key is executed once.  It is not inductive: a second request with the *)
(* key is turned away by the response the first one stored, and until then *)
(* by nothing but their not overlapping.                                   *)

HasKey(q, k) == request[q].pc # "idle" /\ request[q].key = k

(* One request with the key is under way, none once the response is stored,*)
(* and one that has executed is still to store its response or has done so.*)
KeyInv ==
  \A k \in Keys \ excused :
    /\ \A p, q \in Unanswered(k) : p = q
    /\ k \in keys => Unanswered(k) = {}
    /\ \A p \in Requests : HasKey(p, k) /\ Executed(p) => k \in keys \/ request[p].pc = "store"
    /\ \A p, q \in Requests :
         HasKey(p, k) /\ HasKey(q, k) /\ Executed(p) /\ Executed(q) => p = q

(* A request that is under way goes on, or is answered.                    *)
LEMMA KeyMoves ==
  ASSUME BaseInv, KeyInv, UNCHANGED <<keys, excused>>,
         \A p \in Requests : Executed(p)' = Executed(p),
         NEW q \in Requests, NEW me, request' = [request EXCEPT ![q] = me],
         request[q].pc \notin Past \cup {"idle", "lookup"},
         me.pc # "idle", me.key = request[q].key
  PROVE  KeyInv'
<1>1. request'[q] = me /\ \A p \in Requests \ {q} : request'[p] = request[p]
  BY DEF BaseInv, RunsTypeOK
<1>2. ~ Executed(q)
  BY DEF BaseInv, RequestsInOrder
<1> SUFFICES ASSUME NEW k \in Keys \ excused
             PROVE  /\ \A p, r \in Unanswered(k)' : p = r
                    /\ k \in keys => Unanswered(k)' = {}
                    /\ \A p \in Requests : HasKey(p, k)' /\ Executed(p) =>
                         k \in keys \/ request'[p].pc = "store"
                    /\ \A p, r \in Requests :
                         HasKey(p, k)' /\ HasKey(r, k)' /\ Executed(p) /\ Executed(r) => p = r
  BY DEF KeyInv
<1>3. Unanswered(k)' \subseteq Unanswered(k)
  BY <1>1 DEF Unanswered, Past
<1>4. \A p \in Requests : HasKey(p, k)' /\ Executed(p) => HasKey(p, k) /\ request'[p] = request[p]
  BY <1>1, <1>2 DEF HasKey
<1> QED
  BY <1>3, <1>4 DEF KeyInv

(* A step of anyone else.                                                  *)
LEMMA KeyOthersMove ==
  ASSUME KeyInv, UNCHANGED <<keys, excused, request>>,
         \A p \in Requests : Executed(p)' = Executed(p)
  PROVE  KeyInv'
  BY DEF KeyInv, Unanswered, HasKey

(* The request executes, and has its response to store if it has a key.    *)
LEMMA KeyExecutes ==
  ASSUME BaseInv, KeyInv, UNCHANGED <<keys, excused>>,
         NEW q \in Requests, request[q].pc \in {"create", "log"},
         request' = [request EXCEPT ![q] = Settled(q)],
         \A p \in Requests : Executed(p)' => Executed(p) \/ p = q
  PROVE  KeyInv'
<1> DEFINE me == Settled(q)
<1>1. request'[q] = me /\ \A p \in Requests \ {q} : request'[p] = request[p]
  BY DEF BaseInv, RunsTypeOK
<1>2. me.pc = (IF request[q].key = Absent THEN "answered" ELSE "store") /\ me.key = request[q].key
  BY SettledMoves DEF BaseInv
<1> HIDE DEF me
<1> SUFFICES ASSUME NEW k \in Keys \ excused
             PROVE  /\ \A p, r \in Unanswered(k)' : p = r
                    /\ k \in keys => Unanswered(k)' = {}
                    /\ \A p \in Requests : HasKey(p, k)' /\ Executed(p)' =>
                         k \in keys \/ request'[p].pc = "store"
                    /\ \A p, r \in Requests :
                         HasKey(p, k)' /\ HasKey(r, k)' /\ Executed(p)' /\ Executed(r)' => p = r
  BY DEF KeyInv
<1>3. Unanswered(k)' \subseteq Unanswered(k)
  BY <1>1, <1>2 DEF Unanswered
<1>4. CASE request[q].key # k
  <2>1. \A p \in Requests : HasKey(p, k)' /\ Executed(p)' =>
          HasKey(p, k) /\ Executed(p) /\ request'[p] = request[p]
    BY <1>1, <1>2, <1>4 DEF HasKey
  <2> QED
    BY <1>3, <2>1 DEF KeyInv
<1>5. CASE request[q].key = k
  <2>1. q \in Unanswered(k) /\ k # Absent
    BY <1>5, RunsAssumption DEF Unanswered
  <2>2. k \notin keys /\ \A p \in Requests : request[p].pc = "store" /\ HasKey(p, k) => p = q
    BY <2>1 DEF KeyInv, Unanswered, HasKey
  <2>3. \A p \in Requests : HasKey(p, k)' /\ Executed(p)' => p = q
    BY <1>1, <2>2 DEF KeyInv, HasKey
  <2>4. request'[q].pc = "store"
    BY <1>1, <1>2, <1>5, <2>1
  <2> QED
    BY <1>3, <2>2, <2>3, <2>4 DEF KeyInv
<1> QED
  BY <1>4, <1>5

(* One step below per action.                                              *)
LEMMA KeyStep == BaseInv /\ BaseInv' /\ KeyInv /\ [NextRuns]_runVars => KeyInv'
<1> SUFFICES ASSUME BaseInv, BaseInv', KeyInv, [NextRuns]_runVars PROVE KeyInv'
  OBVIOUS
<1> RunsTypeOK /\ RequestsInOrder /\ RunsTypeOK' /\ RequestsInOrder'
  BY DEF BaseInv
<1>e. ASSUME UNCHANGED <<steps, task>> PROVE \A p \in Requests : Executed(p)' = Executed(p)
  BY <1>e DEF Executed
<1>1. ASSUME NEW q \in Requests, NEW kind \in {"run", "steps"}, NEW key \in Keys \cup {Absent},
             NEW asked \in Chosen \cup {Absent}, Arrive(q, kind, key, asked)
      PROVE  KeyInv'
  <2> DEFINE me == [pc |-> IF key # Absent THEN "lookup" ELSE IF kind = "run" THEN "quota" ELSE "own",
                    kind |-> kind, key |-> key, asked |-> asked, index |-> 0]
  <2>1. /\ request' = [request EXCEPT ![q] = me] /\ request[q].pc = "idle"
        /\ UNCHANGED <<steps, keys, task, excused>>
    BY <1>1 DEF Arrive, At, tables, histories
  <2>2. me.key = key /\ (key # Absent => me.pc = "lookup")
    OBVIOUS
  <2> HIDE DEF me
  <2>3. request'[q] = me /\ \A p \in Requests \ {q} : request'[p] = request[p]
    BY <2>1 DEF RunsTypeOK
  <2>4. ~ Executed(q) /\ \A p \in Requests : Executed(p)' = Executed(p)
    BY <1>e, <2>1 DEF RequestsInOrder, Past
  <2> SUFFICES ASSUME NEW k \in Keys \ excused
               PROVE  /\ \A p, r \in Unanswered(k)' : p = r
                      /\ k \in keys => Unanswered(k)' = {}
                      /\ \A p \in Requests : HasKey(p, k)' /\ Executed(p) =>
                           k \in keys \/ request'[p].pc = "store"
                      /\ \A p, r \in Requests :
                           HasKey(p, k)' /\ HasKey(r, k)' /\ Executed(p) /\ Executed(r) => p = r
    BY <2>1, <2>4 DEF KeyInv
  <2>5. Unanswered(k)' \subseteq Unanswered(k)
    BY <2>2, <2>3, RunsAssumption DEF Unanswered
  <2>6. \A p \in Requests : HasKey(p, k)' /\ Executed(p) => HasKey(p, k) /\ request'[p] = request[p]
    BY <2>3, <2>4 DEF HasKey
  <2> QED
    BY <2>5, <2>6 DEF KeyInv
<1>2. ASSUME NEW q \in Requests, Lookup(q) PROVE KeyInv'
  <2> DEFINE k0 == request[q].key
  <2>1. PICK pc \in {"answered", "quota", "own"} :
          /\ Goto(q, pc)
          /\ k0 \in keys => pc = "answered" /\ UNCHANGED excused
          /\ k0 \notin keys => excused' = IF Unanswered(k0) = {} THEN excused ELSE excused \cup {k0}
    <3>1. CASE k0 \in keys
      <4>1. Goto(q, "answered") /\ UNCHANGED excused
        BY <1>2, <3>1 DEF Lookup
      <4> QED
        BY <3>1, <4>1
    <3>2. CASE k0 \notin keys
      <4>1. /\ Goto(q, IF request[q].kind = "run" THEN "quota" ELSE "own")
            /\ excused' = IF Unanswered(k0) = {} THEN excused ELSE excused \cup {k0}
        BY <1>2, <3>2 DEF Lookup
      <4>2. CASE request[q].kind = "run"
        <5>1. Goto(q, "quota")
          BY <4>1, <4>2
        <5> QED
          BY <3>2, <4>1, <5>1
      <4>3. CASE request[q].kind # "run"
        <5>1. Goto(q, "own")
          BY <4>1, <4>3
        <5> QED
          BY <3>2, <4>1, <5>1
      <4> QED
        BY <4>2, <4>3
    <3> QED
      BY <3>1, <3>2
  <2>2. request[q].pc = "lookup" /\ UNCHANGED <<steps, keys, task>>
    BY <1>2 DEF Lookup, At, tables
  <2>3. PICK me \in RequestState :
          request' = [request EXCEPT ![q] = me] /\ me.pc = pc /\ me.key = k0
    BY <2>1, <2>2, GotoMoves DEF RequestPcs
  <2>4. request'[q] = me /\ \A p \in Requests \ {q} : request'[p] = request[p]
    BY <2>3 DEF RunsTypeOK
  <2>5. ~ Executed(q) /\ \A p \in Requests : Executed(p)' = Executed(p)
    BY <1>e, <2>2 DEF RequestsInOrder, Past
  <2> SUFFICES ASSUME NEW k \in Keys \ excused'
               PROVE  /\ \A p, r \in Unanswered(k)' : p = r
                      /\ k \in keys => Unanswered(k)' = {}
                      /\ \A p \in Requests : HasKey(p, k)' /\ Executed(p) =>
                           k \in keys \/ request'[p].pc = "store"
                      /\ \A p, r \in Requests :
                           HasKey(p, k)' /\ HasKey(r, k)' /\ Executed(p) /\ Executed(r) => p = r
    BY <2>2, <2>5 DEF KeyInv
  <2>6. k \in Keys \ excused
    BY <2>1
  <2>7. \A p \in Requests : HasKey(p, k)' /\ Executed(p) => HasKey(p, k) /\ request'[p] = request[p]
    BY <2>4, <2>5 DEF HasKey
  <2>8. CASE k = k0 /\ k0 \notin keys
    <3>1. Unanswered(k) = {}
      BY <2>1, <2>8
    <3>2. Unanswered(k)' \subseteq {q}
      BY <2>4, <3>1 DEF Unanswered
    <3> QED
      BY <2>6, <2>7, <2>8, <3>2 DEF KeyInv
  <2>9. CASE k # k0 \/ k0 \in keys
    <3>1. Unanswered(k)' \subseteq Unanswered(k)
      BY <2>1, <2>3, <2>4, <2>9 DEF Unanswered
    <3> QED
      BY <2>6, <2>7, <3>1 DEF KeyInv
  <2> QED
    BY <2>8, <2>9
<1>3. ASSUME NEW q \in Requests,
             CheckQuota(q) \/ CheckBudget(q) \/ GetOrCreateRun(q) \/ NextStepIndex(q)
      PROVE  KeyInv'
  <2>1. /\ request[q].pc \in {"quota", "budget", "own", "index"}
        /\ UNCHANGED <<steps, keys, task, excused>>
    BY <1>3 DEF CheckQuota, CheckBudget, GetOrCreateRun, NextStepIndex, At, tables, histories
  <2>2. request[q].pc \notin Past \cup {"idle", "lookup"}
    BY <2>1 DEF Past
  <2>3. \E me : request' = [request EXCEPT ![q] = me] /\ me.pc # "idle" /\ me.key = request[q].key
    <3>1. CASE NextStepIndex(q)
      <4> DEFINE me == [request[q] EXCEPT !.index = Cardinality(StepsOf(request[q].asked)), !.pc = "log"]
      <4>1. request' = [request EXCEPT ![q] = me]
        BY <3>1 DEF NextStepIndex
      <4>2. request[q] \in RequestState
        BY <2>1, RequestKnown
      <4>3. me.pc = "log" /\ me.key = request[q].key
        BY <4>2 DEF RequestState
      <4> HIDE DEF me
      <4> QED
        BY <4>1, <4>3
    <3>2. CASE CheckQuota(q) \/ CheckBudget(q) \/ GetOrCreateRun(q)
      <4>1. PICK pc \in {"answered", "budget", "create", "index"} : Goto(q, pc)
        BY <3>2 DEF CheckQuota, CheckBudget, GetOrCreateRun
      <4> QED
        BY <2>1, <4>1, GotoMoves DEF RequestPcs
    <3> QED
      BY <1>3, <3>1, <3>2
  <2>4. PICK me : request' = [request EXCEPT ![q] = me] /\ me.pc # "idle" /\ me.key = request[q].key
    BY <2>3
  <2> QED
    BY <1>e, <2>1, <2>2, <2>4, KeyMoves
<1>4. ASSUME NEW q \in Requests, LogExternalStep(q) PROVE KeyInv'
  <2> DEFINE entry == ExternalRow(request[q].asked, request[q].index, q)
  <2>1. /\ request[q].pc = "log" /\ steps' = steps \cup {entry}
        /\ request' = [request EXCEPT ![q] = Settled(q)]
        /\ UNCHANGED <<keys, task, excused>>
    BY <1>4 DEF LogExternalStep, At, ExternalRow
  <2>2. entry.by = q
    BY DEF ExternalRow
  <2> HIDE DEF entry
  <2>3. \A p \in Requests : Executed(p)' => Executed(p) \/ p = q
    BY <2>1, <2>2 DEF Executed
  <2> QED
    BY <2>1, <2>3, KeyExecutes
<1>5. ASSUME NEW q \in Requests, NEW r \in Runs, CreateRun(q, r) PROVE KeyInv'
  <2>1. /\ request[q].pc = "create"
        /\ \E new : task' = [task EXCEPT ![q] = new]
        /\ request' = [request EXCEPT ![q] = Settled(q)]
        /\ UNCHANGED <<steps, keys, excused>>
    BY <1>5 DEF CreateRun, At, histories
  <2>2. \A p \in Requests : Executed(p)' => Executed(p) \/ p = q
    BY <2>1 DEF Executed, RunsTypeOK
  <2> QED
    BY <2>1, <2>2, KeyExecutes
<1>6. ASSUME NEW q \in Requests, StoreResponse(q) PROVE KeyInv'
  <2> DEFINE k0 == request[q].key
  <2>1. /\ Goto(q, "answered") /\ request[q].pc = "store" /\ keys' = keys \cup {k0}
        /\ UNCHANGED <<steps, task, excused>>
    BY <1>6 DEF StoreResponse, At, histories
  <2>2. PICK me \in RequestState :
          request' = [request EXCEPT ![q] = me] /\ me.pc = "answered" /\ me.key = k0
    BY <2>1, GotoMoves DEF RequestPcs
  <2>3. request'[q] = me /\ \A p \in Requests \ {q} : request'[p] = request[p]
    BY <2>2 DEF RunsTypeOK
  <2>4. \A p \in Requests : Executed(p)' = Executed(p)
    BY <1>e, <2>1
  <2> SUFFICES ASSUME NEW k \in Keys \ excused
               PROVE  /\ \A p, r \in Unanswered(k)' : p = r
                      /\ k \in keys' => Unanswered(k)' = {}
                      /\ \A p \in Requests : HasKey(p, k)' /\ Executed(p) =>
                           k \in keys' \/ request'[p].pc = "store"
                      /\ \A p, r \in Requests :
                           HasKey(p, k)' /\ HasKey(r, k)' /\ Executed(p) /\ Executed(r) => p = r
    BY <2>1, <2>4 DEF KeyInv
  <2>5. Unanswered(k)' \subseteq Unanswered(k) \ {q}
    BY <2>2, <2>3 DEF Unanswered
  <2>6. \A p \in Requests : HasKey(p, k)' => HasKey(p, k) /\ (p = q \/ request'[p] = request[p])
    BY <2>1, <2>2, <2>3 DEF HasKey
  <2>7. HasKey(q, k) => q \in Unanswered(k) /\ k \in keys'
    BY <2>1 DEF HasKey, Unanswered
  <2>8. k \in keys' => Unanswered(k)' = {}
    <3>1. CASE k = k0
      <4>1. q \in Unanswered(k)
        BY <2>1, <3>1 DEF Unanswered
      <4> QED
        BY <2>5, <4>1 DEF KeyInv
    <3>2. CASE k # k0
      BY <2>1, <2>5, <3>2 DEF KeyInv
    <3> QED
      BY <3>1, <3>2
  <2>9. \A p \in Requests : HasKey(p, k)' /\ Executed(p) => k \in keys' \/ request'[p].pc = "store"
    BY <2>1, <2>6, <2>7 DEF KeyInv
  <2> QED
    BY <2>5, <2>6, <2>8, <2>9 DEF KeyInv
<1>7. ASSUME NEW q \in Requests, RequestFails(q) PROVE KeyInv'
  <2>1. /\ Goto(q, "answered") /\ request[q].pc \notin {"idle", "answered", "died"}
        /\ excused' = IF request[q].pc = "store" THEN excused \cup {request[q].key} ELSE excused
        /\ UNCHANGED <<steps, keys, task>>
    BY <1>7 DEF RequestFails, At, tables
  <2>2. PICK me \in RequestState :
          request' = [request EXCEPT ![q] = me] /\ me.pc = "answered" /\ me.key = request[q].key
    BY <2>1, GotoMoves DEF RequestPcs
  <2>3. request'[q] = me /\ \A p \in Requests \ {q} : request'[p] = request[p]
    BY <2>2 DEF RunsTypeOK
  <2>4. \A p \in Requests : Executed(p)' = Executed(p)
    BY <1>e, <2>1
  <2> SUFFICES ASSUME NEW k \in Keys \ excused'
               PROVE  /\ \A p, r \in Unanswered(k)' : p = r
                      /\ k \in keys => Unanswered(k)' = {}
                      /\ \A p \in Requests : HasKey(p, k)' /\ Executed(p) =>
                           k \in keys \/ request'[p].pc = "store"
                      /\ \A p, r \in Requests :
                           HasKey(p, k)' /\ HasKey(r, k)' /\ Executed(p) /\ Executed(r) => p = r
    BY <2>1, <2>4 DEF KeyInv
  <2>5. k \in Keys \ excused
    BY <2>1
  <2>6. Unanswered(k)' \subseteq Unanswered(k)
    BY <2>2, <2>3 DEF Unanswered
  <2>7. \A p \in Requests : HasKey(p, k)' /\ Executed(p) => HasKey(p, k) /\ request'[p] = request[p]
    <3>1. Executed(q) => request[q].pc = "store"
      BY <2>1 DEF RequestsInOrder, Past
    <3>2. HasKey(q, k)' => request[q].key = k
      BY <2>2, <2>3 DEF HasKey
    <3>3. ~ (HasKey(q, k)' /\ Executed(q))
      BY <2>1, <3>1, <3>2
    <3> QED
      BY <2>3, <3>3 DEF HasKey
  <2> QED
    BY <2>5, <2>6, <2>7 DEF KeyInv
<1>8. ASSUME NEW q \in Requests, Serve(q) PROVE KeyInv'
  BY <1>1, <1>2, <1>3, <1>4, <1>5, <1>6, <1>7, <1>8 DEF Serve
<1>9. ASSUME NEW q \in Requests, TaskStep(q) \/ TaskCallFails(q) PROVE KeyInv'
  <2>1. task[q].pc # "idle" /\ UNCHANGED <<request, keys, excused>>
    BY <1>9, TaskStepTask
  <2>2. PICK me \in TaskState : task' = [task EXCEPT ![q] = me]
    BY <1>9, TaskStepTask
  <2>3. \A p \in Requests : task'[p] = Idle <=> task[p] = Idle
    BY <2>1, <2>2, TaskMoves
  <2>4. steps \subseteq steps' /\ \A s \in steps' \ steps : s.at # 0
    BY <1>9, TaskStepSteps
  <2> QED
    BY <2>1, <2>3, <2>4, ExecutedSame, KeyOthersMove
<1>10. ASSUME NEW k0 \in Keys, PurgeKey(k0) PROVE KeyInv'
  <2>1. /\ keys' = keys \ {k0} /\ excused' = excused \cup {k0}
        /\ UNCHANGED <<steps, request, task>>
    BY <1>10 DEF PurgeKey
  <2>2. \A p \in Requests : Executed(p)' = Executed(p)
    BY <1>e, <2>1
  <2> QED
    BY <2>1, <2>2 DEF KeyInv, Unanswered, HasKey
<1>11. CASE Shutdown \/ DrainEnds \/ Restart \/ UNCHANGED runVars
            \/ \E q \in Requests : FailAbandoned(q)
  <2>1. UNCHANGED <<steps, keys, excused, request, task>>
    BY <1>11 DEF Shutdown, DrainEnds, Restart, FailAbandoned, tables, histories, runVars
  <2> QED
    BY <1>e, <2>1, KeyOthersMove
<1>12. ASSUME NEW q \in Requests, AbandonRun(q) PROVE KeyInv'
  <2>1. UNCHANGED <<steps, keys, excused, request>>
    BY <1>12 DEF AbandonRun, tables
  <2>2. \A p \in Requests : task'[p] = Idle <=> task[p] = Idle
    BY <1>12, AbandonMoves
  <2> QED
    BY <2>1, <2>2, ExecutedSame, KeyOthersMove
<1>13. ASSUME Ends PROVE UNCHANGED keys /\ \A p \in Requests : Executed(p)' = Executed(p)
  BY <1>13, EndsMoves, ExecutedSame
<1>14. ASSUME Stop PROVE KeyInv'
  <2>1. Ends /\ UNCHANGED <<request, excused>>
    BY <1>14 DEF Stop
  <2> QED
    BY <1>13, <2>1, KeyOthersMove
<1>15. ASSUME Crash PROVE KeyInv'
  <2>1. /\ Ends
        /\ request' = [q \in Requests |->
             IF Executing(q) THEN [request[q] EXCEPT !.pc = "died"] ELSE request[q]]
        /\ excused' = excused \cup {request[q].key : q \in {p \in Requests : At(p, "store")}}
    BY <1>15 DEF Crash
  <2>2. ASSUME NEW q \in Requests
        PROVE  /\ request'[q].pc \notin {"lookup", "quota", "budget", "create", "own", "index",
                                         "log", "store"}
               /\ request[q].pc # "idle" => request'[q].key = request[q].key
               /\ request'[q].pc = "idle" <=> request[q].pc = "idle"
               /\ request'[q] = request[q] \/ Executing(q)
    <3>1. CASE Executing(q)
      <4>1. request[q] \in RequestState
        BY <3>1, RequestKnown DEF Executing
      <4> QED
        BY <2>1, <3>1, <4>1 DEF RequestState, RequestPcs, Executing
    <3>2. CASE ~ Executing(q)
      BY <2>1, <3>2 DEF Executing
    <3> QED
      BY <3>1, <3>2
  <2>3. UNCHANGED keys /\ \A p \in Requests : Executed(p)' = Executed(p)
    BY <1>13, <2>1
  <2> SUFFICES ASSUME NEW k \in Keys \ excused'
               PROVE  /\ \A p, r \in Unanswered(k)' : p = r
                      /\ k \in keys => Unanswered(k)' = {}
                      /\ \A p \in Requests : HasKey(p, k)' /\ Executed(p) =>
                           k \in keys \/ request'[p].pc = "store"
                      /\ \A p, r \in Requests :
                           HasKey(p, k)' /\ HasKey(r, k)' /\ Executed(p) /\ Executed(r) => p = r
    BY <2>3 DEF KeyInv
  <2>4. k \in Keys \ excused /\ \A p \in Requests : request[p].pc = "store" => request[p].key # k
    BY <2>1 DEF At
  <2>5. Unanswered(k)' = {}
    <3>1. \A q \in Requests : request'[q].pc \in {"idle", "answered", "died"}
      BY <2>2, RequestKnown, IdleOrNot DEF RunsTypeOK, RequestState, RequestPcs, Idle
    <3> QED
      BY <3>1 DEF Unanswered
  <2>6. \A p \in Requests : HasKey(p, k)' => HasKey(p, k)
    BY <2>2 DEF HasKey
  <2>7. \A p \in Requests : HasKey(p, k)' /\ Executed(p) => k \in keys
    BY <2>4, <2>6 DEF KeyInv, HasKey
  <2> QED
    BY <2>4, <2>5, <2>6, <2>7 DEF KeyInv
<1> QED
  BY <1>8, <1>9, <1>10, <1>11, <1>12, <1>14, <1>15 DEF NextRuns, StopRuns

(* Whatever the requests, their keys and their interleavings, a request is *)
(* executed once per key, but for the keys KeyInv excuses.                 *)
THEOREM OneRunPerKeyAlways == RunsSpec => []OneRunPerKey
<1>1. InitRuns => KeyInv
  BY DEF InitRuns, KeyInv, Unanswered, HasKey, Executed, Idle
<1>2. BaseInv /\ KeyInv => OneRunPerKey
  <2> SUFFICES ASSUME BaseInv, KeyInv, NEW k \in Keys \ excused
               PROVE  Cardinality({q \in Requests : request[q] # Idle /\ request[q].key = k /\ Executed(q)}) <= 1
    BY DEF OneRunPerKey
  <2> DEFINE S == {q \in Requests : request[q] # Idle /\ request[q].key = k /\ Executed(q)}
  <2>1. \A p, q \in S : p = q
    BY IdleOrNot DEF KeyInv, HasKey, BaseInv
  <2>2. CASE S = {}
    BY <2>2, FS_EmptySet
  <2>3. CASE S # {}
    <3>1. PICK q \in S : S = {q}
      BY <2>1, <2>3
    <3>2. Cardinality(S) = 1
      BY <3>1, FS_Singleton
    <3> QED
      BY <3>2
  <2> QED
    BY <2>2, <2>3
<1> QED
  BY <1>1, <1>2, BaseInit, BaseStep, KeyStep, PTL DEF RunsSpec

---------------------------------------------------------------------------
(* No run is left behind.  A shutdown relies on the order of its steps:    *)
(* every task it finds alive is either still to be abandoned or cancelled, *)
(* and a cancelled one has its run failed before the process stops.        *)

LeftTask(q) ==
  /\ runs[task[q].run] # "none"
  /\ task[q].pc \in {"publish", "status"} => task[q].event \in Outcomes
  /\ q \notin faulted \cup lost =>
       /\ task[q].pc \notin {"handler", "fail"}
       /\ task[q].pc \in {"spend", "terminal", "done", "dead"} /\ q \notin failing =>
            runs[task[q].run] \in Outcomes

LeftInv ==
  /\ \A q \in Requests : Executing(q) => process = "up"
  /\ \A p, q \in failing : p = q
  /\ \A q \in killed : q \in Requests => task[q].pc \in {"terminal", "done", "dead"}
  /\ process = "abandoning" => \A q \in Requests : Alive(q) => q \in pending \cup killed
  /\ \A q \in Requests : task[q].pc # "idle" => LeftTask(q)

(* A run that has a status keeps one, and a terminal one stays terminal.   *)
RunsAdvance ==
  \A r \in Runs : /\ runs[r] # "none" => runs'[r] # "none"
                  /\ runs[r] \in Outcomes => runs'[r] \in Outcomes

LEMMA RunsDoAdvance ==
  ASSUME RunsTypeOK, NEW r,
         \/ UNCHANGED runs
         \/ runs' = [runs EXCEPT ![r] = IF @ = "none" THEN "running" ELSE @]
         \/ \E s \in Outcomes : runs' = [runs EXCEPT ![r] = s]
         \/ runs' = [runs EXCEPT ![r] = StillRunning(@)]
  PROVE  RunsAdvance
  BY DEF RunsAdvance, RunsTypeOK, Outcomes, StillRunning

(* The tasks a step does not touch.                                        *)
LEMMA LeftTaskKept ==
  ASSUME RunsTypeOK, RunsAdvance, NEW q \in Requests, task[q].pc # "idle", LeftTask(q),
         task'[q] = task[q], faulted \subseteq faulted', lost \subseteq lost',
         q \in failing => q \in failing' \cup faulted' \cup lost' \/ runs'[task[q].run] \in Outcomes
  PROVE  LeftTask(q)'
<1>1. task[q].run \in Runs
  BY TaskKnown DEF TaskState
<1> QED
  BY <1>1 DEF LeftTask, RunsAdvance

(* A step of a handler that starts no task.                                *)
LEMMA LeftRequestMoves ==
  ASSUME RunsTypeOK, LeftInv, RunsAdvance,
         \A q \in Requests : Executing(q)' => process' = "up",
         UNCHANGED <<task, process, pending, failing, faulted, killed, lost>>
  PROVE  LeftInv'
<1>1. \A q \in Requests : task'[q].pc # "idle" => LeftTask(q)'
  BY LeftTaskKept DEF LeftInv
<1> QED
  BY <1>1 DEF LeftInv, Alive

(* A step of one task.                                                     *)
LEMMA LeftTaskMoves ==
  ASSUME RunsTypeOK, LeftInv, RunsAdvance, NEW q \in Requests, NEW me \in TaskState,
         task' = [task EXCEPT ![q] = me], task[q].pc # "idle",
         UNCHANGED <<request, process, pending, failing, killed, lost>>,
         faulted \subseteq faulted',
         task[q].pc \in {"terminal", "done", "dead"} => me.pc \in {"terminal", "done", "dead"},
         Alive(q), LeftTask(q)'
  PROVE  LeftInv'
<1>1. task'[q] = me /\ \A p \in Requests \ {q} : task'[p] = task[p]
  BY DEF RunsTypeOK
<1>2. \A p \in Requests : task'[p].pc # "idle" => LeftTask(p)'
  <2> SUFFICES ASSUME NEW p \in Requests, task'[p].pc # "idle", p # q PROVE LeftTask(p)'
    OBVIOUS
  <2> QED
    BY <1>1, LeftTaskKept DEF LeftInv
<1>3. \A p \in Requests : Executing(p)' => process' = "up"
  BY DEF LeftInv, Executing
<1>4. \A p \in killed' : p \in Requests => task'[p].pc \in {"terminal", "done", "dead"}
  BY <1>1 DEF LeftInv
<1>5. process' = "abandoning" => \A p \in Requests : Alive(p)' => p \in pending' \cup killed'
  BY <1>1 DEF LeftInv, Alive
<1>6. \A p, r \in failing' : p = r
  BY DEF LeftInv
<1> QED
  BY <1>2, <1>3, <1>4, <1>5, <1>6 DEF LeftInv

(* One step below per action.                                              *)
LEMMA LeftStep == BaseInv /\ LeftInv /\ [NextRuns]_runVars => LeftInv'
<1> SUFFICES ASSUME BaseInv, LeftInv, [NextRuns]_runVars PROVE LeftInv'
  OBVIOUS
<1> RunsTypeOK /\ RequestsInOrder
  BY DEF BaseInv
<1>1. ASSUME NEW q \in Requests, NEW kind \in {"run", "steps"}, NEW key \in Keys \cup {Absent},
             NEW asked \in Chosen \cup {Absent}, Arrive(q, kind, key, asked)
      PROVE  LeftInv'
  <2>1. /\ process = "up" /\ \A p \in Requests \ {q} : request'[p] = request[p]
        /\ UNCHANGED <<runs, task, process, pending, failing, faulted, killed, lost>>
    BY <1>1 DEF Arrive, RunsTypeOK, tables, serving, histories
  <2> QED
    BY <2>1, RunsDoAdvance, LeftRequestMoves DEF LeftInv
<1>2. ASSUME NEW q \in Requests,
             \/ Lookup(q) \/ CheckQuota(q) \/ CheckBudget(q) \/ GetOrCreateRun(q) \/ NextStepIndex(q)
             \/ LogExternalStep(q) \/ StoreResponse(q) \/ RequestFails(q)
      PROVE  LeftInv'
  <2>1. /\ Executing(q) /\ \A p \in Requests \ {q} : request'[p] = request[p]
        /\ UNCHANGED <<task, process, pending, failing, faulted, killed, lost>>
    BY <1>2
    DEF Lookup, CheckQuota, CheckBudget, GetOrCreateRun, NextStepIndex, LogExternalStep, StoreResponse,
        RequestFails, Executing, At, Goto, RunsTypeOK, tables, serving, histories
  <2>2. \/ UNCHANGED runs
        \/ \E r : runs' = [runs EXCEPT ![r] = IF @ = "none" THEN "running" ELSE @]
    BY <1>2
    DEF Lookup, CheckQuota, CheckBudget, GetOrCreateRun, NextStepIndex, LogExternalStep, StoreResponse,
        RequestFails, tables
  <2>3. RunsAdvance
    BY <2>2, RunsDoAdvance
  <2> QED
    BY <2>1, <2>3, LeftRequestMoves DEF LeftInv, Executing
<1>3. ASSUME NEW q \in Requests, NEW r \in Runs, CreateRun(q, r) PROVE LeftInv'
  <2> DEFINE new == [pc |-> "graph", at |-> 0, event |-> "none", run |-> r]
  <2>1. /\ request[q].pc = "create" /\ task' = [task EXCEPT ![q] = new]
        /\ request' = [request EXCEPT ![q] = Settled(q)]
        /\ runs' = [runs EXCEPT ![r] = IF @ = "none" THEN "running" ELSE @]
        /\ UNCHANGED <<process, pending, failing, faulted, killed, lost>>
    BY <1>3 DEF CreateRun, At, serving, histories
  <2>2. task[q].pc = "idle" /\ process = "up"
    <3>1. ~ Executed(q)
      BY <2>1 DEF RequestsInOrder, Past
    <3> QED
      BY <2>1, <3>1, IdleOrNot DEF Executed, LeftInv, Executing
  <2>3. /\ task'[q] = new /\ \A p \in Requests \ {q} : task'[p] = task[p] /\ request'[p] = request[p]
        /\ runs'[r] # "none"
    BY <2>1 DEF RunsTypeOK
  <2>4. RunsAdvance
    BY <2>1, RunsDoAdvance
  <2>5. \A p \in Requests : task'[p].pc # "idle" => LeftTask(p)'
    <3>1. LeftTask(q)'
      BY <2>3 DEF LeftTask
    <3>2. \A p \in Requests \ {q} : task'[p].pc # "idle" => LeftTask(p)'
      BY <2>1, <2>3, <2>4, LeftTaskKept DEF LeftInv
    <3> QED
      BY <3>1, <3>2
  <2>6. q \notin killed
    BY <2>2 DEF LeftInv
  <2> QED
    BY <2>1, <2>2, <2>3, <2>5, <2>6 DEF LeftInv
<1>4. ASSUME NEW q \in Requests, Serve(q) PROVE LeftInv'
  BY <1>1, <1>2, <1>3, <1>4 DEF Serve
<1>5. ASSUME NEW q \in Requests, TaskStep(q) \/ TaskCallFails(q) PROVE LeftInv'
  <2>1. /\ task[q].pc \notin {"idle", "done", "dead"} /\ task[q] \in TaskState /\ task[q].run \in Runs
        /\ UNCHANGED <<request, process, pending, failing, killed, lost>>
    BY <1>5, TaskStepTask
  <2>2. PICK me \in TaskState :
          task' = [task EXCEPT ![q] = me] /\ me.run = task[q].run /\ TaskGoes(q, me)
    BY <1>5, TaskStepTask
  <2>3. task'[q] = me /\ Alive(q) /\ LeftTask(q)
    BY <2>1, <2>2 DEF RunsTypeOK, Alive, LeftInv
  <2>4. /\ RunsAdvance /\ faulted \subseteq faulted'
        /\ task[q].pc = "terminal" => me.pc \in {"terminal", "done", "dead"}
        /\ LeftTask(q)'
    <3>1. CASE \/ RunNode(q) /\ me.pc = "graph"
               \/ (NodeRaises(q) \/ GraphEnds(q)) /\ me.pc = "publish" /\ me.event \in Outcomes
               \/ PublishOutcome(q) /\ me.pc = "status" /\ me.event = task[q].event
               \/ PublishError(q) /\ me.pc = "fail"
      <4>1. /\ task[q].pc \in {"graph", "publish", "handler"} /\ UNCHANGED <<runs, faulted>>
            /\ me.pc \in {"graph", "publish", "status", "fail"}
            /\ me.pc \in {"publish", "status"} => me.event \in Outcomes
            /\ me.pc = "fail" => task[q].pc = "handler"
        BY <2>3, <3>1
        DEF RunNode, NodeRaises, GraphEnds, PublishOutcome, PublishError, LeftTask, tables, histories
      <4>2. RunsAdvance
        BY <4>1, RunsDoAdvance
      <4> QED
        BY <2>1, <2>2, <2>3, <4>1, <4>2 DEF LeftTask
    <3>2. CASE \/ SetRunStatus(q) /\ me.pc = IF task[q].event = "complete" THEN "spend" ELSE "terminal"
               \/ (RecordTokenSpend(q) \/ FailRun(q)) /\ me.pc = "terminal"
      <4>1. /\ task[q].pc \in {"status", "spend", "fail"} /\ UNCHANGED faulted
            /\ me.pc \in {"spend", "terminal"}
            /\ \/ UNCHANGED runs /\ task[q].pc = "spend"
               \/ \E s \in Outcomes : runs' = [runs EXCEPT ![task[q].run] = s]
        BY <2>3, <3>2
        DEF SetRunStatus, RecordTokenSpend, FailRun, LeftTask, Outcomes, histories
      <4>2. RunsAdvance
        BY <4>1, RunsDoAdvance
      <4>3. \/ UNCHANGED runs /\ task[q].pc = "spend"
            \/ runs'[task[q].run] \in Outcomes
        BY <2>1, <4>1 DEF RunsTypeOK
      <4> QED
        BY <2>1, <2>2, <2>3, <4>1, <4>2, <4>3 DEF LeftTask, Outcomes
    <3>3. CASE PublishTerminal(q) /\ me.pc = "done"
      <4>1. task[q].pc = "terminal" /\ UNCHANGED <<runs, faulted>> /\ me.pc = "done"
        BY <3>3 DEF PublishTerminal, tables, histories
      <4>2. RunsAdvance
        BY <4>1, RunsDoAdvance
      <4> QED
        BY <2>1, <2>2, <2>3, <4>1, <4>2 DEF LeftTask
    <3>4. CASE TaskCallFails(q) /\ me.pc \in {"handler", "terminal", "done"}
               /\ (task[q].pc = "terminal" => me.pc = "done")
      <4>1. /\ UNCHANGED runs /\ faulted' = faulted \cup {q} /\ me.pc \in {"handler", "terminal", "done"}
            /\ task[q].pc = "terminal" => me.pc = "done"
        BY <3>4 DEF TaskCallFails, tables
      <4>2. RunsAdvance
        BY <4>1, RunsDoAdvance
      <4> QED
        BY <2>1, <2>2, <2>3, <4>1, <4>2 DEF LeftTask
    <3> QED
      BY <2>2, <3>1, <3>2, <3>3, <3>4 DEF TaskGoes
  <2> QED
    BY <2>1, <2>2, <2>3, <2>4, LeftTaskMoves
<1>6. CASE (\E k \in Keys : PurgeKey(k)) \/ UNCHANGED runVars
  <2>1. UNCHANGED <<runs, request, task, process, pending, failing, faulted, killed, lost>>
    BY <1>6 DEF PurgeKey, runVars, tables, serving, histories
  <2> QED
    BY <2>1, RunsDoAdvance, LeftRequestMoves DEF LeftInv, Executing
<1>7. CASE Shutdown \/ DrainEnds \/ Restart
  <2>1. UNCHANGED <<runs, request, task, failing, faulted, killed, lost>>
    BY <1>7 DEF Shutdown, DrainEnds, Restart, tables, histories
  <2>2. /\ process # "up" => \A q \in Requests : ~ Executing(q)
        /\ Shutdown => \A q \in Requests : ~ Executing(q)
    BY DEF LeftInv, Shutdown
  <2>3. \A q \in Requests : Executing(q)' => process' = "up"
    BY <1>7, <2>1, <2>2 DEF Shutdown, DrainEnds, Restart, Executing
  <2>4. process' = "abandoning" => \A q \in Requests : Alive(q)' => q \in pending' \cup killed'
    BY <1>7, <2>1 DEF Shutdown, DrainEnds, Restart, Alive
  <2>5. \A q \in Requests : task'[q].pc # "idle" => LeftTask(q)'
    BY <2>1, RunsDoAdvance, LeftTaskKept DEF LeftInv
  <2> QED
    BY <2>1, <2>3, <2>4, <2>5 DEF LeftInv
<1>8. ASSUME NEW q \in Requests, AbandonRun(q) PROVE LeftInv'
  <2>1. /\ failing = {} /\ pending' = pending \ {q}
        /\ UNCHANGED <<runs, request, process, faulted, lost>>
    BY <1>8 DEF AbandonRun, tables
  <2>2. /\ \A p \in Requests \ {q} : task'[p] = task[p]
        /\ Alive(q) => /\ task'[q].pc \in {"terminal", "done"} /\ task'[q].run = task[q].run
                       /\ failing' = {q} /\ killed' = killed \cup {q}
        /\ ~ Alive(q) => task'[q] = task[q] /\ UNCHANGED <<failing, killed>>
    BY <1>8, AbandonMoves DEF AbandonRun
  <2>3. RunsAdvance
    BY <2>1, RunsDoAdvance
  <2>4. \A p \in Requests : task'[p].pc # "idle" => LeftTask(p)'
    <3>1. ASSUME NEW p \in Requests, task'[p].pc # "idle", p # q \/ ~ Alive(q) PROVE LeftTask(p)'
      BY <2>1, <2>2, <2>3, <3>1, LeftTaskKept DEF LeftInv
    <3>2. Alive(q) => LeftTask(q)'
      BY <2>1, <2>2 DEF LeftInv, LeftTask, Alive
    <3> QED
      BY <3>1, <3>2
  <2>5. \A p \in Requests : Executing(p)' => process' = "up"
    BY <2>1 DEF LeftInv, Executing
  <2>6. \A p \in killed' : p \in Requests => task'[p].pc \in {"terminal", "done", "dead"}
    BY <2>2 DEF LeftInv
  <2>7. process' = "abandoning" => \A p \in Requests : Alive(p)' => p \in pending' \cup killed'
    BY <2>1, <2>2 DEF LeftInv, Alive
  <2>8. \A p, r \in failing' : p = r
    BY <2>1, <2>2
  <2> QED
    BY <2>4, <2>5, <2>6, <2>7, <2>8 DEF LeftInv
<1>9. ASSUME NEW q \in Requests, FailAbandoned(q) PROVE LeftInv'
  <2>1. /\ q \in failing /\ failing' = {} /\ UNCHANGED <<request, task, process, pending, killed, lost>>
        /\ \/ runs' = [runs EXCEPT ![task[q].run] = StillRunning(@)] /\ UNCHANGED faulted
           \/ UNCHANGED runs /\ faulted' = faulted \cup {q}
    BY <1>9 DEF FailAbandoned
  <2>2. failing = {q}
    BY <2>1 DEF LeftInv
  <2>3. RunsAdvance
    BY <2>1, RunsDoAdvance
  <2>4. task[q].pc # "idle" => q \in faulted' \/ runs'[task[q].run] \in Outcomes
    <3> SUFFICES ASSUME task[q].pc # "idle", q \notin faulted' PROVE runs'[task[q].run] \in Outcomes
      OBVIOUS
    <3>1. task[q].run \in Runs
      BY TaskKnown DEF TaskState
    <3>2. runs[task[q].run] \in {"running"} \cup Outcomes
      BY <3>1 DEF LeftInv, LeftTask, RunsTypeOK
    <3> QED
      BY <2>1, <3>1, <3>2 DEF StillRunning, RunsTypeOK, Outcomes
  <2>5. \A p \in Requests : task'[p].pc # "idle" => LeftTask(p)'
    BY <2>1, <2>2, <2>3, <2>4, LeftTaskKept DEF LeftInv
  <2> QED
    BY <2>1, <2>5 DEF LeftInv, Executing, Alive
<1>10. ASSUME Stop \/ Crash PROVE LeftInv'
  <2>1. /\ \A p \in Requests : IF Alive(p)
              THEN task'[p].pc = "dead" /\ task'[p].run = task[p].run ELSE task'[p] = task[p]
        /\ process' = "down" /\ failing' = {} /\ UNCHANGED <<runs, faulted, killed>>
    BY <1>10, EndsMoves DEF Stop, Crash
  <2>2. RunsAdvance
    BY <2>1, RunsDoAdvance
  <2>3. \A q \in Requests : ~ Executing(q)'
    <3>1. CASE Stop
      BY <3>1 DEF Stop, LeftInv, Executing
    <3>2. CASE Crash
      <4> SUFFICES ASSUME NEW q \in Requests PROVE ~ Executing(q)'
        OBVIOUS
      <4>1. request'[q] = IF Executing(q) THEN [request[q] EXCEPT !.pc = "died"] ELSE request[q]
        BY <3>2 DEF Crash
      <4>2. Executing(q) => request[q] \in RequestState
        BY RequestKnown DEF Executing
      <4> QED
        BY <4>1, <4>2 DEF Executing, RequestState
    <3> QED
      BY <1>10, <3>1, <3>2
  <2>4. /\ lost \subseteq lost'
        /\ \A q \in failing : q \in lost'
        /\ \A q \in Requests : Alive(q) => q \in lost' \/ (q \in killed /\ failing = {})
    <3>1. CASE Stop
      BY <3>1 DEF Stop, LeftInv
    <3>2. CASE Crash
      BY <3>2 DEF Crash
    <3> QED
      BY <1>10, <3>1, <3>2
  <2>5. \A q \in Requests : task'[q].pc # "idle" => LeftTask(q)'
    <3> SUFFICES ASSUME NEW q \in Requests, task'[q].pc # "idle" PROVE LeftTask(q)'
      OBVIOUS
    <3>1. CASE Alive(q)
      <4>1. LeftTask(q) /\ (q \in killed => task[q].pc \in {"terminal", "done", "dead"})
        BY <3>1 DEF Alive, LeftInv
      <4> QED
        BY <2>1, <2>4, <3>1, <4>1 DEF LeftTask
    <3>2. CASE ~ Alive(q)
      BY <2>1, <2>2, <2>4, <3>2, LeftTaskKept DEF LeftInv
    <3> QED
      BY <3>1, <3>2
  <2>6. \A q \in killed' : q \in Requests => task'[q].pc \in {"terminal", "done", "dead"}
    BY <2>1 DEF LeftInv
  <2> QED
    BY <2>1, <2>3, <2>5, <2>6 DEF LeftInv
<1> QED
  BY <1>4, <1>5, <1>6, <1>7, <1>8, <1>9, <1>10 DEF NextRuns, StopRuns

(* However often the process is stopped, and whatever its tasks were at, a *)
(* task that is over has left its run with a terminal status.              *)
THEOREM NoRunIsLeftBehind == RunsSpec => []NoRunLeftBehind
<1>1. InitRuns => LeftInv
  BY DEF InitRuns, LeftInv, Executing, Idle
<1>2. BaseInv /\ LeftInv => NoRunLeftBehind
  BY DEF LeftInv, LeftTask, NoRunLeftBehind, Outcomes
<1> QED
  BY <1>1, <1>2, BaseInit, BaseStep, LeftStep, PTL DEF RunsSpec

---------------------------------------------------------------------------
(* A run ends as its stream said.  The stream is written before the status *)
(* it calls for, so in between the two differ: what a reader may rely on   *)
(* depends on where the task is.                                           *)

(* The tasks of which that is expected, and what holds of their streams.   *)
EndOwed(q) ==
  /\ task[q].pc \notin {"idle", "dead"} /\ Sole(q)
  /\ q \notin faulted \cup killed \cup lost

EndTask(q) ==
  LET said == stream[task[q].run]
      is   == runs[task[q].run] IN
  /\ task[q].pc \in {"graph", "publish"} => said = <<>>
  /\ task[q].pc = "status" => said = <<task[q].event>>
  /\ task[q].pc \in {"spend", "terminal"} => said = <<is>>
  /\ task[q].pc = "done" => said = <<is, "end">>

EndInv ==
  /\ failing \subseteq killed
  /\ \A r \in Runs : TasksOf(r) = {} => stream[r] = <<>>
  /\ \A q \in Requests : EndOwed(q) => EndTask(q)

(* A task keeps its run, so one that is its run's only task always was.    *)
TasksKeepRuns ==
  \A q \in Requests : task[q] # Idle => task'[q] # Idle /\ task'[q].run = task[q].run

HistoriesGrow == faulted \subseteq faulted' /\ killed \subseteq killed' /\ lost \subseteq lost'

LEMMA TasksOfGrow ==
  ASSUME TasksKeepRuns
  PROVE  /\ \A r : TasksOf(r) \subseteq TasksOf(r)'
         /\ \A q \in Requests : task[q] # Idle /\ Sole(q)' => Sole(q)
<1>1. \A r : TasksOf(r) \subseteq TasksOf(r)'
  BY DEF TasksOf, TasksKeepRuns
<1> QED
  BY <1>1 DEF Sole, TasksOf, TasksKeepRuns

(* The tasks a step does not touch, nor their runs.                        *)
LEMMA EndTaskKept ==
  ASSUME RunsTypeOK, TasksKeepRuns, HistoriesGrow, NEW q \in Requests,
         EndOwed(q) => EndTask(q), task'[q] = task[q],
         stream'[task[q].run] = stream[task[q].run],
         \/ runs'[task[q].run] = runs[task[q].run]
         \/ task[q].pc \notin {"spend", "terminal", "done"},
         EndOwed(q)'
  PROVE  EndTask(q)'
<1>1. task[q] # Idle
  BY IdleOrNot DEF EndOwed
<1>2. EndOwed(q)
  BY <1>1, TasksOfGrow DEF EndOwed, HistoriesGrow
<1> QED
  BY <1>2 DEF EndTask

(* A step that touches no task: it makes a run row at the most.            *)
LEMMA EndRequestMoves ==
  ASSUME RunsTypeOK, LeftInv, EndInv, UNCHANGED <<task, stream>>, HistoriesGrow,
         failing' \subseteq killed',
         \A r \in Runs : runs[r] # "none" => runs'[r] = runs[r]
  PROVE  EndInv'
<1>1. TasksKeepRuns
  BY DEF TasksKeepRuns
<1>2. ASSUME NEW q \in Requests, EndOwed(q)' PROVE EndTask(q)'
  <2>1. task[q].run \in Runs /\ runs[task[q].run] # "none"
    BY <1>2, TaskKnown DEF EndOwed, TaskState, LeftInv, LeftTask
  <2> QED
    BY <1>1, <1>2, <2>1, EndTaskKept DEF EndInv
<1> QED
  BY <1>2 DEF EndInv, TasksOf

(* A step of one task, which touches no run but its own.                   *)
LEMMA EndTaskMoves ==
  ASSUME RunsTypeOK, EndInv, NEW q \in Requests, task[q] # Idle, TasksKeepRuns, HistoriesGrow,
         \A p \in Requests \ {q} : task'[p] = task[p],
         \A r \in Runs \ {task[q].run} : stream'[r] = stream[r] /\ runs'[r] = runs[r],
         failing' \subseteq killed',
         EndOwed(q)' => EndTask(q)'
  PROVE  EndInv'
<1>1. ASSUME NEW p \in Requests \ {q}, EndOwed(p)' PROVE EndTask(p)'
  <2>1. task[p] # Idle /\ task[p].run \in Runs
    BY <1>1, IdleOrNot, TaskKnown DEF EndOwed, TaskState
  <2>2. Sole(p)
    BY <1>1, <2>1, TasksOfGrow DEF EndOwed
  <2>3. task[p].run # task[q].run
    BY <2>1, <2>2 DEF Sole, TasksOf
  <2> QED
    BY <1>1, <2>1, <2>3, EndTaskKept DEF EndInv
<1>2. ASSUME NEW r \in Runs, TasksOf(r)' = {} PROVE stream'[r] = <<>>
  <2>1. TasksOf(r) = {}
    BY <1>2, TasksOfGrow
  <2>2. r # task[q].run
    BY <2>1 DEF TasksOf
  <2> QED
    BY <2>1, <2>2 DEF EndInv
<1> QED
  BY <1>1, <1>2 DEF EndInv

(* One step below per action.                                              *)
LEMMA EndStep == BaseInv /\ LeftInv /\ EndInv /\ [NextRuns]_runVars => EndInv'
<1> SUFFICES ASSUME BaseInv, LeftInv, EndInv, [NextRuns]_runVars PROVE EndInv'
  OBVIOUS
<1> RunsTypeOK /\ RequestsInOrder
  BY DEF BaseInv
<1>1. ASSUME NEW q \in Requests,
             \/ \E kind \in {"run", "steps"}, key \in Keys \cup {Absent}, asked \in Chosen \cup {Absent} :
                  Arrive(q, kind, key, asked)
             \/ Lookup(q) \/ CheckQuota(q) \/ CheckBudget(q) \/ GetOrCreateRun(q) \/ NextStepIndex(q)
             \/ LogExternalStep(q) \/ StoreResponse(q) \/ RequestFails(q)
      PROVE  EndInv'
  <2>1. UNCHANGED <<task, stream, failing, faulted, killed, lost>>
    BY <1>1
    DEF Arrive, Lookup, CheckQuota, CheckBudget, GetOrCreateRun, NextStepIndex, LogExternalStep,
        StoreResponse, RequestFails, tables, serving, histories
  <2>2. \/ UNCHANGED runs
        \/ \E r : runs' = [runs EXCEPT ![r] = IF @ = "none" THEN "running" ELSE @]
    BY <1>1
    DEF Arrive, Lookup, CheckQuota, CheckBudget, GetOrCreateRun, NextStepIndex, LogExternalStep,
        StoreResponse, RequestFails, tables
  <2>3. \A r \in Runs : runs[r] # "none" => runs'[r] = runs[r]
    BY <2>2 DEF RunsTypeOK
  <2> QED
    BY <2>1, <2>3, EndRequestMoves DEF EndInv, HistoriesGrow
<1>2. ASSUME NEW q \in Requests, NEW r \in Runs, CreateRun(q, r) PROVE EndInv'
  <2> DEFINE new == [pc |-> "graph", at |-> 0, event |-> "none", run |-> r]
  <2>1. /\ request[q].pc = "create" /\ task' = [task EXCEPT ![q] = new]
        /\ runs' = [runs EXCEPT ![r] = IF @ = "none" THEN "running" ELSE @]
        /\ UNCHANGED <<stream, failing, faulted, killed, lost>>
    BY <1>2 DEF CreateRun, At, serving, histories
  <2>2. task[q] = Idle
    BY <2>1 DEF RequestsInOrder, Past, Executed
  <2>3. /\ task'[q] = new /\ \A p \in Requests \ {q} : task'[p] = task[p]
        /\ new.run = r /\ new # Idle
    BY <2>1 DEF RunsTypeOK, Idle
  <2>4. TasksKeepRuns
    BY <2>2, <2>3 DEF TasksKeepRuns
  <2>5. ASSUME NEW p \in Requests, EndOwed(p)' PROVE EndTask(p)'
    <3>1. CASE p = q
      <4>1. TasksOf(r) \subseteq {q}
        BY <2>3, <2>4, <2>5, <3>1, TasksOfGrow DEF EndOwed, Sole
      <4>2. TasksOf(r) = {}
        BY <2>2, <4>1 DEF TasksOf
      <4> QED
        BY <2>1, <2>3, <3>1, <4>2 DEF EndInv, EndTask
    <3>2. CASE p # q
      <4>1. task[p].pc # "idle" /\ task[p].run \in Runs /\ runs[task[p].run] # "none"
        BY <2>3, <2>5, <3>2, TaskKnown DEF EndOwed, TaskState, LeftInv, LeftTask
      <4>2. runs'[task[p].run] = runs[task[p].run]
        BY <2>1, <4>1 DEF RunsTypeOK
      <4> QED
        BY <2>1, <2>3, <2>4, <2>5, <3>2, <4>2, EndTaskKept DEF EndInv, HistoriesGrow
    <3> QED
      BY <3>1, <3>2
  <2>6. \A x \in Runs : TasksOf(x)' = {} => stream'[x] = <<>>
    BY <2>1, <2>4, TasksOfGrow DEF EndInv
  <2> QED
    BY <2>1, <2>5, <2>6 DEF EndInv
<1>3. ASSUME NEW q \in Requests, Serve(q) PROVE EndInv'
  BY <1>1, <1>2, <1>3 DEF Serve
<1>4. ASSUME NEW q \in Requests, TaskStep(q) \/ TaskCallFails(q) PROVE EndInv'
  <2> DEFINE r == task[q].run
  <2>1. /\ task[q].pc \notin {"idle", "done", "dead"} /\ task[q] \in TaskState /\ r \in Runs
        /\ UNCHANGED <<failing, killed, lost>>
    BY <1>4, TaskStepTask
  <2>2. PICK me \in TaskState : task' = [task EXCEPT ![q] = me] /\ me.run = r /\ TaskGoes(q, me)
    BY <1>4, TaskStepTask
  <2>3. /\ task'[q] = me /\ task[q] # Idle /\ me # Idle
        /\ \A p \in Requests \ {q} : task'[p] = task[p]
    BY <2>1, <2>2, IdleOrNot DEF RunsTypeOK, TaskState, Idle, TaskPcs
  <2>4. TasksKeepRuns
    BY <2>2, <2>3 DEF TasksKeepRuns
  <2>5. LeftTask(q) /\ (EndOwed(q)' /\ q \notin faulted => EndTask(q))
    <3>1. EndOwed(q)' /\ q \notin faulted => EndOwed(q)
      BY <2>1, <2>3, <2>4, TasksOfGrow DEF EndOwed
    <3> QED
      BY <2>1, <3>1 DEF LeftInv, EndInv
  <2>6. stream[r] \in Seq(Outcomes \cup {"none", "end"})
    BY <2>1 DEF RunsTypeOK
  <2> HIDE DEF r
  <2>7. /\ faulted \subseteq faulted'
        /\ \A x \in Runs \ {r} : stream'[x] = stream[x] /\ runs'[x] = runs[x]
        /\ EndOwed(q)' => EndTask(q)'
    <3>1. CASE RunNode(q) /\ me.pc = "graph"
      <4>1. task[q].pc = "graph" /\ UNCHANGED <<runs, stream, faulted>>
        BY <3>1 DEF RunNode, histories
      <4> QED
        BY <2>2, <2>3, <2>5, <3>1, <4>1 DEF EndTask, EndOwed, r
    <3>2. CASE (NodeRaises(q) \/ GraphEnds(q)) /\ me.pc = "publish" /\ me.event \in Outcomes
      <4>1. task[q].pc = "graph" /\ UNCHANGED <<runs, stream, faulted>>
        BY <3>2 DEF NodeRaises, GraphEnds, histories, tables
      <4> QED
        BY <2>2, <2>3, <2>5, <3>2, <4>1 DEF EndTask, EndOwed, r
    <3>3. CASE PublishOutcome(q) /\ me.pc = "status" /\ me.event = task[q].event
      <4>1. /\ task[q].pc = "publish" /\ UNCHANGED <<runs, faulted>>
            /\ stream' = [stream EXCEPT ![r] = Append(@, me.event)]
        BY <3>3 DEF PublishOutcome, histories, tables, r
      <4>2. me.event \in Outcomes
        BY <2>5, <3>3, <4>1 DEF LeftTask
      <4>3. stream'[r] = Append(stream[r], me.event) /\ \A x \in Runs \ {r} : stream'[x] = stream[x]
        BY <2>1, <4>1, <4>2, StreamAppends DEF r
      <4>4. EndOwed(q)' => stream'[r] = <<me.event>>
        <5>1. EndOwed(q)' => stream[r] = <<>>
          BY <2>5, <4>1 DEF EndTask, EndOwed, r
        <5> QED
          BY <2>6, <4>2, <4>3, <5>1, AppendsOf
      <4> QED
        BY <2>2, <2>3, <3>3, <4>1, <4>3, <4>4 DEF EndTask, r
    <3>4. CASE SetRunStatus(q) /\ me.pc = IF task[q].event = "complete" THEN "spend" ELSE "terminal"
      <4>1. /\ task[q].pc = "status" /\ UNCHANGED <<stream, faulted>>
            /\ runs' = [runs EXCEPT ![r] = task[q].event]
        BY <3>4 DEF SetRunStatus, histories, r
      <4>2. runs'[r] = task[q].event /\ \A x \in Runs \ {r} : runs'[x] = runs[x]
        BY <2>1, <4>1 DEF RunsTypeOK, r
      <4>3. me.pc \in {"spend", "terminal"}
        BY <3>4
      <4> QED
        BY <2>2, <2>3, <2>5, <4>1, <4>2, <4>3 DEF EndTask, EndOwed, r
    <3>5. CASE RecordTokenSpend(q) /\ me.pc = "terminal"
      <4>1. task[q].pc = "spend" /\ UNCHANGED <<runs, stream, faulted>>
        BY <3>5 DEF RecordTokenSpend, histories
      <4> QED
        BY <2>2, <2>3, <2>5, <3>5, <4>1 DEF EndTask, EndOwed, r
    <3>6. CASE FailRun(q) \/ PublishError(q)
      <4>1. /\ task[q].pc \in {"fail", "handler"} /\ UNCHANGED faulted
            /\ \/ UNCHANGED stream /\ runs' = [runs EXCEPT ![r] = "error"]
               \/ UNCHANGED runs /\ stream' = [stream EXCEPT ![r] = Append(@, "error")]
        BY <3>6 DEF FailRun, PublishError, histories, tables, r
      <4>2. q \in faulted \cup lost
        BY <2>5, <4>1 DEF LeftTask
      <4>3. ~ EndOwed(q)'
        BY <2>1, <4>1, <4>2 DEF EndOwed
      <4>4. \A x \in Runs \ {r} : stream'[x] = stream[x] /\ runs'[x] = runs[x]
        BY <4>1 DEF RunsTypeOK
      <4> QED
        BY <4>1, <4>3, <4>4
    <3>7. CASE PublishTerminal(q) /\ me.pc = "done"
      <4>1. /\ task[q].pc = "terminal" /\ UNCHANGED <<runs, faulted>>
            /\ stream' = [stream EXCEPT ![r] = Append(@, "end")]
        BY <3>7 DEF PublishTerminal, histories, tables, r
      <4>2. stream'[r] = Append(stream[r], "end") /\ \A x \in Runs \ {r} : stream'[x] = stream[x]
        BY <2>1, <4>1, StreamAppends DEF r
      <4>3. EndOwed(q)' => stream[r] = <<runs[r]>>
        BY <2>5, <4>1 DEF EndTask, EndOwed, r
      <4>4. EndOwed(q)' => stream'[r] = <<runs[r], "end">>
        <5>1. \A a : stream[r] = <<a>> => Append(stream[r], "end") = <<a, "end">>
          <6>1. "end" \in Outcomes \cup {"none", "end"}
            OBVIOUS
          <6> QED
            BY <2>6, <6>1, AppendsOf
        <5> QED
          BY <4>2, <4>3, <5>1
      <4> QED
        BY <2>2, <2>3, <3>7, <4>1, <4>2, <4>4 DEF EndTask, r
    <3>8. CASE TaskCallFails(q)
      <4>1. UNCHANGED <<runs, stream>> /\ faulted' = faulted \cup {q}
        BY <3>8 DEF TaskCallFails, tables
      <4> QED
        BY <4>1 DEF EndOwed
    <3> QED
      BY <2>2, <3>1, <3>2, <3>3, <3>4, <3>5, <3>6, <3>7, <3>8 DEF TaskGoes
  <2>8. HistoriesGrow /\ failing' \subseteq killed'
    BY <2>1, <2>7 DEF HistoriesGrow, EndInv
  <2> QED
    BY <2>3, <2>4, <2>7, <2>8, EndTaskMoves DEF r
<1>5. CASE (\E k \in Keys : PurgeKey(k)) \/ Shutdown \/ DrainEnds \/ Restart \/ UNCHANGED runVars
  <2>1. UNCHANGED <<runs, task, stream, failing, faulted, killed, lost>>
    BY <1>5 DEF PurgeKey, Shutdown, DrainEnds, Restart, runVars, tables, serving, histories
  <2> QED
    BY <2>1, EndRequestMoves DEF EndInv, HistoriesGrow
<1>6. ASSUME NEW q \in Requests, AbandonRun(q) PROVE EndInv'
  <2>1. UNCHANGED <<runs, stream, faulted, lost>>
    BY <1>6 DEF AbandonRun, tables
  <2>2. CASE Alive(q)
    <3>1. failing' = {q} /\ killed' = killed \cup {q}
      BY <1>6, <2>2 DEF AbandonRun
    <3>2. /\ task[q] # Idle /\ task'[q].run = task[q].run
          /\ \A p \in Requests \ {q} : task'[p] = task[p]
          /\ \A p \in Requests : task'[p] = Idle <=> task[p] = Idle
      BY <1>6, <2>2, AbandonMoves, IdleOrNot DEF Alive
    <3>3. TasksKeepRuns
      BY <3>2 DEF TasksKeepRuns
    <3> QED
      BY <2>1, <3>1, <3>2, <3>3, EndTaskMoves DEF HistoriesGrow, EndOwed
  <2>3. CASE ~ Alive(q)
    <3>1. UNCHANGED <<task, failing, killed>>
      BY <1>6, <2>3 DEF AbandonRun
    <3> QED
      BY <2>1, <3>1, EndRequestMoves DEF EndInv, HistoriesGrow
  <2> QED
    BY <2>2, <2>3
<1>7. ASSUME NEW q \in Requests, FailAbandoned(q) PROVE EndInv'
  <2>1. /\ q \in failing /\ failing' = {} /\ faulted \subseteq faulted'
        /\ UNCHANGED <<task, stream, killed, lost>>
        /\ UNCHANGED runs \/ runs' = [runs EXCEPT ![task[q].run] = StillRunning(@)]
    BY <1>7 DEF FailAbandoned
  <2>2. q \in killed
    BY <2>1 DEF EndInv
  <2>3. task[q] # Idle /\ TasksKeepRuns
    BY <2>1, <2>2, IdleOrNot DEF LeftInv, TasksKeepRuns
  <2>4. \A r \in Runs \ {task[q].run} : runs'[r] = runs[r]
    BY <2>1 DEF RunsTypeOK
  <2> QED
    BY <2>1, <2>2, <2>3, <2>4, EndTaskMoves DEF HistoriesGrow, EndOwed
<1>8. CASE Stop \/ Crash
  <2>1. /\ \A p \in Requests : task'[p] = Idle <=> task[p] = Idle
        /\ \A p \in Requests : IF Alive(p)
              THEN task'[p].pc = "dead" /\ task'[p].run = task[p].run ELSE task'[p] = task[p]
        /\ failing' = {} /\ UNCHANGED <<runs, stream, faulted, killed>>
    BY <1>8, EndsMoves DEF Stop, Crash
  <2>2. HistoriesGrow /\ TasksKeepRuns
    BY <1>8, <2>1 DEF Stop, Crash, HistoriesGrow, TasksKeepRuns
  <2>3. ASSUME NEW q \in Requests, EndOwed(q)' PROVE EndTask(q)'
    <3>1. task'[q] = task[q]
      BY <2>1, <2>3 DEF EndOwed
    <3> QED
      BY <2>1, <2>2, <2>3, <3>1, EndTaskKept DEF EndInv
  <2>4. \A r \in Runs : TasksOf(r)' = {} => stream'[r] = <<>>
    BY <2>1, <2>2, TasksOfGrow DEF EndInv
  <2> QED
    BY <2>1, <2>3, <2>4 DEF EndInv
<1> QED
  BY <1>3, <1>4, <1>5, <1>6, <1>7, <1>8 DEF NextRuns, StopRuns

(* Whoever reads a run's stream to its end finds the run in the status the *)
(* stream announced.                                                       *)
THEOREM RunEndsAsItSaidAlways == RunsSpec => []RunEndsAsItSaid
<1>1. InitRuns => LeftInv /\ EndInv
  BY DEF InitRuns, LeftInv, EndInv, EndOwed, Executing, Idle
<1>2. BaseInv /\ LeftInv /\ EndInv => RunEndsAsItSaid
  <2> SUFFICES ASSUME BaseInv, LeftInv, EndInv, NEW q \in Requests,
                      Alive(q) \/ task[q].pc = "done", Sole(q), q \notin faulted \cup killed \cup lost,
                      "end" \in Range(stream[task[q].run])
               PROVE  stream[task[q].run] = <<runs[task[q].run], "end">>
    BY DEF RunEndsAsItSaid
  <2> DEFINE said == stream[task[q].run]
  <2>1. /\ task[q] \in TaskState /\ LeftTask(q) /\ EndTask(q)
        /\ task[q].pc \notin {"idle", "dead", "handler", "fail"}
    <3>1. task[q].pc \notin {"idle", "dead"}
      BY DEF Alive
    <3> QED
      BY <3>1, TaskKnown DEF BaseInv, LeftInv, LeftTask, EndInv, EndOwed
  <2>2. runs[task[q].run] # "end"
    BY <2>1 DEF BaseInv, RunsTypeOK, TaskState, Outcomes
  <2>3. task[q].pc = "status" => task[q].event # "end"
    BY <2>1 DEF LeftTask, Outcomes
  <2>4. \E i \in DOMAIN said : said[i] = "end"
    BY DEF Range
  <2>5. said # <<>> /\ \A e : e # "end" => said # <<e>>
    BY <2>4
  <2> HIDE DEF said
  <2>6. task[q].pc = "done"
    BY <2>1, <2>2, <2>3, <2>5 DEF EndTask, TaskState, TaskPcs, said
  <2> QED
    BY <2>1, <2>6 DEF EndTask
<1> QED
  BY <1>1, <1>2, BaseInit, BaseStep, LeftStep, EndStep, PTL DEF RunsSpec

---------------------------------------------------------------------------
(* The steps of a run are numbered once.  Within a pipeline it is the      *)
(* numbering itself: of two steps the later has more hashes before it.     *)
(* Among the clients' steps it is their not overlapping: each is numbered  *)
(* with the rows there were when its request counted them.                 *)

LEMMA HashesFinite ==
  ASSUME NEW n, NEW i
  PROVE  /\ IsFiniteSet(Hashes(UpTo(n, i)))
         /\ Hashes(UpTo(n, i)) \subseteq (NodeSteps \X (0..4))
<1>1. Hashes(UpTo(n, i)) \subseteq (NodeSteps \X (0..4))
  <2> SUFFICES ASSUME NEW p \in UpTo(n, i), NEW k \in 0 .. build_graph[p[1]][p[2]]
               PROVE  p \in NodeSteps /\ k \in 0..4
    BY DEF Hashes
  <2>1. p \in NodeSteps
    BY DEF UpTo
  <2> DEFINE last == build_graph[p[1]][p[2]]
  <2>2. last \in 0..4 /\ k \in 0..last
    BY <2>1, NodeStepsOf
  <2> HIDE DEF last
  <2> QED
    BY <2>1, <2>2
<1>2. NodeSteps \subseteq ((1..4) \X (1..3))
  <2>1. \A p \in NodeSteps : p = <<p[1], p[2]>> /\ p[1] \in 1..4 /\ p[2] \in 1..3
    BY NodeStepsOf
  <2> QED
    BY <2>1
<1>3. IsFiniteSet((1..4) \X (1..3)) /\ IsFiniteSet(0..4)
  <2>1. \A a, b \in Int : IsFiniteSet(a..b)
    BY FS_Interval
  <2>2. 0 \in Int /\ 1 \in Int /\ 3 \in Int /\ 4 \in Int
    OBVIOUS
  <2>3. IsFiniteSet(1..4) /\ IsFiniteSet(1..3) /\ IsFiniteSet(0..4)
    BY <2>1, <2>2, Zenon
  <2> QED
    BY <2>3, FS_Product
<1>4. IsFiniteSet(NodeSteps \X (0..4))
  BY <1>2, <1>3, FS_Subset, FS_Product
<1> QED
  BY <1>1, <1>4, FS_Subset

(* The order of the steps of the graph.                                    *)
Before(p, q) == p[1] < q[1] \/ (p[1] = q[1] /\ p[2] < q[2])

LEMMA NumbersGrow ==
  ASSUME NEW p \in NodeSteps, NEW q \in NodeSteps, Before(p, q)
  PROVE  StepIndex(p[1], p[2]) < StepIndex(q[1], q[2])
<1> DEFINE P == Hashes(UpTo(p[1], p[2]))
           Q == Hashes(UpTo(q[1], q[2]))
<1>1. p[1] \in 1..4 /\ p[2] \in 1..3 /\ q[1] \in 1..4 /\ q[2] \in 1..3
  BY NodeStepsOf
<1>2. UpTo(p[1], p[2]) \subseteq UpTo(q[1], q[2])
  <2> SUFFICES ASSUME NEW x \in NodeSteps, x[1] < p[1] \/ (x[1] = p[1] /\ x[2] <= p[2])
               PROVE  x[1] < q[1] \/ (x[1] = q[1] /\ x[2] <= q[2])
    BY DEF UpTo
  <2>1. x[1] \in 1..4 /\ x[2] \in 1..3
    BY NodeStepsOf
  <2> QED
    BY <1>1, <2>1 DEF Before
<1>3. P \subseteq Q
  BY <1>2 DEF Hashes
<1>4. <<q, 0>> \in Q
  <2>1. q \in UpTo(q[1], q[2])
    BY <1>1 DEF UpTo
  <2>2. 0 \in 0 .. build_graph[q[1]][q[2]]
    <3> DEFINE last == build_graph[q[1]][q[2]]
    <3>1. last \in 0..4
      BY NodeStepsOf
    <3> HIDE DEF last
    <3>2. 0 \in 0..last
      BY <3>1
    <3> QED
      BY <3>2 DEF last
  <2> QED
    BY <2>1, <2>2 DEF Hashes
<1>5. <<q, 0>> \notin P
  <2>1. q \notin UpTo(p[1], p[2])
    BY <1>1 DEF UpTo, Before
  <2> QED
    BY <2>1 DEF Hashes
<1>6. IsFiniteSet(P) /\ IsFiniteSet(Q)
  BY HashesFinite
<1> HIDE DEF P, Q
<1>7. Cardinality(P) < Cardinality(Q) /\ Cardinality(P) \in Nat /\ Cardinality(Q) \in Nat
  BY <1>3, <1>4, <1>5, <1>6, FS_Subset, FS_CardinalityType
<1>8. Cardinality(P) - 1 < Cardinality(Q) - 1
  BY <1>7
<1> QED
  BY <1>8 DEF StepIndex, P, Q

(* No two steps of the graph have the same number.                         *)
LEMMA NumbersApart ==
  ASSUME NEW p \in NodeSteps, NEW q \in NodeSteps, StepIndex(p[1], p[2]) = StepIndex(q[1], q[2])
  PROVE  p = q
<1>1. /\ p = <<p[1], p[2]>> /\ q = <<q[1], q[2]>>
      /\ p[1] \in 1..4 /\ p[2] \in 1..3 /\ q[1] \in 1..4 /\ q[2] \in 1..3
  BY NodeStepsOf
<1>2. ASSUME NEW x \in NodeSteps PROVE StepIndex(x[1], x[2]) \in Int
  BY HashesFinite, FS_CardinalityType DEF StepIndex
<1>3. ~ Before(p, q) /\ ~ Before(q, p)
  BY <1>2, NumbersGrow
<1>4. p[1] = q[1] /\ p[2] = q[2]
  BY <1>1, <1>3 DEF Before
<1> QED
  BY <1>1, <1>4

(* A client's step is numbered below the rows of its run, a request that   *)
(* has counted them above every one logged before, unless one was logged   *)
(* since: then it is entangled.                                            *)
NumberInv ==
  /\ \A s \in steps : s.at = 0 => s.index < Cardinality(StepsOf(s.run))
  /\ \A q \in Requests : At(q, "log") =>
       /\ request[q].index <= Cardinality(StepsOf(request[q].asked))
       /\ q \in entangled \/ \A s \in StepsOf(request[q].asked) : s.at = 0 => s.index < request[q].index
  /\ \A s, t \in steps : s.at = 0 /\ t.at = 0 /\ s # t /\ s.run = t.run /\ s.index = t.index =>
       {s.by, t.by} \cap entangled # {}

(* The rows of a run are finitely many, and grow.                          *)
RowsIn(S, r) == {s \in S : s.run = r}

LEMMA RowsGrow ==
  ASSUME RunsTypeOK, RunsTypeOK', steps \subseteq steps', NEW r
  PROVE  /\ Cardinality(RowsIn(steps, r)) \in Nat /\ Cardinality(RowsIn(steps', r)) \in Nat
         /\ Cardinality(RowsIn(steps, r)) <= Cardinality(RowsIn(steps', r))
<1>1. /\ IsFiniteSet(RowsIn(steps, r)) /\ IsFiniteSet(RowsIn(steps', r))
      /\ RowsIn(steps, r) \subseteq RowsIn(steps', r)
  BY FS_Subset DEF RunsTypeOK, RowsIn
<1> QED
  BY <1>1, FS_Subset, FS_CardinalityType

LEMMA RowTypes ==
  ASSUME RunsTypeOK, NEW s \in steps, s.at = 0
  PROVE  s.index \in Nat
<1>1. \A p \in NodeSteps : p[1] # 0
  BY NodeStepsOf
<1> QED
  BY <1>1 DEF RunsTypeOK, StepRows, ExternalRow, PipelineRow

(* A step that logs no step of a client, and counts for none.              *)
LEMMA NumberKept ==
  ASSUME RunsTypeOK, RunsTypeOK', NumberInv, steps \subseteq steps',
         \A s \in steps' \ steps : s.at # 0, entangled \subseteq entangled',
         \A q \in Requests : At(q, "log")' => request'[q] = request[q]
  PROVE  NumberInv'
<1>1. ASSUME NEW s \in steps', s.at = 0 PROVE s.index < Cardinality(RowsIn(steps', s.run))
  <2>1. s \in steps /\ s.index < Cardinality(RowsIn(steps, s.run)) /\ s.index \in Nat
    BY <1>1, RowTypes DEF NumberInv, StepsOf, RowsIn
  <2>2. /\ Cardinality(RowsIn(steps, s.run)) \in Nat /\ Cardinality(RowsIn(steps', s.run)) \in Nat
        /\ Cardinality(RowsIn(steps, s.run)) <= Cardinality(RowsIn(steps', s.run))
    BY RowsGrow
  <2> QED
    BY <2>1, <2>2
<1>2. ASSUME NEW q \in Requests, At(q, "log")'
      PROVE  /\ request'[q].index <= Cardinality(RowsIn(steps', request'[q].asked))
             /\ \/ q \in entangled'
                \/ \A s \in RowsIn(steps', request'[q].asked) : s.at = 0 => s.index < request'[q].index
  <2> DEFINE r == request[q].asked
  <2>1. request'[q] = request[q] /\ At(q, "log")
    BY <1>2 DEF At
  <2>2. request[q].index \in Nat
    BY <2>1, RequestKnown DEF At, RequestState
  <2>3. request[q].index <= Cardinality(RowsIn(steps', r))
    <3>1. request[q].index <= Cardinality(RowsIn(steps, r))
      BY <2>1 DEF NumberInv, StepsOf, RowsIn
    <3> QED
      BY <2>2, <3>1, RowsGrow
  <2>4. q \in entangled' \/ \A s \in RowsIn(steps', r) : s.at = 0 => s.index < request[q].index
    BY <2>1 DEF NumberInv, StepsOf, RowsIn
  <2> QED
    BY <2>1, <2>3, <2>4
<1>3. ASSUME NEW s \in steps', NEW t \in steps', s.at = 0, t.at = 0, s # t, s.run = t.run, s.index = t.index
      PROVE  {s.by, t.by} \cap entangled' # {}
  <2>1. s \in steps /\ t \in steps
    BY <1>3
  <2> QED
    BY <1>3, <2>1 DEF NumberInv
<1> QED
  BY <1>1, <1>2, <1>3 DEF NumberInv, StepsOf, RowsIn

(* One step below per action; the clients' requests are the ones that      *)
(* number and log steps.                                                   *)
LEMMA NumberStep == BaseInv /\ BaseInv' /\ NumberInv /\ [NextRuns]_runVars => NumberInv'
<1> SUFFICES ASSUME BaseInv, BaseInv', NumberInv, [NextRuns]_runVars PROVE NumberInv'
  OBVIOUS
<1> RunsTypeOK /\ RunsTypeOK' /\ RequestsInOrder
  BY DEF BaseInv
<1>1. ASSUME NEW q \in Requests, NEW me, request' = [request EXCEPT ![q] = me], me.pc # "log",
             UNCHANGED <<steps, entangled>>
      PROVE  NumberInv'
  <2>1. request'[q] = me /\ \A p \in Requests \ {q} : request'[p] = request[p]
    BY <1>1 DEF RunsTypeOK
  <2> QED
    BY <1>1, <2>1, NumberKept DEF At
<1>2. ASSUME NEW q \in Requests, request[q].pc # "idle", NEW pc \in RequestPcs \ {"log"}, Goto(q, pc),
             UNCHANGED <<steps, entangled>>
      PROVE  NumberInv'
  <2>1. PICK me \in RequestState : request' = [request EXCEPT ![q] = me] /\ me.pc = pc
    BY <1>2, GotoMoves
  <2> QED
    BY <1>1, <1>2, <2>1
<1>3. ASSUME NEW q \in Requests, NEW kind \in {"run", "steps"}, NEW key \in Keys \cup {Absent},
             NEW asked \in Chosen \cup {Absent}, Arrive(q, kind, key, asked)
      PROVE  NumberInv'
  <2> DEFINE me == [pc |-> IF key # Absent THEN "lookup" ELSE IF kind = "run" THEN "quota" ELSE "own",
                    kind |-> kind, key |-> key, asked |-> asked, index |-> 0]
  <2>1. request' = [request EXCEPT ![q] = me] /\ UNCHANGED <<steps, entangled>>
    BY <1>3 DEF Arrive, tables, histories
  <2>2. me.pc # "log"
    OBVIOUS
  <2> HIDE DEF me
  <2> QED
    BY <1>1, <2>1, <2>2
<1>4. ASSUME NEW q \in Requests, Lookup(q) PROVE NumberInv'
  <2>1. PICK pc \in {"answered", "quota", "own"} : Goto(q, pc)
    BY <1>4 DEF Lookup
  <2>2. request[q].pc # "idle" /\ UNCHANGED <<steps, entangled>>
    BY <1>4 DEF Lookup, At, tables
  <2> QED
    BY <1>2, <2>1, <2>2 DEF RequestPcs
<1>5. ASSUME NEW q \in Requests,
             CheckQuota(q) \/ CheckBudget(q) \/ GetOrCreateRun(q) \/ StoreResponse(q) \/ RequestFails(q)
      PROVE  NumberInv'
  <2>1. PICK pc \in {"answered", "budget", "create", "index"} : Goto(q, pc)
    BY <1>5 DEF CheckQuota, CheckBudget, GetOrCreateRun, StoreResponse, RequestFails
  <2>2. request[q].pc # "idle" /\ UNCHANGED <<steps, entangled>>
    BY <1>5
    DEF CheckQuota, CheckBudget, GetOrCreateRun, StoreResponse, RequestFails, At, tables, histories
  <2> QED
    BY <1>2, <2>1, <2>2 DEF RequestPcs
<1>6. ASSUME NEW q \in Requests, NextStepIndex(q) PROVE NumberInv'
  <2> DEFINE r     == request[q].asked
             count == Cardinality(StepsOf(r))
             me    == [request[q] EXCEPT !.index = count, !.pc = "log"]
  <2>1. request' = [request EXCEPT ![q] = me] /\ request[q].pc = "index" /\ UNCHANGED <<steps, entangled>>
    BY <1>6 DEF NextStepIndex, At, tables, histories
  <2>2. request[q] \in RequestState
    BY <2>1, RequestKnown
  <2>3. me.index = count /\ me.asked = r
    BY <2>2 DEF RequestState
  <2>4. count \in Nat
    BY RowsGrow, <2>1 DEF StepsOf, RowsIn
  <2>5. \A s \in StepsOf(r) : s.at = 0 => s.index < count
    BY DEF NumberInv, StepsOf
  <2> HIDE DEF me, count
  <2>6. request'[q] = me /\ \A p \in Requests \ {q} : request'[p] = request[p]
    BY <2>1 DEF RunsTypeOK
  <2>7. ASSUME NEW p \in Requests, At(p, "log")'
        PROVE  /\ request'[p].index <= Cardinality(StepsOf(request'[p].asked))
               /\ \/ p \in entangled
                  \/ \A s \in StepsOf(request'[p].asked) : s.at = 0 => s.index < request'[p].index
    <3>1. CASE p = q
      <4>1. count <= count
        BY <2>4
      <4> QED
        BY <2>3, <2>5, <2>6, <3>1, <4>1 DEF count
    <3>2. CASE p # q
      BY <2>6, <2>7, <3>2 DEF NumberInv, At
    <3> QED
      BY <3>1, <3>2
  <2>8. \A x : StepsOf(x)' = StepsOf(x)
    BY <2>1 DEF StepsOf
  <2> QED
    BY <2>1, <2>7, <2>8 DEF NumberInv, StepsOf
<1>7. ASSUME NEW q \in Requests, LogExternalStep(q) PROVE NumberInv'
  <2> DEFINE r   == request[q].asked
             i   == request[q].index
             entry == ExternalRow(r, i, q)
  <2>1. /\ request[q].pc = "log" /\ steps' = steps \cup {entry}
        /\ request' = [request EXCEPT ![q] = Settled(q)]
        /\ entangled' = entangled \cup {p \in Requests \ {q} : At(p, "log") /\ request[p].asked = r}
    BY <1>7 DEF LogExternalStep, At, ExternalRow
  <2>2. entry.run = r /\ entry.index = i /\ entry.by = q /\ entry.at = 0 /\ i \in Nat
    BY <2>1, RequestKnown DEF ExternalRow, RequestState
  <2>3. entry \notin steps
    <3>1. ~ Executed(q)
      BY <2>1 DEF RequestsInOrder, Past
    <3> QED
      BY <2>2, <3>1 DEF Executed
  <2>4. request'[q].pc # "log" /\ \A p \in Requests \ {q} : request'[p] = request[p]
    BY <2>1, SettledMoves DEF RunsTypeOK
  <2>5. /\ i <= Cardinality(RowsIn(steps, r))
        /\ q \in entangled \/ \A s \in steps : s.run = r /\ s.at = 0 => s.index < i
    BY <2>1 DEF NumberInv, At, StepsOf, RowsIn
  <2> HIDE DEF entry, r, i
  <2>6. i < Cardinality(RowsIn(steps', r))
    <3>1. RowsIn(steps', r) = RowsIn(steps, r) \cup {entry} /\ entry \notin RowsIn(steps, r)
      BY <2>1, <2>2, <2>3 DEF RowsIn
    <3>2. IsFiniteSet(RowsIn(steps, r)) /\ Cardinality(RowsIn(steps, r)) \in Nat
      BY FS_Subset, FS_CardinalityType DEF RunsTypeOK, RowsIn
    <3>3. Cardinality(RowsIn(steps', r)) = Cardinality(RowsIn(steps, r)) + 1
      BY <3>1, <3>2, FS_AddElement
    <3> QED
      BY <2>2, <2>5, <3>2, <3>3
  <2>7. ASSUME NEW s \in steps', s.at = 0 PROVE s.index < Cardinality(RowsIn(steps', s.run))
    <3>1. CASE s = entry
      BY <2>2, <2>6, <3>1
    <3>2. CASE s # entry
      <4>1. s \in steps /\ s.index < Cardinality(RowsIn(steps, s.run)) /\ s.index \in Nat
        BY <2>1, <2>7, <3>2, RowTypes DEF NumberInv, StepsOf, RowsIn
      <4>2. steps \subseteq steps'
        BY <2>1
      <4>3. /\ Cardinality(RowsIn(steps, s.run)) \in Nat /\ Cardinality(RowsIn(steps', s.run)) \in Nat
            /\ Cardinality(RowsIn(steps, s.run)) <= Cardinality(RowsIn(steps', s.run))
        BY <4>2, RowsGrow
      <4> QED
        BY <4>1, <4>3
    <3> QED
      BY <3>1, <3>2
  <2>8. ASSUME NEW p \in Requests, At(p, "log")'
        PROVE  /\ request'[p].index <= Cardinality(RowsIn(steps', request'[p].asked))
               /\ \/ p \in entangled'
                  \/ \A s \in RowsIn(steps', request'[p].asked) : s.at = 0 => s.index < request'[p].index
    <3> DEFINE x == request[p].asked
    <3>1. p # q /\ request'[p] = request[p] /\ At(p, "log")
      BY <2>4, <2>8 DEF At
    <3>2. request[p].index \in Nat
      BY <3>1, RequestKnown DEF At, RequestState
    <3>3. request[p].index <= Cardinality(RowsIn(steps', x))
      <4>1. request[p].index <= Cardinality(RowsIn(steps, x))
        BY <3>1 DEF NumberInv, StepsOf, RowsIn
      <4>2. steps \subseteq steps'
        BY <2>1
      <4>3. /\ Cardinality(RowsIn(steps, x)) \in Nat /\ Cardinality(RowsIn(steps', x)) \in Nat
            /\ Cardinality(RowsIn(steps, x)) <= Cardinality(RowsIn(steps', x))
        BY <4>2, RowsGrow
      <4> QED
        BY <3>2, <4>1, <4>3
    <3>4. p \in entangled' \/ \A s \in RowsIn(steps', x) : s.at = 0 => s.index < request[p].index
      <4>1. CASE x = r
        BY <2>1, <3>1, <4>1
      <4>2. CASE x # r
        <5>1. RowsIn(steps', x) = RowsIn(steps, x)
          BY <2>1, <2>2, <4>2 DEF RowsIn
        <5> QED
          BY <2>1, <3>1, <5>1 DEF NumberInv, StepsOf, RowsIn
      <4> QED
        BY <4>1, <4>2
    <3> QED
      BY <3>1, <3>3, <3>4
  <2>9. ASSUME NEW s \in steps', NEW t \in steps', s.at = 0, t.at = 0, s # t, s.run = t.run,
               s.index = t.index
        PROVE  {s.by, t.by} \cap entangled' # {}
    <3>1. CASE s \in steps /\ t \in steps
      BY <2>1, <2>9, <3>1 DEF NumberInv
    <3>2. ASSUME NEW u \in steps, u.at = 0, u.run = r, u.index = i PROVE q \in entangled'
      <4>1. ~ (i < i)
        BY <2>2
      <4> QED
        BY <2>1, <2>5, <3>2, <4>1
    <3>3. CASE s = entry \/ t = entry
      BY <2>1, <2>2, <2>9, <3>2, <3>3
    <3> QED
      BY <2>1, <3>1, <3>3
  <2> QED
    BY <2>7, <2>8, <2>9 DEF NumberInv, StepsOf, RowsIn
<1>8. ASSUME NEW q \in Requests, NEW r \in Runs, CreateRun(q, r) PROVE NumberInv'
  <2>1. /\ request[q].pc = "create" /\ request' = [request EXCEPT ![q] = Settled(q)]
        /\ UNCHANGED <<steps, entangled>>
    BY <1>8 DEF CreateRun, At, histories
  <2>2. Settled(q).pc # "log"
    BY <2>1, SettledMoves
  <2> QED
    BY <1>1, <2>1, <2>2
<1>9. ASSUME NEW q \in Requests, Serve(q) PROVE NumberInv'
  BY <1>3, <1>4, <1>5, <1>6, <1>7, <1>8, <1>9 DEF Serve
<1>10. ASSUME NEW q \in Requests, TaskStep(q) \/ TaskCallFails(q) PROVE NumberInv'
  BY <1>10, TaskStepTask, TaskStepSteps, NumberKept
<1>11. CASE \/ \E k \in Keys : PurgeKey(k)
            \/ Shutdown \/ DrainEnds \/ Restart \/ UNCHANGED runVars
            \/ \E q \in Requests : AbandonRun(q) \/ FailAbandoned(q)
  <2>1. UNCHANGED <<steps, request, entangled>>
    BY <1>11 DEF PurgeKey, Shutdown, DrainEnds, Restart, AbandonRun, FailAbandoned, runVars, tables, histories
  <2> QED
    BY <2>1, NumberKept
<1>12. CASE Stop \/ Crash
  <2>1. UNCHANGED <<steps, entangled>>
    BY <1>12, EndsMoves DEF Stop, Crash
  <2>2. ASSUME NEW q \in Requests, At(q, "log")' PROVE request'[q] = request[q]
    <3>1. CASE Stop
      BY <3>1 DEF Stop
    <3>2. CASE Crash
      <4>1. request'[q] = IF Executing(q) THEN [request[q] EXCEPT !.pc = "died"] ELSE request[q]
        BY <3>2 DEF Crash
      <4>2. Executing(q) => [request[q] EXCEPT !.pc = "died"].pc = "died"
        BY RequestKnown DEF Executing, RequestState
      <4> QED
        BY <2>2, <4>1, <4>2 DEF At
    <3> QED
      BY <1>12, <3>1, <3>2
  <2> QED
    BY <2>1, <2>2, NumberKept
<1> QED
  BY <1>9, <1>10, <1>11, <1>12 DEF NextRuns, StopRuns

(* Whatever the interleavings, two steps of a run have one number only if  *)
(* clients logged them in requests that overlapped.                        *)
THEOREM StepsNumberedOnceAlways == RunsSpec => []StepsNumberedOnce
<1>1. InitRuns => NumberInv
  BY DEF InitRuns, NumberInv, At, Idle
<1>2. BaseInv /\ NumberInv => StepsNumberedOnce
  <2> SUFFICES ASSUME BaseInv, NumberInv, NEW s \in steps, NEW t \in steps,
                      s # t, s.run = t.run, s.index = t.index, (s.at = 0) = (t.at = 0),
                      s.at # 0 => s.by = t.by
               PROVE  s.at = 0 /\ {s.by, t.by} \cap entangled # {}
    BY DEF StepsNumberedOnce
  <2>1. ASSUME NEW u \in steps, u.at # 0
        PROVE  \E p \in NodeSteps : u = PipelineRow(u.run, p[1], p[2], u.by)
    BY <2>1 DEF BaseInv, RunsTypeOK, StepRows, ExternalRow, PipelineRow
  <2>2. CASE s.at # 0
    <3>1. PICK p \in NodeSteps : s = PipelineRow(s.run, p[1], p[2], s.by)
      BY <2>1, <2>2
    <3>2. PICK x \in NodeSteps : t = PipelineRow(t.run, x[1], x[2], t.by)
      BY <2>1, <2>2
    <3>3. StepIndex(p[1], p[2]) = StepIndex(x[1], x[2])
      BY <3>1, <3>2 DEF PipelineRow
    <3>4. p = x
      BY <3>3, NumbersApart
    <3> QED
      BY <2>2, <3>1, <3>2, <3>4
  <2>3. CASE s.at = 0
    BY <2>3 DEF NumberInv
  <2> QED
    BY <2>2, <2>3
<1> QED
  BY <1>1, <1>2, BaseInit, BaseStep, NumberStep, PTL DEF RunsSpec

---------------------------------------------------------------------------
(* verify-run: what is said of a run that is being written and edited.     *)

(* What the batches keep: of each that was built its leaves, which were    *)
(* logged; its stored root unless falsified; and only what is on chain is  *)
(* recorded as anchored.                                                   *)
Exists(b) == record[b].status # "none"

StoredInv ==
  /\ \A s \in RunSteps : batchOf[s] # None => Exists(batchOf[s])
  /\ \A b \in inHand \cup mined : Exists(b)
  /\ \A b \in BatchIds : Exists(b) =>
       /\ \A s \in record[b].leaves : row[s] # "absent"
       /\ b \notin falsified => record[b].root = built[b]
       /\ record[b].anchor # None =>
            record[b].anchor \in OnChain /\ (b \notin falsified => record[b].anchor = built[b])

(* The batches verify_run has to look at, and what it may say of each.     *)
Mentioned == {verify.batchOf[s] : s \in Present(verify.row)} \ {None}

Vouched(b) == \/ WasIntact(b)
              \/ b \in falsified /\ (b \in verify.silent \/ WasAnchored(b))

Accusable(b) == ~ WasIntact(b) \/ b \in falsified \/ ~ record[b].leaves \subseteq Present(row)

(* The batch in hand is as it was loaded, and once it is rebuilt it agrees *)
(* with the rows as those were loaded.                                     *)
AtInv ==
  LET b == verify.id IN
  /\ b \in Mentioned
  /\ verify.at.leaves = record[b].leaves
  /\ b \notin falsified => verify.at.root = built[b]
  /\ verify.at.anchor # None =>
       verify.at.anchor \in OnChain /\ (b \notin falsified => verify.at.anchor = built[b])
  /\ verify.pc = "consulting" =>
       /\ verify.at.leaves \subseteq Present(verify.row)
       /\ RootOf(verify.row, verify.at.leaves) = verify.at.root
       /\ verify.at.anchor # None

RequestInv ==
  verify.pc # "idle" =>
    /\ \A s \in RunSteps : verify.row[s] = "deleted" => row[s] = "deleted"
    /\ \A b \in Mentioned : Exists(b) /\ \A s \in record[b].leaves : verify.row[s] # "absent"
    /\ verify.todo \cup verify.bad \subseteq Mentioned
    /\ IF verify.pc \in {"rebuilding", "consulting"} THEN AtInv ELSE verify.id = None
    /\ verify.pc = "answered" => verify.todo = {}
    /\ \A b \in Mentioned \ (verify.todo \cup {verify.id}) : b \in verify.bad \/ Vouched(b)
    /\ \A b \in verify.bad : Accusable(b)

VerdictInv == VerifyTypeOK /\ StoredInv /\ RequestInv

(* A root is a root, whatever rows it is of.                               *)
LEMMA RootTypes ==
  ASSUME NEW rows, NEW leaves \in SUBSET RunSteps
  PROVE  RootOf(rows, leaves) \in RootForm
<1>1. RootOf(rows, leaves) \in [leaves -> LeafHashes]
  BY DEF RootOf, LeafOf, LeafHashes
<1> QED
  BY <1>1 DEF RootForm

(* NULL is a root, and nothing a record.                                   *)
LEMMA NoRecordTypes == None \in RootForm /\ NoRecord \in BatchRecord
<1>1. None \in RootForm
  BY DEF RootForm
<1> QED
  BY <1>1 DEF NoRecord, BatchRecord

(* A batch passed, called bad or not asked about leaves a request.        *)
LEMMA RequestTypes ==
  ASSUME NEW r \in Request
  PROVE  /\ Passed(r) \in Request
         /\ Passed(r).pc = "reading"
         /\ \A b \in BatchIds :
              /\ [Passed(r) EXCEPT !.bad = @ \cup {b}] \in Request
              /\ [Passed(r) EXCEPT !.bad = @ \cup {b}].pc = "reading"
              /\ [Passed(r) EXCEPT !.silent = @ \cup {b}] \in Request
              /\ [Passed(r) EXCEPT !.silent = @ \cup {b}].pc = "reading"
  BY NoRecordTypes DEF Passed, Request

(* Every action keeps the types; one step below per action.                *)
LEMMA VerifyTypeStep == VerifyTypeOK /\ [VerifyNext]_verifyVars => VerifyTypeOK'
<1> SUFFICES ASSUME VerifyTypeOK, [VerifyNext]_verifyVars PROVE VerifyTypeOK'
  OBVIOUS
<1> USE VerifyRunAssumption
<1>1. ASSUME NEW s \in RunSteps, AppendStep(s) PROVE VerifyTypeOK'
  BY <1>1 DEF AppendStep, VerifyTypeOK, RowForm
<1>2. ASSUME NEW s \in RunSteps, NEW form \in {"edited", "rewritten", "deleted"}, EditRow(s, form)
      PROVE  VerifyTypeOK'
  BY <1>2 DEF EditRow, VerifyTypeOK, RowForm, workerVars
<1>3. ASSUME NEW b \in BatchIds, NEW leaves \in SUBSET RunSteps, BuildBatch(b, leaves)
      PROVE  VerifyTypeOK'
  <2>1. RootOf(row, leaves) \in RootForm
    BY RootTypes
  <2>2. [leaves |-> leaves, root |-> RootOf(row, leaves), anchor |-> None, status |-> "open"]
          \in BatchRecord
    BY <2>1, NoRecordTypes DEF BatchRecord
  <2>3. record' \in [BatchIds -> BatchRecord] /\ built' \in [BatchIds -> RootForm]
    BY <1>3, <2>1, <2>2 DEF BuildBatch, VerifyTypeOK
  <2> QED
    BY <1>3, <2>3 DEF BuildBatch, VerifyTypeOK
<1>4. ASSUME NEW b \in BatchIds, TransactionMined(b) PROVE VerifyTypeOK'
  BY <1>4 DEF TransactionMined, VerifyTypeOK
<1>5. ASSUME NEW b \in BatchIds, MarkSubmitted(b) PROVE VerifyTypeOK'
  BY <1>5 DEF MarkSubmitted, VerifyTypeOK, BatchRecord, workerVars
<1>6. ASSUME NEW b \in BatchIds, MarkConfirmed(b) PROVE VerifyTypeOK'
  <2>1. [record[b] EXCEPT !.status = "confirmed", !.anchor = built[b]] \in BatchRecord
    BY DEF VerifyTypeOK, BatchRecord
  <2>2. record' = [record EXCEPT ![b] = [record[b] EXCEPT !.status = "confirmed", !.anchor = built[b]]]
    BY <1>6 DEF MarkConfirmed
  <2>3. record' \in [BatchIds -> BatchRecord]
    BY <2>1, <2>2 DEF VerifyTypeOK
  <2>4. outboxRow' \in [RunSteps -> {"none", "pending", "claimed", "anchored"}]
    BY <1>6 DEF MarkConfirmed, VerifyTypeOK
  <2> QED
    BY <1>6, <2>3, <2>4 DEF MarkConfirmed, VerifyTypeOK
<1>7. ASSUME NEW b \in BatchIds, GiveUpBatch(b) PROVE VerifyTypeOK'
  BY <1>7 DEF GiveUpBatch, VerifyTypeOK, BatchRecord
<1>8. ASSUME NEW b \in BatchIds, FalsifyRoot(b) PROVE VerifyTypeOK'
  <2>1. PICK root \in {RootOf(row, record[b].leaves), [s \in record[b].leaves |-> "other"]} :
             record' = [record EXCEPT ![b].root = root]
    BY <1>8 DEF FalsifyRoot
  <2>2. record[b].leaves \in SUBSET RunSteps
    BY DEF VerifyTypeOK, BatchRecord
  <2>3. [s \in record[b].leaves |-> "other"] \in [record[b].leaves -> LeafHashes]
    BY DEF LeafHashes
  <2>4. root \in RootForm
    <3>1. [s \in record[b].leaves |-> "other"] \in RootForm
      BY <2>2, <2>3 DEF RootForm
    <3> QED
      BY <2>1, <2>2, <3>1, RootTypes
  <2> QED
    BY <1>8, <2>1, <2>4 DEF FalsifyRoot, VerifyTypeOK, BatchRecord, workerVars
<1>9. CASE ReapClaims
  BY <1>9 DEF ReapClaims, VerifyTypeOK
<1>10. ASSUME NEW root \in OnChain, ReconcileAnchored(root) PROVE VerifyTypeOK'
  <2>1. root \in RootForm
    BY DEF OnChain, VerifyTypeOK
  <2>2. record' \in [BatchIds -> BatchRecord]
    <3>1. ASSUME NEW b \in BatchIds
          PROVE  [record[b] EXCEPT !.status = "confirmed", !.anchor = root] \in BatchRecord
      BY <2>1 DEF VerifyTypeOK, BatchRecord
    <3> QED
      BY <1>10, <3>1 DEF ReconcileAnchored, VerifyTypeOK
  <2>3. outboxRow' \in [RunSteps -> {"none", "pending", "claimed", "anchored"}]
    BY <1>10 DEF ReconcileAnchored, VerifyTypeOK
  <2> QED
    BY <1>10, <2>2, <2>3 DEF ReconcileAnchored, VerifyTypeOK
<1>11. ASSUME NEW b \in BatchIds, GetBatch(b) PROVE VerifyTypeOK'
  <2>1. verify' \in Request /\ verify'.id = b
    BY <1>11 DEF GetBatch, VerifyTypeOK, Request
  <2>2. b # None
    BY DEF BatchIds
  <2> QED
    BY <1>11, <2>1, <2>2 DEF GetBatch, VerifyTypeOK, workerVars
<1>12. CASE LoadSteps
  <2> DEFINE todo == {batchOf[s] : s \in Present(row)} \ {None}
  <2>1. todo \subseteq BatchIds
    BY DEF Present, VerifyTypeOK
  <2>2. verify' = [pc |-> "reading", row |-> row, batchOf |-> batchOf, todo |-> todo, id |-> None,
                   at |-> NoRecord, bad |-> {}, silent |-> {}]
    BY <1>12 DEF LoadSteps, NoRequest
  <2>3. verify' \in Request
    BY <2>1, <2>2, NoRecordTypes DEF VerifyTypeOK, Request
  <2> QED
    BY <1>12, <2>2, <2>3 DEF LoadSteps, VerifyTypeOK, workerVars
<1>13. CASE CheckBatch
  <2>1. /\ [verify EXCEPT !.pc = "consulting"] \in Request
        /\ [verify EXCEPT !.pc = "consulting"].id = verify.id
    BY DEF VerifyTypeOK, Request
  <2>2. verify \in Request /\ verify.id # None /\ verify.id \in BatchIds
    BY <1>13 DEF CheckBatch, VerifyTypeOK, Request
  <2>3. /\ verify' \in Request
        /\ verify'.pc \in {"rebuilding", "consulting"} => verify'.id # None
    BY <1>13, <2>1, <2>2, RequestTypes DEF CheckBatch
  <2> QED
    BY <1>13, <2>3 DEF CheckBatch, VerifyTypeOK, workerVars
<1>14. CASE CheckOnchain \/ CheckOnchainRaises
  <2>1. verify \in Request /\ verify.id # None /\ verify.id \in BatchIds
    BY <1>14 DEF CheckOnchain, CheckOnchainRaises, VerifyTypeOK, Request
  <2>2. verify' \in Request /\ verify'.pc = "reading"
    <3>1. CASE CheckOnchain
      <4>1. CASE OnchainRootMatches(verify.at)
        <5>1. verify' = [Passed(verify) EXCEPT !.bad = @]
          BY <3>1, <4>1 DEF CheckOnchain
        <5>2. Passed(verify) \in Request /\ Passed(verify).pc = "reading"
          BY <2>1, RequestTypes
        <5>3. [Passed(verify) EXCEPT !.bad = @] = Passed(verify)
          BY <5>2 DEF Request
        <5> QED
          BY <5>1, <5>2, <5>3
      <4>2. CASE ~ OnchainRootMatches(verify.at)
        <5>1. verify' = [Passed(verify) EXCEPT !.bad = @ \cup {verify.id}]
          BY <3>1, <4>2 DEF CheckOnchain
        <5> QED
          BY <2>1, <5>1, RequestTypes
      <4> QED
        BY <4>1, <4>2
    <3>2. CASE CheckOnchainRaises
      BY <2>1, <3>2, RequestTypes DEF CheckOnchainRaises
    <3> QED
      BY <1>14, <3>1, <3>2
  <2> QED
    BY <1>14, <2>2 DEF CheckOnchain, CheckOnchainRaises, VerifyTypeOK, workerVars
<1>16. CASE AnswerRun
  BY <1>16 DEF AnswerRun, VerifyTypeOK, Request, workerVars
<1>17. CASE UNCHANGED verifyVars
  BY <1>17 DEF verifyVars, workerVars, VerifyTypeOK
<1> QED
  BY <1>1, <1>2, <1>3, <1>4, <1>5, <1>6, <1>7, <1>8, <1>9, <1>10, <1>11, <1>12, <1>13, <1>14,
     <1>16, <1>17 DEF VerifyNext

(* What nothing ever takes back: a batch keeps its leaves and the root it  *)
(* was sent with, a logged step stays logged, a deleted one deleted.       *)
Onward ==
  /\ \A b \in BatchIds : Exists(b) =>
       /\ record'[b].status # "none" /\ record'[b].leaves = record[b].leaves
       /\ built'[b] = built[b]
  /\ falsified \subseteq falsified' /\ OnChain \subseteq OnChain'
  /\ \A s \in RunSteps : /\ row[s] = "deleted" => row'[s] = "deleted"
                         /\ row[s] # "absent" => row'[s] # "absent"

(* The others' writes leave a request, and what it may say, as it was.     *)
LEMMA RequestUntouched ==
  ASSUME VerifyTypeOK, StoredInv, RequestInv, Onward, verify' = verify
  PROVE  RequestInv'
<1> SUFFICES ASSUME verify.pc # "idle" PROVE RequestInv'
  BY DEF RequestInv
<1>1. Mentioned' = Mentioned /\ Mentioned \subseteq BatchIds
  BY DEF Mentioned, Present, VerifyTypeOK, Request
<1>2. ASSUME NEW b \in Mentioned
      PROVE  /\ Exists(b) /\ Exists(b)'
             /\ record'[b].leaves = record[b].leaves /\ built'[b] = built[b]
             /\ WasIntact(b)' = WasIntact(b)
             /\ WasAnchored(b) => WasAnchored(b)'
             /\ Vouched(b) => Vouched(b)'
             /\ Accusable(b) => Accusable(b)'
  <2>1. Exists(b) /\ b \in BatchIds
    BY <1>1 DEF RequestInv
  <2>2. /\ record'[b].status # "none" /\ record'[b].leaves = record[b].leaves
        /\ built'[b] = built[b]
    BY <2>1 DEF Onward
  <2>3. /\ WasIntact(b)' = WasIntact(b)
        /\ WasAnchored(b) => WasAnchored(b)'
    BY <2>2 DEF WasIntact, WasAnchored, Onward, RootOf, LeafOf, Present
  <2>4. Vouched(b) => Vouched(b)'
    BY <2>3 DEF Vouched, Onward
  <2>5. Accusable(b) => Accusable(b)'
    <3>1. Present(row)' \cap record[b].leaves \subseteq Present(row)
      <4> SUFFICES ASSUME NEW s \in record[b].leaves, s \in Present(row)' PROVE s \in Present(row)
        OBVIOUS
      <4>1. s \in RunSteps /\ row'[s] \notin {"absent", "deleted"}
        BY DEF Present
      <4>2. row[s] # "absent"
        BY <2>1 DEF StoredInv
      <4> QED
        BY <4>1, <4>2 DEF Onward, Present
    <3> QED
      BY <2>2, <2>3, <3>1 DEF Accusable, Onward
  <2> QED
    BY <2>1, <2>2, <2>3, <2>4, <2>5 DEF Exists
<1>3. IF verify.pc \in {"rebuilding", "consulting"} THEN AtInv' ELSE verify.id = None
  <2> SUFFICES ASSUME verify.pc \in {"rebuilding", "consulting"}, AtInv PROVE AtInv'
    BY DEF RequestInv
  <2>1. verify.id \in Mentioned
    BY DEF AtInv
  <2>2. record'[verify.id].leaves = record[verify.id].leaves /\ built'[verify.id] = built[verify.id]
    BY <1>2, <2>1
  <2> QED
    BY <1>1, <2>2 DEF AtInv, Onward, RootOf, LeafOf, Present
<1>4. \A s \in RunSteps : verify.row[s] = "deleted" => row'[s] = "deleted"
  BY DEF RequestInv, Onward
<1>5. \A b \in Mentioned : Exists(b)' /\ \A s \in record'[b].leaves : verify.row[s] # "absent"
  BY <1>2 DEF RequestInv
<1>6. \A b \in Mentioned \ (verify.todo \cup {verify.id}) : b \in verify.bad \/ Vouched(b)'
  BY <1>2 DEF RequestInv
<1>7. \A b \in verify.bad : Accusable(b)'
  BY <1>2 DEF RequestInv
<1> QED
  BY <1>1, <1>3, <1>4, <1>5, <1>6, <1>7 DEF RequestInv

(* The worker, the indexer and the edits keep what the batches keep, and   *)
(* take nothing back.                                                      *)
LEMMA OthersStep ==
  ASSUME VerifyTypeOK, StoredInv,
         \/ \E s \in RunSteps :
              AppendStep(s) \/ \E form \in {"edited", "rewritten", "deleted"} : EditRow(s, form)
         \/ \E b \in BatchIds :
              \/ \E leaves \in SUBSET RunSteps : BuildBatch(b, leaves)
              \/ TransactionMined(b) \/ MarkSubmitted(b) \/ MarkConfirmed(b)
              \/ GiveUpBatch(b) \/ FalsifyRoot(b)
         \/ ReapClaims \/ (\E root \in OnChain : ReconcileAnchored(root))
  PROVE  StoredInv' /\ Onward
<1> USE VerifyRunAssumption
<1>1. ASSUME NEW s \in RunSteps, AppendStep(s) PROVE StoredInv' /\ Onward
  BY <1>1 DEF AppendStep, VerifyTypeOK, StoredInv, Onward, Exists, OnChain
<1>2. ASSUME NEW s \in RunSteps, NEW form \in {"edited", "rewritten", "deleted"}, EditRow(s, form)
      PROVE  StoredInv' /\ Onward
  <2>1. row[s] \notin {"absent", "deleted"} /\ row' = [row EXCEPT ![s] = form]
    BY <1>2 DEF EditRow, Present
  <2>2. UNCHANGED <<batchOf, record, workerVars, falsified>>
    BY <1>2 DEF EditRow
  <2> QED
    BY <2>1, <2>2 DEF VerifyTypeOK, StoredInv, Onward, Exists, OnChain, workerVars
<1>3. ASSUME NEW b \in BatchIds, NEW leaves \in SUBSET RunSteps, BuildBatch(b, leaves)
      PROVE  StoredInv' /\ Onward
  <2>1. ~ Exists(b) /\ b \notin mined
    BY <1>3 DEF BuildBatch, StoredInv, Exists
  <2>2. /\ record' = [record EXCEPT ![b] = [leaves |-> leaves, root |-> RootOf(row, leaves),
                                            anchor |-> None, status |-> "open"]]
        /\ built' = [built EXCEPT ![b] = RootOf(row, leaves)]
        /\ inHand' = inHand \cup {b}
        /\ UNCHANGED <<row, mined, falsified>>
        /\ leaves \subseteq Present(row)
        /\ batchOf' = [s \in RunSteps |-> IF s \in leaves THEN b ELSE batchOf[s]]
    BY <1>3 DEF BuildBatch
  <2>3. OnChain' = OnChain
    BY <2>1, <2>2 DEF OnChain, VerifyTypeOK
  <2>4. \A c \in BatchIds : IF c = b THEN /\ Exists(c)' /\ record'[c].leaves = leaves
                                          /\ record'[c].anchor = None /\ record'[c].root = built'[c]
                            ELSE /\ Exists(c)' = Exists(c) /\ record'[c] = record[c]
                                 /\ built'[c] = built[c]
    BY <2>2 DEF VerifyTypeOK, Exists
  <2>5. Onward
    BY <2>1, <2>2, <2>3, <2>4 DEF Onward, Exists
  <2>6. \A s \in RunSteps : batchOf'[s] # None => record'[batchOf'[s]].status # "none"
    BY <2>2, <2>4 DEF VerifyTypeOK, StoredInv, Exists
  <2>7. \A c \in inHand' \cup mined' : record'[c].status # "none"
    BY <2>2, <2>4 DEF VerifyTypeOK, StoredInv, Exists
  <2>8. \A s \in leaves : row'[s] # "absent"
    BY <2>2 DEF Present
  <2> QED
    BY <2>2, <2>3, <2>4, <2>5, <2>6, <2>7, <2>8 DEF StoredInv, Exists
<1>4. ASSUME NEW b \in BatchIds, TransactionMined(b) PROVE StoredInv' /\ Onward
  <2>1. OnChain \subseteq OnChain'
    BY <1>4 DEF TransactionMined, OnChain
  <2> QED
    BY <1>4, <2>1 DEF TransactionMined, StoredInv, Onward, Exists
<1>5. ASSUME NEW b \in BatchIds, UNCHANGED <<row, built, mined, falsified>>, b \in inHand,
             inHand' \subseteq inHand,
             \A s \in RunSteps : batchOf'[s] \in {None, batchOf[s]},
             NEW status \in {"open", "confirmed"}, NEW anchor,
             anchor = record[b].anchor \/ (b \in mined /\ anchor = built[b]),
             record' = [record EXCEPT ![b].status = status, ![b].anchor = anchor]
      PROVE  StoredInv' /\ Onward
  <2>1. OnChain' = OnChain
    BY <1>5 DEF OnChain
  <2>2. \A c \in BatchIds : /\ Exists(c)' = Exists(c) /\ record'[c].leaves = record[c].leaves
                            /\ record'[c].root = record[c].root
                            /\ record'[c].anchor = IF c = b THEN anchor ELSE record[c].anchor
    BY <1>5 DEF VerifyTypeOK, BatchRecord, StoredInv, Exists
  <2>3. b \in mined => built[b] \in OnChain
    BY DEF OnChain
  <2>4. Onward
    BY <1>5, <2>1, <2>2 DEF Onward, Exists
  <2>5. \A s \in RunSteps : batchOf'[s] # None => record'[batchOf'[s]].status # "none"
    BY <1>5, <2>2 DEF VerifyTypeOK, StoredInv, Exists
  <2>6. \A c \in inHand' \cup mined' : record'[c].status # "none"
    BY <1>5, <2>2 DEF VerifyTypeOK, StoredInv, Exists
  <2>7. ASSUME NEW c \in BatchIds, Exists(c)'
        PROVE  /\ \A s \in record'[c].leaves : row'[s] # "absent"
               /\ c \notin falsified' => record'[c].root = built'[c]
               /\ record'[c].anchor # None =>
                    /\ record'[c].anchor \in OnChain'
                    /\ c \notin falsified' => record'[c].anchor = built'[c]
    <3>0. row' = row /\ built' = built /\ falsified' = falsified
      BY <1>5
    <3>1. Exists(c)
      BY <2>2, <2>7
    <3>2. /\ \A s \in record[c].leaves : row[s] # "absent"
          /\ c \notin falsified => record[c].root = built[c]
          /\ record[c].anchor # None =>
               record[c].anchor \in OnChain /\ (c \notin falsified => record[c].anchor = built[c])
      BY <3>1 DEF StoredInv
    <3>3. CASE c = b
      <4>1. record'[c].anchor = record[c].anchor \/ (record'[c].anchor = built[c] /\ built[c] \in OnChain)
        BY <1>5, <2>2, <2>3, <3>3
      <4> QED
        BY <2>1, <2>2, <3>0, <3>2, <4>1
    <3>4. CASE c # b
      <4>1. record'[c].anchor = record[c].anchor
        BY <2>2, <3>4
      <4> QED
        BY <2>1, <2>2, <3>0, <3>2, <4>1
    <3> QED
      BY <3>3, <3>4
  <2> QED
    BY <2>4, <2>5, <2>6, <2>7 DEF StoredInv, Exists
<1>6. ASSUME NEW b \in BatchIds, MarkSubmitted(b) \/ MarkConfirmed(b) \/ GiveUpBatch(b)
      PROVE  StoredInv' /\ Onward
  <2>1. [record EXCEPT ![b].status = "open"]
          = [record EXCEPT ![b].status = "open", ![b].anchor = record[b].anchor]
    BY DEF VerifyTypeOK, BatchRecord
  <2>2. CASE MarkSubmitted(b)
    BY <1>5, <2>1, <2>2 DEF MarkSubmitted, workerVars
  <2>3. CASE MarkConfirmed(b)
    BY <1>5, <2>3 DEF MarkConfirmed
  <2>4. CASE GiveUpBatch(b)
    BY <1>5, <2>1, <2>4 DEF GiveUpBatch
  <2> QED
    BY <1>6, <2>2, <2>3, <2>4
<1>7. ASSUME NEW b \in BatchIds, FalsifyRoot(b) PROVE StoredInv' /\ Onward
  <2>1. PICK root : record' = [record EXCEPT ![b].root = root]
    BY <1>7 DEF FalsifyRoot
  <2>2. UNCHANGED <<row, batchOf, built, inHand, mined>> /\ falsified' = falsified \cup {b}
    BY <1>7 DEF FalsifyRoot, workerVars
  <2>3. \A c \in BatchIds : /\ Exists(c)' = Exists(c) /\ record'[c].leaves = record[c].leaves
                            /\ record'[c].status = record[c].status
                            /\ record'[c].anchor = record[c].anchor
                            /\ c # b => record'[c].root = record[c].root
    BY <2>1 DEF VerifyTypeOK, BatchRecord, Exists
  <2>4. OnChain' = OnChain
    BY <2>2 DEF OnChain
  <2>5. \A s \in RunSteps : batchOf'[s] # None => record'[batchOf'[s]].status # "none"
    BY <2>2, <2>3 DEF VerifyTypeOK, StoredInv, Exists
  <2>6. \A c \in inHand' \cup mined' : record'[c].status # "none"
    BY <2>2, <2>3 DEF VerifyTypeOK, StoredInv, Exists
  <2>7. Onward
    BY <2>2, <2>3, <2>4 DEF Onward, Exists
  <2> QED
    BY <2>2, <2>3, <2>4, <2>5, <2>6, <2>7 DEF StoredInv, Exists
<1>8. CASE ReapClaims
  BY <1>8 DEF ReapClaims, StoredInv, Onward, Exists, OnChain
<1>9. ASSUME NEW root \in OnChain, ReconcileAnchored(root) PROVE StoredInv' /\ Onward
  <2>1. UNCHANGED <<row, batchOf, built, inHand, mined, falsified>>
    BY <1>9 DEF ReconcileAnchored
  <2>2. OnChain' = OnChain
    BY <2>1 DEF OnChain
  <2>3. \A c \in BatchIds :
          \/ record'[c] = record[c]
          \/ /\ Exists(c) /\ record[c].root = root
             /\ record'[c] = [record[c] EXCEPT !.status = "confirmed", !.anchor = root]
    BY <1>9 DEF ReconcileAnchored, Exists
  <2>4. \A c \in BatchIds :
          /\ Exists(c)' = Exists(c) /\ record'[c].leaves = record[c].leaves
          /\ record'[c].root = record[c].root
          /\ record'[c].anchor \in {record[c].anchor, root}
          /\ record'[c].anchor # record[c].anchor => record[c].root = root /\ record'[c].anchor = root
    <3> TAKE c \in BatchIds
    <3>1. record[c] \in BatchRecord
      BY DEF VerifyTypeOK
    <3> QED
      BY <2>3, <3>1 DEF BatchRecord, Exists
  <2>5. Onward
    BY <2>1, <2>2, <2>4 DEF Onward, Exists
  <2>6. \A s \in RunSteps : batchOf'[s] # None => record'[batchOf'[s]].status # "none"
    BY <2>1, <2>4 DEF VerifyTypeOK, StoredInv, Exists
  <2>7. \A c \in inHand' \cup mined' : record'[c].status # "none"
    BY <2>1, <2>4 DEF VerifyTypeOK, StoredInv, Exists
  <2>8. ASSUME NEW c \in BatchIds, Exists(c)'
        PROVE  /\ \A s \in record'[c].leaves : row'[s] # "absent"
               /\ c \notin falsified' => record'[c].root = built'[c]
               /\ record'[c].anchor # None =>
                    /\ record'[c].anchor \in OnChain'
                    /\ c \notin falsified' => record'[c].anchor = built'[c]
    BY <2>1, <2>2, <2>4, <2>8 DEF StoredInv
  <2> QED
    BY <2>5, <2>6, <2>7, <2>8 DEF StoredInv, Exists
<1> QED
  BY <1>1, <1>2, <1>3, <1>4, <1>6, <1>7, <1>8, <1>9

(* verify_run's own steps keep what it may say; they write nothing else.   *)
LEMMA VerifySteps ==
  ASSUME VerifyTypeOK, VerifyTypeOK', StoredInv, RequestInv,
         UNCHANGED <<row, batchOf, record, workerVars, falsified>>,
         \/ LoadSteps \/ (\E b \in BatchIds : GetBatch(b)) \/ CheckBatch
         \/ CheckOnchain \/ CheckOnchainRaises \/ AnswerRun
  PROVE  RequestInv'
<1> USE VerifyRunAssumption
<1> PICK id : id = verify.id
  OBVIOUS
<1>1. ASSUME LoadSteps PROVE RequestInv'
  <2>1. /\ verify'.pc = "reading" /\ verify'.row = row /\ verify'.batchOf = batchOf
        /\ verify'.id = None /\ verify'.bad = {} /\ verify'.todo = {batchOf[s] : s \in Present(row)} \ {None}
    BY <1>1 DEF LoadSteps, NoRequest
  <2>2. Mentioned' = verify'.todo
    BY <2>1 DEF Mentioned, Present
  <2>3. ASSUME NEW b \in Mentioned'
        PROVE  Exists(b)' /\ \A s \in record'[b].leaves : verify'.row[s] # "absent"
    <3>1. b \in BatchIds /\ Exists(b)
      BY <2>1, <2>2, <2>3 DEF VerifyTypeOK, StoredInv, Present
    <3> QED
      BY <2>1, <3>1 DEF StoredInv, Exists
  <2> QED
    BY <2>1, <2>2, <2>3 DEF RequestInv
<1>2. ASSUME verify.pc # "idle", verify'.pc # "idle",
             verify'.row = verify.row, verify'.batchOf = verify.batchOf
      PROVE  /\ Mentioned' = Mentioned
             /\ \A s \in RunSteps : verify'.row[s] = "deleted" => row'[s] = "deleted"
             /\ \A b \in Mentioned' : Exists(b)' /\ \A s \in record'[b].leaves : verify'.row[s] # "absent"
             /\ \A b : (WasIntact(b) <=> WasIntact(b)') /\ (WasAnchored(b) <=> WasAnchored(b)')
             /\ \A b : Accusable(b) <=> Accusable(b)'
             /\ \A b : Vouched(b) /\ verify.silent \subseteq verify'.silent => Vouched(b)'
  <2>1. Mentioned' = Mentioned
    BY <1>2 DEF Mentioned
  <2>2. \A s \in RunSteps : verify'.row[s] = "deleted" => row'[s] = "deleted"
    BY <1>2 DEF RequestInv
  <2>3. \A b \in Mentioned' : Exists(b)' /\ \A s \in record'[b].leaves : verify'.row[s] # "absent"
    BY <1>2, <2>1 DEF RequestInv, Exists
  <2>4. \A b : (WasIntact(b) <=> WasIntact(b)') /\ (WasAnchored(b) <=> WasAnchored(b)')
    BY <1>2 DEF WasIntact, WasAnchored, OnChain, workerVars
  <2>5. \A b : Accusable(b) <=> Accusable(b)'
    BY <1>2, <2>4 DEF Accusable
  <2>6. \A b : Vouched(b) /\ verify.silent \subseteq verify'.silent => Vouched(b)'
    BY <1>2, <2>4 DEF Vouched
  <2> QED
    BY <2>1, <2>2, <2>3, <2>4, <2>5, <2>6
<1>3. ASSUME NEW b \in BatchIds, GetBatch(b) PROVE RequestInv'
  <2>1. /\ verify.pc = "reading" /\ b \in verify.todo /\ verify.id = None
        /\ verify' = [verify EXCEPT !.pc = "rebuilding", !.todo = @ \ {b}, !.id = b, !.at = record[b]]
    BY <1>3 DEF GetBatch, RequestInv
  <2>2. /\ verify'.pc = "rebuilding" /\ verify'.row = verify.row /\ verify'.batchOf = verify.batchOf
        /\ verify'.todo = verify.todo \ {b} /\ verify'.id = b /\ verify'.at = record[b]
        /\ verify'.bad = verify.bad /\ verify'.silent = verify.silent
    BY <2>1 DEF VerifyTypeOK, Request
  <2>3. b \in Mentioned /\ Exists(b) /\ None \notin Mentioned
    BY <2>1 DEF RequestInv, Mentioned
  <2>4. AtInv'
    <3>1. OnChain' = OnChain /\ built' = built /\ record' = record /\ falsified' = falsified
      BY DEF OnChain, workerVars
    <3>2. /\ b \notin falsified => record[b].root = built[b]
          /\ record[b].anchor # None =>
               record[b].anchor \in OnChain /\ (b \notin falsified => record[b].anchor = built[b])
      BY <2>3 DEF StoredInv
    <3>3. b \in Mentioned'
      BY <1>2, <2>1, <2>2, <2>3
    <3> QED
      BY <2>2, <3>1, <3>2, <3>3 DEF AtInv
  <2>5. \A c \in Mentioned' \ (verify'.todo \cup {verify'.id}) : c \in verify'.bad \/ Vouched(c)'
    BY <1>2, <2>1, <2>2, <2>3 DEF RequestInv
  <2>6. \A c \in verify'.bad : Accusable(c)'
    BY <1>2, <2>1, <2>2 DEF RequestInv
  <2>7. verify'.todo \cup verify'.bad \subseteq Mentioned'
    BY <1>2, <2>1, <2>2 DEF RequestInv
  <2> QED
    BY <1>2, <2>1, <2>2, <2>4, <2>5, <2>6, <2>7 DEF RequestInv
<1>4. ASSUME verify.pc \in {"rebuilding", "consulting"}, verify'.pc = "reading",
             verify'.row = verify.row, verify'.batchOf = verify.batchOf,
             verify'.todo = verify.todo, verify'.id = None, verify.silent \subseteq verify'.silent,
             \/ verify'.bad = verify.bad \cup {id} /\ Accusable(id)
             \/ verify'.bad = verify.bad /\ Vouched(id)'
      PROVE  RequestInv'
  <2>1. id \in Mentioned
    BY <1>4 DEF RequestInv, AtInv
  <2>2. \A c \in Mentioned' \ (verify'.todo \cup {verify'.id}) : c \in verify'.bad \/ Vouched(c)'
    BY <1>2, <1>4 DEF RequestInv
  <2>3. \A c \in verify'.bad : Accusable(c)'
    BY <1>2, <1>4 DEF RequestInv
  <2>4. verify'.todo \cup verify'.bad \subseteq Mentioned'
    BY <1>2, <1>4, <2>1 DEF RequestInv
  <2> QED
    BY <1>2, <1>4, <2>2, <2>3, <2>4 DEF RequestInv
<1>5. ASSUME CheckBatch PROVE RequestInv'
  <2>1. verify.pc = "rebuilding" /\ verify \in Request /\ AtInv
    BY <1>5 DEF CheckBatch, VerifyTypeOK, RequestInv
  <2>2. /\ id \in Mentioned /\ Exists(id) /\ \A s \in record[id].leaves : verify.row[s] # "absent"
        /\ verify.at.leaves = record[id].leaves /\ record[id].leaves \subseteq RunSteps
    <3>1. id \in Mentioned /\ Mentioned \subseteq BatchIds
      BY <2>1 DEF AtInv, Mentioned, Present, Request
    <3> QED
      BY <2>1, <3>1 DEF AtInv, RequestInv, VerifyTypeOK, BatchRecord
  <2>3. CASE RebuildFails
    <3>1. Accusable(id)
      BY <2>1, <2>2, <2>3 DEF RebuildFails, Accusable, WasIntact, AtInv
    <3>2. verify' = [Passed(verify) EXCEPT !.bad = @ \cup {id}]
      BY <1>5, <2>3 DEF CheckBatch
    <3>3. /\ verify'.pc = "reading" /\ verify'.row = verify.row /\ verify'.batchOf = verify.batchOf
          /\ verify'.todo = verify.todo /\ verify'.id = None /\ verify'.silent = verify.silent
          /\ verify'.bad = verify.bad \cup {id}
      BY <2>1, <3>2 DEF Passed, Request
    <3> QED
      BY <1>4, <2>1, <3>1, <3>3
  <2>4. ASSUME ~ RebuildFails
        PROVE  /\ verify.at.leaves \subseteq Present(verify.row)
               /\ RootOf(verify.row, verify.at.leaves) = verify.at.root
               /\ id \notin falsified => WasIntact(id)
    <3>1. verify.at.leaves \subseteq Present(row) /\ RootOf(verify.row, verify.at.leaves) = verify.at.root
      BY <2>4 DEF RebuildFails
    <3>2. verify.at.leaves \subseteq Present(verify.row)
      BY <2>1, <2>2, <3>1 DEF Present, RequestInv
    <3> QED
      BY <2>1, <2>2, <3>1, <3>2 DEF WasIntact, AtInv
  <2>5. CASE ~ RebuildFails /\ verify.at.anchor = None
    <3>1. verify' = [Passed(verify) EXCEPT !.silent = @ \cup {id}]
      BY <1>5, <2>5 DEF CheckBatch
    <3>2. /\ verify'.pc = "reading" /\ verify'.row = verify.row /\ verify'.batchOf = verify.batchOf
          /\ verify'.todo = verify.todo /\ verify'.id = None
          /\ verify'.silent = verify.silent \cup {id} /\ verify'.bad = verify.bad
      BY <2>1, <3>1 DEF Passed, Request
    <3>3. Vouched(id)'
      BY <1>2, <2>1, <2>4, <2>5, <3>2 DEF Vouched
    <3> QED
      BY <1>4, <2>1, <3>2, <3>3
  <2>6. CASE ~ RebuildFails /\ verify.at.anchor # None
    <3>1. verify' = [verify EXCEPT !.pc = "consulting"]
      BY <1>5, <2>6 DEF CheckBatch
    <3>2. /\ verify'.pc = "consulting" /\ verify'.row = verify.row /\ verify'.batchOf = verify.batchOf
          /\ verify'.todo = verify.todo /\ verify'.id = id /\ verify'.at = verify.at
          /\ verify'.bad = verify.bad /\ verify'.silent = verify.silent
      BY <2>1, <3>1 DEF Request
    <3>3. AtInv'
      BY <1>2, <2>1, <2>4, <2>6, <3>2 DEF AtInv, OnChain, workerVars
    <3>4. \A c \in Mentioned' \ (verify'.todo \cup {verify'.id}) : c \in verify'.bad \/ Vouched(c)'
      BY <1>2, <2>1, <3>2 DEF RequestInv
    <3>5. \A c \in verify'.bad : Accusable(c)'
      BY <1>2, <2>1, <3>2 DEF RequestInv
    <3>6. verify'.todo \cup verify'.bad \subseteq Mentioned'
      BY <1>2, <2>1, <3>2 DEF RequestInv
    <3> QED
      BY <1>2, <2>1, <3>2, <3>3, <3>4, <3>5, <3>6 DEF RequestInv
  <2> QED
    BY <2>3, <2>5, <2>6
<1>6. ASSUME verify.pc = "consulting"
      PROVE  /\ verify \in Request
             /\ id \notin falsified => WasIntact(id) /\ OnchainRootMatches(verify.at)
             /\ OnchainRootMatches(verify.at) => WasAnchored(id)
  BY <1>6 DEF RequestInv, AtInv, WasIntact, WasAnchored, OnchainRootMatches, VerifyTypeOK
<1>7. ASSUME CheckOnchain PROVE RequestInv'
  <2>1. verify.pc = "consulting"
    BY <1>7 DEF CheckOnchain
  <2>2. /\ verify'.pc = "reading" /\ verify'.row = verify.row /\ verify'.batchOf = verify.batchOf
        /\ verify'.todo = verify.todo /\ verify'.id = None /\ verify'.silent = verify.silent
        /\ verify'.bad = IF OnchainRootMatches(verify.at) THEN verify.bad ELSE verify.bad \cup {id}
    BY <1>6, <1>7, <2>1 DEF CheckOnchain, Passed, Request
  <2>3. CASE OnchainRootMatches(verify.at)
    <3>1. Vouched(id)
      BY <1>6, <2>1, <2>3 DEF Vouched
    <3>2. Vouched(id)'
      BY <1>2, <2>1, <2>2, <3>1
    <3> QED
      BY <1>4, <2>1, <2>2, <2>3, <3>2
  <2>4. CASE ~ OnchainRootMatches(verify.at)
    <3>1. Accusable(id)
      BY <1>6, <2>1, <2>4 DEF Accusable
    <3> QED
      BY <1>4, <2>1, <2>2, <2>4, <3>1
  <2> QED
    BY <2>3, <2>4
<1>8. ASSUME CheckOnchainRaises PROVE RequestInv'
  <2>1. verify.pc = "consulting"
    BY <1>8 DEF CheckOnchainRaises
  <2>2. /\ verify'.pc = "reading" /\ verify'.row = verify.row /\ verify'.batchOf = verify.batchOf
        /\ verify'.todo = verify.todo /\ verify'.id = None
        /\ verify'.silent = verify.silent \cup {id} /\ verify'.bad = verify.bad
    BY <1>6, <1>8, <2>1 DEF CheckOnchainRaises, Passed, Request
  <2>3. Vouched(id)'
    BY <1>2, <1>6, <2>1, <2>2 DEF Vouched
  <2> QED
    BY <1>4, <2>1, <2>2, <2>3
<1>9. ASSUME AnswerRun PROVE RequestInv'
  <2>1. /\ verify.pc = "reading" /\ verify.todo = {} /\ verify.id = None
        /\ verify' = [verify EXCEPT !.pc = "answered"]
    BY <1>9 DEF AnswerRun, RequestInv
  <2>2. /\ verify'.pc = "answered" /\ verify'.row = verify.row /\ verify'.batchOf = verify.batchOf
        /\ verify'.todo = verify.todo /\ verify'.id = None
        /\ verify'.bad = verify.bad /\ verify'.silent = verify.silent
    BY <2>1 DEF VerifyTypeOK, Request
  <2>3. \A c \in Mentioned' \ (verify'.todo \cup {verify'.id}) : c \in verify'.bad \/ Vouched(c)'
    BY <1>2, <2>1, <2>2 DEF RequestInv
  <2>4. \A c \in verify'.bad : Accusable(c)'
    BY <1>2, <2>1, <2>2 DEF RequestInv
  <2>5. verify'.todo \cup verify'.bad \subseteq Mentioned'
    BY <1>2, <2>1, <2>2 DEF RequestInv
  <2> QED
    BY <1>2, <2>1, <2>2, <2>3, <2>4, <2>5 DEF RequestInv
<1> QED
  BY <1>1, <1>3, <1>5, <1>7, <1>8, <1>9

(* Its variables are initially in their types.                             *)
LEMMA VerifyTypeInit == VerifyInit => VerifyTypeOK
<1> SUFFICES ASSUME VerifyInit PROVE VerifyTypeOK
  OBVIOUS
<1>1. NoRequest \in Request
  BY NoRecordTypes DEF NoRequest, Request, RowForm
<1> QED
  BY <1>1, NoRecordTypes, VerifyRunAssumption DEF VerifyInit, VerifyTypeOK, RowForm, NoRequest

(* Every variable of a run's verification stays in its type.               *)
THEOREM VerifyTypeCorrect == VerifySpec => []VerifyTypeOK
  BY VerifyTypeInit, VerifyTypeStep, PTL DEF VerifySpec

(* Whatever the worker, the indexer and the edits do between its steps, and*)
(* however often it is asked, verify-run is right about the run it loaded. *)
THEOREM VerdictIsRightAlways == VerifySpec => []VerdictIsRight
<1>1. VerifyInit => VerdictInv
  <2> SUFFICES ASSUME VerifyInit PROVE VerdictInv
    OBVIOUS
  <2>1. VerifyTypeOK
    BY VerifyTypeInit
  <2>2. StoredInv
    BY DEF VerifyInit, StoredInv, Exists, NoRecord
  <2> QED
    BY <2>1, <2>2 DEF VerdictInv, VerifyInit, RequestInv, NoRequest
<1>2. VerdictInv /\ [VerifyNext]_verifyVars => VerdictInv'
  <2> SUFFICES ASSUME VerdictInv, [VerifyNext]_verifyVars PROVE VerdictInv'
    OBVIOUS
  <2>1. VerifyTypeOK /\ VerifyTypeOK' /\ StoredInv /\ RequestInv
    BY VerifyTypeStep DEF VerdictInv
  <2>2. CASE UNCHANGED verifyVars
    BY <2>1, <2>2 DEF verifyVars, workerVars, VerdictInv, StoredInv, RequestInv, AtInv, Exists, Mentioned,
         OnChain, Vouched, Accusable, WasIntact, WasAnchored
  <2>3. CASE \/ LoadSteps \/ (\E b \in BatchIds : GetBatch(b)) \/ CheckBatch
             \/ CheckOnchain \/ CheckOnchainRaises \/ AnswerRun
    <3>1. UNCHANGED <<row, batchOf, record, workerVars, falsified>>
      BY <2>3 DEF LoadSteps, GetBatch, CheckBatch, CheckOnchain, CheckOnchainRaises, AnswerRun
    <3>2. RequestInv'
      BY <2>1, <2>3, <3>1, VerifySteps
    <3>3. StoredInv'
      BY <2>1, <3>1 DEF StoredInv, Exists, OnChain, workerVars
    <3> QED
      BY <2>1, <3>2, <3>3 DEF VerdictInv
  <2>4. CASE \/ \E s \in RunSteps :
                  AppendStep(s) \/ \E form \in {"edited", "rewritten", "deleted"} : EditRow(s, form)
             \/ \E b \in BatchIds :
                  \/ \E leaves \in SUBSET RunSteps : BuildBatch(b, leaves)
                  \/ TransactionMined(b) \/ MarkSubmitted(b) \/ MarkConfirmed(b)
                  \/ GiveUpBatch(b) \/ FalsifyRoot(b)
             \/ ReapClaims \/ (\E root \in OnChain : ReconcileAnchored(root))
    <3>1. StoredInv' /\ Onward
      BY <2>1, <2>4, OthersStep
    <3>2. verify' = verify
      BY <2>4 DEF AppendStep, EditRow, BuildBatch, TransactionMined, MarkSubmitted, MarkConfirmed,
           GiveUpBatch, FalsifyRoot, ReapClaims, ReconcileAnchored
    <3> QED
      BY <2>1, <3>1, <3>2, RequestUntouched DEF VerdictInv
  <2> QED
    BY <2>2, <2>3, <2>4 DEF VerifyNext
<1>3. VerdictInv => VerdictIsRight
  <2> SUFFICES ASSUME VerdictInv, verify.pc = "answered", NEW s \in Present(verify.row)
               PROVE  LET b == verify.batchOf[s] IN
                      /\ Verified(s) =>
                           /\ verify.row[s] # "edited"
                           /\ b # None => Vouched(b)
                      /\ ~ Verified(s) => verify.row[s] = "edited" \/ (b # None /\ Accusable(b))
    BY DEF VerdictIsRight, Vouched, Accusable
  <2> DEFINE b == verify.batchOf[s]
  <2>1. RequestInv /\ verify.id = None /\ verify.todo = {} /\ verify \in Request
    BY DEF VerdictInv, VerifyTypeOK, RequestInv
  <2>2. b # None => b \in Mentioned /\ b # verify.id
    BY <2>1 DEF Mentioned
  <2>3. b # None => b \in verify.bad \/ Vouched(b)
    BY <2>1, <2>2 DEF RequestInv
  <2>4. b \in verify.bad => b # None /\ Accusable(b)
    BY <2>1, VerifyRunAssumption DEF RequestInv, Request, BatchIds
  <2> QED
    BY <2>3, <2>4 DEF Verified
<1> QED
  BY <1>1, <1>2, <1>3, PTL DEF VerifySpec
===========================================================================
