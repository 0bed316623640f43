----------------------------- MODULE RunLifecycle -----------------------------
(***************************************************************************)
(* Runs, from the request that starts one to its terminal status: POST     *)
(* /run-agent and POST /steps with their idempotency keys, the background  *)
(* task that drives the agents' pipeline, the stream its readers follow,   *)
(* the organization's token budget, and the shutdown of the API process    *)
(* (main.py, agents/, run_events.py, db/__init__.py, db/idempotency.py).   *)
(*                                                                         *)
(* Between two awaits of a handler or a task anything else may run; an     *)
(* action is what happens between two of them.  Steps and run statuses are *)
(* in PostgreSQL, the stream is in Redis: a call to either may fail.       *)
(*                                                                         *)
(* Abstractions.  One project.  A completed run costs one unit of tokens;  *)
(* a call of an LLM, of a tool or of the chain is a step that may raise.   *)
(* Of a stream the outcomes and the terminal marker are kept.  Rate limits *)
(* and metrics are left out.                                               *)
(*                                                                         *)
(* Faulty variants stand before some definitions, as elsewhere.            *)
(***************************************************************************)
EXTENDS Integers, Sequences, FiniteSets, SequencesExt

CONSTANTS
  Runs,            \* run ids
  Chosen,          \* those among them that clients name in a request
  Keys,            \* values of the Idempotency-Key header
  Absent,          \* no key, or no run id, in a request
  Requests,        \* requests; one that starts a run names its task too
  Quota,           \* monthly_run_quota_per_org
  TokenBudget,     \* organizations.token_budget
  MaxFailures      \* bound: failed calls to PostgreSQL or Redis, crashes, shutdowns

ASSUME RunsAssumption ==
  /\ Absent \notin Runs \cup Keys /\ Chosen \subseteq Runs
  /\ {Quota, TokenBudget, MaxFailures} \subseteq Nat

---------------------------------------------------------------------------
(* A node of the graph, as the steps it logs: for each, the number of      *)
(* scores written on chain since the step before.  What a node awaits in   *)
(* between (tools, the LLM, the chain) changes nothing here: it may raise. *)
researcher_node == <<0, 0, 0>>
validator_node  == <<0, 0, 0>>
scorer_node     == <<0, 4>>
reporter_node   == <<0, 0>>

build_graph == <<researcher_node, validator_node, scorer_node, reporter_node>>

NodeSteps == UNION {{n} \X (DOMAIN build_graph[n]) : n \in DOMAIN build_graph}

(* tx_hashes holds a hash for each step logged and each score written      *)
(* before it, and its length is the index of the next step.  The variant   *)
(* counts from the start of the node.                                      *)
Hashes(logged) == UNION {{p} \X (0 .. build_graph[p[1]][p[2]]) : p \in logged}

UpTo(n, i) == {p \in NodeSteps : p[1] < n \/ (p[1] = n /\ p[2] <= i)}

StepIndexInNode(n, i) == Cardinality(Hashes({p \in UpTo(n, i) : p[1] = n})) - 1
StepIndex(n, i)       == Cardinality(Hashes(UpTo(n, i))) - 1

---------------------------------------------------------------------------
VARIABLES
  runs,       \* runs.status
  steps,      \* rows of steps: run, index, and who logged it from where
  spent,      \* organizations.tokens_spent
  keys,       \* idempotency_keys: those of the requests answered
  stream,     \* the Redis stream of each run
  request,    \* locals of each request's handler
  task,       \* each background task: its pc, place in the program, event and run
  process,    \* the API process: up, draining, abandoning, down
  pending,    \* tasks the shutdown has still to abandon
  failing,    \* the abandoned task whose run is being failed
  failures,   \* calls that failed, and times the process was stopped or died
  faulted,    \* history: tasks one of whose calls failed
  killed,     \* history: tasks a shutdown gave up on
  lost,       \* history: tasks whose process crashed before they, or their run, was settled
  excused,    \* history: keys a second execution is no surprise for
  entangled   \* history: requests to log a step that overlapped another on the run

tables    == <<runs, steps, spent, keys>>
serving   == <<process, pending, failing>>
histories == <<faulted, killed, lost, excused, entangled>>
runVars   == <<tables, stream, request, task, serving, failures, histories>>

Idle == [pc |-> "idle"]

InitRuns ==
  /\ runs = [r \in Runs |-> "none"] /\ steps = {} /\ spent = 0 /\ keys = {}
  /\ stream = [r \in Runs |-> <<>>]
  /\ request = [q \in Requests |-> Idle] /\ task = [q \in Requests |-> Idle]
  /\ process = "up" /\ pending = {} /\ failing = {}
  /\ failures = 0
  /\ faulted = {} /\ killed = {} /\ lost = {} /\ excused = {} /\ entangled = {}

---------------------------------------------------------------------------
(* POST /run-agent and POST /steps.                                        *)

Alive(q) == task[q].pc \notin {"idle", "done", "dead"}

At(q, pc) == request[q].pc = pc

Goto(q, pc) == request' = [request EXCEPT ![q].pc = pc]

Arrive(q, kind, key, asked) ==
  /\ process = "up" /\ At(q, "idle")
  /\ kind = "steps" => asked # Absent
  /\ request' = [request EXCEPT ![q] =
       [pc |-> IF key # Absent THEN "lookup" ELSE IF kind = "run" THEN "quota" ELSE "own",
        kind |-> kind, key |-> key, asked |-> asked, index |-> 0]]
  /\ UNCHANGED <<tables, stream, task, serving, failures, histories>>

(* get_cached_response: the response is replayed, or refused if the key was *)
(* another request's; either way the request is not executed.              *)
Unanswered(k) == {q \in Requests : request[q].pc \notin {"idle", "lookup", "answered", "died"} /\ request[q].key = k}

Lookup(q) ==
  LET k == request[q].key IN
  /\ At(q, "lookup")
  /\ IF k \in keys
     THEN Goto(q, "answered") /\ UNCHANGED excused
     ELSE /\ Goto(q, IF request[q].kind = "run" THEN "quota" ELSE "own")
          /\ excused' = IF Unanswered(k) = {} THEN excused ELSE excused \cup {k}
  /\ UNCHANGED <<tables, stream, task, serving, failures, faulted, killed, lost, entangled>>

(* count_org_runs_in_window: the older runs may have left the window.      *)
CheckQuota(q) ==
  /\ At(q, "quota")
  /\ \E recent \in SUBSET {r \in Runs : runs[r] # "none"} :
       Goto(q, IF Cardinality(recent) >= Quota THEN "answered" ELSE "budget")
  /\ UNCHANGED <<tables, stream, task, serving, failures, histories>>

(* get_org_token_budget_status.                                            *)
Breached == spent >= TokenBudget

CheckBudget(q) ==
  /\ At(q, "budget")
  /\ Goto(q, IF Breached THEN "answered" ELSE "create")
  /\ UNCHANGED <<tables, stream, task, serving, failures, faulted, killed, lost, excused, entangled>>

(* What is left to do after the fact.  The variant forgets the steps.      *)
AfterRun(q)  == IF request[q].key = Absent \/ request[q].kind = "steps" THEN "answered" ELSE "store"
AfterFact(q) == IF request[q].key = Absent THEN "answered" ELSE "store"

Settled(q) == [request[q] EXCEPT !.pc = AfterFact(q), !.asked = Absent, !.index = 0]

(* The row of the run, which an existing one absorbs, and the task, which  *)
(* first publishes run_started.                                            *)
CreateRun(q, r) ==
  /\ At(q, "create")
  /\ IF request[q].asked = Absent THEN r \notin Chosen /\ runs[r] = "none" ELSE r = request[q].asked
  /\ runs' = [runs EXCEPT ![r] = IF @ = "none" THEN "running" ELSE @]
  /\ task' = [task EXCEPT ![q] = [pc |-> "graph", at |-> 0, event |-> "none", run |-> r]]
  /\ request' = [request EXCEPT ![q] = Settled(q)]
  /\ UNCHANGED <<steps, spent, keys, stream, serving, failures, histories>>

GetOrCreateRun(q) ==
  LET r == request[q].asked IN
  /\ At(q, "own")
  /\ runs' = [runs EXCEPT ![r] = IF @ = "none" THEN "running" ELSE @]
  /\ Goto(q, "index")
  /\ UNCHANGED <<steps, spent, keys, stream, task, serving, failures, histories>>

StepsOf(r) == {s \in steps : s.run = r}

NextStepIndex(q) ==
  /\ At(q, "index")
  /\ request' = [request EXCEPT ![q].index = Cardinality(StepsOf(request[q].asked)), ![q].pc = "log"]
  /\ UNCHANGED <<tables, stream, task, serving, failures, histories>>

LogExternalStep(q) ==
  LET me == request[q] IN
  /\ At(q, "log")
  /\ steps' = steps \cup {[run |-> me.asked, index |-> me.index, by |-> q, at |-> 0, step |-> 0]}
  /\ entangled' = entangled \cup {p \in Requests \ {q} : At(p, "log") /\ request[p].asked = me.asked}
  /\ request' = [request EXCEPT ![q] = Settled(q)]
  /\ UNCHANGED <<runs, spent, keys, stream, task, serving, failures, faulted, killed, lost, excused>>

(* store_response, after the fact: the first response stays.               *)
StoreResponse(q) ==
  /\ At(q, "store")
  /\ keys' = keys \cup {request[q].key}
  /\ Goto(q, "answered")
  /\ UNCHANGED <<runs, steps, spent, stream, task, serving, failures, histories>>

(* A call to the database fails: 500.                                      *)
RequestFails(q) ==
  /\ request[q].pc \notin {"idle", "answered", "died"}
  /\ failures < MaxFailures /\ failures' = failures + 1
  /\ excused' = IF At(q, "store") THEN excused \cup {request[q].key} ELSE excused
  /\ Goto(q, "answered")
  /\ UNCHANGED <<tables, stream, task, serving, faulted, killed, lost, entangled>>

(* purge_expired, in the anchor worker.                                    *)
PurgeKey(k) ==
  /\ k \in keys /\ keys' = keys \ {k}
  /\ excused' = excused \cup {k}
  /\ UNCHANGED <<runs, steps, spent, stream, request, task, serving, failures, faulted, killed, lost, entangled>>

---------------------------------------------------------------------------
(* _run_pipeline_background, driving run_pipeline.                         *)

Resume(q, pc) == task' = [task EXCEPT ![q].pc = pc]

Announce(q, event) == task' = [task EXCEPT ![q].pc = "publish", ![q].at = 0, ![q].event = event]

(* The first steps of a node.                                              *)
LogSteps(q, n, count) ==
  steps' = steps \cup {[run |-> task[q].run, index |-> StepIndex(n, i), by |-> q, at |-> n, step |-> i] : i \in 1 .. count}

(* run_started, or a node's steps, are published, and the next node runs   *)
(* to its end.                                                             *)
RunNode(q) ==
  LET n == task[q].at + 1 IN
  /\ task[q].pc = "graph" /\ n <= Len(build_graph)
  /\ LogSteps(q, n, Len(build_graph[n]))
  /\ task' = [task EXCEPT ![q].at = n]
  /\ UNCHANGED <<runs, spent, keys, stream, request, serving, failures, histories>>

(* The steps of the last node are published, and run_complete is next.     *)
GraphEnds(q) ==
  /\ task[q].pc = "graph" /\ task[q].at = Len(build_graph)
  /\ Announce(q, "complete")
  /\ UNCHANGED <<tables, stream, request, serving, failures, histories>>

(* A tool, the LLM, the database or the chain raises, the tools do not     *)
(* load, or the run has used its share of tokens: run_pipeline catches it. *)
NodeRaises(q) ==
  LET n == task[q].at + 1 IN
  /\ task[q].pc = "graph" /\ n <= Len(build_graph)
  /\ \E count \in 0 .. Len(build_graph[n]) - 1 : LogSteps(q, n, count)
  /\ Announce(q, "error")
  /\ UNCHANGED <<runs, spent, keys, stream, request, serving, failures, histories>>

(* publish_event, then the status the event calls for.  The variant, an    *)
(* earlier version of the code, failed no run for an error event.          *)
StatusOnlyIfComplete(q) == IF task[q].event = "complete" THEN "status" ELSE "terminal"
AfterOutcome(q)         == "status"

PublishOutcome(q) ==
  /\ task[q].pc = "publish"
  /\ stream' = [stream EXCEPT ![task[q].run] = Append(@, task[q].event)]
  /\ Resume(q, AfterOutcome(q))
  /\ UNCHANGED <<tables, request, serving, failures, histories>>

(* complete_run or fail_run: a blind UPDATE.                               *)
SetRunStatus(q) ==
  /\ task[q].pc = "status"
  /\ runs' = [runs EXCEPT ![task[q].run] = task[q].event]
  /\ Resume(q, IF task[q].event = "complete" THEN "spend" ELSE "terminal")
  /\ UNCHANGED <<steps, spent, keys, stream, request, serving, failures, histories>>

RecordTokenSpend(q) ==
  /\ task[q].pc = "spend"
  /\ spent' = spent + 1
  /\ Resume(q, "terminal")
  /\ UNCHANGED <<runs, steps, keys, stream, request, serving, failures, histories>>

(* except Exception: an error event, then fail_run.                        *)
PublishError(q) ==
  /\ task[q].pc = "handler"
  /\ stream' = [stream EXCEPT ![task[q].run] = Append(@, "error")]
  /\ Resume(q, "fail")
  /\ UNCHANGED <<tables, request, serving, failures, histories>>

FailRun(q) ==
  /\ task[q].pc = "fail"
  /\ runs' = [runs EXCEPT ![task[q].run] = "error"]
  /\ Resume(q, "terminal")
  /\ UNCHANGED <<steps, spent, keys, stream, request, serving, failures, histories>>

(* finally: publish_terminal.                                              *)
PublishTerminal(q) ==
  /\ task[q].pc = "terminal"
  /\ stream' = [stream EXCEPT ![task[q].run] = Append(@, "end")]
  /\ Resume(q, "done")
  /\ UNCHANGED <<tables, request, serving, failures, histories>>

(* A call to Redis or to PostgreSQL fails: where the exception goes.       *)
Caught == [graph |-> "handler", publish |-> "handler", status |-> "handler", spend |-> "handler",
           handler |-> "terminal", fail |-> "terminal", terminal |-> "done"]

TaskCallFails(q) ==
  /\ task[q].pc \in DOMAIN Caught
  /\ failures < MaxFailures /\ failures' = failures + 1
  /\ faulted' = faulted \cup {q}
  /\ task' = [task EXCEPT ![q].pc = Caught[@], ![q].at = 0]
  /\ UNCHANGED <<tables, stream, request, serving, killed, lost, excused, entangled>>

TaskStep(q) ==
  \/ RunNode(q) \/ NodeRaises(q) \/ GraphEnds(q) \/ PublishOutcome(q) \/ SetRunStatus(q) \/ RecordTokenSpend(q)
  \/ PublishError(q) \/ FailRun(q) \/ PublishTerminal(q)

---------------------------------------------------------------------------
(* The process: lifespan.                                                  *)

Executing(q) == request[q].pc \notin {"idle", "answered", "died"}

(* SIGTERM: the requests under way are served before.                      *)
Shutdown ==
  /\ process = "up" /\ \A q \in Requests : ~Executing(q)
  /\ failures < MaxFailures /\ failures' = failures + 1
  /\ process' = "draining"
  /\ UNCHANGED <<tables, stream, request, task, pending, failing, histories>>

(* The drain ends, with its timeout or with the last task.                 *)
DrainEnds ==
  /\ process = "draining"
  /\ process' = "abandoning"
  /\ pending' = {q \in Requests : Alive(q)}
  /\ UNCHANGED <<tables, stream, request, task, failing, failures, histories>>

(* cancel() sends a task to its finally; one that is over has no run any   *)
(* more.                                                                   *)
AbandonRun(q) ==
  /\ q \in pending /\ failing = {}
  /\ pending' = pending \ {q}
  /\ IF Alive(q)
     THEN /\ Resume(q, IF task[q].pc = "terminal" THEN "done" ELSE "terminal")
          /\ failing' = {q} /\ killed' = killed \cup {q}
     ELSE UNCHANGED <<task, failing, killed>>
  /\ UNCHANGED <<tables, stream, request, process, failures, faulted, lost, excused, entangled>>

(* fail_run_if_still_running.  The variant is the UPDATE under a row level *)
(* security that hides every row.                                          *)
RowsHidden(status)   == status
StillRunning(status) == IF status = "running" THEN "error" ELSE status

FailAbandoned(q) ==
  /\ q \in failing /\ failing' = {}
  /\ \/ /\ runs' = [runs EXCEPT ![task[q].run] = StillRunning(@)]
        /\ UNCHANGED <<failures, faulted>>
     \/ /\ failures < MaxFailures /\ failures' = failures + 1 /\ faulted' = faulted \cup {q}
        /\ UNCHANGED runs
  /\ UNCHANGED <<steps, spent, keys, stream, request, task, process, pending, killed, lost, excused, entangled>>

(* The process ends, whatever its tasks and requests are at.               *)
Ends ==
  /\ process' = "down" /\ pending' = {} /\ failing' = {}
  /\ task' = [q \in Requests |-> IF Alive(q) THEN [task[q] EXCEPT !.pc = "dead", !.at = 0, !.event = "none"] ELSE task[q]]
  /\ UNCHANGED <<tables, stream, faulted, killed, entangled>>

Stop ==
  /\ process = "abandoning" /\ pending = {} /\ failing = {}
  /\ Ends
  /\ UNCHANGED <<request, failures, lost, excused>>

Crash ==
  /\ process # "down"
  /\ failures < MaxFailures /\ failures' = failures + 1
  /\ Ends
  /\ lost' = lost \cup failing \cup {q \in Requests : Alive(q)}
  /\ request' = [q \in Requests |-> IF Executing(q) THEN [request[q] EXCEPT !.pc = "died"] ELSE request[q]]
  /\ excused' = excused \cup {request[q].key : q \in {p \in Requests : At(p, "store")}}

Restart ==
  /\ process = "down" /\ process' = "up"
  /\ UNCHANGED <<tables, stream, request, task, pending, failing, failures, histories>>

---------------------------------------------------------------------------
Serve(q) ==
  \/ \E kind \in {"run", "steps"}, key \in Keys \cup {Absent}, asked \in Chosen \cup {Absent} :
       Arrive(q, kind, key, asked)
  \/ Lookup(q) \/ CheckQuota(q) \/ CheckBudget(q) \/ GetOrCreateRun(q) \/ NextStepIndex(q)
  \/ LogExternalStep(q) \/ StoreResponse(q) \/ RequestFails(q)
  \/ \E r \in Runs : CreateRun(q, r)

StopRuns == DrainEnds \/ Stop \/ (\E q \in Requests : AbandonRun(q) \/ FailAbandoned(q))

NextRuns ==
  \/ \E q \in Requests : Serve(q) \/ TaskStep(q) \/ TaskCallFails(q)
  \/ \E k \in Keys : PurgeKey(k)
  \/ Shutdown \/ StopRuns \/ Crash \/ Restart

RunsSpec == InitRuns /\ [][NextRuns]_runVars

---------------------------------------------------------------------------
(* Properties.                                                             *)

TasksOf(r) == {q \in Requests : task[q] # Idle /\ task[q].run = r}

Sole(q) == TasksOf(task[q].run) = {q}

Executed(q) == task[q] # Idle \/ \E s \in steps : s.by = q /\ s.at = 0

(* A request is executed once per idempotency key, unless two requests     *)
(* with it overlapped, the process died or the database failed between the *)
(* act and the stored response, or the key expired.                        *)
OneRunPerKey ==
  \A k \in Keys \ excused : Cardinality({q \in Requests : request[q] # Idle /\ request[q].key = k /\ Executed(q)}) <= 1

(* The steps of a run are numbered apart if one pipeline logs them, or if  *)
(* requests that do not overlap do.                                        *)
StepsNumberedOnce ==
  \A s, t \in steps :
    /\ s # t /\ s.run = t.run /\ s.index = t.index
    /\ (s.at = 0) = (t.at = 0)
    /\ s.at # 0 => s.by = t.by
    => s.at = 0 /\ {s.by, t.by} \cap entangled # {}

(* Whoever reads a run's stream to its terminal marker finds the run with  *)
(* the status of the outcome read before, unless a call of its task failed *)
(* or it was cut short.                                                    *)
RunEndsAsItSaid ==
  \A q \in Requests :
    /\ Alive(q) \/ task[q].pc = "done"
    /\ Sole(q) /\ q \notin faulted \cup killed \cup lost
    /\ "end" \in Range(stream[task[q].run])
    => stream[task[q].run] = <<runs[task[q].run], "end">>

(* A task that is over leaves its run with a terminal status, also one     *)
(* that a shutdown gave up on; unless its process crashed, or a call to    *)
(* the database or the stream failed.                                      *)
NoRunLeftBehind ==
  \A q \in Requests :
    task[q].pc \in {"done", "dead"} /\ q \notin faulted \cup lost \cup failing =>
      runs[task[q].run] \in {"complete", "error"}
=============================================================================
