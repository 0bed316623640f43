----------------------------- MODULE LiveStreams -----------------------------
(***************************************************************************)
(* The two live feeds of the API, which are Redis streams: the events of a *)
(* run (run_events.py, GET /stream/{run_id}) and the alerts of an          *)
(* organization (alert_events.py, GET /alerts/stream); and what a          *)
(* connection passes first: the token bucket of its address (rate_limit.py)*)
(* and the stream token (auth.py).                                         *)
(*                                                                         *)
(* A tick stands for a minute where the code's constants are concerned.    *)
(* An entry's id is its place among all entries ever added to its stream.  *)
(***************************************************************************)
EXTENDS Naturals, Sequences, FiniteSetsExt, IdOrder

CONSTANTS
  Readers,       \* clients of the run's stream, behind one address
  Watchers,      \* clients of the alert stream
  Batch,         \* entries an XREAD returns at most
  StreamTTL,     \* how long a finished run's stream is kept
  Capacity,      \* of the bucket, which regains a token per tick
  KeepAlerts,    \* MAXLEN of the alert stream
  MaxEvents,     \* bound: events of a pipeline
  MaxPipelines,  \* bound: pipelines started with the run's id
  MaxAlerts,     \* bound: alerts
  MaxTime        \* bound: the clock

ASSUME StreamsAssumption ==
  /\ Batch \in Nat \ {0}
  /\ StreamTTL \in Nat
  /\ Capacity \in Nat

VARIABLES
  now,
  run,      \* the stream of the run, and the pipeline that publishes to it
  reader,   \* [Readers -> connection]
  bucket,   \* the token bucket in Redis
  alerts,   \* the stream of the organization's alerts
  watcher   \* [Watchers -> connection]
vars == <<now, run, reader, bucket, alerts, watcher>>
runVars == <<run, reader, bucket>>
alertVars == <<alerts, watcher>>

(* expires = 0: the key has no TTL.  kept is the id of the first entry kept*)
NewRun == [log |-> <<>>, kept |-> 1, expires |-> 0, pipeline |-> "running", count |-> 1]

NotConnected == [pc |-> "idle", stamp |-> 0, last |-> 0, got |-> <<>>]

(* granted and overtaken are histories.                                    *)
NewBucket == [exists |-> FALSE, tokens |-> 0, updated |-> 0, expires |-> 0,
              granted |-> 0, overtaken |-> FALSE]

(* fromNow: last_id is "$".  at is the id the XREAD in progress waits after*)
Off == [pc |-> "off", fromNow |-> TRUE, at |-> 0, got |-> <<>>]

Init ==
  /\ now = 0
  /\ run = NewRun
  /\ reader = [r \in Readers |-> NotConnected]
  /\ bucket = NewBucket
  /\ alerts = [count |-> 0, kept |-> 1]
  /\ watcher = [w \in Watchers |-> Off]

---------------------------------------------------------------------------
(* The pipeline of the run.                                                *)

EventsOf == Len(SelectSeq(run.log, LAMBDA e : e = "event"))

(* publish_event.                                                          *)
PublishEvent ==
  /\ run.pipeline = "running"
  /\ EventsOf < run.count * MaxEvents
  /\ run' = [run EXCEPT !.log = Append(@, "event")]
  /\ UNCHANGED <<now, reader, bucket, alertVars>>

(* publish_terminal: the marker, and then the TTL.                         *)
PublishTerminal ==
  /\ run.pipeline = "running"
  /\ run' = [run EXCEPT !.log = Append(@, "end"), !.pipeline = "ended"]
  /\ UNCHANGED <<now, reader, bucket, alertVars>>

ExpireStream ==
  /\ run.pipeline = "ended"
  /\ run' = [run EXCEPT !.expires = now + StreamTTL, !.pipeline = "gone"]
  /\ UNCHANGED <<now, reader, bucket, alertVars>>

(* A crash, or Redis out of reach of the call.                             *)
PipelineDies ==
  /\ run.pipeline \in {"running", "ended"}
  /\ run' = [run EXCEPT !.pipeline = "gone"]
  /\ UNCHANGED <<now, reader, bucket, alertVars>>

(* A run id the client chose a second time (RunLifecycle): the stream, its *)
(* end and its TTL are still there.                                        *)
RunAgain ==
  /\ run.pipeline = "gone" /\ run.count < MaxPipelines
  /\ run' = [run EXCEPT !.pipeline = "running", !.count = @ + 1]
  /\ UNCHANGED <<now, reader, bucket, alertVars>>

---------------------------------------------------------------------------
(* Connecting.                                                             *)

(* check_rate_limit reads the clock of its process...                      *)
Connect(r) ==
  /\ reader[r].pc \in {"idle", "complete"}
  /\ reader' = [reader EXCEPT ![r] = [NotConnected EXCEPT !.pc = "stamped", !.stamp = now]]
  /\ UNCHANGED <<now, run, bucket, alertVars>>

(* ... and Redis evaluates the script some time later.                     *)
TokensAt(stamp) ==
  IF ~ bucket.exists THEN Capacity
  ELSE Min({Capacity, bucket.tokens + (IF stamp > bucket.updated THEN stamp - bucket.updated ELSE 0)})

BriefTTL == Capacity - 1
BucketTTL == Capacity + 1

(* Since the clock was read the script ran for a later reading, or the key *)
(* expired.                                                                *)
Overtaken(stamp) == stamp < IF bucket.exists THEN bucket.updated ELSE bucket.expires

TokenBucket(stamp, allowed) ==
  bucket' = [exists |-> TRUE,
             tokens |-> TokensAt(stamp) - (IF allowed THEN 1 ELSE 0),
             updated |-> stamp,
             expires |-> now + BucketTTL,
             granted |-> bucket.granted + (IF allowed THEN 1 ELSE 0),
             overtaken |-> bucket.overtaken \/ Overtaken(stamp)]

(* XREAD from "0".                                                         *)
FromTheEnd == Len(run.log)
FromTheStart == 0

(* The tokens a client may come with: the one POST /runs/{run_id}/         *)
(* stream-token mints for it, an older one, one for another run.           *)
MintedToken == "valid"
StreamTokens == {MintedToken, "expired", "another run's"}

(* The token is looked at once, on connecting.                             *)
Enter(r) ==
  \E token \in StreamTokens :
    reader' = [reader EXCEPT ![r] =
      IF token = MintedToken THEN [NotConnected EXCEPT !.pc = "reading", !.last = FromTheStart] ELSE NotConnected]

Admitted(r) ==
  /\ reader[r].pc = "stamped"
  /\ TokensAt(reader[r].stamp) >= 1
  /\ TokenBucket(reader[r].stamp, TRUE)
  /\ Enter(r)
  /\ UNCHANGED <<now, run, alertVars>>

Limited(r) ==
  /\ reader[r].pc = "stamped"
  /\ TokensAt(reader[r].stamp) < 1
  /\ TokenBucket(reader[r].stamp, FALSE)
  /\ reader' = [reader EXCEPT ![r] = NotConnected]
  /\ UNCHANGED <<now, run, alertVars>>

(* The script fails: the limiter lets the request through.                 *)
FailOpen(r) ==
  /\ reader[r].pc = "stamped"
  /\ Enter(r)
  /\ UNCHANGED <<now, run, bucket, alertVars>>

---------------------------------------------------------------------------
(* read_events.                                                            *)

Available(r) ==
  {id \in run.kept..Len(run.log) : id > reader[r].last}

(* What an XREAD returns, up to the marker.                                *)
Returned(r) ==
  LET ids == {id \in Available(r) : Before(Available(r), id) < Batch}
  IN  {id \in ids : \A k \in ids : run.log[k] = "end" => id <= k}

ReadEvents(r) ==
  /\ reader[r].pc = "reading" /\ Available(r) # {}
  /\ LET ids == Returned(r)
         events == {id \in ids : run.log[id] = "event"}
     IN  reader' = [reader EXCEPT ![r].last = Max(ids),
                                  ![r].got = @ \o InOrder(events),
                                  ![r].pc = IF events = ids THEN "reading" ELSE "complete"]
  /\ UNCHANGED <<now, run, bucket, alertVars>>

(* Silence for 120 seconds, or for the socket's own timeout.               *)
ReadTimeout(r) ==
  /\ reader[r].pc = "reading" /\ Available(r) = {}
  /\ reader' = [reader EXCEPT ![r] = NotConnected]
  /\ UNCHANGED <<now, run, bucket, alertVars>>

Disconnect(r) ==
  /\ reader[r].pc = "reading"
  /\ reader' = [reader EXCEPT ![r] = NotConnected]
  /\ UNCHANGED <<now, run, bucket, alertVars>>

---------------------------------------------------------------------------
(* The alert stream.                                                       *)

(* publish_alert_event: "MAXLEN ~" keeps KeepAlerts entries or more.       *)
PublishAlert ==
  /\ alerts.count < MaxAlerts
  /\ \E kept \in alerts.kept..(alerts.count + 1) :
       /\ kept = alerts.kept \/ alerts.count + 2 - kept >= KeepAlerts
       /\ alerts' = [count |-> alerts.count + 1, kept |-> kept]
  /\ UNCHANGED <<now, runVars, watcher>>

Subscribe(w) ==
  /\ watcher[w].pc = "off"
  /\ watcher' = [watcher EXCEPT ![w] = [Off EXCEPT !.pc = "between"]]
  /\ UNCHANGED <<now, runVars, alerts>>

(* XREAD: Redis resolves "$" when the call arrives.                        *)
Block(w) ==
  /\ watcher[w].pc = "between"
  /\ watcher' = [watcher EXCEPT ![w].pc = "blocked",
                                ![w].at = IF watcher[w].fromNow THEN alerts.count ELSE @]
  /\ UNCHANGED <<now, runVars, alerts>>

Fresh(w) == {id \in alerts.kept..alerts.count : id > watcher[w].at}

StillFromNow == TRUE
FromLastId == FALSE

Receive(w) ==
  /\ watcher[w].pc = "blocked" /\ Fresh(w) # {}
  /\ LET ids == {id \in Fresh(w) : Before(Fresh(w), id) < Batch}
     IN  watcher' = [watcher EXCEPT ![w].pc = "between", ![w].fromNow = FromLastId,
                                    ![w].at = Max(ids), ![w].got = @ \o InOrder(ids)]
  /\ UNCHANGED <<now, runVars, alerts>>

(* A keep-alive goes out; last_id is what it was.                          *)
KeepAlive(w) ==
  /\ watcher[w].pc = "blocked" /\ Fresh(w) = {}
  /\ watcher' = [watcher EXCEPT ![w].pc = "between"]
  /\ UNCHANGED <<now, runVars, alerts>>

Unsubscribe(w) ==
  /\ watcher[w].pc # "off"
  /\ watcher' = [watcher EXCEPT ![w] = Off]
  /\ UNCHANGED <<now, runVars, alerts>>

---------------------------------------------------------------------------
(* Redis drops what has expired.                                           *)
Tick ==
  /\ now < MaxTime
  /\ now' = now + 1
  /\ run' = IF run.expires = now + 1
            THEN [run EXCEPT !.kept = Len(run.log) + 1, !.expires = 0] ELSE run
  /\ bucket' = [bucket EXCEPT !.exists = @ /\ bucket.expires > now + 1]
  /\ UNCHANGED <<reader, alertVars>>

RunFeed ==
  \/ PublishEvent \/ PublishTerminal \/ ExpireStream \/ PipelineDies \/ RunAgain
  \/ \E r \in Readers : \/ Connect(r) \/ Admitted(r) \/ Limited(r) \/ FailOpen(r)
                        \/ ReadEvents(r) \/ ReadTimeout(r) \/ Disconnect(r)
  \/ Tick

AlertFeed ==
  \/ PublishAlert
  \/ \E w \in Watchers : Subscribe(w) \/ Block(w) \/ Receive(w) \/ KeepAlive(w) \/ Unsubscribe(w)

Next == RunFeed \/ AlertFeed

Spec == Init /\ [][Next]_vars

---------------------------------------------------------------------------
(* run_events.py:11-15: a client that connects late sees everything from   *)
(* the beginning.  A connection that was told run_complete has got every   *)
(* event of the run, once and in order, whenever it connected and however  *)
(* slowly it read.  (Only of a run id used once: a second pipeline inherits*)
(* the first one's end and TTL.)                                           *)
CompleteSawAll ==
  \A r \in Readers :
    (run.count = 1 /\ reader[r].pc = "complete") =>
      /\ reader[r].got = [i \in 1..(Len(run.log) - 1) |-> i]
      /\ run.log[Len(run.log)] = "end"

(* alert_events.py:49-50: each alert as it is published.  From the first   *)
(* one it gets a connection gets all, once and in order, but for those     *)
(* MAXLEN dropped before it read them.                                     *)
DeltasHaveNoGap ==
  \A w \in Watchers :
    LET got == watcher[w].got
    IN  \A i \in 1..(Len(got) - 1) :
          /\ got[i] < got[i + 1]
          /\ \A id \in (got[i] + 1)..(got[i + 1] - 1) : id < alerts.kept

(* rate_limit.py:2-8: within its budget, whatever expires in between.  The *)
(* bucket has let through no more than it held and regained, as long as no *)
(* request was overtaken between its clock and Redis.                      *)
BucketHolds == ~ bucket.overtaken => bucket.granted <= Capacity + now
=============================================================================
