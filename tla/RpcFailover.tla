----------------------------- MODULE RpcFailover -----------------------------
(***************************************************************************)
(* blockchain/resilient_provider.py: one provider shared by the threads of *)
(* a process, its endpoints tried in order, each retried in place and      *)
(* behind a circuit breaker.  A thread makes one request after another, of *)
(* which only the outcome matters here; ChainWriters says what the requests*)
(* are for.                                                                *)
(***************************************************************************)
EXTENDS Naturals, FiniteSets

CONSTANTS
  Threads,      \* the threads that share the provider
  Endpoints,    \* how many endpoints, tried in the order 1..Endpoints
  Threshold,    \* failure_threshold
  Retries,      \* retry_max_attempts
  MaxOutages,   \* bound: how often an endpoint goes down
  MaxBlips      \* bound: how many attempts at a live endpoint fail

ASSUME SizesAssumption ==
  /\ IsFiniteSet(Threads)
  /\ Endpoints \in Nat \ {0}
  /\ Threshold \in Nat \ {0}
  /\ Retries \in Nat \ {0}

VARIABLES
  breaker,   \* [1..Endpoints -> circuit breaker]
  request,   \* [Threads -> the endpoint and the attempt a thread is at]
  down,      \* the endpoints that do not answer
  faults     \* the bounds used up
providerVars == <<breaker, request, down, faults>>

(* failures is counted up to the threshold, beyond which it makes no       *)
(* difference.  wasted counts the failed requests since the last answer or *)
(* cooldown: a history.                                                    *)
Closed == [failures |-> 0, state |-> "closed", wasted |-> 0]

(* tries = 0: allow_request is yet to be asked.  result is what make_request*)
(* last returned to the thread.                                            *)
NewRequest(result) == [at |-> 1, tries |-> 0, result |-> result]

ProviderInit ==
  /\ breaker = [e \in 1..Endpoints |-> Closed]
  /\ request = [t \in Threads |-> NewRequest("none")]
  /\ down = {}
  /\ faults = [outages |-> 0, blips |-> 0]

---------------------------------------------------------------------------
(* CircuitBreaker.                                                         *)

NeverHalfOpen(e) == breaker[e].state = "closed"
AlwaysAllowed(e) == TRUE

(* "cooled" is the code's half_open: open, the cooldown elapsed.           *)
Allowed(e) == breaker[e].state # "open"

RecordSuccess(e) == breaker' = [breaker EXCEPT ![e] = Closed]

RecordFailure(e) ==
  LET b == breaker[e]
      opens == b.failures + 1 >= Threshold
  IN  breaker' = [breaker EXCEPT ![e] =
        [failures |-> IF opens THEN Threshold ELSE b.failures + 1,
         state |-> IF opens THEN "open" ELSE b.state,
         wasted |-> b.wasted + 1]]

CooldownElapses(e) ==
  /\ breaker[e].state = "open"
  /\ breaker' = [breaker EXCEPT ![e].state = "cooled", ![e].wasted = 0]
  /\ UNCHANGED <<request, down, faults>>

---------------------------------------------------------------------------
(* FallbackHTTPProvider.make_request.                                      *)

At(t) == request[t].at

(* allow_request: asked once, before the attempts at the endpoint.         *)
AllowRequest(t) ==
  /\ At(t) <= Endpoints /\ request[t].tries = 0
  /\ request' = IF Allowed(At(t)) THEN [request EXCEPT ![t].tries = 1]
                                  ELSE [request EXCEPT ![t].at = @ + 1]
  /\ UNCHANGED <<breaker, down, faults>>

Attempting(t) == At(t) <= Endpoints /\ request[t].tries > 0

(* _call_with_retry: the last attempt's exception is one failure.          *)
AttemptRaises(t) ==
  IF request[t].tries < Retries
  THEN request' = [request EXCEPT ![t].tries = @ + 1] /\ UNCHANGED breaker
  ELSE request' = [request EXCEPT ![t].tries = 0, ![t].at = @ + 1] /\ RecordFailure(At(t))

AttemptFails(t) ==
  /\ Attempting(t) /\ At(t) \in down
  /\ AttemptRaises(t)
  /\ UNCHANGED <<down, faults>>

Blip(t) ==
  /\ Attempting(t) /\ At(t) \notin down
  /\ faults.blips < MaxBlips
  /\ AttemptRaises(t)
  /\ faults' = [faults EXCEPT !.blips = @ + 1]
  /\ UNCHANGED down

(* An RPC error is an answer too.                                          *)
Answer(t) ==
  /\ Attempting(t) /\ At(t) \notin down
  /\ RecordSuccess(At(t))
  /\ request' = [request EXCEPT ![t] = NewRequest("answered")]
  /\ UNCHANGED <<down, faults>>

(* AllEndpointsUnavailableError: each was tried, or was open when its turn *)
(* came.                                                                   *)
Unavailable(t) ==
  /\ At(t) > Endpoints
  /\ request' = [request EXCEPT ![t] = NewRequest("unavailable")]
  /\ UNCHANGED <<breaker, down, faults>>

MakeRequest(t) == AllowRequest(t) \/ AttemptFails(t) \/ Answer(t) \/ Unavailable(t)

---------------------------------------------------------------------------
GoDown(e) ==
  /\ e \notin down /\ faults.outages < MaxOutages
  /\ down' = down \cup {e}
  /\ faults' = [faults EXCEPT !.outages = @ + 1]
  /\ UNCHANGED <<breaker, request>>

ComeBack(e) ==
  /\ e \in down
  /\ down' = down \ {e}
  /\ UNCHANGED <<breaker, request, faults>>

(* sample_breaker_states reads and changes nothing.                        *)
ProviderNext ==
  \/ \E t \in Threads : MakeRequest(t) \/ Blip(t)
  \/ \E e \in 1..Endpoints : CooldownElapses(e) \/ GoDown(e) \/ ComeBack(e)

ProviderSpec == ProviderInit /\ [][ProviderNext]_providerVars

(* Threads go on requesting and cooldowns elapse.  Outages need not end.   *)
FairSpec ==
  /\ ProviderSpec
  /\ \A t \in Threads : WF_providerVars(MakeRequest(t))
  /\ \A e \in 1..Endpoints : WF_providerVars(CooldownElapses(e))

---------------------------------------------------------------------------
(* resilient_provider.py:24-30: a dead endpoint is spared.  From an answer *)
(* or a cooldown to the next no more requests fail at it than open its     *)
(* breaker and were in flight when it opened: a trial of every thread, as  *)
(* the code lets them all through half-open.                               *)
DeadEndpointIsSpared ==
  \A e \in 1..Endpoints : breaker[e].wasted < Threshold + Cardinality(Threads)

(* resilient_provider.py:32-34: an outage leaves no mark.  Once an endpoint*)
(* stays up, its breaker closes if requests reach it, and with the primary *)
(* up every thread is eventually answered, whatever late failures of the   *)
(* outage still come in.                                                   *)
OutageSettles ==
  \A t \in Threads : <>[](1 \notin down) => <>[](request[t].result = "answered")
=============================================================================
