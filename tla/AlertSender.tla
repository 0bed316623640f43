----------------------------- MODULE AlertSender -----------------------------
(***************************************************************************)
(* The sender of alert emails (backend/notifications/sender.py): it claims *)
(* the alert_deliveries that raise_alert queued, sends them one by one and *)
(* marks each.  The watchdog's process runs its loop inline; it is written *)
(* for several processes.                                                  *)
(*                                                                         *)
(* send_one is an email and a later UPDATE by id: the reaper and the other *)
(* senders act in between.                                                 *)
(*                                                                         *)
(* Abstractions.  Clocks are nondeterministic: a backoff elapses and a     *)
(* claim outlives its timeout at any moment, so that any pending deliveries*)
(* may be claimed and any claims reaped.  An alert is never deleted.       *)
(*                                                                         *)
(* Faulty variants of some definitions stand before them; no action uses   *)
(* one, they serve to confirm that the properties notice such a fault.     *)
(***************************************************************************)
EXTENDS Naturals, FiniteSets

CONSTANTS
  Mails,       \* rows of alert_deliveries: an alert with one of its recipients
  Senders,     \* processes running the sender loop
  MaxAttempts, \* settings.alert_delivery_max_attempts
  MaxStops,    \* bound: sender iterations that crash or raise
  MaxTimeouts  \* bound: claims that time out under a sender still at work

ASSUME SenderAssumption ==
  /\ MaxAttempts \in Nat \ {0}
  /\ {MaxStops, MaxTimeouts} \subseteq Nat

VARIABLES
  deliveries, \* alert_deliveries
  sender,     \* locals of each sender's iteration
  stops,      \* iterations that ended in a crash or an exception
  timeouts    \* claims that timed out under a sender still at work

vars == <<deliveries, sender, stops, timeouts>>

(* emails and retries are histories: mails the provider accepted, and times*)
(* the row went back to pending after a claim.                             *)
DeliveryRow == [status : {"none", "pending", "claimed", "sent", "dead_letter"},
                attempts : Nat, emails : Nat, retries : Nat]

(* claims: the rows of the iteration still to be sent, each with the       *)
(* attempts its claim returned; mail: the one whose fate is to be marked.  *)
SenderState == [phase : {"idle", "sending", "accepted", "refused"},
                claims : SUBSET (Mails \X Nat), mail : SUBSET (Mails \X Nat)]

NoDelivery  == [status |-> "none", attempts |-> 0, emails |-> 0, retries |-> 0]
Queued(row) == [row EXCEPT !.status = "pending"]
Retried(row) == [Queued(row) EXCEPT !.retries = @ + 1]
Idle == [phase |-> "idle", claims |-> {}, mail |-> {}]

Init ==
  /\ deliveries = [m \in Mails |-> NoDelivery]
  /\ sender = [s \in Senders |-> Idle]
  /\ stops = 0 /\ timeouts = 0

(* raise_alert commits a new alert with a delivery for each recipient.     *)
QueueDeliveries(new) ==
  /\ new # {} /\ \A m \in new : deliveries[m].status = "none"
  /\ deliveries' = [m \in Mails |-> IF m \in new THEN Queued(deliveries[m]) ELSE deliveries[m]]
  /\ UNCHANGED <<sender, stops, timeouts>>

InStatus(x) == {m \in Mails : deliveries[m].status = x}

(* The deliveries a claim may take.  Variants: rows other senders hold are *)
(* taken too; next_attempt_at is compared the wrong way round, so that a   *)
(* delivery refused once never is due.                                     *)
UnlockedClaim == InStatus("pending") \cup InStatus("claimed")
NeverDueAgain == {m \in InStatus("pending") : deliveries[m].retries = 0}
Claimable == InStatus("pending")

(* The deliveries a sender still holds.                                    *)
Held(s) == {c[1] : c \in sender[s].claims \cup sender[s].mail}

(* reap_stuck_claims, the first transaction of run_once: claims older than *)
(* _CLAIM_TIMEOUT_SECONDS go back in the queue, also those a slow sender is*)
(* still working through.                                                  *)
ReapStuckClaims(s, reaped) ==
  LET slow == reaped \cap UNION {Held(t) : t \in Senders} # {} IN
  /\ sender[s].phase = "idle"
  /\ reaped # {}
  /\ slow => timeouts < MaxTimeouts
  /\ timeouts' = IF slow THEN timeouts + 1 ELSE timeouts
  /\ deliveries' = [m \in Mails |-> IF m \in reaped THEN Retried(deliveries[m]) ELSE deliveries[m]]
  /\ UNCHANGED <<sender, stops>>

(* claim_deliveries, the second: up to a batch of those that are due.      *)
ClaimDeliveries(s, claimed) ==
  /\ sender[s].phase = "idle"
  /\ claimed # {}
  /\ deliveries' = [m \in Mails |->
       IF m \in claimed THEN [deliveries[m] EXCEPT !.status = "claimed", !.attempts = @ + 1]
       ELSE deliveries[m]]
  /\ sender' = [sender EXCEPT ![s].phase = "sending",
                  ![s].claims = {<<m, deliveries[m].attempts + 1>> : m \in claimed}]
  /\ UNCHANGED <<stops, timeouts>>

(* What backend.send reports of a mail the provider took, or not: an       *)
(* EmailSendError may also be a timeout after the provider took it.  The   *)
(* variant is a backend that swallows its errors.                          *)
SwallowedErrors(taken) == {"accepted", "refused"}
SendOutcomes(taken) == IF taken THEN {"accepted", "refused"} ELSE {"refused"}

SendOne(s) ==
  /\ sender[s].phase = "sending"
  /\ \E c \in sender[s].claims, taken \in BOOLEAN : \E outcome \in SendOutcomes(taken) :
       /\ deliveries' = [deliveries EXCEPT ![c[1]].emails = IF taken THEN @ + 1 ELSE @]
       /\ sender' = [sender EXCEPT ![s] =
                       [phase |-> outcome, claims |-> @.claims \ {c}, mail |-> {c}]]
  /\ UNCHANGED <<stops, timeouts>>

AfterMark(me) ==
  IF me.claims = {} THEN Idle ELSE [me EXCEPT !.phase = "sending", !.mail = {}]

(* _mark writes by id alone: the row may no longer be this sender's.       *)
MarkSent(s) ==
  /\ sender[s].phase = "accepted"
  /\ \E c \in sender[s].mail : deliveries' = [deliveries EXCEPT ![c[1]].status = "sent"]
  /\ sender' = [sender EXCEPT ![s] = AfterMark(@)]
  /\ UNCHANGED <<stops, timeouts>>

(* What a refused mail becomes, by the attempts its claim returned.        *)
(* The variant's limit is off by one.                                      *)
RefusedEarly(row, attempts) ==
  IF attempts + 1 >= MaxAttempts THEN [row EXCEPT !.status = "dead_letter"] ELSE Retried(row)
Refused(row, attempts) ==
  IF attempts >= MaxAttempts THEN [row EXCEPT !.status = "dead_letter"] ELSE Retried(row)

MarkRefused(s) ==
  /\ sender[s].phase = "refused"
  /\ \E c \in sender[s].mail : deliveries' = [deliveries EXCEPT ![c[1]] = Refused(@, c[2])]
  /\ sender' = [sender EXCEPT ![s] = AfterMark(@)]
  /\ UNCHANGED <<stops, timeouts>>

(* The process dies, or anything but an EmailSendError ends the iteration: *)
(* its claims are left to the reaper.                                      *)
SenderStops(s) ==
  /\ sender[s].phase # "idle"
  /\ stops < MaxStops
  /\ stops' = stops + 1
  /\ sender' = [sender EXCEPT ![s] = Idle]
  /\ UNCHANGED <<deliveries, timeouts>>

---------------------------------------------------------------------------

Claim(s) == \E claimed \in SUBSET Claimable : ClaimDeliveries(s, claimed)
Reap(s)  == \E reaped \in SUBSET InStatus("claimed") : ReapStuckClaims(s, reaped)
Work(s)  == SendOne(s) \/ MarkSent(s) \/ MarkRefused(s)

Next ==
  \/ \E new \in SUBSET Mails : QueueDeliveries(new)
  \/ \E s \in Senders : Reap(s) \/ Claim(s) \/ Work(s) \/ SenderStops(s)

Spec == Init /\ [][Next]_vars

(* A pending delivery becomes due, an abandoned claim outlives its timeout,*)
(* and some process of those running the loop takes it up.                 *)
TakesUp(m) ==
  \E s \in Senders :
    \/ \E claimed \in SUBSET Claimable : m \in claimed /\ ClaimDeliveries(s, claimed)
    \/ \E reaped \in SUBSET InStatus("claimed") : m \in reaped /\ ReapStuckClaims(s, reaped)

(* run_forever runs one iteration after another, an iteration that raised  *)
(* is followed by the next, and clocks advance.                            *)
Fairness ==
  /\ \A s \in Senders : WF_vars(Work(s))
  /\ \A m \in Mails : WF_vars(TakesUp(m))

FairSpec == Spec /\ Fairness

---------------------------------------------------------------------------

(* Every variable stays in its type.                                       *)
SenderTypeOK ==
  /\ deliveries \in [Mails -> DeliveryRow]
  /\ sender \in [Senders -> SenderState]
  /\ stops \in 0..MaxStops /\ timeouts \in 0..MaxTimeouts

(* A recipient gets a second mail about an alert only after a claim of it  *)
(* timed out or a send of it failed: each mail is paid for by a retry.     *)
DuplicatesAreRetries == \A m \in Mails : deliveries[m].emails <= deliveries[m].retries + 1

(* A delivery the API reports as sent was accepted by the provider, even   *)
(* when senders whose claims were taken from them mark it late.            *)
SentWasMailed == \A m \in Mails : deliveries[m].status = "sent" => deliveries[m].emails > 0

(* No delivery is given up before MaxAttempts claims of it, each one after *)
(* the first paid for by a refusal or a timeout of the one before.         *)
GivenUpLate ==
  \A m \in Mails : deliveries[m].status = "dead_letter" => deliveries[m].retries + 1 >= MaxAttempts

(* Every queued delivery is in the end sent or dead-lettered for good,     *)
(* although senders die with claims in hand, and a slow one may put a      *)
(* delivery another has finished back in the queue.                        *)
DeliveriesSettle ==
  \A m \in Mails : deliveries[m].status # "none" ~>
                     [](deliveries[m].status \in {"sent", "dead_letter"})
===========================================================================
