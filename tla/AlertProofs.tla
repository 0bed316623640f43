---------------------------- MODULE AlertProofs ----------------------------
(***************************************************************************)
(* Theorems of AlertSender, for any number of deliveries and senders, any  *)
(* limit of attempts, and however often senders die or lose their claims;  *)
(* of AlertDigest, for any number of alerts and people; and of Watchdog,   *)
(* which raises the alerts, for any number of steps, batches and           *)
(* organizations, any budgets and ages, and without a bound on edits,      *)
(* crashes and answers.                                                    *)
(***************************************************************************)
EXTENDS AlertSender, AlertDigest, Watchdog, TLAPS, FiniteSetTheorems,
        WellFoundedInduction

---------------------------------------------------------------------------
(* Type correctness.                                                       *)

(* The UPDATEs of a delivery give a delivery, and so does an email.        *)
LEMMA RowTypes ==
  ASSUME NEW row \in DeliveryRow, NEW k \in Nat
  PROVE  /\ Queued(row) \in DeliveryRow
         /\ Retried(row) \in DeliveryRow
         /\ Refused(row, k) \in DeliveryRow
         /\ [row EXCEPT !.status = "sent"] \in DeliveryRow
         /\ [row EXCEPT !.status = "claimed", !.attempts = @ + 1] \in DeliveryRow
         /\ [row EXCEPT !.emails = @ + 1] \in DeliveryRow
<1>1. /\ row.attempts + 1 \in Nat
      /\ row.retries + 1 \in Nat
      /\ row.emails + 1 \in Nat
  BY DEF DeliveryRow
<1>2. Queued(row) \in DeliveryRow /\ Retried(row) \in DeliveryRow
  BY <1>1 DEF Queued, Retried, DeliveryRow
<1>3. Refused(row, k) \in DeliveryRow
  BY <1>2 DEF Refused, DeliveryRow
<1> QED
  BY <1>1, <1>2, <1>3 DEF DeliveryRow

(* After a mark a sender goes on with its other claims or is idle.         *)
LEMMA AfterMarkType ==
  ASSUME NEW me \in SenderState
  PROVE  AfterMark(me) \in SenderState
  BY DEF AfterMark, SenderState, Idle

(* No delivery queued and every sender idle.                               *)
LEMMA TypeInit == Init => SenderTypeOK
  BY SenderAssumption DEF Init, SenderTypeOK, NoDelivery, DeliveryRow, Idle, SenderState

(* Every action keeps the types; one step below per action of Next.        *)
LEMMA TypeStep == SenderTypeOK /\ [Next]_vars => SenderTypeOK'
<1> SUFFICES ASSUME SenderTypeOK, [Next]_vars PROVE SenderTypeOK'
  OBVIOUS
<1> USE SenderAssumption
<1>1. ASSUME NEW new \in SUBSET Mails, QueueDeliveries(new) PROVE SenderTypeOK'
  BY <1>1, RowTypes DEF QueueDeliveries, SenderTypeOK
<1>2. ASSUME NEW s \in Senders, NEW reaped \in SUBSET InStatus("claimed"),
             ReapStuckClaims(s, reaped)
      PROVE  SenderTypeOK'
  <2>1. deliveries' \in [Mails -> DeliveryRow]
    BY <1>2, RowTypes DEF ReapStuckClaims, SenderTypeOK
  <2>2. timeouts' \in 0..MaxTimeouts
    BY <1>2 DEF ReapStuckClaims, SenderTypeOK
  <2> QED
    BY <1>2, <2>1, <2>2 DEF ReapStuckClaims, SenderTypeOK
<1>3. ASSUME NEW s \in Senders, NEW claimed \in SUBSET Claimable, ClaimDeliveries(s, claimed)
      PROVE  SenderTypeOK'
  <2>1. claimed \subseteq Mails
    BY DEF Claimable, InStatus
  <2>2. {<<m, deliveries[m].attempts + 1>> : m \in claimed} \in SUBSET (Mails \X Nat)
    BY <2>1 DEF SenderTypeOK, DeliveryRow
  <2>3. sender' \in [Senders -> SenderState]
    BY ZenonT(60), <1>3, <2>2 DEF ClaimDeliveries, SenderTypeOK, SenderState
  <2>4. deliveries' \in [Mails -> DeliveryRow]
    BY <1>3, RowTypes DEF ClaimDeliveries, SenderTypeOK
  <2> QED
    BY <1>3, <2>3, <2>4 DEF ClaimDeliveries, SenderTypeOK
<1>4. ASSUME NEW s \in Senders, SendOne(s) PROVE SenderTypeOK'
  <2>1. PICK c \in sender[s].claims, taken \in BOOLEAN : \E outcome \in SendOutcomes(taken) :
          /\ deliveries' = [deliveries EXCEPT ![c[1]].emails = IF taken THEN @ + 1 ELSE @]
          /\ sender' = [sender EXCEPT ![s] =
                          [phase |-> outcome, claims |-> @.claims \ {c}, mail |-> {c}]]
    BY <1>4 DEF SendOne
  <2>2. c \in Mails \X Nat /\ c[1] \in Mails
    BY <2>1 DEF SenderTypeOK, SenderState
  <2>3. deliveries' \in [Mails -> DeliveryRow]
    <3>1. deliveries[c[1]] \in DeliveryRow
      BY <2>2 DEF SenderTypeOK
    <3>2. [deliveries[c[1]] EXCEPT !.emails = IF taken THEN @ + 1 ELSE @] \in DeliveryRow
      BY <3>1 DEF DeliveryRow
    <3> QED
      BY <2>1, <2>2, <3>2 DEF SenderTypeOK
  <2>4. sender' \in [Senders -> SenderState]
    BY <2>1, <2>2 DEF SenderTypeOK, SenderState, SendOutcomes
  <2> QED
    BY <1>4, <2>3, <2>4 DEF SendOne, SenderTypeOK
<1>5. ASSUME NEW s \in Senders, MarkSent(s) PROVE SenderTypeOK'
  <2>1. PICK c \in sender[s].mail : deliveries' = [deliveries EXCEPT ![c[1]].status = "sent"]
    BY <1>5 DEF MarkSent
  <2>2. c[1] \in Mails
    BY <2>1 DEF SenderTypeOK, SenderState
  <2>3. deliveries' \in [Mails -> DeliveryRow]
    <3>1. [deliveries[c[1]] EXCEPT !.status = "sent"] \in DeliveryRow
      BY <2>2, RowTypes DEF SenderTypeOK
    <3> QED
      BY <2>1, <2>2, <3>1 DEF SenderTypeOK
  <2> QED
    BY <1>5, <2>3, AfterMarkType DEF MarkSent, SenderTypeOK
<1>6. ASSUME NEW s \in Senders, MarkRefused(s) PROVE SenderTypeOK'
  <2>1. PICK c \in sender[s].mail : deliveries' = [deliveries EXCEPT ![c[1]] = Refused(@, c[2])]
    BY <1>6 DEF MarkRefused
  <2>2. c[1] \in Mails /\ c[2] \in Nat
    BY <2>1 DEF SenderTypeOK, SenderState
  <2>3. deliveries' \in [Mails -> DeliveryRow]
    BY <2>1, <2>2, RowTypes DEF SenderTypeOK
  <2> QED
    BY <1>6, <2>3, AfterMarkType DEF MarkRefused, SenderTypeOK
<1>7. ASSUME NEW s \in Senders, SenderStops(s) PROVE SenderTypeOK'
  BY <1>7 DEF SenderStops, SenderTypeOK, SenderState, Idle
<1>8. CASE UNCHANGED vars
  BY <1>8 DEF vars, SenderTypeOK
<1> QED
  BY <1>1, <1>2, <1>3, <1>4, <1>5, <1>6, <1>7, <1>8 DEF Next, Reap, Claim, Work

(* Deliveries, claims and counters keep their types.                       *)
THEOREM SenderTypeCorrect == Spec => []SenderTypeOK
  BY TypeInit, TypeStep, PTL DEF Spec

---------------------------------------------------------------------------
(* A delivery marked sent was mailed.                                      *)

(* What a sender is about to mark sent has been mailed: the witness it     *)
(* carries from the provider's answer to the UPDATE.                       *)
AcceptedWasMailed ==
  \A s \in Senders : sender[s].phase = "accepted" =>
    \A c \in sender[s].mail : deliveries[c[1]].emails > 0

(* Emails are never taken back: every action keeps or increases the count, *)
(* and only MarkSent makes a delivery sent.                                *)
LEMMA MailedStep ==
  ASSUME SenderTypeOK, SentWasMailed, AcceptedWasMailed, [Next]_vars
  PROVE  SentWasMailed' /\ AcceptedWasMailed'
<1> USE DEF SenderTypeOK
<1>1. ASSUME NEW new \in SUBSET Mails, QueueDeliveries(new)
      PROVE  SentWasMailed' /\ AcceptedWasMailed'
  <2>1. \A m \in Mails : deliveries'[m].emails = deliveries[m].emails
    BY <1>1 DEF QueueDeliveries, Queued, DeliveryRow
  <2>2. \A m \in Mails : deliveries'[m].status = "sent" => deliveries[m].status = "sent"
    BY <1>1 DEF QueueDeliveries, Queued, DeliveryRow
  <2>3. \A s \in Senders : \A c \in sender[s].mail : c[1] \in Mails
    BY DEF SenderState
  <2> QED
    BY <1>1, <2>1, <2>2, <2>3 DEF QueueDeliveries, SentWasMailed, AcceptedWasMailed
<1>2. ASSUME NEW s \in Senders, NEW reaped \in SUBSET InStatus("claimed"),
             ReapStuckClaims(s, reaped)
      PROVE  SentWasMailed' /\ AcceptedWasMailed'
  <2>1. \A m \in Mails : deliveries'[m].emails = deliveries[m].emails
    BY <1>2 DEF ReapStuckClaims, Retried, Queued, DeliveryRow
  <2>2. \A m \in Mails : deliveries'[m].status = "sent" => deliveries[m].status = "sent"
    BY <1>2 DEF ReapStuckClaims, Retried, Queued, DeliveryRow
  <2>3. \A t \in Senders : \A c \in sender[t].mail : c[1] \in Mails
    BY DEF SenderState
  <2> QED
    BY <1>2, <2>1, <2>2, <2>3 DEF ReapStuckClaims, SentWasMailed, AcceptedWasMailed
<1>3. ASSUME NEW s \in Senders, NEW claimed \in SUBSET Claimable, ClaimDeliveries(s, claimed)
      PROVE  SentWasMailed' /\ AcceptedWasMailed'
  <2>1. \A m \in Mails : deliveries'[m].emails = deliveries[m].emails
    BY <1>3 DEF ClaimDeliveries, DeliveryRow
  <2>2. \A m \in Mails : deliveries'[m].status = "sent" => deliveries[m].status = "sent"
    BY <1>3 DEF ClaimDeliveries, DeliveryRow
  <2>3. \A t \in Senders : /\ sender'[t].phase = "accepted" => sender[t].phase = "accepted"
                           /\ sender'[t].mail = sender[t].mail
    BY <1>3 DEF ClaimDeliveries, SenderState
  <2>4. \A t \in Senders : \A c \in sender[t].mail : c[1] \in Mails
    BY DEF SenderState
  <2> QED
    BY <2>1, <2>2, <2>3, <2>4 DEF SentWasMailed, AcceptedWasMailed
<1>4. ASSUME NEW s \in Senders, SendOne(s) PROVE SentWasMailed' /\ AcceptedWasMailed'
  <2>1. PICK c \in sender[s].claims, taken \in BOOLEAN : \E outcome \in SendOutcomes(taken) :
          /\ deliveries' = [deliveries EXCEPT ![c[1]].emails = IF taken THEN @ + 1 ELSE @]
          /\ sender' = [sender EXCEPT ![s] =
                          [phase |-> outcome, claims |-> @.claims \ {c}, mail |-> {c}]]
    BY <1>4 DEF SendOne
  <2>2. c[1] \in Mails
    BY <2>1 DEF SenderState
  <2>3. \A m \in Mails : /\ deliveries'[m].emails \in {deliveries[m].emails, deliveries[m].emails + 1}
                         /\ deliveries'[m].status = deliveries[m].status
    BY <2>1, <2>2 DEF DeliveryRow
  <2>4. SentWasMailed'
    BY <2>3 DEF SentWasMailed, DeliveryRow
  <2>5. taken => deliveries'[c[1]].emails > 0
    BY <2>1, <2>2 DEF DeliveryRow
  <2>6. ASSUME NEW t \in Senders, sender'[t].phase = "accepted", NEW d \in sender'[t].mail
        PROVE  deliveries'[d[1]].emails > 0
    <3>1. CASE t = s
      <4>1. d = c /\ taken
        BY <2>1, <2>6, <3>1 DEF SendOutcomes, SenderState
      <4> QED
        BY <4>1, <2>5
    <3>2. CASE t # s
      <4>1. sender'[t] = sender[t]
        BY <2>1, <3>2
      <4>2. deliveries[d[1]].emails > 0 /\ d[1] \in Mails
        BY <2>6, <4>1 DEF AcceptedWasMailed, SenderState
      <4> QED
        BY <4>2, <2>3 DEF DeliveryRow
    <3> QED
      BY <3>1, <3>2
  <2> QED
    BY <2>4, <2>6 DEF AcceptedWasMailed
<1>5. ASSUME NEW s \in Senders, MarkSent(s) PROVE SentWasMailed' /\ AcceptedWasMailed'
  <2>1. PICK c \in sender[s].mail : deliveries' = [deliveries EXCEPT ![c[1]].status = "sent"]
    BY <1>5 DEF MarkSent
  <2>2. c[1] \in Mails /\ deliveries[c[1]].emails > 0
    BY <1>5, <2>1 DEF SenderState, AcceptedWasMailed, MarkSent
  <2>3. \A m \in Mails : /\ deliveries'[m].emails = deliveries[m].emails
                         /\ m # c[1] => deliveries'[m].status = deliveries[m].status
    BY <2>1, <2>2 DEF DeliveryRow
  <2>4. SentWasMailed'
    BY <2>2, <2>3 DEF SentWasMailed
  <2>5. \A t \in Senders : sender'[t].phase = "accepted" => sender'[t] = sender[t]
    BY <1>5 DEF MarkSent, AfterMark, Idle, SenderState
  <2>6. \A t \in Senders : \A d \in sender[t].mail : d[1] \in Mails
    BY DEF SenderState
  <2> QED
    BY <2>3, <2>4, <2>5, <2>6 DEF AcceptedWasMailed
<1>6. ASSUME NEW s \in Senders, MarkRefused(s) PROVE SentWasMailed' /\ AcceptedWasMailed'
  <2>1. PICK c \in sender[s].mail : deliveries' = [deliveries EXCEPT ![c[1]] = Refused(@, c[2])]
    BY <1>6 DEF MarkRefused
  <2>2. c[1] \in Mails
    BY <2>1 DEF SenderState
  <2>3. /\ Refused(deliveries[c[1]], c[2]).emails = deliveries[c[1]].emails
        /\ Refused(deliveries[c[1]], c[2]).status # "sent"
    BY <2>2 DEF Refused, Retried, Queued, DeliveryRow
  <2>4. \A m \in Mails : /\ deliveries'[m].emails = deliveries[m].emails
                         /\ deliveries'[m].status = "sent" => deliveries[m].status = "sent"
    BY <2>1, <2>2, <2>3
  <2>5. \A t \in Senders : sender'[t].phase = "accepted" => sender'[t] = sender[t]
    BY <1>6 DEF MarkRefused, AfterMark, Idle, SenderState
  <2>6. \A t \in Senders : \A d \in sender[t].mail : d[1] \in Mails
    BY DEF SenderState
  <2> QED
    BY <2>4, <2>5, <2>6 DEF SentWasMailed, AcceptedWasMailed
<1>7. ASSUME NEW s \in Senders, SenderStops(s) PROVE SentWasMailed' /\ AcceptedWasMailed'
  BY <1>7 DEF SenderStops, Idle, SentWasMailed, AcceptedWasMailed
<1>8. CASE UNCHANGED vars
  BY <1>8 DEF vars, SentWasMailed, AcceptedWasMailed
<1> QED
  BY <1>1, <1>2, <1>3, <1>4, <1>5, <1>6, <1>7, <1>8 DEF Next, Reap, Claim, Work

(* A delivery the API reports as sent was accepted by the provider, also   *)
(* when a sender that lost its claim marks it late.                        *)
THEOREM SentWasMailedAlways == Spec => []SentWasMailed
<1>1. Init => SentWasMailed /\ AcceptedWasMailed
  BY DEF Init, SentWasMailed, AcceptedWasMailed, NoDelivery, Idle
<1>2. SenderTypeOK /\ SentWasMailed /\ AcceptedWasMailed /\ [Next]_vars =>
        SentWasMailed' /\ AcceptedWasMailed'
  BY MailedStep
<1> QED
  BY <1>1, <1>2, SenderTypeCorrect, PTL DEF Spec

---------------------------------------------------------------------------
(* A delivery is given up late.                                            *)

(* A claim counts an attempt, and the one after it needs a retry first.    *)
AttemptsPaid ==
  \A m \in Mails :
    /\ deliveries[m].attempts <= deliveries[m].retries + 1
    /\ deliveries[m].status \in {"none", "pending"} =>
         deliveries[m].attempts <= deliveries[m].retries

(* The attempts a claim returned are some of those its row has counted.    *)
ClaimsNumbered ==
  \A s \in Senders : \A c \in sender[s].claims \cup sender[s].mail :
    0 < c[2] /\ c[2] <= deliveries[c[1]].attempts

Paid == AttemptsPaid /\ ClaimsNumbered /\ GivenUpLate

(* A row that only leaves the queue, or goes back to it with a retry.      *)
LEMMA RetriedIsPaid ==
  ASSUME NEW row \in DeliveryRow, row.attempts <= row.retries + 1
  PROVE  /\ Retried(row).attempts = row.attempts
         /\ Retried(row).retries = row.retries + 1
         /\ Retried(row).attempts <= Retried(row).retries
         /\ Retried(row).status = "pending"
  BY DEF Retried, Queued, DeliveryRow

(* Claims in hand are about deliveries, and carry a number.                *)
LEMMA ClaimTypes ==
  ASSUME SenderTypeOK, NEW s \in Senders, NEW c \in sender[s].claims \cup sender[s].mail
  PROVE  c \in Mails \X Nat /\ c[1] \in Mails /\ c[2] \in Nat
  BY DEF SenderTypeOK, SenderState

(* Neither the counts of a row nor the number of a claim ever go back, and *)
(* a claim of the last attempt was paid for by the retries before it.      *)
LEMMA PaidStep ==
  ASSUME SenderTypeOK, Paid, [Next]_vars
  PROVE  Paid'
<1> USE DEF Paid
<1>t. \A m \in Mails : deliveries[m] \in DeliveryRow
  BY DEF SenderTypeOK
<1>1. ASSUME NEW new \in SUBSET Mails, QueueDeliveries(new) PROVE Paid'
  <2>1. \A m \in Mails : /\ deliveries'[m].attempts = deliveries[m].attempts
                         /\ deliveries'[m].retries = deliveries[m].retries
                         /\ \/ deliveries'[m].status = deliveries[m].status
                            \/ deliveries[m].status = "none" /\ deliveries'[m].status = "pending"
    BY <1>1, <1>t DEF QueueDeliveries, Queued, DeliveryRow
  <2> QED
    BY <1>1, <2>1, ClaimTypes
    DEF QueueDeliveries, AttemptsPaid, ClaimsNumbered, GivenUpLate
<1>2. ASSUME NEW s \in Senders, NEW reaped \in SUBSET InStatus("claimed"),
             ReapStuckClaims(s, reaped)
      PROVE  Paid'
  <2>1. \A m \in Mails : deliveries'[m] = IF m \in reaped THEN Retried(deliveries[m]) ELSE deliveries[m]
    BY <1>2 DEF ReapStuckClaims
  <2>2. \A m \in reaped : /\ m \in Mails
                          /\ deliveries'[m].attempts = deliveries[m].attempts
                          /\ deliveries'[m].attempts <= deliveries'[m].retries
                          /\ deliveries'[m].retries = deliveries[m].retries + 1
                          /\ deliveries'[m].status = "pending"
    BY <2>1, <1>t, RetriedIsPaid DEF AttemptsPaid, InStatus
  <2>3. \A m \in Mails : deliveries'[m].attempts = deliveries[m].attempts
    BY <2>1, <2>2
  <2>5. AttemptsPaid' /\ GivenUpLate'
    BY <2>1, <2>2, <1>t DEF AttemptsPaid, GivenUpLate, DeliveryRow
  <2>4. ClaimsNumbered'
    BY <1>2, <2>3, ClaimTypes DEF ReapStuckClaims, ClaimsNumbered
  <2> QED
    BY <2>4, <2>5
<1>3. ASSUME NEW s \in Senders, NEW claimed \in SUBSET Claimable, ClaimDeliveries(s, claimed)
      PROVE  Paid'
  <2>1. \A m \in Mails \ claimed : deliveries'[m] = deliveries[m]
    BY <1>3 DEF ClaimDeliveries
  <2>2. \A m \in claimed : /\ m \in Mails
                           /\ deliveries[m].status = "pending"
                           /\ deliveries'[m].status = "claimed"
                           /\ deliveries'[m].attempts = deliveries[m].attempts + 1
                           /\ deliveries'[m].retries = deliveries[m].retries
    BY <1>3, <1>t DEF ClaimDeliveries, Claimable, InStatus, DeliveryRow
  <2>3. AttemptsPaid'
    BY <2>1, <2>2, <1>t DEF AttemptsPaid, DeliveryRow
  <2>4. GivenUpLate'
    BY <2>1, <2>2 DEF GivenUpLate
  <2>5. ASSUME NEW t \in Senders, NEW c \in sender'[t].claims \cup sender'[t].mail
        PROVE  0 < c[2] /\ c[2] <= deliveries'[c[1]].attempts
    <3>1. CASE c \in sender[t].claims \cup sender[t].mail
      <4>1. c[1] \in Mails /\ c[2] \in Nat
        BY <3>1, ClaimTypes
      <4>2. 0 < c[2] /\ c[2] <= deliveries[c[1]].attempts
        BY <3>1 DEF ClaimsNumbered
      <4>3. deliveries'[c[1]].attempts \in {deliveries[c[1]].attempts, deliveries[c[1]].attempts + 1}
        BY <4>1, <2>1, <2>2
      <4> QED
        BY <4>1, <4>2, <4>3, <1>t DEF DeliveryRow
    <3>2. CASE c \notin sender[t].claims \cup sender[t].mail
      <4>1. t = s /\ c \in {<<m, deliveries[m].attempts + 1>> : m \in claimed}
        BY <1>3, <2>5, <3>2 DEF ClaimDeliveries, SenderTypeOK, SenderState
      <4>2. PICK m \in claimed : c = <<m, deliveries[m].attempts + 1>>
        BY <4>1
      <4> QED
        BY <4>2, <2>2, <1>t DEF DeliveryRow
    <3> QED
      BY <3>1, <3>2
  <2> QED
    BY <2>3, <2>4, <2>5 DEF ClaimsNumbered
<1>4. ASSUME NEW s \in Senders, SendOne(s) PROVE Paid'
  <2>1. PICK c \in sender[s].claims, taken \in BOOLEAN : \E outcome \in SendOutcomes(taken) :
          /\ deliveries' = [deliveries EXCEPT ![c[1]].emails = IF taken THEN @ + 1 ELSE @]
          /\ sender' = [sender EXCEPT ![s] =
                          [phase |-> outcome, claims |-> @.claims \ {c}, mail |-> {c}]]
    BY <1>4 DEF SendOne
  <2>2. c[1] \in Mails
    BY <2>1, ClaimTypes
  <2>3. \A m \in Mails : /\ deliveries'[m].attempts = deliveries[m].attempts
                         /\ deliveries'[m].retries = deliveries[m].retries
                         /\ deliveries'[m].status = deliveries[m].status
    BY <2>1, <2>2, <1>t DEF DeliveryRow, SenderTypeOK
  <2>4. \A t \in Senders : sender'[t].claims \cup sender'[t].mail
                             \subseteq sender[t].claims \cup sender[t].mail
    BY <2>1 DEF SenderTypeOK, SenderState
  <2> QED
    BY <2>3, <2>4, ClaimTypes DEF AttemptsPaid, ClaimsNumbered, GivenUpLate
<1>5. ASSUME NEW s \in Senders, MarkSent(s) PROVE Paid'
  <2>1. PICK c \in sender[s].mail : deliveries' = [deliveries EXCEPT ![c[1]].status = "sent"]
    BY <1>5 DEF MarkSent
  <2>2. c[1] \in Mails
    BY <2>1, ClaimTypes
  <2>3. \A m \in Mails : /\ deliveries'[m].attempts = deliveries[m].attempts
                         /\ deliveries'[m].retries = deliveries[m].retries
                         /\ \/ deliveries'[m].status = deliveries[m].status
                            \/ deliveries'[m].status = "sent"
    BY <2>1, <2>2, <1>t DEF DeliveryRow, SenderTypeOK
  <2>4. \A t \in Senders : sender'[t].claims \cup sender'[t].mail
                             \subseteq sender[t].claims \cup sender[t].mail
    BY <1>5 DEF MarkSent, AfterMark, Idle, SenderTypeOK, SenderState
  <2> QED
    BY <2>3, <2>4, ClaimTypes DEF AttemptsPaid, ClaimsNumbered, GivenUpLate
<1>6. ASSUME NEW s \in Senders, MarkRefused(s) PROVE Paid'
  <2>1. PICK c \in sender[s].mail : deliveries' = [deliveries EXCEPT ![c[1]] = Refused(@, c[2])]
    BY <1>6 DEF MarkRefused
  <2> DEFINE row == deliveries[c[1]]
  <2>2. c[1] \in Mails /\ c[2] \in Nat /\ row \in DeliveryRow
    BY <2>1, <1>t, ClaimTypes
  <2>3. c[2] <= row.retries + 1
    BY <2>1, <2>2 DEF AttemptsPaid, ClaimsNumbered, DeliveryRow
  <2>4. /\ Refused(row, c[2]).attempts = row.attempts
        /\ Refused(row, c[2]).attempts <= Refused(row, c[2]).retries + 1
        /\ Refused(row, c[2]).status \in {"none", "pending"} =>
             Refused(row, c[2]).attempts <= Refused(row, c[2]).retries
        /\ Refused(row, c[2]).status = "dead_letter" => Refused(row, c[2]).retries + 1 >= MaxAttempts
    <3>1. row.attempts <= row.retries + 1
      BY <2>2 DEF AttemptsPaid
    <3>2. CASE c[2] >= MaxAttempts
      <4>1. Refused(row, c[2]) = [row EXCEPT !.status = "dead_letter"]
        BY <3>2 DEF Refused
      <4> QED
        BY <2>2, <2>3, <3>1, <3>2, <4>1, SenderAssumption DEF DeliveryRow
    <3>3. CASE ~ (c[2] >= MaxAttempts)
      <4>1. Refused(row, c[2]) = Retried(row)
        BY <3>3 DEF Refused
      <4> QED
        BY <2>2, <3>1, <4>1, RetriedIsPaid DEF DeliveryRow
    <3> QED
      BY <3>2, <3>3
  <2>5. \A m \in Mails : deliveries'[m] = IF m = c[1] THEN Refused(row, c[2]) ELSE deliveries[m]
    BY <2>1 DEF SenderTypeOK
  <2>6. \A t \in Senders : sender'[t].claims \cup sender'[t].mail
                             \subseteq sender[t].claims \cup sender[t].mail
    BY <1>6 DEF MarkRefused, AfterMark, Idle, SenderTypeOK, SenderState
  <2> HIDE DEF row
  <2>7. AttemptsPaid' /\ GivenUpLate'
    BY <2>4, <2>5 DEF AttemptsPaid, GivenUpLate
  <2>8. \A m \in Mails : deliveries'[m].attempts = deliveries[m].attempts
    BY <2>4, <2>5 DEF row
  <2>9. ClaimsNumbered'
    BY <2>6, <2>8, ClaimTypes DEF ClaimsNumbered
  <2> QED
    BY <2>7, <2>9
<1>7. ASSUME NEW s \in Senders, SenderStops(s) PROVE Paid'
  <2>1. \A t \in Senders : sender'[t].claims \cup sender'[t].mail
                             \subseteq sender[t].claims \cup sender[t].mail
    BY <1>7 DEF SenderStops, Idle, SenderTypeOK, SenderState
  <2> QED
    BY <1>7, <2>1 DEF SenderStops, AttemptsPaid, ClaimsNumbered, GivenUpLate
<1>8. CASE UNCHANGED vars
  BY <1>8 DEF vars, AttemptsPaid, ClaimsNumbered, GivenUpLate
<1> QED
  BY <1>1, <1>2, <1>3, <1>4, <1>5, <1>6, <1>7, <1>8 DEF Next, Reap, Claim, Work

(* Before anything is queued nothing is owed.                              *)
LEMMA PaidInit == Init => Paid
  BY DEF Init, Paid, AttemptsPaid, ClaimsNumbered, GivenUpLate, NoDelivery, Idle

(* The strengthened invariant holds in every reachable state.              *)
LEMMA AlwaysPaid == Spec => []Paid
<1>1. SenderTypeOK /\ Paid /\ [Next]_vars => Paid'
  BY PaidStep
<1> QED
  BY <1>1, PaidInit, SenderTypeCorrect, PTL DEF Spec

(* No delivery is given up before MaxAttempts claims of it: a mail whose   *)
(* row was reaped under its sender is judged by the attempts of its claim. *)
THEOREM GivenUpLateAlways == Spec => []GivenUpLate
<1>1. Paid => GivenUpLate
  BY DEF Paid
<1> QED
  BY <1>1, AlwaysPaid, PTL

---------------------------------------------------------------------------
(* Each mail is paid for by a retry.                                       *)

(* The attempts of delivery m that some sender may still mail.             *)
Unsent(m) == {k \in Nat : \E s \in Senders : <<m, k>> \in sender[s].claims}

(* No two senders hold the same attempt: claims carry different numbers.   *)
ClaimsApart ==
  \A s, t \in Senders : s # t => sender[s].claims \cap sender[t].claims = {}

(* Mails sent and mails still to be sent are no more than the attempts.    *)
MailsPaid ==
  \A m \in Mails :
    deliveries[m].emails + Cardinality(Unsent(m)) <= deliveries[m].attempts

(* There are finitely many, for the claims are numbered.                   *)
LEMMA UnsentFinite ==
  ASSUME SenderTypeOK, ClaimsNumbered, NEW m \in Mails
  PROVE  /\ IsFiniteSet(Unsent(m))
         /\ Cardinality(Unsent(m)) \in Nat
         /\ \A k \in Unsent(m) : k <= deliveries[m].attempts
<1>1. \A k \in Unsent(m) : 0 < k /\ k <= deliveries[m].attempts
  BY DEF Unsent, ClaimsNumbered
<1>2. deliveries[m].attempts \in Nat
  BY DEF SenderTypeOK, DeliveryRow
<1>3. Unsent(m) \subseteq 1..deliveries[m].attempts
  BY <1>1, <1>2 DEF Unsent
<1>4. IsFiniteSet(1..deliveries[m].attempts)
  BY <1>2, FS_Interval
<1> QED
  BY <1>1, <1>3, <1>4, FS_Subset, FS_CardinalityType

(* Where claims are only dropped and no mail is sent, all stays paid.      *)
LEMMA FewerClaims ==
  ASSUME SenderTypeOK, ClaimsNumbered, ClaimsApart, MailsPaid,
         SenderTypeOK',
         \A m \in Mails : /\ deliveries'[m].emails = deliveries[m].emails
                          /\ deliveries'[m].attempts = deliveries[m].attempts,
         \A s \in Senders : sender'[s].claims \subseteq sender[s].claims
  PROVE  ClaimsApart' /\ MailsPaid'
<1>1. ClaimsApart'
  BY DEF ClaimsApart
<1>2. ASSUME NEW m \in Mails
      PROVE  deliveries'[m].emails + Cardinality(Unsent(m)') <= deliveries'[m].attempts
  <2>1. Unsent(m)' \subseteq Unsent(m)
    BY DEF Unsent
  <2>2. /\ Cardinality(Unsent(m)') <= Cardinality(Unsent(m))
        /\ Cardinality(Unsent(m)') \in Nat
    BY <2>1, UnsentFinite, FS_Subset, FS_CardinalityType
  <2>3. deliveries[m].emails \in Nat /\ deliveries[m].attempts \in Nat
    BY DEF SenderTypeOK, DeliveryRow
  <2>4. deliveries[m].emails + Cardinality(Unsent(m)) <= deliveries[m].attempts
    BY DEF MailsPaid
  <2> QED
    BY <2>2, <2>3, <2>4, UnsentFinite
<1> QED
  BY <1>1, <1>2 DEF MailsPaid

(* A claim takes a number above all others of its delivery, and a send uses*)
(* up the only copy of one.                                                *)
LEMMA MailsPaidStep ==
  ASSUME SenderTypeOK, SenderTypeOK', ClaimsNumbered, ClaimsApart, MailsPaid, [Next]_vars
  PROVE  ClaimsApart' /\ MailsPaid'
<1>t. \A m \in Mails : deliveries[m] \in DeliveryRow
  BY DEF SenderTypeOK
<1>1. ASSUME NEW new \in SUBSET Mails, QueueDeliveries(new) PROVE ClaimsApart' /\ MailsPaid'
  <2>1. \A m \in Mails : /\ deliveries'[m].emails = deliveries[m].emails
                         /\ deliveries'[m].attempts = deliveries[m].attempts
    BY <1>1, <1>t DEF QueueDeliveries, Queued, DeliveryRow
  <2>2. \A s \in Senders : sender'[s].claims \subseteq sender[s].claims
    BY <1>1 DEF QueueDeliveries
  <2> QED
    BY <2>1, <2>2, FewerClaims
<1>2. ASSUME NEW s \in Senders, NEW reaped \in SUBSET InStatus("claimed"),
             ReapStuckClaims(s, reaped)
      PROVE  ClaimsApart' /\ MailsPaid'
  <2>1. \A m \in Mails : /\ deliveries'[m].emails = deliveries[m].emails
                         /\ deliveries'[m].attempts = deliveries[m].attempts
    BY <1>2, <1>t DEF ReapStuckClaims, Retried, Queued, DeliveryRow
  <2>2. \A t \in Senders : sender'[t].claims \subseteq sender[t].claims
    BY <1>2 DEF ReapStuckClaims
  <2> QED
    BY <2>1, <2>2, FewerClaims
<1>3. ASSUME NEW s \in Senders, NEW claimed \in SUBSET Claimable, ClaimDeliveries(s, claimed)
      PROVE  ClaimsApart' /\ MailsPaid'
  <2> DEFINE new == {<<m, deliveries[m].attempts + 1>> : m \in claimed}
  <2>1. claimed \subseteq Mails
    BY DEF Claimable, InStatus
  <2>2. /\ sender'[s].claims = new
        /\ \A t \in Senders \ {s} : sender'[t] = sender[t]
    BY <1>3 DEF ClaimDeliveries, SenderTypeOK, SenderState
  <2>3. \A t \in Senders : \A c \in new : c \notin sender[t].claims
    <3> SUFFICES ASSUME NEW t \in Senders, NEW m \in claimed,
                        <<m, deliveries[m].attempts + 1>> \in sender[t].claims
                 PROVE  FALSE
      OBVIOUS
    <3>1. deliveries[m].attempts + 1 <= deliveries[m].attempts
      BY DEF ClaimsNumbered
    <3> QED
      BY <2>1, <3>1, <1>t DEF DeliveryRow
  <2>4. ClaimsApart'
    BY <2>2, <2>3 DEF ClaimsApart
  <2>5. ASSUME NEW m \in Mails
        PROVE  deliveries'[m].emails + Cardinality(Unsent(m)') <= deliveries'[m].attempts
    <3>1. CASE m \notin claimed
      <4>1. Unsent(m)' \subseteq Unsent(m)
        BY <2>2, <3>1 DEF Unsent
      <4>2. /\ Cardinality(Unsent(m)') <= Cardinality(Unsent(m))
            /\ Cardinality(Unsent(m)') \in Nat
        BY <4>1, UnsentFinite, FS_Subset, FS_CardinalityType
      <4>3. deliveries'[m] = deliveries[m]
        BY <1>3, <3>1 DEF ClaimDeliveries
      <4> QED
        BY <4>2, <4>3, <1>t, UnsentFinite DEF MailsPaid, DeliveryRow
    <3>2. CASE m \in claimed
      <4> DEFINE k == deliveries[m].attempts + 1
      <4>1. k \in Nat /\ k \notin Unsent(m)
        BY <1>t, UnsentFinite DEF DeliveryRow
      <4>2. Unsent(m)' \subseteq Unsent(m) \cup {k}
        BY <2>2 DEF Unsent
      <4>3. /\ IsFiniteSet(Unsent(m) \cup {k})
            /\ Cardinality(Unsent(m) \cup {k}) = Cardinality(Unsent(m)) + 1
        BY <4>1, UnsentFinite, FS_AddElement
      <4>4. /\ Cardinality(Unsent(m)') <= Cardinality(Unsent(m)) + 1
            /\ Cardinality(Unsent(m)') \in Nat
        BY <4>2, <4>3, FS_Subset, FS_CardinalityType
      <4>5. /\ deliveries'[m].emails = deliveries[m].emails
            /\ deliveries'[m].attempts = deliveries[m].attempts + 1
        BY <1>3, <3>2, <1>t DEF ClaimDeliveries, DeliveryRow
      <4> QED
        BY <4>4, <4>5, <1>t, UnsentFinite DEF MailsPaid, DeliveryRow
    <3> QED
      BY <3>1, <3>2
  <2> QED
    BY <2>4, <2>5 DEF MailsPaid
<1>4. ASSUME NEW s \in Senders, SendOne(s) PROVE ClaimsApart' /\ MailsPaid'
  <2>1. PICK c \in sender[s].claims, taken \in BOOLEAN : \E outcome \in SendOutcomes(taken) :
          /\ deliveries' = [deliveries EXCEPT ![c[1]].emails = IF taken THEN @ + 1 ELSE @]
          /\ sender' = [sender EXCEPT ![s] =
                          [phase |-> outcome, claims |-> @.claims \ {c}, mail |-> {c}]]
    BY <1>4 DEF SendOne
  <2>2. c \in Mails \X Nat /\ c[1] \in Mails /\ c[2] \in Nat /\ c = <<c[1], c[2]>>
    BY <2>1, ClaimTypes
  <2>3. /\ sender'[s].claims = sender[s].claims \ {c}
        /\ \A t \in Senders \ {s} : sender'[t] = sender[t]
    BY <2>1 DEF SenderTypeOK
  <2>4. ClaimsApart'
    BY <2>3 DEF ClaimsApart
  <2>5. ASSUME NEW m \in Mails
        PROVE  deliveries'[m].emails + Cardinality(Unsent(m)') <= deliveries'[m].attempts
    <3>1. CASE m # c[1]
      <4>1. Unsent(m)' = Unsent(m)
        BY <2>2, <2>3, <3>1 DEF Unsent
      <4>2. deliveries'[m] = deliveries[m]
        BY <2>1, <3>1 DEF SenderTypeOK
      <4> QED
        BY <4>1, <4>2 DEF MailsPaid
    <3>2. CASE m = c[1]
      <4>1. c[2] \in Unsent(m)
        BY <2>1, <2>2, <3>2 DEF Unsent
      <4>2. Unsent(m)' = Unsent(m) \ {c[2]}
        <5>1. \A t \in Senders \ {s} : <<m, c[2]>> \notin sender[t].claims
          BY <2>1, <2>2, <3>2 DEF ClaimsApart
        <5>2. \A k \in Nat : k # c[2] => <<m, k>> # c
          BY <2>2
        <5> QED
          BY <2>2, <2>3, <3>2, <5>1, <5>2 DEF Unsent
      <4>3. Cardinality(Unsent(m)') = Cardinality(Unsent(m)) - 1
        <5>1. Cardinality(Unsent(m) \ {c[2]}) = Cardinality(Unsent(m)) - 1
          BY <4>1, UnsentFinite, FS_RemoveElement
        <5> QED
          BY <4>2, <5>1
      <4>4. /\ deliveries'[m].emails <= deliveries[m].emails + 1
            /\ deliveries'[m].emails \in Nat
            /\ deliveries'[m].attempts = deliveries[m].attempts
        BY <2>1, <2>2, <3>2, <1>t DEF DeliveryRow, SenderTypeOK
      <4> QED
        BY <4>3, <4>4, <1>t, UnsentFinite DEF MailsPaid, DeliveryRow
    <3> QED
      BY <3>1, <3>2
  <2> QED
    BY <2>4, <2>5 DEF MailsPaid
<1>5. ASSUME NEW s \in Senders, MarkSent(s) PROVE ClaimsApart' /\ MailsPaid'
  <2>1. PICK c \in sender[s].mail : deliveries' = [deliveries EXCEPT ![c[1]].status = "sent"]
    BY <1>5 DEF MarkSent
  <2>2. c[1] \in Mails
    BY <2>1, ClaimTypes
  <2>3. \A m \in Mails : /\ deliveries'[m].emails = deliveries[m].emails
                         /\ deliveries'[m].attempts = deliveries[m].attempts
    BY <2>1, <2>2, <1>t DEF DeliveryRow, SenderTypeOK
  <2>4. \A t \in Senders : sender'[t].claims \subseteq sender[t].claims
    BY <1>5 DEF MarkSent, AfterMark, Idle, SenderTypeOK, SenderState
  <2> QED
    BY <2>3, <2>4, FewerClaims
<1>6. ASSUME NEW s \in Senders, MarkRefused(s) PROVE ClaimsApart' /\ MailsPaid'
  <2>1. PICK c \in sender[s].mail : deliveries' = [deliveries EXCEPT ![c[1]] = Refused(@, c[2])]
    BY <1>6 DEF MarkRefused
  <2>2. c[1] \in Mails
    BY <2>1, ClaimTypes
  <2>3. /\ Refused(deliveries[c[1]], c[2]).emails = deliveries[c[1]].emails
        /\ Refused(deliveries[c[1]], c[2]).attempts = deliveries[c[1]].attempts
    BY <2>2, <1>t DEF Refused, Retried, Queued, DeliveryRow
  <2>4. \A m \in Mails : /\ deliveries'[m].emails = deliveries[m].emails
                         /\ deliveries'[m].attempts = deliveries[m].attempts
    BY <2>1, <2>2, <2>3 DEF SenderTypeOK
  <2>5. \A t \in Senders : sender'[t].claims \subseteq sender[t].claims
    BY <1>6 DEF MarkRefused, AfterMark, Idle, SenderTypeOK, SenderState
  <2> QED
    BY <2>4, <2>5, FewerClaims
<1>7. ASSUME NEW s \in Senders, SenderStops(s) PROVE ClaimsApart' /\ MailsPaid'
  <2>1. \A t \in Senders : sender'[t].claims \subseteq sender[t].claims
    BY <1>7 DEF SenderStops, Idle, SenderTypeOK, SenderState
  <2> QED
    BY <1>7, <2>1, FewerClaims DEF SenderStops
<1>8. CASE UNCHANGED vars
  BY <1>8, FewerClaims DEF vars
<1> QED
  BY <1>1, <1>2, <1>3, <1>4, <1>5, <1>6, <1>7, <1>8 DEF Next, Reap, Claim, Work

(* With nothing claimed there is nothing unsent.                           *)
LEMMA MailsPaidInit == Init => ClaimsApart /\ MailsPaid
<1> SUFFICES ASSUME Init PROVE ClaimsApart /\ MailsPaid
  OBVIOUS
<1>1. \A m \in Mails : Unsent(m) = {}
  BY DEF Init, Idle, Unsent
<1>2. Cardinality({}) = 0
  BY FS_EmptySet
<1>3. \A m \in Mails : deliveries[m].emails + Cardinality(Unsent(m)) <= deliveries[m].attempts
  <2> SUFFICES ASSUME NEW m \in Mails
               PROVE  deliveries[m].emails + Cardinality(Unsent(m)) <= deliveries[m].attempts
    OBVIOUS
  <2>1. Cardinality(Unsent(m)) = 0
    BY <1>1, <1>2
  <2>2. deliveries[m].emails = 0 /\ deliveries[m].attempts = 0
    BY DEF Init, NoDelivery
  <2> QED
    BY <2>1, <2>2
<1>4. ClaimsApart
  BY DEF Init, Idle, ClaimsApart
<1> QED
  BY <1>3, <1>4 DEF MailsPaid

(* A recipient gets a second mail about an alert only for a retry of its   *)
(* delivery, whoever reaped it and however late its first sender was.      *)
THEOREM DuplicatesAreRetriesAlways == Spec => []DuplicatesAreRetries
<1>1. SenderTypeOK /\ SenderTypeOK' /\ Paid /\ ClaimsApart /\ MailsPaid /\ [Next]_vars =>
        ClaimsApart' /\ MailsPaid'
  BY MailsPaidStep DEF Paid
<1>2. SenderTypeOK /\ Paid /\ MailsPaid => DuplicatesAreRetries
  <2> SUFFICES ASSUME SenderTypeOK, Paid, MailsPaid, NEW m \in Mails
               PROVE  deliveries[m].emails <= deliveries[m].retries + 1
    BY DEF DuplicatesAreRetries
  <2>1. deliveries[m] \in DeliveryRow
    BY DEF SenderTypeOK
  <2>2. deliveries[m].emails + Cardinality(Unsent(m)) <= deliveries[m].attempts
    BY DEF MailsPaid
  <2>3. deliveries[m].attempts <= deliveries[m].retries + 1
    BY DEF Paid, AttemptsPaid
  <2>4. Cardinality(Unsent(m)) \in Nat
    BY UnsentFinite DEF Paid
  <2> QED
    BY <2>1, <2>2, <2>3, <2>4 DEF DeliveryRow
<1> QED
  BY <1>1, <1>2, MailsPaidInit, SenderTypeCorrect, AlwaysPaid, PTL DEF Spec

---------------------------------------------------------------------------
(* The digests.  Once the alerts are listed, every live alert of the window*)
(* last seen before the digest's clock was read is among them, or was      *)
(* written late; and whoever was just mailed has them all.                 *)

(* Clocks of digests past or in progress are not ahead of now.             *)
ClocksBehind ==
  /\ \A p \in People : pref[p].last # Never => pref[p].last <= now
  /\ digest.at <= now

(* What the digest in progress, listed by now, owes p.                     *)
OwedBy(p) == {a \in Live : /\ alert[a].seen < digest.at /\ InWindow(a, digest.at)
                           /\ a \notin passed[p]}

DigestListsOwed ==
  digest.pc \in {"sending", "marking"} => \A p \in People : OwedBy(p) \subseteq digest.listed

JustMailed ==
  digest.pc = "marking" => \A p \in digest.to : OwedBy(p) \subseteq told[p]

DigestInv ==
  DigestTypeOK /\ ClocksBehind /\ DigestListsOwed /\ JustMailed /\ DigestLeavesNothingOut

(* No alert, no digest, and nobody ever had one.                           *)
LEMMA DigestInvInit == DigestInit => DigestInv
  BY DigestAssumption
  DEF DigestInit, DigestInv, DigestTypeOK, AlertRow, Preference, Digest, NoDigest, ClocksBehind,
      DigestListsOwed, JustMailed, DigestLeavesNothingOut, Live

(* An alert seen again is either seen at this very second, and so after the*)
(* clock of every digest so far, or written late.                          *)
LEMMA SeenKeepsDigestInv ==
  ASSUME DigestInv, NEW a \in Alerts, NEW mailed, Seen(a, mailed)
  PROVE  DigestInv'
<1>1. PICK t \in 0..now :
        /\ alert' = [alert EXCEPT ![a] = [status |-> "live", seen |-> t]]
        /\ told' = [p \in People |-> IF p \in mailed THEN told[p] \cup {a} ELSE told[p] \ {a}]
        /\ passed' = [p \in People |-> IF t < now THEN passed[p] \cup {a} ELSE passed[p] \ {a}]
        /\ UNCHANGED <<now, pref, digest>>
  BY DEF Seen
<1>2. DigestTypeOK'
  <2>1. t \in Nat /\ now \in Nat
    BY DEF DigestInv, DigestTypeOK
  <2>2. alert' \in [Alerts -> AlertRow]
    BY <1>1, <2>1 DEF DigestInv, DigestTypeOK, AlertRow
  <2>3. told' \in [People -> SUBSET Alerts] /\ passed' \in [People -> SUBSET Alerts]
    BY <1>1 DEF DigestInv, DigestTypeOK
  <2> QED
    BY <1>1, <2>2, <2>3 DEF DigestInv, DigestTypeOK
<1>3. \A b \in Alerts : b # a => alert'[b] = alert[b]
  BY <1>1 DEF DigestInv, DigestTypeOK
<1>4. alert'[a].status = "live" /\ alert'[a].seen = t
  BY <1>1 DEF DigestInv, DigestTypeOK
<1>5. ClocksBehind'
  BY <1>1 DEF DigestInv, ClocksBehind
<1>6. \A p \in People, b \in Alerts :
        b # a => /\ b \in told'[p] <=> b \in told[p]
                 /\ b \in passed'[p] <=> b \in passed[p]
  BY <1>1
<1>7. \A p \in People : t < now => a \in passed'[p]
  BY <1>1
<1>8. \A p \in People : OwedBy(p)' \subseteq OwedBy(p) \ {a}
  <2> SUFFICES ASSUME NEW p \in People, NEW b \in OwedBy(p)'
               PROVE  b \in OwedBy(p) /\ b # a
    OBVIOUS
  <2>1. b \in Live' /\ (alert'[b].seen < digest.at) /\ InWindow(b, digest.at)' /\ b \notin passed'[p]
    BY <1>1 DEF OwedBy
  <2>2. b # a
    <3>1. t \in Nat /\ now \in Nat /\ digest.at \in Nat /\ digest.at <= now
      BY DEF DigestInv, DigestTypeOK, ClocksBehind, Digest
    <3> QED
      BY <1>4, <1>7, <2>1, <3>1
  <2>3. b \in Alerts
    BY <2>1 DEF Live
  <2> QED
    BY <1>1, <1>3, <1>6, <2>1, <2>2, <2>3 DEF OwedBy, Live, InWindow
<1>9. DigestListsOwed' /\ JustMailed'
  <2>1. DigestListsOwed'
    BY <1>1, <1>8 DEF DigestInv, DigestListsOwed
  <2>2. JustMailed'
    <3>1. digest.to \subseteq People
      BY DEF DigestInv, DigestTypeOK, Digest
    <3>2. \A p \in People : OwedBy(p) \subseteq Alerts
      BY DEF OwedBy, Live
    <3> QED
      BY <1>1, <1>6, <1>8, <3>1, <3>2 DEF DigestInv, JustMailed
  <2> QED
    BY <2>1, <2>2
<1>10. DigestLeavesNothingOut'
  <2> SUFFICES ASSUME NEW p \in People, NEW b \in Live',
                      pref[p].last # Never, alert'[b].seen < pref[p].last
               PROVE  b \in told'[p] \cup passed'[p]
    BY <1>1 DEF DigestLeavesNothingOut
  <2>1. CASE b = a
    <3>1. t \in Nat /\ now \in Nat /\ pref[p].last \in Nat /\ pref[p].last <= now
      BY DEF DigestInv, DigestTypeOK, ClocksBehind, Preference
    <3> QED
      BY <1>4, <1>7, <2>1, <3>1
  <2>2. CASE b # a
    <3>1. b \in Live /\ alert'[b] = alert[b] /\ b \in Alerts
      BY <1>3, <2>2 DEF Live
    <3> QED
      BY <1>6, <2>2, <3>1 DEF DigestInv, DigestLeavesNothingOut
  <2> QED
    BY <2>1, <2>2
<1> QED
  BY <1>2, <1>5, <1>9, <1>10 DEF DigestInv

(* The clock and the dates of digests, which the steps below need.         *)
LEMMA DigestClocks ==
  ASSUME DigestInv
  PROVE  /\ now \in Nat /\ digest.at \in Nat /\ digest.at <= now /\ Interval \in Nat
         /\ \A a \in Alerts : alert[a].seen \in Nat
         /\ \A p \in People : pref[p].last # Never => pref[p].last \in Nat /\ pref[p].last <= now
         /\ \A p \in People : told[p] \subseteq Alerts /\ passed[p] \subseteq Alerts
  BY DigestAssumption
  DEF DigestInv, DigestTypeOK, ClocksBehind, AlertRow, Preference, Digest

(* Done ends the digest or leaves it as it was but for the recipients.     *)
LEMMA DoneTypes ==
  ASSUME NEW d \in Digest
  PROVE  /\ Done(d) \in Digest /\ Done(d).pc \in {"idle", "sending"} /\ Done(d).at \in {0, d.at}
         /\ Done(d).pc = "sending" => Done(d).at = d.at /\ Done(d).listed = d.listed
<1>1. CASE d.todo = {}
  BY <1>1 DEF Done, NoDigest, Digest
<1>2. CASE d.todo # {}
  <2>1. Done(d) = [d EXCEPT !.pc = "sending", !.to = {}]
    BY <1>2 DEF Done
  <2> QED
    BY <2>1 DEF Digest
<1> QED
  BY <1>1, <1>2

(* One step below per action of DigestNext.                                *)
LEMMA DigestInvStep == DigestInv /\ [DigestNext]_digestVars => DigestInv'
<1> SUFFICES ASSUME DigestInv, [DigestNext]_digestVars PROVE DigestInv'
  OBVIOUS
<1> USE DigestClocks
<1>1. ASSUME NEW a \in Alerts, RaiseAlert(a) \/ AlertRecurs(a) \/ Reopen(a) PROVE DigestInv'
  BY <1>1, SeenKeepsDigestInv DEF RaiseAlert, AlertRecurs, Reopen
<1>2. ASSUME NEW a \in Alerts, Resolve(a) PROVE DigestInv'
  <2>1. Live' = Live \ {a} /\ \A b \in Alerts : alert'[b].seen = alert[b].seen
    BY <1>2 DEF Resolve, Live, DigestInv, DigestTypeOK, AlertRow
  <2>2. alert' \in [Alerts -> AlertRow]
    BY <1>2 DEF Resolve, DigestInv, DigestTypeOK, AlertRow
  <2>3. UNCHANGED <<now, pref, digest, told, passed>>
    BY <1>2 DEF Resolve
  <2>4. \A p \in People : OwedBy(p)' \subseteq OwedBy(p)
    BY <2>1, <2>3 DEF OwedBy, InWindow, Live
  <2>5. DigestTypeOK' /\ ClocksBehind'
    BY <2>2, <2>3 DEF DigestInv, DigestTypeOK, ClocksBehind
  <2>6. DigestListsOwed' /\ JustMailed'
    BY <2>3, <2>4 DEF DigestInv, DigestListsOwed, JustMailed, DigestTypeOK, Digest
  <2>7. DigestLeavesNothingOut'
    BY <2>1, <2>3 DEF DigestInv, DigestLeavesNothingOut, Live
  <2> QED
    BY <2>5, <2>6, <2>7 DEF DigestInv
<1>3. ASSUME NEW q \in People, SetPreferences(q) PROVE DigestInv'
  <2>1. UNCHANGED <<now, alert, digest, told, passed>>
        /\ pref' = [pref EXCEPT ![q].digestOnly = ~ @]
    BY <1>3 DEF SetPreferences
  <2>2. \A p \in People : pref'[p].last = pref[p].last
    BY <2>1 DEF DigestInv, DigestTypeOK, Preference
  <2>3. pref' \in [People -> Preference]
    BY <2>1 DEF DigestInv, DigestTypeOK, Preference
  <2>4. DigestTypeOK' /\ ClocksBehind'
    BY <2>1, <2>2, <2>3 DEF DigestInv, DigestTypeOK, ClocksBehind
  <2>5. DigestListsOwed' /\ JustMailed'
    BY <2>1 DEF DigestInv, DigestListsOwed, JustMailed, OwedBy, Live, InWindow
  <2>6. DigestLeavesNothingOut'
    BY <2>1, <2>2 DEF DigestInv, DigestLeavesNothingOut, Live
  <2> QED
    BY <2>4, <2>5, <2>6 DEF DigestInv
<1>4. CASE FindRecipients
  <2>1. /\ digest' = [NoDigest EXCEPT !.pc = "due", !.at = now,
                        !.todo = {p \in People : Due(p, now)}]
        /\ UNCHANGED <<now, alert, pref, told, passed>>
    BY <1>4 DEF FindRecipients
  <2>2. digest' \in Digest /\ digest'.pc = "due" /\ digest'.at = now
    BY <2>1 DEF NoDigest, Digest, DigestInv, DigestTypeOK
  <2>3. DigestTypeOK' /\ ClocksBehind' /\ DigestListsOwed' /\ JustMailed'
    BY <2>1, <2>2 DEF DigestInv, DigestTypeOK, ClocksBehind, DigestListsOwed, JustMailed
  <2>4. DigestLeavesNothingOut'
    BY <2>1 DEF DigestInv, DigestLeavesNothingOut, Live
  <2> QED
    BY <2>3, <2>4 DEF DigestInv
<1>5. CASE ListAlerts
  <2>1. /\ digest' = [digest EXCEPT !.pc = "sending",
                        !.listed = {a \in Live : InWindow(a, digest.at)}]
        /\ UNCHANGED <<now, alert, pref, told, passed>>
    BY <1>5 DEF ListAlerts
  <2>2. /\ digest' \in Digest /\ digest'.pc = "sending" /\ digest'.at = digest.at
        /\ digest'.listed = {a \in Live : InWindow(a, digest.at)}
    BY <2>1 DEF Digest, DigestInv, DigestTypeOK, Live
  <2>3. DigestTypeOK' /\ ClocksBehind' /\ JustMailed'
    BY <2>1, <2>2 DEF DigestInv, DigestTypeOK, ClocksBehind, JustMailed
  <2>4. DigestListsOwed'
    BY <2>1, <2>2 DEF DigestListsOwed, OwedBy, Live, InWindow
  <2>5. DigestLeavesNothingOut'
    BY <2>1 DEF DigestInv, DigestLeavesNothingOut, Live
  <2> QED
    BY <2>3, <2>4, <2>5 DEF DigestInv
<1>6. ASSUME NEW q \in People, SendDigest(q) PROVE DigestInv'
  <2> DEFINE left == [digest EXCEPT !.todo = @ \ {q}]
  <2>1. digest.pc = "sending" /\ UNCHANGED <<now, alert, pref, passed>>
    BY <1>6 DEF SendDigest
  <2>2. left \in Digest /\ left.at = digest.at /\ left.listed = digest.listed
        /\ left.pc = "sending"
    BY <2>1 DEF DigestInv, DigestTypeOK, Digest
  <2>3. CASE /\ digest' = [left EXCEPT !.pc = "marking", !.to = {q}]
             /\ told' = [told EXCEPT ![q] = @ \cup digest.listed]
    <3>1. /\ digest' \in Digest /\ digest'.pc = "marking" /\ digest'.to = {q}
          /\ digest'.at = digest.at /\ digest'.listed = digest.listed
      BY <2>2, <2>3 DEF Digest
    <3>2. told' \in [People -> SUBSET Alerts] /\ digest.listed \subseteq told'[q]
          /\ \A p \in People : told[p] \subseteq told'[p]
      BY <2>3 DEF DigestInv, DigestTypeOK, Digest
    <3>3. DigestTypeOK' /\ ClocksBehind'
      BY <2>1, <3>1, <3>2 DEF DigestInv, DigestTypeOK, ClocksBehind
    <3>4. \A p \in People : OwedBy(p)' = OwedBy(p)
      BY <2>1, <3>1 DEF OwedBy, Live, InWindow
    <3>5. DigestListsOwed' /\ JustMailed'
      BY <2>1, <3>1, <3>2, <3>4 DEF DigestInv, DigestListsOwed, JustMailed
    <3>6. DigestLeavesNothingOut'
      BY <2>1, <3>2 DEF DigestInv, DigestLeavesNothingOut, Live
    <3> QED
      BY <3>3, <3>5, <3>6 DEF DigestInv
  <2>4. CASE digest' = Done(left) /\ UNCHANGED told
    <3>1. digest'.at \in {0, digest.at} /\ digest' \in Digest
      BY <2>2, <2>4, DoneTypes
    <3>2. /\ digest' \in Digest /\ digest'.pc \in {"idle", "sending"} /\ digest'.at <= now
          /\ digest'.pc = "sending" => digest'.at = digest.at /\ digest'.listed = digest.listed
      <4>1. left \in Digest /\ digest' = Done(left) /\ digest'.at <= now
        BY <2>2, <2>4, <3>1
      <4> HIDE DEF left
      <4> QED
        BY <2>2, <4>1, DoneTypes
    <3>3. DigestTypeOK' /\ ClocksBehind' /\ JustMailed'
      BY <2>1, <2>4, <3>2 DEF DigestInv, DigestTypeOK, ClocksBehind, JustMailed
    <3>4. DigestListsOwed'
      BY <2>1, <3>2 DEF DigestInv, DigestListsOwed, OwedBy, Live, InWindow
    <3>5. DigestLeavesNothingOut'
      BY <2>1, <2>4 DEF DigestInv, DigestLeavesNothingOut, Live
    <3> QED
      BY <3>3, <3>4, <3>5 DEF DigestInv
  <2> QED
    BY <1>6, <2>3, <2>4 DEF SendDigest
<1>7. ASSUME NEW q \in People, MarkDigestSent(q) PROVE DigestInv'
  <2>1. /\ digest.pc = "marking" /\ q \in digest.to
        /\ pref' = [pref EXCEPT ![q].last = digest.at]
        /\ digest' = Done(digest)
        /\ UNCHANGED <<now, alert, told>>
    BY <1>7 DEF MarkDigestSent, MarkedAt
  <2>2. /\ digest' \in Digest /\ digest'.pc \in {"idle", "sending"} /\ digest'.at <= now
        /\ digest'.pc = "sending" => digest'.at = digest.at /\ digest'.listed = digest.listed
    <3>1. digest \in Digest
      BY DEF DigestInv, DigestTypeOK
    <3> QED
      BY <2>1, <3>1, DoneTypes
  <2>3. pref' \in [People -> Preference] /\ pref'[q].last = digest.at
        /\ \A p \in People : p # q => pref'[p] = pref[p]
    BY <2>1 DEF DigestInv, DigestTypeOK, Preference
  <2>4. /\ passed' \in [People -> SUBSET Alerts]
        /\ \A p \in People : passed[p] \subseteq passed'[p]
        /\ ~ OnTime(q) => {a \in Live : alert[a].seen + Interval < digest.at} \subseteq passed'[q]
    <3>1. CASE OnTime(q)
      BY <1>7, <3>1 DEF MarkDigestSent, DigestInv, DigestTypeOK
    <3>2. CASE ~ OnTime(q)
      <4>1. passed' = [passed EXCEPT ![q] = @ \cup {a \in Live : alert[a].seen + Interval < digest.at}]
        BY <1>7, <3>2 DEF MarkDigestSent
      <4>2. {a \in Live : alert[a].seen + Interval < digest.at} \subseteq Alerts
        BY DEF Live
      <4> QED
        BY <3>2, <4>1, <4>2 DEF DigestInv, DigestTypeOK
    <3> QED
      BY <3>1, <3>2
  <2>5. DigestTypeOK' /\ ClocksBehind' /\ JustMailed'
    BY <2>1, <2>2, <2>3, <2>4 DEF DigestInv, DigestTypeOK, ClocksBehind, JustMailed
  <2>6. DigestListsOwed'
    BY <2>1, <2>2, <2>4 DEF DigestInv, DigestListsOwed, OwedBy, Live, InWindow
  <2>7. DigestLeavesNothingOut'
    <3> SUFFICES ASSUME NEW p \in People, NEW a \in Live,
                        pref'[p].last # Never, alert[a].seen < pref'[p].last
                 PROVE  a \in told[p] \cup passed'[p]
      BY <2>1 DEF DigestLeavesNothingOut, Live
    <3>1. CASE p # q
      BY <2>3, <2>4, <3>1 DEF DigestInv, DigestLeavesNothingOut
    <3>2. CASE p = q /\ InWindow(a, digest.at)
      <4>1. alert[a].seen < digest.at
        BY <2>3, <3>2
      <4>2. a \in OwedBy(q) \cup passed[q]
        BY <3>2, <4>1 DEF OwedBy
      <4> QED
        BY <2>1, <2>4, <3>2, <4>2 DEF DigestInv, JustMailed
    <3>3. CASE p = q /\ ~ InWindow(a, digest.at)
      <4>1. a \in Alerts /\ alert[a].seen + Interval < digest.at
        BY <3>3 DEF InWindow, Live
      <4>2. CASE ~ OnTime(q)
        BY <2>4, <3>3, <4>1, <4>2
      <4>3. CASE OnTime(q)
        <5>1. pref[q].last # Never /\ alert[a].seen < pref[q].last
          BY <4>1, <4>3 DEF OnTime
        <5> QED
          BY <2>4, <3>3, <5>1 DEF DigestInv, DigestLeavesNothingOut
      <4> QED
        BY <4>2, <4>3
    <3> QED
      BY <3>1, <3>2, <3>3
  <2> QED
    BY <2>5, <2>6, <2>7 DEF DigestInv
<1>8. CASE DigestStops
  <2>1. digest' = NoDigest /\ UNCHANGED <<now, alert, pref, told, passed>>
    BY <1>8 DEF DigestStops
  <2>2. digest' \in Digest /\ digest'.pc = "idle" /\ digest'.at <= now
    BY <2>1 DEF NoDigest, Digest
  <2>3. DigestTypeOK' /\ ClocksBehind' /\ DigestListsOwed' /\ JustMailed'
    BY <2>1, <2>2 DEF DigestInv, DigestTypeOK, ClocksBehind, DigestListsOwed, JustMailed
  <2>4. DigestLeavesNothingOut'
    BY <2>1 DEF DigestInv, DigestLeavesNothingOut, Live
  <2> QED
    BY <2>3, <2>4 DEF DigestInv
<1>9. CASE Tick
  <2>1. now' = now + 1 /\ UNCHANGED <<alert, pref, digest, told, passed>>
    BY <1>9 DEF Tick
  <2>2. DigestTypeOK' /\ ClocksBehind'
    BY <2>1 DEF DigestInv, DigestTypeOK, ClocksBehind
  <2>3. DigestListsOwed' /\ JustMailed' /\ DigestLeavesNothingOut'
    BY <2>1 DEF DigestInv, DigestListsOwed, JustMailed, OwedBy, DigestLeavesNothingOut, Live,
                InWindow
  <2> QED
    BY <2>2, <2>3 DEF DigestInv
<1>10. CASE UNCHANGED digestVars
  BY <1>10 DEF digestVars, DigestInv, DigestTypeOK, ClocksBehind, DigestListsOwed, JustMailed,
               OwedBy, DigestLeavesNothingOut, Live, InWindow
<1> QED
  BY <1>1, <1>2, <1>3, <1>4, <1>5, <1>6, <1>7, <1>8, <1>9, <1>10 DEF DigestNext

(* Digests miss no alert that was in their window, however alerts recur,   *)
(* are reopened and written while a digest is listed, mailed and marked,   *)
(* mails fail and the process dies: for any number of alerts and people.   *)
THEOREM DigestLeavesNothingOutAlways == DigestSpec => []DigestLeavesNothingOut
<1>1. DigestInv => DigestLeavesNothingOut
  BY DEF DigestInv
<1> QED
  BY <1>1, DigestInvInit, DigestInvStep, PTL DEF DigestSpec

---------------------------------------------------------------------------
(* Watchdog, for any number of steps, batches and organizations, any       *)
(* budgets and ages, and without a bound on edits, crashes and answers:    *)
(* types.                                                                  *)

RowStates    == {"none", "intact", "edited", "rewritten", "deleted"}
OutboxStates == {"none", "pending", "confirmed", "dead_letter"}
Hash         == {"old", "new", "other"}
Severities   == {"critical", "warning"}
Batch        == [leaves : Seq(Steps), root : Seq(Hash)]
AlertState   == [open : BOOLEAN, acked : BOOLEAN, resolved : BOOLEAN, severity : Severities]
LoadedBatch  == [id : Batches, root : Seq(Hash)]
Found        == [key : Keys, severity : Severities]
LookedUp     == [key : Keys, severity : Severities, open : BOOLEAN]
Stages       == {"idle", "hotSteps", "hotBatches", "liveness", "rollSteps", "rollBatches"}
Cycle == [stage : Stages, last : Nat, todo : SUBSET LoadedBatch,
          check : {<<>>} \cup {<<c>> : c \in LoadedBatch},
          findings : SUBSET Found, found : {<<>>} \cup {<<l>> : l \in LookedUp}]

TablesTypeOK ==
  /\ rows \in [Steps -> RowStates] /\ history \subseteq Steps
  /\ outbox \in [Steps -> OutboxStates] /\ ages \in [Steps -> Nat]
  /\ batches \in [Batches -> Batch]
  /\ chain \in [Batches -> Seq(Hash)]
  /\ past \in [changed : SUBSET Batches, altered : SUBSET Batches, lost : SUBSET Batches]

WatchdogTypeOK ==
  /\ TablesTypeOK
  /\ verified \in [Batches -> {"none", "ok", "mismatch"}]
  /\ alerts \in [Keys -> AlertState]
  /\ cycle \in Cycle /\ cursor \in [steps : Nat, batches : Nat]
  /\ disturbances \in Nat

---------------------------------------------------------------------------
(* The invariant.                                                          *)

(* The trigger has a record of every changed row, and of no other.  What is*)
(* not logged has no outbox row.                                           *)
Recorded ==
  \A s \in Steps : /\ s \in history <=> rows[s] \in {"edited", "rewritten", "deleted"}
                   /\ rows[s] = "none" => outbox[s] = "none"

(* A batch is made of steps that were logged; its root is what is on chain *)
(* unless it was altered, and that is what is rebuilt unless a leaf was    *)
(* changed or is gone.                                                     *)
Anchored ==
  \A b \in Confirmed :
    /\ \A s \in LeavesOf(b) : rows[s] # "none"
    /\ b \notin past.altered => batches[b].root = chain[b]
    /\ b \notin past.changed /\ Missing(b) = {} => chain[b] = RebuildRoot(b)

(* What a sweep carries of a batch is as good as what is stored.           *)
Carried(batch) ==
  /\ batch.id \in Confirmed
  /\ batch.id \notin past.altered => batch.root = chain[batch.id]

(* What a cycle is about to raise.                                         *)
Pending == {f.key : f \in cycle.findings} \cup {f.key : f \in Range(cycle.found)}

Sweeping ==
  /\ cycle.stage = "idle" => cycle = AtRest
  /\ \A batch \in cycle.todo \cup Range(cycle.check) : Carried(batch)
  /\ \A f \in Range(cycle.found) : f.open => Raised(f.key)
  /\ \A k \in Pending : Earned(k)

(* A failed verification is of a confirmed batch, and was lost, raised or  *)
(* is about to be raised, organization by organization.                    *)
Told ==
  /\ \A b \in Batches : verified[b] # "none" => b \in Confirmed
  /\ \A b \in Batches : \A s \in LeavesOf(b) : verified[b] = "mismatch" =>
       LET k == <<"onchain", StepOrg[s], b>>
       IN  b \in past.lost \/ Raised(k) \/ k \in Pending

WatchdogInv ==
  /\ WatchdogTypeOK /\ Recorded /\ Anchored /\ Sweeping /\ Told
  /\ \A k \in Keys : Raised(k) => Earned(k)

---------------------------------------------------------------------------

(* The leaves of a batch are steps.                                        *)
LEMMA LeavesAreSteps ==
  ASSUME TablesTypeOK, NEW b \in Batches
  PROVE  /\ LeavesOf(b) \subseteq Steps
         /\ LeavesOf(b) # {} => b \in Confirmed
         /\ b \in Confirmed => batches[b].leaves # <<>>
<1>1. batches[b].leaves \in Seq(Steps)
  BY DEF TablesTypeOK, Batch
<1>2. \A i \in DOMAIN batches[b].leaves : batches[b].leaves[i] \in Steps
  BY <1>1
<1>3. LeavesOf(b) = {batches[b].leaves[i] : i \in DOMAIN batches[b].leaves}
  BY DEF LeavesOf, Range
<1>4. batches[b].leaves = <<>> => LeavesOf(b) = {}
  BY <1>3
<1> QED
  BY <1>2, <1>3, <1>4 DEF Confirmed

(* The hashes of a batch's leaves make a root.                             *)
LEMMA HashesType ==
  ASSUME NEW leaves \in Seq(Steps)
  PROVE  /\ HashesOf(leaves) \in Seq(Hash)
         /\ [i \in DOMAIN leaves |-> "other"] \in Seq(Hash)
<1>1. DOMAIN leaves = 1..Len(leaves) /\ Len(leaves) \in Nat
  OBVIOUS
<1>2. \A s : LeafHash(s) \in Hash
  BY DEF LeafHash, Hash
<1>3. HashesOf(leaves) = [i \in 1..Len(leaves) |-> LeafHash(leaves[i])]
  BY <1>1 DEF HashesOf
<1>4. HashesOf(leaves) \in [1..Len(leaves) -> Hash]
  BY <1>2, <1>3
<1>5. [i \in DOMAIN leaves |-> "other"] \in [1..Len(leaves) -> Hash]
  BY <1>1 DEF Hash
<1> QED
  BY <1>1, <1>4, <1>5

(* What a step of the system does not undo.                                *)
Onward ==
  /\ history \subseteq history'
  /\ past.changed \subseteq past'.changed /\ past.altered \subseteq past'.altered
  /\ past.lost \subseteq past'.lost
  /\ \A s \in Steps : /\ rows[s] # "none" => rows'[s] # "none"
                      /\ rows[s] = "deleted" => rows'[s] = "deleted"
                      /\ outbox[s] = "dead_letter" => outbox'[s] = "dead_letter"
                      /\ rows[s] # "none" => ages'[s] >= ages[s]
  /\ \A b \in Confirmed : batches'[b].leaves = batches[b].leaves /\ chain'[b] = chain[b]

(* A clock that stands does not run back.                                  *)
LEMMA SameAges ==
  ASSUME TablesTypeOK, ages' = ages
  PROVE  \A s \in Steps : ages'[s] >= ages[s]
BY DEF TablesTypeOK

(* Confirmed batches stay, with their leaves.                              *)
LEMMA LeavesStay ==
  ASSUME TablesTypeOK, Onward, NEW b \in Confirmed
  PROVE  LeavesOf(b)' = LeavesOf(b) /\ b \in Confirmed'
BY DEF Onward, LeavesOf, Confirmed

(* What an alert tells of stays true.                                      *)
LEMMA EarnedStays ==
  ASSUME TablesTypeOK, TablesTypeOK', Anchored, Onward, NEW k \in Keys, Earned(k)
  PROVE  Earned(k)'
<1>1. ASSUME NEW b \in Batches, LeavesOf(b) # {}
      PROVE  b \in Confirmed /\ LeavesOf(b)' = LeavesOf(b)
  BY <1>1, LeavesAreSteps, LeavesStay
<1>2. CASE k[1] = "row"
  BY <1>2 DEF Earned, Onward
<1>3. CASE k[1] = "missing"
  <2>1. k[3] \in Batches
    BY <1>3 DEF Keys
  <2> DEFINE b == k[3]
  <2>2. PICK s \in LeavesOf(b) : StepOrg[s] = k[2] /\ Missing(b) # {}
    BY <1>3 DEF Earned
  <2>3. b \in Confirmed /\ LeavesOf(b)' = LeavesOf(b) /\ LeavesOf(b) \subseteq Steps
    BY <1>1, <2>1, <2>2, LeavesAreSteps
  <2>4. PICK t \in LeavesOf(b) : t \notin Stored
    BY <2>2 DEF Missing
  <2>5. rows[t] \in RowStates /\ rows[t] # "none" /\ t \in Steps
    BY <2>3, <2>4 DEF Anchored, TablesTypeOK
  <2>6. rows[t] = "deleted"
    BY <2>4, <2>5 DEF Stored, RowStates
  <2>7. t \notin Stored'
    BY <2>5, <2>6 DEF Onward, Stored
  <2>8. Missing(b)' # {}
    BY <2>3, <2>4, <2>7 DEF Missing
  <2> QED
    BY <1>3, <2>2, <2>3, <2>8 DEF Earned
<1>4. CASE k[1] = "root"
  <2>1. k[3] \in Batches
    BY <1>4 DEF Keys
  <2> QED
    BY <1>1, <1>4, <2>1 DEF Earned, Onward
<1>5. CASE k[1] = "onchain"
  <2>1. k[3] \in Batches
    BY <1>5 DEF Keys
  <2> QED
    BY <1>1, <1>5, <2>1 DEF Earned, Onward
<1>6. CASE k[1] = "stalled"
  <2>1. PICK s \in Inserted : StepOrg[s] = k[2] /\ ages[s] >= StallAge
    BY <1>6 DEF Earned
  <2>2. s \in Steps /\ s \in Inserted' /\ ages'[s] >= ages[s] /\ {ages[s], ages'[s], StallAge} \subseteq Nat
    BY <2>1, WatchdogAssumption DEF Onward, Inserted, TablesTypeOK
  <2>3. ages'[s] >= StallAge
    BY <2>1, <2>2
  <2> QED
    BY <1>6, <2>1, <2>2, <2>3 DEF Earned
<1>7. CASE k[1] = "dead"
  BY <1>7 DEF Earned, Onward
<1>8. k[1] \in {"row", "missing", "root", "onchain", "stalled", "dead"}
  BY DEF Keys
<1> QED
  BY <1>2, <1>3, <1>4, <1>5, <1>6, <1>7, <1>8

---------------------------------------------------------------------------
(* What is watched.                                                        *)

(* The same leaves with the same hashes are rebuilt to the same root.      *)
LEMMA SameHashes ==
  ASSUME NEW b, batches'[b].leaves = batches[b].leaves,
         \A s \in LeavesOf(b) : LeafHash(s)' = LeafHash(s)
  PROVE  RebuildRoot(b)' = RebuildRoot(b)
<1> DEFINE leaves == batches[b].leaves
<1>1. \A i \in DOMAIN leaves : leaves[i] \in LeavesOf(b)
  BY DEF LeavesOf, Range
<1>2. \A i \in DOMAIN leaves : LeafHash(leaves[i])' = LeafHash(leaves[i])
  BY <1>1
<1> QED
  BY <1>2 DEF RebuildRoot, HashesOf

(* The tables move on, the watchdog and its alerts stay: the invariant does*)
(* too.                                                                    *)
LEMMA TablesMoveOn ==
  ASSUME WatchdogInv, TablesTypeOK', Recorded', Anchored', Onward,
         past'.lost = past.lost, disturbances' \in Nat, UNCHANGED <<dog, alerts>>
  PROVE  WatchdogInv'
<1>1. verified' = verified /\ cycle' = cycle /\ cursor' = cursor /\ alerts' = alerts
  BY DEF dog
<1>2. WatchdogTypeOK'
  BY <1>1 DEF WatchdogInv, WatchdogTypeOK
<1>3. TablesTypeOK /\ Anchored
  BY DEF WatchdogInv, WatchdogTypeOK
<1>4. \A k : Raised(k)' = Raised(k)
  BY <1>1 DEF Raised
<1>5. Pending' = Pending
  BY <1>1 DEF Pending
<1>6. Pending \subseteq Keys
  <2>1. cycle \in Cycle
    BY DEF WatchdogInv, WatchdogTypeOK
  <2>2. \A f \in cycle.findings : f.key \in Keys
    BY <2>1 DEF Cycle, Found
  <2>3. \A f \in Range(cycle.found) : f.key \in Keys
    BY <2>1 DEF Cycle, LookedUp, Range
  <2> QED
    BY <2>2, <2>3 DEF Pending
<1>7. \A k \in Keys : Earned(k) => Earned(k)'
  BY <1>3, EarnedStays
<1>8. Sweeping'
  <2>1. ASSUME NEW batch, Carried(batch) PROVE Carried(batch)'
    <3>1. batch.id \in Confirmed'
      BY <1>3, <2>1, LeavesStay DEF Carried
    <3>2. chain'[batch.id] = chain[batch.id]
      BY <2>1 DEF Carried, Onward
    <3> QED
      BY <2>1, <3>1, <3>2 DEF Carried, Onward
  <2> QED
    BY <1>1, <1>4, <1>5, <1>6, <1>7, <2>1 DEF WatchdogInv, Sweeping
<1>9. Told'
  <2>1. \A b \in Batches : verified'[b] # "none" => b \in Confirmed'
    BY <1>1, <1>3, LeavesStay DEF WatchdogInv, Told
  <2>2. ASSUME NEW b \in Batches, NEW s \in LeavesOf(b)', verified'[b] = "mismatch"
        PROVE  \/ b \in past'.lost \/ Raised(<<"onchain", StepOrg[s], b>>)'
               \/ <<"onchain", StepOrg[s], b>> \in Pending'
    <3>1. b \in Confirmed
      BY <1>1, <2>2 DEF WatchdogInv, Told
    <3>2. s \in LeavesOf(b)
      BY <1>3, <2>2, <3>1, LeavesStay
    <3> QED
      BY <1>1, <1>4, <1>5, <2>2, <3>2 DEF WatchdogInv, Told
  <2> QED
    BY <2>1, <2>2 DEF Told
<1>10. \A k \in Keys : Raised(k)' => Earned(k)'
  BY <1>4, <1>7 DEF WatchdogInv
<1> QED
  BY <1>2, <1>8, <1>9, <1>10 DEF WatchdogInv, WatchdogTypeOK

(* A step is logged.                                                       *)
LEMMA LogStepKeeps ==
  ASSUME WatchdogInv, NEW s \in Steps, LogStep(s)
  PROVE  WatchdogInv'
<1>1. /\ rows[s] = "none" /\ rows' = [rows EXCEPT ![s] = "intact"]
      /\ outbox' = [outbox EXCEPT ![s] = "pending"]
      /\ UNCHANGED <<history, ages, batches, chain, dog, alerts, disturbances, past>>
      /\ TablesTypeOK /\ Recorded /\ Anchored /\ disturbances \in Nat
  BY DEF LogStep, WatchdogInv, WatchdogTypeOK
<1>2. TablesTypeOK'
  BY <1>1 DEF TablesTypeOK, RowStates, OutboxStates
<1>3. Recorded'
  BY <1>1 DEF TablesTypeOK, Recorded
<1>4. \A t \in Steps : t # s => rows'[t] = rows[t]
  BY <1>1 DEF TablesTypeOK
<1>5. Confirmed' = Confirmed /\ \A b : LeavesOf(b)' = LeavesOf(b)
  BY <1>1 DEF Confirmed, LeavesOf
<1>6. Anchored'
  <2> SUFFICES ASSUME NEW b \in Confirmed
               PROVE  /\ \A t \in LeavesOf(b) : rows'[t] # "none"
                      /\ b \notin past.altered => batches[b].root = chain[b]
                      /\ b \notin past.changed /\ Missing(b)' = {} => chain[b] = RebuildRoot(b)'
    BY <1>1, <1>5 DEF Anchored
  <2>1. b \in Batches /\ LeavesOf(b) \subseteq Steps
    BY <1>1, LeavesAreSteps DEF Confirmed
  <2>2. \A t \in LeavesOf(b) : t # s /\ rows'[t] = rows[t]
    BY <1>1, <1>4, <2>1 DEF Anchored
  <2>3. RebuildRoot(b)' = RebuildRoot(b)
    BY <1>1, <2>2, SameHashes DEF LeafHash
  <2>4. Missing(b)' = Missing(b)
    BY <1>5, <2>1, <2>2 DEF Missing, Stored
  <2> QED
    BY <1>1, <2>2, <2>3, <2>4 DEF Anchored
<1>7. Onward
  <2>1. outbox[s] = "none"
    BY <1>1 DEF Recorded
  <2>2. \A t \in Steps : outbox[t] = "dead_letter" => outbox'[t] = "dead_letter"
    BY <1>1, <2>1 DEF TablesTypeOK
  <2>3. \A t \in Steps : (rows[t] # "none" => rows'[t] # "none") /\ (rows[t] = "deleted" => rows'[t] = "deleted")
    BY <1>1, <1>4
  <2> QED
    BY <1>1, <2>2, <2>3, SameAges DEF Onward
<1> QED
  BY <1>1, <1>2, <1>3, <1>6, <1>7, TablesMoveOn

(* A batch is confirmed.                                                   *)
LEMMA ConfirmBatchKeeps ==
  ASSUME WatchdogInv, NEW b \in Batches, NEW leaves \in LeafOrders, ConfirmBatch(b, leaves)
  PROVE  WatchdogInv'
<1> DEFINE root == HashesOf(leaves)
<1>1. /\ b \notin Confirmed
      /\ \A s \in Range(leaves) : s \in Stored /\ outbox[s] = "pending"
      /\ batches' = [batches EXCEPT ![b] = [leaves |-> leaves, root |-> root]]
      /\ chain' = [chain EXCEPT ![b] = root]
      /\ outbox' = [s \in Steps |-> IF s \in Range(leaves) THEN "confirmed" ELSE outbox[s]]
      /\ UNCHANGED <<rows, history, ages, dog, alerts, disturbances, past>>
      /\ TablesTypeOK /\ Recorded /\ Anchored /\ disturbances \in Nat
  BY DEF ConfirmBatch, WatchdogInv, WatchdogTypeOK
<1>2. leaves \in Seq(Steps) /\ root \in Seq(Hash)
  BY WatchdogAssumption, HashesType
<1>3. root' = root
  BY <1>1 DEF HashesOf, LeafHash
<1> HIDE DEF root
<1>4. TablesTypeOK'
  BY <1>1, <1>2 DEF TablesTypeOK, OutboxStates, Batch
<1>5. Recorded'
  BY <1>1 DEF Recorded, Stored
<1>6. /\ batches'[b].leaves = leaves /\ batches'[b].root = root /\ chain'[b] = root
      /\ \A c \in Batches : c # b => batches'[c] = batches[c] /\ chain'[c] = chain[c]
  BY <1>1 DEF TablesTypeOK
<1>7. Anchored'
  <2> SUFFICES ASSUME NEW c \in Confirmed'
               PROVE  /\ \A t \in LeavesOf(c)' : rows'[t] # "none"
                      /\ c \notin past'.altered => batches'[c].root = chain'[c]
                      /\ c \notin past'.changed /\ Missing(c)' = {} => chain'[c] = RebuildRoot(c)'
    BY DEF Anchored
  <2>1. CASE c = b
    <3>1. LeavesOf(c)' = Range(leaves)
      BY <1>6, <2>1 DEF LeavesOf
    <3>2. \A t \in LeavesOf(c)' : rows'[t] # "none"
      BY <1>1, <3>1 DEF Stored
    <3>3. RebuildRoot(c)' = root
      BY <1>3, <1>6, <2>1 DEF RebuildRoot, root
    <3> QED
      BY <1>6, <2>1, <3>2, <3>3
  <2>2. CASE c # b
    <3>1. c \in Batches /\ c \in Confirmed /\ batches'[c] = batches[c] /\ chain'[c] = chain[c]
      BY <1>6, <2>2 DEF Confirmed
    <3>2. LeavesOf(c)' = LeavesOf(c) /\ Missing(c)' = Missing(c)
      BY <1>1, <3>1 DEF LeavesOf, Missing, Stored
    <3>3. RebuildRoot(c)' = RebuildRoot(c)
      BY <1>1, <3>1, SameHashes DEF LeafHash
    <3> QED
      BY <1>1, <3>1, <3>2, <3>3 DEF Anchored
  <2> QED
    BY <2>1, <2>2
<1>8. Onward
  <2>1. \A s \in Steps : outbox[s] = "dead_letter" => outbox'[s] = "dead_letter"
    BY <1>1
  <2>2. \A c \in Confirmed : batches'[c].leaves = batches[c].leaves /\ chain'[c] = chain[c]
    BY <1>1, <1>6 DEF Confirmed
  <2> QED
    BY <1>1, <2>1, <2>2, SameAges DEF Onward
<1> QED
  BY <1>1, <1>4, <1>5, <1>7, <1>8, TablesMoveOn

(* A row is edited, rewritten with its hash, or deleted.                   *)
LEMMA ChangeRowKeeps ==
  ASSUME WatchdogInv, NEW s \in Steps, NEW form \in {"edited", "rewritten", "deleted"},
         ChangeRow(s, form)
  PROVE  WatchdogInv'
<1> DEFINE hit == {b \in Confirmed : form = "rewritten" /\ s \in LeavesOf(b)}
<1>1. /\ s \in Stored
      /\ form = "edited" => rows[s] = "intact"
      /\ rows' = [rows EXCEPT ![s] = form]
      /\ history' = history \cup {s}
      /\ past' = [past EXCEPT !.changed = @ \cup hit]
      /\ disturbances' = disturbances + 1
      /\ UNCHANGED <<outbox, ages, batches, chain, dog, alerts>>
      /\ TablesTypeOK /\ Recorded /\ Anchored /\ disturbances \in Nat
  BY DEF ChangeRow, WatchdogInv, WatchdogTypeOK
<1>2. hit \subseteq Batches
  BY DEF Confirmed
<1>3. /\ past'.changed = past.changed \cup hit /\ past'.altered = past.altered /\ past'.lost = past.lost
  BY <1>1 DEF TablesTypeOK
<1>4. TablesTypeOK'
  BY <1>1, <1>2 DEF TablesTypeOK, RowStates
<1>5. rows'[s] = form /\ \A t \in Steps : t # s => rows'[t] = rows[t]
  BY <1>1 DEF TablesTypeOK
<1>6. Recorded'
  BY <1>1, <1>5 DEF Recorded, Stored
<1>7. Confirmed' = Confirmed /\ \A b : LeavesOf(b)' = LeavesOf(b)
  BY <1>1 DEF Confirmed, LeavesOf
<1>8. Anchored'
  <2> SUFFICES ASSUME NEW b \in Confirmed
               PROVE  /\ \A t \in LeavesOf(b) : rows'[t] # "none"
                      /\ b \notin past'.altered => batches[b].root = chain[b]
                      /\ b \notin past'.changed /\ Missing(b)' = {} => chain[b] = RebuildRoot(b)'
    BY <1>1, <1>7 DEF Anchored
  <2>1. b \in Batches /\ LeavesOf(b) \subseteq Steps
    BY <1>1, LeavesAreSteps DEF Confirmed
  <2>2. \A t \in LeavesOf(b) : rows'[t] # "none"
    BY <1>1, <1>5, <2>1 DEF Anchored
  <2>3. ASSUME b \notin past'.changed, Missing(b)' = {} PROVE chain[b] = RebuildRoot(b)'
    <3>1. \A t \in LeavesOf(b) : t \in Stored'
      BY <1>7, <2>3 DEF Missing
    <3>2. \A t \in LeavesOf(b) : t \in Stored
      BY <1>1, <1>5, <2>1, <3>1 DEF Stored
    <3>3. Missing(b) = {} /\ b \notin past.changed /\ b \notin hit
      BY <1>3, <2>3, <3>2 DEF Missing
    <3>4. \A t \in LeavesOf(b) : LeafHash(t)' = LeafHash(t)
      <4> SUFFICES ASSUME NEW t \in LeavesOf(b) PROVE LeafHash(t)' = LeafHash(t)
        OBVIOUS
      <4>1. CASE t # s
        BY <1>5, <2>1, <4>1 DEF LeafHash
      <4>2. CASE t = s
        <5>1. form # "rewritten"
          BY <3>3, <4>2
        <5>2. form # "deleted"
          BY <1>5, <3>1, <4>2 DEF Stored
        <5> QED
          BY <1>1, <1>5, <4>2, <5>1, <5>2 DEF LeafHash
      <4> QED
        BY <4>1, <4>2
    <3>5. RebuildRoot(b)' = RebuildRoot(b)
      BY <1>1, <3>4, SameHashes
    <3> QED
      BY <1>1, <3>3, <3>5 DEF Anchored
  <2> QED
    BY <1>1, <1>3, <2>2, <2>3 DEF Anchored
<1>9. Onward
  BY <1>1, <1>3, <1>5, SameAges DEF Onward, Stored
<1> QED
  BY <1>1, <1>3, <1>4, <1>6, <1>8, <1>9, TablesMoveOn

(* A stored root is altered.                                               *)
LEMMA AlterRootKeeps ==
  ASSUME WatchdogInv, NEW b \in Batches, AlterRoot(b)
  PROVE  WatchdogInv'
<1>1. PICK root \in {HashesOf(batches[b].leaves), [i \in DOMAIN batches[b].leaves |-> "other"]} :
        batches' = [batches EXCEPT ![b].root = root]
  BY DEF AlterRoot
<1>2. /\ past' = [past EXCEPT !.altered = @ \cup {b}]
      /\ disturbances' = disturbances + 1
      /\ UNCHANGED <<rows, history, outbox, ages, chain, dog, alerts>>
      /\ TablesTypeOK /\ Recorded /\ Anchored /\ disturbances \in Nat
  BY DEF AlterRoot, WatchdogInv, WatchdogTypeOK
<1>3. batches[b].leaves \in Seq(Steps) /\ batches[b] \in Batch
  BY <1>2 DEF TablesTypeOK, Batch
<1>4. root \in Seq(Hash)
  BY <1>1, <1>3, HashesType
<1>5. /\ past'.altered = past.altered \cup {b} /\ past'.changed = past.changed /\ past'.lost = past.lost
  BY <1>2 DEF TablesTypeOK
<1>6. batches' \in [Batches -> Batch]
  BY <1>1, <1>2, <1>3, <1>4 DEF TablesTypeOK, Batch
<1>7. TablesTypeOK'
  BY <1>2, <1>6 DEF TablesTypeOK
<1>8. /\ \A c \in Batches : batches'[c].leaves = batches[c].leaves
      /\ \A c \in Batches : c # b => batches'[c] = batches[c]
  BY <1>1, <1>2 DEF TablesTypeOK, Batch
<1>9. Confirmed' = Confirmed /\ \A c \in Batches : LeavesOf(c)' = LeavesOf(c)
  BY <1>8 DEF Confirmed, LeavesOf
<1>10. Anchored'
  <2> SUFFICES ASSUME NEW c \in Confirmed
               PROVE  /\ \A t \in LeavesOf(c)' : rows'[t] # "none"
                      /\ c \notin past'.altered => batches'[c].root = chain'[c]
                      /\ c \notin past'.changed /\ Missing(c)' = {} => chain'[c] = RebuildRoot(c)'
    BY <1>9 DEF Anchored
  <2>1. c \in Batches
    BY DEF Confirmed
  <2>2. RebuildRoot(c)' = RebuildRoot(c)
    BY <1>2, <1>8, <2>1, SameHashes DEF LeafHash
  <2>3. Missing(c)' = Missing(c)
    BY <1>2, <1>9, <2>1 DEF Missing, Stored
  <2> QED
    BY <1>2, <1>5, <1>8, <1>9, <2>1, <2>2, <2>3 DEF Anchored
<1>11. Onward
  BY <1>2, <1>5, <1>8, SameAges DEF Onward, Confirmed
<1>12. Recorded'
  BY <1>2 DEF Recorded
<1> QED
  BY <1>2, <1>5, <1>7, <1>10, <1>11, <1>12, TablesMoveOn

(* A step is given up, time passes.                                        *)
LEMMA GivenUpOrOlderKeeps ==
  ASSUME WatchdogInv, (\E s \in Steps : DeadLetter(s)) \/ AgesGrow
  PROVE  WatchdogInv'
<1>1. /\ UNCHANGED <<rows, history, batches, chain, dog, alerts, past>>
      /\ TablesTypeOK /\ Recorded /\ Anchored /\ disturbances \in Nat
  BY DEF DeadLetter, AgesGrow, WatchdogInv, WatchdogTypeOK
<1>2. /\ outbox' \in [Steps -> OutboxStates] /\ ages' \in [Steps -> Nat] /\ disturbances' \in Nat
      /\ \A s \in Steps : /\ outbox[s] = "dead_letter" => outbox'[s] = "dead_letter"
                          /\ rows[s] = "none" => outbox'[s] = "none"
                          /\ rows[s] # "none" => ages'[s] >= ages[s]
  <2>1. CASE \E s \in Steps : DeadLetter(s)
    BY <1>1, <2>1, SameAges DEF DeadLetter, TablesTypeOK, OutboxStates, Recorded
  <2>2. CASE AgesGrow
    <3>1. outbox' = outbox /\ disturbances' = disturbances
          /\ ages' = [s \in Steps |-> IF s \in Inserted THEN Older(ages[s]) ELSE 0]
      BY <2>2 DEF AgesGrow
    <3>2. \A s \in Steps : Older(ages[s]) \in Nat /\ Older(ages[s]) >= ages[s]
      BY <1>1 DEF Older, TablesTypeOK
    <3> QED
      BY <1>1, <3>1, <3>2 DEF TablesTypeOK, Recorded, Inserted
  <2> QED
    BY <2>1, <2>2
<1>3. TablesTypeOK' /\ Recorded'
  BY <1>1, <1>2 DEF TablesTypeOK, Recorded
<1>4. Anchored'
  <2>1. \A b : RebuildRoot(b)' = RebuildRoot(b)
    BY <1>1, SameHashes DEF LeafHash
  <2> QED
    BY <1>1, <2>1 DEF Anchored, Confirmed, LeavesOf, Missing, Stored
<1>5. Onward
  BY <1>1, <1>2 DEF Onward
<1> QED
  BY <1>1, <1>2, <1>3, <1>4, <1>5, TablesMoveOn

---------------------------------------------------------------------------
(* The watchdog's own steps.                                               *)

(* Organizations of steps are organizations, and what is stored, or has a  *)
(* record, was logged.                                                     *)
LEMMA GroupsAreEarned ==
  ASSUME WatchdogInv, NEW ids \in SUBSET Steps, NEW o \in GroupByOrg(ids)
  PROVE  o \in Orgs /\ \E s \in ids : StepOrg[s] = o /\ s \in Inserted
<1>1. PICK s \in ids \cap (Stored \cup history) : o = StepOrg[s]
  BY DEF GroupByOrg
<1>2. s \in Inserted
  BY <1>1 DEF Stored, Inserted, WatchdogInv, Recorded
<1> QED
  BY <1>1, <1>2, WatchdogAssumption

(* Nobody in a batch is left out: its leaves are stored or have a record.  *)
LEMMA EveryoneIsGrouped ==
  ASSUME WatchdogInv, NEW b \in Confirmed, NEW s \in LeavesOf(b)
  PROVE  StepOrg[s] \in GroupByOrg(LeavesOf(b))
<1>1. s \in Steps /\ rows[s] \in RowStates /\ rows[s] # "none"
  BY LeavesAreSteps DEF WatchdogInv, WatchdogTypeOK, TablesTypeOK, Anchored, Confirmed
<1>2. s \in Stored \cup history
  BY <1>1 DEF WatchdogInv, Recorded, Stored, RowStates
<1> QED
  BY <1>2 DEF GroupByOrg

(* What the detectors find is there.                                       *)
Sound(findings) == findings \subseteq Found /\ \A f \in findings : Earned(f.key)

(* A step whose content does not give its hash was edited.                 *)
LEMMA StepFindingsAreSound ==
  ASSUME WatchdogInv, NEW ids
  PROVE  Sound(StepRowFindings(ids))
<1> SUFFICES ASSUME NEW f \in StepRowFindings(ids) PROVE f \in Found /\ Earned(f.key)
  BY DEF Sound
<1>1. PICK s \in CheckSteps(ids) : f = Finding("row", StepOrg[s], s, "critical")
  BY DEF StepRowFindings
<1>2. s \in Stored /\ s \in Steps /\ RecomputeLeaf(s) # LeafHash(s)
  BY <1>1 DEF CheckSteps, Stored
<1>3. rows[s] = "edited"
  BY <1>2 DEF Stored, RecomputeLeaf, LeafHash
<1>4. s \in history
  BY <1>2, <1>3 DEF WatchdogInv, Recorded
<1>5. f = [key |-> <<"row", StepOrg[s], s>>, severity |-> "critical"]
  BY <1>1 DEF Finding
<1>6. <<"row", StepOrg[s], s>> \in Keys /\ Earned(<<"row", StepOrg[s], s>>)
  BY <1>2, <1>4, WatchdogAssumption DEF Keys, Earned
<1> QED
  BY <1>5, <1>6 DEF Found, Severities

(* The findings about a batch name its organizations.                      *)
LEMMA BatchFindingsAreSound ==
  ASSUME WatchdogInv, NEW b \in Confirmed, NEW type \in {"missing", "root", "onchain"},
         type = "missing" => Missing(b) # {},
         type = "root" => b \in past.changed \cup past.altered,
         type = "onchain" => b \in past.altered
  PROVE  /\ Sound(BatchFindings(type, b))
         /\ \A s \in LeavesOf(b) :
              \E f \in BatchFindings(type, b) : f.key = <<type, StepOrg[s], b>>
<1>1. b \in Batches /\ LeavesOf(b) \subseteq Steps
  BY LeavesAreSteps DEF WatchdogInv, WatchdogTypeOK, Confirmed
<1>2. ASSUME NEW o \in GroupByOrg(LeavesOf(b))
      PROVE  /\ Finding(type, o, b, "critical").key = <<type, o, b>>
             /\ Finding(type, o, b, "critical") \in Found
             /\ Earned(<<type, o, b>>)
  <2>1. o \in Orgs /\ \E s \in LeavesOf(b) : StepOrg[s] = o
    BY <1>1, <1>2, GroupsAreEarned
  <2>2. <<type, o, b>> \in Keys
    BY <1>1, <2>1 DEF Keys
  <2>3. Earned(<<type, o, b>>)
    <3> DEFINE k == <<type, o, b>>
    <3>1. k[1] = type /\ k[2] = o /\ k[3] = b
      OBVIOUS
    <3> HIDE DEF k
    <3>2. ASSUME type = "missing" PROVE Earned(k)
      BY <2>1, <3>1, <3>2 DEF Earned
    <3>3. ASSUME type = "root" PROVE Earned(k)
      BY <2>1, <3>1, <3>3 DEF Earned
    <3>4. ASSUME type = "onchain" PROVE Earned(k)
      BY <2>1, <3>1, <3>4 DEF Earned
    <3>5. Earned(k)
      BY <3>2, <3>3, <3>4
    <3> QED
      BY <3>5 DEF k
  <2> QED
    BY <2>2, <2>3 DEF Finding, Found, Severities
<1>3. BatchFindings(type, b) = {Finding(type, o, b, "critical") : o \in GroupByOrg(LeavesOf(b))}
  BY DEF BatchFindings
<1>4. Sound(BatchFindings(type, b))
  BY <1>2, <1>3 DEF Sound
<1>5. ASSUME NEW s \in LeavesOf(b)
      PROVE  \E f \in BatchFindings(type, b) : f.key = <<type, StepOrg[s], b>>
  BY <1>2, <1>3, EveryoneIsGrouped
<1> QED
  BY <1>4, <1>5

(* The oldest step waiting was logged, and so was one given up.            *)
LEMMA LivenessFindingsAreSound ==
  ASSUME WatchdogInv
  PROVE  Sound(StalledFindings \cup DeadFindings)
<1> SUFFICES ASSUME NEW f \in StalledFindings \cup DeadFindings PROVE f \in Found /\ Earned(f.key)
  BY DEF Sound
<1>1. CASE f \in StalledFindings
  <2> DEFINE oldest == Min(Waiting)
  <2>1. PICK o \in GroupByOrg({oldest}), severity \in Severities :
          f = Finding("stalled", o, 0, severity)
    BY <1>1 DEF StalledFindings, Severities
  <2>2. GroupByOrg({oldest}) = {StepOrg[s] : s \in {oldest} \cap (Stored \cup history)}
    BY DEF GroupByOrg
  <2>3. PICK s \in {oldest} \cap (Stored \cup history) : o = StepOrg[s]
    BY <2>1, <2>2
  <2>4. s \in Steps
    BY <2>3 DEF Stored, WatchdogInv, WatchdogTypeOK, TablesTypeOK
  <2>5. o \in Orgs /\ s \in Inserted
    BY <2>3, <2>4, WatchdogAssumption DEF Stored, Inserted, WatchdogInv, Recorded
  <2>6. ~ ages[oldest] < StallAge
    BY <1>1 DEF StalledFindings
  <2> HIDE DEF oldest
  <2>7. ages[s] >= StallAge
    <3>1. s = oldest /\ ages[s] \in Nat /\ StallAge \in Nat
      BY <2>3, <2>4, WatchdogAssumption DEF WatchdogInv, WatchdogTypeOK, TablesTypeOK
    <3> QED
      BY <2>6, <3>1
  <2>8. <<"stalled", o, 0>> \in Keys /\ Earned(<<"stalled", o, 0>>)
    BY <2>3, <2>5, <2>7 DEF Keys, Earned
  <2> QED
    BY <2>1, <2>8 DEF Finding, Found
<1>2. CASE f \in DeadFindings
  <2> DEFINE dead == {s \in Steps : outbox[s] = "dead_letter"}
  <2>1. PICK o \in GroupByOrg(dead) : f = Finding("dead", o, 0, "critical")
    BY <1>2 DEF DeadFindings
  <2>2. o \in Orgs /\ \E s \in dead : StepOrg[s] = o
    BY <2>1, GroupsAreEarned
  <2>3. <<"dead", o, 0>> \in Keys /\ Earned(<<"dead", o, 0>>)
    BY <2>2 DEF Keys, Earned
  <2> QED
    BY <2>1, <2>3 DEF Finding, Found, Severities
<1> QED
  BY <1>1, <1>2

(* The sweep moves on: with nothing left to raise, and only sound findings *)
(* to raise next.                                                          *)
LEMMA SweepMovesOn ==
  ASSUME WatchdogInv, Quiet, UNCHANGED <<env, alerts, past>>, disturbances' \in Nat,
         cursor' \in [steps : Nat, batches : Nat],
         cycle' \in Cycle, cycle'.found = <<>>, Sound(cycle'.findings),
         cycle'.stage = "idle" => cycle' = AtRest,
         \A batch \in cycle'.todo \cup Range(cycle'.check) : Carried(batch),
         verified' \in [Batches -> {"none", "ok", "mismatch"}],
         \A b \in Batches : verified'[b] # verified[b] =>
           /\ b \in Confirmed
           /\ verified'[b] = "mismatch" =>
                \A s \in LeavesOf(b) : \E f \in cycle'.findings : f.key = <<"onchain", StepOrg[s], b>>
  PROVE  WatchdogInv'
<1>1. UNCHANGED <<rows, history, outbox, ages, batches, chain, alerts, past>>
  BY DEF env
<1>2. /\ Confirmed' = Confirmed /\ \A b : LeavesOf(b)' = LeavesOf(b)
      /\ \A k : Raised(k)' = Raised(k) /\ Earned(k)' = Earned(k)
      /\ \A batch : Carried(batch)' = Carried(batch)
  BY <1>1 DEF Confirmed, LeavesOf, Raised, Earned, Carried, Missing, Stored, Inserted
<1>3. WatchdogTypeOK' /\ Recorded'
  BY <1>1 DEF WatchdogInv, WatchdogTypeOK, TablesTypeOK, Recorded
<1>4. Anchored'
  <2>1. \A b : RebuildRoot(b)' = RebuildRoot(b) /\ Missing(b)' = Missing(b)
    BY <1>1, <1>2 DEF RebuildRoot, HashesOf, LeafHash, Missing, Stored
  <2> QED
    BY <1>1, <1>2, <2>1 DEF WatchdogInv, Anchored
<1>5. Range(cycle.found) = {} /\ Range(cycle'.found) = {}
  BY DEF Quiet, Range
<1>6. Pending = {} /\ Pending' = {f.key : f \in cycle'.findings}
  BY <1>5 DEF Pending, Quiet
<1>7. Sweeping'
  BY <1>2, <1>5, <1>6 DEF Sweeping, Sound
<1>8. Told'
  <2>1. \A b \in Batches : verified'[b] # "none" => b \in Confirmed'
    BY <1>2 DEF WatchdogInv, Told
  <2>2. ASSUME NEW b \in Batches, NEW s \in LeavesOf(b), verified'[b] = "mismatch"
        PROVE  \/ b \in past.lost \/ Raised(<<"onchain", StepOrg[s], b>>)
               \/ <<"onchain", StepOrg[s], b>> \in Pending'
    <3>1. CASE verified'[b] = verified[b]
      BY <1>6, <2>2, <3>1 DEF WatchdogInv, Told
    <3>2. CASE verified'[b] # verified[b]
      BY <1>6, <2>2, <3>2
    <3> QED
      BY <3>1, <3>2
  <2> QED
    BY <1>1, <1>2, <2>1, <2>2 DEF Told
<1> QED
  BY <1>2, <1>3, <1>4, <1>7, <1>8 DEF WatchdogInv

(* What a batch is loaded with.                                            *)
LEMMA LoadedIsCarried ==
  ASSUME WatchdogInv, NEW b \in Confirmed
  PROVE  Loaded(b) \in LoadedBatch /\ Carried(Loaded(b))
BY DEF Loaded, LoadedBatch, Carried, WatchdogInv, WatchdogTypeOK, TablesTypeOK, Anchored,
       Confirmed, Batch

(* The last of some ids is one of them.                                    *)
LEMMA LastIsOne ==
  ASSUME NEW n \in Nat, NEW ids, ids \subseteq 1..n, ids # {}
  PROVE  Max(ids) \in ids
<1> DEFINE below == {n - i : i \in ids}
<1>1. below \subseteq Nat /\ below # {}
  <2>1. \A i \in ids : i \in 1..n /\ n - i \in Nat
    OBVIOUS
  <2> QED
    BY <2>1
<1> HIDE DEF below
<1>2. PICK x \in below : \A y \in below : ~ (<<y, x>> \in OpToRel(<, Nat))
  BY <1>1, NatLessThanWellFounded, WFMin
<1>3. \A y \in below : ~ (y < x)
  BY <1>1, <1>2 DEF OpToRel
<1>4. PICK last \in ids : x = n - last
  BY DEF below
<1>5. \A i \in ids : n - i \in below
  BY DEF below
<1>6. \A i \in ids : last >= i
  BY <1>3, <1>4, <1>5
<1> QED
  BY <1>6 DEF Max

(* A cursor is a natural number.                                           *)
LEMMA CursorType ==
  ASSUME NEW n \in Nat, NEW ids, ids \subseteq 1..n, NEW last
  PROVE  Advanced(ids, last) \in Nat
<1>1. CASE ids = {}
  BY <1>1 DEF Advanced
<1>2. CASE ids # {}
  <2>1. Max(ids) \in 1..n
    BY <1>2, LastIsOne
  <2> QED
    BY <1>2, <2>1 DEF Advanced
<1> QED
  BY <1>1, <1>2

(* The hot tier's steps, the first of a cycle.                             *)
LEMMA SweepHotStepsKeeps ==
  ASSUME WatchdogInv, SweepHotSteps
  PROVE  WatchdogInv'
<1>1. /\ cycle = AtRest
      /\ cycle' = [AtRest EXCEPT !.stage = "hotSteps", !.findings = StepRowFindings(HotSteps)]
      /\ UNCHANGED <<env, verified, alerts, cursor, disturbances, past>>
      /\ cursor \in [steps : Nat, batches : Nat] /\ disturbances \in Nat
      /\ verified \in [Batches -> {"none", "ok", "mismatch"}]
  BY DEF SweepHotSteps, WatchdogInv, WatchdogTypeOK, Sweeping
<1>2. Sound(StepRowFindings(HotSteps))
  BY StepFindingsAreSound
<1> DEFINE findings == StepRowFindings(HotSteps)
<1> HIDE DEF findings
<1>3. cycle' = [stage |-> "hotSteps", last |-> 0, todo |-> {}, check |-> <<>>,
                findings |-> findings, found |-> <<>>]
  BY <1>1 DEF AtRest, findings
<1>4. cycle' \in Cycle /\ Sound(cycle'.findings)
  BY <1>2, <1>3 DEF Cycle, Stages, Sound, findings
<1>5. Quiet
  BY <1>1 DEF Quiet, AtRest
<1>6. cycle'.todo \cup Range(cycle'.check) = {}
  BY <1>3 DEF Range
<1>7. cycle'.stage = "hotSteps" /\ cycle'.found = <<>>
  BY <1>3
<1> QED
  BY <1>1, <1>4, <1>5, <1>6, <1>7, SweepMovesOn

(* What the sweep has of a cycle, and may have.                            *)
LEMMA QuietCycle ==
  ASSUME WatchdogInv, Quiet
  PROVE  /\ cycle \in Cycle /\ cycle.findings = {} /\ cycle.found = <<>>
         /\ \A batch \in cycle.todo \cup Range(cycle.check) : batch \in LoadedBatch /\ Carried(batch)
         /\ cursor \in [steps : Nat, batches : Nat] /\ disturbances \in Nat
         /\ verified \in [Batches -> {"none", "ok", "mismatch"}]
<1>1. cycle \in Cycle
  BY DEF WatchdogInv, WatchdogTypeOK
<1>2. \A batch \in Range(cycle.check) : batch \in LoadedBatch
  BY <1>1 DEF Cycle, Range
<1> QED
  BY <1>1, <1>2 DEF WatchdogInv, WatchdogTypeOK, Sweeping, Quiet, Cycle

(* The hot tier's batches are loaded.                                      *)
LEMMA LoadHotBatchesKeeps ==
  ASSUME WatchdogInv, LoadHotBatches
  PROVE  WatchdogInv'
<1> DEFINE loaded == {Loaded(b) : b \in HotBatches}
<1>1. /\ Quiet /\ cycle' = [cycle EXCEPT !.stage = "hotBatches", !.todo = loaded]
      /\ UNCHANGED <<env, verified, alerts, cursor, disturbances, past>>
  BY DEF LoadHotBatches
<1>2. \A batch \in loaded : batch \in LoadedBatch /\ Carried(batch)
  BY LoadedIsCarried DEF HotBatches
<1> HIDE DEF loaded
<1>3. /\ cycle \in Cycle /\ cycle.findings = {} /\ cycle.found = <<>>
      /\ \A batch \in Range(cycle.check) : Carried(batch)
      /\ cursor \in [steps : Nat, batches : Nat] /\ disturbances \in Nat
      /\ verified \in [Batches -> {"none", "ok", "mismatch"}]
  BY <1>1, QuietCycle
<1>4. /\ cycle' \in Cycle /\ cycle'.findings = {} /\ cycle'.found = <<>>
      /\ cycle'.stage = "hotBatches" /\ cycle'.todo = loaded /\ cycle'.check = cycle.check
  BY <1>1, <1>2, <1>3 DEF Cycle, Stages
<1>5. Sound(cycle'.findings)
  BY <1>4 DEF Sound
<1> QED
  BY <1>1, <1>2, <1>3, <1>4, <1>5, SweepMovesOn

(* The root of one batch is rebuilt.                                       *)
LEMMA SweepBatchKeeps ==
  ASSUME WatchdogInv, SweepBatch
  PROVE  WatchdogInv'
<1>1. PICK batch \in cycle.todo :
        cycle' = [cycle EXCEPT !.todo = @ \ {batch}, !.findings = Rebuilt(batch),
                               !.check = IF Missing(batch.id) = {} THEN <<batch>> ELSE <<>>]
  BY DEF SweepBatch
<1>2. /\ Quiet /\ cycle.stage \in {"hotBatches", "rollBatches"}
      /\ UNCHANGED <<env, verified, alerts, cursor, disturbances, past>>
  BY DEF SweepBatch
<1>3. /\ cycle \in Cycle /\ cycle.found = <<>>
      /\ \A c \in cycle.todo : c \in LoadedBatch /\ Carried(c)
      /\ cursor \in [steps : Nat, batches : Nat] /\ disturbances \in Nat
      /\ verified \in [Batches -> {"none", "ok", "mismatch"}]
  BY <1>2, QuietCycle
<1>4. batch.id \in Confirmed /\ (batch.id \notin past.altered => batch.root = chain[batch.id])
  BY <1>1, <1>3 DEF Carried
<1>5. Sound(Rebuilt(batch))
  <2>1. CASE Missing(batch.id) # {}
    BY <1>4, <2>1, BatchFindingsAreSound DEF Rebuilt
  <2>2. CASE Missing(batch.id) = {} /\ RebuildRoot(batch.id) # batch.root
    <3>1. batch.id \in past.changed \cup past.altered
      BY <1>4, <2>2 DEF WatchdogInv, Anchored
    <3> QED
      BY <1>4, <2>2, <3>1, BatchFindingsAreSound DEF Rebuilt
  <2>3. CASE Missing(batch.id) = {} /\ RebuildRoot(batch.id) = batch.root
    BY <2>3 DEF Rebuilt, Sound
  <2> QED
    BY <2>1, <2>2, <2>3
<1> DEFINE findings == Rebuilt(batch)
           check == IF Missing(batch.id) = {} THEN <<batch>> ELSE <<>>
<1>6. check \in {<<>>} \cup {<<c>> : c \in LoadedBatch} /\ findings \subseteq Found
  BY <1>1, <1>3, <1>5 DEF Sound
<1>7. Range(check) \subseteq {batch}
  <2>1. CASE check = <<>>
    BY <2>1 DEF Range
  <2>2. CASE check = <<batch>>
    BY <2>2 DEF Range
  <2> QED
    BY <2>1, <2>2
<1>8. cycle' = [cycle EXCEPT !.todo = @ \ {batch}, !.findings = findings, !.check = check]
  BY <1>1
<1>9. Sound(findings)
  BY <1>5
<1> HIDE DEF findings, check
<1>10. /\ cycle' \in Cycle /\ cycle'.findings = findings /\ cycle'.found = <<>>
       /\ cycle'.stage = cycle.stage /\ cycle'.todo \subseteq cycle.todo /\ cycle'.check = check
  BY <1>3, <1>6, <1>8 DEF Cycle
<1>11. \A c \in cycle'.todo \cup Range(cycle'.check) : Carried(c)
  BY <1>1, <1>3, <1>7, <1>10
<1> QED
  BY <1>2, <1>3, <1>9, <1>10, <1>11, SweepMovesOn

(* Its root on chain is looked at, unless a result is cached.              *)
LEMMA CheckOnchainRootKeeps ==
  ASSUME WatchdogInv, CheckOnchainRoot
  PROVE  WatchdogInv'
<1> DEFINE batch == Head(cycle.check)
           cached == verified[batch.id] # "none"
           result == IF chain[batch.id] = batch.root THEN "ok" ELSE "mismatch"
           findings == IF cached THEN {} ELSE OnchainFindings(batch)
<1>1. /\ Quiet /\ cycle.check # <<>> /\ UNCHANGED <<env, alerts, cursor, disturbances, past>>
      /\ verified' = IF cached THEN verified ELSE [verified EXCEPT ![batch.id] = result]
      /\ cached => cycle' = [cycle EXCEPT !.check = <<>>]
      /\ ~cached => cycle' = [cycle EXCEPT !.check = <<>>, !.findings = OnchainFindings(batch)]
  BY DEF CheckOnchainRoot
<1>2. /\ cycle \in Cycle /\ cycle.findings = {} /\ cycle.found = <<>>
      /\ \A c \in cycle.todo \cup Range(cycle.check) : c \in LoadedBatch /\ Carried(c)
      /\ cursor \in [steps : Nat, batches : Nat] /\ disturbances \in Nat
      /\ verified \in [Batches -> {"none", "ok", "mismatch"}]
  BY <1>1, QuietCycle
<1>3. batch \in Range(cycle.check)
  BY <1>1, <1>2 DEF Cycle, Range
<1>4. /\ batch \in LoadedBatch /\ batch.id \in Confirmed /\ batch.id \in Batches
      /\ batch.id \notin past.altered => batch.root = chain[batch.id]
  BY <1>2, <1>3 DEF Carried, LoadedBatch
<1>5. /\ Sound(OnchainFindings(batch))
      /\ result = "mismatch" => \A s \in LeavesOf(batch.id) :
           \E f \in OnchainFindings(batch) : f.key = <<"onchain", StepOrg[s], batch.id>>
  <2>1. CASE chain[batch.id] = batch.root
    BY <2>1 DEF OnchainFindings, Sound
  <2>2. CASE chain[batch.id] # batch.root
    <3>1. batch.id \in past.altered
      BY <1>4, <2>2
    <3> QED
      BY <1>4, <2>2, <3>1, BatchFindingsAreSound DEF OnchainFindings
  <2> QED
    BY <2>1, <2>2
<1>6. Sound(findings)
  BY <1>5 DEF Sound
<1>7. /\ cycle' \in Cycle /\ cycle'.findings = findings /\ cycle'.found = <<>>
      /\ cycle'.stage = cycle.stage /\ cycle'.todo = cycle.todo /\ cycle'.check = <<>>
  <2>1. findings \subseteq Found
    BY <1>6 DEF Sound
  <2>2. CASE cached
    BY <1>1, <1>2, <2>2 DEF Cycle
  <2>3. CASE ~cached
    <3>1. cycle' = [cycle EXCEPT !.check = <<>>, !.findings = findings]
      BY <1>1, <2>3
    <3> HIDE DEF findings
    <3> QED
      BY <1>2, <2>1, <3>1 DEF Cycle
  <2> QED
    BY <2>2, <2>3
<1>8. \A c \in cycle'.todo \cup Range(cycle'.check) : Carried(c)
  BY <1>2, <1>7 DEF Range
<1>9. cycle.stage # "idle"
  BY <1>1 DEF WatchdogInv, Sweeping, AtRest
<1>10. verified' \in [Batches -> {"none", "ok", "mismatch"}]
  <2>1. result \in {"none", "ok", "mismatch"}
    OBVIOUS
  <2> HIDE DEF result
  <2> QED
    BY <1>1, <1>2, <2>1
<1>11. ASSUME NEW b \in Batches, verified'[b] # verified[b]
       PROVE  /\ b \in Confirmed
              /\ verified'[b] = "mismatch" =>
                   \A s \in LeavesOf(b) : \E f \in findings : f.key = <<"onchain", StepOrg[s], b>>
  <2>1. ~cached /\ b = batch.id /\ verified'[b] = result
    <3> HIDE DEF result, batch
    <3> QED
      BY <1>1, <1>2, <1>11
  <2> QED
    BY <1>4, <1>5, <2>1
<1> HIDE DEF findings
<1> QED
  BY <1>1, <1>2, <1>6, <1>7, <1>8, <1>9, <1>10, <1>11, SweepMovesOn

(* The chain does not answer: the check is dropped.                        *)
LEMMA OnchainCheckFailsKeeps ==
  ASSUME WatchdogInv, OnchainCheckFails
  PROVE  WatchdogInv'
<1>1. /\ Quiet /\ cycle.check # <<>> /\ cycle' = [cycle EXCEPT !.check = <<>>]
      /\ UNCHANGED <<env, verified, alerts, cursor, past>> /\ disturbances' = disturbances + 1
  BY DEF OnchainCheckFails
<1>2. /\ cycle \in Cycle /\ cycle.findings = {} /\ cycle.found = <<>>
      /\ \A c \in cycle.todo : Carried(c)
      /\ cursor \in [steps : Nat, batches : Nat] /\ disturbances \in Nat
      /\ verified \in [Batches -> {"none", "ok", "mismatch"}]
  BY <1>1, QuietCycle
<1>3. /\ cycle' \in Cycle /\ cycle'.findings = {} /\ cycle'.found = <<>>
      /\ cycle'.stage = cycle.stage /\ cycle'.todo = cycle.todo /\ Range(cycle'.check) = {}
  BY <1>1, <1>2 DEF Cycle, Range
<1>4. cycle.stage # "idle"
  BY <1>1 DEF WatchdogInv, Sweeping, AtRest
<1>5. Sound(cycle'.findings)
  BY <1>3 DEF Sound
<1> QED
  BY <1>1, <1>2, <1>3, <1>4, <1>5, SweepMovesOn

(* Stalled anchoring and dead letters.                                     *)
LEMMA SweepLivenessKeeps ==
  ASSUME WatchdogInv, SweepLiveness
  PROVE  WatchdogInv'
<1> DEFINE findings == StalledFindings \cup DeadFindings
<1>1. /\ Quiet /\ cycle.todo = {} /\ cycle.check = <<>>
      /\ cycle' = [cycle EXCEPT !.stage = "liveness", !.findings = findings]
      /\ UNCHANGED <<env, verified, alerts, cursor, disturbances, past>>
  BY DEF SweepLiveness, BatchesSwept
<1>2. Sound(findings)
  BY LivenessFindingsAreSound
<1> HIDE DEF findings
<1>3. /\ cycle \in Cycle /\ cycle.found = <<>>
      /\ cursor \in [steps : Nat, batches : Nat] /\ disturbances \in Nat
      /\ verified \in [Batches -> {"none", "ok", "mismatch"}]
  BY <1>1, QuietCycle
<1>4. /\ cycle' \in Cycle /\ cycle'.findings = findings /\ cycle'.found = <<>>
      /\ cycle'.stage = "liveness" /\ cycle'.todo = {} /\ cycle'.check = <<>>
  BY <1>1, <1>2, <1>3 DEF Cycle, Stages, Sound
<1>5. cycle'.todo \cup Range(cycle'.check) = {}
  BY <1>4 DEF Range
<1> QED
  BY <1>1, <1>2, <1>3, <1>4, <1>5, SweepMovesOn

(* A budget of all steps.                                                  *)
LEMMA SweepRollingStepsKeeps ==
  ASSUME WatchdogInv, SweepRollingSteps
  PROVE  WatchdogInv'
<1> DEFINE ids == NextIds(Stored, cursor.steps, StepBudget)
           findings == StepRowFindings(ids)
           last == Advanced(ids, cursor.steps)
<1>1. /\ Quiet
      /\ cycle' = [cycle EXCEPT !.stage = "rollSteps", !.findings = findings, !.last = last]
      /\ UNCHANGED <<env, verified, alerts, cursor, disturbances, past>>
  BY DEF SweepRollingSteps
<1>2. Sound(findings)
  BY StepFindingsAreSound
<1>3. last \in Nat
  <2>1. ids \subseteq 1..StepCount
    BY DEF NextIds, Stored, Steps
  <2> HIDE DEF ids
  <2> QED
    BY <2>1, CursorType, WatchdogAssumption
<1> HIDE DEF findings, last
<1>4. /\ cycle \in Cycle /\ cycle.found = <<>>
      /\ \A c \in cycle.todo \cup Range(cycle.check) : Carried(c)
      /\ cursor \in [steps : Nat, batches : Nat] /\ disturbances \in Nat
      /\ verified \in [Batches -> {"none", "ok", "mismatch"}]
  BY <1>1, QuietCycle
<1>5. /\ cycle' \in Cycle /\ cycle'.findings = findings /\ cycle'.found = <<>>
      /\ cycle'.stage = "rollSteps" /\ cycle'.todo = cycle.todo /\ cycle'.check = cycle.check
  BY <1>1, <1>2, <1>3, <1>4 DEF Cycle, Stages, Sound
<1> QED
  BY <1>1, <1>2, <1>4, <1>5, SweepMovesOn

(* The step cursor is advanced, and a budget of all batches loaded.        *)
LEMMA AdvanceStepCursorKeeps ==
  ASSUME WatchdogInv, AdvanceStepCursor
  PROVE  WatchdogInv'
<1> DEFINE ids == NextIds(Confirmed, cursor.batches, BatchBudget)
           loaded == {Loaded(b) : b \in ids}
           last == Advanced(ids, cursor.batches)
<1>1. /\ Quiet /\ cursor' = [cursor EXCEPT !.steps = cycle.last]
      /\ cycle' = [cycle EXCEPT !.stage = "rollBatches", !.todo = loaded, !.last = last]
      /\ UNCHANGED <<env, verified, alerts, disturbances, past>>
  BY DEF AdvanceStepCursor
<1>2. ids \subseteq Confirmed /\ ids \subseteq 1..BatchCount
  BY DEF NextIds, Confirmed, Batches
<1>3. last \in Nat
  <2> HIDE DEF ids
  <2> QED
    BY <1>2, CursorType, WatchdogAssumption
<1>4. \A batch \in loaded : batch \in LoadedBatch /\ Carried(batch)
  <2> HIDE DEF ids
  <2> QED
    BY <1>2, LoadedIsCarried
<1> HIDE DEF loaded, last
<1>5. /\ cycle \in Cycle /\ cycle.found = <<>> /\ cycle.findings = {}
      /\ \A c \in Range(cycle.check) : Carried(c)
      /\ cursor \in [steps : Nat, batches : Nat] /\ disturbances \in Nat
      /\ verified \in [Batches -> {"none", "ok", "mismatch"}]
  BY <1>1, QuietCycle
<1>6. /\ cycle' \in Cycle /\ cycle'.findings = {} /\ cycle'.found = <<>>
      /\ cycle'.stage = "rollBatches" /\ cycle'.todo = loaded /\ cycle'.check = cycle.check
  BY <1>1, <1>3, <1>4, <1>5 DEF Cycle, Stages
<1>7. cursor' \in [steps : Nat, batches : Nat]
  BY <1>1, <1>5 DEF Cycle
<1>8. Sound(cycle'.findings)
  BY <1>6 DEF Sound
<1>9. \A c \in cycle'.todo \cup Range(cycle'.check) : Carried(c)
  BY <1>4, <1>5, <1>6
<1> QED
  BY <1>1, <1>5, <1>6, <1>7, <1>8, <1>9, SweepMovesOn

(* The batch cursor is advanced: the cycle is over.                        *)
LEMMA AdvanceBatchCursorKeeps ==
  ASSUME WatchdogInv, AdvanceBatchCursor
  PROVE  WatchdogInv'
<1>1. /\ Quiet /\ cursor' = [cursor EXCEPT !.batches = cycle.last] /\ cycle' = AtRest
      /\ UNCHANGED <<env, verified, alerts, disturbances, past>>
  BY DEF AdvanceBatchCursor, BatchesSwept
<1>2. /\ cycle \in Cycle
      /\ cursor \in [steps : Nat, batches : Nat] /\ disturbances \in Nat
      /\ verified \in [Batches -> {"none", "ok", "mismatch"}]
  BY <1>1, QuietCycle
<1>3. cursor' \in [steps : Nat, batches : Nat]
  BY <1>1, <1>2 DEF Cycle
<1>4. /\ AtRest \in Cycle /\ AtRest.found = <<>> /\ Sound(AtRest.findings)
      /\ AtRest.todo \cup Range(AtRest.check) = {}
  BY DEF AtRest, Cycle, Stages, Sound, Range
<1> QED
  BY <1>1, <1>2, <1>3, <1>4, SweepMovesOn

---------------------------------------------------------------------------
(* Raising alerts.                                                         *)

(* Nothing but the cycle, the alerts and what was lost is touched: the     *)
(* alerts a key had are kept, a new one is earned, and whatever was to be  *)
(* raised still is, was raised, or is written off.                         *)
LEMMA RaisingMovesOn ==
  ASSUME WatchdogInv, UNCHANGED <<env, verified, cursor>>, disturbances' \in Nat,
         alerts' \in [Keys -> AlertState], cycle' \in Cycle,
         past'.changed = past.changed, past'.altered = past.altered,
         past' \in [changed : SUBSET Batches, altered : SUBSET Batches, lost : SUBSET Batches],
         past.lost \subseteq past'.lost,
         cycle'.stage = "idle" => cycle' = AtRest,
         cycle'.todo \subseteq cycle.todo, Range(cycle'.check) \subseteq Range(cycle.check),
         \A f \in Range(cycle'.found) : f.open => Raised(f.key)',
         \A k \in Keys : Raised(k) => Raised(k)',
         \A k \in Keys : Raised(k)' => Raised(k) \/ k \in Pending,
         Pending' \subseteq Pending,
         \A k \in Pending : \/ k \in Pending' \/ Raised(k)'
                            \/ k[1] = "onchain" => k[3] \in past'.lost
  PROVE  WatchdogInv'
<1>1. UNCHANGED <<rows, history, outbox, ages, batches, chain, verified>>
  BY DEF env
<1>2. /\ Confirmed' = Confirmed /\ \A b : LeavesOf(b)' = LeavesOf(b)
      /\ \A k : Earned(k)' = Earned(k)
      /\ \A batch : Carried(batch)' = Carried(batch)
  BY <1>1 DEF Confirmed, LeavesOf, Earned, Carried, Missing, Stored, Inserted
<1>3. WatchdogTypeOK' /\ Recorded'
  BY <1>1 DEF WatchdogInv, WatchdogTypeOK, TablesTypeOK, Recorded
<1>4. Anchored'
  <2>1. \A b : RebuildRoot(b)' = RebuildRoot(b) /\ Missing(b)' = Missing(b)
    BY <1>1, <1>2 DEF RebuildRoot, HashesOf, LeafHash, Missing, Stored
  <2> QED
    BY <1>1, <1>2, <2>1 DEF WatchdogInv, Anchored
<1>5. \A k \in Pending : Earned(k)
  BY DEF WatchdogInv, Sweeping
<1>6. Sweeping'
  <2>1. \A batch \in cycle'.todo \cup Range(cycle'.check) : Carried(batch)'
    BY <1>2 DEF WatchdogInv, Sweeping
  <2> QED
    BY <1>2, <1>5, <2>1 DEF Sweeping
<1>7. Told'
  <2>1. \A b \in Batches : verified'[b] # "none" => b \in Confirmed'
    BY <1>1, <1>2 DEF WatchdogInv, Told
  <2>2. ASSUME NEW b \in Batches, NEW s \in LeavesOf(b), verified'[b] = "mismatch"
        PROVE  \/ b \in past'.lost \/ Raised(<<"onchain", StepOrg[s], b>>)'
               \/ <<"onchain", StepOrg[s], b>> \in Pending'
    <3> DEFINE k == <<"onchain", StepOrg[s], b>>
    <3>1. s \in Steps
      BY LeavesAreSteps DEF WatchdogInv, WatchdogTypeOK
    <3>2. k \in Keys /\ k[1] = "onchain" /\ k[3] = b
      BY <3>1, WatchdogAssumption DEF Keys
    <3>3. b \in past.lost \/ Raised(k) \/ k \in Pending
      BY <1>1, <2>2 DEF WatchdogInv, Told
    <3> HIDE DEF k
    <3>4. b \in past'.lost \/ Raised(k)' \/ k \in Pending'
      BY <3>2, <3>3
    <3> QED
      BY <3>4 DEF k
  <2> QED
    BY <1>1, <1>2, <2>1, <2>2 DEF Told
<1>8. \A k \in Keys : Raised(k)' => Earned(k)'
  BY <1>2, <1>5 DEF WatchdogInv
<1> QED
  BY <1>3, <1>4, <1>6, <1>7, <1>8 DEF WatchdogInv

(* raise_alert looks for an open alert.                                    *)
LEMMA LookForOpenKeeps ==
  ASSUME WatchdogInv, NEW f \in cycle.findings, LookForOpen(f)
  PROVE  WatchdogInv'
<1> DEFINE looked == [key |-> f.key, severity |-> f.severity, open |-> alerts[f.key].open]
<1>1. /\ cycle.found = <<>> /\ cycle' = [cycle EXCEPT !.findings = @ \ {f}, !.found = <<looked>>]
      /\ UNCHANGED <<env, verified, alerts, cursor, disturbances, past>>
  BY DEF LookForOpen
<1>2. /\ cycle \in Cycle /\ alerts \in [Keys -> AlertState] /\ disturbances \in Nat
      /\ past \in [changed : SUBSET Batches, altered : SUBSET Batches, lost : SUBSET Batches]
      /\ cycle.stage = "idle" => cycle = AtRest
  BY DEF WatchdogInv, WatchdogTypeOK, TablesTypeOK, Sweeping
<1>3. f \in Found
  BY <1>2 DEF Cycle
<1>4. looked \in LookedUp
  BY <1>2, <1>3 DEF Found, LookedUp, AlertState
<1>5. looked.key = f.key /\ (looked.open => Raised(f.key))
  BY DEF Raised
<1> HIDE DEF looked
<1>6. /\ cycle' \in Cycle /\ cycle'.findings = cycle.findings \ {f} /\ cycle'.found = <<looked>>
      /\ cycle'.stage = cycle.stage /\ cycle'.todo = cycle.todo /\ cycle'.check = cycle.check
  BY <1>1, <1>2, <1>4 DEF Cycle
<1>7. Range(cycle.found) = {} /\ Range(cycle'.found) = {looked}
  BY <1>1, <1>6 DEF Range
<1>8. Pending' = Pending
  BY <1>5, <1>6, <1>7 DEF Pending
<1>9. cycle.stage # "idle"
  BY <1>2 DEF AtRest
<1>10. \A k : Raised(k)' = Raised(k)
  BY <1>1 DEF Raised
<1> QED
  BY <1>1, <1>2, <1>5, <1>6, <1>7, <1>8, <1>9, <1>10, RaisingMovesOn

(* A cycle is cut short: what its checks committed is written off.         *)
LEMMA EndCycleKeeps ==
  ASSUME WatchdogInv, EndCycle, UNCHANGED alerts, disturbances' \in Nat
  PROVE  WatchdogInv'
<1>1. /\ cycle' = AtRest /\ past' = [past EXCEPT !.lost = @ \cup Unraised]
      /\ UNCHANGED <<env, verified, cursor>>
  BY DEF EndCycle
<1>2. /\ cycle \in Cycle /\ alerts \in [Keys -> AlertState]
      /\ past \in [changed : SUBSET Batches, altered : SUBSET Batches, lost : SUBSET Batches]
  BY DEF WatchdogInv, WatchdogTypeOK, TablesTypeOK
<1>3. \A f \in cycle.findings \cup Range(cycle.found) : f.key \in Keys
  BY <1>2 DEF Cycle, Found, LookedUp, Range
<1>4. Unraised \subseteq Batches
  BY <1>3 DEF Unraised, Keys
<1>5. \A k \in Pending : k[1] = "onchain" => k[3] \in Unraised
  BY DEF Pending, Unraised
<1>6. /\ past'.lost = past.lost \cup Unraised
      /\ past'.changed = past.changed /\ past'.altered = past.altered
      /\ past' \in [changed : SUBSET Batches, altered : SUBSET Batches, lost : SUBSET Batches]
  BY <1>1, <1>2, <1>4
<1>7. /\ AtRest \in Cycle /\ AtRest.findings = {} /\ Range(AtRest.found) = {}
      /\ AtRest.todo = {} /\ Range(AtRest.check) = {}
  BY DEF AtRest, Cycle, Stages, Range
<1>8. Pending' = {}
  BY <1>1, <1>7 DEF Pending
<1>9. \A k : Raised(k)' = Raised(k)
  BY DEF Raised
<1> QED
  BY <1>1, <1>2, <1>5, <1>6, <1>7, <1>8, <1>9, RaisingMovesOn

(* raise_alert bumps the alert it found or inserts one, or meets one opened*)
(* in the meantime.                                                        *)
LEMMA WriteAlertKeeps ==
  ASSUME WatchdogInv, WriteAlert
  PROVE  WatchdogInv'
<1>1. /\ cycle \in Cycle /\ alerts \in [Keys -> AlertState] /\ disturbances \in Nat
      /\ past \in [changed : SUBSET Batches, altered : SUBSET Batches, lost : SUBSET Batches]
      /\ \A g \in Range(cycle.found) : g.open => Raised(g.key)
      /\ cycle.stage = "idle" => cycle = AtRest
  BY DEF WatchdogInv, WatchdogTypeOK, TablesTypeOK, Sweeping
<1>2. cycle.found # <<>> /\ UNCHANGED disturbances
  BY DEF WriteAlert
<1>3. PICK f \in LookedUp : cycle.found = <<f>>
  BY <1>1, <1>2 DEF Cycle
<1>4. CASE /\ alerts' = IF f.open THEN BumpAlert ELSE InsertAlert(f.key, f.severity)
           /\ cycle' = [cycle EXCEPT !.found = <<>>]
           /\ UNCHANGED <<env, verified, cursor, past>>
  <2>1. f.key \in Keys /\ f.severity \in Severities /\ Range(cycle.found) = {f}
    BY <1>3 DEF LookedUp, Range
  <2>2. /\ alerts' \in [Keys -> AlertState]
        /\ \A k \in Keys : k # f.key => alerts'[k] = alerts[k]
        /\ Raised(f.key)'
    <3>1. CASE f.open
      <4>1. alerts' = alerts
        BY <1>4, <3>1 DEF BumpAlert
      <4>2. Raised(f.key)
        BY <1>1, <2>1, <3>1
      <4> QED
        BY <1>1, <4>1, <4>2 DEF Raised
    <3>2. CASE ~f.open
      <4>1. alerts' = [alerts EXCEPT ![f.key].open = TRUE, ![f.key].severity = f.severity]
        BY <1>4, <3>2 DEF InsertAlert
      <4>2. alerts' \in [Keys -> AlertState]
        BY <1>1, <2>1, <4>1 DEF AlertState
      <4>3. \A k \in Keys : k # f.key => alerts'[k] = alerts[k]
        BY <1>1, <4>1
      <4>4. alerts'[f.key].open
        BY <1>1, <2>1, <4>1 DEF AlertState
      <4> QED
        BY <4>2, <4>3, <4>4 DEF Raised
    <3> QED
      BY <3>1, <3>2
  <2>9. \A k \in Keys : k # f.key => (Raised(k)' <=> Raised(k))
    BY <2>2 DEF Raised
  <2>3. /\ cycle' \in Cycle /\ cycle'.findings = cycle.findings /\ cycle'.found = <<>>
        /\ cycle'.stage = cycle.stage /\ cycle'.todo = cycle.todo /\ cycle'.check = cycle.check
    BY <1>1, <1>4 DEF Cycle
  <2>4. Range(cycle'.found) = {}
    BY <2>3 DEF Range
  <2>5. Pending = Pending' \cup {f.key}
    BY <2>1, <2>3, <2>4 DEF Pending
  <2>6. cycle.stage # "idle"
    BY <1>1, <1>2 DEF AtRest
  <2>7. \A k \in Keys : /\ Raised(k)' => Raised(k) \/ k \in Pending
                        /\ Raised(k) => Raised(k)'
    BY <2>2, <2>5, <2>9
  <2>8. \A k \in Pending : k \in Pending' \/ k = f.key
    BY <2>5
  <2> QED
    BY <1>1, <1>2, <1>4, <2>2, <2>3, <2>4, <2>5, <2>6, <2>7, <2>8, RaisingMovesOn
<1>5. CASE EndCycle /\ UNCHANGED alerts
  BY <1>1, <1>2, <1>5, EndCycleKeeps
<1>6. Head(cycle.found) = f
  BY <1>3
<1> QED
  BY <1>4, <1>5, <1>6 DEF WriteAlert

(* The watchdog dies, or a query of its cycle fails.                       *)
LEMMA WatchdogStopsKeeps ==
  ASSUME WatchdogInv, WatchdogStops
  PROVE  WatchdogInv'
<1>1. EndCycle /\ UNCHANGED alerts /\ disturbances' = disturbances + 1 /\ disturbances \in Nat
  BY DEF WatchdogStops, WatchdogInv, WatchdogTypeOK
<1> QED
  BY <1>1, EndCycleKeeps

(* An alert is answered: it has been raised, and stays so.                 *)
LEMMA AnswerKeeps ==
  ASSUME WatchdogInv, NEW k \in Keys, AcknowledgeAlert(k) \/ ResolveAlert(k) \/ ReopenAlert(k)
  PROVE  WatchdogInv'
<1>1. /\ cycle \in Cycle /\ alerts \in [Keys -> AlertState] /\ disturbances \in Nat
      /\ past \in [changed : SUBSET Batches, altered : SUBSET Batches, lost : SUBSET Batches]
      /\ \A f \in Range(cycle.found) : f.open => Raised(f.key)
      /\ \A f \in Range(cycle.found) : f.key \in Keys
      /\ cycle.stage = "idle" => cycle = AtRest
  <2>1. cycle \in Cycle
    BY DEF WatchdogInv, WatchdogTypeOK
  <2>2. \A f \in Range(cycle.found) : f.key \in Keys
    BY <2>1 DEF Cycle, LookedUp, Range
  <2> QED
    BY <2>2 DEF WatchdogInv, WatchdogTypeOK, TablesTypeOK, Sweeping
<1>2. disturbances' = disturbances + 1 /\ UNCHANGED <<env, dog, past>>
  BY DEF AcknowledgeAlert, ResolveAlert, ReopenAlert, Answered
<1>3. /\ alerts' \in [Keys -> AlertState]
      /\ \A j \in Keys : j # k => alerts'[j] = alerts[j]
      /\ Raised(k) /\ Raised(k)'
  <2>1. CASE AcknowledgeAlert(k)
    BY <1>1, <2>1 DEF AcknowledgeAlert, AlertState, Raised
  <2>2. CASE ResolveAlert(k)
    <3>1. \/ alerts[k].open /\ alerts' = [alerts EXCEPT ![k].open = FALSE, ![k].resolved = TRUE]
          \/ alerts[k].acked /\ alerts' = [alerts EXCEPT ![k].acked = FALSE, ![k].resolved = TRUE]
      BY <2>2 DEF ResolveAlert
    <3>2. /\ alerts' \in [Keys -> AlertState]
          /\ \A j \in Keys : j # k => alerts'[j] = alerts[j]
          /\ alerts'[k].resolved
      <4>1. CASE alerts' = [alerts EXCEPT ![k].open = FALSE, ![k].resolved = TRUE]
        BY <1>1, <4>1 DEF AlertState
      <4>2. CASE alerts' = [alerts EXCEPT ![k].acked = FALSE, ![k].resolved = TRUE]
        BY <1>1, <4>2 DEF AlertState
      <4> QED
        BY <3>1, <4>1, <4>2
    <3> QED
      BY <3>1, <3>2 DEF Raised
  <2>3. CASE ReopenAlert(k)
    BY <1>1, <2>3 DEF ReopenAlert, AlertState, Raised
  <2> QED
    BY <2>1, <2>2, <2>3
<1>4. \A j \in Keys : Raised(j)' = Raised(j)
  BY <1>3 DEF Raised
<1>5. UNCHANGED <<verified, cycle, cursor>>
  BY <1>2 DEF dog
<1>6. Pending' = Pending
  BY <1>5 DEF Pending
<1> QED
  BY <1>1, <1>2, <1>3, <1>4, <1>5, <1>6, RaisingMovesOn

---------------------------------------------------------------------------
(* The theorems.                                                           *)

(* No alert, no batch, a few steps logged.                                 *)
LEMMA WatchdogStarts ==
  ASSUME WatchdogInit
  PROVE  WatchdogInv
<1>1. /\ \A s \in Steps : rows[s] \in {"none", "intact"} /\ (rows[s] = "none" => outbox[s] = "none")
      /\ Confirmed = {} /\ history = {} /\ \A b \in Batches : LeavesOf(b) = {}
  BY DEF WatchdogInit, Confirmed, LeavesOf, Range
<1>2. TablesTypeOK
  <2>1. <<>> \in Seq(Steps) /\ <<>> \in Seq(Hash)
    OBVIOUS
  <2> QED
    BY <2>1 DEF WatchdogInit, TablesTypeOK, RowStates, OutboxStates, Batch
<1>3. AtRest \in Cycle
  BY DEF AtRest, Cycle, Stages
<1>4. WatchdogTypeOK
  BY <1>2, <1>3 DEF WatchdogInit, WatchdogTypeOK, NoAlert, AlertState, Severities
<1>5. Recorded /\ Anchored
  BY <1>1 DEF Recorded, Anchored
<1>6. \A k \in Keys : ~Raised(k)
  BY DEF WatchdogInit, Raised, NoAlert
<1>7. /\ cycle = AtRest /\ cycle.todo = {} /\ Range(cycle.check) = {}
      /\ cycle.findings = {} /\ Range(cycle.found) = {}
  BY DEF WatchdogInit, AtRest, Range
<1>8. Sweeping
  BY <1>7 DEF Sweeping, Pending
<1>9. Told
  BY <1>1 DEF WatchdogInit, Told
<1> QED
  BY <1>4, <1>5, <1>6, <1>8, <1>9 DEF WatchdogInv

(* Nothing moves: the invariant stays.                                     *)
LEMMA WatchdogStutters ==
  ASSUME WatchdogInv, UNCHANGED watchdogVars
  PROVE  WatchdogInv'
<1>1. UNCHANGED <<rows, history, outbox, ages, batches, chain, verified, alerts, cycle, cursor,
                  disturbances, past>>
  BY DEF watchdogVars, env, dog
<1>2. \A k : Raised(k)' = Raised(k) /\ Earned(k)' = Earned(k)
  BY <1>1 DEF Raised, Earned, LeavesOf, Missing, Stored, Inserted
<1>3. WatchdogTypeOK' /\ Recorded' /\ Told'
  BY <1>1 DEF WatchdogInv, WatchdogTypeOK, TablesTypeOK, Recorded, Told, Confirmed, LeavesOf, Raised, Pending
<1>4. Anchored'
  BY <1>1 DEF WatchdogInv, Anchored, Confirmed, LeavesOf, Missing, Stored, RebuildRoot, HashesOf, LeafHash
<1>5. Sweeping'
  BY <1>1, <1>2 DEF WatchdogInv, Sweeping, Carried, Confirmed, Pending
<1> QED
  BY <1>2, <1>3, <1>4, <1>5 DEF WatchdogInv

(* Every step keeps the invariant; one line below per action.              *)
LEMMA WatchdogStep ==
  ASSUME WatchdogInv, [WatchdogNext]_watchdogVars
  PROVE  WatchdogInv'
<1>1. ASSUME Raise PROVE WatchdogInv'
  BY <1>1, LookForOpenKeeps, WriteAlertKeeps DEF Raise
<1>2. ASSUME Sweep PROVE WatchdogInv'
  BY <1>2, SweepHotStepsKeeps, LoadHotBatchesKeeps, SweepBatchKeeps, CheckOnchainRootKeeps,
     SweepLivenessKeeps, SweepRollingStepsKeeps, AdvanceStepCursorKeeps, AdvanceBatchCursorKeeps
  DEF Sweep
<1>3. ASSUME NEW s \in Steps, LogStep(s) PROVE WatchdogInv'
  BY <1>3, LogStepKeeps
<1>4. ASSUME NEW s \in Steps, NEW form \in {"edited", "rewritten", "deleted"}, ChangeRow(s, form)
      PROVE  WatchdogInv'
  BY <1>4, ChangeRowKeeps
<1>5. ASSUME NEW b \in Batches, AlterRoot(b) PROVE WatchdogInv'
  BY <1>5, AlterRootKeeps
<1>6. ASSUME NEW b \in Batches, NEW leaves \in LeafOrders, ConfirmBatch(b, leaves) PROVE WatchdogInv'
  BY <1>6, ConfirmBatchKeeps
<1>7. ASSUME NEW k \in Keys, AcknowledgeAlert(k) \/ ResolveAlert(k) \/ ReopenAlert(k)
      PROVE  WatchdogInv'
  BY <1>7, AnswerKeeps
<1> QED
  BY <1>1, <1>2, <1>3, <1>4, <1>5, <1>6, <1>7, GivenUpOrOlderKeeps, OnchainCheckFailsKeeps,
     WatchdogStopsKeeps, WatchdogStutters
  DEF WatchdogNext, Run

(* Every reachable state has it.                                           *)
LEMMA WatchdogInvariant == WatchdogSpec => []WatchdogInv
<1>1. WatchdogInit => WatchdogInv
  BY WatchdogStarts
<1>2. WatchdogInv /\ [WatchdogNext]_watchdogVars => WatchdogInv'
  BY WatchdogStep
<1> QED
  BY <1>1, <1>2, PTL DEF WatchdogSpec

(* The watchdog's variables keep their types: a cursor is a natural number,*)
(* a finding has the key of an alert.                                      *)
THEOREM WatchdogTypeCorrect == WatchdogSpec => []WatchdogTypeOK
<1>1. WatchdogInv => WatchdogTypeOK
  BY DEF WatchdogInv
<1> QED
  BY <1>1, WatchdogInvariant, PTL

(* No alert accuses what was left alone, and none goes to an organization  *)
(* with no step in its subject (_raise_batch_alerts, raise_alert), with    *)
(* sweeps under way while batches are confirmed and rows deleted.          *)
THEOREM AlertsAreEarnedAlways == WatchdogSpec => []AlertsAreEarned
<1>1. WatchdogInv => AlertsAreEarned
  BY DEF WatchdogInv, AlertsAreEarned
<1> QED
  BY <1>1, WatchdogInvariant, PTL

(* A failed verification (batch_verifications) has been raised with every  *)
(* organization in the batch, or is about to be, or its cycle was cut short*)
(* between the commit and the alerts.                                      *)
THEOREM MismatchIsAlertedAlways == WatchdogSpec => []MismatchIsAlerted
<1>1. WatchdogInv => MismatchIsAlerted
  <2> SUFFICES ASSUME WatchdogInv, NEW b \in Batches, verified[b] = "mismatch",
                      b \notin past.lost, b \notin Unraised, NEW s \in LeavesOf(b)
               PROVE  Raised(<<"onchain", StepOrg[s], b>>)
    BY DEF MismatchIsAlerted
  <2> DEFINE k == <<"onchain", StepOrg[s], b>>
  <2>1. Raised(k) \/ k \in Pending
    BY DEF WatchdogInv, Told
  <2>2. k[1] = "onchain" /\ k[3] = b
    OBVIOUS
  <2> HIDE DEF k
  <2>3. k \in Pending => b \in Unraised
    BY <2>2 DEF Pending, Unraised
  <2>4. Raised(k)
    BY <2>1, <2>3
  <2> QED
    BY <2>4 DEF k
<1> QED
  BY <1>1, WatchdogInvariant, PTL
=============================================================================
