----------------------------- MODULE AlertDigest -----------------------------
(***************************************************************************)
(* The digests of alerts (notifications/digest.py, db/alerts.py): who asks *)
(* for a digest gets no mail when a non-critical alert is raised, but one  *)
(* now and then with the alerts that are open.  The watchdog's loop, one   *)
(* process, runs send_due_digests after each cycle.                        *)
(*                                                                         *)
(* send_due_digests reads the clock, the recipients and the alerts one     *)
(* after the other, and writes down each recipient's digest after its mail.*)
(*                                                                         *)
(* Abstractions.  One organization, whose owners and admins are the people;*)
(* all of them want mails about warnings, and all alerts are warnings.     *)
(*                                                                         *)
(* Faulty variants of some definitions stand before them, as elsewhere.    *)
(***************************************************************************)
EXTENDS Naturals

CONSTANTS
  Alerts,    \* rows of alerts
  People,    \* owners and admins of the organization
  Interval,  \* settings.alert_digest_interval_seconds
  Never,     \* a NULL last_digest_sent_at
  MaxTime    \* bound: the clock

ASSUME DigestAssumption ==
  Interval \in Nat \ {0} /\ MaxTime \in Nat /\ Never \notin Nat

VARIABLES
  now,     \* the clock
  alert,   \* alerts
  pref,    \* notification_preferences
  digest,  \* locals of send_due_digests
  told,    \* history: the alerts each one was mailed since they were last seen
  passed   \* history: the alerts that came too late for each one's digests, or
           \* whose time was up when a first or a late digest of theirs came

digestVars == <<now, alert, pref, digest, told, passed>>

(* Open and acknowledged alerts are live; seen is last_seen_at.            *)
AlertRow == [status : {"none", "live", "resolved"}, seen : Nat]

Preference == [digestOnly : BOOLEAN, last : Nat \cup {Never}]

(* at: the clock read at the start; due: the recipients; todo: those left; *)
(* listed: the alerts of the digest.                                       *)
Digest == [pc : {"idle", "due", "sending", "marking"}, at : Nat,
           todo : SUBSET People, to : SUBSET People, listed : SUBSET Alerts]

NoDigest == [pc |-> "idle", at |-> 0, todo |-> {}, to |-> {}, listed |-> {}]

DigestInit ==
  /\ now = 0
  /\ alert = [a \in Alerts |-> [status |-> "none", seen |-> 0]]
  /\ pref = [p \in People |-> [digestOnly |-> FALSE, last |-> Never]]
  /\ digest = NoDigest
  /\ told = [p \in People |-> {}]
  /\ passed = [p \in People |-> {}]

Live == {a \in Alerts : alert[a].status = "live"}

---------------------------------------------------------------------------
(* The detectors and the API.                                              *)

(* The time of an alert is read from the clock before its row is written.  *)
(* Seen again, it is news for everyone but those just mailed; a row written*)
(* in a later second than its own may find the digest of that second gone. *)
Seen(a, mailed) == \E t \in 0..now :
  /\ alert' = [alert EXCEPT ![a] = [status |-> "live", seen |-> t]]
  /\ told' = [p \in People |-> IF p \in mailed THEN told[p] \cup {a} ELSE told[p] \ {a}]
  /\ passed' = [p \in People |-> IF t < now THEN passed[p] \cup {a} ELSE passed[p] \ {a}]
  /\ UNCHANGED <<now, pref, digest>>

(* _recipients_for a warning.                                              *)
Recipients == {p \in People : ~ pref[p].digestOnly}

RaiseAlert(a) == alert[a].status = "none" /\ Seen(a, Recipients)

(* raise_alert finds the alert open.                                       *)
AlertRecurs(a) == alert[a].status = "live" /\ Seen(a, {})

Reopen(a) == alert[a].status = "resolved" /\ Seen(a, {})

Resolve(a) ==
  /\ alert[a].status = "live"
  /\ alert' = [alert EXCEPT ![a].status = "resolved"]
  /\ UNCHANGED <<now, pref, digest, told, passed>>

SetPreferences(p) ==
  /\ pref' = [pref EXCEPT ![p].digestOnly = ~ @]
  /\ UNCHANGED <<now, alert, digest, told, passed>>

Tick ==
  /\ now < MaxTime /\ now' = now + 1
  /\ UNCHANGED <<alert, pref, digest, told, passed>>

---------------------------------------------------------------------------
(* send_due_digests.                                                       *)

(* get_due_digest_recipients.  A digest this much after the last is due.   *)
Due(p, t) == pref[p].digestOnly /\ (pref[p].last = Never \/ t >= pref[p].last + Interval)

FindRecipients ==
  LET due == {p \in People : Due(p, now)} IN
  /\ digest.pc = "idle" /\ due # {}
  /\ digest' = [NoDigest EXCEPT !.pc = "due", !.at = now, !.todo = due]
  /\ UNCHANGED <<now, alert, pref, told, passed>>

(* The window of a digest.                                                 *)
InWindow(a, t) == alert[a].seen + Interval >= t

(* list_alerts_for_digest.                                                 *)
ListAlerts ==
  /\ digest.pc = "due"
  /\ digest' = [digest EXCEPT !.pc = "sending", !.listed = {a \in Live : InWindow(a, digest.at)}]
  /\ UNCHANGED <<now, alert, pref, told, passed>>

Done(d) == IF d.todo = {} THEN NoDigest ELSE [d EXCEPT !.pc = "sending", !.to = {}]

(* backend.send; without alerts nothing is sent.  An EmailSendError may    *)
(* also be a timeout after the provider took the mail.                     *)
SendDigest(p) ==
  LET left == [digest EXCEPT !.todo = @ \ {p}] IN
  /\ digest.pc = "sending" /\ p \in digest.todo
  /\ \/ /\ digest' = [left EXCEPT !.pc = "marking", !.to = {p}]
        /\ told' = [told EXCEPT ![p] = @ \cup digest.listed]
     \/ /\ digest.listed # {} /\ digest' = Done(left)
        /\ UNCHANGED told
  /\ UNCHANGED <<now, alert, pref, passed>>

(* mark_digest_sent, with the time of the start; the variant takes the     *)
(* time of the mail.                                                       *)
TimeOfMail == now
MarkedAt   == digest.at

(* On time: the digest before is not further back than the window.         *)
OnTime(p) == pref[p].last # Never /\ digest.at <= pref[p].last + Interval

MarkDigestSent(p) ==
  /\ digest.pc = "marking" /\ p \in digest.to
  /\ pref' = [pref EXCEPT ![p].last = MarkedAt]
  /\ digest' = Done(digest)
  /\ passed' = IF OnTime(p) THEN passed
               ELSE [passed EXCEPT ![p] = @ \cup {a \in Live : alert[a].seen + Interval < digest.at}]
  /\ UNCHANGED <<now, alert, told>>

(* A crash, or any other exception.                                        *)
DigestStops ==
  /\ digest.pc # "idle"
  /\ digest' = NoDigest
  /\ UNCHANGED <<now, alert, pref, told, passed>>

---------------------------------------------------------------------------
DigestNext ==
  \/ \E a \in Alerts : RaiseAlert(a) \/ AlertRecurs(a) \/ Reopen(a) \/ Resolve(a)
  \/ \E p \in People : SetPreferences(p) \/ SendDigest(p) \/ MarkDigestSent(p)
  \/ FindRecipients \/ ListAlerts \/ DigestStops \/ Tick

DigestSpec == DigestInit /\ [][DigestNext]_digestVars

---------------------------------------------------------------------------

(* Every variable stays in its type.                                       *)
DigestTypeOK ==
  /\ now \in Nat
  /\ alert \in [Alerts -> AlertRow]
  /\ pref \in [People -> Preference]
  /\ digest \in Digest
  /\ told \in [People -> SUBSET Alerts]
  /\ passed \in [People -> SUBSET Alerts]

(* Whoever had a digest was mailed, by then, every live alert that was last*)
(* seen before it, whatever was raised, seen again or reopened while it was*)
(* put together and mailed; unless the alert's row was written late, or the*)
(* alert was older than the window of a first digest, or of one that came  *)
(* later than the interval.                                                *)
DigestLeavesNothingOut ==
  \A p \in People, a \in Live :
    pref[p].last # Never /\ alert[a].seen < pref[p].last => a \in told[p] \cup passed[p]
=============================================================================
