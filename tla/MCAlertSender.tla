---------------------------- MODULE MCAlertSender ----------------------------
(***************************************************************************)
(* Small instances for TLC of the two ways an alert is mailed.             *)
(***************************************************************************)
EXTENDS AlertSender, AlertDigest

MailsInit == Init /\ DigestInit

(* They share no state: each is explored with the other one at rest.       *)
MailsApart ==
  /\ MailsInit
  /\ [][\/ Next /\ now = 0 /\ digest = NoDigest /\ \A a \in Alerts : alert[a].status = "none"
           /\ \A p \in People : pref[p] = [digestOnly |-> FALSE, last |-> Never]
           /\ UNCHANGED digestVars
        \/ DigestNext /\ \A m \in Mails : deliveries[m] = NoDelivery
           /\ UNCHANGED vars]_<<vars, digestVars>>
  /\ Fairness
===========================================================================
