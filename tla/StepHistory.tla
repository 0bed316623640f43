---------------------------- MODULE StepHistory ----------------------------
(***************************************************************************)
(* Who changed a step, and what it said before: steps_history, which the   *)
(* trigger of migration 010d34f64a31 writes on every UPDATE and DELETE of  *)
(* steps, the roles of scripts/db_operator.py, and the two readers, the    *)
(* watchdog's _forensic_evidence and POST /integrity/verify-content.       *)
(*                                                                         *)
(* One step, no concurrency: a history is what a sequence of operations    *)
(* leaves behind, and the claims are checked over every short one.  A      *)
(* column's value is its content: the hashes of steps do not collide.      *)
(***************************************************************************)
EXTENDS Naturals, Sequences, FiniteSets
LOCAL INSTANCE SequencesExt

CONSTANTS Columns, Texts,   \* the hashed columns of a step and what they may hold
          OperatorRoles,    \* names of roles db_operator.py may issue
          Persons,
          MaxOps            \* bound: operations on the step and the roles

Contents  == [Columns -> Texts]
Service   == "trustchain"       \* the role of the automated processes
Deleted   == [c \in Columns |-> "null"]
NoPerson  == "nobody"
Missing404 == "404"

(* What happens: a person or a process updates the step (the same content: *)
(* anchor_batch_id is set or cleared) or deletes it, in a transaction that *)
(* began lag seconds before; a role is issued or revoked; a second passes. *)
UpdateOp(to, role, person, lag) == [op |-> "update", to |-> to, role |-> role, person |-> person, lag |-> lag]
DeleteOp(role, person) == [op |-> "delete", role |-> role, person |-> person, lag |-> 0]
Routine(content, lag) == UpdateOp(content, Service, NoPerson, lag)
IssueOp(role, person) == [op |-> "issue", role |-> role, person |-> person]
RevokeOp(role) == [op |-> "revoke", role |-> role]
SecondOp == [op |-> "second"]

(* operators: db_operators.  person of a record is a history.              *)
Fresh(content) == [row |-> content, history |-> <<>>, now |-> 1,
                   operators |-> [r \in OperatorRoles |-> [name |-> NoPerson, revoked |-> FALSE]]]

(* steps_audit_trigger: now() is when the transaction began.               *)
Record(db, to, o) ==
  [changed |-> IF to = Deleted THEN {"__deleted__"} ELSE {c \in Columns : db.row[c] # to[c]},
   changed_at |-> db.now - o.lag, old |-> db.row, new |-> to, role |-> o.role, person |-> o.person]

(* A login under the role: its own person's, until it is revoked.          *)
LogsIn(db, o) ==
  o.role # Service => /\ db.operators[o.role].name = o.person
                      /\ ~db.operators[o.role].revoked

Change(db, to, o) ==
  IF db.row = Deleted \/ ~LogsIn(db, o) THEN db
  ELSE [db EXCEPT !.row = to, !.history = Append(@, Record(db, to, o))]

(* create fails for a role that was issued before; revoke keeps the role.  *)
Create(db, o) ==
  IF db.operators[o.role].name # NoPerson THEN db
  ELSE [db EXCEPT !.operators[o.role] = [name |-> o.person, revoked |-> FALSE]]
Revoke(db, o) ==
  IF db.operators[o.role].name = NoPerson THEN db ELSE [db EXCEPT !.operators[o.role].revoked = TRUE]

Apply(db, o) ==
  CASE o.op = "update" -> Change(db, o.to, o)
    [] o.op = "delete" -> Change(db, Deleted, o)
    [] o.op = "issue"  -> Create(db, o)
    [] o.op = "revoke" -> Revoke(db, o)
    [] OTHER           -> [db EXCEPT !.now = @ + 1]

After(content, ops) == FoldLeft(Apply, Fresh(content), ops)

---------------------------------------------------------------------------
(* The readers.                                                            *)

Newest(h)  == {i \in DOMAIN h : \A j \in DOMAIN h : h[j].changed_at <= h[i].changed_at}
Latest(h)  == CHOOSE i \in Newest(h) : \A j \in Newest(h) : j <= i

(* _resolve_operator_display_name, whether the role was revoked or not.    *)
DisplayName(db, role) == IF role \in OperatorRoles THEN db.operators[role].name ELSE NoPerson

(* _forensic_evidence: by (changed_at, id).                                *)
ForensicEvidence(db) ==
  IF db.history = <<>> THEN {}
  ELSE LET r == db.history[Latest(db.history)]
       IN  {[changed |-> r.changed, role |-> r.role, operator |-> DisplayName(db, r.role),
             old |-> [c \in r.changed \cap Columns |-> r.old[c]]]}

(* verify_content: by changed_at alone, so that of several records of the  *)
(* newest second any may be read.                                          *)
VerifyContent(db, column, candidate) ==
  IF db.row = Deleted THEN {Missing404}
  ELSE {[current |-> db.row[column] = candidate, original |-> o] :
          o \in IF db.history = <<>> THEN {"null"}
                ELSE {IF db.history[i].old[column] = candidate THEN "true" ELSE "false" : i \in Newest(db.history)}}

---------------------------------------------------------------------------
Prompt == {UpdateOp(to, r, p, 0) : to \in Contents, r \in OperatorRoles, p \in Persons}
            \cup {Routine(to, 0) : to \in Contents} \cup {DeleteOp(r, p) : r \in OperatorRoles, p \in Persons}
            \cup {IssueOp(r, p) : r \in OperatorRoles, p \in Persons} \cup {RevokeOp(r) : r \in OperatorRoles}
            \cup {SecondOp}
Reached == {After(c, ops) : c \in Contents, ops \in UNION {[1..n -> Prompt] : n \in 0..MaxOps}}

(* The records of a step link up: each one starts from what the one before *)
(* left, and the last left the row as it is.                               *)
ASSUME HistoryLinksUp ==
  \A db \in Reached :
    /\ \A i \in 2..Len(db.history) : db.history[i].old = db.history[i - 1].new
    /\ db.history # <<>> => Last(db.history).new = db.row

(* The evidence is about the last change, within one second too, and names *)
(* the person who made it under a role of their own, later revoked or not. *)
ASSUME EvidenceNamesTheLast ==
  \A db \in Reached : db.history # <<>> =>
    \E e \in ForensicEvidence(db) : /\ e.changed = Last(db.history).changed
                                    /\ e.operator = Last(db.history).person

(* Without two changes in one second, the owner's candidate is compared    *)
(* with what the step says and with what it said before its last change.   *)
ASSUME CandidatesAreAnswered ==
  \A db \in {d \in Reached : d.row # Deleted /\ Cardinality(Newest(d.history)) = 1} :
    \A c \in Columns, t \in Texts :
      VerifyContent(db, c, t) =
        {[current |-> db.row[c] = t,
          original |-> IF Last(db.history).old[c] = t THEN "true" ELSE "false"]}

(* Where the docstrings promise more (main.py:2682-2690, watchdog main.py: *)
(* 70-83).  A step edited and then put in a batch: the evidence shows no   *)
(* changed column, and the answer denies what the step used to say.  An    *)
(* edit whose transaction began before a routine update's and wrote after  *)
(* it has the same effect.                                                 *)
ASSUME RoutineUpdatesHideEdits ==
  \A was, is \in Contents, c \in Columns : was[c] # is[c] =>
    LET edit == UpdateOp(is, Service, NoPerson, 0)
        db == After(was, <<edit, SecondOp, Routine(is, 0)>>)
        overtaken == After(was, <<SecondOp, Routine(was, 0), UpdateOp(is, Service, NoPerson, 1)>>)
    IN  /\ \A e \in ForensicEvidence(db) \cup ForensicEvidence(overtaken) : e.changed = {}
        /\ \A a \in VerifyContent(db, c, was[c]) : a = [current |-> FALSE, original |-> "false"]
===========================================================================
