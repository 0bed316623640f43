------------------------------ MODULE IdOrder ------------------------------
(***************************************************************************)
(* Rows and entries in the order of their ids: ORDER BY id, XREAD.         *)
(***************************************************************************)
EXTENDS Naturals, FiniteSets

(* How many of the ids come before one.                                    *)
Before(ids, id) == Cardinality({k \in ids : k < id})

InOrder(ids) == [i \in 1..Cardinality(ids) |-> CHOOSE id \in ids : Before(ids, id) = i - 1]
=============================================================================
