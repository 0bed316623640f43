---------------------------- MODULE MCMembership ----------------------------
EXTENDS Membership, TLC
CONSTANTS u1, u2, u3, o1, o2, i1, i2
MCFirstRoles == [u \in Users |-> [o \in Orgs |->
   IF u = u1 /\ o = o1 THEN "owner" ELSE IF u = u2 /\ o = o1 THEN "admin" ELSE "none"]]
MCFirstInvitations == [i \in Invitations |-> IF i = i1 THEN NewInvitation(o1, u3, "member") ELSE NoInvitation]

MCSymmetry == Permutations(Handlers)
=============================================================================
