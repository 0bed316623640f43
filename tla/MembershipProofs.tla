--------------------------- MODULE MembershipProofs ---------------------------
(***************************************************************************)
(* Theorems of Membership, for any number of users, organizations,         *)
(* invitations, projects and concurrent handlers and token checks.         *)
(***************************************************************************)
EXTENDS Membership, TLAPS, FiniteSetTheorems

---------------------------------------------------------------------------
(* Types.                                                                  *)

Pcs == {"target", "owners", "orgs", "projects", "pending", "members",
        "replace", "write", "mark", "invalidate"}
Ops == {"change_role", "remove_member", "transfer", "invite", "resend", "revoke",
        "create_project", "delete_project", "delete_org", "leave", "accept", "signup"}

LEMMA Names ==
  /\ Roles = {"viewer", "member", "admin", "owner"}
  /\ DOMAIN MIN_ROLE_FOR \cup {"leave", "accept", "signup"} = Ops
<1>1. DOMAIN ROLE_RANK = {"viewer", "member", "admin", "owner"}
  BY DEF ROLE_RANK
<1>2. DOMAIN MIN_ROLE_FOR = {"change_role", "remove_member", "transfer", "invite", "resend",
                             "revoke", "create_project", "delete_project", "delete_org"}
  BY DEF MIN_ROLE_FOR
<1> QED
  BY <1>1, <1>2 DEF Roles, Ops

(* What a handler knows of an invitation it is to accept stays true, and   *)
(* it has keys to delete only once it has written.                         *)
Holds(x) ==
  x # Idle =>
    /\ x.pc # "invalidate" => x.keys = {}
    /\ x.pc = "mark" => x.op = "signup"
    /\ x.op = "accept" => x.actor \in registered
    /\ x.op \in {"accept", "signup"} =>
         \A i \in x.about : i \in Invitations /\ Made(i) /\ invitations[i].email = x.actor
HandlersHold == \A h \in Handlers : Holds(handler[h])

TypeInv == MembershipTypeOK /\ HandlersHold

LEMMA NotIdle ==
  /\ \A x \in Handler : x # Idle /\ x.pc \in Pcs /\ x.pc # "idle"
  /\ \A x \in Request : x # Idle
  /\ \A x \in Invitation : x # NoInvitation
<1>1. \A x \in Handler : x.pc \in Pcs /\ x.pc # "idle"
  BY DEF Handler, Pcs
<1>2. \A x \in Request : x.pc # "idle"
  BY DEF Request
<1>3. \A x \in Invitation : x.status # "none"
  BY DEF Invitation
<1> QED
  BY <1>1, <1>2, <1>3 DEF Idle, NoInvitation

LEMMA Running ==
  ASSUME MembershipTypeOK, NEW h \in Handlers, handler[h].pc # "idle"
  PROVE  handler[h] \in Handler /\ handler[h] # Idle
  BY NotIdle DEF MembershipTypeOK, Idle

LEMMA CallType ==
  ASSUME MembershipTypeOK, NEW op \in Ops, NEW u \in Users, NEW o \in Orgs, NEW t \in Users,
         NEW about \in SUBSET (Invitations \cup Projects), NEW pc \in Pcs
  PROVE  /\ Call(op, u, o, t, about, pc) \in Handler
         /\ \A r \in Grantable : [Call(op, u, o, t, about, pc) EXCEPT !.newRole = r] \in Handler
<1>1. role[u][o] \in Roles \cup {"none"}
  BY DEF MembershipTypeOK
<1>2. "viewer" \in Grantable
  BY DEF Grantable
<1>3. Call(op, u, o, t, about, pc) \in Handler
  BY <1>1, <1>2, Names DEF Call, Handler, Pcs
<1>4. \A r \in Grantable : [Call(op, u, o, t, about, pc) EXCEPT !.newRole = r] \in Handler
  BY <1>3 DEF Handler
<1> QED
  BY <1>3, <1>4

LEMMA HandlerUpdates ==
  ASSUME NEW x \in Handler
  PROVE  /\ \A pc \in Pcs : [x EXCEPT !.pc = pc] \in Handler
         /\ \A b \in BOOLEAN : [x EXCEPT !.current = b] \in Handler
         /\ \A K \in SUBSET Users : /\ [x EXCEPT !.keys = K] \in Handler
                                    /\ [x EXCEPT !.pc = "invalidate", !.keys = K] \in Handler
<1>1. \A pc \in Pcs : [x EXCEPT !.pc = pc] \in Handler
  BY DEF Handler, Pcs
<1>2. \A b \in BOOLEAN : [x EXCEPT !.current = b] \in Handler
  BY DEF Handler
<1>3. \A K \in SUBSET Users : [x EXCEPT !.keys = K] \in Handler
  BY DEF Handler
<1>4. \A K \in SUBSET Users : [x EXCEPT !.pc = "invalidate", !.keys = K] \in Handler
  BY DEF Handler
<1> QED
  BY <1>1, <1>2, <1>3, <1>4

---------------------------------------------------------------------------
(* Invitations.                                                            *)

(* Only an account that exists used an invitation; an open one was used by *)
(* a signup at most, which has not marked it.                              *)
Uses ==
  \A i \in Invitations : Made(i) =>
    /\ invitations[i].used > 0 => invitations[i].email \in registered
    /\ ~ invitations[i].accepted => invitations[i].used <= 1
    /\ i \notin unmarked => invitations[i].used <= (IF invitations[i].accepted THEN 1 ELSE 0)

(* All that the steps below keep.                                          *)
Inv == TypeInv /\ CacheFollowsRoles /\ Uses

(* Neither is about what these do not touch.                               *)
LEMMA UsesStay == Uses /\ UNCHANGED <<invitations, registered, unmarked>> => Uses'
  BY DEF Uses, Made

(* An invitation stays, with its address, and so does an account.          *)
InvitationsStay ==
  /\ registered \subseteq registered'
  /\ \A i \in Invitations : Made(i) => /\ Made(i)'
                                    /\ invitations'[i].email = invitations[i].email

---------------------------------------------------------------------------
(* Groups of actions.                                                      *)

(* A handler begins.                                                       *)
LEMMA BeginKeeps ==
  ASSUME Inv, NEW h \in Handlers, NEW x \in Handler, Begin(h, x), x.pc \notin {"invalidate", "mark"},
         x.keys = {}, x.op = "accept" => x.actor \in registered,
         x.op \in {"accept", "signup"} =>
           \A i \in x.about : i \in Invitations /\ Made(i) /\ invitations[i].email = x.actor
  PROVE  Inv'
<1> USE MembershipAssumption
<1>1. MembershipTypeOK'
  BY DEF Inv, TypeInv, MembershipTypeOK, Begin, tables, redis, histories
<1>2. /\ handler'[h] = x /\ handler[h] = Idle
      /\ \A g \in Handlers \ {h} : handler'[g] = handler[g]
      /\ UNCHANGED <<invitations, role, cache, excused, registered, unmarked>>
  BY DEF Inv, TypeInv, MembershipTypeOK, Begin, tables, redis, histories
<1>3. HandlersHold'
  BY <1>2 DEF Inv, TypeInv, HandlersHold, Holds, Made
<1>4. CacheFollowsRoles'
  BY <1>2 DEF Inv, CacheFollowsRoles, InvalidationPending
<1> QED
  BY <1>1, <1>2, <1>3, <1>4, UsesStay DEF Inv, TypeInv

(* A handler that has changed no role goes on, or ends.                    *)
LEMMA QuietKeeps ==
  ASSUME Inv, NEW h \in Handlers, handler[h] \in Handler, handler[h].pc # "invalidate",
         \/ handler' = [handler EXCEPT ![h] = Idle]
         \/ \E pc \in Pcs \ {"invalidate", "mark"} : handler' = [handler EXCEPT ![h] = [@ EXCEPT !.pc = pc]],
         InvitationsStay, UNCHANGED <<role, cache, excused>>
  PROVE  /\ handler' \in [Handlers -> Handler \cup {Idle}]
         /\ HandlersHold' /\ CacheFollowsRoles'
<1>1. handler \in [Handlers -> Handler \cup {Idle}]
  BY DEF Inv, TypeInv, MembershipTypeOK
<1>2. \A g \in Handlers \ {h} : handler'[g] = handler[g]
  BY <1>1
<1>3. CASE handler' = [handler EXCEPT ![h] = Idle]
  <2>1. handler'[h] = Idle /\ handler' \in [Handlers -> Handler \cup {Idle}]
    BY <1>1, <1>3
  <2>2. HandlersHold'
    BY <1>2, <2>1 DEF Inv, TypeInv, HandlersHold, Holds, InvitationsStay
  <2>3. handler[h].keys = {}
    BY NotIdle DEF Inv, TypeInv, HandlersHold, Holds
  <2>4. CacheFollowsRoles'
    BY <1>2, <2>1, <2>3 DEF Inv, CacheFollowsRoles, InvalidationPending
  <2> QED
    BY <2>1, <2>2, <2>4
<1>4. ASSUME NEW pc \in Pcs \ {"invalidate", "mark"}, handler' = [handler EXCEPT ![h] = [@ EXCEPT !.pc = pc]]
      PROVE  /\ handler' \in [Handlers -> Handler \cup {Idle}]
             /\ HandlersHold' /\ CacheFollowsRoles'
  <2>1. handler'[h] = [handler[h] EXCEPT !.pc = pc]
    BY <1>1, <1>4
  <2>2. handler'[h] \in Handler
    BY ZenonT(60), <2>1, HandlerUpdates
  <2>3. handler' \in [Handlers -> Handler \cup {Idle}]
    BY <1>1, <1>4, <2>1, <2>2
  <2>4. /\ handler'[h].pc = pc /\ handler'[h].op = handler[h].op /\ handler'[h].actor = handler[h].actor
        /\ handler'[h].about = handler[h].about /\ handler'[h].keys = handler[h].keys
        /\ handler'[h].org = handler[h].org
    BY <2>1 DEF Handler
  <2>5. HandlersHold'
    BY <1>2, <2>4, NotIdle DEF Inv, TypeInv, HandlersHold, Holds, InvitationsStay
  <2>6. CacheFollowsRoles'
    BY <1>2, <2>2, <2>4, NotIdle DEF Inv, CacheFollowsRoles, InvalidationPending
  <2> QED
    BY <2>3, <2>5, <2>6
<1> QED
  BY <1>3, <1>4

LEMMA CheckKeeps ==
  ASSUME Inv, NEW h \in Handlers, handler[h].pc \notin {"idle", "invalidate"},
         NEW ok, NEW next \in Pcs \ {"invalidate", "mark"}, Check(h, ok, next)
  PROVE  Inv'
<1>1. handler[h] \in Handler
  BY Running DEF Inv, TypeInv
<1>2. UNCHANGED <<invitations, role, cache, excused, registered, unmarked>>
  BY DEF Check, tables, redis, histories
<1>b. InvitationsStay
  BY <1>2 DEF InvitationsStay, Made
<1>3. /\ handler' \in [Handlers -> Handler \cup {Idle}]
      /\ HandlersHold' /\ CacheFollowsRoles'
  <2>1. CASE ok
    <3>1. handler' = [handler EXCEPT ![h] = [@ EXCEPT !.pc = next]]
      BY <2>1 DEF Check
    <3> QED
      BY <1>1, <1>b, <1>2, <3>1, QuietKeeps
  <2>2. CASE ~ ok
    <3>1. handler' = [handler EXCEPT ![h] = Idle]
      BY <2>2 DEF Check
    <3> QED
      BY <1>1, <1>b, <1>2, <3>1, QuietKeeps
  <2> QED
    BY <2>1, <2>2
<1>4. MembershipTypeOK'
  BY <1>3 DEF Check, tables, redis, histories, counts, Inv, TypeInv, MembershipTypeOK
<1> QED
  BY <1>2, <1>3, <1>4, UsesStay DEF Inv, TypeInv

(* A handler that another's step leaves as it was, but for what it may     *)
(* still rely on.                                                          *)
SameCall(x, y) ==
  /\ y = Idle <=> x = Idle
  /\ x # Idle => /\ y.pc = x.pc /\ y.op = x.op /\ y.actor = x.actor
                 /\ y.org = x.org /\ y.about = x.about /\ y.keys = x.keys

LEMMA OthersHold ==
  ASSUME HandlersHold, InvitationsStay, NEW g \in Handlers, SameCall(handler[g], handler'[g])
  PROVE  Holds(handler[g])'
  BY DEF HandlersHold, InvitationsStay, Holds, SameCall

LEMMA WrittenType ==
  ASSUME MembershipTypeOK, NEW h \in Handlers, handler[h] \in Handler,
         NEW next \in Handler \cup {Idle}, Written(h, next)
  PROVE  /\ handler' \in [Handlers -> Handler \cup {Idle}]
         /\ handler'[h] = next
         /\ \A g \in Handlers \ {h} : SameCall(handler[g], handler'[g])
         /\ overlapped' \subseteq Orgs
         /\ UNCHANGED <<counts, cache, request>>
<1>1. handler'[h] = next
  BY DEF Written
<1>2. ASSUME NEW g \in Handlers \ {h}
      PROVE  handler'[g] \in Handler \cup {Idle} /\ SameCall(handler[g], handler'[g])
  <2>1. CASE handler[g] # Idle /\ handler[g].org = handler[h].org
    <3>1. handler'[g] = [handler[g] EXCEPT !.current = FALSE]
      BY <2>1 DEF Written
    <3>2. handler[g] \in Handler
      BY <2>1 DEF MembershipTypeOK
    <3>3. handler'[g] \in Handler
      BY <3>1, <3>2, HandlerUpdates
    <3> QED
      BY <2>1, <3>1, <3>2, <3>3, NotIdle DEF SameCall, Handler
  <2>2. CASE ~ (handler[g] # Idle /\ handler[g].org = handler[h].org)
    <3>1. handler'[g] = handler[g]
      BY <2>2 DEF Written
    <3> QED
      BY <3>1 DEF SameCall, MembershipTypeOK
  <2> QED
    BY <2>1, <2>2
<1>3. handler' \in [Handlers -> Handler \cup {Idle}]
  BY <1>1, <1>2 DEF Written
<1>4. handler[h].org \in Orgs
  BY DEF Handler
<1> QED
  BY <1>1, <1>2, <1>3, <1>4 DEF Written, MembershipTypeOK

LEMMA InvalidatingType ==
  ASSUME NEW h \in Handlers, handler[h] \in Handler, NEW K \in SUBSET Users
  PROVE  /\ Invalidating(h, K) \in Handler
         /\ Invalidating(h, K).pc = "invalidate" /\ Invalidating(h, K).keys = K
         /\ Invalidating(h, K).org = handler[h].org
         /\ Invalidating(h, K).op = handler[h].op
         /\ Invalidating(h, K).actor = handler[h].actor
         /\ Invalidating(h, K).about = handler[h].about
<1>1. Invalidating(h, K) \in Handler
  BY HandlerUpdates DEF Invalidating
<1> QED
  BY <1>1 DEF Invalidating, Handler

(* A handler that changes roles of its organization next deletes the cache *)
(* keys of their users.                                                    *)
LEMMA InvalidatingKeeps ==
  ASSUME Inv, NEW h \in Handlers, handler[h].pc = "write", NEW K \in SUBSET Users,
         Written(h, Invalidating(h, K)),
         \A u \in Users, o \in Orgs : role'[u][o] # role[u][o] => u \in K /\ o = handler[h].org,
         role' \in [Users -> [Orgs -> Roles \cup {"none"}]],
         UNCHANGED <<orgState, projects, registered, verified, invitations, issued, excused, unmarked>>,
         selfGiven' \subseteq Orgs
  PROVE  Inv'
<1>1. handler[h] \in Handler
  BY Running DEF Inv, TypeInv
<1> DEFINE next == Invalidating(h, K)
<1>2. /\ next \in Handler /\ next # Idle
      /\ next.pc = "invalidate" /\ next.keys = K /\ next.org = handler[h].org
      /\ next.op = handler[h].op /\ next.actor = handler[h].actor /\ next.about = handler[h].about
  BY <1>1, InvalidatingType, NotIdle
<1>3. /\ handler' \in [Handlers -> Handler \cup {Idle}]
      /\ handler'[h] = next
      /\ \A g \in Handlers \ {h} : SameCall(handler[g], handler'[g])
      /\ overlapped' \subseteq Orgs
      /\ UNCHANGED <<counts, cache, request>>
  BY <1>1, <1>2, WrittenType DEF Inv, TypeInv
<1> HIDE DEF next
<1>4. MembershipTypeOK'
  BY <1>3 DEF Inv, TypeInv, MembershipTypeOK, counts
<1>5. InvitationsStay
  BY DEF InvitationsStay, Made
<1>6. HandlersHold'
  <2>1. Holds(handler[h])'
    BY <1>1, <1>2, <1>3, NotIdle DEF Inv, TypeInv, HandlersHold, Holds, Made
  <2> QED
    BY <1>3, <1>5, <2>1, OthersHold DEF Inv, TypeInv, HandlersHold
<1>7. CacheFollowsRoles'
  <2> SUFFICES ASSUME NEW u \in Users, NEW o \in Orgs, cache[u][o] \notin {"miss", role'[u][o]},
                      <<u, o>> \notin excused
               PROVE  InvalidationPending(u, o)'
    BY <1>3 DEF CacheFollowsRoles
  <2>1. CASE role'[u][o] # role[u][o]
    BY <1>2, <1>3, <2>1 DEF InvalidationPending
  <2>2. CASE role'[u][o] = role[u][o]
    <3>1. PICK g \in Handlers : handler[g] # Idle /\ handler[g].org = o /\ u \in handler[g].keys
      BY <2>2 DEF Inv, CacheFollowsRoles, InvalidationPending
    <3>2. g # h
      BY <1>1, <3>1, NotIdle DEF Inv, TypeInv, HandlersHold, Holds
    <3> QED
      BY <1>3, <3>1, <3>2 DEF InvalidationPending, SameCall
  <2> QED
    BY <2>1, <2>2
<1> QED
  BY <1>4, <1>6, <1>7, UsesStay DEF Inv, TypeInv

(* A handler that ends, or goes on to mark an invitation, having given a   *)
(* membership at most to its own user.                                     *)
LEMMA JoiningKeeps ==
  ASSUME Inv, NEW h \in Handlers, handler[h].pc = "write", NEW next \in Handler \cup {Idle},
         Written(h, next),
         next # Idle => next.keys = {} /\ next.pc # "invalidate" /\ next.org = handler[h].org,
         Holds(next)', InvitationsStay,
         \A u \in Users, o \in Orgs :
            role'[u][o] # role[u][o] => cache[u][o] = "miss" \/ <<u, o>> \in excused',
         excused \subseteq excused'
  PROVE  /\ HandlersHold' /\ CacheFollowsRoles'
         /\ handler' \in [Handlers -> Handler \cup {Idle}]
         /\ overlapped' \subseteq Orgs
         /\ UNCHANGED <<counts, cache, request>>
<1>1. handler[h] \in Handler
  BY Running DEF Inv, TypeInv
<1>3. /\ handler' \in [Handlers -> Handler \cup {Idle}]
      /\ handler'[h] = next
      /\ \A g \in Handlers \ {h} : SameCall(handler[g], handler'[g])
      /\ overlapped' \subseteq Orgs
      /\ UNCHANGED <<counts, cache, request>>
  BY <1>1, WrittenType DEF Inv, TypeInv
<1>6. HandlersHold'
  <2>1. Holds(handler[h])'
    BY <1>3 DEF Holds
  <2> QED
    BY <1>3, <2>1, OthersHold DEF Inv, TypeInv, HandlersHold
<1>7. CacheFollowsRoles'
  <2> SUFFICES ASSUME NEW u \in Users, NEW o \in Orgs, cache[u][o] \notin {"miss", role'[u][o]},
                      <<u, o>> \notin excused'
               PROVE  InvalidationPending(u, o)'
    BY <1>3 DEF CacheFollowsRoles
  <2>2. role'[u][o] = role[u][o] /\ <<u, o>> \notin excused
    OBVIOUS
  <2>3. PICK g \in Handlers : handler[g] # Idle /\ handler[g].org = o /\ u \in handler[g].keys
    BY <2>2 DEF Inv, CacheFollowsRoles, InvalidationPending
  <2>4. g # h
    BY <1>1, <2>3, NotIdle DEF Inv, TypeInv, HandlersHold, Holds
  <2> QED
    BY <1>3, <2>3, <2>4 DEF InvalidationPending, SameCall
<1> QED
  BY <1>3, <1>6, <1>7

---------------------------------------------------------------------------
(* Every action keeps them.                                                *)

LEMMA EndpointKeeps ==
  ASSUME Inv, NEW h \in Handlers, Endpoint(h)
  PROVE  Inv'
<1>a. MembershipTypeOK
  BY DEF Inv, TypeInv
<1>b. GivenRoles \subseteq Grantable
  BY MembershipAssumption
<1>c. ASSUME NEW op \in Ops, NEW u \in Users, NEW o \in Orgs, NEW t \in Users,
             NEW about \in SUBSET (Invitations \cup Projects), NEW pc \in Pcs \ {"invalidate", "mark"},
             op = "accept" => u \in registered,
             op \in {"accept", "signup"} =>
               \A i \in about : i \in Invitations /\ Made(i) /\ invitations[i].email = u
      PROVE  /\ Begin(h, Call(op, u, o, t, about, pc)) => Inv'
             /\ \A r \in Grantable : Begin(h, [Call(op, u, o, t, about, pc) EXCEPT !.newRole = r]) => Inv'
  <2> DEFINE x == Call(op, u, o, t, about, pc)
  <2>1. x \in Handler /\ \A r \in Grantable : [x EXCEPT !.newRole = r] \in Handler
    BY <1>a, CallType
  <2>2. x.pc = pc /\ x.op = op /\ x.actor = u /\ x.about = about /\ x.keys = {}
    BY DEF Call
  <2> HIDE DEF x
  <2>3. Begin(h, x) => Inv'
    BY <1>c, <2>1, <2>2, BeginKeeps
  <2>4. ASSUME NEW r \in Grantable, Begin(h, [x EXCEPT !.newRole = r]) PROVE Inv'
    <3> DEFINE y == [x EXCEPT !.newRole = r]
    <3>1. y \in Handler
      BY <2>1
    <3>2. y.pc = pc /\ y.op = op /\ y.actor = u /\ y.about = about /\ y.keys = {}
      BY <2>1, <2>2 DEF Handler
    <3> HIDE DEF y
    <3> QED
      BY <1>c, <2>4, <3>1, <3>2, BeginKeeps DEF y
  <2> QED
    BY <2>3, <2>4 DEF x
<1>d. {} \in SUBSET (Invitations \cup Projects)
  OBVIOUS
<1>1. ASSUME NEW u \in Users, NEW t \in Users, NEW o \in Orgs, NEW r \in GivenRoles,
             BeginChangeRole(h, u, o, t, r) \/ BeginInvite(h, u, o, t, r)
      PROVE  Inv'
  BY <1>b, <1>c, <1>d, <1>1 DEF BeginChangeRole, BeginInvite, Ops, Pcs
<1>2. ASSUME NEW u \in Users, NEW t \in Users, NEW o \in Orgs,
             BeginRemoveMember(h, u, o, t) \/ BeginTransfer(h, u, o, t)
      PROVE  Inv'
  BY <1>c, <1>d, <1>2 DEF BeginRemoveMember, BeginTransfer, Ops, Pcs
<1>3. ASSUME NEW u \in Users, NEW o \in Orgs,
             BeginLeaveOrg(h, u, o) \/ BeginDeleteOrg(h, u, o) \/ BeginCreateProject(h, u, o)
      PROVE  Inv'
  BY <1>c, <1>d, <1>3 DEF BeginLeaveOrg, BeginDeleteOrg, BeginCreateProject, Ops, Pcs
<1>4. ASSUME NEW u \in Users, NEW o \in Orgs, NEW p \in Projects, BeginDeleteProject(h, u, o, p)
      PROVE  Inv'
  <2>1. {p} \in SUBSET (Invitations \cup Projects)
    OBVIOUS
  <2> QED
    BY <1>c, <1>4, <2>1 DEF BeginDeleteProject, Ops, Pcs
<1>5. ASSUME NEW u \in Users, NEW o \in Orgs, NEW i \in Invitations,
             BeginResend(h, u, o, i) \/ BeginRevoke(h, u, o, i)
      PROVE  Inv'
  <2>1. {i} \in SUBSET (Invitations \cup Projects)
    OBVIOUS
  <2>2. Made(i) /\ invitations[i].email \in Users /\ invitations[i].role \in Grantable
    BY <1>a, <1>5 DEF BeginResend, BeginRevoke, Made, MembershipTypeOK, Invitation
  <2> QED
    BY <1>c, <1>5, <2>1, <2>2 DEF BeginResend, BeginRevoke, Ops, Pcs
<1>6. ASSUME NEW u \in Users, NEW i \in Invitations, BeginAccept(h, u, i) \/ BeginSignup(h, u, i)
      PROVE  Inv'
  <2>1. {i} \in SUBSET (Invitations \cup Projects)
    OBVIOUS
  <2>2. Made(i) /\ invitations[i].email = u /\ invitations[i].org \in Orgs
    BY <1>a, <1>6 DEF BeginAccept, BeginSignup, Unused, Made, MembershipTypeOK, Invitation
  <2> QED
    BY <1>c, <1>6, <2>1, <2>2 DEF BeginAccept, BeginSignup, Ops, Pcs
<1> QED
  BY <1>1, <1>2, <1>3, <1>4, <1>5, <1>6 DEF Endpoint

(* The reads that check a request.                                         *)
LEMMA ReadsKeep ==
  ASSUME Inv, NEW h \in Handlers,
         \/ ReadTarget(h) \/ CountOwners(h) \/ CountActiveOrgs(h) \/ CountActiveProjects(h)
         \/ CountPending(h) \/ ListMembers(h) \/ FindPending(h)
  PROVE  Inv'
<1>1. ASSUME NEW ok, NEW next \in {"owners", "write", "members", "replace"}, Check(h, ok, next),
             handler[h].pc \notin {"idle", "invalidate"}
      PROVE  Inv'
  BY <1>1, CheckKeeps DEF Pcs
<1> QED
  BY <1>1 DEF ReadTarget, CountOwners, CountActiveOrgs, CountActiveProjects, CountPending,
              ListMembers, FindPending

(* Roles written by change of role, removal, leaving and transfer.         *)
LEMMA WriteRoleKeeps == ASSUME Inv, NEW h \in Handlers, WriteRole(h) PROVE Inv'
<1>1. handler[h] \in Handler /\ handler[h].pc = "write"
  BY Running DEF WriteRole, Inv, TypeInv
<1>2. PICK new \in Roles \cup {"none"} : role' = [role EXCEPT ![handler[h].target][handler[h].org] = new]
  BY <1>1, Names DEF WriteRole, Handler, Grantable
<1>3. role' \in [Users -> [Orgs -> Roles \cup {"none"}]]
  BY <1>2 DEF Inv, TypeInv, MembershipTypeOK
<1>4. {handler[h].target} \in SUBSET Users
  BY <1>1 DEF Handler
<1>5. \A u \in Users, o \in Orgs : role'[u][o] # role[u][o] =>
        u \in {handler[h].target} /\ o = handler[h].org
  BY <1>2 DEF Inv, TypeInv, MembershipTypeOK
<1>6. /\ Written(h, Invalidating(h, {handler[h].target}))
      /\ UNCHANGED <<orgState, projects, registered, verified, invitations, issued,
                     excused, selfGiven, unmarked>>
  BY DEF WriteRole
<1>7. selfGiven' \subseteq Orgs
  BY <1>6 DEF Inv, TypeInv, MembershipTypeOK
<1> QED
  BY <1>1, <1>3, <1>4, <1>5, <1>6, <1>7, InvalidatingKeeps

LEMMA TransferKeeps == ASSUME Inv, NEW h \in Handlers, TransferOwnership(h) PROVE Inv'
<1>1. handler[h] \in Handler /\ handler[h].pc = "write"
  BY Running DEF TransferOwnership, Inv, TypeInv
<1> DEFINE me == handler[h]
<1>2. CASE Check(h, FALSE, "write")
  BY <1>1, <1>2, CheckKeeps DEF Pcs
<1>3. CASE /\ role' = [role EXCEPT ![me.target][me.org] = "owner", ![me.actor][me.org] = "admin"]
           /\ selfGiven' = IF me.actor = me.target THEN selfGiven \cup {me.org} ELSE selfGiven
           /\ Written(h, Invalidating(h, TransferKeys(me)))
           /\ UNCHANGED <<orgState, projects, registered, verified, invitations, issued,
                          excused, unmarked>>
  <2>1. role' \in [Users -> [Orgs -> Roles \cup {"none"}]]
    BY <1>3, Names DEF Inv, TypeInv, MembershipTypeOK
  <2>2. TransferKeys(me) \in SUBSET Users /\ me.org \in Orgs
    BY <1>1 DEF Handler, TransferKeys
  <2>3. \A u \in Users, o \in Orgs : role'[u][o] # role[u][o] => u \in TransferKeys(me) /\ o = me.org
    BY <1>3 DEF Inv, TypeInv, MembershipTypeOK, TransferKeys
  <2>4. selfGiven' \subseteq Orgs
    BY <1>3, <2>2 DEF Inv, TypeInv, MembershipTypeOK
  <2> QED
    BY <1>1, <1>3, <2>1, <2>2, <2>3, <2>4, InvalidatingKeeps
<1> QED
  BY <1>2, <1>3 DEF TransferOwnership

(* Organizations and projects.                                             *)
LEMMA ProjectTypes ==
  ASSUME MembershipTypeOK, NEW o \in Orgs, NEW p, NEW x \in Presence
  PROVE  [projects EXCEPT ![o][p] = x] \in [Orgs -> [Projects -> Presence]]
<1> DEFINE row == [projects[o] EXCEPT ![p] = x]
<1>1. projects \in [Orgs -> [Projects -> Presence]]
  BY DEF MembershipTypeOK
<1>2. row \in [Projects -> Presence]
  BY <1>1
<1>3. [projects EXCEPT ![o][p] = x] = [projects EXCEPT ![o] = row]
  BY <1>1
<1> HIDE DEF row
<1> QED
  BY <1>1, <1>2, <1>3

LEMMA DeletesKeep ==
  ASSUME Inv, NEW h \in Handlers, SoftDeleteOrg(h) \/ CreateProject(h)
  PROVE  Inv'
<1>1. handler[h] \in Handler /\ handler[h].pc = "write"
  BY Running DEF SoftDeleteOrg, CreateProject, Inv, TypeInv
<1>2. /\ handler' = [handler EXCEPT ![h] = Idle]
      /\ UNCHANGED <<role, registered, verified, invitations, issued, redis, histories, request, counts>>
  BY DEF SoftDeleteOrg, CreateProject
<1>3. InvitationsStay
  BY <1>2 DEF InvitationsStay, Made
<1>4. /\ handler' \in [Handlers -> Handler \cup {Idle}]
      /\ HandlersHold' /\ CacheFollowsRoles' /\ Uses'
  BY <1>1, <1>2, <1>3, QuietKeeps, UsesStay DEF redis, histories, Inv
<1>5. orgState' \in [Orgs -> Presence] /\ projects' \in [Orgs -> [Projects -> Presence]]
  <2>1. handler[h].org \in Orgs
    BY <1>1 DEF Handler
  <2>2. orgState' \in [Orgs -> Presence]
    BY <2>1 DEF SoftDeleteOrg, CreateProject, Inv, TypeInv, MembershipTypeOK, Presence
  <2>3. \/ UNCHANGED projects
        \/ \E p \in Projects : projects' = [projects EXCEPT ![handler[h].org][p] = "live"]
    BY DEF SoftDeleteOrg, CreateProject
  <2>4. "live" \in Presence
    BY DEF Presence
  <2>5. projects' \in [Orgs -> [Projects -> Presence]]
    <3>1. CASE UNCHANGED projects
      BY <3>1 DEF Inv, TypeInv, MembershipTypeOK
    <3>2. ASSUME NEW p \in Projects, projects' = [projects EXCEPT ![handler[h].org][p] = "live"]
          PROVE  projects' \in [Orgs -> [Projects -> Presence]]
      BY <2>1, <2>4, <3>2, ProjectTypes DEF Inv, TypeInv
    <3> QED
      BY <2>3, <3>1, <3>2
  <2> QED
    BY <2>2, <2>5
<1> QED
  BY <1>2, <1>4, <1>5 DEF Inv, TypeInv, MembershipTypeOK, redis, histories, counts

LEMMA DeleteProjectKeeps == ASSUME Inv, NEW h \in Handlers, SoftDeleteProject(h) PROVE Inv'
<1>1. handler[h] \in Handler /\ handler[h].pc = "write"
  BY Running DEF SoftDeleteProject, Inv, TypeInv
<1>2. /\ Written(h, Idle)
      /\ UNCHANGED <<role, orgState, registered, verified, invitations, issued, excused, selfGiven,
                     unmarked>>
  BY DEF SoftDeleteProject
<1>3. InvitationsStay /\ Holds(Idle)'
  BY <1>2 DEF InvitationsStay, Made, Holds
<1>4. /\ HandlersHold' /\ CacheFollowsRoles'
      /\ handler' \in [Handlers -> Handler \cup {Idle}]
      /\ overlapped' \subseteq Orgs
      /\ UNCHANGED <<counts, cache, request>>
  BY <1>1, <1>2, <1>3, JoiningKeeps
<1>5. projects' \in [Orgs -> [Projects -> Presence]]
  <2>1. handler[h].org \in Orgs /\ "deleted" \in Presence
    BY <1>1 DEF Handler, Presence
  <2>2. PICK p \in handler[h].about : projects' = [projects EXCEPT ![handler[h].org][p] = "deleted"]
    BY DEF SoftDeleteProject
  <2> QED
    BY <2>1, <2>2, ProjectTypes DEF Inv, TypeInv
<1> QED
  BY <1>2, <1>4, <1>5, UsesStay DEF Inv, TypeInv, MembershipTypeOK, counts

(* Invitations revoked, or created anew.                                   *)
LEMMA RevokeKeeps == ASSUME Inv, NEW h \in Handlers, RevokeInvitation(h) PROVE Inv'
<1>1. handler[h] \in Handler /\ handler[h].pc = "replace"
  BY Running DEF RevokeInvitation, Inv, TypeInv
<1>2. \A i \in Invitations :
        \/ invitations'[i] = invitations[i]
        \/ /\ Made(i)
           /\ invitations'[i] = [invitations[i] EXCEPT !.revoked = TRUE]
  BY DEF RevokeInvitation, Unused
<1>3. ASSUME NEW i \in Invitations, Made(i)
      PROVE  /\ invitations'[i] \in Invitation
             /\ invitations'[i].email = invitations[i].email
             /\ invitations'[i].used = invitations[i].used
             /\ invitations'[i].accepted = invitations[i].accepted
  <2>1. invitations[i] \in Invitation
    BY <1>3 DEF Inv, TypeInv, MembershipTypeOK, Made
  <2> QED
    BY ZenonT(60), <1>2, <1>3, <2>1 DEF Invitation
<1>4. \A i \in Invitations : ~ Made(i) => invitations'[i] = invitations[i]
  BY <1>2
<1>5. UNCHANGED <<role, orgState, projects, registered, verified, issued, redis, histories, request, counts>>
  BY DEF RevokeInvitation
<1>6. InvitationsStay
  BY <1>3, <1>5, NotIdle DEF InvitationsStay, Made
<1>7. invitations' \in [Invitations -> Invitation \cup {NoInvitation}]
  BY <1>3, <1>4 DEF RevokeInvitation, Made
<1>8. /\ handler' \in [Handlers -> Handler \cup {Idle}]
      /\ HandlersHold' /\ CacheFollowsRoles'
  <2>1. \/ handler' = [handler EXCEPT ![h] = Idle]
        \/ handler' = [handler EXCEPT ![h] = [@ EXCEPT !.pc = "write"]]
    BY DEF RevokeInvitation
  <2> QED
    BY <1>1, <1>5, <1>6, <2>1, QuietKeeps DEF Pcs, redis
<1>9. Uses'
  BY <1>3, <1>4, <1>5 DEF Inv, Uses, Made, histories
<1> QED
  BY <1>5, <1>7, <1>8, <1>9 DEF Inv, TypeInv, MembershipTypeOK, redis, histories, counts

LEMMA CreateInvitationKeeps == ASSUME Inv, NEW h \in Handlers, CreateInvitation(h) PROVE Inv'
<1> DEFINE me == handler[h]
<1>1. me \in Handler /\ me.pc = "write"
  BY Running DEF CreateInvitation, Inv, TypeInv
<1>2. \/ UNCHANGED invitations
      \/ \E i \in Invitations :
           /\ ~ Made(i)
           /\ invitations' = [invitations EXCEPT ![i] = NewInvitation(me.org, me.target, me.newRole)]
  BY DEF CreateInvitation
<1>3. NewInvitation(me.org, me.target, me.newRole) \in Invitation
  BY <1>1 DEF Handler, NewInvitation, Invitation
<1>4. /\ handler' = [handler EXCEPT ![h] = Idle]
      /\ UNCHANGED <<role, orgState, projects, registered, verified, issued, redis, histories, request, counts>>
  BY DEF CreateInvitation
<1>5. invitations' \in [Invitations -> Invitation \cup {NoInvitation}]
  BY <1>2, <1>3 DEF Inv, TypeInv, MembershipTypeOK
<1>6. \A i \in Invitations : Made(i) => invitations'[i] = invitations[i]
  BY <1>2 DEF Inv, TypeInv, MembershipTypeOK
<1>7. InvitationsStay
  BY <1>4, <1>6 DEF InvitationsStay, Made
<1>8. /\ handler' \in [Handlers -> Handler \cup {Idle}]
      /\ HandlersHold' /\ CacheFollowsRoles'
  BY <1>1, <1>4, <1>7, QuietKeeps DEF redis
<1>9. \A i \in Invitations : ~ Made(i) /\ Made(i)' =>
        invitations'[i].used = 0 /\ invitations'[i].accepted = FALSE
  BY <1>2 DEF Inv, TypeInv, MembershipTypeOK, Made, NewInvitation
<1>10. Uses'
  BY <1>4, <1>6, <1>9 DEF Inv, Uses, Made, histories
<1> QED
  BY <1>4, <1>5, <1>8, <1>10 DEF Inv, TypeInv, MembershipTypeOK, redis, histories, counts

(* A membership given excuses the cache entry nobody deletes.              *)
LEMMA JoinedType ==
  ASSUME MembershipTypeOK, NEW u \in Users, NEW o \in Orgs
  PROVE  /\ excused \subseteq Joined(u, o) /\ Joined(u, o) \subseteq Users \X Orgs
         /\ cache[u][o] = "miss" \/ <<u, o>> \in Joined(u, o)
  BY DEF Joined, MembershipTypeOK

LEMMA InvitationUpdates ==
  ASSUME NEW x \in Invitation
  PROVE  /\ x.used \in Nat /\ x.email \in Users /\ x.role \in Roles \cup {"none"} /\ x.org \in Orgs
         /\ [x EXCEPT !.used = @ + 1] \in Invitation
         /\ [x EXCEPT !.used = @ + 1].email = x.email
         /\ [x EXCEPT !.used = @ + 1].used = x.used + 1
         /\ [x EXCEPT !.used = @ + 1].accepted = x.accepted
<1>1. x.used \in Nat /\ x.email \in Users /\ x.org \in Orgs /\ x.role \in Grantable
  BY DEF Invitation
<1>2. x.role \in Roles \cup {"none"}
  BY <1>1, Names DEF Grantable
<1>3. [x EXCEPT !.used = @ + 1] \in Invitation
  BY <1>1 DEF Invitation
<1> QED
  BY <1>1, <1>2, <1>3 DEF Invitation

LEMMA InvitationAccepted ==
  ASSUME NEW x \in Invitation
  PROVE  /\ [x EXCEPT !.accepted = TRUE] \in Invitation
         /\ [x EXCEPT !.accepted = TRUE].email = x.email
         /\ [x EXCEPT !.accepted = TRUE].used = x.used
         /\ [x EXCEPT !.accepted = TRUE].accepted = TRUE
<1>1. [x EXCEPT !.accepted = TRUE] \in Invitation
  BY DEF Invitation
<1> QED
  BY <1>1 DEF Invitation

LEMMA InvitationUsed ==
  ASSUME NEW x \in Invitation
  PROVE  /\ UsedAndAccepted(x) \in Invitation
         /\ UsedAndAccepted(x).email = x.email
         /\ UsedAndAccepted(x).used = x.used + 1
         /\ UsedAndAccepted(x).accepted = TRUE
<1> DEFINE y == [x EXCEPT !.used = @ + 1]
<1>1. y \in Invitation /\ y.email = x.email /\ y.used = x.used + 1
  BY InvitationUpdates
<1>2. UsedAndAccepted(x) = [y EXCEPT !.accepted = TRUE]
  BY DEF UsedAndAccepted, Invitation
<1> HIDE DEF y
<1> QED
  BY <1>1, <1>2, InvitationAccepted

(* accept_for_existing_user finds the invitation unmarked: nobody used it, *)
(* but for a signup that has not marked it.                                *)
LEMMA AcceptKeeps == ASSUME Inv, NEW h \in Handlers, AcceptForExistingUser(h) PROVE Inv'
<1> DEFINE me == handler[h]
<1>1. me \in Handler /\ me.pc = "write" /\ me.op = "accept"
  BY Running DEF AcceptForExistingUser, Inv, TypeInv
<1>2. \A i \in me.about : i \in Invitations /\ Made(i) /\ invitations[i].email = me.actor
  BY <1>1, NotIdle DEF Inv, TypeInv, HandlersHold, Holds
<1>3. me.actor \in Users /\ me.org \in Orgs
  BY <1>1 DEF Handler
<1>4. PICK i \in me.about :
        \/ Check(h, FALSE, "write")
        \/ /\ ~ invitations[i].accepted
           /\ role' = [role EXCEPT ![me.actor][me.org] = invitations[i].role]
           /\ invitations' = [invitations EXCEPT ![i] = UsedAndAccepted(@)]
           /\ issued' = issued \cup {<<me.actor, me.org>>}
           /\ excused' = Joined(me.actor, me.org)
           /\ Written(h, Idle)
           /\ UNCHANGED <<orgState, projects, registered, verified, selfGiven, unmarked>>
  BY DEF AcceptForExistingUser
<1>5. CASE Check(h, FALSE, "write")
  BY <1>1, <1>5, CheckKeeps DEF Pcs
<1>6. CASE /\ ~ invitations[i].accepted
           /\ role' = [role EXCEPT ![me.actor][me.org] = invitations[i].role]
           /\ invitations' = [invitations EXCEPT ![i] = UsedAndAccepted(@)]
           /\ issued' = issued \cup {<<me.actor, me.org>>}
           /\ excused' = Joined(me.actor, me.org)
           /\ Written(h, Idle)
           /\ UNCHANGED <<orgState, projects, registered, verified, selfGiven, unmarked>>
  <2>1. i \in Invitations /\ Made(i) /\ invitations[i] \in Invitation
    BY <1>2 DEF Inv, TypeInv, MembershipTypeOK, Made
  <2>2. /\ invitations'[i] = UsedAndAccepted(invitations[i])
        /\ \A j \in Invitations \ {i} : invitations'[j] = invitations[j]
    BY <1>6, <2>1 DEF Inv, TypeInv, MembershipTypeOK
  <2>3. /\ invitations'[i] \in Invitation /\ invitations'[i].email = invitations[i].email
        /\ invitations'[i].used = invitations[i].used + 1 /\ invitations'[i].accepted = TRUE
        /\ invitations[i].used \in Nat /\ invitations[i].role \in Roles \cup {"none"}
    BY <2>1, <2>2, InvitationUpdates, InvitationUsed
  <2>4. invitations' \in [Invitations -> Invitation \cup {NoInvitation}]
    BY <1>6, <2>1, <2>3 DEF Inv, TypeInv, MembershipTypeOK
  <2>5. InvitationsStay
    BY <1>6, <2>2, <2>3, NotIdle DEF InvitationsStay, Made
  <2>6. role' \in [Users -> [Orgs -> Roles \cup {"none"}]]
    BY <1>3, <1>6, <2>3 DEF Inv, TypeInv, MembershipTypeOK
  <2>7. \A u \in Users, o \in Orgs : role'[u][o] # role[u][o] => u = me.actor /\ o = me.org
    BY <1>6 DEF Inv, TypeInv, MembershipTypeOK
  <2>8. /\ excused \subseteq excused' /\ excused' \subseteq Users \X Orgs
        /\ cache[me.actor][me.org] = "miss" \/ <<me.actor, me.org>> \in excused'
    BY <1>3, <1>6, JoinedType DEF Inv, TypeInv
  <2>9. Holds(Idle)'
    BY DEF Holds
  <2>10. /\ HandlersHold' /\ CacheFollowsRoles'
         /\ handler' \in [Handlers -> Handler \cup {Idle}]
         /\ overlapped' \subseteq Orgs
         /\ UNCHANGED <<counts, cache, request>>
    BY <1>1, <1>6, <2>5, <2>7, <2>8, <2>9, JoiningKeeps
  <2>11. Uses'
    <3>1. me.actor \in registered
      BY <1>1, NotIdle DEF Inv, TypeInv, HandlersHold, Holds
    <3>2. invitations'[i].email \in registered'
      BY <1>2, <1>6, <2>3, <3>1
    <3>3. i \notin unmarked => invitations'[i].used <= 1
      BY <1>6, <2>1, <2>3 DEF Inv, Uses
    <3>4. \A j \in Invitations \ {i} : Made(j)' => Made(j) /\ invitations'[j] = invitations[j]
      BY <2>2 DEF Made
    <3> QED
      BY <1>6, <2>3, <3>2, <3>3, <3>4 DEF Inv, Uses
  <2>12. issued' \subseteq Users \X Orgs
    BY <1>3, <1>6 DEF Inv, TypeInv, MembershipTypeOK
  <2> QED
    BY <1>6, <2>4, <2>6, <2>8, <2>10, <2>11, <2>12 DEF Inv, TypeInv, MembershipTypeOK, counts
<1> QED
  BY <1>4, <1>5, <1>6

(* create_user: the account is new, so nobody used an invitation sent to   *)
(* its address.                                                            *)
LEMMA CreateUserKeeps == ASSUME Inv, NEW h \in Handlers, CreateUser(h) PROVE Inv'
<1> DEFINE me == handler[h]
<1>1. me \in Handler /\ me.pc = "write" /\ me.op = "signup"
  BY Running DEF CreateUser, Inv, TypeInv
<1>2. \A i \in me.about : i \in Invitations /\ Made(i) /\ invitations[i].email = me.actor
  BY <1>1, NotIdle DEF Inv, TypeInv, HandlersHold, Holds
<1>3. me.actor \in Users /\ me.org \in Orgs
  BY <1>1 DEF Handler
<1>n. PICK next \in Handler : next = [me EXCEPT !.pc = "mark"]
  BY <1>1, HandlerUpdates DEF Pcs
<1>a. /\ next \in Handler /\ next.pc = "mark" /\ next.op = "signup" /\ next.keys = {}
      /\ next.org = me.org /\ next.about = me.about /\ next.actor = me.actor
  <2>1. me.keys = {}
    BY <1>1, NotIdle DEF Inv, TypeInv, HandlersHold, Holds
  <2> QED
    BY <1>1, <1>n, <2>1 DEF Handler
<1> DEFINE Creates(i) ==
      /\ me.actor \notin registered
      /\ registered' = registered \cup {me.actor} /\ verified' = verified \cup {me.actor}
      /\ role' = [role EXCEPT ![me.actor][me.org] = invitations[i].role]
      /\ invitations' = [invitations EXCEPT ![i].used = @ + 1]
      /\ unmarked' = unmarked \cup {i}
      /\ issued' = issued \cup {<<me.actor, me.org>>}
      /\ excused' = Joined(me.actor, me.org)
      /\ Written(h, next)
      /\ UNCHANGED <<orgState, projects, selfGiven>>
<1>4. PICK i \in me.about : Check(h, FALSE, "write") \/ Creates(i)
  BY <1>n DEF CreateUser
<1>5. CASE Check(h, FALSE, "write")
  BY <1>1, <1>5, CheckKeeps DEF Pcs
<1>6. CASE Creates(i)
  <2>1. i \in Invitations /\ Made(i) /\ invitations[i] \in Invitation
    BY <1>2 DEF Inv, TypeInv, MembershipTypeOK, Made
  <2>2. /\ invitations'[i] = [invitations[i] EXCEPT !.used = @ + 1]
        /\ \A j \in Invitations \ {i} : invitations'[j] = invitations[j]
    BY <1>6, <2>1 DEF Inv, TypeInv, MembershipTypeOK
  <2>3. /\ invitations'[i] \in Invitation /\ invitations'[i].email = invitations[i].email
        /\ invitations'[i].used = invitations[i].used + 1
        /\ invitations[i].used \in Nat /\ invitations[i].role \in Roles \cup {"none"}
    BY <2>1, <2>2, InvitationUpdates
  <2>4. invitations' \in [Invitations -> Invitation \cup {NoInvitation}]
    <3>1. /\ invitations \in [Invitations -> Invitation \cup {NoInvitation}]
          /\ DOMAIN invitations' = DOMAIN invitations
          /\ invitations' = [j \in DOMAIN invitations |-> invitations'[j]]
      BY <1>6 DEF Inv, TypeInv, MembershipTypeOK
    <3> QED
      BY <2>2, <2>3, <3>1
  <2>5. InvitationsStay
    BY <1>6, <2>2, <2>3, NotIdle DEF InvitationsStay, Made
  <2>6. role' \in [Users -> [Orgs -> Roles \cup {"none"}]]
    BY <1>3, <1>6, <2>3 DEF Inv, TypeInv, MembershipTypeOK
  <2>7. \A u \in Users, o \in Orgs : role'[u][o] # role[u][o] => u = me.actor /\ o = me.org
    BY <1>6 DEF Inv, TypeInv, MembershipTypeOK
  <2>8. /\ excused \subseteq excused' /\ excused' \subseteq Users \X Orgs
        /\ cache[me.actor][me.org] = "miss" \/ <<me.actor, me.org>> \in excused'
    BY <1>3, <1>6, JoinedType DEF Inv, TypeInv
  <2>9. Holds(next)'
    <3> SUFFICES ASSUME NEW j \in me.about
                 PROVE  j \in Invitations /\ invitations'[j] # NoInvitation
                        /\ invitations'[j].email = me.actor
      BY <1>a DEF Holds, Made
    <3> QED
      BY <1>2, <2>5 DEF InvitationsStay, Made
  <2>10. /\ HandlersHold' /\ CacheFollowsRoles'
         /\ handler' \in [Handlers -> Handler \cup {Idle}]
         /\ overlapped' \subseteq Orgs
         /\ UNCHANGED <<counts, cache, request>>
    BY <1>1, <1>6, <1>a, <2>5, <2>7, <2>8, <2>9, JoiningKeeps
  <2>11. Uses'
    <3>1. ~ invitations[i].used > 0
      BY <1>2, <1>6, <2>1 DEF Inv, Uses
    <3>2. invitations'[i].email \in registered' /\ invitations'[i].used <= 1 /\ i \in unmarked'
      BY <1>2, <1>6, <2>3, <3>1
    <3>4. \A j \in Invitations \ {i} : Made(j)' => Made(j) /\ invitations'[j] = invitations[j]
      BY <2>2 DEF Made
    <3>5. registered \subseteq registered' /\ unmarked \subseteq unmarked'
      BY <1>6
    <3> QED
      BY <3>2, <3>4, <3>5 DEF Inv, Uses
  <2>12. /\ issued' \subseteq Users \X Orgs /\ registered' \subseteq Users
         /\ verified' \subseteq registered' /\ unmarked' \subseteq Invitations
    BY <1>3, <1>6, <2>1 DEF Inv, TypeInv, MembershipTypeOK
  <2> QED
    BY <1>6, <2>4, <2>6, <2>8, <2>10, <2>11, <2>12 DEF Inv, TypeInv, MembershipTypeOK, counts
<1> QED
  BY <1>4, <1>5, <1>6

(* mark_accepted marks what nobody has accepted.                           *)
LEMMA MarkKeeps == ASSUME Inv, NEW h \in Handlers, MarkAccepted(h) PROVE Inv'
<1> DEFINE me == handler[h]
           marked == {i \in me.about : ~invitations[i].accepted /\ ~RowSecurity}
<1>1. me \in Handler /\ me.pc = "mark" /\ me.op = "signup"
  <2>1. me \in Handler /\ me # Idle /\ me.pc = "mark"
    BY Running DEF MarkAccepted, Inv, TypeInv
  <2> QED
    BY <2>1 DEF Inv, TypeInv, HandlersHold, Holds
<1>2. \A i \in me.about : i \in Invitations /\ Made(i)
  BY <1>1, NotIdle DEF Inv, TypeInv, HandlersHold, Holds
<1>3. /\ invitations' = [i \in Invitations |->
           IF i \in marked THEN [invitations[i] EXCEPT !.accepted = TRUE] ELSE invitations[i]]
      /\ unmarked' = unmarked \ marked
      /\ handler' = [handler EXCEPT ![h] = Idle]
      /\ UNCHANGED <<role, orgState, projects, registered, verified, issued, redis,
                     overlapped, selfGiven, request, counts>>
  BY DEF MarkAccepted
<1>4. ASSUME NEW i \in marked
      PROVE  /\ i \in Invitations /\ Made(i) /\ ~ invitations[i].accepted
             /\ invitations'[i] \in Invitation
             /\ invitations'[i].email = invitations[i].email
             /\ invitations'[i].used = invitations[i].used
             /\ invitations'[i].accepted = TRUE
  <2>1. i \in Invitations /\ Made(i) /\ ~ invitations[i].accepted
    BY <1>2
  <2>2. invitations[i] \in Invitation
    BY <2>1 DEF Inv, TypeInv, MembershipTypeOK, Made
  <2>3. invitations'[i] = [invitations[i] EXCEPT !.accepted = TRUE]
    BY <1>3, <2>1
  <2> QED
    BY <2>1, <2>2, <2>3, InvitationAccepted
<1>5. \A i \in Invitations \ marked : invitations'[i] = invitations[i]
  BY <1>3
<1> HIDE DEF marked
<1>6. invitations' \in [Invitations -> Invitation \cup {NoInvitation}]
  <2>1. \A i \in Invitations : invitations'[i] \in Invitation \cup {NoInvitation}
    BY <1>4, <1>5 DEF Inv, TypeInv, MembershipTypeOK
  <2> QED
    BY <1>3, <2>1
<1>7. InvitationsStay
  BY <1>3, <1>4, <1>5, NotIdle DEF InvitationsStay, Made
<1>8. /\ handler' \in [Handlers -> Handler \cup {Idle}]
      /\ HandlersHold' /\ CacheFollowsRoles'
  BY <1>1, <1>3, <1>7, QuietKeeps DEF redis
<1>9. Uses'
  <2>1. ASSUME NEW i \in marked
        PROVE  /\ invitations'[i].used > 0 => invitations'[i].email \in registered'
               /\ invitations'[i].accepted = TRUE
               /\ invitations'[i].used <= 1
    <3>1. /\ i \in Invitations /\ Made(i) /\ ~ invitations[i].accepted
          /\ invitations'[i].email = invitations[i].email
          /\ invitations'[i].used = invitations[i].used
          /\ invitations'[i].accepted = TRUE
      BY <1>4
    <3> QED
      BY <1>3, <3>1 DEF Inv, Uses
  <2>2. \A i \in Invitations \ marked : Made(i)' => Made(i) /\ invitations'[i] = invitations[i]
    BY <1>5 DEF Made
  <2>3. \A i \in Invitations \ marked : i \notin unmarked' => i \notin unmarked
    BY <1>3
  <2> QED
    BY <1>3, <2>1, <2>2, <2>3 DEF Inv, Uses
<1> QED
  BY <1>3, <1>6, <1>8, <1>9 DEF Inv, TypeInv, MembershipTypeOK, redis, histories, counts

(* A key deleted, or not.                                                  *)
LEMMA InvalidateKeeps ==
  ASSUME Inv, NEW h \in Handlers, NEW u \in Users, Invalidate(h, u)
  PROVE  Inv'
<1> DEFINE me == handler[h]
           rest == me.keys \ {u}
           o == me.org
<1>1. me \in Handler /\ me.pc = "invalidate" /\ me # Idle /\ u \in me.keys
  BY Running DEF Invalidate, Inv, TypeInv
<1>2. o \in Orgs /\ rest \in SUBSET Users
  BY <1>1 DEF Handler
<1>3. handler' = [handler EXCEPT ![h] = IF rest = {} THEN Idle ELSE [me EXCEPT !.keys = rest]]
  BY DEF Invalidate
<1>4. /\ \A g \in Handlers \ {h} : handler'[g] = handler[g]
      /\ handler'[h] = IF rest = {} THEN Idle ELSE [me EXCEPT !.keys = rest]
  BY <1>3 DEF Inv, TypeInv, MembershipTypeOK
<1>5. [me EXCEPT !.keys = rest] \in Handler
  BY <1>1, <1>2, HandlerUpdates
<1>6. handler' \in [Handlers -> Handler \cup {Idle}]
  BY <1>3, <1>5 DEF Inv, TypeInv, MembershipTypeOK
<1>7. UNCHANGED <<role, orgState, projects, registered, verified, invitations, issued,
                  overlapped, selfGiven, unmarked, request, calls>>
  BY DEF Invalidate, tables, histories
<1>8. InvitationsStay
  BY <1>7 DEF InvitationsStay, Made
<1>9. rest # {} => /\ handler'[h] # Idle /\ handler'[h].keys = rest /\ handler'[h].org = o
                   /\ handler'[h].pc = "invalidate" /\ handler'[h].op = me.op
                   /\ handler'[h].about = me.about /\ handler'[h].actor = me.actor
  BY <1>1, <1>4, <1>5, NotIdle DEF Handler
<1>10. HandlersHold'
  <2>1. Holds(handler[h])'
    BY <1>1, <1>4, <1>8, <1>9 DEF Inv, TypeInv, HandlersHold, Holds, InvitationsStay
  <2>2. \A g \in Handlers \ {h} : Holds(handler[g])'
    BY <1>4, <1>8, OthersHold DEF SameCall, Inv, TypeInv
  <2> QED
    BY <2>1, <2>2 DEF HandlersHold
<1>11. \A v \in Users, p \in Orgs : InvalidationPending(v, p) =>
          InvalidationPending(v, p)' \/ (v = u /\ p = o)
  <2> SUFFICES ASSUME NEW v \in Users, NEW p \in Orgs, InvalidationPending(v, p), ~ (v = u /\ p = o)
               PROVE  InvalidationPending(v, p)'
    OBVIOUS
  <2>1. PICK g \in Handlers : handler[g] # Idle /\ handler[g].org = p /\ v \in handler[g].keys
    BY DEF InvalidationPending
  <2>2. CASE g # h
    BY <1>4, <2>1, <2>2 DEF InvalidationPending
  <2>3. CASE g = h
    <3>1. v \in rest
      BY <2>1, <2>3
    <3> QED
      BY <1>9, <2>1, <2>3, <3>1 DEF InvalidationPending
  <2> QED
    BY <2>2, <2>3
<1>12. CASE cache' = [cache EXCEPT ![u][o] = "miss"] /\ excused' = excused \ {<<u, o>>} /\ UNCHANGED faults
  <2>1. /\ cache' \in [Users -> [Orgs -> Roles \cup {"none", "miss"}]]
        /\ cache'[u][o] = "miss"
        /\ \A v \in Users, p \in Orgs : ~ (v = u /\ p = o) => cache'[v][p] = cache[v][p]
    BY <1>2, <1>12 DEF Inv, TypeInv, MembershipTypeOK
  <2>2. CacheFollowsRoles'
    BY <1>7, <1>11, <1>12, <2>1 DEF Inv, CacheFollowsRoles
  <2> QED
    BY <1>6, <1>7, <1>10, <1>12, <2>1, <2>2, UsesStay DEF Inv, TypeInv, MembershipTypeOK
<1>13. CASE faults < MaxFaults /\ faults' = faults + 1 /\ excused' = excused \cup {<<u, o>>} /\ UNCHANGED cache
  <2>1. CacheFollowsRoles'
    BY <1>7, <1>11, <1>13 DEF Inv, CacheFollowsRoles
  <2>2. faults' \in 0 .. MaxFaults /\ excused' \subseteq Users \X Orgs
    BY <1>2, <1>13, MembershipAssumption DEF Inv, TypeInv, MembershipTypeOK
  <2> QED
    BY <1>6, <1>7, <1>10, <1>13, <2>1, <2>2, UsesStay DEF Inv, TypeInv, MembershipTypeOK
<1> QED
  BY <1>12, <1>13 DEF Invalidate

LEMMA DiesKeeps == ASSUME Inv, NEW h \in Handlers, HandlerDies(h) PROVE Inv'
<1> DEFINE me == handler[h]
<1>1. me \in Handler
  BY DEF HandlerDies, Inv, TypeInv, MembershipTypeOK
<1>2. me.org \in Orgs /\ me.keys \in SUBSET Users
  BY <1>1 DEF Handler
<1>3. /\ handler' = [handler EXCEPT ![h] = Idle]
      /\ excused' = excused \cup {<<u, me.org>> : u \in me.keys}
      /\ faults < MaxFaults /\ faults' = faults + 1
      /\ UNCHANGED <<role, orgState, projects, registered, verified, invitations, issued,
                     cache, overlapped, selfGiven, unmarked, request, calls>>
  BY DEF HandlerDies, tables, histories
<1>4. /\ handler'[h] = Idle
      /\ \A g \in Handlers \ {h} : handler'[g] = handler[g]
      /\ handler' \in [Handlers -> Handler \cup {Idle}]
  BY <1>3 DEF Inv, TypeInv, MembershipTypeOK
<1>5. InvitationsStay
  BY <1>3 DEF InvitationsStay, Made
<1>6. HandlersHold'
  <2>1. Holds(handler[h])'
    BY <1>4 DEF Holds
  <2>2. \A g \in Handlers \ {h} : Holds(handler[g])'
    BY <1>4, <1>5, OthersHold DEF SameCall, Inv, TypeInv
  <2> QED
    BY <2>1, <2>2 DEF HandlersHold
<1>7. CacheFollowsRoles'
  <2> SUFFICES ASSUME NEW u \in Users, NEW o \in Orgs, cache[u][o] \notin {"miss", role[u][o]},
                      <<u, o>> \notin excused'
               PROVE  InvalidationPending(u, o)'
    BY <1>3 DEF CacheFollowsRoles
  <2>1. PICK g \in Handlers : handler[g] # Idle /\ handler[g].org = o /\ u \in handler[g].keys
    BY <1>3 DEF Inv, CacheFollowsRoles, InvalidationPending
  <2>2. g # h
    BY <1>3, <2>1
  <2> QED
    BY <1>4, <2>1, <2>2 DEF InvalidationPending
<1>8. faults' \in 0 .. MaxFaults /\ excused' \subseteq Users \X Orgs
  BY <1>2, <1>3, MembershipAssumption DEF Inv, TypeInv, MembershipTypeOK
<1> QED
  BY <1>3, <1>4, <1>6, <1>7, <1>8, UsesStay DEF Inv, TypeInv, MembershipTypeOK

(* A step that leaves handlers and roles alone.                            *)
LEMMA CacheKeeps ==
  ASSUME Inv, UNCHANGED <<handler, role, invitations, unmarked>>, registered \subseteq registered',
         \A u \in Users, o \in Orgs :
            \/ cache'[u][o] \in {"miss", role[u][o]}
            \/ <<u, o>> \in excused'
            \/ cache'[u][o] = cache[u][o] /\ <<u, o>> \notin excused
  PROVE  HandlersHold' /\ CacheFollowsRoles' /\ Uses'
<1>1. InvitationsStay
  BY DEF InvitationsStay, Made
<1>2. HandlersHold'
  BY <1>1, OthersHold DEF SameCall, Inv, TypeInv, HandlersHold
<1>3. CacheFollowsRoles'
  BY DEF Inv, CacheFollowsRoles, InvalidationPending
<1>4. Uses'
  BY DEF Inv, Uses, Made
<1> QED
  BY <1>2, <1>3, <1>4

LEMMA RequestStays ==
  ASSUME MembershipTypeOK, NEW r \in Requests, request[r].pc # "idle"
  PROVE  request[r] \in Request
  BY DEF MembershipTypeOK, Idle

(* The cached role of one user and organization becomes another.           *)
LEMMA CacheTypes ==
  ASSUME MembershipTypeOK, NEW u \in Users, NEW o \in Orgs, NEW x \in Roles \cup {"none", "miss"},
         cache' = [cache EXCEPT ![u][o] = x]
  PROVE  /\ cache' \in [Users -> [Orgs -> Roles \cup {"none", "miss"}]]
         /\ cache'[u][o] = x
         /\ \A v \in Users, p \in Orgs : v # u \/ p # o => cache'[v][p] = cache[v][p]
  BY DEF MembershipTypeOK

LEMMA CacheMissKeeps ==
  ASSUME Inv, NEW r \in Requests, NEW u \in Users, NEW o \in Orgs, CacheMiss(r, u, o)
  PROVE  Inv'
<1>1. /\ UNCHANGED <<role, orgState, projects, registered, verified, invitations, issued, cache,
                     excused, overlapped, selfGiven, unmarked, handler>>
      /\ calls < MaxCalls /\ calls' = calls + 1
      /\ faults' = faults \/ (faults < MaxFaults /\ faults' = faults + 1)
      /\ request' = [request EXCEPT ![r] = [pc |-> "missed", user |-> u, org |-> o, seen |-> "none"]]
  BY DEF CacheMiss, tables, redis, histories
<1>2. [pc |-> "missed", user |-> u, org |-> o, seen |-> "none"] \in Request
  BY DEF Request
<1>3. MembershipTypeOK'
  BY <1>1, <1>2, MembershipAssumption DEF Inv, TypeInv, MembershipTypeOK
<1>4. HandlersHold' /\ CacheFollowsRoles' /\ Uses'
  <2>1. \A v \in Users, p \in Orgs : cache[v][p] \in {"miss", role[v][p]} \/ <<v, p>> \in excused
                                     \/ InvalidationPending(v, p)
    BY DEF Inv, CacheFollowsRoles
  <2> QED
    BY <1>1, <2>1, UsesStay
       DEF Inv, TypeInv, HandlersHold, Holds, Made, CacheFollowsRoles, InvalidationPending
<1> QED
  BY <1>3, <1>4 DEF Inv, TypeInv

LEMMA GetRoleKeeps == ASSUME Inv, NEW r \in Requests, GetRole(r) PROVE Inv'
<1> DEFINE q == request[r]
<1>1. q \in Request
  BY RequestStays DEF Inv, TypeInv, GetRole
<1>2. role[q.user][q.org] \in Roles \cup {"none"}
  BY <1>1 DEF Inv, TypeInv, MembershipTypeOK, Request
<1>3. [q EXCEPT !.pc = "fill", !.seen = role[q.user][q.org]] \in Request
  BY <1>1, <1>2 DEF Request
<1>4. /\ UNCHANGED <<role, orgState, projects, registered, verified, invitations, issued, cache,
                     excused, overlapped, selfGiven, unmarked, handler, calls, faults>>
      /\ request' = [request EXCEPT ![r] = [q EXCEPT !.pc = "fill", !.seen = role[q.user][q.org]]]
  BY DEF GetRole, tables, redis, histories, counts
<1>5. MembershipTypeOK'
  BY <1>3, <1>4 DEF Inv, TypeInv, MembershipTypeOK
<1> QED
  BY <1>4, <1>5, UsesStay
     DEF Inv, TypeInv, HandlersHold, Holds, Made, CacheFollowsRoles, InvalidationPending

(* A fill with a role that is no longer so leaves its entry excused.       *)
LEMMA CacheSetKeeps == ASSUME Inv, NEW r \in Requests, CacheSet(r) PROVE Inv'
<1> DEFINE q == request[r]
<1>1. q \in Request
  BY RequestStays DEF Inv, TypeInv, CacheSet
<1>2. q.user \in Users /\ q.org \in Orgs /\ q.seen \in Roles \cup {"none", "miss"}
  BY <1>1 DEF Request
<1>3. /\ UNCHANGED <<role, orgState, projects, registered, verified, invitations, issued,
                     overlapped, selfGiven, unmarked, handler, calls>>
      /\ request' = [request EXCEPT ![r] = Idle]
  BY DEF CacheSet, tables, histories
<1>4. CASE /\ cache' = [cache EXCEPT ![q.user][q.org] = q.seen]
           /\ excused' = IF q.seen = role[q.user][q.org] THEN excused
                         ELSE excused \cup {<<q.user, q.org>>}
           /\ UNCHANGED faults
  <2>1. /\ cache' \in [Users -> [Orgs -> Roles \cup {"none", "miss"}]]
        /\ cache'[q.user][q.org] = q.seen
        /\ \A v \in Users, p \in Orgs : v # q.user \/ p # q.org => cache'[v][p] = cache[v][p]
    <3>1. PICK u \in Users, o \in Orgs, x \in Roles \cup {"none", "miss"} :
             u = q.user /\ o = q.org /\ x = q.seen
      BY <1>2
    <3>2. cache' = [cache EXCEPT ![u][o] = x]
      BY <1>4, <3>1
    <3>3. /\ cache' \in [Users -> [Orgs -> Roles \cup {"none", "miss"}]]
          /\ cache'[u][o] = x
          /\ \A v \in Users, p \in Orgs : v # u \/ p # o => cache'[v][p] = cache[v][p]
      BY ZenonT(60), <3>2, CacheTypes DEF Inv, TypeInv
    <3> QED
      BY <3>1, <3>3
  <2>2. excused' \subseteq Users \X Orgs /\ excused \subseteq excused'
        /\ (q.seen = role[q.user][q.org] \/ <<q.user, q.org>> \in excused')
    BY <1>2, <1>4 DEF Inv, TypeInv, MembershipTypeOK
  <2>3. MembershipTypeOK'
    BY <1>3, <1>4, <2>1, <2>2 DEF Inv, TypeInv, MembershipTypeOK
  <2>4. CacheFollowsRoles'
    <3> SUFFICES ASSUME NEW v \in Users, NEW p \in Orgs, cache'[v][p] \notin {"miss", role[v][p]},
                        <<v, p>> \notin excused'
                 PROVE  InvalidationPending(v, p)'
      BY <1>3 DEF CacheFollowsRoles
    <3>1. v # q.user \/ p # q.org
      BY <2>1, <2>2
    <3>2. InvalidationPending(v, p)
      BY <2>1, <2>2, <3>1 DEF Inv, CacheFollowsRoles
    <3> QED
      BY <1>3, <3>2 DEF InvalidationPending
  <2> QED
    BY <1>3, <2>3, <2>4, UsesStay DEF Inv, TypeInv, HandlersHold, Holds, Made
<1>5. CASE faults < MaxFaults /\ faults' = faults + 1 /\ UNCHANGED <<cache, excused>>
  <2>1. MembershipTypeOK'
    BY <1>3, <1>5, MembershipAssumption DEF Inv, TypeInv, MembershipTypeOK
  <2> QED
    BY <1>3, <1>5, <2>1, UsesStay
       DEF Inv, TypeInv, HandlersHold, Holds, Made, CacheFollowsRoles, InvalidationPending
<1> QED
  BY <1>4, <1>5 DEF CacheSet

LEMMA ExpireKeeps ==
  ASSUME Inv, NEW u \in Users, NEW o \in Orgs, ExpireKey(u, o)
  PROVE  Inv'
<1>1. /\ UNCHANGED <<role, orgState, projects, registered, verified, invitations, issued,
                     overlapped, selfGiven, unmarked, handler, request, calls, faults>>
      /\ cache' = [cache EXCEPT ![u][o] = "miss"]
      /\ excused' = excused \ {<<u, o>>}
  BY DEF ExpireKey, tables, histories, counts
<1>2. /\ cache' \in [Users -> [Orgs -> Roles \cup {"none", "miss"}]]
      /\ cache'[u][o] = "miss"
      /\ \A v \in Users, p \in Orgs : v # u \/ p # o => cache'[v][p] = cache[v][p]
  BY ZenonT(60), <1>1, CacheTypes DEF Inv, TypeInv
<1>3. MembershipTypeOK'
  BY <1>1, <1>2 DEF Inv, TypeInv, MembershipTypeOK
<1>4. CacheFollowsRoles'
  <2> SUFFICES ASSUME NEW v \in Users, NEW p \in Orgs, cache'[v][p] \notin {"miss", role[v][p]},
                      <<v, p>> \notin excused'
               PROVE  InvalidationPending(v, p)'
    BY <1>1 DEF CacheFollowsRoles
  <2>1. v # u \/ p # o
    BY <1>2
  <2>2. InvalidationPending(v, p)
    BY <1>1, <1>2, <2>1 DEF Inv, CacheFollowsRoles
  <2> QED
    BY <1>1, <2>2 DEF InvalidationPending
<1> QED
  BY <1>1, <1>3, <1>4, UsesStay DEF Inv, TypeInv, HandlersHold, Holds, Made

LEMMA VerifyKeeps == ASSUME Inv, NEW u \in Users, VerifyEmail(u) PROVE Inv'
<1>1. /\ UNCHANGED <<role, orgState, projects, registered, invitations, issued, cache, excused,
                     overlapped, selfGiven, unmarked, handler, request, calls, faults>>
      /\ u \in registered /\ verified' = verified \cup {u}
  BY DEF VerifyEmail, redis, histories, counts
<1>2. MembershipTypeOK'
  BY <1>1 DEF Inv, TypeInv, MembershipTypeOK
<1> QED
  BY <1>1, <1>2, UsesStay
     DEF Inv, TypeInv, HandlersHold, Holds, Made, CacheFollowsRoles, InvalidationPending

(* Nobody deletes the key of an organization's founder: an old entry of    *)
(* his stays, excused.                                                     *)
LEMMA ProvisionKeeps ==
  ASSUME Inv, NEW u \in Users, NEW o \in Orgs, ProvisionOrg(u, o)
  PROVE  Inv'
<1>1. PICK first : projects' = [projects EXCEPT ![o][first] = "live"]
  BY DEF ProvisionOrg
<1>2. /\ orgState' = [orgState EXCEPT ![o] = "live"]
      /\ role' = [role EXCEPT ![u][o] = "owner"]
      /\ registered' = registered \cup {u}
      /\ issued' = issued \cup {<<u, o>>}
      /\ excused' = Joined(u, o)
      /\ calls < MaxCalls /\ calls' = calls + 1
      /\ UNCHANGED <<verified, invitations, cache, overlapped, selfGiven, unmarked, handler, request,
                     faults>>
  BY DEF ProvisionOrg, histories
<1>3. projects' \in [Orgs -> [Projects -> Presence]]
  BY <1>1, ProjectTypes DEF Presence, Inv, TypeInv
<1>4. /\ role' \in [Users -> [Orgs -> Roles \cup {"none"}]]
      /\ \A v \in Users, p \in Orgs : v # u \/ p # o => role'[v][p] = role[v][p]
  BY <1>2, Names DEF Inv, TypeInv, MembershipTypeOK
<1>5. orgState' \in [Orgs -> Presence]
  BY <1>2 DEF Presence, Inv, TypeInv, MembershipTypeOK
<1>6. /\ excused \subseteq excused' /\ excused' \subseteq Users \X Orgs
      /\ cache[u][o] = "miss" \/ <<u, o>> \in excused'
  BY <1>2, JoinedType DEF Inv, TypeInv
<1>7. MembershipTypeOK'
  BY <1>2, <1>3, <1>4, <1>5, <1>6, MembershipAssumption DEF Inv, TypeInv, MembershipTypeOK
<1>8. InvitationsStay
  BY <1>2 DEF InvitationsStay, Made
<1>9. HandlersHold'
  BY <1>2, <1>8, OthersHold DEF SameCall, Inv, TypeInv, HandlersHold
<1>10. CacheFollowsRoles'
  <2> SUFFICES ASSUME NEW v \in Users, NEW p \in Orgs, cache[v][p] \notin {"miss", role'[v][p]},
                      <<v, p>> \notin excused'
               PROVE  InvalidationPending(v, p)'
    BY <1>2 DEF CacheFollowsRoles
  <2>1. v # u \/ p # o
    BY <1>6
  <2>2. InvalidationPending(v, p)
    BY <1>4, <1>6, <2>1 DEF Inv, CacheFollowsRoles
  <2> QED
    BY <1>2, <2>2 DEF InvalidationPending
<1>11. Uses'
  BY <1>2 DEF Inv, Uses, Made
<1> QED
  BY <1>7, <1>9, <1>10, <1>11 DEF Inv, TypeInv

---------------------------------------------------------------------------
(* The theorems.                                                           *)

LEMMA MembershipInit == InitMembership => Inv
<1> SUFFICES ASSUME InitMembership PROVE Inv
  OBVIOUS
<1>1. MembershipTypeOK
  BY MembershipAssumption DEF InitMembership, MembershipTypeOK, Presence
<1>2. HandlersHold
  BY DEF InitMembership, HandlersHold, Holds
<1>3. CacheFollowsRoles
  BY DEF InitMembership, CacheFollowsRoles
<1>4. Uses
  BY <1>1, MembershipAssumption DEF InitMembership, Uses, Made
<1> QED
  BY <1>1, <1>2, <1>3, <1>4 DEF Inv, TypeInv

LEMMA MembershipStep == Inv /\ [NextMembership]_vars => Inv'
<1> SUFFICES ASSUME Inv, [NextMembership]_vars PROVE Inv'
  OBVIOUS
<1>1. ASSUME NEW h \in Handlers, Endpoint(h) PROVE Inv'
  BY <1>1, EndpointKeeps
<1>2. ASSUME NEW h \in Handlers, HandlerStep(h) PROVE Inv'
  <2>1. CASE \/ ReadTarget(h) \/ CountOwners(h) \/ CountActiveOrgs(h) \/ CountActiveProjects(h)
             \/ CountPending(h) \/ ListMembers(h) \/ FindPending(h)
    BY <2>1, ReadsKeep
  <2>2. CASE \/ WriteRole(h) \/ TransferOwnership(h) \/ SoftDeleteOrg(h) \/ CreateProject(h)
             \/ SoftDeleteProject(h) \/ RevokeInvitation(h) \/ CreateInvitation(h)
    BY <2>2, WriteRoleKeeps, TransferKeeps, DeletesKeep, DeleteProjectKeeps, RevokeKeeps,
       CreateInvitationKeeps
  <2>3. CASE \/ AcceptForExistingUser(h) \/ CreateUser(h) \/ MarkAccepted(h) \/ HandlerDies(h)
    BY <2>3, AcceptKeeps, CreateUserKeeps, MarkKeeps, DiesKeeps
  <2>4. CASE \E u \in Users : Invalidate(h, u)
    BY <2>4, InvalidateKeeps
  <2> QED
    BY <1>2, <2>1, <2>2, <2>3, <2>4 DEF HandlerStep
<1>3. ASSUME NEW r \in Requests, TokenCheck(r) PROVE Inv'
  BY <1>3, CacheMissKeeps, GetRoleKeeps, CacheSetKeeps DEF TokenCheck
<1>4. ASSUME NEW u \in Users, NEW o \in Orgs, ProvisionOrg(u, o) \/ ExpireKey(u, o) PROVE Inv'
  BY <1>4, ProvisionKeeps, ExpireKeeps
<1>5. ASSUME NEW u \in Users, VerifyEmail(u) PROVE Inv'
  BY <1>5, VerifyKeeps
<1>6. CASE UNCHANGED vars
  <2>1. UNCHANGED <<role, orgState, projects, registered, verified, invitations, issued, cache,
                    excused, overlapped, selfGiven, unmarked, handler, request, calls, faults>>
    BY <1>6 DEF vars, tables, redis, histories, counts
  <2>2. MembershipTypeOK' /\ HandlersHold'
    BY <2>1 DEF Inv, TypeInv, MembershipTypeOK, HandlersHold, Holds, Made
  <2>3. CacheFollowsRoles'
    BY <2>1 DEF Inv, CacheFollowsRoles, InvalidationPending
  <2> QED
    BY <2>1, <2>2, <2>3, UsesStay DEF Inv, TypeInv
<1> QED
  BY <1>1, <1>2, <1>3, <1>4, <1>5, <1>6 DEF NextMembership

---------------------------------------------------------------------------
(* One owner and a live project.                                           *)

(* Nothing was written to o over another's head, nor was it given by its   *)
(* owner to himself.                                                       *)
Firm(o) == o \notin overlapped \cup selfGiven

Sole(o) == (\E u \in Users : Owners(o) = {u}) /\ LiveProjects(o) # {}

(* The endpoint a handler that is at some check belongs to.                *)
Course(x) ==
  /\ x.pc = "target" => x.op \in {"change_role", "remove_member"}
  /\ x.pc = "owners" => x.op \in {"change_role", "remove_member", "leave"}
  /\ x.pc = "orgs" => x.op = "delete_org"
  /\ x.pc = "projects" => x.op = "delete_project"
  /\ x.pc \in {"pending", "members", "replace"} => x.op \in {"invite", "resend", "revoke"}

(* What the checks of a handler have made sure of, if nobody wrote to its  *)
(* organization since: that what it is about to take is not the last.      *)
Sound(x) ==
  x # Idle =>
    /\ x.op \notin {"accept", "signup"} => orgState[x.org] # "absent"
    /\ x.op = "delete_project" => \E p \in Projects : x.about = {p}
    /\ Course(x)
    /\ x.current /\ Firm(x.org) /\ x.pc = "write" =>
         /\ x.op \in {"change_role", "remove_member", "leave"} => role[x.target][x.org] # "owner"
         /\ x.op = "transfer" => role[x.actor][x.org] = "owner"
         /\ x.op = "delete_project" => LiveProjects(x.org) \ x.about # {}

OwnedInv ==
  /\ \A o \in Orgs, u \in Users : role[u][o] # "none" => u \in registered /\ orgState[o] # "absent"
  /\ \A o \in Orgs : LiveProjects(o) # {} => orgState[o] # "absent"
  /\ \A o \in Orgs : orgState[o] # "absent" /\ Firm(o) => Sole(o)
  /\ \A h \in Handlers : Sound(handler[h])

LEMMA SoleCounts ==
  ASSUME NEW o, Sole(o)
  PROVE  Cardinality(Owners(o)) = 1 /\ LiveProjects(o) # {}
  BY FS_Singleton DEF Sole

(* A permission is a role, and that of the owner for what only he may do.  *)
LEMMA PermittedRole ==
  ASSUME NEW u, NEW o, NEW op \in DOMAIN MIN_ROLE_FOR, role[u][o] \in Roles \cup {"none"},
         Permitted(u, o, op)
  PROVE  /\ role[u][o] # "none"
         /\ op \in {"transfer", "delete_project", "delete_org"} => role[u][o] = "owner"
<1>1. /\ Rank("none") = -1 /\ Rank("viewer") = 10 /\ Rank("member") = 20
      /\ Rank("admin") = 30 /\ Rank("owner") = 40
  <2>1. "none" \notin Roles /\ {"viewer", "member", "admin", "owner"} = Roles
    BY Names
  <2> QED
    BY <2>1 DEF Rank, ROLE_RANK
<1>2. /\ MIN_ROLE_FOR[op] \in {"admin", "owner"}
      /\ op \in {"transfer", "delete_project", "delete_org"} => MIN_ROLE_FOR[op] = "owner"
  <2>1. op \in {"change_role", "remove_member", "transfer", "invite", "resend",
                "revoke", "create_project", "delete_project", "delete_org"}
    BY DEF MIN_ROLE_FOR
  <2> QED
    BY <2>1 DEF MIN_ROLE_FOR
<1>3. Rank(role[u][o]) >= Rank(MIN_ROLE_FOR[op])
  BY DEF Permitted
<1>4. role[u][o] \in {"viewer", "member", "admin", "owner", "none"}
  BY Names
<1> HIDE DEF Rank
<1>5. CASE MIN_ROLE_FOR[op] = "owner"
  BY <1>1, <1>3, <1>4, <1>5
<1>6. CASE MIN_ROLE_FOR[op] = "admin"
  BY <1>1, <1>2, <1>3, <1>4, <1>6
<1> QED
  BY <1>2, <1>5, <1>6

(* A step that writes no role: projects may come, a handler may move on.   *)
LEMMA QuietOwned ==
  ASSUME OwnedInv,
         UNCHANGED <<role, overlapped, selfGiven>>, registered \subseteq registered',
         \A o \in Orgs : orgState'[o] = "absent" <=> orgState[o] = "absent",
         \A o \in Orgs : /\ LiveProjects(o) \subseteq LiveProjects(o)'
                         /\ LiveProjects(o)' # LiveProjects(o) => orgState[o] # "absent",
         \A h \in Handlers : handler[h] # Idle => handler[h].org \in Orgs,
         \A h \in Handlers : handler'[h] = handler[h] \/ Sound(handler[h])'
  PROVE  OwnedInv'
<1>1. \A o : Firm(o)' = Firm(o) /\ Owners(o)' = Owners(o)
  BY DEF Firm, Owners
<1>2. ASSUME NEW h \in Handlers, handler'[h] = handler[h] PROVE Sound(handler[h])'
  <2> SUFFICES ASSUME handler[h] # Idle PROVE Sound(handler[h])'
    BY <1>2 DEF Sound
  <2>1. Sound(handler[h]) /\ handler[h].org \in Orgs
    BY DEF OwnedInv
  <2> QED
    BY <1>1, <1>2, <2>1 DEF Sound, Course
<1>3. \A o \in Orgs : orgState'[o] # "absent" /\ Firm(o)' => Sole(o)'
  BY <1>1 DEF OwnedInv, Sole
<1>4. \A o \in Orgs : LiveProjects(o)' # {} => orgState'[o] # "absent"
  BY DEF OwnedInv
<1>5. \A h \in Handlers : Sound(handler[h])'
  BY <1>2
<1>6. \A o \in Orgs, u \in Users : role'[u][o] # "none" => u \in registered' /\ orgState'[o] # "absent"
  BY DEF OwnedInv
<1> QED
  BY <1>3, <1>4, <1>5, <1>6 DEF OwnedInv

(* A write to an organization: one whose handler was overtaken no longer   *)
(* counts.                                                                 *)
LEMMA WrittenOwned ==
  ASSUME OwnedInv, MembershipTypeOK, NEW h \in Handlers, handler[h] \in Handler,
         NEW next \in Handler \cup {Idle}, Written(h, next), NEW o \in Orgs, o = handler[h].org,
         next # Idle => next.pc \in {"invalidate", "mark"} /\ next.org = o /\ next.op = handler[h].op
                        /\ next.about = handler[h].about,
         UNCHANGED orgState, registered \subseteq registered', selfGiven \subseteq selfGiven',
         \A p \in Orgs \ {o} :
           /\ \A u \in Users : role'[u][p] = role[u][p]
           /\ projects'[p] = projects[p]
           /\ p \in selfGiven' => p \in selfGiven,
         \A u \in Users : role'[u][o] # "none" => u \in registered',
         orgState[o] # "absent",
         handler[h].current /\ Firm(o) /\ Sole(o) => o \in selfGiven' \/ Sole(o)'
  PROVE  OwnedInv'
<1>1. handler[h].current \in BOOLEAN /\ overlapped \subseteq overlapped'
  BY DEF Handler, Written
<1>2. ASSUME NEW p \in Orgs, p # o
      PROVE  /\ Firm(p)' = Firm(p) /\ Owners(p)' = Owners(p) /\ LiveProjects(p)' = LiveProjects(p)
             /\ \A u \in Users : role'[u][p] = role[u][p]
  <2>1. p \in overlapped' <=> p \in overlapped
    BY <1>2 DEF Written
  <2> QED
    BY <1>2, <2>1 DEF Firm, Owners, LiveProjects
<1>3. Firm(o)' => handler[h].current /\ Firm(o)
  BY <1>1 DEF Written, Firm
<1>4. orgState[o] # "absent" /\ Firm(o)' => Sole(o)'
  <2> SUFFICES ASSUME Firm(o)' PROVE Sole(o)'
    OBVIOUS
  <2>1. Sole(o) /\ o \notin selfGiven'
    BY <1>1, <1>3 DEF OwnedInv, Firm
  <2> QED
    BY <1>3, <2>1
<1>5. ASSUME NEW g \in Handlers PROVE Sound(handler[g])'
  <2>1. CASE g = h
    <3>1. handler'[h] = next
      BY DEF Written
    <3>2. Sound(handler[h]) /\ handler[h] # Idle
      BY NotIdle DEF OwnedInv
    <3> QED
      BY <2>1, <3>1, <3>2 DEF Sound, Course
  <2>2. CASE g # h /\ handler[g] # Idle /\ handler[g].org = o
    <3>1. handler'[g] = [handler[g] EXCEPT !.current = FALSE] /\ handler[g] \in Handler
      BY <2>2 DEF Written, MembershipTypeOK
    <3>2. /\ handler'[g].org = o /\ handler'[g].op = handler[g].op
          /\ handler'[g].about = handler[g].about /\ handler'[g].current = FALSE
          /\ handler'[g].pc = handler[g].pc
      BY <2>2, <3>1 DEF Handler
    <3>3. Sound(handler[g])
      BY DEF OwnedInv
    <3> QED
      BY <2>2, <3>2, <3>3 DEF Sound, Course
  <2>3. CASE g # h /\ (handler[g] = Idle \/ handler[g].org # o)
    <3>1. handler'[g] = handler[g] /\ handler[g] \in Handler \cup {Idle} /\ Sound(handler[g])
      BY <2>3 DEF Written, MembershipTypeOK, OwnedInv
    <3>2. CASE handler[g] # Idle
      <4>1. /\ handler[g].org \in Orgs \ {o} /\ handler[g].target \in Users /\ handler[g].actor \in Users
        BY <2>3, <3>1, <3>2 DEF Handler
      <4> QED
        BY <1>2, <3>1, <4>1 DEF Sound, Course
    <3> QED
      BY <3>1, <3>2 DEF Sound
  <2> QED
    BY <2>1, <2>2, <2>3
<1>6. ASSUME NEW p \in Orgs, orgState'[p] # "absent", Firm(p)' PROVE Sole(p)'
  <2>1. CASE p = o
    BY <1>4, <1>6, <2>1
  <2>2. CASE p # o
    BY <1>2, <1>6, <2>2 DEF OwnedInv, Sole
  <2> QED
    BY <2>1, <2>2
<1>7. ASSUME NEW p \in Orgs, LiveProjects(p)' # {} PROVE orgState'[p] # "absent"
  <2>1. CASE p = o
    BY <2>1
  <2>2. CASE p # o
    BY <1>2, <1>7, <2>2 DEF OwnedInv
  <2> QED
    BY <2>1, <2>2
<1>8. ASSUME NEW p \in Orgs, NEW u \in Users, role'[u][p] # "none"
      PROVE  u \in registered' /\ orgState'[p] # "absent"
  <2>1. CASE p = o
    BY <1>8, <2>1
  <2>2. CASE p # o
    BY <1>2, <1>8, <2>2 DEF OwnedInv
  <2> QED
    BY <2>1, <2>2
<1> QED
  BY <1>5, <1>6, <1>7, <1>8 DEF OwnedInv

(* A handler moves on, and no role is written: a project may be new.       *)
LEMMA OwnedSteps ==
  ASSUME OwnedInv, MembershipTypeOK, NEW h \in Handlers,
         \A g \in Handlers \ {h} : handler'[g] = handler[g],
         handler'[h] = Idle \/ (Sound(handler'[h]) /\ UNCHANGED <<orgState, projects>>),
         UNCHANGED <<role, overlapped, selfGiven>>, registered \subseteq registered',
         \A o \in Orgs : orgState'[o] = "absent" <=> orgState[o] = "absent",
         \A o \in Orgs : /\ LiveProjects(o) \subseteq LiveProjects(o)'
                         /\ LiveProjects(o)' # LiveProjects(o) => orgState[o] # "absent"
  PROVE  OwnedInv'
<1>1. Sound(handler[h])'
  BY DEF Sound, Course, Firm, LiveProjects
<1>2. \A g \in Handlers : handler[g] # Idle => handler[g].org \in Orgs
  BY DEF MembershipTypeOK, Handler
<1>3. \A g \in Handlers : handler'[g] = handler[g] \/ Sound(handler[g])'
  BY <1>1
<1> QED
  BY <1>2, <1>3, QuietOwned

(* A handler moves on, and nothing else happens to the organizations.      *)
LEMMA MovesOwned ==
  ASSUME OwnedInv, MembershipTypeOK, NEW h \in Handlers,
         \A g \in Handlers \ {h} : handler'[g] = handler[g],
         Sound(handler'[h]),
         UNCHANGED <<role, orgState, projects, overlapped, selfGiven>>, registered \subseteq registered'
  PROVE  OwnedInv'
<1>1. \A o \in Orgs : LiveProjects(o)' = LiveProjects(o)
  BY DEF LiveProjects
<1> QED
  BY <1>1, OwnedSteps

(* A handler begins.                                                       *)
LEMMA BeginOwned ==
  ASSUME OwnedInv, MembershipTypeOK, NEW h \in Handlers, NEW x, Begin(h, x), Sound(x)
  PROVE  OwnedInv'
<1>1. UNCHANGED <<role, orgState, projects, registered, overlapped, selfGiven>>
  BY DEF Begin, tables, histories
<1>2. /\ handler'[h] = x
      /\ \A g \in Handlers \ {h} : handler'[g] = handler[g]
  BY DEF Begin, MembershipTypeOK
<1> QED
  BY <1>1, <1>2, MovesOwned

LEMMA EndpointOwned ==
  ASSUME OwnedInv, MembershipTypeOK, NEW h \in Handlers, Endpoint(h)
  PROVE  OwnedInv'
<1>b. GivenRoles \subseteq Grantable
  BY MembershipAssumption
<1>t. \A u \in Users, o \in Orgs : role[u][o] \in Roles \cup {"none"}
  BY DEF MembershipTypeOK
<1>f. \A u \in Users, o \in Orgs : role[u][o] # "none" => orgState[o] # "absent"
  BY DEF OwnedInv
<1>p. ASSUME NEW u \in Users, NEW o \in Orgs, NEW op \in DOMAIN MIN_ROLE_FOR, Permitted(u, o, op)
      PROVE  /\ orgState[o] # "absent"
             /\ op \in {"transfer", "delete_project", "delete_org"} => role[u][o] = "owner"
  BY <1>t, <1>f, <1>p, PermittedRole
<1>o. DOMAIN MIN_ROLE_FOR = {"change_role", "remove_member", "transfer", "invite", "resend", "revoke",
                             "create_project", "delete_project", "delete_org"}
  BY DEF MIN_ROLE_FOR
<1>c. ASSUME NEW op, NEW u, NEW o, NEW t, NEW about, NEW pc,
             op \notin {"accept", "signup"} => orgState[o] # "absent",
             op = "delete_project" => \E p \in Projects : about = {p},
             Course([pc |-> pc, op |-> op]),
             pc = "write" =>
               /\ op \in {"change_role", "remove_member", "leave"} => role[t][o] # "owner"
               /\ op = "transfer" => role[u][o] = "owner"
               /\ op # "delete_project"
      PROVE  /\ Begin(h, Call(op, u, o, t, about, pc)) => OwnedInv'
             /\ \A r \in Grantable : Begin(h, [Call(op, u, o, t, about, pc) EXCEPT !.newRole = r]) => OwnedInv'
  <2> DEFINE x == Call(op, u, o, t, about, pc)
  <2>1. ASSUME NEW y, y.pc = pc, y.op = op, y.actor = u, y.org = o, y.target = t, y.about = about
        PROVE  Sound(y)
    BY <1>c, <2>1 DEF Sound, Course
  <2>2. /\ x.pc = pc /\ x.op = op /\ x.actor = u /\ x.org = o /\ x.target = t /\ x.about = about
        /\ \A r \in Grantable :
             LET y == [x EXCEPT !.newRole = r] IN
             y.pc = pc /\ y.op = op /\ y.actor = u /\ y.org = o /\ y.target = t /\ y.about = about
    BY DEF Call
  <2> HIDE DEF x
  <2>3. Sound(x) /\ \A r \in Grantable : Sound([x EXCEPT !.newRole = r])
    BY <2>1, <2>2
  <2> QED
    BY <2>3, BeginOwned DEF x
<1>1. ASSUME NEW u \in Users, NEW t \in Users, NEW o \in Orgs, NEW r \in GivenRoles,
             BeginChangeRole(h, u, o, t, r) \/ BeginInvite(h, u, o, t, r)
      PROVE  OwnedInv'
  BY <1>b, <1>c, <1>o, <1>p, <1>1 DEF BeginChangeRole, BeginInvite, Course
<1>2. ASSUME NEW u \in Users, NEW t \in Users, NEW o \in Orgs,
             BeginRemoveMember(h, u, o, t) \/ BeginTransfer(h, u, o, t)
      PROVE  OwnedInv'
  BY <1>c, <1>o, <1>p, <1>2 DEF BeginRemoveMember, BeginTransfer, Course
<1>3. ASSUME NEW u \in Users, NEW o \in Orgs,
             BeginDeleteOrg(h, u, o) \/ BeginCreateProject(h, u, o)
      PROVE  OwnedInv'
  BY <1>c, <1>o, <1>p, <1>3 DEF BeginDeleteOrg, BeginCreateProject, Course
<1>4. ASSUME NEW u \in Users, NEW o \in Orgs, BeginLeaveOrg(h, u, o) PROVE OwnedInv'
  BY <1>c, <1>f, <1>4 DEF BeginLeaveOrg, Course
<1>5. ASSUME NEW u \in Users, NEW o \in Orgs, NEW p \in Projects, BeginDeleteProject(h, u, o, p)
      PROVE  OwnedInv'
  BY <1>c, <1>o, <1>p, <1>5 DEF BeginDeleteProject, Course
<1>6. ASSUME NEW u \in Users, NEW o \in Orgs, NEW i \in Invitations,
             BeginResend(h, u, o, i) \/ BeginRevoke(h, u, o, i)
      PROVE  OwnedInv'
  <2>1. invitations[i].role \in Grantable
    BY <1>6 DEF BeginResend, BeginRevoke, Made, MembershipTypeOK, Invitation
  <2> QED
    BY <1>c, <1>o, <1>p, <1>6, <2>1 DEF BeginResend, BeginRevoke, Course
<1>7. ASSUME NEW u \in Users, NEW i \in Invitations, BeginAccept(h, u, i) \/ BeginSignup(h, u, i)
      PROVE  OwnedInv'
  BY <1>c, <1>7 DEF BeginAccept, BeginSignup, Course
<1> QED
  BY <1>1, <1>2, <1>3, <1>4, <1>5, <1>6, <1>7 DEF Endpoint

(* A handler's read lets it go on with what it has made sure of.           *)
LEMMA CheckOwned ==
  ASSUME OwnedInv, MembershipTypeOK, NEW h \in Handlers, handler[h] \in Handler,
         NEW ok, NEW next, Check(h, ok, next),
         ok => Sound([handler[h] EXCEPT !.pc = next])
  PROVE  OwnedInv'
<1>1. UNCHANGED <<role, orgState, projects, registered, overlapped, selfGiven>>
  BY DEF Check, tables, histories
<1>2. /\ handler'[h] = (IF ok THEN [handler[h] EXCEPT !.pc = next] ELSE Idle)
      /\ \A g \in Handlers \ {h} : handler'[g] = handler[g]
  BY DEF Check, MembershipTypeOK
<1>3. Sound(Idle)
  BY DEF Sound
<1>4. Sound(handler'[h])
  BY <1>2, <1>3
<1> QED
  BY <1>1, <1>2, <1>4, MovesOwned

LEMMA ReadsOwned ==
  ASSUME OwnedInv, MembershipTypeOK, NEW h \in Handlers,
         \/ ReadTarget(h) \/ CountOwners(h) \/ CountActiveOrgs(h) \/ CountActiveProjects(h)
         \/ CountPending(h) \/ ListMembers(h) \/ FindPending(h)
  PROVE  OwnedInv'
<1>1. handler[h] \in Handler /\ handler[h] # Idle
  BY Running DEF ReadTarget, CountOwners, CountActiveOrgs, CountActiveProjects, CountPending,
                 ListMembers, FindPending
<1>2. Sound(handler[h])
  BY DEF OwnedInv
<1>3. ASSUME NEW next
      PROVE  LET y == [handler[h] EXCEPT !.pc = next] IN
             /\ y.pc = next /\ y.op = handler[h].op /\ y.actor = handler[h].actor
             /\ y.org = handler[h].org /\ y.target = handler[h].target
             /\ y.about = handler[h].about /\ y.current = handler[h].current
  BY <1>1 DEF Handler
<1>4. ASSUME NEW next, Course([pc |-> next, op |-> handler[h].op]),
             handler[h].current /\ Firm(handler[h].org) /\ next = "write" =>
               /\ handler[h].op \in {"change_role", "remove_member", "leave"} =>
                    role[handler[h].target][handler[h].org] # "owner"
               /\ handler[h].op # "transfer"
               /\ handler[h].op = "delete_project" => LiveProjects(handler[h].org) \ handler[h].about # {}
      PROVE  Sound([handler[h] EXCEPT !.pc = next])
  BY <1>1, <1>2, <1>3, <1>4 DEF Sound, Course
<1>5. CASE ReadTarget(h)
  <2> DEFINE its == role[handler[h].target][handler[h].org]
             next == IF its = "owner" THEN "owners" ELSE "write"
  <2>1. PICK ok : Check(h, ok, next)
    BY <1>5 DEF ReadTarget
  <2>2. handler[h].op \in {"change_role", "remove_member"}
    BY <1>1, <1>2, <1>5 DEF ReadTarget, Sound, Course
  <2>3. Sound([handler[h] EXCEPT !.pc = next])
    BY <1>4, <2>2 DEF Course
  <2> HIDE DEF next
  <2> QED
    BY <1>1, <2>1, <2>3, CheckOwned
<1>6. CASE CountOwners(h)
  <2>1. Check(h, Cardinality(Owners(handler[h].org)) > 1, "write")
    BY <1>6 DEF CountOwners
  <2>2. handler[h].op \in {"change_role", "remove_member", "leave"} /\ handler[h].org \in Orgs
        /\ orgState[handler[h].org] # "absent"
    BY <1>1, <1>2, <1>6 DEF CountOwners, Sound, Course, Handler
  <2>3. Cardinality(Owners(handler[h].org)) > 1 => ~ Firm(handler[h].org)
    BY <2>2, SoleCounts DEF OwnedInv
  <2>4. Cardinality(Owners(handler[h].org)) > 1 => Sound([handler[h] EXCEPT !.pc = "write"])
    BY <1>4, <2>2, <2>3 DEF Course
  <2> QED
    BY <1>1, <2>1, <2>4, CheckOwned
<1>7. CASE CountActiveOrgs(h)
  <2>1. Check(h, Cardinality(LiveOrgsOf(handler[h].actor)) > 1, "write")
    BY <1>7 DEF CountActiveOrgs
  <2>2. handler[h].op = "delete_org"
    BY <1>1, <1>2, <1>7 DEF CountActiveOrgs, Sound, Course
  <2>3. Sound([handler[h] EXCEPT !.pc = "write"])
    BY <1>4, <2>2 DEF Course
  <2> QED
    BY <1>1, <2>1, <2>3, CheckOwned
<1>8. CASE CountActiveProjects(h)
  <2> DEFINE live == LiveProjects(handler[h].org)
  <2>1. Check(h, Cardinality(live) > 1, "write")
    BY <1>8 DEF CountActiveProjects
  <2>2. handler[h].op = "delete_project"
    BY <1>1, <1>2, <1>8 DEF CountActiveProjects, Sound, Course
  <2>3. PICK p \in Projects : handler[h].about = {p}
    BY <1>1, <1>2, <2>2 DEF Sound
  <2>4. ASSUME Cardinality(live) > 1 PROVE live \ handler[h].about # {}
    <3> HIDE DEF live
    <3> SUFFICES ASSUME live \subseteq {p} PROVE FALSE
      BY <2>3
    <3>1. live = {} \/ live = {p}
      OBVIOUS
    <3>2. Cardinality({p}) = 1 /\ Cardinality({}) = 0
      BY FS_Singleton, FS_EmptySet
    <3>3. Cardinality(live) \in {0, 1}
      BY <3>1, <3>2
    <3> QED
      BY <2>4, <3>3
  <2>5. Cardinality(live) > 1 => Sound([handler[h] EXCEPT !.pc = "write"])
    BY <1>4, <2>2, <2>4 DEF Course
  <2> QED
    BY <1>1, <2>1, <2>5, CheckOwned
<1>9. CASE CountPending(h)
  <2>1. PICK ok : Check(h, ok, "members")
    BY <1>9 DEF CountPending
  <2>2. Sound([handler[h] EXCEPT !.pc = "members"])
    BY <1>1, <1>2, <1>4, <1>9 DEF CountPending, Sound, Course
  <2> QED
    BY <1>1, <2>1, <2>2, CheckOwned
<1>10. CASE ListMembers(h)
  <2>1. PICK ok : Check(h, ok, "write")
    BY <1>10 DEF ListMembers
  <2>2. Sound([handler[h] EXCEPT !.pc = "write"])
    BY <1>1, <1>2, <1>4, <1>10 DEF ListMembers, Sound, Course
  <2> QED
    BY <1>1, <2>1, <2>2, CheckOwned
<1>11. CASE FindPending(h)
  <2>1. PICK ok : Check(h, ok, "replace")
    BY <1>11 DEF FindPending
  <2>2. Sound([handler[h] EXCEPT !.pc = "replace"])
    BY <1>1, <1>2, <1>4, <1>11 DEF FindPending, Sound, Course
  <2> QED
    BY <1>1, <2>1, <2>2, CheckOwned
<1> QED
  BY <1>5, <1>6, <1>7, <1>8, <1>9, <1>10, <1>11

(* The writes.                                                             *)
LEMMA WriteRoleOwned ==
  ASSUME OwnedInv, MembershipTypeOK, NEW h \in Handlers, WriteRole(h)
  PROVE  OwnedInv'
<1>1. handler[h] \in Handler /\ handler[h] # Idle /\ handler[h].pc = "write"
      /\ handler[h].op \in {"change_role", "remove_member", "leave"}
  BY Running DEF WriteRole
<1>2. PICK o \in Orgs, t \in Users : o = handler[h].org /\ t = handler[h].target
  BY <1>1 DEF Handler
<1>3. PICK new : /\ role' = [role EXCEPT ![t][o] = new] /\ new # "owner"
                 /\ new # "none" => role[t][o] # "none"
  <2>1. handler[h].newRole # "owner"
    BY <1>1 DEF Handler, Grantable
  <2> QED
    BY <1>2, <2>1 DEF WriteRole
<1>4. /\ \A u \in Users, p \in Orgs : role'[u][p] = IF u = t /\ p = o THEN new ELSE role[u][p]
  BY <1>3 DEF MembershipTypeOK
<1>5. /\ Written(h, Invalidating(h, {t}))
      /\ UNCHANGED <<orgState, projects, registered, selfGiven>>
  BY <1>2 DEF WriteRole
<1>6. LET next == Invalidating(h, {t}) IN
      next \in Handler /\ next.pc = "invalidate" /\ next.org = o /\ next.op = handler[h].op
      /\ next.about = handler[h].about
  BY <1>1, <1>2, InvalidatingType
<1>7. Sound(handler[h])
  BY DEF OwnedInv
<1>8. ASSUME handler[h].current, Firm(o), Sole(o) PROVE Sole(o)'
  <2>1. role[t][o] # "owner"
    BY <1>1, <1>2, <1>7, <1>8 DEF Sound
  <2>2. Owners(o)' = Owners(o)
    BY <1>3, <1>4, <2>1 DEF Owners
  <2>3. LiveProjects(o)' = LiveProjects(o)
    BY <1>5 DEF LiveProjects
  <2> QED
    BY <1>8, <2>2, <2>3 DEF Sole
<1>9. \A u \in Users : role'[u][o] # "none" => u \in registered'
  BY <1>3, <1>4, <1>5 DEF OwnedInv
<1>10. orgState[o] # "absent"
  BY <1>1, <1>2, <1>7 DEF Sound
<1> HIDE DEF Invalidating, Written
<1> QED
  BY <1>1, <1>2, <1>4, <1>5, <1>6, <1>8, <1>9, <1>10, WrittenOwned

LEMMA TransferOwned ==
  ASSUME OwnedInv, MembershipTypeOK, NEW h \in Handlers, TransferOwnership(h)
  PROVE  OwnedInv'
<1>1. handler[h] \in Handler /\ handler[h] # Idle /\ handler[h].pc = "write"
      /\ handler[h].op = "transfer"
  BY Running DEF TransferOwnership
<1>2. PICK o \in Orgs, t \in Users, a \in Users :
        o = handler[h].org /\ t = handler[h].target /\ a = handler[h].actor
  BY <1>1 DEF Handler
<1>3. CASE Check(h, FALSE, "write")
  BY <1>1, <1>3, CheckOwned
<1>4. CASE /\ role[t][o] # "none" /\ role[a][o] # "none"
           /\ role' = [role EXCEPT ![t][o] = "owner", ![a][o] = "admin"]
           /\ selfGiven' = IF a = t THEN selfGiven \cup {o} ELSE selfGiven
           /\ Written(h, Invalidating(h, TransferKeys(handler[h])))
           /\ UNCHANGED <<orgState, projects, registered>>
  <2>1. \A u \in Users, p \in Orgs :
          role'[u][p] = IF p # o THEN role[u][p]
                        ELSE IF u = a THEN "admin" ELSE IF u = t THEN "owner" ELSE role[u][p]
    BY <1>4 DEF MembershipTypeOK
  <2>2. TransferKeys(handler[h]) \in SUBSET Users
    BY <1>1 DEF TransferKeys, Handler
  <2> DEFINE next == Invalidating(h, TransferKeys(handler[h]))
  <2>3. next \in Handler /\ next.pc = "invalidate" /\ next.org = o /\ next.op = handler[h].op
        /\ next.about = handler[h].about /\ Written(h, next)
    BY <1>1, <1>2, <1>4, <2>2, InvalidatingType
  <2>4. Sound(handler[h])
    BY DEF OwnedInv
  <2>5. ASSUME handler[h].current, Firm(o), Sole(o), o \notin selfGiven' PROVE Sole(o)'
    <3>1. role[a][o] = "owner" /\ a # t
      BY <1>1, <1>2, <1>4, <2>4, <2>5 DEF Sound
    <3>2. Owners(o) = {a}
      BY <2>5, <3>1 DEF Sole, Owners
    <3>3. \A u \in Users : role'[u][o] = "owner" <=> u = t
      BY <2>1, <3>1, <3>2 DEF Owners
    <3>4. Owners(o)' = {t}
      BY <3>3 DEF Owners
    <3>5. LiveProjects(o)' = LiveProjects(o)
      BY <1>4 DEF LiveProjects
    <3> QED
      BY <2>5, <3>4, <3>5 DEF Sole
  <2>6. \A u \in Users : role'[u][o] # "none" => u \in registered'
    BY <1>4, <2>1 DEF OwnedInv
  <2>7. orgState[o] # "absent"
    BY <1>1, <1>2, <2>4 DEF Sound
  <2>8. \A p \in Orgs \ {o} :
          /\ \A u \in Users : role'[u][p] = role[u][p]
          /\ projects'[p] = projects[p]
          /\ p \in selfGiven' => p \in selfGiven
    BY <1>4, <2>1
  <2>9. selfGiven \subseteq selfGiven' /\ registered \subseteq registered'
        /\ UNCHANGED orgState
    BY <1>4
  <2> HIDE DEF next
  <2> QED
    BY <1>1, <1>2, <2>3, <2>5, <2>6, <2>7, <2>8, <2>9, WrittenOwned
<1> QED
  BY <1>2, <1>3, <1>4 DEF TransferOwnership

LEMMA DeleteProjectOwned ==
  ASSUME OwnedInv, MembershipTypeOK, NEW h \in Handlers, SoftDeleteProject(h)
  PROVE  OwnedInv'
<1>1. handler[h] \in Handler /\ handler[h] # Idle /\ handler[h].pc = "write"
      /\ handler[h].op = "delete_project"
  BY Running DEF SoftDeleteProject
<1>2. PICK o \in Orgs : o = handler[h].org
  BY <1>1 DEF Handler
<1>3. PICK p \in handler[h].about : projects' = [projects EXCEPT ![o][p] = "deleted"]
  BY <1>2 DEF SoftDeleteProject
<1>4. Written(h, Idle) /\ UNCHANGED <<role, orgState, registered, selfGiven>>
  BY DEF SoftDeleteProject
<1>5. Sound(handler[h])
  BY DEF OwnedInv
<1>6. /\ \A x \in Projects \ {p} : projects'[o][x] = projects[o][x]
      /\ \A x \in Orgs \ {o} : projects'[x] = projects[x]
  BY <1>3 DEF MembershipTypeOK
<1>7. ASSUME handler[h].current, Firm(o), Sole(o) PROVE Sole(o)'
  <2>1. LiveProjects(o) \ handler[h].about # {}
    BY <1>1, <1>2, <1>5, <1>7 DEF Sound
  <2>2. LiveProjects(o)' # {}
    BY <1>3, <1>6, <2>1 DEF LiveProjects
  <2>3. Owners(o)' = Owners(o)
    BY <1>4 DEF Owners
  <2> QED
    BY <1>7, <2>2, <2>3 DEF Sole
<1>8. orgState[o] # "absent"
  BY <1>1, <1>2, <1>5 DEF Sound
<1>9. \A u \in Users : role'[u][o] # "none" => u \in registered'
  BY <1>4 DEF OwnedInv
<1> QED
  BY <1>1, <1>2, <1>4, <1>6, <1>7, <1>8, <1>9, WrittenOwned

(* A membership for u, who had none, that is not the owner's.              *)
LEMMA JoinOwned ==
  ASSUME OwnedInv, MembershipTypeOK, NEW h \in Handlers, handler[h] \in Handler,
         NEW u \in Users, NEW o \in Orgs, o = handler[h].org, role[u][o] = "none",
         NEW new, new # "owner", role' = [role EXCEPT ![u][o] = new],
         LiveProjects(o) # {}, u \in registered', registered \subseteq registered',
         NEW next \in Handler \cup {Idle}, Written(h, next),
         next # Idle => next.pc \in {"invalidate", "mark"} /\ next.org = o /\ next.op = handler[h].op
                        /\ next.about = handler[h].about,
         UNCHANGED <<orgState, projects, selfGiven>>
  PROVE  OwnedInv'
<1>1. \A v \in Users, p \in Orgs : role'[v][p] = IF v = u /\ p = o THEN new ELSE role[v][p]
  BY DEF MembershipTypeOK
<1>2. orgState[o] # "absent"
  BY DEF OwnedInv
<1>3. Sole(o) => Sole(o)'
  <2>1. Owners(o)' = Owners(o) /\ LiveProjects(o)' = LiveProjects(o)
    BY <1>1 DEF Owners, LiveProjects
  <2> QED
    BY <2>1 DEF Sole
<1>4. \A v \in Users : role'[v][o] # "none" => v \in registered'
  BY <1>1 DEF OwnedInv
<1> QED
  BY <1>1, <1>2, <1>3, <1>4, WrittenOwned

LEMMA AcceptOwned ==
  ASSUME OwnedInv, TypeInv, NEW h \in Handlers, AcceptForExistingUser(h)
  PROVE  OwnedInv'
<1>a. MembershipTypeOK
  BY DEF TypeInv
<1>1. handler[h] \in Handler /\ handler[h] # Idle /\ handler[h].pc = "write" /\ handler[h].op = "accept"
  BY <1>a, Running DEF AcceptForExistingUser
<1>2. PICK o \in Orgs, u \in Users : o = handler[h].org /\ u = handler[h].actor
  BY <1>1 DEF Handler
<1>3. CASE Check(h, FALSE, "write")
  BY <1>a, <1>1, <1>3, CheckOwned
<1>4. ASSUME NEW i \in handler[h].about, role[u][o] = "none", LiveProjects(o) # {},
             role' = [role EXCEPT ![u][o] = invitations[i].role], Written(h, Idle),
             UNCHANGED <<orgState, projects, registered, selfGiven>>
      PROVE  OwnedInv'
  <2>1. i \in Invitations /\ Made(i) /\ u \in registered
    BY <1>1, <1>2 DEF TypeInv, HandlersHold, Holds
  <2>2. invitations[i].role # "owner"
    BY <1>a, <2>1 DEF MembershipTypeOK, Made, Invitation, Grantable
  <2> QED
    BY <1>a, <1>1, <1>2, <1>4, <2>1, <2>2, JoinOwned
<1> QED
  BY <1>2, <1>3, <1>4 DEF AcceptForExistingUser

LEMMA CreateUserOwned ==
  ASSUME OwnedInv, TypeInv, NEW h \in Handlers, CreateUser(h)
  PROVE  OwnedInv'
<1>a. MembershipTypeOK
  BY DEF TypeInv
<1>1. handler[h] \in Handler /\ handler[h] # Idle /\ handler[h].pc = "write" /\ handler[h].op = "signup"
  BY <1>a, Running DEF CreateUser
<1>2. PICK o \in Orgs, u \in Users : o = handler[h].org /\ u = handler[h].actor
  BY <1>1 DEF Handler
<1>3. CASE Check(h, FALSE, "write")
  BY <1>a, <1>1, <1>3, CheckOwned
<1>4. ASSUME NEW i \in handler[h].about, u \notin registered, LiveProjects(o) # {},
             registered' = registered \cup {u},
             role' = [role EXCEPT ![u][o] = invitations[i].role],
             Written(h, [handler[h] EXCEPT !.pc = "mark"]),
             UNCHANGED <<orgState, projects, selfGiven>>
      PROVE  OwnedInv'
  <2>1. i \in Invitations /\ Made(i)
    BY <1>1 DEF TypeInv, HandlersHold, Holds
  <2>2. invitations[i].role # "owner"
    BY <1>a, <2>1 DEF MembershipTypeOK, Made, Invitation, Grantable
  <2>3. role[u][o] = "none"
    BY <1>4 DEF OwnedInv
  <2> DEFINE next == [handler[h] EXCEPT !.pc = "mark"]
  <2>4. /\ next \in Handler /\ next.pc = "mark" /\ next.org = o /\ next.op = handler[h].op
        /\ next.about = handler[h].about
    BY <1>1, <1>2 DEF Handler
  <2>5. u \in registered' /\ registered \subseteq registered'
    BY <1>4
  <2> HIDE DEF next
  <2>6. Written(h, next)
    BY <1>4 DEF next
  <2> QED
    BY <1>a, <1>1, <1>2, <1>4, <2>2, <2>3, <2>4, <2>5, <2>6, JoinOwned
<1> QED
  BY <1>2, <1>3, <1>4 DEF CreateUser

(* The steps that write neither a role nor a project's end.                *)
LEMMA OthersOwned ==
  ASSUME OwnedInv, MembershipTypeOK, NEW h \in Handlers,
         \/ SoftDeleteOrg(h) \/ CreateProject(h) \/ RevokeInvitation(h) \/ CreateInvitation(h)
         \/ MarkAccepted(h) \/ (\E u \in Users : Invalidate(h, u)) \/ HandlerDies(h)
  PROVE  OwnedInv'
<1>1. handler[h] \in Handler /\ handler[h] # Idle
  BY Running DEF SoftDeleteOrg, CreateProject, RevokeInvitation, CreateInvitation, MarkAccepted,
                 Invalidate, HandlerDies, MembershipTypeOK
<1>2. Sound(handler[h]) /\ Sound(Idle)
  BY DEF OwnedInv, Sound
<1>3. UNCHANGED <<role, registered, overlapped, selfGiven>>
  BY DEF SoftDeleteOrg, CreateProject, RevokeInvitation, CreateInvitation, MarkAccepted,
         Invalidate, HandlerDies, histories, tables
<1>4. \A g \in Handlers \ {h} : handler'[g] = handler[g]
  BY DEF SoftDeleteOrg, CreateProject, RevokeInvitation, CreateInvitation, MarkAccepted,
         Invalidate, HandlerDies, MembershipTypeOK
<1>5. CASE SoftDeleteOrg(h) \/ CreateProject(h)
  <2>1. handler'[h] = Idle
    BY <1>5 DEF SoftDeleteOrg, CreateProject, MembershipTypeOK
  <2>2. handler[h].org \in Orgs
    BY <1>1 DEF Handler
  <2>3. \A o \in Orgs : orgState'[o] = "absent" <=> orgState[o] = "absent"
    BY <1>5, <2>2 DEF SoftDeleteOrg, CreateProject, MembershipTypeOK
  <2>4. CASE SoftDeleteOrg(h)
    <3>1. \A o : LiveProjects(o)' = LiveProjects(o)
      BY <2>4 DEF SoftDeleteOrg, LiveProjects
    <3> QED
      BY <1>2, <1>3, <1>4, <2>1, <2>3, <3>1, OwnedSteps
  <2>5. CASE CreateProject(h)
    <3>1. PICK p \in Projects : projects' = [projects EXCEPT ![handler[h].org][p] = "live"]
      BY <2>5 DEF CreateProject
    <3>2. orgState[handler[h].org] # "absent"
      BY <1>1, <1>2, <2>5 DEF CreateProject, Sound
    <3>3. \A o \in Orgs : /\ LiveProjects(o) \subseteq LiveProjects(o)'
                          /\ LiveProjects(o)' # LiveProjects(o) => orgState[o] # "absent"
      BY <2>2, <3>1, <3>2 DEF LiveProjects, MembershipTypeOK
    <3>4. registered \subseteq registered'
      BY <1>3
    <3>5. UNCHANGED <<role, overlapped, selfGiven>>
      BY <1>3
    <3> QED
      BY <1>4, <2>1, <2>3, <3>3, <3>4, <3>5, OwnedSteps
  <2> QED
    BY <1>5, <2>4, <2>5
<1>6. CASE ~ (SoftDeleteOrg(h) \/ CreateProject(h))
  <2>1. UNCHANGED <<orgState, projects>>
    BY <1>6 DEF RevokeInvitation, CreateInvitation, MarkAccepted, Invalidate, HandlerDies, tables
  <2>2. \/ handler'[h] = Idle
        \/ handler'[h] = [handler[h] EXCEPT !.pc = "write"] /\ handler[h].op = "resend"
        \/ \E K : handler'[h] = [handler[h] EXCEPT !.keys = K]
    BY <1>6 DEF RevokeInvitation, CreateInvitation, MarkAccepted, Invalidate, HandlerDies,
                MembershipTypeOK
  <2>3. CASE handler'[h] = [handler[h] EXCEPT !.pc = "write"] /\ handler[h].op = "resend"
    <3>1. /\ handler'[h].pc = "write" /\ handler'[h].op = "resend"
          /\ handler'[h].org = handler[h].org
      BY <1>1, <2>3 DEF Handler
    <3>2. Sound(handler'[h])
      BY <1>1, <1>2, <2>3, <3>1 DEF Sound, Course
    <3> QED
      BY <1>3, <1>4, <2>1, <3>2, MovesOwned
  <2>4. CASE \E K : handler'[h] = [handler[h] EXCEPT !.keys = K]
    <3>1. /\ handler'[h].pc = handler[h].pc /\ handler'[h].op = handler[h].op
          /\ handler'[h].org = handler[h].org /\ handler'[h].target = handler[h].target
          /\ handler'[h].actor = handler[h].actor /\ handler'[h].about = handler[h].about
          /\ handler'[h].current = handler[h].current
      BY <1>1, <2>4 DEF Handler
    <3>2. Sound(handler'[h])
      BY <1>1, <1>2, <3>1 DEF Sound, Course
    <3> QED
      BY <1>3, <1>4, <2>1, <3>2, MovesOwned
  <2>5. CASE handler'[h] = Idle
    BY <1>2, <1>3, <1>4, <2>1, <2>5, MovesOwned
  <2> QED
    BY <2>2, <2>3, <2>4, <2>5
<1> QED
  BY <1>5, <1>6

LEMMA ProvisionOwned ==
  ASSUME OwnedInv, MembershipTypeOK, NEW u \in Users, NEW o \in Orgs, ProvisionOrg(u, o)
  PROVE  OwnedInv'
<1>1. PICK p \in Projects : projects' = [projects EXCEPT ![o][p] = "live"]
  BY FoundedAssumption DEF ProvisionOrg
<1>2. /\ orgState[o] = "absent" /\ \A x \in Users : role[x][o] = "none"
      /\ orgState' = [orgState EXCEPT ![o] = "live"]
      /\ role' = [role EXCEPT ![u][o] = "owner"]
      /\ registered' = registered \cup {u}
      /\ UNCHANGED <<overlapped, selfGiven, handler>>
  BY DEF ProvisionOrg, histories
<1>3. /\ \A v \in Users, q \in Orgs : role'[v][q] = IF v = u /\ q = o THEN "owner" ELSE role[v][q]
      /\ \A q \in Orgs : orgState'[q] = IF q = o THEN "live" ELSE orgState[q]
      /\ \A q \in Orgs \ {o} : projects'[q] = projects[q]
      /\ p \in LiveProjects(o)'
  BY <1>1, <1>2 DEF MembershipTypeOK, LiveProjects
<1>4. \A q : Firm(q)' = Firm(q)
  BY <1>2 DEF Firm
<1>5. ASSUME NEW q \in Orgs, q # o
      PROVE  Owners(q)' = Owners(q) /\ LiveProjects(q)' = LiveProjects(q)
  BY <1>3, <1>5 DEF Owners, LiveProjects
<1>6. ASSUME NEW q \in Orgs, orgState'[q] # "absent", Firm(q)' PROVE Sole(q)'
  <2>1. CASE q = o
    <3>1. Owners(o)' = {u}
      BY <1>2, <1>3 DEF Owners
    <3> QED
      BY <1>3, <2>1, <3>1 DEF Sole
  <2>2. CASE q # o
    BY <1>3, <1>4, <1>5, <1>6, <2>2 DEF OwnedInv, Sole
  <2> QED
    BY <2>1, <2>2
<1>7. ASSUME NEW h \in Handlers PROVE Sound(handler[h])'
  <2> SUFFICES ASSUME handler[h] # Idle PROVE Sound(handler[h])'
    BY <1>2 DEF Sound
  <2>1. /\ Sound(handler[h]) /\ handler[h].org \in Orgs /\ handler[h].target \in Users
        /\ handler[h].actor \in Users
    BY DEF OwnedInv, MembershipTypeOK, Handler
  <2>2. CASE handler[h].org = o
    <3>1. handler[h].op \in {"accept", "signup"}
      BY <1>2, <2>1, <2>2 DEF Sound
    <3> QED
      BY <1>2, <1>3, <2>1, <2>2, <3>1 DEF Sound, Course
  <2>3. CASE handler[h].org # o
    BY <1>2, <1>3, <1>4, <1>5, <2>1, <2>3 DEF Sound, Course
  <2> QED
    BY <2>2, <2>3
<1>8. \A q \in Orgs, v \in Users : role'[v][q] # "none" => v \in registered' /\ orgState'[q] # "absent"
  BY <1>2, <1>3 DEF OwnedInv
<1>9. \A q \in Orgs : LiveProjects(q)' # {} => orgState'[q] # "absent"
  BY <1>3, <1>5 DEF OwnedInv
<1> QED
  BY <1>6, <1>7, <1>8, <1>9 DEF OwnedInv

LEMMA OwnedInit == InitMembership => OwnedInv
<1> SUFFICES ASSUME InitMembership PROVE OwnedInv
  OBVIOUS
<1>1. ASSUME NEW o \in Orgs, NEW u \in Users, role[u][o] # "none"
      PROVE  u \in registered /\ orgState[o] # "absent"
  BY <1>1 DEF InitMembership, Founded
<1>2. ASSUME NEW o \in Orgs, orgState[o] # "absent" PROVE Sole(o)
  <2>1. o \in Founded
    BY <1>2 DEF InitMembership
  <2>2. \E u \in Users : Owners(o) = {u}
    BY <2>1, FoundedAssumption DEF InitMembership, Owners
  <2>3. LiveProjects(o) # {}
    BY <2>1, FoundedAssumption DEF InitMembership, LiveProjects
  <2> QED
    BY <2>2, <2>3 DEF Sole
<1>3. \A o \in Orgs : LiveProjects(o) # {} => orgState[o] # "absent"
  BY DEF InitMembership, LiveProjects
<1>4. \A h \in Handlers : Sound(handler[h])
  BY DEF InitMembership, Sound
<1> QED
  BY <1>1, <1>2, <1>3, <1>4 DEF OwnedInv

LEMMA OwnedStep == TypeInv /\ OwnedInv /\ [NextMembership]_vars => OwnedInv'
<1> SUFFICES ASSUME TypeInv, OwnedInv, [NextMembership]_vars PROVE OwnedInv'
  OBVIOUS
<1>a. MembershipTypeOK
  BY DEF TypeInv
<1>q. ASSUME UNCHANGED <<role, orgState, projects, handler, overlapped, selfGiven>>,
             registered \subseteq registered'
      PROVE  OwnedInv'
  <2>1. \A o \in Orgs : LiveProjects(o)' = LiveProjects(o)
    BY <1>q DEF LiveProjects
  <2>2. \A h \in Handlers : handler[h] # Idle => handler[h].org \in Orgs
    BY <1>a DEF MembershipTypeOK, Handler
  <2> QED
    BY <1>q, <2>1, <2>2, QuietOwned
<1>1. ASSUME NEW h \in Handlers, Endpoint(h) PROVE OwnedInv'
  BY <1>a, <1>1, EndpointOwned
<1>2. ASSUME NEW h \in Handlers, HandlerStep(h) PROVE OwnedInv'
  <2>1. CASE \/ ReadTarget(h) \/ CountOwners(h) \/ CountActiveOrgs(h) \/ CountActiveProjects(h)
             \/ CountPending(h) \/ ListMembers(h) \/ FindPending(h)
    BY <1>a, <2>1, ReadsOwned
  <2>2. CASE WriteRole(h) \/ TransferOwnership(h) \/ SoftDeleteProject(h)
    BY <1>a, <2>2, WriteRoleOwned, TransferOwned, DeleteProjectOwned
  <2>3. CASE AcceptForExistingUser(h) \/ CreateUser(h)
    BY <2>3, AcceptOwned, CreateUserOwned
  <2>4. CASE \/ SoftDeleteOrg(h) \/ CreateProject(h) \/ RevokeInvitation(h) \/ CreateInvitation(h)
             \/ MarkAccepted(h) \/ (\E u \in Users : Invalidate(h, u)) \/ HandlerDies(h)
    BY <1>a, <2>4, OthersOwned
  <2> QED
    BY <1>2, <2>1, <2>2, <2>3, <2>4 DEF HandlerStep
<1>3. ASSUME NEW r \in Requests, TokenCheck(r) PROVE OwnedInv'
  <2>1. UNCHANGED <<tables, histories, handler>>
    BY <1>3 DEF TokenCheck, CacheMiss, GetRole, CacheSet
  <2> QED
    BY <1>q, <2>1 DEF tables, histories
<1>4. ASSUME NEW u \in Users, NEW o \in Orgs, ProvisionOrg(u, o) PROVE OwnedInv'
  BY <1>a, <1>4, ProvisionOwned
<1>5. ASSUME NEW u \in Users, NEW o \in Orgs, ExpireKey(u, o) PROVE OwnedInv'
  BY <1>q, <1>5 DEF ExpireKey, tables, histories
<1>6. ASSUME NEW u \in Users, VerifyEmail(u) PROVE OwnedInv'
  BY <1>q, <1>6 DEF VerifyEmail, histories
<1>7. CASE UNCHANGED vars
  BY <1>q, <1>7 DEF vars, tables, histories
<1> QED
  BY <1>1, <1>2, <1>3, <1>4, <1>5, <1>6, <1>7 DEF NextMembership

---------------------------------------------------------------------------
(* Every variable keeps its type, and a handler has keys to delete only    *)
(* once it has written.                                                    *)
THEOREM MembershipTypeCorrect == MembershipSpec => []TypeInv
<1>1. Inv => TypeInv
  BY DEF Inv
<1> QED
  BY <1>1, MembershipInit, MembershipStep, PTL DEF MembershipSpec

(* membership_cache.py: the cache disagrees with the memberships only      *)
(* until the handler that changed them deletes the key, or where a fill    *)
(* raced it, a call of Redis failed, the handler died, or a membership     *)
(* began.                                                                  *)
THEOREM CacheFollowsRolesAlways == MembershipSpec => []CacheFollowsRoles
<1>1. Inv => CacheFollowsRoles
  BY DEF Inv
<1> QED
  BY <1>1, MembershipInit, MembershipStep, PTL DEF MembershipSpec

(* db/invitations.py: an invitation gives one membership, unless a signup  *)
(* committed its user and has not marked it, or never will.                *)
THEOREM InvitationUsedOnceAlways == MembershipSpec => []InvitationUsedOnce
<1>1. Inv => InvitationUsedOnce
  <2> SUFFICES ASSUME Inv, NEW i \in Invitations, Made(i), i \notin unmarked
               PROVE  invitations[i].used <= 1
    BY DEF InvitationUsedOnce
  <2>1. invitations[i].used \in Nat
    BY DEF Inv, TypeInv, MembershipTypeOK, Made, Invitation
  <2> QED
    BY <2>1 DEF Inv, Uses
<1> QED
  BY <1>1, MembershipInit, MembershipStep, PTL DEF MembershipSpec

(* main.py, permissions.py: the counts before a write suffice one handler  *)
(* at a time: an organization whose handlers never overlapped, and that was*)
(* not given by its owner to himself, has one owner and a live project.    *)
THEOREM OwnerAndProjectAlways == MembershipSpec => []OwnerAndProject
<1>1. OwnedInv => OwnerAndProject
  BY SoleCounts DEF OwnedInv, OwnerAndProject, Firm
<1> QED
  BY <1>1, OwnedInit, OwnedStep, MembershipTypeCorrect, PTL DEF MembershipSpec
===========================================================================
