------------------------------ MODULE Membership ------------------------------
(***************************************************************************)
(* Organizations, their members, projects and invitations (db/orgs.py,     *)
(* db/invitations.py, permissions.py and their endpoints in main.py), and  *)
(* the cache of roles that every authenticated request consults            *)
(* (membership_cache.py).                                                  *)
(*                                                                         *)
(* An endpoint is a sequence of short transactions: a permission, some     *)
(* reads that check the request, a write, then the invalidation of cache   *)
(* keys.  Each is an action; other handlers and requests act in between.   *)
(* A handler whose first check fails changes nothing and is no step.       *)
(*                                                                         *)
(* Abstractions.  A user is an email address.  The token check that opens  *)
(* every request is a process of its own (Requests), so that a handler's   *)
(* caller need not pass it here; what a handler may do is decided by its   *)
(* own permission check.  Names, plans, audit events, alerts and emails    *)
(* about a change, rate limits and an org's environment are left out.  An  *)
(* invitation may be found expired by any read of it (a load that finds it *)
(* so changes nothing and is no step).                                     *)
(*                                                                         *)
(* Faulty variants of some definitions stand before them; no action uses   *)
(* one, they serve to confirm that the properties notice such a fault.     *)
(***************************************************************************)
EXTENDS Integers, FiniteSets

CONSTANTS
  Users,            \* people, each with one email address
  Orgs,             \* organizations, founded or yet to be
  Handlers,         \* concurrent executions of a mutating endpoint
  Requests,         \* concurrent token checks
  Invitations,      \* rows of invitations
  FirstRoles,       \* memberships at the start, by user and organization
  FirstInvitations, \* invitations at the start
  Projects,         \* projects an organization may have
  MaxPending,       \* settings.max_pending_invitations_per_org
  RowSecurity,      \* whether the API's database role is bound by row-level security
  GivenRoles,       \* the roles that calls of the instance give
  MaxCalls,         \* bound: handlers and token checks started
  MaxFaults         \* bound: calls of Redis that fail, and handlers that die before they end

ROLE_RANK == [viewer |-> 10, member |-> 20, admin |-> 30, owner |-> 40]
Roles     == DOMAIN ROLE_RANK
Rank(r)   == IF r \in Roles THEN ROLE_RANK[r] ELSE -1

(* The roles an invitation or a change of role may give.                   *)
Grantable == {"viewer", "member", "admin"}

MIN_ROLE_FOR ==
  [change_role |-> "admin", remove_member |-> "admin", transfer |-> "owner",
   invite |-> "admin", resend |-> "admin", revoke |-> "admin",
   create_project |-> "admin", delete_project |-> "owner", delete_org |-> "owner"]

REQUIRES_VERIFIED_EMAIL == {"invite", "resend", "revoke"}

(* used counts, as a history, the memberships an invitation gave.          *)
NoInvitation == [status |-> "none"]
Invitation == [status : {"open"}, org : Orgs, email : Users, role : Grantable,
               accepted : BOOLEAN, revoked : BOOLEAN, used : Nat]
NewInvitation(o, u, r) ==
  [status |-> "open", org |-> o, email |-> u, role |-> r,
   accepted |-> FALSE, revoked |-> FALSE, used |-> 0]

ASSUME MembershipAssumption ==
  /\ FirstRoles \in [Users -> [Orgs -> Roles \cup {"none"}]]
  /\ FirstInvitations \in [Invitations -> Invitation \cup {NoInvitation}]
  /\ \A i \in Invitations : FirstInvitations[i] # NoInvitation => FirstInvitations[i].used = 0
  /\ GivenRoles \subseteq Grantable /\ RowSecurity \in BOOLEAN
  /\ {MaxPending, MaxCalls, MaxFaults} \subseteq Nat

VARIABLES
  role,        \* memberships: the role of a user in an organization, or "none"
  orgState,    \* organizations: absent, live or soft-deleted
  projects,    \* projects of each organization: absent, live or soft-deleted
  registered,  \* users with an account
  verified,    \* users.email_verified
  invitations, \* invitations
  cache,       \* Redis: what it answers for a user and an organization
  issued,      \* user and organization of the tokens handed out
  handler,     \* locals of each running endpoint
  request,     \* locals of each token check
  calls,       \* handlers and token checks started
  faults,      \* calls of Redis that failed and handlers that died
  unmarked,    \* history: invitations that gave a membership and are not marked accepted for it
  overlapped,  \* history: organizations where a handler wrote after another had changed what it read
  selfGiven,   \* history: organizations whose owner transferred them to himself
  excused      \* history: entries of the cache that a race, a fault or a join left stale

tables == <<role, orgState, projects, registered, verified, invitations, issued>>
redis  == <<cache, excused>>
histories == <<overlapped, selfGiven, unmarked>>
counts == <<calls, faults>>
vars == <<tables, redis, histories, handler, request, counts>>

Idle == [pc |-> "idle"]

(* A handler: its arguments, the role its permission check read, the cache *)
(* keys it has still to delete, and whether nobody has written to the      *)
(* organization since it started.                                          *)
Handler == [pc : {"target", "owners", "orgs", "projects", "pending", "members",
                  "replace", "write", "mark", "invalidate"},
            op : DOMAIN MIN_ROLE_FOR \cup {"leave", "accept", "signup"},
            actor : Users, org : Orgs, target : Users, newRole : Grantable,
            about : SUBSET (Invitations \cup Projects), seen : Roles \cup {"none"},
            keys : SUBSET Users, current : BOOLEAN]
Request == [pc : {"missed", "fill"}, user : Users, org : Orgs, seen : Roles \cup {"none"}]

Presence == {"absent", "live", "deleted"}

MembershipTypeOK ==
  /\ role \in [Users -> [Orgs -> Roles \cup {"none"}]]
  /\ orgState \in [Orgs -> Presence]
  /\ projects \in [Orgs -> [Projects -> Presence]]
  /\ registered \subseteq Users /\ verified \subseteq registered
  /\ invitations \in [Invitations -> Invitation \cup {NoInvitation}]
  /\ cache \in [Users -> [Orgs -> Roles \cup {"none", "miss"}]]
  /\ issued \subseteq Users \X Orgs
  /\ handler \in [Handlers -> Handler \cup {Idle}]
  /\ request \in [Requests -> Request \cup {Idle}]
  /\ calls \in 0 .. MaxCalls /\ faults \in 0 .. MaxFaults
  /\ overlapped \subseteq Orgs /\ selfGiven \subseteq Orgs /\ unmarked \subseteq Invitations
  /\ excused \subseteq Users \X Orgs

Founded == {o \in Orgs : \E u \in Users : FirstRoles[u][o] # "none"}

(* What exists at the start was made by provision_personal_org.            *)
ASSUME FoundedAssumption ==
  /\ \A o \in Founded : \E u \in Users : {v \in Users : FirstRoles[v][o] = "owner"} = {u}
  /\ Projects # {}

InitMembership ==
  /\ role = FirstRoles
  /\ orgState = [o \in Orgs |-> IF o \in Founded THEN "live" ELSE "absent"]
  /\ projects = [o \in Orgs |-> [p \in Projects |-> IF o \in Founded THEN "live" ELSE "absent"]]
  /\ registered = {u \in Users : \E o \in Orgs : FirstRoles[u][o] # "none"}
  /\ verified = registered
  /\ invitations = FirstInvitations
  /\ cache = [u \in Users |-> [o \in Orgs |-> "miss"]]
  /\ issued = {k \in Users \X Orgs : FirstRoles[k[1]][k[2]] # "none"}
  /\ handler = [h \in Handlers |-> Idle]
  /\ request = [r \in Requests |-> Idle]
  /\ calls = 0 /\ faults = 0
  /\ overlapped = {} /\ selfGiven = {} /\ unmarked = {} /\ excused = {}

---------------------------------------------------------------------------
(* Reads.                                                                  *)

Permitted(u, o, op) ==
  /\ Rank(role[u][o]) >= Rank(MIN_ROLE_FOR[op])
  /\ op \in REQUIRES_VERIFIED_EMAIL => u \in verified

Owners(o)       == {u \in Users : role[u][o] = "owner"}
LiveProjects(o) == {p \in Projects : projects[o][p] = "live"}
LiveOrgsOf(u)   == {o \in Orgs : role[u][o] # "none" /\ orgState[o] = "live"}

Made(i)     == invitations[i] # NoInvitation
Unused(i)   == Made(i) /\ ~invitations[i].accepted /\ ~invitations[i].revoked
Open(o)     == {i \in Invitations : Unused(i) /\ invitations[i].org = o}

rank_allows_target_modification(actor, target, requested) ==
  Rank(target) < Rank(actor) /\ Rank(requested) < Rank(actor)

---------------------------------------------------------------------------
(* Steps of a handler.                                                     *)

Call(op, u, o, t, about, pc) ==
  [pc |-> pc, op |-> op, actor |-> u, org |-> o, target |-> t, newRole |-> "viewer",
   about |-> about, seen |-> role[u][o], keys |-> {}, current |-> TRUE]

Begin(h, call) ==
  /\ handler[h] = Idle /\ calls < MaxCalls
  /\ calls' = calls + 1
  /\ handler' = [handler EXCEPT ![h] = call]
  /\ UNCHANGED <<tables, redis, histories, request, faults>>

(* A read that lets the handler go on, or ends it with an error.           *)
Check(h, ok, next) ==
  /\ handler' = [handler EXCEPT ![h] = IF ok THEN [@ EXCEPT !.pc = next] ELSE Idle]
  /\ UNCHANGED <<tables, redis, histories, request, counts>>

(* A write to the organization h is about: whoever else is at work on it   *)
(* has read what is no longer so.                                          *)
Written(h, next) ==
  LET o == handler[h].org IN
  /\ handler' = [g \in Handlers |->
       IF g = h THEN next
       ELSE IF handler[g] # Idle /\ handler[g].org = o
            THEN [handler[g] EXCEPT !.current = FALSE] ELSE handler[g]]
  /\ overlapped' = IF handler[h].current THEN overlapped ELSE overlapped \cup {o}
  /\ UNCHANGED <<counts, cache, request>>

Invalidating(h, users) == [handler[h] EXCEPT !.pc = "invalidate", !.keys = users]

---------------------------------------------------------------------------
(* Members: change_role_endpoint, remove_member_endpoint,                  *)
(* leave_org_endpoint, transfer_ownership_endpoint.                        *)

BeginChangeRole(h, u, o, t, r) ==
  /\ Permitted(u, o, "change_role") /\ t # u
  /\ Begin(h, [Call("change_role", u, o, t, {}, "target") EXCEPT !.newRole = r])

BeginRemoveMember(h, u, o, t) ==
  /\ Permitted(u, o, "remove_member")
  /\ Begin(h, Call("remove_member", u, o, t, {}, "target"))

BeginLeaveOrg(h, u, o) ==
  /\ role[u][o] # "none"
  /\ Begin(h, Call("leave", u, o, u, {}, IF role[u][o] = "owner" THEN "owners" ELSE "write"))

BeginTransfer(h, u, o, t) ==
  /\ Permitted(u, o, "transfer")
  /\ Begin(h, Call("transfer", u, o, t, {}, "write"))

(* get_membership of the target, and the comparison of ranks.              *)
ReadTarget(h) ==
  LET me == handler[h]
      its == role[me.target][me.org]
      allowed == IF me.op = "change_role"
                 THEN rank_allows_target_modification(me.seen, its, me.newRole)
                 ELSE Rank(its) < Rank(me.seen)
  IN /\ me.pc = "target"
     /\ Check(h, its # "none" /\ allowed, IF its = "owner" THEN "owners" ELSE "write")

(* count_owners, for a target that is one.  The variant lets the last go.  *)
UncountedOwners(h) ==
  /\ handler[h].pc = "owners"
  /\ Check(h, TRUE, "write")
CountOwners(h) ==
  /\ handler[h].pc = "owners"
  /\ Check(h, Cardinality(Owners(handler[h].org)) > 1, "write")

(* orgs.change_role and orgs.remove_member: the row may be gone by now.    *)
WriteRole(h) ==
  LET me == handler[h]
      new == IF me.op = "change_role" /\ role[me.target][me.org] # "none" THEN me.newRole ELSE "none"
  IN /\ me.pc = "write" /\ me.op \in {"change_role", "remove_member", "leave"}
     /\ role' = [role EXCEPT ![me.target][me.org] = new]
     /\ Written(h, Invalidating(h, {me.target}))
     /\ UNCHANGED <<orgState, projects, registered, verified, invitations, issued,
                    excused, selfGiven, unmarked>>

(* transfer_ownership: one object, twice assigned, when the owner names    *)
(* himself.  The variant forgets the cache entry of the new owner.         *)
ActorOnly(me) == {me.actor}
TransferKeys(me) == {me.actor, me.target}

TransferOwnership(h) ==
  LET me == handler[h] o == me.org
      found == role[me.target][o] # "none" /\ role[me.actor][o] # "none"
  IN /\ me.pc = "write" /\ me.op = "transfer"
     /\ \/ /\ ~found /\ Check(h, FALSE, "write")
        \/ /\ found
           /\ role' = [role EXCEPT ![me.target][o] = "owner", ![me.actor][o] = "admin"]
           /\ selfGiven' = IF me.actor = me.target THEN selfGiven \cup {o} ELSE selfGiven
           /\ Written(h, Invalidating(h, TransferKeys(me)))
           /\ UNCHANGED <<orgState, projects, registered, verified, invitations, issued,
                          excused, unmarked>>

---------------------------------------------------------------------------
(* Organizations and projects: create_org_endpoint, delete_org_endpoint,   *)
(* create_project_endpoint, delete_project_endpoint.                       *)

(* A membership where there was none: nobody deletes its cache key.        *)
Joined(u, o) == IF cache[u][o] = "miss" THEN excused ELSE excused \cup {<<u, o>>}

(* provision_personal_org, for create_org and for a signup of one's own.   *)
ProvisionOrg(u, o) ==
  LET first == CHOOSE p \in Projects : TRUE IN
  /\ orgState[o] = "absent" /\ \A x \in Users : role[x][o] = "none"
  /\ orgState' = [orgState EXCEPT ![o] = "live"]
  /\ projects' = [projects EXCEPT ![o][first] = "live"]
  /\ role' = [role EXCEPT ![u][o] = "owner"]
  /\ registered' = registered \cup {u}
  /\ issued' = issued \cup {<<u, o>>}
  /\ excused' = Joined(u, o)
  /\ calls < MaxCalls /\ calls' = calls + 1
  /\ UNCHANGED <<verified, invitations, cache, histories, handler, request, faults>>

BeginDeleteOrg(h, u, o) ==
  /\ Permitted(u, o, "delete_org")
  /\ Begin(h, Call("delete_org", u, o, u, {}, "orgs"))

CountActiveOrgs(h) ==
  /\ handler[h].pc = "orgs"
  /\ Check(h, Cardinality(LiveOrgsOf(handler[h].actor)) > 1, "write")

(* soft_delete_org: the memberships and their cache keys stay.             *)
SoftDeleteOrg(h) ==
  LET me == handler[h] IN
  /\ me.pc = "write" /\ me.op = "delete_org"
  /\ orgState' = [orgState EXCEPT ![me.org] = IF @ = "live" THEN "deleted" ELSE @]
  /\ handler' = [handler EXCEPT ![h] = Idle]
  /\ UNCHANGED <<role, projects, registered, verified, invitations, issued, redis, histories,
                 request, counts>>

BeginCreateProject(h, u, o) ==
  /\ Permitted(u, o, "create_project")
  /\ Begin(h, Call("create_project", u, o, u, {}, "write"))

CreateProject(h) ==
  LET me == handler[h] IN
  /\ me.pc = "write" /\ me.op = "create_project"
  /\ \E p \in Projects : /\ projects[me.org][p] = "absent"
                         /\ projects' = [projects EXCEPT ![me.org][p] = "live"]
  /\ handler' = [handler EXCEPT ![h] = Idle]
  /\ UNCHANGED <<role, orgState, registered, verified, invitations, issued, redis, histories,
                 request, counts>>

BeginDeleteProject(h, u, o, p) ==
  /\ p \in LiveProjects(o)
  /\ Permitted(u, o, "delete_project")
  /\ Begin(h, Call("delete_project", u, o, u, {p}, "projects"))

CountActiveProjects(h) ==
  /\ handler[h].pc = "projects"
  /\ Check(h, Cardinality(LiveProjects(handler[h].org)) > 1, "write")

SoftDeleteProject(h) ==
  LET me == handler[h] IN
  /\ me.pc = "write" /\ me.op = "delete_project"
  /\ \E p \in me.about : projects' = [projects EXCEPT ![me.org][p] = "deleted"]
  /\ Written(h, Idle)
  /\ UNCHANGED <<role, orgState, registered, verified, invitations, issued, excused, selfGiven, unmarked>>

---------------------------------------------------------------------------
(* Invitations: create_invitation_endpoint, resend_invitation_endpoint,    *)
(* revoke_invitation_endpoint, accept_invitation_endpoint, and signup with *)
(* an invitation.                                                          *)

BeginInvite(h, u, o, t, r) ==
  /\ Permitted(u, o, "invite")
  /\ Begin(h, [Call("invite", u, o, t, {}, "pending") EXCEPT !.newRole = r])

(* count_pending, then list_members: two reads, before the insert.  Open   *)
(* invitations that have expired are not counted.                          *)
CountPending(h) ==
  /\ handler[h].pc = "pending" /\ handler[h].op = "invite"
  /\ \E expired \in SUBSET Open(handler[h].org) :
       Check(h, Cardinality(Open(handler[h].org) \ expired) < MaxPending, "members")

ListMembers(h) ==
  /\ handler[h].pc = "members"
  /\ Check(h, role[handler[h].target][handler[h].org] = "none", "write")

BeginResend(h, u, o, i) ==
  /\ Permitted(u, o, "resend")
  /\ Made(i) /\ invitations[i].org = o
  /\ Begin(h, [Call("resend", u, o, invitations[i].email, {i}, "pending")
               EXCEPT !.newRole = invitations[i].role])

(* list_invitations of status pending, and the search for this one in it.  *)
(* It may have expired.                                                    *)
FindPending(h) ==
  /\ handler[h].pc = "pending" /\ handler[h].op = "resend"
  /\ \E expired \in BOOLEAN :
       Check(h, handler[h].about \subseteq Open(handler[h].org) /\ ~expired, "replace")

BeginRevoke(h, u, o, i) ==
  /\ Permitted(u, o, "revoke")
  /\ Made(i) /\ invitations[i].org = o
  /\ Begin(h, Call("revoke", u, o, u, {i}, "replace"))

(* revoke_invitation: nothing if it has been accepted or revoked since; a  *)
(* resend goes on all the same.                                            *)
RevokeInvitation(h) ==
  LET me == handler[h] IN
  /\ me.pc = "replace"
  /\ invitations' = [i \in Invitations |->
       IF i \in me.about /\ Unused(i) THEN [invitations[i] EXCEPT !.revoked = TRUE] ELSE invitations[i]]
  /\ handler' = [handler EXCEPT ![h] = IF me.op = "resend" THEN [me EXCEPT !.pc = "write"] ELSE Idle]
  /\ UNCHANGED <<role, orgState, projects, registered, verified, issued, redis, histories,
                 request, counts>>

(* create_invitation, under the partial unique index on open invitations.  *)
CreateInvitation(h) ==
  LET me == handler[h]
      conflict == \E i \in Invitations : Unused(i) /\ invitations[i].org = me.org
                                                   /\ invitations[i].email = me.target
  IN /\ me.pc = "write" /\ me.op \in {"invite", "resend"}
     /\ invitations' \in
          IF conflict THEN {invitations}
          ELSE {[invitations EXCEPT ![i] = NewInvitation(me.org, me.target, me.newRole)] :
                  i \in {j \in Invitations : ~Made(j)}}
     /\ handler' = [handler EXCEPT ![h] = Idle]
     /\ UNCHANGED <<role, orgState, projects, registered, verified, issued, redis, histories,
                    request, counts>>

(* The transaction of accept_for_existing_user: _load_valid and the member-*)
(* ship are read, then the row is inserted and the invitation updated, if  *)
(* nobody has accepted it; a revocation in between goes unnoticed.         *)
BeginAccept(h, u, i) ==
  /\ u \in registered /\ Unused(i) /\ invitations[i].email = u
  /\ role[u][invitations[i].org] = "none"
  /\ Begin(h, Call("accept", u, invitations[i].org, u, {i}, "write"))

(* An invitation used, and marked.  The variant leaves it open.            *)
UsedKeptOpen(inv) == [inv EXCEPT !.used = @ + 1]
UsedAndAccepted(inv) == [inv EXCEPT !.used = @ + 1, !.accepted = TRUE]

AcceptForExistingUser(h) ==
  LET me == handler[h] o == me.org u == me.actor IN
  /\ me.pc = "write" /\ me.op = "accept"
  /\ \E i \in me.about :
       LET ok == role[u][o] = "none" /\ LiveProjects(o) # {} /\ ~invitations[i].accepted IN
       \/ ~ok /\ Check(h, FALSE, "write")
       \/ /\ ok
          /\ role' = [role EXCEPT ![u][o] = invitations[i].role]
          /\ invitations' = [invitations EXCEPT ![i] = UsedAndAccepted(@)]
          /\ issued' = issued \cup {<<u, o>>}
          /\ excused' = Joined(u, o)
          /\ Written(h, Idle)
          /\ UNCHANGED <<orgState, projects, registered, verified, selfGiven, unmarked>>

(* validate_for_signup.                                                    *)
BeginSignup(h, u, i) ==
  /\ Unused(i) /\ invitations[i].email = u
  /\ Begin(h, Call("signup", u, invitations[i].org, u, {i}, "write"))

(* create_user: the account and its membership, or nothing.                *)
CreateUser(h) ==
  LET me == handler[h] o == me.org u == me.actor IN
  /\ me.pc = "write" /\ me.op = "signup"
  /\ \E i \in me.about :
       \/ /\ u \in registered \/ LiveProjects(o) = {}
          /\ Check(h, FALSE, "write")
       \/ /\ u \notin registered /\ LiveProjects(o) # {}
          /\ registered' = registered \cup {u} /\ verified' = verified \cup {u}
          /\ role' = [role EXCEPT ![u][o] = invitations[i].role]
          /\ invitations' = [invitations EXCEPT ![i].used = @ + 1]
          /\ unmarked' = unmarked \cup {i}
          /\ issued' = issued \cup {<<u, o>>}
          /\ excused' = Joined(u, o)
          /\ Written(h, [me EXCEPT !.pc = "mark"])
          /\ UNCHANGED <<orgState, projects, selfGiven>>

(* mark_accepted, in a transaction of its own, that names no organization: *)
(* row-level security hides the row from it.                               *)
MarkAccepted(h) ==
  LET me == handler[h]
      marked == {i \in me.about : ~invitations[i].accepted /\ ~RowSecurity}
  IN /\ me.pc = "mark"
     /\ invitations' = [i \in Invitations |->
          IF i \in marked THEN [invitations[i] EXCEPT !.accepted = TRUE] ELSE invitations[i]]
     /\ unmarked' = unmarked \ marked
     /\ handler' = [handler EXCEPT ![h] = Idle]
     /\ UNCHANGED <<role, orgState, projects, registered, verified, issued, redis,
                    overlapped, selfGiven, request, counts>>

(* verify_email, with the token of a user.                                 *)
VerifyEmail(u) ==
  /\ u \in registered \ verified /\ verified' = verified \cup {u}
  /\ UNCHANGED <<role, orgState, projects, registered, invitations, issued, redis, histories,
                 handler, request, counts>>

---------------------------------------------------------------------------
(* The cache.                                                              *)

(* invalidate, for one key; a failing DELETE is swallowed.                 *)
Invalidate(h, u) ==
  LET me == handler[h] o == me.org rest == me.keys \ {u} IN
  /\ me.pc = "invalidate" /\ u \in me.keys
  /\ handler' = [handler EXCEPT ![h] = IF rest = {} THEN Idle ELSE [me EXCEPT !.keys = rest]]
  /\ \/ /\ cache' = [cache EXCEPT ![u][o] = "miss"]
        /\ excused' = excused \ {<<u, o>>}
        /\ UNCHANGED faults
     \/ /\ faults < MaxFaults /\ faults' = faults + 1
        /\ excused' = excused \cup {<<u, o>>}
        /\ UNCHANGED cache
  /\ UNCHANGED <<tables, histories, request, calls>>

(* The process of a handler dies, or its client's connection does: what it *)
(* has committed stays.                                                    *)
HandlerDies(h) ==
  /\ handler[h] # Idle /\ faults < MaxFaults /\ faults' = faults + 1
  /\ excused' = excused \cup {<<u, handler[h].org>> : u \in handler[h].keys}
  /\ handler' = [handler EXCEPT ![h] = Idle]
  /\ UNCHANGED <<tables, cache, histories, request, calls>>

(* get_role_cached, its three calls: a hit answers the request and changes *)
(* nothing.                                                                *)
CacheMiss(r, u, o) ==
  /\ request[r] = Idle /\ <<u, o>> \in issued
  /\ calls < MaxCalls /\ calls' = calls + 1
  /\ \/ cache[u][o] = "miss" /\ UNCHANGED faults
     \/ faults < MaxFaults /\ faults' = faults + 1
  /\ request' = [request EXCEPT ![r] = [pc |-> "missed", user |-> u, org |-> o, seen |-> "none"]]
  /\ UNCHANGED <<tables, redis, histories, handler>>

GetRole(r) ==
  LET q == request[r] IN
  /\ q.pc = "missed"
  /\ request' = [request EXCEPT ![r] = [q EXCEPT !.pc = "fill", !.seen = role[q.user][q.org]]]
  /\ UNCHANGED <<tables, redis, histories, handler, counts>>

CacheSet(r) ==
  LET q == request[r] u == q.user o == q.org IN
  /\ q.pc = "fill"
  /\ request' = [request EXCEPT ![r] = Idle]
  /\ \/ /\ cache' = [cache EXCEPT ![u][o] = q.seen]
        /\ excused' = IF q.seen = role[u][o] THEN excused ELSE excused \cup {<<u, o>>}
        /\ UNCHANGED faults
     \/ /\ faults < MaxFaults /\ faults' = faults + 1
        /\ UNCHANGED <<cache, excused>>
  /\ UNCHANGED <<tables, histories, handler, calls>>

ExpireKey(u, o) ==
  /\ cache[u][o] # "miss"
  /\ cache' = [cache EXCEPT ![u][o] = "miss"]
  /\ excused' = excused \ {<<u, o>>}
  /\ UNCHANGED <<tables, histories, handler, request, counts>>

---------------------------------------------------------------------------
Endpoint(h) ==
  \/ \E u, t \in Users, o \in Orgs :
       \/ \E r \in GivenRoles : BeginChangeRole(h, u, o, t, r) \/ BeginInvite(h, u, o, t, r)
       \/ BeginRemoveMember(h, u, o, t) \/ BeginTransfer(h, u, o, t)
  \/ \E u \in Users, o \in Orgs :
       \/ BeginLeaveOrg(h, u, o) \/ BeginDeleteOrg(h, u, o) \/ BeginCreateProject(h, u, o)
       \/ \E p \in Projects : BeginDeleteProject(h, u, o, p)
       \/ \E i \in Invitations : BeginResend(h, u, o, i) \/ BeginRevoke(h, u, o, i)
  \/ \E u \in Users, i \in Invitations : BeginAccept(h, u, i) \/ BeginSignup(h, u, i)

HandlerStep(h) ==
  \/ ReadTarget(h) \/ CountOwners(h) \/ WriteRole(h) \/ TransferOwnership(h)
  \/ CountActiveOrgs(h) \/ SoftDeleteOrg(h) \/ CreateProject(h)
  \/ CountActiveProjects(h) \/ SoftDeleteProject(h)
  \/ CountPending(h) \/ ListMembers(h) \/ FindPending(h) \/ RevokeInvitation(h) \/ CreateInvitation(h)
  \/ AcceptForExistingUser(h) \/ CreateUser(h) \/ MarkAccepted(h)
  \/ \E u \in Users : Invalidate(h, u)
  \/ HandlerDies(h)

TokenCheck(r) ==
  \/ \E u \in Users, o \in Orgs : CacheMiss(r, u, o)
  \/ GetRole(r) \/ CacheSet(r)

NextMembership ==
  \/ \E h \in Handlers : Endpoint(h) \/ HandlerStep(h)
  \/ \E r \in Requests : TokenCheck(r)
  \/ \E u \in Users, o \in Orgs : ProvisionOrg(u, o) \/ ExpireKey(u, o)
  \/ \E u \in Users : VerifyEmail(u)

MembershipSpec == InitMembership /\ [][NextMembership]_vars

---------------------------------------------------------------------------
(* Properties.                                                             *)

(* An organization whose handlers never overlapped, and that was not given *)
(* by its owner to himself, has exactly one owner and a live project: the  *)
(* counts before a write suffice one handler at a time.                    *)
OwnerAndProject ==
  \A o \in Orgs : orgState[o] # "absent" /\ o \notin overlapped \cup selfGiven =>
    Cardinality(Owners(o)) = 1 /\ LiveProjects(o) # {}

InvalidationPending(u, o) ==
  \E h \in Handlers : handler[h] # Idle /\ handler[h].org = o /\ u \in handler[h].keys

(* The cache disagrees with the memberships only until the handler that    *)
(* changed them deletes the key, or where a fill raced it, a call of Redis *)
(* failed, the handler died, or a membership began.                        *)
CacheFollowsRoles ==
  \A u \in Users, o \in Orgs : cache[u][o] \notin {"miss", role[u][o]} =>
    <<u, o>> \in excused \/ InvalidationPending(u, o)

(* An invitation gives one membership, unless a signup committed its user  *)
(* and has not marked it, or never will.                                   *)
InvitationUsedOnce ==
  \A i \in Invitations : Made(i) /\ i \notin unmarked => invitations[i].used <= 1
============================================================================
