------------------------------- MODULE Sessions -------------------------------
(***************************************************************************)
(* Sign-in and its credentials: families of rotating refresh tokens        *)
(* (refresh.py), passwords (db.authenticate_user, db/password_reset.py),   *)
(* the links mailed to a user (reset, and db/email_verification.py), and   *)
(* the endpoints of main.py under /auth.                                   *)
(*                                                                         *)
(* An endpoint reads a row in one step and writes in another, whatever has *)
(* happened to the row in between; what it does after its first commit is  *)
(* a transaction of its own.  A request that is refused at its first read  *)
(* changes nothing and is no step.                                         *)
(*                                                                         *)
(* Abstractions.  A password is the number of resets before it was chosen. *)
(* A refresh token may be found expired by any read, as if it had not been *)
(* presented; a family is named after its first token.  The two kinds of   *)
(* access token differ in their lifetime only.  Rate limits, cookies and   *)
(* the check against leaked passwords are left out.                        *)
(*                                                                         *)
(* Faulty variants stand before some definitions, as elsewhere.            *)
(***************************************************************************)
EXTENDS Integers, FiniteSets

CONSTANTS
  People,         \* accounts
  Tokens,         \* rows of refresh_tokens
  Links,          \* rows of password_reset_tokens and email_verification_tokens
  Workers,        \* concurrent executions of an endpoint
  Legacy,         \* accounts whose password is hashed the old way at the start
  MaxResets,      \* bound: passwords chosen by a reset
  MaxDeaths       \* bound: endpoints whose process dies before they end

Passwords == 0 .. MaxResets

NoToken == [status |-> "none"]
Token == [status : {"issued"}, owner : People, family : Tokens, used : BOOLEAN, revoked : BOOLEAN,
          held : BOOLEAN, password : Passwords]

NoLink == [status |-> "none"]
Link == [status : {"mailed"}, kind : {"reset", "verify"}, owner : People, used : BOOLEAN, uses : Nat]

ASSUME SessionsAssumption ==
  /\ Legacy \subseteq People /\ {MaxResets, MaxDeaths} \subseteq Nat

VARIABLES
  tokens,     \* refresh_tokens; held: whether the client has received it
  password,   \* users.password_hash: the password it was made from
  newest,     \* history: the last password chosen by the user
  legacy,     \* users whose hash is not argon2's
  confirmed,  \* users.email_verified
  links,      \* reset and verification links
  access,     \* unexpired access tokens: their user, and the password signed in with
  worker,     \* locals of each running endpoint
  deaths,     \* endpoints that died
  doubled,    \* history: families where two rotations of one token overlapped
  escaped,    \* history: families where a rotation overlapped a revocation
  late        \* history: families started for a password no longer the newest

accounts == <<password, newest, legacy, confirmed, links>>
overlaps == <<doubled, escaped, late>>
sessionVars == <<accounts, tokens, access, worker, deaths, overlaps>>

Free == [pc |-> "free"]

Worker == [pc : {"rehash", "issue", "rotate", "replay", "resolve", "consume", "revoke_all"},
           user : People, about : SUBSET Tokens, link : SUBSET Links, password : Passwords]

SessionsTypeOK ==
  /\ tokens \in [Tokens -> Token \cup {NoToken}]
  /\ password \in [People -> Passwords] /\ newest \in [People -> Passwords]
  /\ legacy \subseteq People /\ confirmed \subseteq People
  /\ links \in [Links -> Link \cup {NoLink}]
  /\ access \subseteq People \X Passwords
  /\ worker \in [Workers -> Worker \cup {Free}]
  /\ deaths \in 0 .. MaxDeaths
  /\ doubled \subseteq Tokens /\ escaped \subseteq Tokens /\ late \subseteq Tokens

InitSessions ==
  /\ tokens = [t \in Tokens |-> NoToken]
  /\ password = [u \in People |-> 0] /\ newest = [u \in People |-> 0]
  /\ legacy = Legacy /\ confirmed = {}
  /\ links = [k \in Links |-> NoLink]
  /\ access = {}
  /\ worker = [w \in Workers |-> Free]
  /\ deaths = 0
  /\ doubled = {} /\ escaped = {} /\ late = {}

---------------------------------------------------------------------------
Issued(t) == tokens[t] # NoToken
Live(t)   == Issued(t) /\ ~tokens[t].revoked

Start(w, pc, u, about, link, pw) ==
  /\ worker[w] = Free
  /\ worker' = [worker EXCEPT
       ![w] = [pc |-> pc, user |-> u, about |-> about, link |-> link, password |-> pw]]

(* A row for a new token; the client receives it with the response.        *)
Issue(t, u, f, pw, held) ==
  [status |-> "issued", owner |-> u, family |-> f, used |-> FALSE, revoked |-> FALSE,
   held |-> held, password |-> pw]

(* revoked_at of every row that is in ts and has none.                     *)
Revoked(ts) ==
  [t \in Tokens |-> IF t \in ts /\ Live(t) THEN [tokens[t] EXCEPT !.revoked = TRUE] ELSE tokens[t]]

Family(t) == {s \in Tokens : Issued(s) /\ tokens[s].family = tokens[t].family}

---------------------------------------------------------------------------
(* Signing in.                                                             *)

(* login: authenticate_user reads the hash and compares.                   *)
Authenticate(w, u, pw) ==
  /\ pw = password[u]
  /\ Start(w, IF u \in legacy THEN "rehash" ELSE "issue", u, {}, {}, pw)
  /\ UNCHANGED <<accounts, tokens, access, deaths, overlaps>>

(* The hash is made anew from the password that was compared.              *)
Rehash(w) ==
  LET me == worker[w] IN
  /\ me.pc = "rehash"
  /\ password' = [password EXCEPT ![me.user] = me.password]
  /\ legacy' = legacy \ {me.user}
  /\ worker' = [worker EXCEPT ![w].pc = "issue"]
  /\ UNCHANGED <<newest, confirmed, links, tokens, access, deaths, overlaps>>

(* A new family.                                                           *)
StartFamily(t, u, pw) ==
  /\ ~Issued(t)
  /\ tokens' = [tokens EXCEPT ![t] = Issue(t, u, t, pw, TRUE)]
  /\ access' = access \cup {<<u, pw>>}
  /\ late' = IF pw = newest[u] THEN late ELSE late \cup {t}
  /\ UNCHANGED <<accounts, deaths, doubled, escaped>>

IssueAfterLogin(w, t) ==
  /\ worker[w].pc = "issue"
  /\ StartFamily(t, worker[w].user, worker[w].password)
  /\ worker' = [worker EXCEPT ![w] = Free]

(* token-pair, and switch-project with cookies: an access token suffices.  *)
IssueForAccess(t, u, pw) ==
  /\ <<u, pw>> \in access
  /\ StartFamily(t, u, pw)
  /\ UNCHANGED worker

ExpireAccess(u, pw) ==
  /\ <<u, pw>> \in access /\ access' = access \ {<<u, pw>>}
  /\ UNCHANGED <<accounts, tokens, worker, deaths, overlaps>>

---------------------------------------------------------------------------
(* rotate_refresh_token.                                                   *)

ReadToken(w, t) ==
  /\ Live(t) /\ tokens[t].held
  /\ Start(w, IF tokens[t].used THEN "replay" ELSE "rotate", tokens[t].owner, {t}, {}, tokens[t].password)
  /\ UNCHANGED <<accounts, tokens, access, deaths, overlaps>>

(* A token used before: its family is revoked.  The variant revokes it     *)
(* alone.                                                                  *)
RevokePresented(w) ==
  /\ worker[w].pc = "replay"
  /\ tokens' = Revoked(worker[w].about)
  /\ worker' = [worker EXCEPT ![w] = Free]
  /\ UNCHANGED <<accounts, access, deaths, overlaps>>
RevokeReplayed(w) ==
  /\ worker[w].pc = "replay"
  /\ tokens' = Revoked(UNION {Family(t) : t \in worker[w].about})
  /\ worker' = [worker EXCEPT ![w] = Free]
  /\ UNCHANGED <<accounts, access, deaths, overlaps>>

(* used_at and the successor, in one transaction, whatever the row says by *)
(* now.  The variant commits the successor alone.                          *)
Unspent(t) == tokens[t]
Spent(t)   == [tokens[t] EXCEPT !.used = TRUE]

Rotate(w, new) ==
  LET me == worker[w] IN
  /\ me.pc = "rotate" /\ ~Issued(new)
  /\ \E t \in me.about :
       LET f == tokens[t].family IN
       /\ tokens' = [tokens EXCEPT ![t] = Spent(t), ![new] = Issue(new, me.user, f, me.password, FALSE)]
       /\ doubled' = IF tokens[t].used THEN doubled \cup {f} ELSE doubled
       /\ escaped' = IF tokens[t].revoked THEN escaped \cup {f} ELSE escaped
  /\ worker' = [worker EXCEPT ![w].pc = "resolve", ![w].about = {new}]
  /\ UNCHANGED <<accounts, access, deaths, late>>

(* The user and a default project, after the commit: without one the       *)
(* client is refused and never sees the successor.                         *)
ResolveProject(w) ==
  LET me == worker[w] IN
  /\ me.pc = "resolve"
  /\ \/ /\ tokens' = [t \in Tokens |-> IF t \in me.about THEN [tokens[t] EXCEPT !.held = TRUE] ELSE tokens[t]]
        /\ access' = access \cup {<<me.user, me.password>>}
     \/ UNCHANGED <<tokens, access>>
  /\ worker' = [worker EXCEPT ![w] = Free]
  /\ UNCHANGED <<accounts, deaths, overlaps>>

(* logout: revoke_family_for_token.                                        *)
Logout(t) ==
  /\ Issued(t) /\ tokens[t].held
  /\ tokens' = Revoked(Family(t))
  /\ UNCHANGED <<accounts, access, worker, deaths, overlaps>>

---------------------------------------------------------------------------
(* Links: forgot-password, reset-password, resend-verification and         *)
(* verify-email.                                                           *)

MailLink(k, kind, u) ==
  /\ links[k] = NoLink
  /\ links' = [links EXCEPT ![k] =
       [status |-> "mailed", kind |-> kind, owner |-> u, used |-> FALSE, uses |-> 0]]
  /\ UNCHANGED <<password, newest, legacy, confirmed, tokens, access, worker, deaths, overlaps>>

ForgotPassword(k, u) == MailLink(k, "reset", u)

ResendVerification(k, u) == u \notin confirmed /\ MailLink(k, "verify", u)

OpenLink(w, k) ==
  /\ links[k] # NoLink /\ ~links[k].used
  /\ links[k].kind = "reset" => newest[links[k].owner] < MaxResets
  /\ Start(w, "consume", links[k].owner, {}, {k}, 0)
  /\ UNCHANGED <<accounts, tokens, access, deaths, overlaps>>

(* The UPDATE is conditional on used_at.  The variant is not.              *)
NeverMind(k)   == TRUE
StillUnused(k) == ~links[k].used

UseLink(k) == links' = [links EXCEPT ![k].used = TRUE, ![k].uses = @ + 1]

(* consume_token: the link and email_verified, in one transaction.         *)
ConsumeToken(w, k) ==
  /\ links[k].kind = "verify" /\ UseLink(k)
  /\ confirmed' = confirmed \cup {worker[w].user}
  /\ worker' = [worker EXCEPT ![w] = Free]
  /\ UNCHANGED <<newest, password, legacy>>

(* reset_password: the link and the new hash, in one transaction.          *)
ResetPassword(w, k) ==
  LET u == worker[w].user IN
  /\ links[k].kind = "reset" /\ UseLink(k)
  /\ newest[u] < MaxResets
  /\ newest' = [newest EXCEPT ![u] = @ + 1]
  /\ password' = [password EXCEPT ![u] = newest[u] + 1]
  /\ legacy' = legacy \ {u}
  /\ worker' = [worker EXCEPT ![w].pc = "revoke_all"]
  /\ UNCHANGED confirmed

ConsumeLink(w) ==
  /\ worker[w].pc = "consume"
  /\ \E k \in worker[w].link :
       \/ /\ ~StillUnused(k)
          /\ worker' = [worker EXCEPT ![w] = Free]
          /\ UNCHANGED accounts
       \/ StillUnused(k) /\ (ConsumeToken(w, k) \/ ResetPassword(w, k))
  /\ UNCHANGED <<tokens, access, deaths, overlaps>>

(* revoke_all_for_user, in a transaction of its own.  The variant revokes  *)
(* the tokens not yet used.                                                *)
OwnUnused(u) == {t \in Tokens : Issued(t) /\ tokens[t].owner = u /\ ~tokens[t].used}
Own(u)       == {t \in Tokens : Issued(t) /\ tokens[t].owner = u}

RevokeAll(w) ==
  /\ worker[w].pc = "revoke_all"
  /\ tokens' = Revoked(Own(worker[w].user))
  /\ worker' = [worker EXCEPT ![w] = Free]
  /\ UNCHANGED <<accounts, access, deaths, overlaps>>

WorkerDies(w) ==
  /\ worker[w] # Free /\ deaths < MaxDeaths /\ deaths' = deaths + 1
  /\ worker' = [worker EXCEPT ![w] = Free]
  /\ UNCHANGED <<accounts, tokens, access, overlaps>>

---------------------------------------------------------------------------
WorkerStep(w) ==
  \/ \E u \in People, pw \in Passwords : Authenticate(w, u, pw)
  \/ \E t \in Tokens : ReadToken(w, t) \/ IssueAfterLogin(w, t) \/ Rotate(w, t)
  \/ \E k \in Links : OpenLink(w, k)
  \/ Rehash(w) \/ RevokeReplayed(w) \/ ResolveProject(w) \/ ConsumeLink(w) \/ RevokeAll(w)
  \/ WorkerDies(w)

NextSessions ==
  \/ \E w \in Workers : WorkerStep(w)
  \/ \E t \in Tokens : \/ Logout(t)
                       \/ \E u \in People, pw \in Passwords : IssueForAccess(t, u, pw)
  \/ \E u \in People : \/ \E pw \in Passwords : ExpireAccess(u, pw)
                       \/ \E k \in Links : ForgotPassword(k, u) \/ ResendVerification(k, u)

SessionsSpec == InitSessions /\ [][NextSessions]_sessionVars

---------------------------------------------------------------------------
(* Properties.                                                             *)

(* A family has one token that can still be rotated, at most: the chain    *)
(* does not fork, unless two rotations of one token overlapped.            *)
ChainDoesNotFork ==
  \A f \in Tokens \ doubled :
    Cardinality({t \in Tokens : Live(t) /\ ~tokens[t].used /\ tokens[t].family = f}) <= 1

(* A family revoked by a replay, a logout or a reset stays revoked as a    *)
(* whole, unless a rotation that had read its token before wrote after.    *)
RevokedFamilyIsDead ==
  \A s, t \in Tokens : Issued(s) /\ tokens[s].revoked /\ Live(t) /\ tokens[s].family = tokens[t].family =>
    tokens[t].family \in escaped

(* Once a password is reset no session signed in with an older one is      *)
(* left, unless the reset has still to revoke it or died, a rotation wrote *)
(* past the revocation, or the family began after the reset (a login that  *)
(* had compared the old password, an access token that outlived it).       *)
ResetEndsSessions ==
  \A t \in Tokens : Live(t) /\ tokens[t].password < newest[tokens[t].owner] =>
    \/ tokens[t].family \in escaped \cup late
    \/ deaths > 0
    \/ \E w \in Workers : worker[w].pc = "revoke_all" /\ worker[w].user = tokens[t].owner

(* A mailed link acts once, however many requests present it together.     *)
LinkActsOnce ==
  \A k \in Links : links[k] # NoLink => links[k].uses <= 1
============================================================================
