---------------------------- MODULE SessionsProofs ----------------------------
(***************************************************************************)
(* Theorems of Sessions, for any number of accounts, tokens, links and     *)
(* concurrent executions of the endpoints.                                 *)
(***************************************************************************)
EXTENDS Sessions, TLAPS, FiniteSetTheorems

---------------------------------------------------------------------------
(* Types.                                                                  *)

(* What an endpoint has read stays true of the rows it is about: a row is  *)
(* never deleted, and keeps its owner and the password it stands for.      *)
Holds(w) ==
  worker[w] # Free =>
    /\ \A t \in worker[w].about : /\ Issued(t)
                                  /\ tokens[t].owner = worker[w].user
                                  /\ tokens[t].password = worker[w].password
    /\ \A k \in worker[w].link : links[k] # NoLink
WorkersHold == \A w \in Workers : Holds(w)

TypeInv == SessionsTypeOK /\ WorkersHold

(* A row is not the absence of one.                                        *)
LEMMA Rows ==
  /\ \A x \in Token : x # NoToken
  /\ \A x \in Link : x # NoLink
  /\ \A x \in Worker : x # Free
<1>1. \A x \in Token : x # NoToken
  BY DEF Token, NoToken
<1>2. \A x \in Link : x # NoLink
  BY DEF Link, NoLink
<1>3. \A x \in Worker : x # Free
  <2>1. \A x \in Worker : x.pc # "free"
    BY DEF Worker
  <2> QED
    BY <2>1 DEF Free
<1> QED
  BY <1>1, <1>2, <1>3

(* The UPDATEs and INSERTs of a token give a token.                        *)
LEMMA TokenTypes ==
  /\ \A x \in Token : /\ [x EXCEPT !.used = TRUE] \in Token
                      /\ [x EXCEPT !.revoked = TRUE] \in Token
                      /\ [x EXCEPT !.held = TRUE] \in Token
  /\ \A t \in Tokens, u \in People, f \in Tokens, pw \in Passwords, held \in BOOLEAN :
       Issue(t, u, f, pw, held) \in Token
<1>1. \A x \in Token : /\ [x EXCEPT !.used = TRUE] \in Token
                       /\ [x EXCEPT !.revoked = TRUE] \in Token
                       /\ [x EXCEPT !.held = TRUE] \in Token
  BY DEF Token
<1>2. \A t \in Tokens, u \in People, f \in Tokens, pw \in Passwords, held \in BOOLEAN :
        Issue(t, u, f, pw, held) \in Token
  BY DEF Issue, Token
<1> QED
  BY <1>1, <1>2

(* A revocation keeps every row a row.                                     *)
LEMMA RevokedType ==
  ASSUME SessionsTypeOK, NEW ts
  PROVE  /\ Revoked(ts) \in [Tokens -> Token \cup {NoToken}]
         /\ \A t \in Tokens : ~ Issued(t) => Revoked(ts)[t] = NoToken
         /\ \A t \in Tokens : Issued(t) =>
              /\ Revoked(ts)[t] \in Token
              /\ Revoked(ts)[t].owner = tokens[t].owner
              /\ Revoked(ts)[t].family = tokens[t].family
              /\ Revoked(ts)[t].password = tokens[t].password
              /\ Revoked(ts)[t].used = tokens[t].used
              /\ Revoked(ts)[t].revoked = (tokens[t].revoked \/ t \in ts)
<1>1. ASSUME NEW t \in Tokens, ~ Issued(t) PROVE Revoked(ts)[t] = NoToken
  BY <1>1 DEF Revoked, Live, Issued
<1>2. ASSUME NEW t \in Tokens, Issued(t)
      PROVE  /\ Revoked(ts)[t] \in Token
             /\ Revoked(ts)[t].owner = tokens[t].owner
             /\ Revoked(ts)[t].family = tokens[t].family
             /\ Revoked(ts)[t].password = tokens[t].password
             /\ Revoked(ts)[t].used = tokens[t].used
             /\ Revoked(ts)[t].revoked = (tokens[t].revoked \/ t \in ts)
  <2>1. tokens[t] \in Token
    BY <1>2 DEF SessionsTypeOK, Issued
  <2>2. CASE t \in ts /\ ~ tokens[t].revoked
    <3>1. Revoked(ts)[t] = [tokens[t] EXCEPT !.revoked = TRUE]
      BY <1>2, <2>2 DEF Revoked, Live
    <3> QED
      BY <2>1, <2>2, <3>1 DEF Token
  <2>3. CASE ~ (t \in ts /\ ~ tokens[t].revoked)
    <3>1. Revoked(ts)[t] = tokens[t]
      BY <1>2, <2>3 DEF Revoked, Live
    <3> QED
      BY <2>1, <2>3, <3>1 DEF Token
  <2> QED
    BY <2>2, <2>3
<1>3. Revoked(ts) \in [Tokens -> Token \cup {NoToken}]
  BY <1>1, <1>2 DEF Revoked
<1> QED
  BY <1>1, <1>2, <1>3

(* What no step does to a row of refresh_tokens: delete it, or give it     *)
(* another owner, family or password.                                      *)
RowsStay ==
  \A t \in Tokens : Issued(t) => /\ Issued(t)'
                                 /\ tokens'[t].owner = tokens[t].owner
                                 /\ tokens'[t].family = tokens[t].family
                                 /\ tokens'[t].password = tokens[t].password
LinksStay == \A k \in Links : links[k] # NoLink => links'[k] # NoLink

(* An endpoint that goes on with what it holds, or ends, holds it still.   *)
LEMMA HoldStays ==
  ASSUME TypeInv, RowsStay, LinksStay, NEW w \in Workers,
         \/ worker'[w] = worker[w]
         \/ worker'[w] = Free
         \/ /\ worker[w] # Free
            /\ worker'[w].about \subseteq worker[w].about
            /\ worker'[w].link \subseteq worker[w].link
            /\ worker'[w].user = worker[w].user
            /\ worker'[w].password = worker[w].password
  PROVE  Holds(w)'
<1>1. worker[w] # Free => worker[w].about \subseteq Tokens /\ worker[w].link \subseteq Links
  BY DEF TypeInv, SessionsTypeOK, Worker
<1> QED
  BY <1>1 DEF TypeInv, WorkersHold, Holds, RowsStay, LinksStay

(* An endpoint that begins is a well-typed one, and the only one to change.*)
LEMMA StartType ==
  ASSUME SessionsTypeOK, NEW w \in Workers, NEW u \in People, NEW about \in SUBSET Tokens,
         NEW link \in SUBSET Links, NEW pw \in Passwords,
         NEW pc \in {"rehash", "issue", "rotate", "replay", "resolve", "consume", "revoke_all"},
         Start(w, pc, u, about, link, pw)
  PROVE  /\ worker' \in [Workers -> Worker \cup {Free}]
         /\ worker'[w] = [pc |-> pc, user |-> u, about |-> about, link |-> link, password |-> pw]
         /\ \A v \in Workers \ {w} : worker'[v] = worker[v]
<1>1. [pc |-> pc, user |-> u, about |-> about, link |-> link, password |-> pw] \in Worker
  BY DEF Worker
<1> QED
  BY <1>1 DEF Start, SessionsTypeOK

(* An endpoint that moves on to another point is well-typed.               *)
LEMMA WorkerTypes ==
  ASSUME NEW x \in Worker,
         NEW pc \in {"rehash", "issue", "rotate", "replay", "resolve", "consume", "revoke_all"},
         NEW about \in SUBSET Tokens
  PROVE  /\ [x EXCEPT !.pc = pc] \in Worker
         /\ [x EXCEPT !.pc = pc, !.about = about] \in Worker
  BY DEF Worker

(* An endpoint with a point of its program is running.                     *)
LEMMA Running ==
  ASSUME SessionsTypeOK, NEW w \in Workers, worker[w].pc # "free"
  PROVE  worker[w] \in Worker
  BY DEF SessionsTypeOK, Free

---------------------------------------------------------------------------
(* Every action keeps the types.                                           *)

LEMMA StartFamilyType ==
  ASSUME SessionsTypeOK, NEW t \in Tokens, NEW u \in People, NEW pw \in Passwords,
         StartFamily(t, u, pw)
  PROVE  /\ tokens' \in [Tokens -> Token \cup {NoToken}]
         /\ access' \subseteq People \X Passwords
         /\ late' \subseteq Tokens
         /\ RowsStay
<1>1. Issue(t, u, t, pw, TRUE) \in Token
  BY TokenTypes
<1>2. tokens' \in [Tokens -> Token \cup {NoToken}]
  BY <1>1 DEF StartFamily, SessionsTypeOK
<1>3. RowsStay
  BY DEF StartFamily, RowsStay, SessionsTypeOK, Issued
<1>4. access' \subseteq People \X Passwords /\ late' \subseteq Tokens
  BY DEF StartFamily, SessionsTypeOK
<1> QED
  BY <1>2, <1>3, <1>4

LEMMA RevokeType ==
  ASSUME SessionsTypeOK, NEW ts, tokens' = Revoked(ts)
  PROVE  tokens' \in [Tokens -> Token \cup {NoToken}] /\ RowsStay
  BY RevokedType, Rows DEF RowsStay, Issued

(* The use of a link keeps it a link.                                      *)
LEMMA UseLinkType ==
  ASSUME SessionsTypeOK, NEW k \in Links, links[k] # NoLink, UseLink(k)
  PROVE  /\ links' \in [Links -> Link \cup {NoLink}]
         /\ LinksStay
         /\ links'[k].used
         /\ links'[k].uses = links[k].uses + 1
         /\ links[k] \in Link
         /\ \A j \in Links \ {k} : links'[j] = links[j]
<1>1. links[k] \in Link
  BY DEF SessionsTypeOK
<1>2. links'[k] \in Link /\ links'[k].used /\ links'[k].uses = links[k].uses + 1
  BY <1>1 DEF UseLink, Link, SessionsTypeOK
<1>3. \A j \in Links \ {k} : links'[j] = links[j]
  BY DEF UseLink, SessionsTypeOK
<1>4. links' \in [Links -> Link \cup {NoLink}]
  BY <1>2, <1>3 DEF UseLink, SessionsTypeOK
<1> QED
  BY <1>1, <1>2, <1>3, <1>4, Rows DEF LinksStay

(* What a rotation does to the rows: the presented token t is spent, new   *)
(* is the next of its family, for what the endpoint x knows of t.          *)
Rotated(t, x, new) ==
  /\ t \in Tokens /\ Issued(t) /\ tokens[t] \in Token
  /\ tokens[t].owner = x.user /\ tokens[t].password = x.password
  /\ ~ Issued(new) /\ t # new
  /\ tokens' = [tokens EXCEPT ![t] = Spent(t),
                             ![new] = Issue(new, x.user, tokens[t].family, x.password, FALSE)]
  /\ doubled' = IF tokens[t].used THEN doubled \cup {tokens[t].family} ELSE doubled
  /\ escaped' = IF tokens[t].revoked THEN escaped \cup {tokens[t].family} ELSE escaped
  /\ UNCHANGED late

LEMMA RotateRows ==
  ASSUME TypeInv, NEW w \in Workers, NEW new \in Tokens, Rotate(w, new)
  PROVE  \E t \in worker[w].about : Rotated(t, worker[w], new)
<1>1. worker[w] \in Worker
  BY Running DEF Rotate, TypeInv
<1>2. PICK t \in worker[w].about :
        LET f == tokens[t].family IN
        /\ tokens' = [tokens EXCEPT ![t] = Spent(t),
                                   ![new] = Issue(new, worker[w].user, f, worker[w].password, FALSE)]
        /\ doubled' = IF tokens[t].used THEN doubled \cup {f} ELSE doubled
        /\ escaped' = IF tokens[t].revoked THEN escaped \cup {f} ELSE escaped
  BY DEF Rotate
<1>3. /\ t \in Tokens /\ Issued(t) /\ tokens[t] \in Token
      /\ tokens[t].owner = worker[w].user /\ tokens[t].password = worker[w].password
  BY <1>1, Rows DEF TypeInv, WorkersHold, Holds, Issued, SessionsTypeOK, Worker
<1>4. ~ Issued(new) /\ t # new /\ UNCHANGED late
  BY <1>3 DEF Rotate
<1> QED
  BY <1>2, <1>3, <1>4 DEF Rotated

(* One step below per action of Next.                                      *)
LEMMA TypeStep == TypeInv /\ [NextSessions]_sessionVars => TypeInv' /\ RowsStay
<1> SUFFICES ASSUME TypeInv, [NextSessions]_sessionVars PROVE TypeInv' /\ RowsStay
  OBVIOUS
<1> USE SessionsAssumption
<1>a. SessionsTypeOK /\ WorkersHold
  BY DEF TypeInv
<1>b. UNCHANGED tokens => RowsStay
  BY DEF RowsStay, Issued
<1>c. UNCHANGED links => LinksStay
  BY DEF LinksStay
<1>d. \A w \in Workers : worker[w] # Free => worker[w] \in Worker
  BY <1>a DEF SessionsTypeOK
<1>1. ASSUME NEW w \in Workers, NEW u \in People, NEW pw \in Passwords, Authenticate(w, u, pw)
      PROVE  TypeInv' /\ RowsStay
  <2> DEFINE pc == IF u \in legacy THEN "rehash" ELSE "issue"
  <2>1. Start(w, pc, u, {}, {}, pw) /\ pc \in {"rehash", "issue"}
    BY <1>1 DEF Authenticate
  <2> HIDE DEF pc
  <2>2. /\ worker' \in [Workers -> Worker \cup {Free}]
        /\ worker'[w] = [pc |-> pc, user |-> u, about |-> {}, link |-> {}, password |-> pw]
        /\ \A v \in Workers \ {w} : worker'[v] = worker[v]
    <3>1. /\ {} \in SUBSET Tokens /\ {} \in SUBSET Links
          /\ pc \in {"rehash", "issue", "rotate", "replay", "resolve", "consume", "revoke_all"}
      BY <2>1
    <3> QED
      BY <1>a, <2>1, <3>1, StartType DEF Start
  <2>3. SessionsTypeOK'
    BY <1>1, <1>a, <2>2 DEF Authenticate, SessionsTypeOK, accounts, overlaps
  <2>4. Holds(w)'
    BY <2>2 DEF Holds
  <2>5. \A v \in Workers \ {w} : Holds(v)'
    BY <1>1, <1>b, <1>c, <2>2, HoldStays DEF Authenticate, accounts
  <2> QED
    BY <1>1, <1>b, <2>3, <2>4, <2>5 DEF Authenticate, TypeInv, WorkersHold
<1>2. ASSUME NEW w \in Workers, NEW t \in Tokens, ReadToken(w, t) PROVE TypeInv' /\ RowsStay
  <2> DEFINE pc == IF tokens[t].used THEN "replay" ELSE "rotate"
  <2>0. Issued(t) /\ tokens[t] \in Token
    BY <1>2, <1>a DEF ReadToken, Live, Issued, SessionsTypeOK
  <2>1. /\ Start(w, pc, tokens[t].owner, {t}, {}, tokens[t].password) /\ pc \in {"replay", "rotate"}
        /\ tokens[t].owner \in People /\ tokens[t].password \in Passwords
    BY <1>2, <2>0 DEF ReadToken, Token
  <2> HIDE DEF pc
  <2>2. /\ worker' \in [Workers -> Worker \cup {Free}]
        /\ worker'[w] = [pc |-> pc, user |-> tokens[t].owner, about |-> {t}, link |-> {},
                         password |-> tokens[t].password]
        /\ \A v \in Workers \ {w} : worker'[v] = worker[v]
    <3>1. /\ {t} \in SUBSET Tokens /\ {} \in SUBSET Links
          /\ pc \in {"rehash", "issue", "rotate", "replay", "resolve", "consume", "revoke_all"}
      BY <2>1
    <3> QED
      BY <1>a, <2>1, <3>1, StartType DEF Start
  <2>3. SessionsTypeOK'
    BY <1>2, <1>a, <2>2 DEF ReadToken, SessionsTypeOK, accounts, overlaps
  <2>4. Holds(w)'
    BY <1>2, <2>0, <2>2 DEF Holds, ReadToken, Issued
  <2>5. \A v \in Workers \ {w} : Holds(v)'
    BY <1>2, <1>b, <1>c, <2>2, HoldStays DEF ReadToken, accounts
  <2> QED
    BY <1>2, <1>b, <2>3, <2>4, <2>5 DEF ReadToken, TypeInv, WorkersHold
<1>3. ASSUME NEW w \in Workers, NEW t \in Tokens, IssueAfterLogin(w, t) PROVE TypeInv' /\ RowsStay
  <2>1. worker[w] \in Worker
    BY <1>3, <1>a, Running DEF IssueAfterLogin
  <2>2. /\ tokens' \in [Tokens -> Token \cup {NoToken}]
        /\ access' \subseteq People \X Passwords
        /\ late' \subseteq Tokens
        /\ RowsStay
    BY <1>3, <1>a, <2>1, StartFamilyType DEF IssueAfterLogin, Worker
  <2>3. worker' = [worker EXCEPT ![w] = Free]
    BY <1>3 DEF IssueAfterLogin
  <2>4. SessionsTypeOK'
    BY <1>3, <1>a, <2>2, <2>3 DEF IssueAfterLogin, StartFamily, SessionsTypeOK, accounts
  <2>5. \A v \in Workers : Holds(v)'
    BY <1>3, <1>a, <1>c, <2>2, <2>3, HoldStays
    DEF IssueAfterLogin, StartFamily, accounts, SessionsTypeOK
  <2> QED
    BY <2>2, <2>4, <2>5 DEF TypeInv, WorkersHold
<1>4. ASSUME NEW t \in Tokens, NEW u \in People, NEW pw \in Passwords, IssueForAccess(t, u, pw)
      PROVE  TypeInv' /\ RowsStay
  <2>1. /\ tokens' \in [Tokens -> Token \cup {NoToken}]
        /\ access' \subseteq People \X Passwords
        /\ late' \subseteq Tokens
        /\ RowsStay
    BY <1>4, <1>a, StartFamilyType DEF IssueForAccess
  <2>2. SessionsTypeOK'
    BY <1>4, <1>a, <2>1 DEF IssueForAccess, StartFamily, SessionsTypeOK, accounts
  <2>3. \A v \in Workers : Holds(v)'
    BY <1>4, <1>c, <2>1, HoldStays DEF IssueForAccess, StartFamily, accounts
  <2> QED
    BY <2>1, <2>2, <2>3 DEF TypeInv, WorkersHold
<1>5. ASSUME NEW w \in Workers, NEW new \in Tokens, Rotate(w, new) PROVE TypeInv' /\ RowsStay
  <2> DEFINE me == worker[w]
  <2>1. me \in Worker
    BY <1>5, <1>a, Running DEF Rotate
  <2>2. PICK t \in me.about : Rotated(t, me, new)
    BY <1>5, <1>a, RotateRows DEF TypeInv
  <2>3. /\ t \in Tokens /\ Issued(t) /\ tokens[t] \in Token
        /\ tokens[t].owner = me.user /\ tokens[t].password = me.password
        /\ ~ Issued(new) /\ t # new
    BY <2>2 DEF Rotated
  <2> DEFINE row == Issue(new, me.user, tokens[t].family, me.password, FALSE)
  <2>5. /\ row \in Token
        /\ row.owner = me.user /\ row.password = me.password
    BY <2>1, <2>3, TokenTypes DEF Worker, Token, Issue
  <2>6. Spent(t) \in Token /\ Spent(t) = [tokens[t] EXCEPT !.used = TRUE]
    BY <2>3, TokenTypes DEF Spent
  <2>7. /\ tokens'[new] = row
        /\ tokens'[t] = Spent(t)
        /\ \A s \in Tokens \ {t, new} : tokens'[s] = tokens[s]
        /\ tokens' \in [Tokens -> Token \cup {NoToken}]
    <3>1. tokens' = [tokens EXCEPT ![t] = Spent(t), ![new] = row]
      BY <2>2 DEF Rotated
    <3> HIDE DEF row
    <3> QED
      BY <1>a, <2>3, <2>5, <2>6, <3>1 DEF SessionsTypeOK
  <2> HIDE DEF row
  <2>8. RowsStay
    <3>1. /\ tokens'[t] # NoToken
          /\ tokens'[t].owner = tokens[t].owner
          /\ tokens'[t].family = tokens[t].family
          /\ tokens'[t].password = tokens[t].password
      <4>1. tokens'[t] # NoToken
        BY <2>6, <2>7, Rows
      <4> QED
        BY <2>3, <2>6, <2>7, <4>1 DEF Token
    <3>2. \A s \in Tokens \ {t} : Issued(s) => tokens'[s] = tokens[s]
      BY <2>3, <2>7
    <3> QED
      BY <3>1, <3>2 DEF RowsStay, Issued
  <2>9. worker' = [worker EXCEPT ![w].pc = "resolve", ![w].about = {new}]
    BY <1>5 DEF Rotate
  <2>10. /\ worker'[w] = [me EXCEPT !.pc = "resolve", !.about = {new}]
         /\ \A v \in Workers \ {w} : worker'[v] = worker[v]
    BY <1>a, <2>9 DEF SessionsTypeOK
  <2>11. worker' \in [Workers -> Worker \cup {Free}]
    <3>1. {new} \in SUBSET Tokens
      OBVIOUS
    <3>2. [me EXCEPT !.pc = "resolve", !.about = {new}] \in Worker
      BY <2>1, <3>1, WorkerTypes
    <3> QED
      BY <1>a, <2>9, <2>10, <3>2 DEF SessionsTypeOK
  <2>12. doubled' \subseteq Tokens /\ escaped' \subseteq Tokens
    BY <1>a, <2>2, <2>3 DEF SessionsTypeOK, Token, Rotated
  <2>13. SessionsTypeOK'
    BY <1>5, <1>a, <2>7, <2>11, <2>12 DEF Rotate, SessionsTypeOK, accounts
  <2>14. Holds(w)'
    <3>1. /\ worker'[w].about = {new} /\ worker'[w].link = me.link
          /\ worker'[w].user = me.user /\ worker'[w].password = me.password
      BY <2>1, <2>10 DEF Worker
    <3>2. \A k \in me.link : links'[k] # NoLink
      BY <1>5, <1>a, <2>1, Rows DEF Rotate, accounts, WorkersHold, Holds
    <3> QED
      BY <2>5, <2>7, <3>1, <3>2, Rows DEF Holds, Issued
  <2>15. \A v \in Workers \ {w} : Holds(v)'
    BY <1>5, <1>c, <2>8, <2>10, HoldStays DEF Rotate, accounts
  <2> QED
    BY <2>8, <2>13, <2>14, <2>15 DEF TypeInv, WorkersHold
<1>6. ASSUME NEW w \in Workers, NEW k \in Links, OpenLink(w, k) PROVE TypeInv' /\ RowsStay
  <2>0. links[k] \in Link /\ links[k].owner \in People
    BY <1>6, <1>a DEF OpenLink, SessionsTypeOK, Link
  <2>1. Start(w, "consume", links[k].owner, {}, {k}, 0) /\ 0 \in Passwords
    BY <1>6 DEF OpenLink, Passwords
  <2>2. /\ worker' \in [Workers -> Worker \cup {Free}]
        /\ worker'[w] = [pc |-> "consume", user |-> links[k].owner, about |-> {}, link |-> {k},
                         password |-> 0]
        /\ \A v \in Workers \ {w} : worker'[v] = worker[v]
    BY <1>a, <2>0, <2>1, StartType
  <2>3. SessionsTypeOK'
    BY <1>6, <1>a, <2>2 DEF OpenLink, SessionsTypeOK, accounts, overlaps
  <2>4. Holds(w)'
    BY <1>6, <2>2 DEF Holds, OpenLink, accounts
  <2>5. \A v \in Workers \ {w} : Holds(v)'
    BY <1>6, <1>b, <1>c, <2>2, HoldStays DEF OpenLink, accounts
  <2> QED
    BY <1>6, <1>b, <2>3, <2>4, <2>5 DEF OpenLink, TypeInv, WorkersHold
<1>7. ASSUME NEW w \in Workers, Rehash(w) PROVE TypeInv' /\ RowsStay
  <2>1. worker[w] \in Worker
    BY <1>7, <1>a, Running DEF Rehash
  <2>2. worker' \in [Workers -> Worker \cup {Free}]
    BY <1>7, <1>a, <2>1, WorkerTypes DEF Rehash, SessionsTypeOK
  <2>3. SessionsTypeOK'
    BY <1>7, <1>a, <2>1, <2>2 DEF Rehash, SessionsTypeOK, Worker, overlaps
  <2>4. /\ worker'[w] = [worker[w] EXCEPT !.pc = "issue"]
        /\ \A v \in Workers \ {w} : worker'[v] = worker[v]
    BY <1>7, <1>a DEF Rehash, SessionsTypeOK
  <2>5. /\ worker'[w].about = worker[w].about /\ worker'[w].link = worker[w].link
        /\ worker'[w].user = worker[w].user /\ worker'[w].password = worker[w].password
    BY <2>1, <2>4 DEF Worker
  <2>6. \A v \in Workers : Holds(v)'
    BY <1>7, <1>b, <1>c, <2>1, <2>4, <2>5, HoldStays, Rows DEF Rehash
  <2> QED
    BY <1>7, <1>b, <2>3, <2>6 DEF Rehash, TypeInv, WorkersHold
<1>8. ASSUME NEW w \in Workers, RevokeReplayed(w) \/ RevokeAll(w) PROVE TypeInv' /\ RowsStay
  <2>1. PICK ts : tokens' = Revoked(ts)
    BY <1>8 DEF RevokeReplayed, RevokeAll
  <2>2. tokens' \in [Tokens -> Token \cup {NoToken}] /\ RowsStay
    BY <1>a, <2>1, RevokeType
  <2>3. worker' = [worker EXCEPT ![w] = Free] /\ UNCHANGED <<accounts, access, deaths, overlaps>>
    BY <1>8 DEF RevokeReplayed, RevokeAll
  <2>4. SessionsTypeOK'
    BY <1>a, <2>2, <2>3 DEF SessionsTypeOK, accounts, overlaps
  <2>5. \A v \in Workers : Holds(v)'
    BY <1>a, <1>c, <2>2, <2>3, HoldStays DEF accounts, SessionsTypeOK
  <2> QED
    BY <2>2, <2>4, <2>5 DEF TypeInv, WorkersHold
<1>9. ASSUME NEW w \in Workers, ResolveProject(w) PROVE TypeInv' /\ RowsStay
  <2>1. worker[w] \in Worker
    BY <1>9, <1>a, Running DEF ResolveProject
  <2>2. \A t \in worker[w].about : t \in Tokens /\ tokens[t] \in Token
    BY <2>1, <1>a, Rows DEF WorkersHold, Holds, Issued, SessionsTypeOK, Worker
  <2>3. \A t \in Tokens : \/ tokens'[t] = tokens[t]
                          \/ /\ tokens[t] \in Token
                             /\ tokens'[t] = [tokens[t] EXCEPT !.held = TRUE]
    BY <1>9, <2>2 DEF ResolveProject
  <2>4. tokens' \in [Tokens -> Token \cup {NoToken}]
    BY <1>9, <1>a, <2>2, TokenTypes DEF ResolveProject, SessionsTypeOK
  <2>5. RowsStay
    <3>1. \A x \in Token : /\ [x EXCEPT !.held = TRUE] # NoToken
                           /\ [x EXCEPT !.held = TRUE].owner = x.owner
                           /\ [x EXCEPT !.held = TRUE].family = x.family
                           /\ [x EXCEPT !.held = TRUE].password = x.password
      <4>1. \A x \in Token : [x EXCEPT !.held = TRUE] # NoToken
        BY TokenTypes, Rows
      <4> QED
        BY <4>1 DEF Token
    <3> QED
      BY <2>3, <3>1 DEF RowsStay, Issued
  <2>6. access' \subseteq People \X Passwords
    BY <1>9, <1>a, <2>1 DEF ResolveProject, SessionsTypeOK, Worker
  <2>7. SessionsTypeOK'
    BY <1>9, <1>a, <2>4, <2>6 DEF ResolveProject, SessionsTypeOK, accounts, overlaps
  <2>8. \A v \in Workers : Holds(v)'
    BY <1>9, <1>a, <1>c, <2>5, HoldStays DEF ResolveProject, accounts, SessionsTypeOK
  <2> QED
    BY <2>5, <2>7, <2>8 DEF TypeInv, WorkersHold
<1>10. ASSUME NEW w \in Workers, ConsumeLink(w) PROVE TypeInv' /\ RowsStay
  <2>0. worker[w] \in Worker
    BY <1>10, <1>a, Running DEF ConsumeLink
  <2>1. PICK k \in worker[w].link :
          \/ /\ ~ StillUnused(k)
             /\ worker' = [worker EXCEPT ![w] = Free]
             /\ UNCHANGED accounts
          \/ StillUnused(k) /\ (ConsumeToken(w, k) \/ ResetPassword(w, k))
    BY <1>10 DEF ConsumeLink
  <2>2. UNCHANGED <<tokens, access, deaths, overlaps>>
    BY <1>10 DEF ConsumeLink
  <2>3. k \in Links /\ links[k] # NoLink
    BY <2>0, <1>a, Rows DEF WorkersHold, Holds, Worker
  <2>4. CASE ~ StillUnused(k)
    <3>1. worker' = [worker EXCEPT ![w] = Free] /\ UNCHANGED accounts
      BY <2>1, <2>4
    <3>2. SessionsTypeOK'
      BY <1>a, <2>2, <3>1 DEF SessionsTypeOK, accounts, overlaps
    <3>3. \A v \in Workers : Holds(v)'
      BY <1>a, <1>b, <1>c, <2>2, <3>1, HoldStays DEF accounts, SessionsTypeOK
    <3> QED
      BY <1>b, <2>2, <3>2, <3>3 DEF TypeInv, WorkersHold
  <2>5. CASE ConsumeToken(w, k)
    <3>1. links' \in [Links -> Link \cup {NoLink}] /\ LinksStay
      BY <1>a, <2>3, <2>5, UseLinkType DEF ConsumeToken
    <3>2. SessionsTypeOK'
      BY <1>a, <2>0, <2>2, <2>5, <3>1 DEF ConsumeToken, SessionsTypeOK, overlaps, Worker
    <3>3. \A v \in Workers : Holds(v)'
      BY <1>a, <1>b, <2>2, <2>5, <3>1, HoldStays DEF ConsumeToken, SessionsTypeOK
    <3> QED
      BY <1>b, <2>2, <3>2, <3>3 DEF TypeInv, WorkersHold
  <2>6. CASE ResetPassword(w, k)
    <3>1. links' \in [Links -> Link \cup {NoLink}] /\ LinksStay
      BY <1>a, <2>3, <2>6, UseLinkType DEF ResetPassword
    <3>2. worker' \in [Workers -> Worker \cup {Free}]
      BY <1>a, <2>0, <2>6, WorkerTypes DEF ResetPassword, SessionsTypeOK
    <3>3. worker[w].user \in People /\ newest[worker[w].user] + 1 \in Passwords
      BY <1>a, <2>0, <2>6 DEF ResetPassword, SessionsTypeOK, Worker, Passwords
    <3>4. newest' \in [People -> Passwords] /\ password' \in [People -> Passwords]
      BY <1>a, <2>6, <3>3 DEF ResetPassword, SessionsTypeOK
    <3>5. SessionsTypeOK'
      BY <1>a, <2>2, <2>6, <3>1, <3>2, <3>4 DEF ResetPassword, SessionsTypeOK, overlaps
    <3>6. /\ worker'[w] = [worker[w] EXCEPT !.pc = "revoke_all"]
          /\ \A v \in Workers \ {w} : worker'[v] = worker[v]
      BY <1>a, <2>6 DEF ResetPassword, SessionsTypeOK
    <3>7. /\ worker'[w].about = worker[w].about /\ worker'[w].link = worker[w].link
          /\ worker'[w].user = worker[w].user /\ worker'[w].password = worker[w].password
      BY <2>0, <3>6 DEF Worker
    <3>8. \A v \in Workers : Holds(v)'
      BY <1>b, <2>0, <2>2, <3>1, <3>6, <3>7, HoldStays, Rows
    <3> QED
      BY <1>b, <2>2, <3>5, <3>8 DEF TypeInv, WorkersHold
  <2> QED
    BY <2>1, <2>4, <2>5, <2>6
<1>11. ASSUME NEW w \in Workers, WorkerDies(w) PROVE TypeInv' /\ RowsStay
  <2>1. SessionsTypeOK'
    BY <1>11, <1>a DEF WorkerDies, SessionsTypeOK, accounts, overlaps
  <2>2. \A v \in Workers : Holds(v)'
    BY <1>11, <1>a, <1>b, <1>c, HoldStays DEF WorkerDies, accounts, SessionsTypeOK
  <2> QED
    BY <1>11, <1>b, <2>1, <2>2 DEF WorkerDies, TypeInv, WorkersHold
<1>12. ASSUME NEW t \in Tokens, Logout(t) PROVE TypeInv' /\ RowsStay
  <2>1. tokens' \in [Tokens -> Token \cup {NoToken}] /\ RowsStay
    BY <1>12, <1>a, RevokeType DEF Logout
  <2>2. SessionsTypeOK'
    BY <1>12, <1>a, <2>1 DEF Logout, SessionsTypeOK, accounts, overlaps
  <2>3. \A v \in Workers : Holds(v)'
    BY <1>12, <1>c, <2>1, HoldStays DEF Logout, accounts
  <2> QED
    BY <2>1, <2>2, <2>3 DEF TypeInv, WorkersHold
<1>13. ASSUME NEW u \in People, NEW pw \in Passwords, ExpireAccess(u, pw) PROVE TypeInv' /\ RowsStay
  <2>1. SessionsTypeOK'
    BY <1>13, <1>a DEF ExpireAccess, SessionsTypeOK, accounts, overlaps
  <2>2. \A v \in Workers : Holds(v)'
    BY <1>13, <1>b, <1>c, HoldStays DEF ExpireAccess, accounts
  <2> QED
    BY <1>13, <1>b, <2>1, <2>2 DEF ExpireAccess, TypeInv, WorkersHold
<1>14. ASSUME NEW k \in Links, NEW u \in People, NEW kind \in {"reset", "verify"}, MailLink(k, kind, u)
       PROVE  TypeInv' /\ RowsStay
  <2>1. [status |-> "mailed", kind |-> kind, owner |-> u, used |-> FALSE, uses |-> 0] \in Link
    BY DEF Link
  <2>2. links' \in [Links -> Link \cup {NoLink}] /\ LinksStay
    BY <1>14, <1>a, <2>1, Rows DEF MailLink, SessionsTypeOK, LinksStay
  <2>3. SessionsTypeOK'
    BY <1>14, <1>a, <2>2 DEF MailLink, SessionsTypeOK, overlaps
  <2>4. \A v \in Workers : Holds(v)'
    BY <1>14, <1>b, <2>2, HoldStays DEF MailLink
  <2> QED
    BY <1>14, <1>b, <2>3, <2>4 DEF MailLink, TypeInv, WorkersHold
<1>15. ASSUME NEW k \in Links, NEW u \in People, ForgotPassword(k, u) \/ ResendVerification(k, u)
       PROVE  TypeInv' /\ RowsStay
  BY <1>14, <1>15 DEF ForgotPassword, ResendVerification
<1>16. CASE UNCHANGED sessionVars
  <2>1. SessionsTypeOK'
    BY <1>16, <1>a DEF sessionVars, accounts, overlaps, SessionsTypeOK
  <2>2. \A v \in Workers : Holds(v)'
    BY <1>16, <1>b, <1>c, HoldStays DEF sessionVars, accounts
  <2> QED
    BY <1>16, <1>b, <2>1, <2>2 DEF sessionVars, TypeInv, WorkersHold
<1> QED
  BY <1>1, <1>2, <1>3, <1>4, <1>5, <1>6, <1>7, <1>8, <1>9, <1>10, <1>11, <1>12, <1>13, <1>15, <1>16
  DEF NextSessions, WorkerStep

(* No token, no link, no endpoint running.                                 *)
LEMMA SessionsTypeInit == InitSessions => TypeInv
  BY SessionsAssumption DEF InitSessions, TypeInv, SessionsTypeOK, WorkersHold, Holds, Passwords

(* Accounts, tokens, links and running endpoints keep their types.         *)
THEOREM SessionsTypeCorrect == SessionsSpec => []TypeInv
  BY SessionsTypeInit, TypeStep, PTL DEF SessionsSpec
---------------------------------------------------------------------------
(* Links.                                                                  *)

(* An unused link has not acted, and a used one acted once.                *)
LinksInv == \A k \in Links : links[k] # NoLink => /\ links[k].uses <= 1
                                                  /\ ~ links[k].used => links[k].uses = 0

(* Two requests that opened a link together: the second finds it used.     *)
LEMMA LinksStep == TypeInv /\ LinksInv /\ [NextSessions]_sessionVars => LinksInv'
<1> SUFFICES ASSUME TypeInv, LinksInv, [NextSessions]_sessionVars PROVE LinksInv'
  OBVIOUS
<1>1. ASSUME NEW w \in Workers, NEW k \in Links, links[k] # NoLink, StillUnused(k), UseLink(k)
      PROVE  LinksInv'
  <2>1. /\ links'[k].used /\ links'[k].uses = links[k].uses + 1
        /\ \A j \in Links \ {k} : links'[j] = links[j]
    BY <1>1, UseLinkType DEF TypeInv
  <2>2. links[k].uses = 0
    BY <1>1 DEF LinksInv, StillUnused
  <2> QED
    BY <2>1, <2>2 DEF LinksInv
<1>2. ASSUME NEW w \in Workers, ConsumeLink(w) PROVE LinksInv'
  <2>1. worker[w] \in Worker
    BY <1>2, Running DEF ConsumeLink, TypeInv
  <2>2. PICK k \in worker[w].link :
          \/ UNCHANGED accounts
          \/ StillUnused(k) /\ UseLink(k)
    BY <1>2 DEF ConsumeLink, ConsumeToken, ResetPassword
  <2>3. k \in Links /\ links[k] # NoLink
    BY <2>1, Rows DEF TypeInv, WorkersHold, Holds, Worker
  <2>4. CASE UNCHANGED accounts
    BY <2>4 DEF accounts, LinksInv
  <2> QED
    BY <1>1, <2>2, <2>3, <2>4
<1>3. ASSUME NEW k \in Links, NEW u \in People, NEW kind \in {"reset", "verify"}, MailLink(k, kind, u)
      PROVE  LinksInv'
  BY <1>3 DEF MailLink, LinksInv, TypeInv, SessionsTypeOK
<1>4. ASSUME UNCHANGED links PROVE LinksInv'
  BY <1>4 DEF LinksInv
<1>5. ASSUME NEW w \in Workers, WorkerStep(w), ~ ConsumeLink(w) PROVE UNCHANGED links
  BY <1>5 DEF WorkerStep, Authenticate, ReadToken, IssueAfterLogin, StartFamily, Rotate, OpenLink,
              Rehash, RevokeReplayed, ResolveProject, RevokeAll, WorkerDies, accounts
<1>6. ASSUME NEW t \in Tokens, \/ Logout(t)
                               \/ \E u \in People, pw \in Passwords : IssueForAccess(t, u, pw)
      PROVE  UNCHANGED links
  BY <1>6 DEF Logout, IssueForAccess, StartFamily, accounts
<1>7. ASSUME NEW u \in People, NEW pw \in Passwords, ExpireAccess(u, pw) PROVE UNCHANGED links
  BY <1>7 DEF ExpireAccess, accounts
<1>8. UNCHANGED sessionVars => UNCHANGED links
  BY DEF sessionVars, accounts
<1> QED
  BY <1>2, <1>3, <1>4, <1>5, <1>6, <1>7, <1>8
  DEF NextSessions, ForgotPassword, ResendVerification

(* No link acts twice, however many requests present it together (the      *)
(* conditional UPDATE of consume_token and reset_password).                *)
THEOREM LinkActsOnceAlways == SessionsSpec => []LinkActsOnce
<1>1. InitSessions => LinksInv
  BY DEF InitSessions, LinksInv
<1>2. LinksInv => LinkActsOnce
  BY DEF LinksInv, LinkActsOnce
<1> QED
  BY <1>1, <1>2, LinksStep, SessionsTypeInit, TypeStep, PTL DEF SessionsSpec

---------------------------------------------------------------------------
(* Families.                                                               *)

(* The first token of a family is one of its rows, of the same owner.      *)
Begun ==
  \A t \in Tokens : Issued(t) => /\ tokens[t].family \in Tokens
                                 /\ Issued(tokens[t].family)
                                 /\ tokens[tokens[t].family].owner = tokens[t].owner

(* No revocation takes a part of a family.                                 *)
Whole(ts) ==
  \A s, t \in Tokens : Issued(s) /\ Issued(t) /\ tokens[s].family = tokens[t].family =>
    (s \in ts <=> t \in ts)

KeepsRows ==
  /\ \A t \in Tokens : /\ Issued(t)' = Issued(t)
                       /\ Issued(t) => /\ tokens'[t].used = tokens[t].used
                                       /\ tokens'[t].revoked = tokens[t].revoked
  /\ UNCHANGED overlaps

RevokesRows == \E ts : Whole(ts) /\ tokens' = Revoked(ts) /\ UNCHANGED overlaps

(* What a step may do to refresh_tokens.                                   *)
TokenStep ==
  \/ KeepsRows
  \/ RevokesRows
  \/ \E t \in Tokens, u \in People, pw \in Passwords : StartFamily(t, u, pw)
  \/ \E w \in Workers, new \in Tokens : Rotate(w, new)

LEMMA TokenSteps == TypeInv /\ Begun /\ [NextSessions]_sessionVars => TokenStep
<1> SUFFICES ASSUME TypeInv, Begun, [NextSessions]_sessionVars PROVE TokenStep
  OBVIOUS
<1>a. SessionsTypeOK /\ WorkersHold
  BY DEF TypeInv
<1>1. UNCHANGED <<tokens, overlaps>> => KeepsRows
  BY DEF KeepsRows, Issued
<1>2. ASSUME NEW t \in Tokens PROVE Whole(Family(t))
  BY DEF Whole, Family
<1>3. ASSUME NEW T \in SUBSET Tokens PROVE Whole(UNION {Family(t) : t \in T})
  BY <1>2 DEF Whole
<1>4. ASSUME NEW u PROVE Whole(Own(u))
  BY DEF Whole, Own, Begun
<1>5. ASSUME NEW w \in Workers, ResolveProject(w) PROVE KeepsRows
  <2>1. worker[w] \in Worker
    BY <1>5, <1>a, Running DEF ResolveProject
  <2>2. \A t \in worker[w].about : t \in Tokens /\ Issued(t) /\ tokens[t] \in Token
    BY <2>1, <1>a, Rows DEF WorkersHold, Holds, Issued, SessionsTypeOK, Worker
  <2>3. \A t \in Tokens : \/ tokens'[t] = tokens[t]
                          \/ /\ Issued(t) /\ tokens[t] \in Token
                             /\ tokens'[t] = [tokens[t] EXCEPT !.held = TRUE]
    BY <1>5, <2>2 DEF ResolveProject
  <2>4. \A x \in Token : /\ [x EXCEPT !.held = TRUE] # NoToken
                         /\ [x EXCEPT !.held = TRUE].used = x.used
                         /\ [x EXCEPT !.held = TRUE].revoked = x.revoked
    <3>1. \A x \in Token : [x EXCEPT !.held = TRUE] # NoToken
      BY TokenTypes, Rows
    <3> QED
      BY <3>1 DEF Token
  <2> QED
    BY <1>5, <2>3, <2>4 DEF KeepsRows, Issued, ResolveProject
<1>6. ASSUME NEW w \in Workers, RevokeReplayed(w) PROVE RevokesRows
  <2>1. worker[w] \in Worker
    BY <1>6, <1>a, Running DEF RevokeReplayed
  <2>2. worker[w].about \in SUBSET Tokens
    BY <2>1 DEF Worker
  <2> QED
    BY <1>3, <1>6, <2>2 DEF RevokeReplayed, RevokesRows
<1>7. ASSUME NEW w \in Workers, RevokeAll(w) PROVE RevokesRows
  BY <1>4, <1>7 DEF RevokeAll, RevokesRows
<1>8. ASSUME NEW t \in Tokens, Logout(t) PROVE RevokesRows
  BY <1>2, <1>8 DEF Logout, RevokesRows
<1>9. ASSUME NEW w \in Workers, WorkerStep(w) PROVE TokenStep
  <2>1. \/ UNCHANGED <<tokens, overlaps>>
        \/ \E t \in Tokens : IssueAfterLogin(w, t) \/ Rotate(w, t)
        \/ RevokeReplayed(w) \/ ResolveProject(w) \/ RevokeAll(w)
    BY <1>9 DEF WorkerStep, Authenticate, ReadToken, OpenLink, Rehash, ConsumeLink, WorkerDies
  <2>2. ASSUME NEW t \in Tokens, IssueAfterLogin(w, t) PROVE TokenStep
    <3>1. worker[w] \in Worker
      BY <2>2, <1>a, Running DEF IssueAfterLogin
    <3> QED
      BY <2>2, <3>1 DEF IssueAfterLogin, Worker, TokenStep
  <2> QED
    BY <1>1, <1>5, <1>6, <1>7, <2>1, <2>2 DEF TokenStep
<1>10. ASSUME NEW t \in Tokens, NEW u \in People, NEW pw \in Passwords, IssueForAccess(t, u, pw)
       PROVE  TokenStep
  BY <1>10 DEF IssueForAccess, TokenStep
<1>11. ASSUME NEW u \in People, NEW pw \in Passwords, ExpireAccess(u, pw) PROVE TokenStep
  BY <1>1, <1>11 DEF ExpireAccess, TokenStep
<1>12. ASSUME NEW k \in Links, NEW u \in People, ForgotPassword(k, u) \/ ResendVerification(k, u)
       PROVE  TokenStep
  BY <1>1, <1>12 DEF ForgotPassword, ResendVerification, MailLink, TokenStep
<1>13. UNCHANGED sessionVars => TokenStep
  BY <1>1 DEF sessionVars, TokenStep
<1> QED
  BY <1>8, <1>9, <1>10, <1>11, <1>12, <1>13 DEF NextSessions, TokenStep

(* The first row of a family is inserted before the others.                *)
LEMMA BegunStep == TypeInv /\ Begun /\ [NextSessions]_sessionVars => Begun'
<1> SUFFICES ASSUME TypeInv, Begun, [NextSessions]_sessionVars PROVE Begun'
  OBVIOUS
<1>1. RowsStay /\ TokenStep
  BY TypeStep, TokenSteps
<1>b. ASSUME NEW s \in Tokens, NEW r \in Tokens, Issued(r),
             tokens'[s].family = tokens[r].family, tokens'[s].owner = tokens[r].owner
      PROVE  /\ tokens'[s].family \in Tokens
             /\ tokens'[tokens'[s].family] # NoToken
             /\ tokens'[tokens'[s].family].owner = tokens'[s].owner
  <2> DEFINE f == tokens[r].family
  <2>1. f \in Tokens /\ Issued(f) /\ tokens[f].owner = tokens[r].owner
    BY <1>b DEF Begun
  <2>2. tokens'[f].owner = tokens[f].owner /\ tokens'[f] # NoToken
    BY <1>1, <2>1 DEF RowsStay, Issued
  <2> QED
    BY <1>b, <2>1, <2>2
<1>2. ASSUME \A t \in Tokens : Issued(t)' => Issued(t) PROVE Begun'
  BY <1>1, <1>b, <1>2 DEF Begun, RowsStay, Issued
<1>3. CASE KeepsRows
  BY <1>2, <1>3 DEF KeepsRows
<1>4. CASE RevokesRows
  <2>1. \A t \in Tokens : ~ Issued(t) => ~ Issued(t)'
    BY <1>4, RevokedType DEF RevokesRows, TypeInv, Issued
  <2> QED
    BY <1>2, <2>1
<1>5. ASSUME NEW t \in Tokens, NEW u \in People, NEW pw \in Passwords, StartFamily(t, u, pw)
      PROVE  Begun'
  <2>1. /\ tokens'[t].family = t /\ tokens'[t].owner = u /\ Issued(t)'
        /\ \A s \in Tokens \ {t} : tokens'[s] = tokens[s]
    <3>1. /\ tokens'[t] = Issue(t, u, t, pw, TRUE)
          /\ \A s \in Tokens \ {t} : tokens'[s] = tokens[s]
      BY <1>5 DEF StartFamily, TypeInv, SessionsTypeOK
    <3>2. tokens'[t] # NoToken
      BY <3>1, TokenTypes, Rows
    <3> QED
      BY <3>1, <3>2 DEF Issue, Issued
  <2>2. \A s \in Tokens \ {t} : Issued(s)' => /\ Issued(s)
                                              /\ tokens'[s].family = tokens[s].family
                                              /\ tokens'[s].owner = tokens[s].owner
    BY <2>1 DEF Issued
  <2> QED
    BY <1>b, <2>1, <2>2 DEF Begun, Issued
<1>6. ASSUME NEW w \in Workers, NEW new \in Tokens, Rotate(w, new) PROVE Begun'
  <2>1. PICK t \in worker[w].about : Rotated(t, worker[w], new)
    BY <1>6, RotateRows
  <2>2. /\ tokens'[new].family = tokens[t].family /\ tokens'[new].owner = tokens[t].owner
        /\ \A s \in Tokens \ {t, new} : tokens'[s] = tokens[s]
    BY <2>1 DEF Rotated, TypeInv, SessionsTypeOK, Issue
  <2>3. t \in Tokens /\ Issued(t)
    BY <2>1 DEF Rotated
  <2>4. \A s \in Tokens \ {new} : Issued(s)' => Issued(s)
    BY <2>2, <2>3 DEF Issued
  <2>5. \A s \in Tokens \ {new} : Issued(s)' => /\ Issued(s)
                                                /\ tokens'[s].family = tokens[s].family
                                                /\ tokens'[s].owner = tokens[s].owner
    BY <1>1, <2>4 DEF RowsStay
  <2> QED
    BY <1>b, <2>2, <2>3, <2>5 DEF Begun, Issued
<1> QED
  BY <1>1, <1>3, <1>4, <1>5, <1>6 DEF TokenStep

LEMMA BegunInit == InitSessions => Begun
  BY DEF InitSessions, Begun, Issued

(* A new family has no other row; a rotation's successor has the family,   *)
(* the owner and the password of the token it replaces, and is unused.     *)
LEMMA FirstOfFamily ==
  ASSUME TypeInv, Begun, NEW t \in Tokens, NEW u \in People, NEW pw \in Passwords,
         StartFamily(t, u, pw)
  PROVE  /\ ~ Issued(t)
         /\ tokens'[t].family = t /\ tokens'[t].owner = u /\ tokens'[t].password = pw
         /\ \A s \in Tokens \ {t} : tokens'[s] = tokens[s]
         /\ \A s \in Tokens : Issued(s) => tokens[s].family # t
         /\ UNCHANGED <<newest, deaths, doubled, escaped>>
         /\ late' = IF pw = newest[u] THEN late ELSE late \cup {t}
<1>1. /\ tokens'[t] = Issue(t, u, t, pw, TRUE)
      /\ \A s \in Tokens \ {t} : tokens'[s] = tokens[s]
  BY DEF StartFamily, TypeInv, SessionsTypeOK
<1>2. /\ ~ Issued(t)
      /\ UNCHANGED <<newest, deaths, doubled, escaped>>
      /\ late' = IF pw = newest[u] THEN late ELSE late \cup {t}
  BY DEF StartFamily, accounts
<1>3. \A s \in Tokens : Issued(s) => tokens[s].family # t
  BY <1>2 DEF Begun
<1>4. tokens'[t].family = t /\ tokens'[t].owner = u /\ tokens'[t].password = pw
  BY <1>1 DEF Issue
<1> QED
  BY <1>1, <1>2, <1>3, <1>4

Succeeds(t, new) ==
  /\ Issued(t) /\ ~ Issued(new) /\ t # new
  /\ tokens'[t].used /\ tokens'[t].revoked = tokens[t].revoked
  /\ ~ tokens'[new].used /\ tokens'[new].revoked = FALSE
  /\ tokens'[new].family = tokens[t].family
  /\ tokens'[new].owner = tokens[t].owner
  /\ tokens'[new].password = tokens[t].password
  /\ \A s \in Tokens \ {t, new} : tokens'[s] = tokens[s]
  /\ doubled' = IF tokens[t].used THEN doubled \cup {tokens[t].family} ELSE doubled
  /\ escaped' = IF tokens[t].revoked THEN escaped \cup {tokens[t].family} ELSE escaped
  /\ UNCHANGED late

LEMMA SuccessorOf ==
  ASSUME TypeInv, NEW w \in Workers, NEW new \in Tokens, Rotate(w, new)
  PROVE  \E t \in Tokens : Succeeds(t, new)
<1>1. PICK t \in worker[w].about : Rotated(t, worker[w], new)
  BY RotateRows
<1>2. t \in Tokens /\ Issued(t) /\ ~ Issued(new) /\ t # new /\ tokens[t] \in Token
  BY <1>1 DEF Rotated
<1>3. /\ tokens'[new] = Issue(new, tokens[t].owner, tokens[t].family, tokens[t].password, FALSE)
      /\ tokens'[t] = Spent(t)
      /\ \A s \in Tokens \ {t, new} : tokens'[s] = tokens[s]
  BY <1>1, <1>2 DEF Rotated, TypeInv, SessionsTypeOK
<1>4. tokens'[t].used /\ tokens'[t].revoked = tokens[t].revoked
  BY <1>2, <1>3 DEF Spent, Token
<1>5. /\ ~ tokens'[new].used /\ tokens'[new].revoked = FALSE
      /\ tokens'[new].family = tokens[t].family
      /\ tokens'[new].owner = tokens[t].owner
      /\ tokens'[new].password = tokens[t].password
  BY <1>3 DEF Issue
<1> QED
  BY <1>1, <1>2, <1>3, <1>4, <1>5 DEF Rotated, Succeeds

---------------------------------------------------------------------------
(* A family is revoked as a whole.                                         *)

Alike ==
  \A s, t \in Tokens : Issued(s) /\ Issued(t) /\ tokens[s].family = tokens[t].family =>
    tokens[t].family \in escaped \/ tokens[s].revoked = tokens[t].revoked

LEMMA AlikeStep == TypeInv /\ Begun /\ Alike /\ [NextSessions]_sessionVars => Alike'
<1> SUFFICES ASSUME TypeInv, Begun, Alike, [NextSessions]_sessionVars PROVE Alike'
  OBVIOUS
<1>1. RowsStay /\ TokenStep
  BY TypeStep, TokenSteps
<1>2. CASE KeepsRows
  BY <1>1, <1>2 DEF KeepsRows, RowsStay, Alike, overlaps
<1>3. CASE RevokesRows
  <2>1. PICK ts : Whole(ts) /\ tokens' = Revoked(ts) /\ UNCHANGED overlaps
    BY <1>3 DEF RevokesRows
  <2>2. \A t \in Tokens : /\ ~ Issued(t) => ~ Issued(t)'
                          /\ Issued(t) => /\ tokens'[t].family = tokens[t].family
                                          /\ tokens'[t].revoked = (tokens[t].revoked \/ t \in ts)
    BY <2>1, RevokedType DEF TypeInv, Issued
  <2> QED
    BY <2>1, <2>2 DEF Alike, Whole, overlaps
<1>4. ASSUME NEW t \in Tokens, NEW u \in People, NEW pw \in Passwords, StartFamily(t, u, pw)
      PROVE  Alike'
  <2>1. /\ tokens'[t].family = t
        /\ \A s \in Tokens \ {t} : tokens'[s] = tokens[s]
        /\ \A s \in Tokens : Issued(s) => tokens[s].family # t
        /\ UNCHANGED escaped
    BY <1>4, FirstOfFamily
  <2> QED
    BY <2>1 DEF Alike, Issued
<1>5. ASSUME NEW w \in Workers, NEW new \in Tokens, Rotate(w, new) PROVE Alike'
  <2>a. PICK t \in Tokens : Succeeds(t, new)
    BY <1>5, SuccessorOf
  <2>1. /\ Issued(t) /\ ~ Issued(new) /\ t # new
        /\ tokens'[t].revoked = tokens[t].revoked
        /\ tokens'[new].revoked = FALSE
        /\ tokens'[new].family = tokens[t].family
        /\ \A s \in Tokens \ {t, new} : tokens'[s] = tokens[s]
        /\ escaped' = IF tokens[t].revoked THEN escaped \cup {tokens[t].family} ELSE escaped
    BY <2>a DEF Succeeds
  <2>2. \A s \in Tokens \ {new} : Issued(s)' => /\ Issued(s)
                                                /\ tokens'[s].family = tokens[s].family
                                                /\ tokens'[s].revoked = tokens[s].revoked
    BY <1>1, <2>1 DEF RowsStay, Issued
  <2>3. escaped \subseteq escaped' /\ (tokens[t].revoked => tokens[t].family \in escaped')
    BY <2>1
  <2>4. \A s \in Tokens : Issued(s) /\ tokens[s].family = tokens[t].family =>
          tokens[t].family \in escaped' \/ tokens[s].revoked = FALSE
    <3>1. tokens[t].revoked \in BOOLEAN
      BY <2>1 DEF TypeInv, SessionsTypeOK, Token, Issued
    <3> QED
      BY <2>1, <2>3, <3>1 DEF Alike
  <2>5. ASSUME NEW s \in Tokens \ {new}, NEW r \in Tokens \ {new}, Issued(s)', Issued(r)',
               tokens'[s].family = tokens'[r].family
        PROVE  tokens'[r].family \in escaped' \/ tokens'[s].revoked = tokens'[r].revoked
    BY <2>2, <2>3, <2>5 DEF Alike
  <2>6. ASSUME NEW s \in Tokens \ {new}, Issued(s)', tokens'[s].family = tokens'[new].family
        PROVE  tokens'[s].family \in escaped' \/ tokens'[s].revoked = FALSE
    BY <2>1, <2>2, <2>4, <2>6
  <2>7. ASSUME NEW s \in Tokens, NEW r \in Tokens, Issued(s)', Issued(r)',
               tokens'[s].family = tokens'[r].family
        PROVE  tokens'[r].family \in escaped' \/ tokens'[s].revoked = tokens'[r].revoked
    <3>1. CASE s = new /\ r = new
      BY <3>1
    <3>2. CASE s = new /\ r # new
      BY <2>1, <2>6, <2>7, <3>2
    <3>3. CASE s # new /\ r = new
      BY <2>1, <2>6, <2>7, <3>3
    <3>4. CASE s # new /\ r # new
      BY <2>5, <2>7, <3>4
    <3> QED
      BY <3>1, <3>2, <3>3, <3>4
  <2> QED
    BY <2>7 DEF Alike
<1> QED
  BY <1>1, <1>2, <1>3, <1>4, <1>5 DEF TokenStep

(* What a replay, a logout or a reset has revoked of a family is all of    *)
(* it, unless a rotation wrote past the revocation.                        *)
THEOREM RevokedFamilyIsDeadAlways == SessionsSpec => []RevokedFamilyIsDead
<1>1. InitSessions => Alike
  BY DEF InitSessions, Alike, Issued
<1>2. Alike => RevokedFamilyIsDead
  BY DEF Alike, RevokedFamilyIsDead, Live
<1> QED
  BY <1>1, <1>2, AlikeStep, BegunInit, BegunStep, SessionsTypeInit, TypeStep, PTL DEF SessionsSpec

---------------------------------------------------------------------------
(* The chain of a family does not fork.                                    *)

Unspents(t) == Issued(t) /\ ~ tokens[t].used

UnusedOnce ==
  \A s, t \in Tokens : Unspents(s) /\ Unspents(t) /\ tokens[s].family = tokens[t].family =>
    s = t \/ tokens[t].family \in doubled

LEMMA UnusedOnceStep == TypeInv /\ Begun /\ UnusedOnce /\ [NextSessions]_sessionVars => UnusedOnce'
<1> SUFFICES ASSUME TypeInv, Begun, UnusedOnce, [NextSessions]_sessionVars PROVE UnusedOnce'
  OBVIOUS
<1>1. RowsStay /\ TokenStep
  BY TypeStep, TokenSteps
<1>2. CASE KeepsRows
  BY <1>1, <1>2 DEF KeepsRows, RowsStay, UnusedOnce, Unspents, overlaps
<1>3. CASE RevokesRows
  <2>1. PICK ts : tokens' = Revoked(ts) /\ UNCHANGED overlaps
    BY <1>3 DEF RevokesRows
  <2>2. \A t \in Tokens : /\ ~ Issued(t) => ~ Issued(t)'
                          /\ Issued(t) => /\ tokens'[t].family = tokens[t].family
                                          /\ tokens'[t].used = tokens[t].used
    BY <2>1, RevokedType DEF TypeInv, Issued
  <2> QED
    BY <2>1, <2>2 DEF UnusedOnce, Unspents, overlaps
<1>4. ASSUME NEW t \in Tokens, NEW u \in People, NEW pw \in Passwords, StartFamily(t, u, pw)
      PROVE  UnusedOnce'
  <2>1. /\ tokens'[t].family = t
        /\ \A s \in Tokens \ {t} : tokens'[s] = tokens[s]
        /\ \A s \in Tokens : Issued(s) => tokens[s].family # t
        /\ UNCHANGED doubled
    BY <1>4, FirstOfFamily
  <2> QED
    BY <2>1 DEF UnusedOnce, Unspents, Issued
<1>5. ASSUME NEW w \in Workers, NEW new \in Tokens, Rotate(w, new) PROVE UnusedOnce'
  <2>a. PICK t \in Tokens : Succeeds(t, new)
    BY <1>5, SuccessorOf
  <2>1. /\ Issued(t) /\ ~ Issued(new) /\ t # new
        /\ tokens'[t].used
        /\ tokens'[new].family = tokens[t].family
        /\ \A s \in Tokens \ {t, new} : tokens'[s] = tokens[s]
        /\ doubled' = IF tokens[t].used THEN doubled \cup {tokens[t].family} ELSE doubled
    BY <2>a DEF Succeeds
  <2>2. \A s \in Tokens \ {new} : Unspents(s)' => /\ Unspents(s) /\ s # t
                                                  /\ tokens'[s].family = tokens[s].family
    BY <1>1, <2>1 DEF RowsStay, Issued, Unspents
  <2>3. doubled \subseteq doubled' /\ (tokens[t].used => tokens[t].family \in doubled')
    BY <2>1
  <2>4. \A s \in Tokens \ {t} : Unspents(s) /\ tokens[s].family = tokens[t].family =>
          tokens[t].family \in doubled'
    BY <2>1, <2>3 DEF UnusedOnce, Unspents
  <2>5. ASSUME NEW s \in Tokens \ {new}, NEW r \in Tokens \ {new}, Unspents(s)', Unspents(r)',
               tokens'[s].family = tokens'[r].family
        PROVE  s = r \/ tokens'[r].family \in doubled'
    BY <2>2, <2>3, <2>5 DEF UnusedOnce
  <2>6. ASSUME NEW s \in Tokens \ {new}, Unspents(s)', tokens'[s].family = tokens'[new].family
        PROVE  tokens'[s].family \in doubled'
    BY <2>1, <2>2, <2>4, <2>6
  <2> QED
    BY <2>1, <2>5, <2>6 DEF UnusedOnce
<1> QED
  BY <1>1, <1>2, <1>3, <1>4, <1>5 DEF TokenStep

(* A family never has two tokens that can still be rotated, unless two     *)
(* rotations of one token overlapped.                                      *)
THEOREM ChainDoesNotForkAlways == SessionsSpec => []ChainDoesNotFork
<1>1. InitSessions => UnusedOnce
  BY DEF InitSessions, UnusedOnce, Unspents, Issued
<1>2. UnusedOnce => ChainDoesNotFork
  <2> SUFFICES ASSUME UnusedOnce, NEW f \in Tokens \ doubled
               PROVE  Cardinality({t \in Tokens : Live(t) /\ ~tokens[t].used /\ tokens[t].family = f}) <= 1
    BY DEF ChainDoesNotFork
  <2> DEFINE T == {t \in Tokens : Live(t) /\ ~tokens[t].used /\ tokens[t].family = f}
  <2>1. \A s, t \in T : s = t
    BY DEF UnusedOnce, Unspents, Live
  <2>2. T = {} \/ \E t \in T : T = {t}
    BY <2>1
  <2>3. Cardinality({}) = 0 /\ \A t : Cardinality({t}) = 1
    BY FS_EmptySet, FS_Singleton
  <2> HIDE DEF T
  <2>4. Cardinality(T) \in {0, 1}
    BY <2>2, <2>3
  <2>5. Cardinality(T) <= 1
    BY <2>4
  <2> QED
    BY <2>5 DEF T
<1> QED
  BY <1>1, <1>2, UnusedOnceStep, BegunInit, BegunStep, SessionsTypeInit, TypeStep, PTL DEF SessionsSpec

---------------------------------------------------------------------------
(* A reset ends the sessions.                                              *)

(* A reset of u's password that has still to revoke the tokens.            *)
Ending(u) == \E w \in Workers : worker[w].pc = "revoke_all" /\ worker[w].user = u

(* Where a live token of the next state comes from.                        *)
Descends(t) ==
  \/ \E r \in Tokens : /\ Live(r)
                       /\ tokens'[t].owner = tokens[r].owner
                       /\ tokens'[t].family = tokens[r].family
                       /\ tokens'[t].password = tokens[r].password
  \/ tokens'[t].family \in escaped' \cup late'
  \/ tokens'[t].password = newest[tokens'[t].owner]

LEMMA LiveDescend ==
  TypeInv /\ Begun /\ [NextSessions]_sessionVars =>
    /\ escaped \subseteq escaped' /\ late \subseteq late'
    /\ \A t \in Tokens : Live(t)' => Descends(t)
<1> SUFFICES ASSUME TypeInv, Begun, [NextSessions]_sessionVars
             PROVE  /\ escaped \subseteq escaped' /\ late \subseteq late'
                    /\ \A t \in Tokens : Live(t)' => Descends(t)
  OBVIOUS
<1>1. RowsStay /\ TokenStep
  BY TypeStep, TokenSteps
<1>2. ASSUME NEW t \in Tokens, Live(t) PROVE Descends(t)
  BY <1>1, <1>2 DEF RowsStay, Descends, Live
<1>3. CASE KeepsRows
  <2>1. \A t \in Tokens : Live(t)' => Live(t)
    BY <1>3 DEF KeepsRows, Live
  <2> QED
    BY <1>2, <1>3, <2>1 DEF KeepsRows, overlaps
<1>4. CASE RevokesRows
  <2>1. PICK ts : tokens' = Revoked(ts) /\ UNCHANGED overlaps
    BY <1>4 DEF RevokesRows
  <2>2. \A t \in Tokens : /\ ~ Issued(t) => ~ Issued(t)'
                          /\ Issued(t) => tokens'[t].revoked = (tokens[t].revoked \/ t \in ts)
    BY <2>1, RevokedType DEF TypeInv, Issued
  <2>3. \A t \in Tokens : Live(t)' => Live(t)
    BY <2>2 DEF Live
  <2> QED
    BY <1>2, <2>1, <2>3 DEF overlaps
<1>5. ASSUME NEW t \in Tokens, NEW u \in People, NEW pw \in Passwords, StartFamily(t, u, pw)
      PROVE  /\ escaped \subseteq escaped' /\ late \subseteq late'
             /\ \A s \in Tokens : Live(s)' => Descends(s)
  <2>1. /\ tokens'[t].family = t /\ tokens'[t].owner = u /\ tokens'[t].password = pw
        /\ \A s \in Tokens \ {t} : tokens'[s] = tokens[s]
        /\ UNCHANGED escaped
        /\ late' = IF pw = newest[u] THEN late ELSE late \cup {t}
    BY <1>5, FirstOfFamily
  <2>2. Descends(t)
    BY <2>1 DEF Descends
  <2>3. \A s \in Tokens \ {t} : Live(s)' => Live(s)
    BY <2>1 DEF Live, Issued
  <2> QED
    BY <1>2, <2>1, <2>2, <2>3
<1>6. ASSUME NEW w \in Workers, NEW new \in Tokens, Rotate(w, new)
      PROVE  /\ escaped \subseteq escaped' /\ late \subseteq late'
             /\ \A s \in Tokens : Live(s)' => Descends(s)
  <2>1. PICK t \in Tokens : Succeeds(t, new)
    BY <1>6, SuccessorOf
  <2>2. /\ Issued(t) /\ tokens'[t].revoked = tokens[t].revoked
        /\ tokens'[new].family = tokens[t].family
        /\ tokens'[new].owner = tokens[t].owner
        /\ tokens'[new].password = tokens[t].password
        /\ \A s \in Tokens \ {t, new} : tokens'[s] = tokens[s]
        /\ escaped' = IF tokens[t].revoked THEN escaped \cup {tokens[t].family} ELSE escaped
        /\ UNCHANGED late
    BY <2>1 DEF Succeeds
  <2>3. Descends(new)
    BY <2>2 DEF Descends, Live
  <2>4. \A s \in Tokens \ {new} : Live(s)' => Live(s)
    BY <2>2 DEF Live, Issued
  <2> QED
    BY <1>2, <2>2, <2>3, <2>4
<1> QED
  BY <1>1, <1>3, <1>4, <1>5, <1>6 DEF TokenStep

(* The user of a running endpoint does not change, and only RevokeAll and  *)
(* a crash end a reset that has written the password.                      *)
LEMMA EndingStep ==
  TypeInv /\ [NextSessions]_sessionVars =>
    /\ deaths > 0 => deaths' > 0
    /\ \A u \in People : \/ Ending(u)'
                         \/ deaths' > 0
                         \/ /\ newest'[u] = newest[u]
                            /\ Ending(u) => \E w \in Workers : RevokeAll(w) /\ worker[w].user = u
<1> DEFINE Goal(u) == \/ Ending(u)'
                      \/ deaths' > 0
                      \/ /\ newest'[u] = newest[u]
                         /\ Ending(u) => \E w \in Workers : RevokeAll(w) /\ worker[w].user = u
<1> SUFFICES ASSUME TypeInv, [NextSessions]_sessionVars
             PROVE  (deaths > 0 => deaths' > 0) /\ \A u \in People : Goal(u)
  OBVIOUS
<1>a. SessionsTypeOK /\ deaths \in Nat
  BY SessionsAssumption DEF TypeInv, SessionsTypeOK
<1>1. ASSUME UNCHANGED <<worker, newest, deaths>>
      PROVE  (deaths > 0 => deaths' > 0) /\ \A u \in People : Goal(u)
  BY <1>1 DEF Ending
<1>2. ASSUME NEW w \in Workers, WorkerDies(w)
      PROVE  (deaths > 0 => deaths' > 0) /\ \A u \in People : Goal(u)
  BY <1>2, <1>a DEF WorkerDies
<1>3. ASSUME NEW w \in Workers, WorkerStep(w), ~ WorkerDies(w)
      PROVE  (deaths > 0 => deaths' > 0) /\ \A u \in People : Goal(u)
  <2>1. UNCHANGED deaths
    BY <1>3 DEF WorkerStep, Authenticate, ReadToken, IssueAfterLogin, StartFamily, Rotate, OpenLink,
                Rehash, RevokeReplayed, ResolveProject, ConsumeLink, RevokeAll
  <2>2. \A v \in Workers \ {w} : worker'[v] = worker[v]
    <3>1. worker \in [Workers -> Worker \cup {Free}]
      BY <1>a DEF SessionsTypeOK
    <3>2. \/ UNCHANGED worker
          \/ \E x : worker' = [worker EXCEPT ![w] = x]
      BY <1>3 DEF WorkerStep, Authenticate, ReadToken, IssueAfterLogin, Rotate, OpenLink, Start,
                  Rehash, RevokeReplayed, ResolveProject, ConsumeLink, ConsumeToken, ResetPassword,
                  RevokeAll
    <3> QED
      BY <3>1, <3>2
  <2>3. worker[w].pc = "revoke_all" => RevokeAll(w)
    BY <1>3 DEF WorkerStep, Authenticate, ReadToken, IssueAfterLogin, Rotate, OpenLink, Start, Free,
                Rehash, RevokeReplayed, ResolveProject, ConsumeLink
  <2>4. \/ UNCHANGED newest
        \/ \E k \in Links : ResetPassword(w, k) /\ ConsumeLink(w)
    <3>1. ASSUME ConsumeLink(w)
          PROVE  UNCHANGED newest \/ \E k \in Links : ResetPassword(w, k)
      <4>1. worker[w] \in Worker
        BY <3>1, <1>a, Running DEF ConsumeLink
      <4> QED
        BY <3>1, <4>1 DEF ConsumeLink, ConsumeToken, accounts, Worker
    <3> QED
      BY <1>3, <3>1
      DEF WorkerStep, Authenticate, ReadToken, IssueAfterLogin, StartFamily, Rotate, OpenLink,
          Rehash, RevokeReplayed, ResolveProject, RevokeAll, accounts
  <2>5. ASSUME NEW u \in People, UNCHANGED newest PROVE Goal(u)
    BY <2>2, <2>3, <2>5 DEF Ending
  <2>6. ASSUME NEW k \in Links, ResetPassword(w, k), ConsumeLink(w), NEW u \in People PROVE Goal(u)
    <3>1. worker[w] \in Worker /\ worker[w].pc # "revoke_all"
      BY <2>6, <1>a, Running DEF ConsumeLink
    <3>2. worker'[w] = [worker[w] EXCEPT !.pc = "revoke_all"]
      BY <2>6, <1>a DEF ResetPassword, SessionsTypeOK
    <3>3. worker'[w].pc = "revoke_all" /\ worker'[w].user = worker[w].user
      BY <3>1, <3>2 DEF Worker
    <3>4. CASE u = worker[w].user
      BY <3>3, <3>4 DEF Ending
    <3>5. CASE u # worker[w].user
      <4>1. newest'[u] = newest[u]
        BY <2>6, <3>5, <1>a DEF ResetPassword, SessionsTypeOK
      <4>2. Ending(u) => Ending(u)'
        BY <2>2, <3>1 DEF Ending
      <4> QED
        BY <4>1, <4>2
    <3> QED
      BY <3>4, <3>5
  <2> QED
    BY <2>1, <2>4, <2>5, <2>6
<1>4. ASSUME NEW t \in Tokens, \/ Logout(t)
                               \/ \E u \in People, pw \in Passwords : IssueForAccess(t, u, pw)
      PROVE  UNCHANGED <<worker, newest, deaths>>
  BY <1>4 DEF Logout, IssueForAccess, StartFamily, accounts
<1>5. ASSUME NEW u \in People, \/ \E pw \in Passwords : ExpireAccess(u, pw)
                               \/ \E k \in Links : ForgotPassword(k, u) \/ ResendVerification(k, u)
      PROVE  UNCHANGED <<worker, newest, deaths>>
  BY <1>5 DEF ExpireAccess, ForgotPassword, ResendVerification, MailLink, accounts
<1>6. UNCHANGED sessionVars => UNCHANGED <<worker, newest, deaths>>
  BY DEF sessionVars, accounts
<1> HIDE DEF Goal
<1> QED
  BY <1>1, <1>2, <1>3, <1>4, <1>5, <1>6 DEF NextSessions

LEMMA ResetStep ==
  TypeInv /\ Begun /\ ResetEndsSessions /\ [NextSessions]_sessionVars => ResetEndsSessions'
<1> SUFFICES ASSUME TypeInv, Begun, ResetEndsSessions, [NextSessions]_sessionVars,
                    NEW t \in Tokens, Live(t)', tokens'[t].password < newest'[tokens'[t].owner]
             PROVE  \/ tokens'[t].family \in escaped' \cup late'
                    \/ deaths' > 0
                    \/ Ending(tokens[t].owner)'
  BY DEF ResetEndsSessions, Ending
<1>1. /\ escaped \subseteq escaped' /\ late \subseteq late'
      /\ Descends(t)
  BY LiveDescend
<1>2. TypeInv' /\ tokens'[t] \in Token
  <2>1. TypeInv'
    BY TypeStep
  <2> QED
    BY <2>1 DEF TypeInv, SessionsTypeOK, Live, Issued
<1>3. PICK u \in People : u = tokens'[t].owner
  BY <1>2 DEF Token
<1>4. tokens'[t].password \in Int
  BY <1>2, SessionsAssumption DEF Token, Passwords
<1>5. /\ deaths > 0 => deaths' > 0
      /\ \/ Ending(u)'
         \/ deaths' > 0
         \/ /\ newest'[u] = newest[u]
            /\ Ending(u) => \E w \in Workers : RevokeAll(w) /\ worker[w].user = u
  BY EndingStep
<1>6. CASE newest'[u] = newest[u] /\ ~ Ending(u)' /\ ~ deaths' > 0
  <2>1. CASE tokens'[t].password = newest[u]
    BY <1>3, <1>4, <1>6, <2>1
  <2>2. ASSUME NEW r \in Tokens, Live(r), u = tokens[r].owner,
               tokens'[t].family = tokens[r].family, tokens'[t].password = tokens[r].password
        PROVE  tokens'[t].family \in escaped' \cup late'
    <3>1. tokens[r].family \in escaped \cup late \/ deaths > 0 \/ Ending(u)
      BY <1>3, <1>6, <2>2 DEF ResetEndsSessions, Ending
    <3>2. ~ deaths > 0
      BY <1>5, <1>6
    <3>3. ~ Ending(u)
      <4> SUFFICES ASSUME Ending(u) PROVE FALSE
        OBVIOUS
      <4>1. PICK w \in Workers : RevokeAll(w) /\ worker[w].user = u
        BY <1>5, <1>6
      <4>2. tokens' = Revoked(Own(u))
        BY <4>1 DEF RevokeAll
      <4>3. /\ ~ Issued(t) => ~ Issued(t)'
            /\ Issued(t) => /\ tokens'[t].owner = tokens[t].owner
                            /\ tokens'[t].revoked = (tokens[t].revoked \/ t \in Own(u))
        BY <4>2, RevokedType DEF Issued, TypeInv
      <4> QED
        BY <1>3, <4>3 DEF Live, Own
    <3> QED
      BY <1>1, <2>2, <3>1, <3>2, <3>3
  <2> QED
    BY <1>1, <1>3, <2>1, <2>2 DEF Descends
<1>7. Ending(u)' => Ending(tokens[t].owner)'
  BY <1>3
<1> QED
  BY <1>5, <1>6, <1>7

(* After a reset no session signed in with an older password is left, but  *)
(* for those the four disjuncts name (main.py's reset endpoint revokes     *)
(* after it has committed the password).                                   *)
THEOREM ResetEndsSessionsAlways == SessionsSpec => []ResetEndsSessions
<1>1. InitSessions => ResetEndsSessions
  BY DEF InitSessions, ResetEndsSessions, Live, Issued
<1> QED
  BY <1>1, ResetStep, BegunInit, BegunStep, SessionsTypeInit, TypeStep, PTL DEF SessionsSpec
===========================================================================
