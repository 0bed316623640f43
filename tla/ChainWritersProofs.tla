------------------------- MODULE ChainWritersProofs -------------------------
(***************************************************************************)
(* Theorems of ChainWriters, for any number of tasks on the key, of writes *)
(* they make, fees, losses and interventions of the admin; and, at the end,*)
(* of the provider they send through (RpcFailover).                        *)
(***************************************************************************)
EXTENDS ChainWriters, RpcFailover, TLAPS, FiniteSetTheorems

---------------------------------------------------------------------------
(* Types.                                                                  *)

Locals  == [pc : {"nonce", "send", "wait", "done", "failed"}, done : Nat, nonce : Nat, fee : Nat]
Txn     == [by : Writers, index : Nat, nonce : Nat, fee : Nat, call : Write]
MinedTx == [by : Writers, index : Nat, nonce : Nat, fee : Nat, call : Write, status : BOOLEAN]
Record  == [isRegistered : BOOLEAN, isActive : BOOLEAN, codeHash : Hashes, agentHash : Hashes]

(* A task that is not done has a write to make.                            *)
WritersTypeOK ==
  /\ write \in [Writers -> Locals]
  /\ pool \subseteq Txn
  /\ mined \in Seq(MinedTx)
  /\ identity \in [Registered -> Record]
  /\ paused \in BOOLEAN
  /\ \A w \in Writers : write[w].pc # "done" => write[w].done < Len(WritesOf[w])

---------------------------------------------------------------------------
(* The invariants.                                                         *)

Nonces == {t.nonce : t \in pool}

(* The pool holds the nonces from the next one of the chain up to p, and   *)
(* none twice.                                                             *)
UpTo(p) == p \in Nat /\ Len(mined) <= p /\ Nonces = Len(mined)..(p - 1)

Queue ==
  /\ \E p \in Nat : /\ UpTo(p)
                    /\ \A w \in Writers : write[w].pc = "send" => write[w].nonce <= p
  /\ \A s, t \in pool : s.nonce = t.nonce => s = t

SentBy(x, w) == x.by = w /\ x.index = write[w].done + 1

(* What a transaction in the pool or mined says of the task that sent it:  *)
(* it is the task's current one, or an earlier one, mined.                 *)
Sending(w) == write[w].pc \in {"send", "wait", "failed"}
Ours ==
  /\ \A t \in pool : \A w \in Writers : t.by = w =>
       /\ t.index = write[w].done + 1 /\ t.nonce = write[w].nonce /\ t.fee = write[w].fee
       /\ Sending(w)
  /\ \A k \in 1..Len(mined) :
       /\ mined[k].nonce = k - 1
       /\ \A w \in Writers : mined[k].by = w =>
            /\ mined[k].index <= write[w].done + 1
            /\ mined[k].index = write[w].done + 1 => mined[k].nonce = write[w].nonce /\ Sending(w)

(* No write is sent twice.                                                 *)
SameWrite(x, y) == x.by = y.by /\ x.index = y.index
Once ==
  /\ \A k, l \in 1..Len(mined) : SameWrite(mined[k], mined[l]) => k = l
  /\ \A t \in pool : \A k \in 1..Len(mined) : ~ SameWrite(t, mined[k])
  /\ \A w \in Writers : \A i \in 1..write[w].done :
       \E k \in 1..Len(mined) : mined[k].by = w /\ mined[k].index = i /\ mined[k].status

(* A revoked agent is not active.                                          *)
Revokes(m, x) == m.status /\ m.call.kind = "revoke" /\ m.call.agent = x
Identities ==
  \A x \in Registered :
    /\ identity[x].isRegistered /\ identity[x].codeHash = identity[x].agentHash
    /\ \A k \in 1..Len(mined) : Revokes(mined[k], x) => ~ identity[x].isActive

WritersInv == WritersTypeOK /\ Queue /\ Ours /\ Once /\ Identities

---------------------------------------------------------------------------

LEMMA Pending ==
  ASSUME NEW p, UpTo(p), mined \in Seq(MinedTx)
  PROVE  PendingNonce = p
<1>1. Len(mined) \in Nat /\ p \in Nat /\ Len(mined) <= p
  BY DEF UpTo
<1>2. Cardinality(Len(mined)..(p - 1)) = IF Len(mined) > p - 1 THEN 0 ELSE p - 1 - Len(mined) + 1
  <2>1. PICK a \in Int, b \in Int : a = Len(mined) /\ b = p - 1
    BY <1>1
  <2>2. Cardinality(a..b) = IF a > b THEN 0 ELSE b - a + 1
    BY FS_Interval
  <2> QED
    BY <2>1, <2>2
<1>3. PendingNonce = Len(mined) + Cardinality(Len(mined)..(p - 1))
  BY DEF PendingNonce, UpTo, Nonces
<1> QED
  BY <1>1, <1>2, <1>3

LEMMA StepTypes ==
  ASSUME WritersTypeOK, NEW w \in Writers
  PROVE  /\ write[w] \in Locals /\ write[w].done \in Nat /\ write[w].nonce \in Nat /\ write[w].fee \in Nat
         /\ Len(mined) \in Nat /\ \A k \in 1..Len(mined) : mined[k] \in MinedTx
         /\ \A n \in Nat, f \in Nat, pc \in {"send", "wait", "failed"} :
              /\ [write[w] EXCEPT !.pc = pc] \in Locals
              /\ [write[w] EXCEPT !.pc = pc, !.nonce = n, !.fee = f] \in Locals
<1>1. write[w] \in Locals
  BY DEF WritersTypeOK
<1>2. \A k \in 1..Len(mined) : mined[k] \in MinedTx
  BY DEF WritersTypeOK
<1>3. Len(mined) \in Nat
  BY DEF WritersTypeOK
<1> QED
  BY <1>1, <1>2, <1>3 DEF Locals

LEMMA TxType ==
  ASSUME WritersTypeOK, NEW w \in Writers, write[w].pc # "done"
  PROVE  /\ Tx(w) \in Txn
         /\ Tx(w).by = w /\ Tx(w).index = write[w].done + 1
         /\ Tx(w).nonce = write[w].nonce /\ Tx(w).fee = write[w].fee
<1>1. /\ write[w].done \in Nat /\ write[w].nonce \in Nat /\ write[w].fee \in Nat
      /\ write[w].done < Len(WritesOf[w])
  BY StepTypes DEF WritersTypeOK
<1>2. WritesOf[w][write[w].done + 1] \in Write
  BY <1>1, WritersAssumption
<1> QED
  BY <1>1, <1>2 DEF Tx, Current, Txn

(* A step of a task that leaves the chain and the pool alone.              *)
LEMMA TaskKeeps ==
  ASSUME WritersInv, NEW w \in Writers, NEW x \in Locals, write' = [write EXCEPT ![w] = x],
         UNCHANGED <<pool, mined, identity, paused>>,
         x.pc # "done" => x.done < Len(WritesOf[w]),
         \A p \in Nat : UpTo(p) /\ x.pc = "send" => x.nonce <= p \/ (write[w].pc = "send" /\ x.nonce = write[w].nonce),
         \/ /\ x.done = write[w].done
            /\ Sending(w) => x.pc \in {"send", "wait", "failed"} /\ x.nonce = write[w].nonce /\ x.fee = write[w].fee
         \/ /\ x.done = write[w].done + 1
            /\ \E k \in Receipt(w) : mined[k].status
  PROVE  WritersInv'
<1>1. /\ write'[w] = x /\ \A v \in Writers \ {w} : write'[v] = write[v]
      /\ write' \in [Writers -> Locals]
      /\ \A v \in Writers : write[v].done \in Nat /\ x.done \in Nat
  <2>1. write \in [Writers -> Locals]
    BY DEF WritersInv, WritersTypeOK
  <2>2. \A v \in Writers : write[v].done \in Nat /\ x.done \in Nat
    BY <2>1 DEF Locals
  <2> QED
    BY <2>1, <2>2
<1>2. WritersTypeOK'
  BY <1>1 DEF WritersInv, WritersTypeOK
<1>3. Queue'
  BY <1>1 DEF WritersInv, Queue, UpTo, Nonces
<1>4. Identities'
  BY DEF WritersInv, Identities
<1>5. /\ Len(mined) \in Nat
      /\ \A k \in 1..Len(mined) : mined[k].index \in Nat /\ mined[k].by \in Writers
      /\ \A t \in pool : t.index \in Nat /\ t.by \in Writers
  BY StepTypes DEF WritersInv, WritersTypeOK, MinedTx, Txn
<1>6. CASE /\ x.done = write[w].done
           /\ Sending(w) => x.pc \in {"send", "wait", "failed"} /\ x.nonce = write[w].nonce /\ x.fee = write[w].fee
  <2>1. Ours'
    BY <1>1, <1>6 DEF WritersInv, Ours, Sending
  <2>2. Once'
    BY <1>1, <1>6 DEF WritersInv, Once, SameWrite
  <2> QED
    BY <1>2, <1>3, <1>4, <2>1, <2>2 DEF WritersInv
<1>7. ASSUME x.done = write[w].done + 1, NEW r \in Receipt(w), mined[r].status
      PROVE  WritersInv'
  <2>1. r \in 1..Len(mined) /\ mined[r].by = w /\ mined[r].index = write[w].done + 1
    BY DEF Receipt
  <2>2. \A t \in pool : t.by # w
    BY <2>1 DEF WritersInv, Ours, Once, SameWrite
  <2>3. Ours'
    <3>1. ASSUME NEW t \in pool, NEW v \in Writers, t.by = v
          PROVE  /\ t.index = write'[v].done + 1 /\ t.nonce = write'[v].nonce /\ t.fee = write'[v].fee
                 /\ write'[v].pc \in {"send", "wait", "failed"}
      BY <1>1, <2>2, <3>1 DEF WritersInv, Ours, Sending
    <3>2. ASSUME NEW k \in 1..Len(mined), NEW v \in Writers, mined[k].by = v
          PROVE  /\ mined[k].index <= write'[v].done + 1
                 /\ mined[k].index = write'[v].done + 1 =>
                      mined[k].nonce = write'[v].nonce /\ write'[v].pc \in {"send", "wait", "failed"}
      <4>1. CASE v = w
        <5>1. mined[k].index <= write[w].done + 1
          BY <3>2, <4>1 DEF WritersInv, Ours
        <5> QED
          BY <1>1, <1>5, <1>7, <4>1, <5>1
      <4>2. CASE v # w
        BY <1>1, <3>2, <4>2 DEF WritersInv, Ours, Sending
      <4> QED
        BY <4>1, <4>2
    <3>3. \A k \in 1..Len(mined) : mined[k].nonce = k - 1
      BY DEF WritersInv, Ours
    <3> QED
      BY <3>1, <3>2, <3>3 DEF Ours, Sending
  <2>4. Once'
    <3>1. ASSUME NEW v \in Writers, NEW i \in 1..write'[v].done
          PROVE  \E k \in 1..Len(mined) : mined[k].by = v /\ mined[k].index = i /\ mined[k].status
      <4>1. CASE v = w /\ i = write[w].done + 1
        BY <1>7, <2>1, <4>1
      <4>2. CASE ~ (v = w /\ i = write[w].done + 1)
        <5>1. i \in 1..write[v].done
          BY <1>1, <1>7, <4>2
        <5> QED
          BY <5>1 DEF WritersInv, Once
      <4> QED
        BY <4>1, <4>2
    <3> QED
      BY <3>1 DEF WritersInv, Once, SameWrite
  <2> QED
    BY <1>2, <1>3, <1>4, <2>3, <2>4 DEF WritersInv
<1> QED
  BY <1>6, <1>7

LEMMA RaiseKeeps ==
  ASSUME WritersInv, NEW w \in Writers, write[w].pc \in {"nonce", "send", "wait"}, Raise(w),
         UNCHANGED <<pool, mined, identity, paused>>
  PROVE  WritersInv'
<1>1. PICK x \in Locals : x = [write[w] EXCEPT !.pc = "failed"]
  BY StepTypes DEF WritersInv
<1>2. /\ x.pc = "failed" /\ x.done = write[w].done /\ x.nonce = write[w].nonce /\ x.fee = write[w].fee
      /\ write[w].done < Len(WritesOf[w])
  BY <1>1, StepTypes DEF WritersInv, WritersTypeOK, Locals
<1>3. write' = [write EXCEPT ![w] = x]
  BY <1>1 DEF Raise
<1> QED
  BY <1>2, <1>3, TaskKeeps

LEMMA ReadNonceKeeps == ASSUME WritersInv, NEW w \in Writers, ReadNonce(w) PROVE WritersInv'
<1>1. PICK n \in NoncesRead, f \in FeeLevels :
        write' = [write EXCEPT ![w] = [write[w] EXCEPT !.pc = "send", !.nonce = n, !.fee = f]]
  BY DEF ReadNonce, Proceed
<1>2. PICK p \in Nat : UpTo(p)
  BY DEF WritersInv, Queue
<1>3. n \in Nat /\ n <= p /\ f \in Nat
  <2>1. PendingNonce = p /\ Len(mined) \in Nat
    BY <1>2, Pending, StepTypes DEF WritersInv, WritersTypeOK
  <2> QED
    BY <1>1, <2>1 DEF NoncesRead, ChainNonce, FeeLevels, LowFee, PeakFee
<1>4. PICK x \in Locals : x = [write[w] EXCEPT !.pc = "send", !.nonce = n, !.fee = f]
  BY <1>3, StepTypes DEF WritersInv
<1>5. /\ x.pc = "send" /\ x.done = write[w].done /\ x.nonce = n
      /\ write[w].pc = "nonce" /\ write[w].done < Len(WritesOf[w])
  BY ZenonT(60), <1>4, StepTypes DEF WritersInv, WritersTypeOK, Locals, ReadNonce
<1>6. \A q \in Nat : UpTo(q) => q = p
  BY <1>2, Pending DEF WritersInv, WritersTypeOK
<1>7. UNCHANGED <<pool, mined, identity, paused>>
  BY DEF ReadNonce, chainVars
<1> QED
  BY <1>1, <1>3, <1>4, <1>5, <1>6, <1>7, TaskKeeps DEF Sending

LEMMA GetReceiptKeeps == ASSUME WritersInv, NEW w \in Writers, GetReceipt(w) PROVE WritersInv'
<1>1. UNCHANGED <<pool, mined, identity, paused>> /\ write[w].pc = "wait"
  BY DEF GetReceipt, chainVars
<1>2. PICK k \in Receipt(w) : \/ mined[k].status /\ write' = [write EXCEPT ![w] = Written(w)]
                              \/ Raise(w)
  BY DEF GetReceipt, Succeeded, Proceed
<1>3. CASE Raise(w)
  BY <1>1, <1>3, RaiseKeeps
<1>4. CASE mined[k].status /\ write' = [write EXCEPT ![w] = Written(w)]
  <2>1. write[w] \in Locals /\ write[w].done \in Nat /\ write[w].done < Len(WritesOf[w])
        /\ Len(WritesOf[w]) \in Nat
    <3>1. write[w] \in Locals /\ write[w].done \in Nat
      BY StepTypes DEF WritersInv
    <3>2. write[w].done < Len(WritesOf[w])
      BY <1>1 DEF WritersInv, WritersTypeOK
    <3>3. WritesOf[w] \in Seq(Write)
      BY WritersAssumption
    <3> QED
      BY <3>1, <3>2, <3>3
  <2>2. PICK x \in Locals : x = Written(w)
    <3>1. PICK n \in Nat : n = write[w].done + 1
      BY <2>1
    <3>2. PICK pc \in {"done", "nonce"} : pc = IF n = Len(WritesOf[w]) THEN "done" ELSE "nonce"
      OBVIOUS
    <3>3. Written(w) = [write[w] EXCEPT !.done = n, !.pc = pc]
      BY <3>1, <3>2 DEF Written
    <3>4. [write[w] EXCEPT !.done = n, !.pc = pc] \in Locals
      BY <2>1 DEF Locals
    <3> QED
      BY <3>3, <3>4
  <2>3. /\ x.done = write[w].done + 1
        /\ x.pc \in {"done", "nonce"}
        /\ x.pc = "nonce" => write[w].done + 1 # Len(WritesOf[w])
    BY <2>1, <2>2 DEF Written, Locals
  <2>4. x.pc # "done" => x.done < Len(WritesOf[w])
    BY <2>1, <2>3
  <2> QED
    BY <1>1, <1>4, <2>2, <2>3, <2>4, TaskKeeps
<1> QED
  BY <1>2, <1>3, <1>4

(* A node takes a transaction, and the task waits for it or not.           *)
LEMMA BroadcastKeeps ==
  ASSUME WritersInv, NEW w \in Writers, write[w].pc = "send", Accepted(Tx(w)), Broadcast(Tx(w)),
         UNCHANGED <<mined, identity, paused>>,
         NEW pc \in {"send", "wait"}, write' = [write EXCEPT ![w] = [write[w] EXCEPT !.pc = pc]]
  PROVE  WritersInv'
<1>1. PICK t \in Txn : t = Tx(w)
  BY TxType DEF WritersInv
<1>2. /\ t.by = w /\ t.index = write[w].done + 1 /\ t.nonce = write[w].nonce /\ t.fee = write[w].fee
      /\ t.nonce \in Nat /\ t.fee \in Nat
  BY <1>1, TxType DEF WritersInv, Txn
<1>3. /\ t.nonce >= Len(mined)
      /\ \A o \in pool : o.nonce = t.nonce => t.fee > o.fee
      /\ pool' = {o \in pool : o.nonce # t.nonce} \cup {t}
  BY <1>1 DEF Accepted, ChainNonce, Broadcast
<1>4. /\ Len(mined) \in Nat /\ \A k \in 1..Len(mined) : mined[k] \in MinedTx
      /\ \A o \in pool : o \in Txn /\ o.nonce \in Nat /\ o.fee \in Nat
  BY StepTypes DEF WritersInv, WritersTypeOK, Txn
<1>5. PICK x \in Locals : x = [write[w] EXCEPT !.pc = pc]
  BY StepTypes DEF WritersInv
<1>6. /\ x.pc = pc /\ x.done = write[w].done /\ x.nonce = write[w].nonce /\ x.fee = write[w].fee
  BY <1>5, StepTypes DEF WritersInv, Locals
<1>7. /\ write' \in [Writers -> Locals]
      /\ \A v \in Writers : /\ write'[v].done = write[v].done /\ write'[v].nonce = write[v].nonce
                            /\ write'[v].fee = write[v].fee
                            /\ v # w => write'[v].pc = write[v].pc
      /\ write'[w].pc = pc
  BY <1>5, <1>6 DEF WritersInv, WritersTypeOK
<1>8. WritersTypeOK'
  <2>1. \A v \in Writers : write'[v].pc # "done" => write'[v].done < Len(WritesOf[v])
    BY <1>7 DEF WritersInv, WritersTypeOK
  <2>2. pool' \subseteq Txn
    BY <1>3, <1>4
  <2> QED
    BY <1>7, <2>1, <2>2 DEF WritersInv, WritersTypeOK
<1>9. Queue'
  <2>1. PICK p \in Nat : UpTo(p) /\ \A v \in Writers : write[v].pc = "send" => write[v].nonce <= p
    BY DEF WritersInv, Queue
  <2>2. t.nonce \in Len(mined)..p
    BY <1>2, <1>3, <1>4, <2>1
  <2>3. Nonces' = Nonces \cup {t.nonce}
    BY <1>3 DEF Nonces
  <2>4. Nonces = Len(mined)..(p - 1) /\ Len(mined) <= p
    BY <2>1 DEF UpTo
  <2>5. PICK q \in Nat : q = IF t.nonce = p THEN p + 1 ELSE p
    OBVIOUS
  <2>6. Nonces' = Len(mined)..(q - 1)
    <3>1. CASE t.nonce = p
      BY <1>4, <2>3, <2>4, <2>5, <3>1
    <3>2. CASE t.nonce # p
      BY <1>4, <2>2, <2>3, <2>4, <2>5, <3>2
    <3> QED
      BY <3>1, <3>2
  <2>7. UpTo(q)'
    BY <1>4, <2>4, <2>5, <2>6 DEF UpTo
  <2>8. \A v \in Writers : write'[v].pc = "send" => write'[v].nonce <= q
    <3> SUFFICES ASSUME NEW v \in Writers, write'[v].pc = "send" PROVE write[v].nonce <= q
      BY <1>7
    <3>1. write[v].pc = "send" /\ write[v].nonce \in Nat
      BY <1>7, StepTypes DEF WritersInv
    <3> QED
      BY <2>1, <2>5, <3>1
  <2>9. \A r, s \in pool' : r.nonce = s.nonce => r = s
    BY <1>3 DEF WritersInv, Queue
  <2> QED
    BY <2>7, <2>8, <2>9 DEF Queue
<1>10. Ours'
  <2>1. ASSUME NEW o \in pool', NEW v \in Writers, o.by = v
        PROVE  /\ o.index = write'[v].done + 1 /\ o.nonce = write'[v].nonce /\ o.fee = write'[v].fee
               /\ write'[v].pc \in {"send", "wait", "failed"}
    <3>1. CASE o = t
      BY <1>2, <1>7, <2>1, <3>1
    <3>2. CASE o \in pool
      BY <1>7, <2>1, <3>2 DEF WritersInv, Ours, Sending
    <3> QED
      BY <1>3, <3>1, <3>2
  <2>2. \A k \in 1..Len(mined) :
          /\ mined[k].nonce = k - 1
          /\ \A v \in Writers : mined[k].by = v =>
               /\ mined[k].index <= write'[v].done + 1
               /\ mined[k].index = write'[v].done + 1 =>
                    mined[k].nonce = write'[v].nonce /\ write'[v].pc \in {"send", "wait", "failed"}
    BY <1>7 DEF WritersInv, Ours, Sending
  <2> QED
    BY <2>1, <2>2 DEF Ours, Sending
<1>11. Once'
  <2>1. ASSUME NEW k \in 1..Len(mined), SameWrite(t, mined[k]) PROVE FALSE
    <3>1. mined[k].nonce = write[w].nonce /\ mined[k].nonce = k - 1
      BY <1>2, <2>1 DEF SameWrite, WritersInv, Ours
    <3> QED
      BY <1>2, <1>3, <1>4, <3>1
  <2>2. \A o \in pool' : \A k \in 1..Len(mined) : ~ SameWrite(o, mined[k])
    BY <1>3, <2>1 DEF WritersInv, Once
  <2>3. \A v \in Writers : \A i \in 1..write'[v].done :
          \E k \in 1..Len(mined) : mined[k].by = v /\ mined[k].index = i /\ mined[k].status
    BY <1>7 DEF WritersInv, Once
  <2> QED
    BY <2>2, <2>3 DEF WritersInv, Once, SameWrite
<1>12. Identities'
  BY DEF WritersInv, Identities, Revokes
<1> QED
  BY <1>8, <1>9, <1>10, <1>11, <1>12 DEF WritersInv

LEMMA SendKeeps ==
  ASSUME WritersInv, NEW w \in Writers, SendTransaction(w) \/ SendReplyLost(w)
  PROVE  WritersInv'
<1>1. CASE SendTransaction(w)
  BY <1>1, BroadcastKeeps DEF SendTransaction, Proceed
<1>2. CASE SendReplyLost(w)
  <2>1. write' = [write EXCEPT ![w] = [write[w] EXCEPT !.pc = "send"]]
    <3>1. write[w] = [write[w] EXCEPT !.pc = "send"]
      <4>1. write[w] \in Locals /\ write[w].pc = "send"
        BY <1>2, StepTypes DEF SendReplyLost, WritersInv
      <4> QED
        BY <4>1 DEF Locals
    <3>2. write' = write /\ write = [write EXCEPT ![w] = write[w]]
      BY <1>2 DEF SendReplyLost, WritersInv, WritersTypeOK
    <3> QED
      BY <3>1, <3>2
  <2> QED
    BY <1>2, <2>1, BroadcastKeeps DEF SendReplyLost
<1> QED
  BY <1>1, <1>2

---------------------------------------------------------------------------
(* A block takes a transaction.                                            *)

LEMMA EffectiveType == ASSUME WritersTypeOK, NEW c \in Write PROVE Effective(c) \in BOOLEAN
<1>1. c.kind \in {"score", "register", "revoke"}
  BY DEF Write
<1>2. CASE c.kind = "score"
  BY <1>2 DEF Effective
<1>3. CASE c.kind = "register"
  BY <1>3 DEF Effective
<1>4. CASE c.kind = "revoke"
  BY <1>4 DEF Effective, CanRevoke
<1> QED
  BY <1>1, <1>2, <1>3, <1>4

(* What a call leaves of one agent's record.                               *)
LEMMA IdentityStep ==
  ASSUME WritersTypeOK, NEW c \in Write,
         \A x \in Registered : identity[x].isRegistered /\ identity[x].codeHash = identity[x].agentHash,
         IF Effective(c) THEN Apply(c) ELSE UNCHANGED <<board, events, identity>>
  PROVE  /\ identity' \in [Registered -> Record]
         /\ \A x \in Registered :
              /\ identity'[x].isRegistered /\ identity'[x].codeHash = identity'[x].agentHash
              /\ ~ identity[x].isActive => ~ identity'[x].isActive
              /\ Effective(c) /\ c.kind = "revoke" /\ c.agent = x => ~ identity'[x].isActive
<1>1. identity \in [Registered -> Record]
  BY DEF WritersTypeOK
<1>2. CASE ~ Effective(c)
  BY <1>1, <1>2
<1>3. CASE Effective(c) /\ c.kind = "score"
  BY <1>1, <1>3 DEF Apply
<1>4. CASE Effective(c) /\ c.kind = "register"
  <2>1. c.agent \in Registered /\ c.value \in Hashes
    BY <1>4 DEF Write
  <2>2. Reregistered(identity[c.agent], c.value) =
          [identity[c.agent] EXCEPT !.codeHash = c.value, !.agentHash = c.value]
    BY <2>1 DEF Reregistered
  <2>3. PICK rec \in Record : rec = Reregistered(identity[c.agent], c.value)
    BY ZenonT(60), <1>1, <2>1, <2>2 DEF Record
  <2>4. /\ rec.isRegistered /\ rec.codeHash = rec.agentHash
        /\ rec.isActive = identity[c.agent].isActive
    <3>1. identity[c.agent] \in Record /\ identity[c.agent].isRegistered
      BY <1>1, <2>1
    <3> QED
      BY <2>2, <2>3, <3>1 DEF Record
  <2>5. identity' = [identity EXCEPT ![c.agent] = rec]
    BY <1>4, <2>3 DEF Apply
  <2> QED
    BY <1>1, <1>4, <2>1, <2>4, <2>5
<1>5. CASE Effective(c) /\ c.kind = "revoke"
  <2>1. c.agent \in Registered
    BY <1>5 DEF Write
  <2>2. PICK rec \in Record : rec = [identity[c.agent] EXCEPT !.isActive = FALSE]
    BY <1>1, <2>1 DEF Record
  <2>3. /\ rec.isRegistered /\ rec.codeHash = rec.agentHash /\ ~ rec.isActive
    <3>1. identity[c.agent] \in Record /\ identity[c.agent].isRegistered
          /\ identity[c.agent].codeHash = identity[c.agent].agentHash
      BY <1>1, <2>1
    <3> QED
      BY <2>2, <3>1 DEF Record
  <2>4. identity' = [identity EXCEPT ![c.agent] = rec]
    BY <1>5, <2>2 DEF Apply
  <2> QED
    BY <1>1, <1>5, <2>1, <2>3, <2>4
<1>6. c.kind \in {"score", "register", "revoke"}
  BY DEF Write
<1> QED
  BY <1>2, <1>3, <1>4, <1>5, <1>6

LEMMA MineKeeps == ASSUME WritersInv, Mine PROVE WritersInv'
<1>1. PICK t \in pool :
        /\ t.nonce = Len(mined)
        /\ pool' = pool \ {t}
        /\ mined' = Append(mined, [by |-> t.by, index |-> t.index, fee |-> t.fee, nonce |-> t.nonce,
                                   call |-> t.call, status |-> Effective(t.call)])
        /\ IF Effective(t.call) THEN Apply(t.call) ELSE UNCHANGED <<board, events, identity>>
        /\ UNCHANGED <<write, paused>>
  BY DEF Mine, ChainNonce
<1>2. /\ t \in Txn /\ t.by \in Writers /\ t.call \in Write
      /\ mined \in Seq(MinedTx) /\ Len(mined) \in Nat
      /\ \A o \in pool : o \in Txn /\ o.by \in Writers /\ o.nonce \in Nat
  BY DEF WritersInv, WritersTypeOK, Txn
<1>3. PICK m \in MinedTx : /\ m = [by |-> t.by, index |-> t.index, fee |-> t.fee, nonce |-> t.nonce,
                                   call |-> t.call, status |-> Effective(t.call)]
                           /\ m.by = t.by /\ m.index = t.index /\ m.nonce = t.nonce
                           /\ m.call = t.call /\ m.status = Effective(t.call)
  <2>1. PICK st \in BOOLEAN : st = Effective(t.call)
    BY <1>2, EffectiveType DEF WritersInv
  <2>2. t.index \in Nat /\ t.fee \in Nat /\ t.nonce \in Nat
    BY <1>2 DEF Txn
  <2>3. [by |-> t.by, index |-> t.index, fee |-> t.fee, nonce |-> t.nonce,
         call |-> t.call, status |-> st] \in MinedTx
    BY <1>2, <2>2 DEF MinedTx
  <2> QED
    BY <2>1, <2>3
<1>4. /\ Len(mined') = Len(mined) + 1
      /\ mined' \in Seq(MinedTx)
      /\ \A k \in 1..Len(mined) : mined'[k] = mined[k]
      /\ mined'[Len(mined) + 1] = m
  BY <1>1, <1>2, <1>3
<1>5. \A k \in 1..Len(mined') : k \in 1..Len(mined) \/ k = Len(mined) + 1
  BY <1>2, <1>4
<1>6. /\ identity' \in [Registered -> Record]
      /\ \A x \in Registered :
           /\ identity'[x].isRegistered /\ identity'[x].codeHash = identity'[x].agentHash
           /\ ~ identity[x].isActive => ~ identity'[x].isActive
           /\ Effective(t.call) /\ t.call.kind = "revoke" /\ t.call.agent = x => ~ identity'[x].isActive
  BY <1>1, <1>2, IdentityStep DEF WritersInv, Identities
<1>7. WritersTypeOK'
  BY <1>1, <1>4, <1>6 DEF WritersInv, WritersTypeOK
<1>8. Queue'
  <2>1. PICK p \in Nat : UpTo(p) /\ \A v \in Writers : write[v].pc = "send" => write[v].nonce <= p
    BY DEF WritersInv, Queue
  <2>2. Nonces = Len(mined)..(p - 1) /\ t.nonce \in Nonces
    BY <2>1 DEF UpTo, Nonces
  <2>3. Len(mined) + 1 <= p
    BY <1>1, <1>2, <2>1, <2>2
  <2>4. Nonces' = Nonces \ {t.nonce}
    <3>1. \A o \in pool : o.nonce = t.nonce => o = t
      BY DEF WritersInv, Queue
    <3> QED
      BY <1>1, <3>1 DEF Nonces
  <2>5. Nonces' = (Len(mined) + 1)..(p - 1)
    BY <1>1, <1>2, <2>1, <2>2, <2>4
  <2>6. UpTo(p)'
    BY <1>4, <2>1, <2>3, <2>5 DEF UpTo
  <2> QED
    BY <1>1, <2>1, <2>6 DEF WritersInv, Queue
<1>9. Ours'
  <2>1. ASSUME NEW o \in pool', NEW v \in Writers, o.by = v
        PROVE  /\ o.index = write'[v].done + 1 /\ o.nonce = write'[v].nonce /\ o.fee = write'[v].fee
               /\ write'[v].pc \in {"send", "wait", "failed"}
    BY <1>1, <2>1 DEF WritersInv, Ours, Sending
  <2>2. ASSUME NEW k \in 1..Len(mined')
        PROVE  /\ mined'[k].nonce = k - 1
               /\ \A v \in Writers : mined'[k].by = v =>
                    /\ mined'[k].index <= write'[v].done + 1
                    /\ mined'[k].index = write'[v].done + 1 =>
                         mined'[k].nonce = write'[v].nonce /\ write'[v].pc \in {"send", "wait", "failed"}
    <3>1. CASE k \in 1..Len(mined)
      BY <1>1, <1>4, <3>1 DEF WritersInv, Ours, Sending
    <3>2. CASE k = Len(mined) + 1
      <4>1. \A v \in Writers : t.by = v =>
              /\ t.index = write[v].done + 1 /\ t.nonce = write[v].nonce
              /\ write[v].done \in Nat /\ write[v].pc \in {"send", "wait", "failed"}
        BY StepTypes DEF WritersInv, Ours, Sending
      <4>2. mined'[k] = m /\ write' = write
        BY <1>1, <1>4, <3>2
      <4>3. m.nonce = k - 1
        BY <1>1, <1>2, <1>3, <3>2
      <4> QED
        BY <1>3, <4>1, <4>2, <4>3
    <3> QED
      BY <1>5, <3>1, <3>2
  <2> QED
    BY <2>1, <2>2 DEF Ours, Sending
<1>10. Once'
  <2>1. \A k \in 1..Len(mined) : ~ SameWrite(t, mined[k])
    BY DEF WritersInv, Once
  <2>2. ASSUME NEW k \in 1..Len(mined'), NEW l \in 1..Len(mined'), SameWrite(mined'[k], mined'[l])
        PROVE  k = l
    <3>1. CASE k \in 1..Len(mined) /\ l \in 1..Len(mined)
      BY <1>4, <2>2, <3>1 DEF WritersInv, Once
    <3>2. CASE k = Len(mined) + 1 /\ l \in 1..Len(mined)
      BY <1>3, <1>4, <2>1, <2>2, <3>2 DEF SameWrite
    <3>3. CASE l = Len(mined) + 1 /\ k \in 1..Len(mined)
      BY <1>3, <1>4, <2>1, <2>2, <3>3 DEF SameWrite
    <3> QED
      BY <1>5, <3>1, <3>2, <3>3
  <2>3. ASSUME NEW o \in pool', NEW k \in 1..Len(mined'), SameWrite(o, mined'[k])
        PROVE  FALSE
    <3>1. o \in pool /\ o # t
      BY <1>1
    <3>2. CASE k \in 1..Len(mined)
      BY <1>4, <2>3, <3>1, <3>2 DEF WritersInv, Once
    <3>3. CASE k = Len(mined) + 1
      <4>1. o.by = t.by
        BY <1>3, <1>4, <2>3, <3>3 DEF SameWrite
      <4>2. o.nonce = t.nonce
        BY <1>2, <3>1, <4>1 DEF WritersInv, Ours
      <4> QED
        BY <3>1, <4>2 DEF WritersInv, Queue
    <3> QED
      BY <1>5, <3>2, <3>3
  <2>4. ASSUME NEW v \in Writers, NEW i \in 1..write'[v].done
        PROVE  \E k \in 1..Len(mined') : mined'[k].by = v /\ mined'[k].index = i /\ mined'[k].status
    <3>1. PICK k \in 1..Len(mined) : mined[k].by = v /\ mined[k].index = i /\ mined[k].status
      BY <1>1 DEF WritersInv, Once
    <3>2. k \in 1..Len(mined') /\ mined'[k] = mined[k]
      BY <1>2, <1>4
    <3> QED
      BY <3>1, <3>2
  <2> QED
    BY <2>2, <2>3, <2>4 DEF Once, SameWrite
<1>11. Identities'
  <2>1. ASSUME NEW x \in Registered, NEW k \in 1..Len(mined'), Revokes(mined'[k], x)
        PROVE  ~ identity'[x].isActive
    <3>1. CASE k \in 1..Len(mined)
      BY <1>4, <1>6, <2>1, <3>1 DEF WritersInv, Identities
    <3>2. CASE k = Len(mined) + 1
      BY <1>3, <1>4, <1>6, <2>1, <3>2 DEF Revokes
    <3> QED
      BY <1>5, <3>1, <3>2
  <2> QED
    BY <1>6, <2>1 DEF Identities, Revokes
<1> QED
  BY <1>7, <1>8, <1>9, <1>10, <1>11 DEF WritersInv

---------------------------------------------------------------------------
(* Every step.                                                             *)

LEMMA InitInv == Init => WritersInv
<1> SUFFICES ASSUME Init PROVE WritersInv
  OBVIOUS
<1>1. write = [w \in Writers |-> Unwritten] /\ pool = {} /\ mined = <<>> /\ paused = FALSE
      /\ identity = [x \in Registered |-> Fresh(FirstHash)]
  BY DEF Init
<1>2. Unwritten \in Locals /\ Unwritten.done = 0 /\ Unwritten.pc = "nonce"
  BY DEF Unwritten, Locals
<1>3. /\ Fresh(FirstHash) \in Record
      /\ Fresh(FirstHash).isRegistered /\ Fresh(FirstHash).codeHash = Fresh(FirstHash).agentHash
  BY WritersAssumption DEF Fresh, Record
<1>4. Len(mined) = 0 /\ mined \in Seq(MinedTx)
  BY <1>1
<1>5. \A w \in Writers : 0 < Len(WritesOf[w])
  BY WritersAssumption
<1>6. WritersTypeOK
  <2>1. write \in [Writers -> Locals]
    BY <1>1, <1>2
  <2>2. identity \in [Registered -> Record]
    BY <1>1, <1>3
  <2>3. \A w \in Writers : write[w].done = 0
    BY <1>1, <1>2
  <2> QED
    BY <1>1, <1>4, <1>5, <2>1, <2>2, <2>3 DEF WritersTypeOK
<1>7. Queue
  <2>1. Nonces = 0..(0 - 1)
    BY <1>1 DEF Nonces
  <2>2. UpTo(0)
    BY <1>4, <2>1 DEF UpTo
  <2> QED
    BY <1>1, <1>2, <2>2 DEF Queue
<1>8. Ours /\ Once
  <2>1. \A w \in Writers : write[w].done = 0
    BY <1>1, <1>2
  <2> QED
    BY <1>1, <1>4, <2>1 DEF Ours, Once
<1>9. Identities
  BY <1>1, <1>3, <1>4 DEF Identities
<1> QED
  BY <1>6, <1>7, <1>8, <1>9 DEF WritersInv

(* The admin and the indexer touch nothing the invariant speaks of but     *)
(* the pause.                                                              *)
LEMMA OthersKeep ==
  ASSUME WritersInv, UNCHANGED <<write, pool, mined, identity>>, paused' \in BOOLEAN
  PROVE  WritersInv'
<1>1. WritersTypeOK'
  BY DEF WritersInv, WritersTypeOK
<1>2. Queue' /\ Ours' /\ Once' /\ Identities'
  BY DEF WritersInv, Queue, UpTo, Nonces, Ours, Sending, Once, SameWrite, Identities, Revokes
<1> QED
  BY <1>1, <1>2 DEF WritersInv

LEMMA WriteKeeps == ASSUME WritersInv, NEW w \in Writers, WriteOnce(w) PROVE WritersInv'
<1>1. CASE ReadNonce(w)
  BY <1>1, ReadNonceKeeps
<1>2. CASE AllEndpointsUnavailable(w)
  BY <1>2, RaiseKeeps DEF AllEndpointsUnavailable, chainVars
<1>3. CASE SendTransaction(w) \/ SendReplyLost(w)
  BY <1>3, SendKeeps
<1>4. CASE SendRejected(w)
  BY <1>4, RaiseKeeps DEF SendRejected, chainVars
<1>5. CASE GetReceipt(w)
  BY <1>5, GetReceiptKeeps
<1>6. CASE ReceiptTimeout(w)
  BY <1>6, RaiseKeeps DEF ReceiptTimeout, chainVars
<1> QED
  BY <1>1, <1>2, <1>3, <1>4, <1>5, <1>6 DEF WriteOnce

LEMMA StepInv == WritersInv /\ [Next]_vars => WritersInv'
<1> SUFFICES ASSUME WritersInv, [Next]_vars PROVE WritersInv'
  OBVIOUS
<1>1. paused \in BOOLEAN
  BY DEF WritersInv, WritersTypeOK
<1>2. CASE \E w \in Writers : WriteOnce(w)
  BY <1>2, WriteKeeps
<1>3. CASE Mine
  BY <1>3, MineKeeps
<1>4. CASE \E r \in Runs : ResetRun(r)
  BY <1>1, <1>4, OthersKeep DEF ResetRun
<1>5. CASE TogglePause
  BY <1>5, OthersKeep DEF TogglePause
<1>6. CASE IndexScores
  BY <1>1, <1>6, OthersKeep DEF IndexScores, chainVars
<1>7. CASE UNCHANGED vars
  BY <1>1, <1>7, OthersKeep DEF vars
<1> QED
  BY <1>2, <1>3, <1>4, <1>5, <1>6, <1>7 DEF Next

LEMMA InvariantAlways == Spec => []WritersInv
<1>1. Init => WritersInv
  BY InitInv
<1>2. WritersInv /\ [Next]_vars => WritersInv'
  BY StepInv
<1> QED
  BY <1>1, <1>2, PTL DEF Spec

---------------------------------------------------------------------------
(* The theorems.                                                           *)

(* Every variable a task, the key or the identity registry keeps has its   *)
(* type, and a task that has not finished has a write to make.             *)
THEOREM WritersTypeCorrect == Spec => []WritersTypeOK
<1>1. WritersInv => WritersTypeOK
  BY DEF WritersInv
<1> QED
  BY <1>1, InvariantAlways, PTL

(* However the tasks race for nonces nobody allots, replace each other's   *)
(* transactions, time out and lose replies, the pool follows the mined     *)
(* nonces without a gap (identity_writer.py, score_writer.py).             *)
THEOREM QueueNeverStuckAlways == Spec => []QueueNeverStuck
<1>1. WritersInv => QueueNeverStuck
  <2> SUFFICES ASSUME WritersInv PROVE QueueNeverStuck
    OBVIOUS
  <2>1. PICK p \in Nat : UpTo(p)
    BY DEF WritersInv, Queue
  <2>2. PendingNonce = p
    BY <2>1, Pending DEF WritersInv, WritersTypeOK
  <2> QED
    BY <2>1, <2>2 DEF QueueNeverStuck, ChainNonce, UpTo, Nonces
<1> QED
  BY <1>1, InvariantAlways, PTL

(* What a task counts as written took effect exactly once, what it is at   *)
(* at most once, and nothing after it at all (score_writer.py:43-75).      *)
THEOREM ReportedWritesAreMinedAlways == Spec => []ReportedWritesAreMined
<1>1. WritersInv => ReportedWritesAreMined
  <2> SUFFICES ASSUME WritersInv, NEW w \in Writers, NEW i \in 1..Len(WritesOf[w])
               PROVE  IF i <= write[w].done THEN Cardinality(Effects(w, i)) = 1
                      ELSE Cardinality(Effects(w, i)) <= (IF i = write[w].done + 1 THEN 1 ELSE 0)
    BY DEF ReportedWritesAreMined
  <2>1. /\ \A k \in 1..Len(mined) : mined[k].index \in Nat
        /\ write[w].done \in Nat /\ i \in Nat
    <3>1. Len(WritesOf[w]) \in Nat
      BY WritersAssumption
    <3>2. write[w].done \in Nat /\ \A k \in 1..Len(mined) : mined[k] \in MinedTx
      BY StepTypes DEF WritersInv
    <3> QED
      BY <3>1, <3>2 DEF MinedTx
  <2>2. \A k, l \in Effects(w, i) : k = l
    BY DEF Effects, WritersInv, Once, SameWrite
  <2>3. Effects(w, i) = {} \/ \E k \in Effects(w, i) : Effects(w, i) = {k}
    BY <2>2
  <2>4. \/ Effects(w, i) = {} /\ Cardinality(Effects(w, i)) = 0
        \/ Effects(w, i) # {} /\ Cardinality(Effects(w, i)) = 1
    BY <2>3, FS_EmptySet, FS_Singleton
  <2>5. CASE i <= write[w].done
    <3>1. i \in 1..write[w].done
      BY <2>1, <2>5
    <3>2. Effects(w, i) # {}
      BY <3>1 DEF Effects, WritersInv, Once
    <3> QED
      BY <2>4, <2>5, <3>2
  <2>6. CASE i = write[w].done + 1
    BY <2>1, <2>4, <2>6
  <2>7. CASE i > write[w].done + 1
    <3>1. \A k \in 1..Len(mined) : mined[k].by = w => mined[k].index <= write[w].done + 1
      BY DEF WritersInv, Ours
    <3>2. Effects(w, i) = {}
      BY <2>1, <2>7, <3>1 DEF Effects
    <3> QED
      BY <2>1, <2>4, <2>7, <3>2
  <2> QED
    BY <2>1, <2>5, <2>6, <2>7
<1> QED
  BY <1>1, InvariantAlways, PTL

(* Whatever registration overtakes or follows its revocation, an agent once*)
(* revoked verifies with no hash (main.py:1647-1660).                      *)
THEOREM RevokedForGoodAlways == Spec => []RevokedForGood
<1>1. WritersInv => RevokedForGood
  <2> SUFFICES ASSUME WritersInv, NEW x \in Registered, NEW h \in Hashes
               PROVE  /\ VerifyAgent(x, h) = VerifyAgentFull(x, h)
                      /\ VerifyAgent(x, h) =>
                           ~ \E k \in 1..Len(mined) :
                               mined[k].status /\ mined[k].call.kind = "revoke" /\ mined[k].call.agent = x
    BY DEF RevokedForGood
  <2>1. identity[x].codeHash = identity[x].agentHash
    BY DEF WritersInv, Identities
  <2>2. VerifyAgent(x, h) <=> VerifyAgentFull(x, h)
    BY <2>1 DEF VerifyAgent, VerifyAgentFull
  <2>3. VerifyAgent(x, h) \in BOOLEAN /\ VerifyAgentFull(x, h) \in BOOLEAN
    BY DEF VerifyAgent, VerifyAgentFull
  <2>4. VerifyAgent(x, h) = VerifyAgentFull(x, h)
    BY <2>2, <2>3
  <2>5. VerifyAgent(x, h) => identity[x].isActive
    BY DEF VerifyAgent
  <2> QED
    BY <2>4, <2>5 DEF WritersInv, Identities, Revokes
<1> QED
  BY <1>1, InvariantAlways, PTL

---------------------------------------------------------------------------
(* The scores: ids in order.                                               *)

(* A new id comes after all those there were.                              *)
LEMMA LatestId ==
  ASSUME NEW n \in Nat, NEW ids \in SUBSET (1..n)
  PROVE  /\ IsFiniteSet(ids) /\ Cardinality(ids) \in Nat
         /\ Cardinality(ids \cup {n + 1}) = Cardinality(ids) + 1
         /\ \A id \in ids : Before(ids \cup {n + 1}, id) = Before(ids, id)
         /\ Before(ids \cup {n + 1}, n + 1) = Cardinality(ids)
<1>1. IsFiniteSet(1..n)
  BY FS_Interval
<1>2. IsFiniteSet(ids) /\ Cardinality(ids) \in Nat
  BY <1>1, FS_Subset, FS_CardinalityType
<1>3. n + 1 \notin ids
  OBVIOUS
<1>4. Cardinality(ids \cup {n + 1}) = Cardinality(ids) + 1
  BY <1>2, <1>3, FS_AddElement
<1>5. ASSUME NEW id \in ids PROVE {k \in ids \cup {n + 1} : k < id} = {k \in ids : k < id}
  OBVIOUS
<1>6. {k \in ids \cup {n + 1} : k < n + 1} = ids
  <2>1. \A k \in ids : k < n + 1
    OBVIOUS
  <2>2. ~ (n + 1 < n + 1)
    OBVIOUS
  <2> QED
    BY <2>1, <2>2
<1> QED
  BY <1>2, <1>4, <1>5, <1>6 DEF Before

(* The ids of an interval in order.                                        *)
LEMMA IntervalInOrder ==
  ASSUME NEW a \in Nat, NEW b \in Nat, a <= b + 1
  PROVE  InOrder(a..b) = [i \in 1..(b + 1 - a) |-> a + i - 1]
<1>1. Cardinality(a..b) = b + 1 - a
  <2>1. Cardinality(a..b) = IF a > b THEN 0 ELSE b - a + 1
    BY FS_Interval
  <2> QED
    BY <2>1
<1>2. ASSUME NEW id \in a..b PROVE Before(a..b, id) = id - a
  <2>1. {k \in a..b : k < id} = a..(id - 1)
    OBVIOUS
  <2>2. Cardinality(a..(id - 1)) = id - a
    <3>1. Cardinality(a..(id - 1)) = IF a > id - 1 THEN 0 ELSE (id - 1) - a + 1
      BY FS_Interval
    <3> QED
      BY <3>1
  <2> QED
    BY <2>1, <2>2 DEF Before
<1>3. ASSUME NEW i \in 1..(b + 1 - a)
      PROVE  (CHOOSE id \in a..b : Before(a..b, id) = i - 1) = a + i - 1
  <2>1. a + i - 1 \in a..b /\ Before(a..b, a + i - 1) = i - 1
    BY <1>2
  <2>2. \A id \in a..b : Before(a..b, id) = i - 1 => id = a + i - 1
    BY <1>2
  <2> QED
    BY <2>1, <2>2
<1> QED
  BY <1>1, <1>3 DEF InOrder

---------------------------------------------------------------------------
(* The scores: the invariant.                                              *)

Packed    == [hasScore : BOOLEAN, score : Nat]
RunBoard  == [state : [Agents -> Packed], history : [Agents -> Seq(Nat)],
              agents : Seq(Agents), reset : BOOLEAN]
ScoreCall == [kind : {"score"}, agent : Agents, run : Runs, value : Nat]

(* What the contract keeps of one run: every agent once on the leaderboard,*)
(* and its last score packed.                                              *)
Scored(b) == {a \in Agents : b.state[a].hasScore}
Tallied(b) ==
  /\ IsFiniteSet(Scored(b)) /\ Cardinality(Scored(b)) = Len(b.agents)
  /\ \A a \in Agents :
       /\ b.state[a].hasScore <=> (\E i \in 1..Len(b.agents) : b.agents[i] = a)
       /\ b.state[a].hasScore <=> b.history[a] # <<>>
       /\ IF b.state[a].hasScore THEN b.state[a].score = b.history[a][Len(b.history[a])]
                                 ELSE b.state[a] = NoScore

(* The events of an agent in a run, and its history as they tell it.       *)
Ids(es, a, r) == {i \in 1..Len(es) : es[i].agent = a /\ es[i].run = r}
Tells(es, a, r, h) ==
  LET ids == Ids(es, a, r)
  IN  /\ Cardinality(ids) = Len(h)
      /\ \A i \in ids : Before(ids, i) + 1 \in 1..Len(h) /\ h[Before(ids, i) + 1] = es[i].value
      /\ \A j \in 1..Len(h) : \E i \in ids : Before(ids, i) = j - 1

ScoresInv ==
  /\ board \in [Runs -> RunBoard]
  /\ events \in Seq(ScoreCall)
  /\ Len(rows) \in Nat /\ Len(rows) <= Len(events) /\ rows = [i \in 1..Len(rows) |-> i]
  /\ \A r \in Runs :
       /\ Tallied(board[r])
       /\ ~ board[r].reset => \A a \in Agents : Tells(events, a, r, board[r].history[a])

---------------------------------------------------------------------------
(* An update of the board and its event.                                   *)

(* What one run's board becomes.                                           *)
Rescored(b, a, v) ==
  [b EXCEPT !.state[a] = [hasScore |-> TRUE, score |-> v],
            !.history[a] = Append(@, v),
            !.agents = IF b.state[a].hasScore THEN @ ELSE Append(@, a)]

LEMMA UpdateTallies ==
  ASSUME NEW b \in RunBoard, Tallied(b), NEW a \in Agents, NEW v \in Nat, NEW c, c = Rescored(b, a, v)
  PROVE  /\ c \in RunBoard /\ Tallied(c) /\ c.reset = b.reset
         /\ c.history = [b.history EXCEPT ![a] = Append(b.history[a], v)]
<1>1. /\ b.state \in [Agents -> Packed] /\ b.history \in [Agents -> Seq(Nat)]
      /\ b.agents \in Seq(Agents) /\ b.reset \in BOOLEAN
      /\ b.history[a] \in Seq(Nat)
  BY DEF RunBoard
<1>2. PICK p \in Packed : p = [hasScore |-> TRUE, score |-> v]
  BY DEF Packed
<1>3. p.hasScore /\ p.score = v
  BY <1>2
<1>4. PICK h \in Seq(Nat) : h = Append(b.history[a], v)
  <2>1. PICK o \in Seq(Nat) : o = b.history[a]
    BY <1>1
  <2>2. Append(o, v) \in Seq(Nat)
    OBVIOUS
  <2> QED
    BY <2>1, <2>2
<1>5. h # <<>> /\ h[Len(h)] = v
  <2>1. PICK o \in Seq(Nat) : o = b.history[a]
    BY <1>1
  <2>2. Len(h) = Len(o) + 1 /\ Len(o) \in Nat /\ h[Len(o) + 1] = v
    BY <1>4, <2>1
  <2> QED
    BY <2>2
<1>6. PICK l \in Seq(Agents) : l = IF b.state[a].hasScore THEN b.agents ELSE Append(b.agents, a)
  <2>1. b.agents \in Seq(Agents) /\ Append(b.agents, a) \in Seq(Agents)
    BY <1>1
  <2> QED
    BY <2>1
<1>7. PICK st, hs : /\ st \in [Agents -> Packed] /\ hs \in [Agents -> Seq(Nat)]
                    /\ st = [b.state EXCEPT ![a] = p] /\ hs = [b.history EXCEPT ![a] = h]
  <2>1. [b.state EXCEPT ![a] = p] \in [Agents -> Packed]
    BY <1>1
  <2>2. [b.history EXCEPT ![a] = h] \in [Agents -> Seq(Nat)]
    BY <1>1
  <2> QED
    BY <2>1, <2>2
<1>8. /\ c.state = st /\ c.history = hs /\ c.agents = l /\ c.reset = b.reset
      /\ c \in RunBoard
  <2>1. c = [b EXCEPT !.state = st, !.history = hs, !.agents = l]
    BY <1>2, <1>4, <1>6, <1>7 DEF Rescored
  <2> QED
    BY <1>6, <1>7, <2>1 DEF RunBoard
<1>9. /\ c.state[a] = p /\ c.history[a] = h
      /\ \A x \in Agents \ {a} : c.state[x] = b.state[x] /\ c.history[x] = b.history[x]
  BY <1>1, <1>7, <1>8
<1>10. Scored(c) = Scored(b) \cup {a}
  BY <1>3, <1>9 DEF Scored
<1>11. IsFiniteSet(Scored(c)) /\ Cardinality(Scored(c)) = Len(c.agents)
  <2>1. IsFiniteSet(Scored(b)) /\ Cardinality(Scored(b)) = Len(b.agents)
    BY DEF Tallied
  <2>2. CASE b.state[a].hasScore
    <3>1. Scored(c) = Scored(b)
      BY <1>10, <2>2 DEF Scored
    <3> QED
      BY <1>6, <1>8, <2>1, <2>2, <3>1
  <2>3. CASE ~ b.state[a].hasScore
    <3>1. a \notin Scored(b)
      BY <2>3 DEF Scored
    <3>2. Len(c.agents) = Len(b.agents) + 1
      <4>1. c.agents = Append(b.agents, a)
        BY <1>6, <1>8, <2>3
      <4> QED
        BY <1>1, <4>1
    <3> QED
      BY <1>10, <2>1, <3>1, <3>2, FS_AddElement
  <2> QED
    BY <2>2, <2>3
<1>12. ASSUME NEW x \in Agents
       PROVE  c.state[x].hasScore <=> (\E i \in 1..Len(c.agents) : c.agents[i] = x)
  <2>1. b.state[x].hasScore <=> (\E i \in 1..Len(b.agents) : b.agents[i] = x)
    BY DEF Tallied
  <2>2. CASE b.state[a].hasScore
    <3>1. c.agents = b.agents
      BY <1>6, <1>8, <2>2
    <3>2. c.state[x].hasScore <=> b.state[x].hasScore
      <4>1. CASE x = a
        BY <1>3, <1>9, <2>2, <4>1
      <4>2. CASE x # a
        BY <1>9, <4>2
      <4> QED
        BY <4>1, <4>2
    <3> QED
      BY <2>1, <3>1, <3>2
  <2>3. CASE ~ b.state[a].hasScore
    <3>1. /\ Len(b.agents) \in Nat /\ Len(c.agents) = Len(b.agents) + 1
          /\ c.agents[Len(b.agents) + 1] = a
          /\ \A i \in 1..Len(b.agents) : c.agents[i] = b.agents[i]
      <4>1. PICK q \in Seq(Agents) : q = b.agents
        BY <1>1
      <4>2. c.agents = Append(q, a)
        BY <1>6, <1>8, <2>3, <4>1
      <4> QED
        BY <4>1, <4>2
    <3>2. CASE x = a
      <4>1. Len(b.agents) + 1 \in 1..Len(c.agents)
        BY <3>1
      <4> QED
        BY <1>3, <1>9, <3>1, <3>2, <4>1
    <3>3. CASE x # a
      <4>1. \A i \in 1..Len(c.agents) : i \in 1..Len(b.agents) \/ i = Len(b.agents) + 1
        BY <3>1
      <4>2. \A i \in 1..Len(b.agents) : i \in 1..Len(c.agents)
        BY <3>1
      <4> QED
        BY <1>9, <2>1, <3>1, <3>3, <4>1, <4>2
    <3> QED
      BY <3>2, <3>3
  <2> QED
    BY <2>2, <2>3
<1>13. ASSUME NEW x \in Agents
       PROVE  /\ c.state[x].hasScore <=> c.history[x] # <<>>
              /\ IF c.state[x].hasScore THEN c.state[x].score = c.history[x][Len(c.history[x])]
                                        ELSE c.state[x] = NoScore
  <2>1. CASE x = a
    BY <1>3, <1>5, <1>9, <2>1
  <2>2. CASE x # a
    BY <1>9, <2>2 DEF Tallied
  <2> QED
    BY <2>1, <2>2
<1> QED
  BY <1>4, <1>7, <1>8, <1>11, <1>12, <1>13 DEF Tallied

(* Its event leaves what the events tell of the others, and tells this one.*)
LEMMA EventTells ==
  ASSUME NEW es \in Seq(ScoreCall), NEW c \in ScoreCall, NEW a \in Agents, NEW r \in Runs,
         NEW h \in Seq(Nat), Tells(es, a, r, h),
         NEW g, g = IF c.agent = a /\ c.run = r THEN Append(h, c.value) ELSE h
  PROVE  Tells(Append(es, c), a, r, g)
<1> DEFINE fs == Append(es, c)
           n == Len(es)
           ids == Ids(es, a, r)
<1>1. /\ n \in Nat /\ Len(fs) = n + 1 /\ fs[n + 1] = c /\ \A i \in 1..n : fs[i] = es[i]
      /\ \A i \in 1..(n + 1) : i \in 1..n \/ i = n + 1
  OBVIOUS
<1>2. ids \subseteq 1..n
  BY DEF Ids
<1>3. /\ Cardinality(ids) = Len(h) /\ Len(h) \in Nat
      /\ \A i \in ids : Before(ids, i) + 1 \in 1..Len(h) /\ h[Before(ids, i) + 1] = es[i].value
      /\ \A j \in 1..Len(h) : \E i \in ids : Before(ids, i) = j - 1
  BY DEF Tells
<1>4. CASE ~ (c.agent = a /\ c.run = r)
  <2>1. Ids(fs, a, r) = ids
    <3>1. \A i : i \in Ids(fs, a, r) <=> i \in ids
      BY <1>1, <1>4 DEF Ids
    <3> QED
      BY <3>1
  <2>2. \A i \in ids : fs[i] = es[i]
    BY <1>1, <1>2
  <2> HIDE DEF fs, ids
  <2> QED
    BY <1>3, <1>4, <2>1, <2>2 DEF Tells, fs
<1>5. CASE c.agent = a /\ c.run = r
  <2>1. Ids(fs, a, r) = ids \cup {n + 1}
    <3>1. \A i : i \in Ids(fs, a, r) <=> i \in ids \cup {n + 1}
      BY <1>1, <1>5 DEF Ids
    <3> QED
      BY <3>1
  <2>2. \A i \in ids : fs[i] = es[i]
    BY <1>1, <1>2
  <2>3. /\ Len(g) = Len(h) + 1 /\ g[Len(h) + 1] = c.value
        /\ \A j \in 1..Len(h) : g[j] = h[j]
    BY <1>5 DEF ScoreCall
  <2> HIDE DEF fs, ids, n
  <2> DEFINE new == ids \cup {n + 1}
  <2>4. /\ Cardinality(new) = Len(g)
        /\ \A i \in ids : Before(new, i) = Before(ids, i)
        /\ Before(new, n + 1) = Len(h)
    BY <1>1, <1>2, <1>3, <2>3, LatestId
  <2> HIDE DEF new
  <2>5. \A i \in new : i \in ids \/ i = n + 1
    BY DEF new
  <2>6. n + 1 \in new /\ \A i \in ids : i \in new
    BY DEF new
  <2>7. ASSUME NEW i \in new
        PROVE  Before(new, i) + 1 \in 1..Len(g) /\ g[Before(new, i) + 1] = fs[i].value
    <3>1. CASE i \in ids
      BY <1>3, <2>2, <2>3, <2>4, <3>1
    <3>2. CASE i = n + 1
      BY <1>1, <1>3, <2>3, <2>4, <3>2
    <3> QED
      BY <2>5, <3>1, <3>2
  <2>8. ASSUME NEW j \in 1..Len(g)
        PROVE  \E i \in new : Before(new, i) = j - 1
    <3>1. CASE j \in 1..Len(h)
      BY <1>3, <2>4, <2>6, <3>1
    <3>2. CASE j = Len(h) + 1
      BY <1>3, <2>4, <2>6, <3>2
    <3> QED
      BY <1>3, <2>3, <3>1, <3>2
  <2>9. Ids(fs, a, r) = new
    BY <2>1 DEF new
  <2> QED
    BY <2>4, <2>7, <2>8, <2>9 DEF Tells, fs
<1> QED
  BY <1>4, <1>5

---------------------------------------------------------------------------
(* The scores: every step.                                                 *)

LEMMA MinedScores == ASSUME WritersInv, ScoresInv, Mine PROVE ScoresInv'
<1>1. PICK t \in pool :
        /\ IF Effective(t.call) THEN Apply(t.call) ELSE UNCHANGED <<board, events, identity>>
        /\ rows' = rows
  BY DEF Mine
<1>2. PICK c \in Write : c = t.call
  BY DEF WritersInv, WritersTypeOK, Txn
<1>3. /\ board \in [Runs -> RunBoard] /\ events \in Seq(ScoreCall) /\ Len(events) \in Nat
      /\ Len(rows) \in Nat /\ Len(rows) <= Len(events) /\ rows = [i \in 1..Len(rows) |-> i]
  BY DEF ScoresInv
<1>4. CASE board' = board /\ events' = events
  BY <1>1, <1>4 DEF ScoresInv
<1>5. CASE c.kind = "score" /\ board' = Updated(board, c) /\ events' = Append(events, c)
  <2>1. c \in ScoreCall /\ c.agent \in Agents /\ c.run \in Runs /\ c.value \in Nat
    BY <1>5 DEF Write, ScoreCall
  <2>2. PICK b : b = Rescored(board[c.run], c.agent, c.value)
    OBVIOUS
  <2>3. board' = [board EXCEPT ![c.run] = b]
    BY <1>5, <2>2 DEF Updated, Rescored
  <2>4. /\ b \in RunBoard /\ Tallied(b) /\ b.reset = board[c.run].reset
        /\ b.history = [board[c.run].history EXCEPT ![c.agent] = Append(board[c.run].history[c.agent], c.value)]
    <3>1. board[c.run] \in RunBoard /\ Tallied(board[c.run])
      BY <1>3, <2>1 DEF ScoresInv
    <3>2. PICK old \in RunBoard : old = board[c.run]
      BY <3>1
    <3>3. /\ b \in RunBoard /\ Tallied(b) /\ b.reset = old.reset
          /\ b.history = [old.history EXCEPT ![c.agent] = Append(old.history[c.agent], c.value)]
      <4>1. PICK x \in Agents, v \in Nat : x = c.agent /\ v = c.value
        BY <2>1
      <4>2. Tallied(old) /\ b = Rescored(old, x, v)
        BY <2>2, <3>1, <3>2, <4>1
      <4>3. /\ b \in RunBoard /\ Tallied(b) /\ b.reset = old.reset
            /\ b.history = [old.history EXCEPT ![x] = Append(old.history[x], v)]
        BY <4>2, UpdateTallies
      <4> QED
        BY <4>1, <4>3
    <3> QED
      BY <3>2, <3>3
  <2>5. board' \in [Runs -> RunBoard] /\ board'[c.run] = b /\ \A r \in Runs \ {c.run} : board'[r] = board[r]
    BY <1>3, <2>1, <2>3, <2>4
  <2>6. events' \in Seq(ScoreCall) /\ Len(events') = Len(events) + 1
    BY <1>3, <1>5, <2>1
  <2>7. Len(rows') \in Nat /\ Len(rows') <= Len(events') /\ rows' = [i \in 1..Len(rows') |-> i]
    BY <1>1, <1>3, <2>6
  <2>8. ASSUME NEW r \in Runs PROVE Tallied(board'[r])
    BY <2>4, <2>5 DEF ScoresInv
  <2>9. ASSUME NEW r \in Runs, ~ board'[r].reset, NEW a \in Agents
        PROVE  Tells(events', a, r, board'[r].history[a])
    <3>1. ~ board[r].reset
      BY <2>4, <2>5, <2>9
    <3>2. PICK h \in Seq(Nat) : h = board[r].history[a]
      BY <1>3 DEF RunBoard
    <3>3. Tells(events, a, r, h)
      BY <3>1, <3>2 DEF ScoresInv
    <3>4. board'[r].history[a] = IF c.agent = a /\ c.run = r THEN Append(h, c.value) ELSE h
      <4>1. board[c.run].history \in [Agents -> Seq(Nat)]
        BY <1>3, <2>1 DEF RunBoard
      <4> QED
        BY <2>1, <2>4, <2>5, <3>2, <4>1
    <3> QED
      BY <1>3, <1>5, <2>1, <3>2, <3>3, <3>4, EventTells
  <2> QED
    BY <2>5, <2>6, <2>7, <2>8, <2>9 DEF ScoresInv
<1> QED
  BY <1>1, <1>2, <1>4, <1>5 DEF Apply

LEMMA NothingTallied ==
  ASSUME NEW flag \in BOOLEAN, NEW b,
         b = [state |-> [a \in Agents |-> NoScore], history |-> [a \in Agents |-> <<>>],
              agents |-> <<>>, reset |-> flag]
  PROVE  b \in RunBoard /\ Tallied(b)
<1>1. NoScore \in Packed /\ ~ NoScore.hasScore
  BY DEF NoScore, Packed
<1>2. /\ b.state = [a \in Agents |-> NoScore] /\ b.history = [a \in Agents |-> <<>>]
      /\ b.agents = <<>> /\ b.reset = flag
  OBVIOUS
<1>3. b \in RunBoard
  <2>1. <<>> \in Seq(Nat) /\ <<>> \in Seq(Agents)
    OBVIOUS
  <2> QED
    BY <1>1, <2>1 DEF RunBoard
<1>4. Scored(b) = {}
  BY <1>1, <1>2 DEF Scored
<1>5. IsFiniteSet({}) /\ Cardinality({}) = 0
  BY FS_EmptySet
<1>6. Len(b.agents) = 0 /\ ~ \E i \in 1..Len(b.agents) : TRUE
  BY <1>2
<1>7. IsFiniteSet(Scored(b)) /\ Cardinality(Scored(b)) = Len(b.agents)
  BY <1>4, <1>5, <1>6
<1>8. \A a \in Agents : b.state[a] = NoScore /\ b.history[a] = <<>>
  BY <1>2
<1> QED
  BY <1>1, <1>3, <1>6, <1>7, <1>8 DEF Tallied

LEMMA ResetScores == ASSUME ScoresInv, NEW r \in Runs, ResetRun(r) PROVE ScoresInv'
<1>1. PICK b : b = [state |-> [a \in Agents |-> NoScore], history |-> [a \in Agents |-> <<>>],
                    agents |-> <<>>, reset |-> TRUE]
  OBVIOUS
<1>2. b \in RunBoard /\ Tallied(b) /\ b.reset
  BY <1>1, NothingTallied
<1>3. board' = [board EXCEPT ![r] = b] /\ events' = events /\ rows' = rows
  BY <1>1 DEF ResetRun, ResetAgents
<1>4. /\ board' \in [Runs -> RunBoard] /\ board'[r] = b
      /\ \A s \in Runs \ {r} : board'[s] = board[s]
  BY <1>2, <1>3 DEF ScoresInv
<1>5. \A s \in Runs : /\ Tallied(board'[s])
                      /\ ~ board'[s].reset => \A a \in Agents : Tells(events, a, s, board'[s].history[a])
  BY <1>2, <1>4 DEF ScoresInv
<1> QED
  BY <1>3, <1>4, <1>5 DEF ScoresInv

(* The indexer inserts what it does not have, in order.                    *)
LEMMA IndexedScores == ASSUME ScoresInv, IndexScores PROVE ScoresInv'
<1>1. PICK from \in 1..Len(events) : from <= Len(rows) + 1 /\ rows' = rows \o NewOf(from)
  BY DEF IndexScores
<1>2. PICK m \in Nat, n \in Nat : /\ m = Len(rows) /\ n = Len(events) /\ m <= n
                                  /\ rows = [i \in 1..m |-> i]
  <2>1. events \in Seq(ScoreCall) /\ Len(rows) \in Nat /\ Len(rows) <= Len(events)
        /\ rows = [i \in 1..Len(rows) |-> i]
    BY DEF ScoresInv
  <2>2. Len(events) \in Nat
    BY <2>1
  <2> QED
    BY <2>1, <2>2
<1>3. (from..n) \ RowIds = (m + 1)..n
  <2>1. RowIds = 1..m
    <3>1. \A i \in 1..m : rows[i] = i
      BY <1>2
    <3>2. RowIds = {rows[i] : i \in 1..m}
      BY <1>2 DEF RowIds
    <3> QED
      BY <3>1, <3>2
  <2> QED
    BY <1>1, <1>2, <2>1
<1>4. NewOf(from) = [i \in 1..(n - m) |-> m + i]
  <2>1. InOrder((m + 1)..n) = [i \in 1..(n + 1 - (m + 1)) |-> (m + 1) + i - 1]
    BY <1>2, IntervalInOrder
  <2>2. n + 1 - (m + 1) = n - m /\ \A i \in 1..(n - m) : (m + 1) + i - 1 = m + i
    BY <1>2
  <2> QED
    BY <1>2, <1>3, <2>1, <2>2 DEF NewOf
<1>5. rows' = [i \in 1..n |-> i] /\ Len(rows') = n
  <2>1. PICK x \in Seq(Nat), y \in Seq(Nat) : x = [i \in 1..m |-> i] /\ y = [i \in 1..(n - m) |-> m + i]
    <3>1. [i \in 1..m |-> i] \in Seq(Nat)
      OBVIOUS
    <3>2. [i \in 1..(n - m) |-> m + i] \in Seq(Nat)
      BY <1>2
    <3> QED
      BY <3>1, <3>2
  <2>2. Len(x) = m /\ Len(y) = n - m
    BY <1>2, <2>1
  <2>3. rows' = x \o y
    BY <1>1, <1>2, <1>4, <2>1
  <2>4. x \o y \in Seq(Nat) /\ Len(x \o y) = n
    BY <1>2, <2>2
  <2>5. \A i \in 1..n : (x \o y)[i] = i
    <3>1. \A i \in 1..n : (x \o y)[i] = IF i <= m THEN x[i] ELSE y[i - m]
      BY <1>2, <2>2
    <3>2. ASSUME NEW i \in 1..n PROVE (x \o y)[i] = i
      <4>1. CASE i <= m
        BY <1>2, <2>1, <3>1, <4>1
      <4>2. CASE ~ i <= m
        <5>1. i - m \in 1..(n - m) /\ m + (i - m) = i
          BY <1>2, <4>2
        <5> QED
          BY <2>1, <3>1, <4>2, <5>1
      <4> QED
        BY <4>1, <4>2
    <3> QED
      BY <3>2
  <2>6. PICK z \in Seq(Nat) : z = x \o y
    BY <2>4
  <2>7. z = [i \in 1..n |-> z[i]]
    <3>1. Len(z) = n
      BY <2>4, <2>6
    <3>2. z = [i \in 1..Len(z) |-> z[i]]
      OBVIOUS
    <3> QED
      BY <3>1, <3>2
  <2> QED
    BY <2>3, <2>4, <2>5, <2>6, <2>7
<1>6. board' = board /\ events' = events
  BY DEF IndexScores, chainVars
<1> QED
  BY <1>2, <1>5, <1>6 DEF ScoresInv

LEMMA ScoresInit == Init => ScoresInv
<1> SUFFICES ASSUME Init PROVE ScoresInv
  OBVIOUS
<1>1. PICK b : b = [state |-> [a \in Agents |-> NoScore], history |-> [a \in Agents |-> <<>>],
                    agents |-> <<>>, reset |-> FALSE]
  OBVIOUS
<1>2. b \in RunBoard /\ Tallied(b)
  BY <1>1, NothingTallied
<1>3. board = [r \in Runs |-> b] /\ events = <<>> /\ rows = <<>>
  BY <1>1 DEF Init
<1>4. Len(events) = 0 /\ Len(rows) = 0 /\ events \in Seq(ScoreCall) /\ rows = [i \in 1..0 |-> i]
  BY <1>3
<1>5. ASSUME NEW r \in Runs, NEW a \in Agents PROVE Tells(events, a, r, board[r].history[a])
  <2>1. board[r].history[a] = <<>>
    BY <1>1, <1>3
  <2>2. Ids(events, a, r) = {}
    BY <1>4 DEF Ids
  <2>3. Cardinality({}) = 0
    BY FS_EmptySet
  <2> QED
    BY <2>1, <2>2, <2>3 DEF Tells
<1> QED
  BY <1>2, <1>3, <1>4, <1>5 DEF ScoresInv

LEMMA ScoresStep == WritersInv /\ ScoresInv /\ [Next]_vars => ScoresInv'
<1> SUFFICES ASSUME WritersInv, ScoresInv, [Next]_vars PROVE ScoresInv'
  OBVIOUS
<1>1. CASE UNCHANGED <<board, events, rows>>
  BY <1>1 DEF ScoresInv
<1>2. CASE \E w \in Writers : WriteOnce(w)
  BY <1>1, <1>2 DEF WriteOnce, ReadNonce, AllEndpointsUnavailable, SendTransaction, SendRejected,
                    SendReplyLost, GetReceipt, ReceiptTimeout, chainVars
<1>3. CASE Mine
  BY <1>3, MinedScores
<1>4. CASE \E r \in Runs : ResetRun(r)
  BY <1>4, ResetScores
<1>5. CASE TogglePause
  BY <1>1, <1>5 DEF TogglePause
<1>6. CASE IndexScores
  BY <1>6, IndexedScores
<1>7. CASE UNCHANGED vars
  BY <1>1, <1>7 DEF vars
<1> QED
  BY <1>2, <1>3, <1>4, <1>5, <1>6, <1>7 DEF Next

(* What is served of an agent whose events are all indexed.                *)
LEMMA Served ==
  ASSUME ScoresInv, Len(rows) >= Len(events), NEW r \in Runs, NEW a \in Agents,
         ~ board[r].reset
  PROVE  ServedHistory(a, r) = board[r].history[a]
<1>1. PICK h \in Seq(Nat) : h = board[r].history[a]
  BY DEF ScoresInv, RunBoard
<1>2. PICK n \in Nat : n = Len(h)
  OBVIOUS
<1>3. Len(rows) = Len(events) /\ rows = [i \in 1..Len(events) |-> i]
  BY DEF ScoresInv
<1>4. ScoreRows(a, r) = Ids(events, a, r)
  BY <1>3 DEF ScoreRows, Ids
<1>5. PICK ids : ids = Ids(events, a, r)
  OBVIOUS
<1>6. /\ Cardinality(ids) = n
      /\ \A i \in ids : Before(ids, i) + 1 \in 1..n /\ h[Before(ids, i) + 1] = events[i].value
      /\ \A j \in 1..n : \E i \in ids : Before(ids, i) = j - 1
      /\ ids \subseteq 1..Len(events)
  <2>1. Tells(events, a, r, h)
    BY <1>1 DEF ScoresInv
  <2>2. ids \subseteq 1..Len(events)
    BY <1>5 DEF Ids
  <2> QED
    BY <1>2, <1>5, <2>1, <2>2 DEF Tells
<1>7. PICK s : s = InOrder(ids)
  OBVIOUS
<1>8. /\ s = [j \in 1..n |-> CHOOSE id \in ids : Before(ids, id) = j - 1]
      /\ Len(s) = n
  BY <1>6, <1>7 DEF InOrder
<1>9. ASSUME NEW j \in 1..n PROVE events[rows[s[j]]].value = h[j]
  <2>1. s[j] \in ids /\ Before(ids, s[j]) = j - 1
    BY <1>6, <1>8
  <2>2. rows[s[j]] = s[j]
    BY <1>3, <1>6, <2>1
  <2>3. Before(ids, s[j]) + 1 = j
    BY <2>1
  <2> QED
    BY <1>6, <2>1, <2>2, <2>3
<1>10. ServedHistory(a, r) = [j \in 1..n |-> events[rows[s[j]]].value]
  BY <1>4, <1>5, <1>7, <1>8 DEF ServedHistory
<1>11. ServedHistory(a, r) = [j \in 1..n |-> h[j]]
  BY <1>9, <1>10
<1>12. h = [j \in 1..n |-> h[j]]
  BY <1>2
<1> QED
  BY <1>1, <1>11, <1>12

(* A run's scores agree however they are asked for: packed, as a history,  *)
(* on the leaderboard, and from rm_scores once its events are indexed      *)
(* (TrustScoreRegistryV2._updateScore, indexer/handlers.py).               *)
THEOREM ScoresAgreeAlways == Spec => []ScoresAgree
<1>1. Init => ScoresInv
  BY ScoresInit
<1>2. WritersInv /\ ScoresInv /\ [Next]_vars => ScoresInv'
  BY ScoresStep
<1>3. ScoresInv => ScoresAgree
  <2> SUFFICES ASSUME ScoresInv, NEW r \in Runs
               PROVE  /\ Len(board[r].agents) = Cardinality({a \in Agents : board[r].state[a].hasScore})
                      /\ \A a \in Agents :
                           LET b == board[r]
                           IN  /\ b.state[a].hasScore <=> (\E i \in 1..Len(b.agents) : b.agents[i] = a)
                               /\ b.state[a].hasScore <=> b.history[a] # <<>>
                               /\ b.state[a].hasScore => b.state[a].score = b.history[a][Len(b.history[a])]
                               /\ (Len(rows) >= Len(events) /\ ~ b.reset) =>
                                    /\ ServedHistory(a, r) = b.history[a]
                                    /\ ServedScore(a, r) = b.state[a]
    BY DEF ScoresAgree
  <2>1. Tallied(board[r])
    BY DEF ScoresInv
  <2>2. Len(board[r].agents) = Cardinality({a \in Agents : board[r].state[a].hasScore})
    BY <2>1 DEF Tallied, Scored
  <2>3. ASSUME NEW a \in Agents, Len(rows) >= Len(events), ~ board[r].reset
        PROVE  /\ ServedHistory(a, r) = board[r].history[a]
               /\ ServedScore(a, r) = board[r].state[a]
    <3>1. ServedHistory(a, r) = board[r].history[a]
      BY <2>3, Served
    <3>2. CASE ~ board[r].state[a].hasScore
      BY <2>1, <3>1, <3>2 DEF Tallied, ServedScore
    <3>3. CASE board[r].state[a].hasScore
      <4>1. /\ board[r].history[a] # <<>>
            /\ board[r].state[a].score = board[r].history[a][Len(board[r].history[a])]
        BY <2>1, <3>3 DEF Tallied
      <4>2. ServedScore(a, r) = [hasScore |-> TRUE, score |-> board[r].state[a].score]
        BY <3>1, <4>1 DEF ServedScore
      <4>3. board[r].state[a] \in Packed
        BY DEF ScoresInv, RunBoard
      <4> QED
        BY <3>1, <3>3, <4>2, <4>3 DEF Packed
    <3> QED
      BY <3>1, <3>2, <3>3
  <2> QED
    BY <2>1, <2>2, <2>3 DEF Tallied
<1> QED
  BY <1>1, <1>2, <1>3, InvariantAlways, PTL DEF Spec

---------------------------------------------------------------------------
(* RpcFailover, for any number of threads and endpoints, any threshold and *)
(* number of retries, and unbounded outages: the invariant.                *)

Breaker == [failures : 0..Threshold, state : {"closed", "open", "cooled"}, wasted : Nat]
Request == [at : 1..(Endpoints + 1), tries : 0..Retries,
            result : {"none", "answered", "unavailable"}]

(* Every variable the properties depend on stays in its type.              *)
FailoverTypeOK ==
  /\ breaker \in [1..Endpoints -> Breaker]
  /\ request \in [Threads -> Request]

(* The threads that are at an attempt on endpoint e.                       *)
Trying(e) == {t \in Threads : At(t) = e /\ request[t].tries > 0}

(* The state of a breaker follows its failures.  A closed one has wasted   *)
(* what it counted; an open one has room for the failures still in flight, *)
(* as no thread joins them.                                                *)
Spared(e) ==
  /\ breaker[e].state = "closed" =>
       breaker[e].wasted = breaker[e].failures /\ breaker[e].failures < Threshold
  /\ breaker[e].state = "cooled" => breaker[e].wasted = 0
  /\ breaker[e].state # "closed" => breaker[e].failures = Threshold
  /\ breaker[e].state = "open" =>
       breaker[e].wasted + Cardinality(Trying(e)) < Threshold + Cardinality(Threads)

FailoverInv == FailoverTypeOK /\ \A e \in 1..Endpoints : Spared(e)

---------------------------------------------------------------------------

(* What a breaker becomes when an attempt at its endpoint fails.           *)
AfterFailure(b) ==
  [failures |-> IF b.failures + 1 >= Threshold THEN Threshold ELSE b.failures + 1,
   state |-> IF b.failures + 1 >= Threshold THEN "open" ELSE b.state,
   wasted |-> b.wasted + 1]

(* The assignments to a breaker keep its type.                             *)
LEMMA BreakerTypes ==
  ASSUME NEW b \in Breaker
  PROVE  /\ Closed \in Breaker
         /\ [b EXCEPT !.state = "cooled", !.wasted = 0] \in Breaker
         /\ AfterFailure(b) \in Breaker
<1>1. /\ b.failures \in Nat /\ b.failures <= Threshold /\ b.wasted \in Nat
      /\ b.state \in {"closed", "open", "cooled"}
      /\ Threshold \in Nat
  BY SizesAssumption DEF Breaker
<1>2. Closed \in Breaker
  BY <1>1 DEF Closed, Breaker
<1>3. [b EXCEPT !.state = "cooled", !.wasted = 0] \in Breaker
  BY <1>1 DEF Breaker
<1>4. CASE b.failures + 1 >= Threshold
  BY <1>1, <1>2, <1>3, <1>4 DEF AfterFailure, Breaker
<1>5. CASE ~ (b.failures + 1 >= Threshold)
  BY <1>1, <1>2, <1>3, <1>5 DEF AfterFailure, Breaker
<1> QED
  BY <1>4, <1>5

(* The assignments to a thread's locals keep their type.                   *)
LEMMA RequestTypes ==
  ASSUME NEW r \in Request
  PROVE  /\ r.tries < Retries => [r EXCEPT !.tries = @ + 1] \in Request
         /\ r.at <= Endpoints => [r EXCEPT !.at = @ + 1] \in Request
         /\ r.at <= Endpoints => [r EXCEPT !.tries = 0, !.at = @ + 1] \in Request
         /\ [r EXCEPT !.tries = 1] \in Request
         /\ NewRequest("answered") \in Request
         /\ NewRequest("unavailable") \in Request
<1>1. /\ r.at \in Nat /\ 1 <= r.at /\ r.at <= Endpoints + 1
      /\ r.tries \in Nat /\ r.tries <= Retries
      /\ Endpoints \in Nat /\ Retries \in Nat /\ 1 <= Retries
  BY SizesAssumption DEF Request
<1>2. /\ r.tries < Retries => r.tries + 1 \in 0..Retries
      /\ r.at <= Endpoints => r.at + 1 \in 1..(Endpoints + 1)
      /\ 0 \in 0..Retries /\ 1 \in 0..Retries /\ 1 \in 1..(Endpoints + 1)
  BY <1>1
<1> QED
  BY <1>2 DEF NewRequest, Request

(* The threads at an endpoint are finitely many, all threads at most.      *)
LEMMA TryingFinite ==
  ASSUME NEW e
  PROVE  /\ IsFiniteSet(Trying(e))
         /\ Cardinality(Trying(e)) \in Nat
         /\ Cardinality(Threads) \in Nat
         /\ Cardinality(Trying(e)) <= Cardinality(Threads)
<1>1. Trying(e) \subseteq Threads
  BY DEF Trying
<1> QED
  BY <1>1, SizesAssumption, FS_Subset, FS_CardinalityType

(* A thread that leaves makes room for one failure.                        *)
LEMMA OneLess ==
  ASSUME NEW e, NEW t \in Trying(e)
  PROVE  Cardinality(Trying(e) \ {t}) = Cardinality(Trying(e)) - 1
  BY TryingFinite, FS_RemoveElement

(* A breaker nobody writes to and no thread joins stays as it was.         *)
LEMMA SparedStays ==
  ASSUME NEW e \in 1..Endpoints, Spared(e), breaker \in [1..Endpoints -> Breaker],
         breaker'[e] = breaker[e],
         breaker[e].state = "open" => Trying(e)' \subseteq Trying(e)
  PROVE  Spared(e)'
<1>1. CASE breaker[e].state = "open"
  <2>1. Cardinality(Trying(e)') <= Cardinality(Trying(e)) /\ Cardinality(Trying(e)') \in Nat
    BY <1>1, TryingFinite, FS_Subset, FS_CardinalityType
  <2>2. breaker[e].wasted \in Nat
    BY DEF Breaker
  <2> QED
    BY <1>1, <2>1, <2>2, TryingFinite, SizesAssumption DEF Spared
<1>2. CASE breaker[e].state # "open"
  BY <1>2 DEF Spared
<1> QED
  BY <1>1, <1>2

(* The attempt of thread t raises: its last one counts as a failure.       *)
LEMMA RaisesSpares ==
  ASSUME FailoverInv, NEW t \in Threads, Attempting(t), AttemptRaises(t)
  PROVE  FailoverInv'
<1> USE SizesAssumption
<1>0. PICK at \in 1..Endpoints : at = At(t)
  BY DEF FailoverInv, FailoverTypeOK, Attempting, At, Request
<1>1. t \in Trying(at) /\ request[t] \in Request /\ request[t].at = at
  BY <1>0 DEF FailoverInv, FailoverTypeOK, Attempting, At, Trying
<1>2. CASE request[t].tries < Retries
  <2>1. request' = [request EXCEPT ![t].tries = @ + 1] /\ breaker' = breaker
    BY <1>2 DEF AttemptRaises
  <2>2. request' \in [Threads -> Request]
    BY <1>1, <1>2, <2>1, RequestTypes DEF FailoverInv, FailoverTypeOK
  <2>3. \A e \in 1..Endpoints : Trying(e)' \subseteq Trying(e)
    BY <1>1, <2>1 DEF FailoverInv, FailoverTypeOK, Trying, At, Request
  <2>4. \A e \in 1..Endpoints : Spared(e)'
    BY <2>1, <2>3, SparedStays DEF FailoverInv, FailoverTypeOK
  <2> QED
    BY <2>1, <2>2, <2>4 DEF FailoverInv, FailoverTypeOK
<1>3. CASE ~ (request[t].tries < Retries)
  <2>1. /\ request' = [request EXCEPT ![t].tries = 0, ![t].at = @ + 1]
        /\ RecordFailure(at)
    BY <1>0, <1>3 DEF AttemptRaises
  <2>2. request' \in [Threads -> Request]
    <3>1. request'[t] = [request[t] EXCEPT !.tries = 0, !.at = @ + 1]
      BY <2>1 DEF FailoverInv, FailoverTypeOK
    <3>2. request[t].at <= Endpoints
      BY <1>1
    <3>3. request'[t] \in Request
      BY <1>1, <3>1, <3>2, RequestTypes
    <3> QED
      BY <2>1, <3>3 DEF FailoverInv, FailoverTypeOK
  <2>3. \A e \in 1..Endpoints : Trying(e)' = Trying(e) \ {t}
    BY <2>1 DEF FailoverInv, FailoverTypeOK, Trying, At, Request
  <2> DEFINE b == breaker[at]
  <2>4. b \in Breaker
    BY <1>1 DEF FailoverInv, FailoverTypeOK
  <2>5. breaker' = [breaker EXCEPT ![at] = AfterFailure(b)]
    BY <2>1 DEF RecordFailure, AfterFailure
  <2>6. /\ breaker'[at] = AfterFailure(b)
        /\ \A e \in (1..Endpoints) \ {at} : breaker'[e] = breaker[e]
    BY <1>1, <2>5 DEF FailoverInv, FailoverTypeOK
  <2>7. breaker' \in [1..Endpoints -> Breaker]
    BY <2>4, <2>5, BreakerTypes DEF FailoverInv, FailoverTypeOK
  <2>8. Cardinality(Trying(at)') = Cardinality(Trying(at)) - 1
    BY <1>1, <2>3, OneLess
  <2>9. Spared(at)'
    <3>1. Spared(at) /\ breaker[at] = b
      BY DEF FailoverInv
    <3>2. /\ Cardinality(Trying(at)) \in Nat
          /\ Cardinality(Threads) \in Nat
          /\ Cardinality(Trying(at)) <= Cardinality(Threads)
      BY TryingFinite
    <3> HIDE DEF b
    <3>3. /\ b.failures \in Nat /\ b.failures <= Threshold /\ b.wasted \in Nat
          /\ b.state \in {"closed", "open", "cooled"}
          /\ Threshold \in Nat /\ Threshold # 0
      BY <2>4 DEF Breaker
    <3>4. CASE b.failures + 1 >= Threshold
      <4>1. /\ breaker'[at].failures = Threshold
            /\ breaker'[at].state = "open"
            /\ breaker'[at].wasted = b.wasted + 1
        BY <2>6, <3>4 DEF AfterFailure
      <4>2. b.wasted + 1 + Cardinality(Trying(at)) - 1 < Threshold + Cardinality(Threads)
        BY <3>1, <3>2, <3>3, <3>4 DEF Spared
      <4> QED
        BY <4>1, <4>2, <2>8, <3>2, <3>3 DEF Spared
    <3>5. CASE ~ (b.failures + 1 >= Threshold)
      <4>1. /\ breaker'[at].failures = b.failures + 1
            /\ breaker'[at].state = b.state
            /\ breaker'[at].wasted = b.wasted + 1
        BY <2>6, <3>5 DEF AfterFailure
      <4>2. b.state = "closed"
        BY <3>1, <3>3, <3>5 DEF Spared
      <4> QED
        BY <4>1, <4>2, <3>1, <3>3, <3>5 DEF Spared
    <3> QED
      BY <3>4, <3>5
  <2>10. \A e \in (1..Endpoints) \ {at} : Spared(e)'
    BY <2>3, <2>6, SparedStays DEF FailoverInv, FailoverTypeOK
  <2> QED
    BY <2>2, <2>7, <2>9, <2>10 DEF FailoverInv, FailoverTypeOK
<1> QED
  BY <1>2, <1>3

(* Every action keeps the invariant; one step below per action of ProviderNext.    *)
LEMMA FailoverStep == FailoverInv /\ [ProviderNext]_providerVars => FailoverInv'
<1> SUFFICES ASSUME FailoverInv, [ProviderNext]_providerVars PROVE FailoverInv'
  OBVIOUS
<1> USE SizesAssumption
<1>1. ASSUME NEW t \in Threads, AllowRequest(t) PROVE FailoverInv'
  <2>1. request[t] \in Request /\ At(t) \in 1..Endpoints
    BY <1>1 DEF AllowRequest, FailoverInv, FailoverTypeOK, Request, At
  <2>2. request' \in [Threads -> Request]
    <3>1. request[t].at <= Endpoints
      BY <2>1 DEF At
    <3>2. /\ [request[t] EXCEPT !.tries = 1] \in Request
          /\ [request[t] EXCEPT !.at = @ + 1] \in Request
      BY <2>1, <3>1, RequestTypes
    <3>3. CASE Allowed(At(t))
      BY <1>1, <3>2, <3>3 DEF AllowRequest, FailoverInv, FailoverTypeOK
    <3>4. CASE ~ Allowed(At(t))
      BY <1>1, <3>2, <3>4 DEF AllowRequest, FailoverInv, FailoverTypeOK
    <3> QED
      BY <3>3, <3>4
  <2>3. ASSUME NEW e \in 1..Endpoints, breaker[e].state = "open"
        PROVE  Trying(e)' \subseteq Trying(e)
    BY <1>1, <2>1, <2>3 DEF AllowRequest, FailoverInv, FailoverTypeOK, Trying, At, Allowed, Request
  <2>4. \A e \in 1..Endpoints : Spared(e)'
    BY <1>1, <2>3, SparedStays DEF AllowRequest, FailoverInv, FailoverTypeOK
  <2> QED
    BY <1>1, <2>2, <2>4 DEF AllowRequest, FailoverInv, FailoverTypeOK
<1>2. ASSUME NEW t \in Threads, AttemptFails(t) PROVE FailoverInv'
  BY <1>2, RaisesSpares DEF AttemptFails
<1>3. ASSUME NEW t \in Threads, Blip(t) PROVE FailoverInv'
  BY <1>3, RaisesSpares DEF Blip
<1>4. ASSUME NEW t \in Threads, Answer(t) PROVE FailoverInv'
  <2>1. At(t) \in 1..Endpoints
    BY <1>4 DEF Answer, Attempting, FailoverInv, FailoverTypeOK, Request, At
  <2>2. request' \in [Threads -> Request]
    BY <1>4, RequestTypes DEF Answer, FailoverInv, FailoverTypeOK
  <2>3. breaker' = [breaker EXCEPT ![At(t)] = Closed]
    BY <1>4 DEF Answer, RecordSuccess
  <2>4. breaker' \in [1..Endpoints -> Breaker]
    BY <2>1, <2>3, BreakerTypes DEF FailoverInv, FailoverTypeOK
  <2>6. \A e \in 1..Endpoints : Trying(e)' \subseteq Trying(e)
    BY <1>4 DEF Answer, NewRequest, FailoverInv, FailoverTypeOK, Trying, At, Request
  <2>7. \A e \in 1..Endpoints : e # At(t) => Spared(e)'
    BY <2>3, <2>6, SparedStays DEF FailoverInv, FailoverTypeOK
  <2>8. \A e \in 1..Endpoints : e = At(t) => Spared(e)'
    <3> SUFFICES ASSUME NEW e \in 1..Endpoints, e = At(t) PROVE Spared(e)'
      OBVIOUS
    <3>1. breaker'[e] = Closed
      BY <2>3 DEF FailoverInv, FailoverTypeOK
    <3> QED
      BY <3>1 DEF Closed, Spared
  <2> QED
    BY <2>2, <2>4, <2>7, <2>8 DEF FailoverInv, FailoverTypeOK
<1>5. ASSUME NEW t \in Threads, Unavailable(t) PROVE FailoverInv'
  <2>1. request' \in [Threads -> Request]
    BY <1>5, RequestTypes DEF Unavailable, FailoverInv, FailoverTypeOK
  <2>2. \A e \in 1..Endpoints : Trying(e)' \subseteq Trying(e)
    BY <1>5 DEF Unavailable, NewRequest, FailoverInv, FailoverTypeOK, Trying, At, Request
  <2>3. \A e \in 1..Endpoints : Spared(e)'
    BY <1>5, <2>2, SparedStays DEF Unavailable, FailoverInv, FailoverTypeOK
  <2> QED
    BY <1>5, <2>1, <2>3 DEF Unavailable, FailoverInv, FailoverTypeOK
<1>6. ASSUME NEW e \in 1..Endpoints, CooldownElapses(e) PROVE FailoverInv'
  <2>1. breaker[e] \in Breaker
    BY DEF FailoverInv, FailoverTypeOK
  <2>2. /\ breaker'[e] = [breaker[e] EXCEPT !.state = "cooled", !.wasted = 0]
        /\ \A f \in (1..Endpoints) \ {e} : breaker'[f] = breaker[f]
    BY <1>6 DEF CooldownElapses, FailoverInv, FailoverTypeOK
  <2>3. breaker'[e] \in Breaker
    BY <2>1, <2>2, BreakerTypes
  <2>4. breaker' \in [1..Endpoints -> Breaker]
    BY <1>6, <2>2, <2>3 DEF CooldownElapses, FailoverInv, FailoverTypeOK
  <2>5. Spared(e)'
    <3>1. breaker[e].failures = Threshold
      BY <1>6 DEF CooldownElapses, FailoverInv, Spared
    <3>2. /\ breaker'[e].failures = Threshold
          /\ breaker'[e].state = "cooled"
          /\ breaker'[e].wasted = 0
      BY <2>1, <2>2, <3>1 DEF Breaker
    <3> QED
      BY <3>2 DEF Spared
  <2>6. \A f \in 1..Endpoints : Trying(f)' \subseteq Trying(f)
    BY <1>6 DEF CooldownElapses, Trying, At
  <2>7. \A f \in (1..Endpoints) \ {e} : Spared(f)'
    BY <2>2, <2>6, SparedStays DEF FailoverInv, FailoverTypeOK
  <2> QED
    BY <1>6, <2>4, <2>5, <2>7 DEF CooldownElapses, FailoverInv, FailoverTypeOK
<1>7. ASSUME UNCHANGED <<breaker, request>> PROVE FailoverInv'
  BY <1>7 DEF FailoverInv, FailoverTypeOK, Spared, Trying, At
<1>8. ASSUME NEW e \in 1..Endpoints, GoDown(e) \/ ComeBack(e) PROVE FailoverInv'
  BY <1>7, <1>8 DEF GoDown, ComeBack
<1>9. CASE UNCHANGED providerVars
  BY <1>7, <1>9 DEF providerVars
<1> QED
  BY <1>1, <1>2, <1>3, <1>4, <1>5, <1>6, <1>8, <1>9 DEF ProviderNext, MakeRequest

(* All breakers closed, no thread at an attempt.                           *)
LEMMA FailoverInit == ProviderInit => FailoverInv
<1> SUFFICES ASSUME ProviderInit PROVE FailoverInv
  OBVIOUS
<1>1. FailoverTypeOK
  BY SizesAssumption DEF ProviderInit, FailoverTypeOK, Closed, Breaker, NewRequest, Request
<1>2. \A e \in 1..Endpoints : Spared(e)
  BY SizesAssumption DEF ProviderInit, Closed, Spared
<1> QED
  BY <1>1, <1>2 DEF FailoverInv

(* A dead endpoint is spared: from an answer or a cooldown to the next, no *)
(* more requests fail at it than open its breaker and were in flight.      *)
THEOREM DeadEndpointIsSparedAlways == ProviderSpec => []DeadEndpointIsSpared
<1>1. FailoverInv => DeadEndpointIsSpared
  <2> SUFFICES ASSUME FailoverInv, NEW e \in 1..Endpoints
               PROVE  breaker[e].wasted < Threshold + Cardinality(Threads)
    BY DEF DeadEndpointIsSpared
  <2>1. Spared(e) /\ breaker[e] \in Breaker
    BY DEF FailoverInv, FailoverTypeOK
  <2>2. Cardinality(Trying(e)) \in Nat /\ Cardinality(Threads) \in Nat
    BY TryingFinite
  <2> QED
    BY <2>1, <2>2, SizesAssumption DEF Spared, Breaker
<1> QED
  BY <1>1, FailoverInit, FailoverStep, PTL DEF ProviderSpec
=============================================================================
