---------------------------- MODULE ChainWriters ----------------------------
(***************************************************************************)
(* The synchronous chain writers of the API (blockchain/score_writer.py,   *)
(* identity_writer.py), the signing key they share, whose nonces nobody    *)
(* allots, TrustScoreRegistryV2 and AgentIdentityRegistryV2 behind them,   *)
(* and the read model of the scores.                                       *)
(*                                                                         *)
(* A writer is a task with a list of writes to make in turn, all fatal:    *)
(* the scorer of a pipeline run makes one per agent, a call of POST /agents*)
(* makes one.  The anchor worker sends with the same key (AnchorPipeline). *)
(***************************************************************************)
EXTENDS Naturals, Sequences, FiniteSets, IdOrder

CONSTANTS
  Writers,         \* the tasks that write
  WritesOf,        \* [Writers -> sequence of writes]
  Agents, Runs,    \* scored agents and their runs
  Registered,      \* ids of registered agents
  Hashes,          \* code hashes
  FirstHash,       \* the hash the registered agents start with
  MaxPeaks,        \* bound: how many fee estimates meet a peak of the fees
  MaxLosses,       \* bound: RPC calls that raise and replies that are lost
  MaxAdmin         \* bound: how often the contracts' admin intervenes

ScoreWrite(a, r, v) == [kind |-> "score", agent |-> a, run |-> r, value |-> v]
RegisterWrite(x, h) == [kind |-> "register", agent |-> x, value |-> h]
RevokeWrite(x) == [kind |-> "revoke", agent |-> x]

Write == [kind : {"score"}, agent : Agents, run : Runs, value : Nat]
           \cup [kind : {"register"}, agent : Registered, value : Hashes]
           \cup [kind : {"revoke"}, agent : Registered]

(* No task begins with nothing to write.                                   *)
ASSUME WritersAssumption ==
  /\ \A w \in Writers : WritesOf[w] \in Seq(Write) /\ WritesOf[w] # <<>>
  /\ FirstHash \in Hashes

VARIABLES
  write,     \* [Writers -> locals of the task]
  pool,      \* transactions broadcast and not mined
  mined,     \* the transactions of the key, in the order of their nonces
  board,     \* TrustScoreRegistryV2
  identity,  \* AgentIdentityRegistryV2
  paused,    \* Pausable of the score registry
  events,    \* the ScoreUpdated events
  rows,      \* rm_scores in the order of its ids
  used       \* the bounds used up
vars == <<write, pool, mined, board, identity, paused, events, rows, used>>
chainVars == <<pool, mined, board, identity, paused, events>>

Unwritten == [pc |-> "nonce", done |-> 0, nonce |-> 0, fee |-> 0]
NoScore == [hasScore |-> FALSE, score |-> 0]
Fresh(h) == [isRegistered |-> TRUE, isActive |-> TRUE, codeHash |-> h, agentHash |-> h]

Init ==
  /\ write = [w \in Writers |-> Unwritten]
  /\ pool = {} /\ mined = <<>>
  /\ board = [r \in Runs |-> [state |-> [a \in Agents |-> NoScore],
                              history |-> [a \in Agents |-> <<>>],
                              agents |-> <<>>, reset |-> FALSE]]
  /\ identity = [x \in Registered |-> Fresh(FirstHash)]
  /\ paused = FALSE
  /\ events = <<>> /\ rows = <<>>
  /\ used = [peaks |-> 0, losses |-> 0, admin |-> 0]

(* The writes a task is at, and the transaction it signs for it.           *)
Current(w) == WritesOf[w][write[w].done + 1]
Tx(w) == [by |-> w, index |-> write[w].done + 1, nonce |-> write[w].nonce,
          fee |-> write[w].fee, call |-> Current(w)]

---------------------------------------------------------------------------
(* An RPC call of the task, through RpcFailover, is answered or raises.     *)

Proceed(w, locals) == write' = [write EXCEPT ![w] = locals]

(* The exception ends the task: the pipeline run fails, POST /agents       *)
(* answers 502.                                                            *)
Raise(w) == write' = [write EXCEPT ![w].pc = "failed"]

AllEndpointsUnavailable(w) ==
  /\ write[w].pc \in {"nonce", "send", "wait"}
  /\ used.losses < MaxLosses
  /\ Raise(w)
  /\ used' = [used EXCEPT !.losses = @ + 1]
  /\ UNCHANGED <<chainVars, rows>>

---------------------------------------------------------------------------
(* One write: nonce, gas and fees, send, receipt.                          *)

ChainNonce == Len(mined)
PendingNonce == Len(mined) + Cardinality({t.nonce : t \in pool})

(* get_transaction_count(..., "pending"): another endpoint may not know of *)
(* every transaction in the pool.  Nothing reserves the nonce.             *)
ReservedNonces == {PendingNonce + Cardinality({w \in Writers : write[w].pc = "send"})}
NoncesRead == ChainNonce..PendingNonce

(* build_fee_params: what the recent blocks paid, or the flat gas price.   *)
(* The gas estimate falls back to a constant, so that a call that would    *)
(* revert is sent all the same.                                            *)
LowFee == 1
PeakFee == 2
FeeLevels == {LowFee} \cup {f \in {PeakFee} : used.peaks < MaxPeaks}

ReadNonce(w) ==
  /\ write[w].pc = "nonce"
  /\ \E n \in NoncesRead, f \in FeeLevels :
       /\ Proceed(w, [write[w] EXCEPT !.pc = "send", !.nonce = n, !.fee = f])
       /\ used' = [used EXCEPT !.peaks = @ + (f - LowFee)]
  /\ UNCHANGED <<chainVars, rows>>

(* What a node takes: the next nonces, or a better price for one it holds. *)
Accepted(t) ==
  /\ t.nonce >= ChainNonce
  /\ \A o \in pool : o.nonce = t.nonce => t.fee > o.fee

Broadcast(t) == pool' = {o \in pool : o.nonce # t.nonce} \cup {t}

SendTransaction(w) ==
  /\ write[w].pc = "send"
  /\ Accepted(Tx(w)) /\ Broadcast(Tx(w))
  /\ Proceed(w, [write[w] EXCEPT !.pc = "wait"])
  /\ UNCHANGED <<mined, board, identity, paused, events, rows, used>>

(* "nonce too low", "replacement underpriced", and for a transaction whose *)
(* first send was answered by nobody "already known".                      *)
SendRejected(w) ==
  /\ write[w].pc = "send"
  /\ ~ Accepted(Tx(w))
  /\ Raise(w)
  /\ UNCHANGED <<chainVars, rows, used>>

(* The node took the transaction and the reply was lost: the provider      *)
(* sends it again, here or elsewhere.                                      *)
SendReplyLost(w) ==
  /\ write[w].pc = "send"
  /\ used.losses < MaxLosses
  /\ Accepted(Tx(w)) /\ Broadcast(Tx(w))
  /\ used' = [used EXCEPT !.losses = @ + 1]
  /\ UNCHANGED <<write, mined, board, identity, paused, events, rows>>

(* The receipt of the task's own transaction, by its hash.                 *)
Receipt(w) == {k \in 1..Len(mined) : mined[k].by = w /\ mined[k].index = write[w].done + 1}
AnyReceipt(m) == TRUE
Succeeded(m) == m.status

Written(w) ==
  LET n == write[w].done + 1
  IN  [write[w] EXCEPT !.done = n, !.pc = IF n = Len(WritesOf[w]) THEN "done" ELSE "nonce"]

GetReceipt(w) ==
  /\ write[w].pc = "wait"
  /\ \E k \in Receipt(w) :
       IF Succeeded(mined[k]) THEN Proceed(w, Written(w)) ELSE Raise(w)
  /\ UNCHANGED <<chainVars, rows, used>>

(* wait_for_transaction_receipt gives up after 60 seconds, between polls.  *)
ReceiptTimeout(w) ==
  /\ write[w].pc = "wait"
  /\ Raise(w)
  /\ UNCHANGED <<chainVars, rows, used>>

---------------------------------------------------------------------------
(* The contracts.                                                          *)

(* TrustScoreRegistryV2._updateScore.                                      *)
Updated(b, c) ==
  LET old == b[c.run]
  IN  [b EXCEPT ![c.run] =
        [old EXCEPT !.state[c.agent] = [hasScore |-> TRUE, score |-> c.value],
                    !.history[c.agent] = Append(@, c.value),
                    !.agents = IF old.state[c.agent].hasScore THEN @ ELSE Append(@, c.agent)]]

MadeFresh(rec, h) == Fresh(h)

(* AgentIdentityRegistryV2: the already-registered branch updates the hash *)
(* and leaves isActive alone.                                              *)
Reregistered(rec, h) ==
  IF rec.isRegistered THEN [rec EXCEPT !.codeHash = h, !.agentHash = h] ELSE Fresh(h)

CanRevoke(x) == identity[x].isRegistered /\ identity[x].isActive

(* Whether the call succeeds; a transaction that reverts is mined too.     *)
Effective(c) ==
  CASE c.kind = "score" -> ~ paused
    [] c.kind = "revoke" -> CanRevoke(c.agent)
    [] OTHER -> TRUE

Apply(c) ==
  /\ board' = IF c.kind = "score" THEN Updated(board, c) ELSE board
  /\ events' = IF c.kind = "score" THEN Append(events, c) ELSE events
  /\ identity' = CASE c.kind = "register" -> [identity EXCEPT ![c.agent] = Reregistered(@, c.value)]
                   [] c.kind = "revoke" -> [identity EXCEPT ![c.agent].isActive = FALSE]
                   [] OTHER -> identity

(* A block takes the transaction of the key's next nonce.                  *)
Mine ==
  \E t \in pool :
    /\ t.nonce = ChainNonce
    /\ pool' = pool \ {t}
    /\ mined' = Append(mined, [by |-> t.by, index |-> t.index, fee |-> t.fee, nonce |-> t.nonce,
                               call |-> t.call, status |-> Effective(t.call)])
    /\ IF Effective(t.call) THEN Apply(t.call) ELSE UNCHANGED <<board, events, identity>>
    /\ UNCHANGED <<write, paused, rows, used>>

(* DEFAULT_ADMIN_ROLE: resetRun forgets a run's scores, and says so in no  *)
(* event; pause stops the writes.                                          *)
KeptAgents(r) == board[r].agents
ResetAgents(r) == <<>>

ResetRun(r) ==
  /\ used.admin < MaxAdmin
  /\ board[r].agents # <<>>
  /\ board' = [board EXCEPT ![r] = [state |-> [a \in Agents |-> NoScore],
                                    history |-> [a \in Agents |-> <<>>],
                                    agents |-> ResetAgents(r), reset |-> TRUE]]
  /\ used' = [used EXCEPT !.admin = @ + 1]
  /\ UNCHANGED <<write, pool, mined, identity, paused, events, rows>>

TogglePause ==
  /\ used.admin < MaxAdmin
  /\ paused' = ~ paused
  /\ used' = [used EXCEPT !.admin = @ + 1]
  /\ UNCHANGED <<write, pool, mined, board, identity, events, rows>>

---------------------------------------------------------------------------
(* rm_scores.  A poll covers a range of blocks that may reach back behind  *)
(* the rows there are (a cursor rewound): ON CONFLICT DO NOTHING.          *)

RowIds == {rows[i] : i \in 1..Len(rows)}
NewOf(from) == InOrder((from..Len(events)) \ RowIds)

IndexScores ==
  \E from \in 1..Len(events) :
    /\ from <= Len(rows) + 1
    /\ rows' = rows \o NewOf(from)
    /\ UNCHANGED <<write, chainVars, used>>

(* GET /trust-scores: the row of the highest id per agent.                 *)
ScoreRows(a, r) == {id \in 1..Len(rows) : events[rows[id]].agent = a /\ events[rows[id]].run = r}
ServedHistory(a, r) ==
  LET ids == InOrder(ScoreRows(a, r))
  IN  [i \in 1..Len(ids) |-> events[rows[ids[i]]].value]
ServedScore(a, r) ==
  LET h == ServedHistory(a, r)
  IN  IF h = <<>> THEN NoScore ELSE [hasScore |-> TRUE, score |-> h[Len(h)]]

(* GET /agents/{id}/verify asks verifyAgentFull; clients verifyAgent.      *)
VerifyAgent(x, h) ==
  /\ identity[x].isRegistered
  /\ identity[x].isActive
  /\ identity[x].agentHash = h
VerifyAgentFull(x, h) ==
  LET rec == identity[x]
  IN  rec.isRegistered /\ rec.isActive /\ rec.codeHash = h

---------------------------------------------------------------------------
WriteOnce(w) ==
  \/ ReadNonce(w) \/ AllEndpointsUnavailable(w)
  \/ SendTransaction(w) \/ SendRejected(w) \/ SendReplyLost(w)
  \/ GetReceipt(w) \/ ReceiptTimeout(w)

Next ==
  \/ \E w \in Writers : WriteOnce(w)
  \/ Mine
  \/ \E r \in Runs : ResetRun(r)
  \/ TogglePause
  \/ IndexScores

Spec == Init /\ [][Next]_vars

---------------------------------------------------------------------------
(* What the writers promise.                                               *)

Effects(w, i) == {k \in 1..Len(mined) : mined[k].by = w /\ mined[k].index = i /\ mined[k].status}

(* score_writer.py returns a hash only after its receipt: each write a task*)
(* counts as made took effect on chain exactly once, and none it never got *)
(* to did, whatever was resent, replaced, timed out or reverted.           *)
ReportedWritesAreMined ==
  \A w \in Writers : \A i \in 1..Len(WritesOf[w]) :
    IF i <= write[w].done THEN Cardinality(Effects(w, i)) = 1
    ELSE Cardinality(Effects(w, i)) <= (IF i = write[w].done + 1 THEN 1 ELSE 0)

(* The nonces in the pool follow those mined without a gap: nothing a      *)
(* writer gave up blocks the key, on which the anchor worker depends too.  *)
QueueNeverStuck == {t.nonce : t \in pool} = ChainNonce..(PendingNonce - 1)

(* One run's scores, four ways: the packed state, the history, the         *)
(* leaderboard (each scored agent once) and, once indexed and unless the   *)
(* run was reset, what the API serves from rm_scores.                      *)
ScoresAgree ==
  \A r \in Runs :
    /\ Len(board[r].agents) = Cardinality({a \in Agents : board[r].state[a].hasScore})
    /\ \A a \in Agents :
         LET b == board[r]
         IN  /\ b.state[a].hasScore <=> (\E i \in 1..Len(b.agents) : b.agents[i] = a)
             /\ b.state[a].hasScore <=> b.history[a] # <<>>
             /\ b.state[a].hasScore => b.state[a].score = b.history[a][Len(b.history[a])]
             /\ (Len(rows) >= Len(events) /\ ~ b.reset) =>
                  /\ ServedHistory(a, r) = b.history[a]
                  /\ ServedScore(a, r) = b.state[a]

(* main.py:1647-1660: revocation is permanent.  Whatever registration      *)
(* overtakes or follows it, a revoked agent verifies with no hash, and both*)
(* ways to ask agree.                                                      *)
RevokedForGood ==
  \A x \in Registered : \A h \in Hashes :
    /\ VerifyAgent(x, h) = VerifyAgentFull(x, h)
    /\ VerifyAgent(x, h) =>
         ~ \E k \in 1..Len(mined) :
             mined[k].status /\ mined[k].call.kind = "revoke" /\ mined[k].call.agent = x
=============================================================================
