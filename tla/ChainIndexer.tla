---------------------------- MODULE ChainIndexer ----------------------------
(***************************************************************************)
(* The indexer (backend/indexer/) as it follows the event streams of one   *)
(* contract through reorganizations of the chain: poll_once with its       *)
(* cursor, finality gate and rewind, the rm_agent_events read model, the   *)
(* agents table it refreshes from live reads, and the alerts it raises.    *)
(* The contract is AgentIdentityRegistryV2, seen for one agent.            *)
(*                                                                         *)
(* Each RPC call of a poll is one action: the chain may grow, reorganize,  *)
(* or the indexer die, between any two of them.                            *)
(*                                                                         *)
(* Abstractions.  A block holds at most one transaction and its hash is    *)
(* its height with the number of the fork it was built on.  A fork wins by *)
(* being at least as long as what it replaces.  The streams of run_once are*)
(* polled in any order.                                                    *)
(*                                                                         *)
(* Faulty variants of some definitions stand before them; no action uses   *)
(* one, they serve to confirm that the properties notice such a fault.     *)
(***************************************************************************)
EXTENDS Naturals, Sequences, FiniteSets

CONSTANTS
  Registrations, \* registerAgent transactions for the agent
  Revocations,   \* revokeAgent transactions for it
  Finalities,    \* values of settings.indexer_finality_confirmations
  Rewind,        \* REORG_REWIND_BLOCKS
  ReorgDepth,    \* the deepest reorganization of the chain
  MaxHeight,     \* bound: blocks of the chain
  MaxForks       \* bound: reorganizations

ASSUME IndexerAssumption ==
  /\ Registrations \cap Revocations = {}
  /\ Finalities \subseteq Nat /\ Finalities # {}
  /\ Rewind \in Nat /\ ReorgDepth \in Nat /\ ReorgDepth <= Rewind
  /\ MaxHeight \in Nat /\ MaxForks \in Nat

VARIABLES
  chain,    \* the canonical chain: block numbers are its indices
  forks,    \* reorganizations so far
  finality, \* the deployment's indexer_finality_confirmations
  cursors,  \* indexer_cursor
  rows,     \* rm_agent_events: block and event type of each indexed transaction
  agent,    \* the agents row: what getAgent returned for the agent
  alerted,  \* transactions an identity alert was raised for
  poll,     \* locals of poll_once, and its uncommitted session
  torn      \* history: has a reorganization struck in the middle of a poll?

chainVars == <<chain, forks>>
dbVars    == <<cursors, rows, agent, alerted>>
vars      == <<chainVars, finality, dbVars, poll, torn>>

Txs   == Registrations \cup Revocations
NoTx  == "no tx"
ASSUME NoTxAssumption == NoTx \notin Txs

Kinds == {"AgentRegistered", "AgentUpdated", "AgentRevoked"}

Block      == [tx : Txs \cup {NoTx}, fork : Nat]
Unindexed  == [block |-> 0, kind |-> "none"]      \* no row
Unknown    == [hash |-> NoTx, active |-> FALSE]   \* no agents row, no record
AgentState == [hash : Registrations \cup {NoTx}, active : BOOLEAN]
NoCursor   == [block |-> 0, fork |-> 0]

NoPoll == [phase |-> "idle", kind |-> "AgentRegistered", start |-> 0, latest |-> 0,
           logs |-> {}, rows |-> {}, agent |-> Unknown, alert |-> NoTx]

---------------------------------------------------------------------------
(* The contract.                                                           *)

RegisteredBefore(c, h) == \E g \in 1..(h - 1) : c[g].tx \in Registrations
RevokedBefore(c, h) ==
  \E g \in 1..(h - 1) : c[g].tx \in Revocations /\ RegisteredBefore(c, g)

(* The event block h emits: registerAgent an update when the agent is known*)
(* already; revokeAgent reverts on an unknown or a revoked agent.          *)
Emits(c, h) ==
  CASE c[h].tx \in Registrations ->
         IF RegisteredBefore(c, h) THEN "AgentUpdated" ELSE "AgentRegistered"
    [] c[h].tx \in Revocations /\ RegisteredBefore(c, h) /\ ~ RevokedBefore(c, h) ->
         "AgentRevoked"
    [] OTHER -> "nothing"

(* getAgent at the head of the chain; Unknown when the call reverts.       *)
GetAgent(c) ==
  IF ~ RegisteredBefore(c, Len(c) + 1) THEN Unknown
  ELSE LET last == CHOOSE h \in DOMAIN c :
                     /\ c[h].tx \in Registrations
                     /\ \A g \in (h + 1)..Len(c) : c[g].tx \notin Registrations
       IN [hash |-> c[last].tx, active |-> ~ RevokedBefore(c, Len(c) + 1)]

(* The variant rebuilds the record from the event being handled.           *)
AgentFromEvent(tx) == [hash |-> tx, active |-> TRUE]
LiveAgent(tx) == GetAgent(chain)

---------------------------------------------------------------------------
(* The indexer's decisions.                                                *)

(* The cursor row a stream resumes from.  The variant keeps one for the    *)
(* whole contract.                                                         *)
ContractCursor(kind) == "AgentRegistered"
CursorName(kind) == kind

(* resolve_start_block for a cursor, given the chain.  Variant: a cursor is*)
(* trusted whatever its block has become.                                  *)
ResumeAfter(cur) == cur.block + 1
StartBlock(cur) ==
  IF cur = NoCursor THEN 1
  ELSE IF chain[cur.block].fork = cur.fork THEN cur.block + 1
  ELSE IF cur.block > Rewind THEN cur.block - Rewind ELSE 1

(* The last block a poll handles: the finality gate; and without one.      *)
UngatedLatest == Len(chain)
LatestBlock == IF Len(chain) > finality THEN Len(chain) - finality ELSE 0

(* What an aborted poll leaves in rm_agent_events: its transaction is      *)
(* rolled back; the variant commits row by row.                            *)
RowsSoFar ==
  [tx \in Txs |-> IF \E log \in poll.rows : log[1] = tx
                  THEN [block |-> (CHOOSE log \in poll.rows : log[1] = tx)[2], kind |-> poll.kind]
                  ELSE rows[tx]]
RolledBack == rows

---------------------------------------------------------------------------

Init ==
  /\ chain = <<>> /\ forks = 0
  /\ finality \in Finalities
  /\ cursors = [k \in Kinds |-> NoCursor]
  /\ rows = [tx \in Txs |-> Unindexed]
  /\ agent = Unknown
  /\ alerted = {}
  /\ poll = NoPoll
  /\ torn = FALSE

(* A block is added, with a transaction not yet on the chain or none.      *)
Mine ==
  /\ Len(chain) < MaxHeight
  /\ \E tx \in (Txs \ {chain[h].tx : h \in DOMAIN chain}) \cup {NoTx} :
       chain' = Append(chain, [tx |-> tx, fork |-> forks])
  /\ UNCHANGED <<forks, finality, dbVars, poll, torn>>

(* The last d blocks are replaced by as many others: a transaction they    *)
(* held comes back in another block, in another order, or is dropped.      *)
Reorganize ==
  /\ forks < MaxForks
  /\ \E d \in 1..ReorgDepth :
       /\ d <= Len(chain)
       /\ LET kept == Len(chain) - d
              used == {chain[h].tx : h \in 1..kept} IN
          /\ \E txs \in [1..d -> (Txs \ used) \cup {NoTx}] :
               /\ \A i, j \in 1..d : txs[i] = txs[j] => i = j \/ txs[i] = NoTx
               /\ chain' = SubSeq(chain, 1, kept)
                             \o [i \in 1..d |-> [tx |-> txs[i], fork |-> forks + 1]]
  /\ forks' = forks + 1
  /\ torn' = (torn \/ poll.phase # "idle")
  /\ UNCHANGED <<finality, dbVars, poll>>

(* poll_once on the stream of kind events: where to resume.                *)
ResolveStartBlock(kind) ==
  /\ poll.phase = "idle"
  /\ poll' = [NoPoll EXCEPT !.phase = "started", !.kind = kind,
                !.start = StartBlock(cursors[CursorName(kind)])]
  /\ UNCHANGED <<chainVars, finality, dbVars, torn>>

(* The head of the chain, less the finality gate: nothing new, or go on.   *)
ReadTip ==
  /\ poll.phase = "started"
  /\ poll' = IF poll.start > LatestBlock THEN NoPoll
             ELSE [poll EXCEPT !.phase = "bounded", !.latest = LatestBlock]
  /\ UNCHANGED <<chainVars, finality, dbVars, torn>>

(* get_logs over the range, with the block number each log was found in.   *)
GetLogs ==
  /\ poll.phase = "bounded"
  /\ poll' = [poll EXCEPT !.phase = "handling", !.agent = agent,
       !.logs = {<<chain[h].tx, h>> :
                   h \in {g \in poll.start..poll.latest : Emits(chain, g) = poll.kind}}]
  /\ UNCHANGED <<chainVars, finality, dbVars, torn>>

(* The handler on the next log, in the poll's transaction: an insert that  *)
(* does nothing when the transaction is indexed, else also a live getAgent *)
(* read written to the agents table.  getAgent reverts, and the poll ends, *)
(* when the agent is no longer registered.                                 *)
IndexEvent ==
  /\ poll.phase = "handling"
  /\ \E log \in poll.logs :
       /\ \A l \in poll.logs : log[2] <= l[2]
       /\ LET rest == [poll EXCEPT !.logs = @ \ {log}] IN
          \/ /\ rows[log[1]] # Unindexed
             /\ poll' = rest
          \/ /\ rows[log[1]] = Unindexed
             /\ GetAgent(chain) # Unknown
             /\ poll' = [rest EXCEPT
                  !.phase = IF poll.kind = "AgentRegistered" THEN "handling" ELSE "alerting",
                  !.rows = @ \cup {log}, !.agent = LiveAgent(log[1]), !.alert = log[1]]
  /\ UNCHANGED <<chainVars, finality, dbVars, torn>>

(* raise_alert commits in a session of its own.  The return without an     *)
(* alert for a project that is not there (agent_events.py:132) is left out:*)
(* projects are deleted softly, so that their rows stay and are found.     *)
RaiseIdentityAlert ==
  /\ poll.phase = "alerting"
  /\ alerted' = alerted \cup {poll.alert}
  /\ poll' = [poll EXCEPT !.phase = "handling"]
  /\ UNCHANGED <<chainVars, finality, cursors, rows, agent, torn>>

(* The hash of the last block handled is read, and the rows, the agents    *)
(* table and the cursor commit together.                                   *)
SaveCursor ==
  /\ poll.phase = "handling" /\ poll.logs = {}
  /\ cursors' = [cursors EXCEPT ![CursorName(poll.kind)] =
                   [block |-> poll.latest, fork |-> chain[poll.latest].fork]]
  /\ rows' = RowsSoFar
  /\ agent' = poll.agent
  /\ poll' = NoPoll
  /\ UNCHANGED <<chainVars, finality, alerted, torn>>

(* An RPC error, a revert, a crash or a restart: the poll's transaction is *)
(* rolled back, the alerts stay.                                           *)
AbortPoll ==
  /\ poll.phase # "idle"
  /\ rows' = RolledBack
  /\ poll' = NoPoll
  /\ UNCHANGED <<chainVars, finality, cursors, agent, alerted, torn>>

PollOnce ==
  \/ \E k \in Kinds : ResolveStartBlock(k)
  \/ ReadTip \/ GetLogs \/ IndexEvent \/ RaiseIdentityAlert \/ SaveCursor

(* What log_step makes of the code hash h a step is logged with: drift from*)
(* the registered one, be the agent active or revoked.                     *)
IdentityDrift(h) == agent # Unknown /\ agent.hash # h

Next == Mine \/ Reorganize \/ PollOnce \/ AbortPoll

Spec == Init /\ [][Next]_vars
---------------------------------------------------------------------------

(* Every variable stays in its type.                                       *)
IndexerTypeOK ==
  /\ chain \in Seq(Block) /\ Len(chain) <= MaxHeight
  /\ forks \in 0..MaxForks
  /\ finality \in Finalities
  /\ cursors \in [Kinds -> [block : 0..MaxHeight, fork : 0..MaxForks]]
  /\ rows \in [Txs -> [block : 0..MaxHeight, kind : Kinds \cup {"none"}]]
  /\ agent \in AgentState
  /\ alerted \subseteq Txs
  /\ poll \in [phase : {"idle", "started", "bounded", "handling", "alerting"},
               kind : Kinds, start : Nat, latest : Nat,
               logs : SUBSET (Txs \X Nat), rows : SUBSET (Txs \X Nat),
               agent : AgentState, alert : Txs \cup {NoTx}]
  /\ torn \in BOOLEAN

(* A cursor that would be resumed from has nothing unindexed behind it:    *)
(* every event of its stream up to its block is in rm_agent_events, across *)
(* reorganizations, rewinds and aborted polls, if the finality gate covers *)
(* the reorganizations or none struck in the middle of a poll.             *)
NothingSkipped ==
  finality >= ReorgDepth \/ ~ torn =>
    \A k \in Kinds :
      LET cur == cursors[k] IN
      cur # NoCursor /\ chain[cur.block].fork = cur.fork =>
        \A h \in 1..cur.block : Emits(chain, h) = k => rows[chain[h].tx] # Unindexed

(* Behind a finality gate as deep as the reorganizations, the read model is*)
(* a function of the chain: an indexed row is an event of the canonical    *)
(* chain, in the block it records (invariant I6).                          *)
ReadModelIsChain ==
  finality >= ReorgDepth =>
    \A tx \in Txs : rows[tx] # Unindexed =>
      LET h == rows[tx].block IN
      h \in DOMAIN chain /\ chain[h].tx = tx /\ Emits(chain, h) = rows[tx].kind

(* Whatever aborts a poll, an identity change that is indexed, and hence   *)
(* never handled again, has had its alert raised.                          *)
IndexedIsAlerted ==
  \A tx \in Txs : rows[tx].kind \in {"AgentUpdated", "AgentRevoked"} => tx \in alerted

AllIndexed ==
  \A h \in DOMAIN chain : Emits(chain, h) # "nothing" => rows[chain[h].tx] # Unindexed

(* Without reorganizations, the agents table holds the chain's present     *)
(* truth whenever all events are indexed, although the streams that refresh*)
(* it are polled separately and read the chain at different moments: a step*)
(* logged under another hash than the agent's registered one raises a drift*)
(* alert, and one logged under that hash none (log_step takes them both).  *)
AgentCurrent ==
  forks = 0 /\ AllIndexed =>
    /\ agent = GetAgent(chain)
    /\ \A h \in Registrations :
         IdentityDrift(h) <=> RegisteredBefore(chain, Len(chain) + 1) /\ GetAgent(chain).hash # h
===========================================================================
