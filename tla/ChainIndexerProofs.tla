------------------------- MODULE ChainIndexerProofs -------------------------
(***************************************************************************)
(* Theorems of ChainIndexer, for any number of registrations and           *)
(* revocations, chains and reorganizations of any length, and any finality *)
(* gate.                                                                   *)
(***************************************************************************)
EXTENDS ChainIndexer, TLAPS, SequenceTheorems, WellFoundedInduction

---------------------------------------------------------------------------
(* The chain.                                                              *)

(* Two chains agree up to a block.                                         *)
SamePrefix(c, d, n) == \A g \in 1..n : d[g] = c[g]

LEMMA EmitsOfPrefix ==
  ASSUME NEW c, NEW d, NEW h \in Nat, h >= 1, SamePrefix(c, d, h)
  PROVE  Emits(d, h) = Emits(c, h)
<1>1. \A n \in 1..h : RegisteredBefore(d, n) = RegisteredBefore(c, n)
  BY DEF RegisteredBefore, SamePrefix
<1>2. RevokedBefore(d, h) = RevokedBefore(c, h)
  BY <1>1 DEF RevokedBefore, SamePrefix
<1>3. d[h] = c[h] /\ h \in 1..h
  BY DEF SamePrefix
<1> QED
  BY <1>1, <1>2, <1>3 DEF Emits

LEMMA EmitsKind ==
  ASSUME NEW c, NEW h, Emits(c, h) \in Kinds
  PROVE  c[h].tx \in Txs
  BY DEF Emits, Kinds, Txs

LEMMA LastRegistration ==
  ASSUME NEW c \in Seq(Block), RegisteredBefore(c, Len(c) + 1)
  PROVE  \E h \in DOMAIN c : /\ c[h].tx \in Registrations
                             /\ \A g \in (h + 1)..Len(c) : c[g].tx \notin Registrations
<1> DEFINE T == {n \in Nat : Len(c) - n \in 1..Len(c) /\ c[Len(c) - n].tx \in Registrations}
<1>1. PICK g \in 1..Len(c) : c[g].tx \in Registrations
  BY DEF RegisteredBefore
<1>2. Len(c) - g \in T
  BY <1>1
<1>3. PICK n \in T : \A m \in T : ~ (m < n)
  <2>1. T \subseteq Nat /\ T # {}
    BY <1>2
  <2> HIDE DEF T
  <2>2. \E n \in T : \A m \in T : ~ (<<m, n>> \in OpToRel(<, Nat))
    BY <2>1, NatLessThanWellFounded, WFMin
  <2>3. \A m, n \in Nat : m < n => <<m, n>> \in OpToRel(<, Nat)
    BY DEF OpToRel
  <2> QED
    BY <2>1, <2>2, <2>3
<1>5. \A k \in (Len(c) - n + 1)..Len(c) : c[k].tx \notin Registrations
  <2> SUFFICES ASSUME NEW k \in (Len(c) - n + 1)..Len(c), c[k].tx \in Registrations PROVE FALSE
    OBVIOUS
  <2>1. n \in Nat /\ Len(c) \in Nat /\ Len(c) - n >= 1
    BY <1>3
  <2>2. k \in Nat /\ k >= 1 /\ k <= Len(c) /\ Len(c) - k < n
    BY <2>1
  <2>3. Len(c) - (Len(c) - k) = k /\ Len(c) - k \in Nat
    BY <2>1, <2>2
  <2>4. Len(c) - k \in T
    BY <2>1, <2>2, <2>3
  <2> QED
    BY <1>3, <2>2, <2>4
<1>6. Len(c) - n \in DOMAIN c /\ c[Len(c) - n].tx \in Registrations
  BY <1>3
<1> QED
  BY <1>5, <1>6

LEMMA GetAgentType ==
  ASSUME NEW c \in Seq(Block)
  PROVE  GetAgent(c) \in AgentState
<1>1. CASE ~ RegisteredBefore(c, Len(c) + 1)
  BY <1>1 DEF GetAgent, Unknown, AgentState
<1>2. CASE RegisteredBefore(c, Len(c) + 1)
  <2> DEFINE last == CHOOSE h \in DOMAIN c :
                       /\ c[h].tx \in Registrations
                       /\ \A g \in (h + 1)..Len(c) : c[g].tx \notin Registrations
  <2>1. c[last].tx \in Registrations
    BY <1>2, LastRegistration
  <2>2. GetAgent(c) = [hash |-> c[last].tx, active |-> ~ RevokedBefore(c, Len(c) + 1)]
    BY <1>2 DEF GetAgent
  <2>3. RevokedBefore(c, Len(c) + 1) \in BOOLEAN
    BY DEF RevokedBefore
  <2> QED
    BY <2>1, <2>2, <2>3 DEF AgentState
<1> QED
  BY <1>1, <1>2

---------------------------------------------------------------------------
(* The invariant.                                                          *)

(* A log is an event of the canonical chain, behind the finality gate.     *)
AtEvent(tx, h, kind) ==
  h \in 1..Len(chain) /\ h + finality <= Len(chain) /\ chain[h].tx = tx /\ Emits(chain, h) = kind

(* No hash is from a fork yet to come; what is read or saved lies behind   *)
(* the finality gate, as the chain never gets shorter.                     *)
Gated ==
  /\ \A h \in 1..Len(chain) : chain[h].fork <= forks
  /\ \A k \in Kinds : cursors[k] # NoCursor =>
       /\ cursors[k].block >= 1 /\ cursors[k].block + finality <= Len(chain)
       /\ cursors[k].fork <= forks
  /\ poll.phase # "idle" => poll.start = 1 \/ (poll.start >= 1 /\ poll.start - 1 + finality <= Len(chain))
  /\ poll.phase \in {"bounded", "handling", "alerting"} =>
       poll.start <= poll.latest /\ poll.latest + finality <= Len(chain)
  /\ \A log \in poll.logs \cup poll.rows : log[2] \in 1..Len(chain)

(* What the poll is about to commit has been alerted, but for the event    *)
(* whose alert comes next.                                                 *)
Alerted ==
  /\ poll.phase = "alerting" => poll.alert \in Txs
  /\ \A log \in poll.rows :
       \/ poll.kind = "AgentRegistered"
       \/ log[1] \in alerted
       \/ poll.phase = "alerting" /\ poll.alert = log[1]

(* What the poll has read, and is about to commit, is on the chain.        *)
LogsOnChain ==
  finality >= ReorgDepth => \A log \in poll.logs \cup poll.rows : AtEvent(log[1], log[2], poll.kind)

RowsOnChain ==
  finality >= ReorgDepth =>
    \A tx \in Txs : rows[tx] # Unindexed => AtEvent(tx, rows[tx].block, rows[tx].kind)

(* All events of a stream up to a block are indexed.                       *)
Covered(kind, n) == \A h \in 1..n : Emits(chain, h) = kind => rows[chain[h].tx] # Unindexed

Safe == finality >= ReorgDepth \/ ~ torn

(* No reorganization reaches behind the rewind of a cursor.                *)
RewindCovers ==
  Safe => \A k \in Kinds : \A h \in 1..MaxHeight :
            h + Rewind <= cursors[k].block /\ Emits(chain, h) = k => rows[chain[h].tx] # Unindexed

(* A poll resumes after what is indexed, and loses nothing it has read.    *)
PollCovers ==
  Safe =>
    /\ poll.phase # "idle" => Covered(poll.kind, poll.start - 1)
    /\ poll.phase \in {"handling", "alerting"} =>
         \A h \in poll.start..poll.latest : Emits(chain, h) = poll.kind =>
           \/ <<chain[h].tx, h>> \in poll.logs
           \/ rows[chain[h].tx] # Unindexed
           \/ \E log \in poll.rows : log[1] = chain[h].tx

AlertInv == IndexerTypeOK /\ Gated /\ Alerted /\ IndexedIsAlerted
CoverInv == RewindCovers /\ PollCovers /\ NothingSkipped
IndexerInv == AlertInv /\ LogsOnChain /\ RowsOnChain /\ CoverInv

---------------------------------------------------------------------------
(* The chain moves.                                                        *)

(* A step that keeps the first n blocks, all but ReorgDepth, and replaces  *)
(* the others by blocks of a new fork.                                     *)
LEMMA ChainMoves ==
  ASSUME IndexerInv, NEW n \in 0..Len(chain), SamePrefix(chain, chain', n),
         chain' \in Seq(Block), Len(chain) <= Len(chain'), Len(chain') <= MaxHeight,
         Len(chain) <= n + ReorgDepth,
         \A h \in (n + 1)..Len(chain) : chain'[h].fork > forks,
         \A h \in 1..Len(chain') : chain'[h].fork <= forks',
         forks' \in 0..MaxForks, forks <= forks',
         UNCHANGED <<finality, cursors, rows, agent, alerted, poll>>,
         torn' \in BOOLEAN, torn => torn',
         n = Len(chain) \/ poll.phase = "idle" \/ torn'
  PROVE  IndexerInv'
<1> USE IndexerAssumption
<1>1. /\ Len(chain) \in Nat /\ Len(chain') \in Nat /\ forks \in Nat /\ finality \in Nat /\ torn \in BOOLEAN
      /\ poll.start \in Nat /\ poll.latest \in Nat
      /\ \A k \in Kinds : cursors[k].block \in Nat /\ cursors[k].fork \in Nat
      /\ poll.kind \in Kinds
  BY DEF IndexerInv, AlertInv, IndexerTypeOK
<1>2. IndexerTypeOK'
  BY DEF IndexerInv, AlertInv, IndexerTypeOK
<1>3. Gated'
  <2>1. \A k \in Kinds : cursors[k] # NoCursor =>
          /\ cursors[k].block >= 1 /\ cursors[k].block + finality <= Len(chain')
          /\ cursors[k].fork <= forks'
    <3> SUFFICES ASSUME NEW k \in Kinds, cursors[k] # NoCursor
                 PROVE  /\ cursors[k].block >= 1 /\ cursors[k].block + finality <= Len(chain')
                        /\ cursors[k].fork <= forks'
      OBVIOUS
    <3>1. /\ cursors[k].block >= 1 /\ cursors[k].block + finality <= Len(chain)
          /\ cursors[k].fork <= forks
      BY DEF IndexerInv, AlertInv, Gated
    <3>2. /\ cursors[k].block \in Nat /\ cursors[k].fork \in Nat /\ finality \in Nat
          /\ Len(chain) \in Nat /\ Len(chain') \in Nat /\ forks \in Nat /\ forks' \in Nat
      BY <1>1
    <3> QED
      BY SMTT(30), <3>1, <3>2
  <2>2. /\ poll.phase # "idle" =>
             poll.start = 1 \/ (poll.start >= 1 /\ poll.start - 1 + finality <= Len(chain'))
        /\ poll.phase \in {"bounded", "handling", "alerting"} =>
             poll.start <= poll.latest /\ poll.latest + finality <= Len(chain')
    BY SMTT(30), <1>1 DEF IndexerInv, AlertInv, Gated
  <2>3. \A log \in poll.logs \cup poll.rows : log[2] \in 1..Len(chain')
    BY <1>1 DEF IndexerInv, AlertInv, Gated
  <2> QED
    BY <2>1, <2>2, <2>3 DEF Gated
<1>4. Alerted' /\ IndexedIsAlerted'
  BY DEF IndexerInv, AlertInv, Alerted, IndexedIsAlerted
<1>5. \A h \in 1..n : chain'[h] = chain[h] /\ Emits(chain', h) = Emits(chain, h)
  BY EmitsOfPrefix DEF SamePrefix
<1>6. ASSUME finality >= ReorgDepth, NEW tx, NEW h, NEW kind, AtEvent(tx, h, kind)
      PROVE  AtEvent(tx, h, kind)'
  <2>1. h \in 1..n
    BY <1>1, <1>6 DEF AtEvent
  <2> QED
    BY <1>1, <1>5, <1>6, <2>1 DEF AtEvent
<1>7. LogsOnChain' /\ RowsOnChain'
  <2>1. LogsOnChain'
    BY <1>6 DEF IndexerInv, LogsOnChain
  <2>2. RowsOnChain'
    BY <1>6 DEF IndexerInv, RowsOnChain
  <2> QED
    BY <2>1, <2>2
<1>8. Safe' => Safe
  BY <1>1 DEF Safe
<1>9. RewindCovers'
  <2> SUFFICES ASSUME Safe', NEW k \in Kinds, NEW h \in 1..MaxHeight, h + Rewind <= cursors[k].block,
                      Emits(chain', h) = k
               PROVE  rows[chain'[h].tx] # Unindexed
    BY DEF RewindCovers
  <2>1. cursors[k].block + finality <= Len(chain)
    BY <1>1 DEF IndexerInv, AlertInv, Gated, NoCursor
  <2>2. h \in 1..n
    BY <1>1, <2>1
  <2> QED
    BY <1>5, <1>8, <2>2 DEF IndexerInv, CoverInv, RewindCovers
<1>10. PollCovers'
  <2> SUFFICES ASSUME Safe', poll.phase # "idle" PROVE PollCovers'
    BY DEF PollCovers
  <2>1. n = Len(chain) \/ finality >= ReorgDepth
    BY <1>1 DEF Safe
  <2>2. Covered(poll.kind, poll.start - 1)'
    <3> SUFFICES ASSUME NEW h \in 1..(poll.start - 1), Emits(chain', h) = poll.kind
                 PROVE  rows[chain'[h].tx] # Unindexed
      BY DEF Covered
    <3>1. h \in 1..n
      BY <1>1, <2>1 DEF IndexerInv, AlertInv, Gated
    <3> QED
      BY <1>5, <1>8, <3>1 DEF IndexerInv, CoverInv, PollCovers, Covered
  <2>3. ASSUME poll.phase \in {"handling", "alerting"}, NEW h \in poll.start..poll.latest,
               Emits(chain', h) = poll.kind
        PROVE  \/ <<chain'[h].tx, h>> \in poll.logs
               \/ rows[chain'[h].tx] # Unindexed
               \/ \E log \in poll.rows : log[1] = chain'[h].tx
    <3>1. h \in 1..n
      BY SMTT(30), <1>1, <2>1, <2>3 DEF IndexerInv, AlertInv, Gated
    <3> QED
      BY <1>5, <1>8, <2>3, <3>1 DEF IndexerInv, CoverInv, PollCovers
  <2> QED
    BY <2>2, <2>3 DEF PollCovers
<1>11. NothingSkipped'
  <2> SUFFICES ASSUME Safe', NEW k \in Kinds, cursors[k] # NoCursor,
                      chain'[cursors[k].block].fork = cursors[k].fork,
                      NEW h \in 1..cursors[k].block, Emits(chain', h) = k
               PROVE  rows[chain'[h].tx] # Unindexed
    BY DEF NothingSkipped, Safe
  <2>1. /\ cursors[k].block \in 1..Len(chain) /\ cursors[k].fork <= forks
    BY <1>1 DEF IndexerInv, AlertInv, Gated
  <2>2. cursors[k].block \in 1..n
    BY SMTT(30), <1>1, <2>1
  <2>3. chain[cursors[k].block].fork = cursors[k].fork /\ h \in 1..n
    BY SMTT(30), <1>1, <1>5, <2>2
  <2> QED
    BY <1>5, <1>8, <2>3 DEF IndexerInv, CoverInv, NothingSkipped, Safe
<1> QED
  BY <1>2, <1>3, <1>4, <1>7, <1>9, <1>10, <1>11 DEF IndexerInv, AlertInv, CoverInv

LEMMA MineKeeps == IndexerInv /\ Mine => IndexerInv'
<1> USE IndexerAssumption
<1> SUFFICES ASSUME IndexerInv, Mine PROVE IndexerInv'
  OBVIOUS
<1>1. chain \in Seq(Block) /\ forks \in 0..MaxForks /\ torn \in BOOLEAN
  BY DEF IndexerInv, AlertInv, IndexerTypeOK
<1>2. PICK b \in Block : chain' = Append(chain, b) /\ b.fork = forks
  <2>1. PICK tx \in Txs \cup {NoTx} : chain' = Append(chain, [tx |-> tx, fork |-> forks])
    BY DEF Mine
  <2> QED
    BY <1>1, <2>1 DEF Block
<1>3. /\ chain' \in Seq(Block) /\ Len(chain') = Len(chain) + 1 /\ Len(chain) \in Nat
      /\ \A h \in 1..Len(chain) : chain'[h] = chain[h]
      /\ chain'[Len(chain) + 1] = b
  BY <1>1, <1>2
<1>4. UNCHANGED <<forks, finality, cursors, rows, agent, alerted, poll, torn>> /\ Len(chain) < MaxHeight
  BY DEF Mine, dbVars
<1>5. \A h \in 1..Len(chain') : chain'[h].fork <= forks'
  BY <1>1, <1>2, <1>3, <1>4 DEF IndexerInv, AlertInv, Gated
<1>6. Len(chain) \in 0..Len(chain) /\ SamePrefix(chain, chain', Len(chain))
  BY <1>3 DEF SamePrefix
<1>7. /\ Len(chain) <= Len(chain') /\ Len(chain') <= MaxHeight /\ Len(chain) <= Len(chain) + ReorgDepth
      /\ \A h \in (Len(chain) + 1)..Len(chain) : chain'[h].fork > forks
      /\ forks' \in 0..MaxForks /\ forks <= forks' /\ torn' \in BOOLEAN /\ (torn => torn')
  BY <1>1, <1>3, <1>4
<1> QED
  BY <1>3, <1>4, <1>5, <1>6, <1>7, ChainMoves

(* What Reorganize makes of a chain c that keeps its first n blocks.       *)
Forked(c, n, d, f, txs) == SubSeq(c, 1, n) \o [i \in 1..d |-> [tx |-> txs[i], fork |-> f]]

LEMMA Replaced ==
  ASSUME NEW c \in Seq(Block), NEW n \in Nat, NEW d \in Nat, Len(c) = n + d, NEW f \in Nat,
         NEW txs \in [1..d -> Txs \cup {NoTx}],
         NEW e, e = Forked(c, n, d, f, txs)
  PROVE  /\ e \in Seq(Block) /\ Len(e) = n + d
         /\ \A h \in 1..n : e[h] = c[h]
         /\ \A h \in (n + 1)..(n + d) : e[h].fork = f
<1> DEFINE old == SubSeq(c, 1, n)
           new == [i \in 1..d |-> [tx |-> txs[i], fork |-> f]]
<1>1. /\ old \in Seq(Block) /\ Len(old) = n
      /\ \A h \in 1..n : old[h] = c[h]
  <2>1. \A i \in 1..n : c[i] \in Block
    OBVIOUS
  <2>2. /\ old \in Seq(Block)
        /\ Len(old) = IF 1 <= n THEN n - 1 + 1 ELSE 0
        /\ \A i \in 1..(n - 1 + 1) : old[i] = c[1 + i - 1]
    BY <2>1, SubSeqProperties
  <2> QED
    BY <2>2
<1>2. new \in Seq(Block) /\ Len(new) = d /\ \A i \in 1..d : new[i].fork = f
  <2>1. \A i \in 1..d : new[i] = [tx |-> txs[i], fork |-> f] /\ new[i] \in Block
    BY DEF Block
  <2>2. new \in [1..d -> Block]
    BY <2>1
  <2> QED
    BY <2>1, <2>2
<1>3. e = old \o new
  BY DEF Forked
<1> HIDE DEF old, new
<1>4. /\ e \in Seq(Block) /\ Len(e) = n + d
      /\ \A i \in 1..(n + d) : e[i] = IF i <= n THEN old[i] ELSE new[i - n]
  <2>1. /\ old \o new \in Seq(Block) /\ Len(old \o new) = Len(old) + Len(new)
        /\ \A i \in 1..(Len(old) + Len(new)) :
             (old \o new)[i] = IF i <= Len(old) THEN old[i] ELSE new[i - Len(old)]
    BY <1>1, <1>2, ConcatProperties
  <2> QED
    BY <1>1, <1>2, <1>3, <2>1
<1> QED
  BY <1>1, <1>2, <1>4

LEMMA ReorganizeKeeps == IndexerInv /\ Reorganize => IndexerInv'
<1> USE IndexerAssumption
<1> SUFFICES ASSUME IndexerInv, Reorganize PROVE IndexerInv'
  OBVIOUS
<1>1. chain \in Seq(Block) /\ forks \in 0..MaxForks /\ torn \in BOOLEAN
      /\ Len(chain) <= MaxHeight
  BY DEF IndexerInv, AlertInv, IndexerTypeOK
<1>2. PICK n \in Nat, d \in Nat :
        /\ Len(chain) = n + d /\ d <= ReorgDepth /\ d >= 1
        /\ chain' \in Seq(Block) /\ Len(chain') = n + d
        /\ \A h \in 1..n : chain'[h] = chain[h]
        /\ \A h \in (n + 1)..(n + d) : chain'[h].fork = forks + 1
  <2>1. PICK d \in 1..ReorgDepth :
          /\ d <= Len(chain)
          /\ \E txs \in [1..d -> (Txs \ {chain[h].tx : h \in 1..(Len(chain) - d)}) \cup {NoTx}] :
               chain' = SubSeq(chain, 1, Len(chain) - d)
                          \o [i \in 1..d |-> [tx |-> txs[i], fork |-> forks + 1]]
    BY DEF Reorganize
  <2>2. PICK n \in Nat : Len(chain) = n + d /\ Len(chain) - d = n
    <3>1. d \in Nat /\ Len(chain) \in Nat /\ d <= Len(chain)
      BY <1>1, <2>1
    <3>2. Len(chain) - d \in Nat /\ Len(chain) = (Len(chain) - d) + d
      BY <3>1
    <3> QED
      BY <3>1, <3>2
  <2>3. \A U : [1..d -> (Txs \ U) \cup {NoTx}] \subseteq [1..d -> Txs \cup {NoTx}]
    OBVIOUS
  <2>4. \E txs \in [1..d -> Txs \cup {NoTx}] :
           chain' = SubSeq(chain, 1, n) \o [i \in 1..d |-> [tx |-> txs[i], fork |-> forks + 1]]
    BY <2>1, <2>2, <2>3
  <2>5. forks + 1 \in Nat /\ d \in Nat /\ d <= ReorgDepth /\ d >= 1
    BY <1>1
  <2>6. PICK txs \in [1..d -> Txs \cup {NoTx}] : chain' = Forked(chain, n, d, forks + 1, txs)
    BY <2>4 DEF Forked
  <2>7. /\ chain' \in Seq(Block) /\ Len(chain') = n + d
        /\ \A h \in 1..n : chain'[h] = chain[h]
        /\ \A h \in (n + 1)..(n + d) : chain'[h].fork = forks + 1
    BY <1>1, <2>2, <2>5, <2>6, Replaced
  <2> QED
    BY <2>2, <2>5, <2>7
<1>3. /\ forks < MaxForks /\ forks' = forks + 1
      /\ torn' \in BOOLEAN /\ (torn => torn') /\ (poll.phase = "idle" \/ torn')
      /\ UNCHANGED <<finality, cursors, rows, agent, alerted, poll>>
  BY DEF Reorganize, dbVars
<1>4. forks \in Nat /\ forks' \in 0..MaxForks /\ forks <= forks'
  BY <1>1, <1>3
<1>5. SamePrefix(chain, chain', n)
  BY <1>2 DEF SamePrefix
<1>6. \A h \in (n + 1)..Len(chain) : chain'[h].fork > forks
  BY <1>2, <1>4
<1>7. \A h \in 1..Len(chain') : chain'[h].fork <= forks'
  <2> SUFFICES ASSUME NEW h \in 1..(n + d) PROVE chain'[h].fork <= forks + 1
    BY <1>2, <1>3
  <2>1. CASE h <= n
    <3>1. chain[h] \in Block
      BY <1>1, <1>2
    <3>2. chain'[h] = chain[h] /\ chain[h].fork <= forks /\ chain[h].fork \in Nat
      BY <1>2, <2>1, <3>1 DEF IndexerInv, AlertInv, Gated, Block
    <3> QED
      BY <1>4, <3>2
  <2>2. CASE h > n
    BY <1>2, <1>4, <2>2
  <2> QED
    BY <1>2, <2>1, <2>2
<1>8. /\ n \in 0..Len(chain)
      /\ Len(chain) <= Len(chain') /\ Len(chain') <= MaxHeight /\ Len(chain) <= n + ReorgDepth
  BY <1>1, <1>2
<1> QED
  BY <1>2, <1>3, <1>4, <1>5, <1>6, <1>7, <1>8, ChainMoves

---------------------------------------------------------------------------
(* The steps of a poll.                                                    *)

PollRecord ==
  [phase : {"idle", "started", "bounded", "handling", "alerting"},
   kind : Kinds, start : Nat, latest : Nat,
   logs : SUBSET (Txs \X Nat), rows : SUBSET (Txs \X Nat),
   agent : AgentState, alert : Txs \cup {NoTx}]

LEMMA NoPollFacts ==
  /\ NoPoll \in PollRecord /\ NoPoll.phase = "idle"
  /\ NoPoll.logs = {} /\ NoPoll.rows = {}
<1>1. Unknown \in AgentState
  BY DEF Unknown, AgentState
<1>2. "AgentRegistered" \in Kinds
  BY DEF Kinds
<1> QED
  BY <1>1, <1>2 DEF NoPoll, PollRecord

(* A step of the poll that commits nothing but an alert.                   *)
LEMMA PollKeeps ==
  ASSUME IndexerInv, poll' \in PollRecord,
         UNCHANGED <<chain, forks, finality, cursors, rows, agent, torn>>,
         alerted \subseteq alerted', alerted' \subseteq Txs,
         poll'.phase # "idle" =>
           poll'.start = 1 \/ (poll'.start >= 1 /\ poll'.start - 1 + finality <= Len(chain)),
         poll'.phase \in {"bounded", "handling", "alerting"} =>
           poll'.start <= poll'.latest /\ poll'.latest + finality <= Len(chain),
         \A log \in poll'.logs \cup poll'.rows : log[2] \in 1..Len(chain),
         Alerted', LogsOnChain', PollCovers'
  PROVE  IndexerInv'
<1>1. IndexerTypeOK'
  BY DEF IndexerInv, AlertInv, IndexerTypeOK, PollRecord
<1>2. Gated'
  BY DEF IndexerInv, AlertInv, Gated
<1>3. IndexedIsAlerted'
  BY DEF IndexerInv, AlertInv, IndexedIsAlerted
<1>4. RowsOnChain'
  BY DEF IndexerInv, RowsOnChain, AtEvent
<1>5. RewindCovers' /\ NothingSkipped'
  BY DEF IndexerInv, CoverInv, RewindCovers, NothingSkipped, Safe
<1> QED
  BY <1>1, <1>2, <1>3, <1>4, <1>5 DEF IndexerInv, AlertInv, CoverInv

LEMMA PollEnds ==
  ASSUME IndexerInv, poll' = NoPoll,
         UNCHANGED <<chain, forks, finality, cursors, rows, agent, alerted, torn>>
  PROVE  IndexerInv'
<1>1. Alerted' /\ LogsOnChain' /\ PollCovers'
  BY NoPollFacts DEF Alerted, LogsOnChain, PollCovers
<1>2. alerted' \subseteq Txs
  BY DEF IndexerInv, AlertInv, IndexerTypeOK
<1> QED
  BY <1>1, <1>2, NoPollFacts, PollKeeps

LEMMA StartBlockFacts ==
  ASSUME IndexerInv, NEW k \in Kinds, NEW start, start = StartBlock(cursors[k])
  PROVE  /\ start \in Nat /\ start >= 1
         /\ start = 1 \/ start - 1 + finality <= Len(chain)
         /\ Safe => Covered(k, start - 1)
<1> USE IndexerAssumption
<1> DEFINE cur == cursors[k]
<1>1. /\ cur.block \in 0..MaxHeight /\ finality \in Nat /\ Len(chain) \in Nat /\ Rewind \in Nat
      /\ cur # NoCursor => cur.block >= 1 /\ cur.block + finality <= Len(chain)
  BY DEF IndexerInv, AlertInv, IndexerTypeOK, Gated
<1> HIDE DEF cur
<1>2. CASE start = 1
  BY <1>2 DEF Covered
<1>3. CASE cur # NoCursor /\ chain[cur.block].fork = cur.fork /\ start = cur.block + 1
  <2>1. start - 1 = cur.block
    BY <1>1, <1>3
  <2>2. Safe => Covered(k, cur.block)
    BY <1>3 DEF cur, Covered, Safe, IndexerInv, CoverInv, NothingSkipped
  <2> QED
    BY <1>1, <1>3, <2>1, <2>2
<1>4. CASE cur # NoCursor /\ cur.block > Rewind /\ start = cur.block - Rewind
  <2>1. ASSUME Safe, NEW h \in 1..(start - 1), Emits(chain, h) = k
        PROVE  rows[chain[h].tx] # Unindexed
    <3>1. h \in 1..MaxHeight /\ h + Rewind <= cur.block
      BY <1>1, <1>4
    <3> QED
      BY <2>1, <3>1 DEF cur, IndexerInv, CoverInv, RewindCovers
  <2> QED
    BY <1>1, <1>4, <2>1 DEF Covered
<1> QED
  BY <1>2, <1>3, <1>4 DEF StartBlock, cur

LEMMA ResolveKeeps == ASSUME IndexerInv, NEW kind \in Kinds, ResolveStartBlock(kind) PROVE IndexerInv'
<1>1. UNCHANGED <<chain, forks, finality, cursors, rows, agent, alerted, torn>>
  BY DEF ResolveStartBlock, chainVars, dbVars
<1>2. PICK start : start = StartBlock(cursors[kind])
  OBVIOUS
<1>3. /\ start \in Nat /\ start >= 1
      /\ start = 1 \/ start - 1 + finality <= Len(chain)
      /\ Safe => Covered(kind, start - 1)
  BY <1>2, StartBlockFacts
<1>4. poll' = [NoPoll EXCEPT !.phase = "started", !.kind = kind, !.start = start]
  BY <1>2 DEF ResolveStartBlock, CursorName
<1>5. /\ poll' \in PollRecord /\ poll'.phase = "started" /\ poll'.kind = kind /\ poll'.start = start
      /\ poll'.logs = {} /\ poll'.rows = {}
  BY <1>3, <1>4, NoPollFacts DEF PollRecord
<1>6. Alerted' /\ LogsOnChain'
  BY <1>5 DEF Alerted, LogsOnChain
<1>7. PollCovers'
  BY <1>1, <1>3, <1>5 DEF PollCovers, Covered, Safe
<1>8. alerted' \subseteq Txs
  BY <1>1 DEF IndexerInv, AlertInv, IndexerTypeOK
<1> QED
  BY <1>1, <1>3, <1>5, <1>6, <1>7, <1>8, PollKeeps

LEMMA PollTypes ==
  ASSUME IndexerTypeOK
  PROVE  poll \in PollRecord /\ Len(chain) \in Nat /\ finality \in Nat
  BY IndexerAssumption DEF IndexerTypeOK, PollRecord

LEMMA ReadTipKeeps == IndexerInv /\ ReadTip => IndexerInv'
<1> SUFFICES ASSUME IndexerInv, ReadTip PROVE IndexerInv'
  OBVIOUS
<1>1. UNCHANGED <<chain, forks, finality, cursors, rows, agent, alerted, torn>> /\ poll.phase = "started"
  BY DEF ReadTip, chainVars, dbVars
<1>2. CASE poll.start > LatestBlock
  <2>1. poll' = NoPoll
    BY <1>2 DEF ReadTip
  <2> QED
    BY <1>1, <2>1, PollEnds
<1>3. CASE ~ poll.start > LatestBlock
  <2>1. poll' = [poll EXCEPT !.phase = "bounded", !.latest = LatestBlock]
    BY <1>3 DEF ReadTip
  <2>2. poll \in PollRecord /\ Len(chain) \in Nat /\ finality \in Nat
    BY PollTypes DEF IndexerInv, AlertInv
  <2>3. /\ poll.start \in Nat /\ poll.start >= 1
        /\ poll.start = 1 \/ poll.start - 1 + finality <= Len(chain)
    BY <1>1, <2>2 DEF IndexerInv, AlertInv, Gated, PollRecord
  <2>4. LatestBlock \in Nat /\ poll.start <= LatestBlock /\ LatestBlock + finality <= Len(chain)
    BY <1>3, <2>2, <2>3 DEF LatestBlock
  <2>5. /\ poll' \in PollRecord /\ poll'.phase = "bounded" /\ poll'.latest = LatestBlock
        /\ poll'.kind = poll.kind /\ poll'.start = poll.start
        /\ poll'.logs = poll.logs /\ poll'.rows = poll.rows /\ poll'.alert = poll.alert
    BY <2>1, <2>2, <2>4 DEF PollRecord
  <2>6. Alerted'
    BY <1>1, <2>5 DEF IndexerInv, AlertInv, Alerted
  <2>7. LogsOnChain'
    BY <1>1, <2>5 DEF IndexerInv, LogsOnChain, AtEvent
  <2>8. PollCovers'
    BY <1>1, <2>5 DEF IndexerInv, CoverInv, PollCovers, Covered, Safe
  <2>9. /\ alerted' \subseteq Txs
        /\ \A log \in poll'.logs \cup poll'.rows : log[2] \in 1..Len(chain)
    BY <1>1, <2>5 DEF IndexerInv, AlertInv, IndexerTypeOK, Gated
  <2> QED
    BY <1>1, <2>3, <2>4, <2>5, <2>6, <2>7, <2>8, <2>9, PollKeeps
<1> QED
  BY <1>2, <1>3

LEMMA GetLogsKeeps == IndexerInv /\ GetLogs => IndexerInv'
<1> SUFFICES ASSUME IndexerInv, GetLogs PROVE IndexerInv'
  OBVIOUS
<1>1. UNCHANGED <<chain, forks, finality, cursors, rows, agent, alerted, torn>> /\ poll.phase = "bounded"
  BY DEF GetLogs, chainVars, dbVars
<1> DEFINE found == {<<chain[h].tx, h>> : h \in {g \in poll.start..poll.latest : Emits(chain, g) = poll.kind}}
<1>2. poll' = [poll EXCEPT !.phase = "handling", !.agent = agent, !.logs = found]
  BY DEF GetLogs
<1>3. poll \in PollRecord /\ Len(chain) \in Nat /\ finality \in Nat
  BY PollTypes DEF IndexerInv, AlertInv
<1>4. /\ poll.start \in Nat /\ poll.start >= 1 /\ poll.latest \in Nat /\ poll.kind \in Kinds
      /\ poll.start = 1 \/ poll.start - 1 + finality <= Len(chain)
      /\ poll.start <= poll.latest /\ poll.latest + finality <= Len(chain)
  BY <1>1, <1>3 DEF IndexerInv, AlertInv, Gated, PollRecord
<1>5. \A log \in found : /\ log \in Txs \X Nat /\ log[2] \in poll.start..poll.latest
                         /\ log[1] = chain[log[2]].tx /\ Emits(chain, log[2]) = poll.kind
  BY <1>4, EmitsKind
<1>6. \A h \in poll.start..poll.latest : Emits(chain, h) = poll.kind => <<chain[h].tx, h>> \in found
  OBVIOUS
<1> HIDE DEF found
<1>7. agent \in AgentState /\ alerted' \subseteq Txs
  BY <1>1 DEF IndexerInv, AlertInv, IndexerTypeOK
<1>8. /\ poll' \in PollRecord /\ poll'.phase = "handling" /\ poll'.latest = poll.latest
      /\ poll'.kind = poll.kind /\ poll'.start = poll.start
      /\ poll'.logs = found /\ poll'.rows = poll.rows /\ poll'.alert = poll.alert
  BY <1>2, <1>3, <1>5, <1>7 DEF PollRecord
<1>9. Alerted'
  BY <1>1, <1>8 DEF IndexerInv, AlertInv, Alerted
<1>10. LogsOnChain'
  <2>1. \A log \in found : AtEvent(log[1], log[2], poll.kind)
    BY <1>3, <1>4, <1>5 DEF AtEvent
  <2>2. \A log \in found \cup poll.rows : finality >= ReorgDepth => AtEvent(log[1], log[2], poll.kind)
    BY <2>1 DEF IndexerInv, LogsOnChain
  <2> QED
    BY <1>1, <1>8, <2>2 DEF LogsOnChain, AtEvent
<1>11. PollCovers'
  BY <1>1, <1>6, <1>8 DEF IndexerInv, CoverInv, PollCovers, Covered, Safe
<1>12. \A log \in poll'.logs \cup poll'.rows : log[2] \in 1..Len(chain)
  <2>1. \A log \in found : log[2] \in 1..Len(chain)
    BY <1>3, <1>4, <1>5
  <2> QED
    BY <1>8, <2>1 DEF IndexerInv, AlertInv, Gated
<1> QED
  BY <1>1, <1>4, <1>7, <1>8, <1>9, <1>10, <1>11, <1>12, PollKeeps

LEMMA IndexEventKeeps == IndexerInv /\ IndexEvent => IndexerInv'
<1> SUFFICES ASSUME IndexerInv, IndexEvent PROVE IndexerInv'
  OBVIOUS
<1>1. UNCHANGED <<chain, forks, finality, cursors, rows, agent, alerted, torn>> /\ poll.phase = "handling"
  BY DEF IndexEvent, chainVars, dbVars
<1>2. poll \in PollRecord /\ Len(chain) \in Nat /\ finality \in Nat
  BY PollTypes DEF IndexerInv, AlertInv
<1>3. /\ poll.start \in Nat /\ poll.start >= 1 /\ poll.kind \in Kinds
      /\ poll.start = 1 \/ poll.start - 1 + finality <= Len(chain)
      /\ poll.start <= poll.latest /\ poll.latest + finality <= Len(chain)
      /\ poll.logs \subseteq Txs \X Nat /\ poll.rows \subseteq Txs \X Nat
      /\ \A l \in poll.logs \cup poll.rows : l[2] \in 1..Len(chain)
  BY <1>1, <1>2 DEF IndexerInv, AlertInv, Gated, PollRecord
<1>4. alerted' \subseteq Txs
  BY <1>1 DEF IndexerInv, AlertInv, IndexerTypeOK
<1>5. PICK log \in poll.logs :
        \/ /\ rows[log[1]] # Unindexed
           /\ poll' = [poll EXCEPT !.logs = @ \ {log}]
        \/ /\ rows[log[1]] = Unindexed
           /\ poll' = [[poll EXCEPT !.logs = @ \ {log}] EXCEPT
                !.phase = IF poll.kind = "AgentRegistered" THEN "handling" ELSE "alerting",
                !.rows = @ \cup {log}, !.agent = LiveAgent(log[1]), !.alert = log[1]]
  BY DEF IndexEvent
<1>6. CASE rows[log[1]] # Unindexed /\ poll' = [poll EXCEPT !.logs = @ \ {log}]
  <2>1. /\ poll' \in PollRecord /\ poll'.phase = poll.phase /\ poll'.latest = poll.latest
        /\ poll'.kind = poll.kind /\ poll'.start = poll.start /\ poll'.alert = poll.alert
        /\ poll'.logs = poll.logs \ {log} /\ poll'.rows = poll.rows
    BY <1>2, <1>6 DEF PollRecord
  <2>2. Alerted'
    BY <1>1, <2>1 DEF IndexerInv, AlertInv, Alerted
  <2>3. LogsOnChain'
    BY <1>1, <2>1 DEF IndexerInv, LogsOnChain, AtEvent
  <2>4. ASSUME Safe, NEW h \in poll.start..poll.latest, Emits(chain, h) = poll.kind
        PROVE  \/ <<chain[h].tx, h>> \in poll'.logs
               \/ rows[chain[h].tx] # Unindexed
               \/ \E l \in poll'.rows : l[1] = chain[h].tx
    <3>1. CASE <<chain[h].tx, h>> = log
      BY <1>6, <3>1
    <3>2. CASE <<chain[h].tx, h>> # log
      BY <1>1, <2>1, <2>4, <3>2 DEF IndexerInv, CoverInv, PollCovers
    <3> QED
      BY <3>1, <3>2
  <2>5. PollCovers'
    BY <1>1, <2>1, <2>4 DEF IndexerInv, CoverInv, PollCovers, Covered, Safe
  <2> QED
    BY <1>1, <1>3, <1>4, <2>1, <2>2, <2>3, <2>5, PollKeeps
<1>7. CASE poll' = [[poll EXCEPT !.logs = @ \ {log}] EXCEPT
                !.phase = IF poll.kind = "AgentRegistered" THEN "handling" ELSE "alerting",
                !.rows = @ \cup {log}, !.agent = LiveAgent(log[1]), !.alert = log[1]]
  <2>1. PICK live \in AgentState : live = LiveAgent(log[1])
    BY GetAgentType DEF LiveAgent, IndexerInv, AlertInv, IndexerTypeOK
  <2>2. log[1] \in Txs /\ log \in Txs \X Nat
    BY <1>3
  <2>3. /\ poll' \in PollRecord /\ poll'.latest = poll.latest
        /\ poll'.phase = IF poll.kind = "AgentRegistered" THEN "handling" ELSE "alerting"
        /\ poll'.kind = poll.kind /\ poll'.start = poll.start /\ poll'.alert = log[1]
        /\ poll'.logs = poll.logs \ {log} /\ poll'.rows = poll.rows \cup {log}
    BY <1>2, <1>3, <1>7, <2>1, <2>2 DEF PollRecord
  <2>4. poll'.logs \cup poll'.rows = poll.logs \cup poll.rows
    BY <2>3
  <2>5. Alerted'
    BY <1>1, <2>2, <2>3 DEF IndexerInv, AlertInv, Alerted
  <2>6. LogsOnChain'
    BY <1>1, <2>3, <2>4 DEF IndexerInv, LogsOnChain, AtEvent
  <2>7. ASSUME Safe, NEW h \in poll.start..poll.latest, Emits(chain, h) = poll.kind
        PROVE  \/ <<chain[h].tx, h>> \in poll'.logs
               \/ rows[chain[h].tx] # Unindexed
               \/ \E l \in poll'.rows : l[1] = chain[h].tx
    <3>1. CASE <<chain[h].tx, h>> = log
      BY <2>3, <3>1
    <3>2. CASE <<chain[h].tx, h>> # log
      BY <1>1, <2>3, <2>7, <3>2 DEF IndexerInv, CoverInv, PollCovers
    <3> QED
      BY <3>1, <3>2
  <2>8. PollCovers'
    BY <1>1, <2>3, <2>7 DEF IndexerInv, CoverInv, PollCovers, Covered, Safe
  <2> QED
    BY <1>1, <1>3, <1>4, <2>3, <2>4, <2>5, <2>6, <2>8, PollKeeps
<1> QED
  BY <1>5, <1>6, <1>7

LEMMA RaiseKeeps == IndexerInv /\ RaiseIdentityAlert => IndexerInv'
<1> SUFFICES ASSUME IndexerInv, RaiseIdentityAlert PROVE IndexerInv'
  OBVIOUS
<1>1. /\ UNCHANGED <<chain, forks, finality, cursors, rows, agent, torn>>
      /\ poll.phase = "alerting" /\ alerted' = alerted \cup {poll.alert}
      /\ poll' = [poll EXCEPT !.phase = "handling"]
  BY DEF RaiseIdentityAlert, chainVars
<1>2. poll \in PollRecord /\ Len(chain) \in Nat /\ finality \in Nat
  BY PollTypes DEF IndexerInv, AlertInv
<1>3. /\ poll.start = 1 \/ (poll.start >= 1 /\ poll.start - 1 + finality <= Len(chain))
      /\ poll.start <= poll.latest /\ poll.latest + finality <= Len(chain)
      /\ \A l \in poll.logs \cup poll.rows : l[2] \in 1..Len(chain)
  BY <1>1, <1>2 DEF IndexerInv, AlertInv, Gated
<1>4. /\ poll' \in PollRecord /\ poll'.phase = "handling" /\ poll'.latest = poll.latest
      /\ poll'.kind = poll.kind /\ poll'.start = poll.start
      /\ poll'.logs = poll.logs /\ poll'.rows = poll.rows
  BY <1>1, <1>2 DEF PollRecord
<1>5. alerted \subseteq alerted' /\ alerted' \subseteq Txs
  BY <1>1 DEF IndexerInv, AlertInv, IndexerTypeOK, Alerted
<1>6. Alerted'
  BY <1>1, <1>4 DEF IndexerInv, AlertInv, Alerted
<1>7. LogsOnChain'
  BY <1>1, <1>4 DEF IndexerInv, LogsOnChain, AtEvent
<1>8. PollCovers'
  BY <1>1, <1>4 DEF IndexerInv, CoverInv, PollCovers, Covered, Safe
<1> QED
  BY <1>1, <1>3, <1>4, <1>5, <1>6, <1>7, <1>8, PollKeeps

(* The rows, the agents table and the cursor are committed.                *)
LEMMA SaveCursorKeeps == IndexerInv /\ SaveCursor => IndexerInv'
<1> SUFFICES ASSUME IndexerInv, SaveCursor PROVE IndexerInv'
  OBVIOUS
<1>1. /\ UNCHANGED <<chain, forks, finality, alerted, torn>>
      /\ poll.phase = "handling" /\ poll.logs = {} /\ poll' = NoPoll
      /\ rows' = RowsSoFar /\ agent' = poll.agent
      /\ cursors' = [cursors EXCEPT ![poll.kind] = [block |-> poll.latest, fork |-> chain[poll.latest].fork]]
  BY DEF SaveCursor, chainVars, CursorName
<1>2. poll \in PollRecord /\ Len(chain) \in Nat /\ finality \in Nat
  BY PollTypes DEF IndexerInv, AlertInv
<1>3. /\ poll.kind \in Kinds /\ poll.rows \subseteq Txs \X Nat /\ poll.agent \in AgentState
      /\ poll.latest \in Nat /\ poll.latest >= 1
      /\ poll.latest + finality <= Len(chain) /\ poll.latest \in 1..Len(chain)
      /\ poll.start \in Nat /\ poll.start >= 1
      /\ \A l \in poll.rows : l[2] \in 1..Len(chain)
  BY <1>1, <1>2 DEF IndexerInv, AlertInv, Gated, PollRecord
<1>4. /\ chain \in Seq(Block) /\ Len(chain) <= MaxHeight /\ forks \in 0..MaxForks
      /\ rows \in [Txs -> [block : 0..MaxHeight, kind : Kinds \cup {"none"}]]
      /\ cursors \in [Kinds -> [block : 0..MaxHeight, fork : 0..MaxForks]]
      /\ MaxHeight \in Nat /\ MaxForks \in Nat /\ Rewind \in Nat
  BY IndexerAssumption DEF IndexerInv, AlertInv, IndexerTypeOK
<1>5. \A kind \in Kinds : kind # "none"
  BY DEF Kinds
<1>6. ASSUME NEW tx \in Txs
      PROVE  \/ rows'[tx] = rows[tx] /\ ~ \E l \in poll.rows : l[1] = tx
             \/ \E l \in poll.rows : l[1] = tx /\ rows'[tx] = [block |-> l[2], kind |-> poll.kind]
  <2>1. CASE \E l \in poll.rows : l[1] = tx
    <3> DEFINE l == CHOOSE l \in poll.rows : l[1] = tx
    <3>1. l \in poll.rows /\ l[1] = tx
      BY <2>1
    <3>2. rows'[tx] = [block |-> l[2], kind |-> poll.kind]
      BY <1>1, <2>1 DEF RowsSoFar
    <3> QED
      BY <3>1, <3>2
  <2>2. CASE ~ \E l \in poll.rows : l[1] = tx
    BY <1>1, <2>2 DEF RowsSoFar
  <2> QED
    BY <2>1, <2>2
<1>7. rows' \in [Txs -> [block : 0..MaxHeight, kind : Kinds \cup {"none"}]]
  <2>1. ASSUME NEW tx \in Txs
        PROVE  rows'[tx] \in [block : 0..MaxHeight, kind : Kinds \cup {"none"}]
    <3>1. CASE rows'[tx] = rows[tx]
      BY <1>4, <3>1
    <3>2. ASSUME NEW l \in poll.rows, rows'[tx] = [block |-> l[2], kind |-> poll.kind]
          PROVE  rows'[tx] \in [block : 0..MaxHeight, kind : Kinds \cup {"none"}]
      <4>1. l[2] \in 0..MaxHeight
        BY <1>2, <1>3, <1>4
      <4> QED
        BY <1>3, <3>2, <4>1
    <3> QED
      BY <1>6, <3>1, <3>2
  <2> QED
    BY <1>1, <2>1 DEF RowsSoFar
<1>8. \A tx \in Txs : rows[tx] # Unindexed \/ (\E l \in poll.rows : l[1] = tx) => rows'[tx] # Unindexed
  <2> SUFFICES ASSUME NEW tx \in Txs, rows[tx] # Unindexed \/ (\E l \in poll.rows : l[1] = tx)
               PROVE  rows'[tx] # Unindexed
    OBVIOUS
  <2>1. CASE rows'[tx] = rows[tx] /\ ~ \E l \in poll.rows : l[1] = tx
    BY <2>1
  <2>2. ASSUME NEW l \in poll.rows, rows'[tx] = [block |-> l[2], kind |-> poll.kind]
        PROVE  rows'[tx] # Unindexed
    <3>1. rows'[tx].kind = poll.kind
      BY <2>2
    <3>2. Unindexed.kind = "none"
      BY DEF Unindexed
    <3> QED
      BY <1>3, <1>5, <3>1, <3>2
  <2> QED
    BY <1>6, <2>1, <2>2
<1>9. chain[poll.latest] \in Block /\ chain[poll.latest].fork <= forks /\ chain[poll.latest].fork \in Nat
  <2>1. chain[poll.latest] \in Block
    BY <1>3, <1>4
  <2>2. chain[poll.latest].fork <= forks
    BY <1>3 DEF IndexerInv, AlertInv, Gated
  <2> QED
    BY <2>1, <2>2 DEF Block
<1>10. PICK cur \in [block : 0..MaxHeight, fork : 0..MaxForks] :
         cur = [block |-> poll.latest, fork |-> chain[poll.latest].fork]
  <2>1. poll.latest \in 0..MaxHeight
    BY <1>2, <1>3, <1>4
  <2>2. chain[poll.latest].fork \in 0..MaxForks
    BY <1>4, <1>9
  <2> QED
    BY <2>1, <2>2
<1>11. /\ cursors' \in [Kinds -> [block : 0..MaxHeight, fork : 0..MaxForks]]
       /\ cursors'[poll.kind] = cur
       /\ \A k \in Kinds \ {poll.kind} : cursors'[k] = cursors[k]
  BY <1>1, <1>3, <1>4, <1>10
<1>12. IndexerTypeOK'
  BY <1>1, <1>3, <1>7, <1>11, NoPollFacts DEF PollRecord, IndexerInv, AlertInv, IndexerTypeOK
<1>13. Gated'
  BY <1>1, <1>3, <1>9, <1>10, <1>11, NoPollFacts DEF IndexerInv, AlertInv, Gated
<1>14. Alerted' /\ LogsOnChain' /\ PollCovers'
  BY <1>1, NoPollFacts DEF Alerted, LogsOnChain, PollCovers
<1>15. IndexedIsAlerted'
  <2> SUFFICES ASSUME NEW tx \in Txs, rows'[tx].kind \in {"AgentUpdated", "AgentRevoked"}
               PROVE  tx \in alerted
    BY <1>1 DEF IndexedIsAlerted
  <2>1. CASE rows'[tx] = rows[tx]
    BY <2>1 DEF IndexerInv, AlertInv, IndexedIsAlerted
  <2>2. ASSUME NEW l \in poll.rows, l[1] = tx, rows'[tx] = [block |-> l[2], kind |-> poll.kind]
        PROVE  tx \in alerted
    BY <1>1, <2>2 DEF IndexerInv, AlertInv, Alerted
  <2> QED
    BY <1>6, <2>1, <2>2
<1>16. RowsOnChain'
  <2> SUFFICES ASSUME finality >= ReorgDepth, NEW tx \in Txs, rows'[tx] # Unindexed,
                      NEW row, row = rows'[tx]
               PROVE  AtEvent(tx, row.block, row.kind)
    BY <1>1 DEF RowsOnChain, AtEvent
  <2>1. CASE rows'[tx] = rows[tx]
    BY <2>1 DEF IndexerInv, RowsOnChain
  <2>2. ASSUME NEW l \in poll.rows, l[1] = tx, rows'[tx] = [block |-> l[2], kind |-> poll.kind]
        PROVE  AtEvent(tx, row.block, row.kind)
    <3>1. AtEvent(l[1], l[2], poll.kind)
      BY DEF IndexerInv, LogsOnChain
    <3> QED
      BY <2>2, <3>1
  <2> QED
    BY <1>6, <2>1, <2>2
<1>17. ASSUME Safe, NEW h \in 1..poll.latest, Emits(chain, h) = poll.kind
       PROVE  rows'[chain[h].tx] # Unindexed
  <2>1. chain[h].tx \in Txs
    BY <1>3, <1>17, EmitsKind
  <2>2. CASE h < poll.start
    <3>1. h \in 1..(poll.start - 1)
      BY <1>3, <2>2
    <3>2. rows[chain[h].tx] # Unindexed
      BY <1>1, <1>17, <3>1 DEF IndexerInv, CoverInv, PollCovers, Covered
    <3> QED
      BY <1>8, <2>1, <3>2
  <2>3. CASE h >= poll.start
    <3>1. h \in poll.start..poll.latest
      BY <1>3, <2>3
    <3>2. rows[chain[h].tx] # Unindexed \/ \E l \in poll.rows : l[1] = chain[h].tx
      BY <1>1, <1>17, <3>1 DEF IndexerInv, CoverInv, PollCovers
    <3> QED
      BY <1>8, <2>1, <3>2
  <2> QED
    BY <1>3, <2>2, <2>3
<1>18. RewindCovers'
  <2> SUFFICES ASSUME Safe, NEW k \in Kinds, NEW h \in 1..MaxHeight, h + Rewind <= cursors'[k].block,
                      Emits(chain, h) = k
               PROVE  rows'[chain[h].tx] # Unindexed
    BY <1>1 DEF RewindCovers, Safe
  <2>1. CASE k = poll.kind
    <3>1. h \in 1..poll.latest
      BY <1>3, <1>4, <1>10, <1>11, <2>1
    <3> QED
      BY <1>17, <2>1, <3>1
  <2>2. CASE k # poll.kind
    <3>1. rows[chain[h].tx] # Unindexed /\ chain[h].tx \in Txs
      BY <1>11, <2>2, EmitsKind DEF IndexerInv, CoverInv, RewindCovers
    <3> QED
      BY <1>8, <3>1
  <2> QED
    BY <2>1, <2>2
<1>19. NothingSkipped'
  <2> SUFFICES ASSUME Safe, NEW k \in Kinds, NEW c, c = cursors'[k], c # NoCursor,
                      chain[c.block].fork = c.fork,
                      NEW h \in 1..c.block, Emits(chain, h) = k
               PROVE  rows'[chain[h].tx] # Unindexed
    BY <1>1 DEF NothingSkipped, Safe
  <2>1. CASE k = poll.kind
    BY <1>10, <1>11, <1>17, <2>1
  <2>2. CASE k # poll.kind
    <3>1. rows[chain[h].tx] # Unindexed /\ chain[h].tx \in Txs
      BY <1>11, <2>2, EmitsKind DEF IndexerInv, CoverInv, NothingSkipped, Safe
    <3> QED
      BY <1>8, <3>1
  <2> QED
    BY <2>1, <2>2
<1> QED
  BY <1>12, <1>13, <1>14, <1>15, <1>16, <1>18, <1>19 DEF IndexerInv, AlertInv, CoverInv

LEMMA AbortKeeps == IndexerInv /\ AbortPoll => IndexerInv'
  BY PollEnds DEF AbortPoll, RolledBack, chainVars

---------------------------------------------------------------------------
(* The theorems.                                                           *)

LEMMA IndexerInit == Init => IndexerInv
<1> SUFFICES ASSUME Init PROVE IndexerInv
  OBVIOUS
<1> USE IndexerAssumption
<1>1. /\ chain = <<>> /\ Len(chain) = 0 /\ forks = 0 /\ finality \in Finalities /\ alerted = {} /\ torn = FALSE
      /\ cursors = [k \in Kinds |-> NoCursor] /\ rows = [tx \in Txs |-> Unindexed]
      /\ agent = Unknown /\ poll = NoPoll
  BY DEF Init
<1>2. Unknown \in AgentState
  BY DEF Unknown, AgentState
<1>3. IndexerTypeOK
  <2>0. chain \in Seq(Block)
    BY <1>1
  <2>1. Len(chain) <= MaxHeight /\ forks \in 0..MaxForks /\ alerted \subseteq Txs
    BY <1>1
  <2>t. torn \in BOOLEAN
    BY <1>1
  <2>2. cursors \in [Kinds -> [block : 0..MaxHeight, fork : 0..MaxForks]]
    BY <1>1 DEF NoCursor
  <2>3. rows \in [Txs -> [block : 0..MaxHeight, kind : Kinds \cup {"none"}]]
    BY <1>1 DEF Unindexed
  <2> QED
    BY <1>1, <1>2, <2>0, <2>1, <2>t, <2>2, <2>3, NoPollFacts DEF IndexerTypeOK, PollRecord
<1>4. Gated
  BY <1>1, NoPollFacts DEF Gated
<1>5. Alerted /\ LogsOnChain /\ PollCovers
  BY <1>1, NoPollFacts DEF Alerted, LogsOnChain, PollCovers
<1>6. IndexedIsAlerted
  BY <1>1 DEF IndexedIsAlerted, Unindexed
<1>7. RowsOnChain
  BY <1>1 DEF RowsOnChain
<1>8. RewindCovers
  BY <1>1 DEF RewindCovers, NoCursor
<1>9. NothingSkipped
  BY <1>1 DEF NothingSkipped
<1> QED
  BY <1>3, <1>4, <1>5, <1>6, <1>7, <1>8, <1>9 DEF IndexerInv, AlertInv, CoverInv

LEMMA IndexerStep == IndexerInv /\ [Next]_vars => IndexerInv'
<1> SUFFICES ASSUME IndexerInv, [Next]_vars PROVE IndexerInv'
  OBVIOUS
<1>1. CASE Mine
  BY <1>1, MineKeeps
<1>2. CASE Reorganize
  BY <1>2, ReorganizeKeeps
<1>3. CASE PollOnce
  <2>1. ASSUME NEW k \in Kinds, ResolveStartBlock(k) PROVE IndexerInv'
    BY <2>1, ResolveKeeps
  <2> QED
    BY <1>3, <2>1, ReadTipKeeps, GetLogsKeeps, IndexEventKeeps, RaiseKeeps, SaveCursorKeeps DEF PollOnce
<1>4. CASE AbortPoll
  BY <1>4, AbortKeeps
<1>5. CASE UNCHANGED vars
  <2>1. UNCHANGED <<chain, forks, finality, cursors, rows, agent, alerted, poll, torn>>
    BY <1>5 DEF vars, chainVars, dbVars
  <2>2. IndexerTypeOK' /\ Gated' /\ Alerted' /\ IndexedIsAlerted'
    BY <2>1 DEF IndexerInv, AlertInv, IndexerTypeOK, Gated, Alerted, IndexedIsAlerted
  <2>3. LogsOnChain' /\ RowsOnChain'
    BY <2>1 DEF IndexerInv, LogsOnChain, RowsOnChain, AtEvent
  <2>4. RewindCovers' /\ PollCovers' /\ NothingSkipped'
    BY <2>1 DEF IndexerInv, CoverInv, RewindCovers, PollCovers, NothingSkipped, Covered, Safe
  <2> QED
    BY <2>2, <2>3, <2>4 DEF IndexerInv, AlertInv, CoverInv
<1> QED
  BY <1>1, <1>2, <1>3, <1>4, <1>5 DEF Next

---------------------------------------------------------------------------
(* The agents table, as long as the chain has not reorganized.             *)

(* What getAgent returned for a when the chain c was n blocks long.        *)
AgentAt(a, c, n) ==
  \/ ~ RegisteredBefore(c, n + 1) /\ a = Unknown
  \/ \E h \in 1..n :
       /\ c[h].tx \in Registrations
       /\ \A g \in (h + 1)..n : c[g].tx \notin Registrations
       /\ a = [hash |-> c[h].tx, active |-> ~ RevokedBefore(c, n + 1)]

LEMMA AgentAtHead ==
  ASSUME NEW c \in Seq(Block), NEW a
  PROVE  AgentAt(a, c, Len(c)) <=> a = GetAgent(c)
<1>1. CASE ~ RegisteredBefore(c, Len(c) + 1)
  <2>1. \A h \in 1..Len(c) : c[h].tx \notin Registrations
    BY <1>1 DEF RegisteredBefore
  <2> QED
    BY <1>1, <2>1 DEF AgentAt, GetAgent
<1>2. CASE RegisteredBefore(c, Len(c) + 1)
  <2> DEFINE last == CHOOSE h \in DOMAIN c :
                       /\ c[h].tx \in Registrations
                       /\ \A g \in (h + 1)..Len(c) : c[g].tx \notin Registrations
  <2>1. /\ last \in 1..Len(c) /\ c[last].tx \in Registrations
        /\ \A g \in (last + 1)..Len(c) : c[g].tx \notin Registrations
    BY <1>2, LastRegistration
  <2>2. GetAgent(c) = [hash |-> c[last].tx, active |-> ~ RevokedBefore(c, Len(c) + 1)]
    BY <1>2 DEF GetAgent
  <2> HIDE DEF last
  <2>3. ASSUME NEW h \in 1..Len(c), c[h].tx \in Registrations,
               \A g \in (h + 1)..Len(c) : c[g].tx \notin Registrations
        PROVE  h = last
    BY <2>1, <2>3
  <2> QED
    BY <1>2, <2>1, <2>2, <2>3 DEF AgentAt
<1> QED
  BY <1>1, <1>2

LEMMA AgentOfPrefix ==
  ASSUME NEW c, NEW d, NEW n \in Nat, SamePrefix(c, d, n), NEW a, AgentAt(a, c, n)
  PROVE  AgentAt(a, d, n)
<1>1. \A g \in 1..(n + 1) : RegisteredBefore(d, g) = RegisteredBefore(c, g)
  BY DEF RegisteredBefore, SamePrefix
<1>2. RevokedBefore(d, n + 1) = RevokedBefore(c, n + 1)
  BY <1>1 DEF RevokedBefore, SamePrefix
<1> QED
  BY <1>1, <1>2 DEF AgentAt, SamePrefix

(* The first effective revocation is one that emits AgentRevoked.          *)
LEMMA FirstRevocation ==
  ASSUME NEW c, NEW m \in Nat, RevokedBefore(c, m + 1)
  PROVE  \E g \in 1..m : /\ c[g].tx \in Revocations /\ RegisteredBefore(c, g)
                         /\ ~ RevokedBefore(c, g)
<1> DEFINE T == {g \in Nat : g \in 1..m /\ c[g].tx \in Revocations /\ RegisteredBefore(c, g)}
<1>1. T \subseteq Nat /\ T # {}
  BY DEF RevokedBefore
<1>2. \E g \in T : \A h \in T : ~ (<<h, g>> \in OpToRel(<, Nat))
  <2> HIDE DEF T
  <2> QED
    BY <1>1, NatLessThanWellFounded, WFMin
<1>3. \A h, g \in Nat : h < g => <<h, g>> \in OpToRel(<, Nat)
  BY DEF OpToRel
<1>4. PICK g \in T : \A h \in T : ~ (h < g)
  <2> HIDE DEF T
  <2> QED
    BY <1>1, <1>2, <1>3
<1>5. ~ RevokedBefore(c, g)
  <2> SUFFICES ASSUME NEW h \in 1..(g - 1), c[h].tx \in Revocations, RegisteredBefore(c, h) PROVE FALSE
    BY DEF RevokedBefore
  <2>1. h \in T /\ h < g
    BY <1>4
  <2> QED
    BY <1>4, <2>1
<1> QED
  BY <1>4, <1>5

(* Blocks that emit nothing leave the agent as it is.                      *)
LEMMA AgentStays ==
  ASSUME NEW c, NEW n \in Nat, NEW m \in Nat, n <= m,
         \A h \in (n + 1)..m : Emits(c, h) = "nothing",
         Registrations \cap Revocations = {}, NEW a, AgentAt(a, c, n)
  PROVE  AgentAt(a, c, m)
<1>1. \A h \in (n + 1)..m : c[h].tx \notin Registrations
  BY DEF Emits
<1>2. RegisteredBefore(c, m + 1) = RegisteredBefore(c, n + 1)
  BY <1>1 DEF RegisteredBefore
<1>3. RevokedBefore(c, m + 1) = RevokedBefore(c, n + 1)
  <2>1. RevokedBefore(c, n + 1) => RevokedBefore(c, m + 1)
    BY DEF RevokedBefore
  <2>2. ASSUME RevokedBefore(c, m + 1) PROVE RevokedBefore(c, n + 1)
    <3>1. PICK g \in 1..m : /\ c[g].tx \in Revocations /\ RegisteredBefore(c, g)
                            /\ ~ RevokedBefore(c, g)
      BY <2>2, FirstRevocation
    <3>2. Emits(c, g) = "AgentRevoked"
      BY <3>1 DEF Emits
    <3>3. g \in 1..n
      BY <3>1, <3>2
    <3> QED
      BY <3>1, <3>3 DEF RevokedBefore
  <2>3. RevokedBefore(c, m + 1) \in BOOLEAN /\ RevokedBefore(c, n + 1) \in BOOLEAN
    BY DEF RevokedBefore
  <2> QED
    BY <2>1, <2>2, <2>3
<1>4. CASE ~ RegisteredBefore(c, n + 1) /\ a = Unknown
  BY <1>2, <1>4 DEF AgentAt
<1>5. CASE \E h \in 1..n :
             /\ c[h].tx \in Registrations
             /\ \A g \in (h + 1)..n : c[g].tx \notin Registrations
             /\ a = [hash |-> c[h].tx, active |-> ~ RevokedBefore(c, n + 1)]
  <2>1. PICK h \in 1..n :
             /\ c[h].tx \in Registrations
             /\ \A g \in (h + 1)..n : c[g].tx \notin Registrations
             /\ a = [hash |-> c[h].tx, active |-> ~ RevokedBefore(c, n + 1)]
    BY <1>5
  <2>2. \A g \in (h + 1)..m : c[g].tx \notin Registrations
    BY <1>1, <2>1
  <2>3. h \in 1..m
    OBVIOUS
  <2> QED
    BY <1>3, <2>1, <2>2, <2>3 DEF AgentAt
<1> QED
  BY <1>4, <1>5 DEF AgentAt

(* The agent a was read, on the chain c, after the last of the transactions*)
(* seen.                                                                   *)
ReadAfter(c, a, seen) ==
  \E n \in 0..Len(c) :
    /\ AgentAt(a, c, n)
    /\ \A h \in (n + 1)..Len(c) : c[h].tx \notin seen

Indexed == {tx \in Txs : rows[tx] # Unindexed}
Handled == {log[1] : log \in poll.rows}
OnChain(txs) == txs \subseteq {chain[h].tx : h \in 1..Len(chain)}

(* The agents row is at least as recent as every indexed event, and what a *)
(* poll is about to write to it as every event it is about to commit.      *)
AgentInv ==
  /\ forks = 0 =>
       /\ ReadAfter(chain, agent, Indexed)
       /\ OnChain(Indexed) /\ OnChain({log[1] : log \in poll.logs \cup poll.rows})
       /\ poll.phase \in {"handling", "alerting"} =>
            ReadAfter(chain, poll.agent, Indexed \cup Handled)
  /\ poll.phase \notin {"handling", "alerting"} => poll.logs = {} /\ poll.rows = {}

LEMMA ReadAtHead ==
  ASSUME NEW c \in Seq(Block), NEW seen
  PROVE  ReadAfter(c, GetAgent(c), seen)
<1>1. Len(c) \in Nat /\ Len(c) \in 0..Len(c) /\ (Len(c) + 1)..Len(c) = {}
  OBVIOUS
<1>2. AgentAt(GetAgent(c), c, Len(c))
  BY AgentAtHead
<1> QED
  BY <1>1, <1>2 DEF ReadAfter

(* A block with a transaction not seen yet.                                *)
LEMMA ReadStays ==
  ASSUME NEW c \in Seq(Block), NEW d \in Seq(Block), Len(d) = Len(c) + 1, SamePrefix(c, d, Len(c)),
         NEW a, NEW seen, d[Len(d)].tx \notin seen, ReadAfter(c, a, seen)
  PROVE  ReadAfter(d, a, seen)
<1>1. PICK n \in 0..Len(c) : /\ AgentAt(a, c, n)
                             /\ \A h \in (n + 1)..Len(c) : c[h].tx \notin seen
  BY DEF ReadAfter
<1>2. Len(c) \in Nat /\ n \in Nat /\ n \in 0..Len(d)
  OBVIOUS
<1>3. AgentAt(a, d, n)
  <2>1. SamePrefix(c, d, n)
    BY <1>2 DEF SamePrefix
  <2> QED
    BY <1>1, <1>2, <2>1, AgentOfPrefix
<1>4. ASSUME NEW h \in (n + 1)..Len(d) PROVE d[h].tx \notin seen
  <2>1. CASE h = Len(d)
    BY <2>1
  <2>2. CASE h # Len(d)
    BY <1>1, <1>2, <2>2 DEF SamePrefix
  <2> QED
    BY <2>1, <2>2
<1> QED
  BY <1>2, <1>3, <1>4 DEF ReadAfter

LEMMA MineAgent == ASSUME IndexerInv, AgentInv, Mine PROVE AgentInv'
<1>1. /\ chain \in Seq(Block) /\ forks \in Nat /\ rows \in [Txs -> [block : 0..MaxHeight, kind : Kinds \cup {"none"}]]
      /\ poll.logs \subseteq Txs \X Nat /\ poll.rows \subseteq Txs \X Nat
  BY DEF IndexerInv, AlertInv, IndexerTypeOK
<1>2. PICK tx \in (Txs \ {chain[h].tx : h \in DOMAIN chain}) \cup {NoTx} :
        chain' = Append(chain, [tx |-> tx, fork |-> forks])
  BY DEF Mine
<1>3. UNCHANGED <<forks, rows, agent, poll>>
  BY DEF Mine, dbVars
<1>4. /\ chain' \in Seq(Block) /\ Len(chain') = Len(chain) + 1
      /\ SamePrefix(chain, chain', Len(chain)) /\ chain'[Len(chain')].tx = tx
  <2>1. [tx |-> tx, fork |-> forks] \in Block
    BY <1>1 DEF Block
  <2> QED
    BY <1>1, <1>2, <2>1 DEF SamePrefix
<1>5. Indexed' = Indexed /\ Handled' = Handled /\ Indexed \subseteq Txs /\ Handled \subseteq Txs
  BY <1>1, <1>3 DEF Indexed, Handled
<1>6. CASE forks = 0
  <2>1. tx \notin Indexed /\ tx \notin Handled
    <3>1. \A t \in Indexed \cup Handled : t \in {chain[h].tx : h \in 1..Len(chain)} /\ t \in Txs
      BY <1>5, <1>6 DEF AgentInv, OnChain, Handled
    <3>2. tx \notin {chain[h].tx : h \in 1..Len(chain)} \/ tx = NoTx
      BY <1>1, <1>2
    <3> QED
      BY <3>1, <3>2, NoTxAssumption
  <2>2. ReadAfter(chain', agent, Indexed)
    BY <1>1, <1>4, <1>6, <2>1, ReadStays DEF AgentInv
  <2>3. poll.phase \in {"handling", "alerting"} => ReadAfter(chain', poll.agent, Indexed \cup Handled)
    <3>1. chain'[Len(chain')].tx \notin Indexed \cup Handled
      BY <1>4, <2>1
    <3> QED
      BY <1>1, <1>4, <1>6, <3>1, ReadStays DEF AgentInv
  <2>4. ASSUME NEW txs, OnChain(txs) PROVE txs \subseteq {chain'[h].tx : h \in 1..Len(chain')}
    <3>1. \A h \in 1..Len(chain) : h \in 1..Len(chain') /\ chain'[h] = chain[h]
      BY <1>1, <1>4 DEF SamePrefix
    <3> QED
      BY <2>4, <3>1 DEF OnChain
  <2>5. OnChain(Indexed)' /\ OnChain({log[1] : log \in poll.logs \cup poll.rows})'
    <3>1. OnChain(Indexed) /\ OnChain({log[1] : log \in poll.logs \cup poll.rows})
      BY <1>6 DEF AgentInv
    <3>2. \A txs : OnChain(txs) => txs \subseteq {chain'[h].tx : h \in 1..Len(chain')}
      BY <2>4
    <3>3. Indexed \subseteq {chain'[h].tx : h \in 1..Len(chain')}
      BY <3>1, <3>2
    <3>4. {log[1] : log \in poll.logs \cup poll.rows} \subseteq {chain'[h].tx : h \in 1..Len(chain')}
      BY <3>1, <3>2
    <3> QED
      BY <1>3, <1>5, <3>3, <3>4 DEF OnChain
  <2> QED
    BY <1>3, <1>5, <2>2, <2>3, <2>5 DEF AgentInv
<1>7. CASE forks # 0
  BY <1>3, <1>7 DEF AgentInv
<1> QED
  BY <1>6, <1>7

(* A step of the poll that leaves the chain and the tables alone.          *)
LEMMA PollAgent ==
  ASSUME AgentInv, UNCHANGED <<chain, forks, rows, agent>>,
         forks = 0 => OnChain({log[1] : log \in poll'.logs \cup poll'.rows}),
         forks = 0 /\ poll'.phase \in {"handling", "alerting"} =>
           ReadAfter(chain, poll'.agent, Indexed \cup {log[1] : log \in poll'.rows}),
         poll'.phase \notin {"handling", "alerting"} => poll'.logs = {} /\ poll'.rows = {}
  PROVE  AgentInv'
<1>1. Indexed' = Indexed
  BY DEF Indexed
<1> QED
  BY <1>1 DEF AgentInv, Handled, OnChain

LEMMA PollEndsAgent ==
  ASSUME AgentInv, UNCHANGED <<chain, forks, rows, agent>>, poll' = NoPoll
  PROVE  AgentInv'
<1>1. {log[1] : log \in poll'.logs \cup poll'.rows} = {}
  BY NoPollFacts
<1> QED
  BY <1>1, NoPollFacts, PollAgent DEF OnChain

LEMMA PollStepsAgent ==
  ASSUME IndexerInv, AgentInv,
         (\E k \in Kinds : ResolveStartBlock(k)) \/ ReadTip \/ RaiseIdentityAlert \/ AbortPoll
  PROVE  AgentInv'
<1>1. poll \in PollRecord
  BY PollTypes DEF IndexerInv, AlertInv
<1>2. CASE \E k \in Kinds : ResolveStartBlock(k)
  <2>1. PICK k \in Kinds : ResolveStartBlock(k)
    BY <1>2
  <2>2. /\ UNCHANGED <<chain, forks, rows, agent>>
        /\ poll'.phase = "started" /\ poll'.logs = {} /\ poll'.rows = {}
    BY <2>1 DEF ResolveStartBlock, NoPoll, chainVars, dbVars
  <2>3. {log[1] : log \in poll'.logs \cup poll'.rows} = {}
    BY <2>2
  <2> QED
    BY <2>2, <2>3, PollAgent DEF OnChain
<1>3. CASE ReadTip /\ poll.start > LatestBlock
  BY <1>3, PollEndsAgent DEF ReadTip, chainVars, dbVars
<1>4. CASE ReadTip /\ ~ poll.start > LatestBlock
  <2>1. /\ UNCHANGED <<chain, forks, rows, agent>> /\ poll.phase = "started"
        /\ poll'.phase = "bounded" /\ poll'.logs = poll.logs /\ poll'.rows = poll.rows
    BY <1>1, <1>4 DEF ReadTip, chainVars, dbVars, PollRecord
  <2>2. {log[1] : log \in poll'.logs \cup poll'.rows} = {} /\ poll'.logs = {} /\ poll'.rows = {}
    BY <2>1 DEF AgentInv
  <2> QED
    BY <2>1, <2>2, PollAgent DEF OnChain
<1>5. CASE RaiseIdentityAlert
  <2>1. /\ UNCHANGED <<chain, forks, rows, agent>> /\ poll.phase = "alerting"
        /\ poll'.phase = "handling" /\ poll'.logs = poll.logs /\ poll'.rows = poll.rows
        /\ poll'.agent = poll.agent
    BY <1>1, <1>5 DEF RaiseIdentityAlert, chainVars, PollRecord
  <2> QED
    BY <2>1, PollAgent DEF AgentInv, Handled
<1>6. CASE AbortPoll
  BY <1>6, PollEndsAgent DEF AbortPoll, RolledBack, chainVars
<1> QED
  BY <1>2, <1>3, <1>4, <1>5, <1>6

LEMMA GetLogsAgent == ASSUME IndexerInv, AgentInv, GetLogs PROVE AgentInv'
<1>1. poll \in PollRecord /\ Len(chain) \in Nat /\ finality \in Nat
  BY PollTypes DEF IndexerInv, AlertInv
<1> DEFINE found == {<<chain[h].tx, h>> : h \in {g \in poll.start..poll.latest : Emits(chain, g) = poll.kind}}
<1>2. /\ UNCHANGED <<chain, forks, rows, agent>> /\ poll.phase = "bounded"
      /\ poll'.phase = "handling" /\ poll'.agent = agent /\ poll'.logs = found
      /\ poll'.rows = {}
  <2>1. poll'.rows = poll.rows
    BY <1>1 DEF GetLogs, PollRecord
  <2> QED
    BY <1>1, <2>1 DEF GetLogs, chainVars, dbVars, PollRecord, AgentInv
<1>3. poll.start \in 1..poll.latest /\ poll.latest <= Len(chain) /\ poll.latest \in Nat
  BY <1>1, <1>2 DEF IndexerInv, AlertInv, Gated, PollRecord
<1>4. \A log \in found : log[1] \in {chain[h].tx : h \in 1..Len(chain)}
  BY <1>1, <1>3
<1> HIDE DEF found
<1>5. OnChain({log[1] : log \in poll'.logs \cup poll'.rows})
  BY <1>2, <1>4 DEF OnChain
<1>6. Indexed \cup {log[1] : log \in poll'.rows} = Indexed
  BY <1>2
<1> QED
  BY <1>2, <1>5, <1>6, PollAgent DEF AgentInv

LEMMA IndexEventAgent == ASSUME IndexerInv, AgentInv, IndexEvent PROVE AgentInv'
<1>1. poll \in PollRecord /\ chain \in Seq(Block)
  BY PollTypes DEF IndexerInv, AlertInv, IndexerTypeOK
<1>2. UNCHANGED <<chain, forks, rows, agent>> /\ poll.phase = "handling"
  BY DEF IndexEvent, chainVars, dbVars
<1>3. PICK log \in poll.logs :
        \/ poll' = [poll EXCEPT !.logs = @ \ {log}]
        \/ poll' = [[poll EXCEPT !.logs = @ \ {log}] EXCEPT
                !.phase = IF poll.kind = "AgentRegistered" THEN "handling" ELSE "alerting",
                !.rows = @ \cup {log}, !.agent = LiveAgent(log[1]), !.alert = log[1]]
  BY DEF IndexEvent
<1>4. CASE poll' = [poll EXCEPT !.logs = @ \ {log}]
  <2>1. /\ poll'.phase = poll.phase /\ poll'.agent = poll.agent
        /\ poll'.rows = poll.rows /\ poll'.logs \subseteq poll.logs
    BY <1>1, <1>4 DEF PollRecord
  <2>2. OnChain({l[1] : l \in poll.logs \cup poll.rows}) =>
          OnChain({l[1] : l \in poll'.logs \cup poll'.rows})
    BY <2>1 DEF OnChain
  <2> QED
    BY <1>2, <2>1, <2>2, PollAgent DEF AgentInv, Handled
<1>5. CASE poll' = [[poll EXCEPT !.logs = @ \ {log}] EXCEPT
                !.phase = IF poll.kind = "AgentRegistered" THEN "handling" ELSE "alerting",
                !.rows = @ \cup {log}, !.agent = LiveAgent(log[1]), !.alert = log[1]]
  <2>1. /\ poll'.phase \in {"handling", "alerting"} /\ poll'.agent = GetAgent(chain)
        /\ poll'.rows = poll.rows \cup {log} /\ poll'.logs = poll.logs \ {log}
    BY <1>1, <1>5 DEF PollRecord, LiveAgent
  <2>2. poll'.logs \cup poll'.rows = poll.logs \cup poll.rows
    BY <2>1
  <2>3. ReadAfter(chain, poll'.agent, Indexed \cup {l[1] : l \in poll'.rows})
    BY <1>1, <2>1, ReadAtHead
  <2> QED
    BY <1>2, <2>1, <2>2, <2>3, PollAgent DEF AgentInv
<1> QED
  BY <1>3, <1>4, <1>5

LEMMA SaveCursorAgent == ASSUME IndexerInv, AgentInv, SaveCursor PROVE AgentInv'
<1>1. /\ UNCHANGED <<chain, forks>> /\ poll.phase = "handling" /\ poll.logs = {}
      /\ poll' = NoPoll /\ rows' = RowsSoFar /\ agent' = poll.agent
  BY DEF SaveCursor, chainVars
<1>2. Indexed' \subseteq Indexed \cup Handled
  <2> SUFFICES ASSUME NEW tx \in Txs, rows'[tx] # Unindexed, ~ \E log \in poll.rows : log[1] = tx
               PROVE  rows[tx] # Unindexed
    BY DEF Indexed, Handled
  <2> QED
    BY <1>1 DEF RowsSoFar
<1>3. poll'.logs = {} /\ poll'.rows = {} /\ poll'.phase = "idle"
  BY <1>1, NoPollFacts
<1>4. CASE forks = 0
  <2>1. /\ ReadAfter(chain, poll.agent, Indexed \cup Handled)
        /\ OnChain(Indexed) /\ OnChain(Handled)
    BY <1>1, <1>4 DEF AgentInv, OnChain, Handled
  <2>2. ReadAfter(chain, agent', Indexed')
    BY <1>1, <1>2, <2>1 DEF ReadAfter
  <2>3. OnChain(Indexed)'
    BY <1>1, <1>2, <2>1 DEF OnChain
  <2>4. OnChain({log[1] : log \in poll.logs \cup poll.rows})'
    BY <1>3 DEF OnChain
  <2> QED
    BY <1>1, <1>3, <2>2, <2>3, <2>4 DEF AgentInv
<1>5. CASE forks # 0
  BY <1>1, <1>3, <1>5 DEF AgentInv
<1> QED
  BY <1>4, <1>5

LEMMA AgentInit == Init => AgentInv
<1> SUFFICES ASSUME Init PROVE AgentInv
  OBVIOUS
<1>1. chain = <<>> /\ Len(chain) = 0 /\ agent = Unknown /\ poll = NoPoll /\ forks = 0
  BY DEF Init
<1>2. Indexed = {} /\ {log[1] : log \in poll.logs \cup poll.rows} = {}
  BY NoPollFacts DEF Init, Indexed
<1>3. AgentAt(agent, chain, 0)
  BY <1>1 DEF AgentAt, RegisteredBefore
<1>4. ReadAfter(chain, agent, Indexed)
  BY <1>1, <1>2, <1>3 DEF ReadAfter
<1> QED
  BY <1>1, <1>2, <1>4, NoPollFacts DEF AgentInv, OnChain

LEMMA AgentStep == IndexerInv /\ AgentInv /\ [Next]_vars => AgentInv'
<1> SUFFICES ASSUME IndexerInv, AgentInv, [Next]_vars PROVE AgentInv'
  OBVIOUS
<1>1. CASE Reorganize
  <2>1. forks' # 0 /\ poll' = poll
    BY <1>1 DEF Reorganize, IndexerInv, AlertInv, IndexerTypeOK
  <2> QED
    BY <2>1 DEF AgentInv
<1>2. CASE UNCHANGED vars
  <2>1. UNCHANGED <<chain, forks, rows, agent, poll>>
    BY <1>2 DEF vars, chainVars, dbVars
  <2> QED
    BY <2>1, PollAgent DEF AgentInv, Handled
<1> QED
  BY <1>1, <1>2, MineAgent, PollStepsAgent, GetLogsAgent, IndexEventAgent, SaveCursorAgent
  DEF Next, PollOnce

LEMMA AgentInvGives == IndexerInv /\ AgentInv => AgentCurrent
<1> SUFFICES ASSUME IndexerInv, AgentInv, forks = 0, AllIndexed
             PROVE  /\ agent = GetAgent(chain)
                    /\ \A h \in Registrations :
                         IdentityDrift(h) <=> RegisteredBefore(chain, Len(chain) + 1) /\ GetAgent(chain).hash # h
  BY DEF AgentCurrent
<1>1. chain \in Seq(Block) /\ Len(chain) \in Nat /\ DOMAIN chain = 1..Len(chain)
  BY DEF IndexerInv, AlertInv, IndexerTypeOK
<1>2. PICK n \in 0..Len(chain) :
        /\ AgentAt(agent, chain, n)
        /\ \A h \in (n + 1)..Len(chain) : chain[h].tx \notin Indexed
  BY DEF AgentInv, ReadAfter
<1>3. ASSUME NEW h \in (n + 1)..Len(chain) PROVE Emits(chain, h) = "nothing"
  <2> SUFFICES ASSUME Emits(chain, h) # "nothing" PROVE FALSE
    OBVIOUS
  <2>1. chain[h].tx \in Txs
    BY DEF Emits, Txs
  <2>2. rows[chain[h].tx] # Unindexed
    BY <1>1, <1>2 DEF AllIndexed
  <2> QED
    BY <1>2, <2>1, <2>2 DEF Indexed
<1>4. AgentAt(agent, chain, Len(chain))
  BY <1>1, <1>2, <1>3, AgentStays, IndexerAssumption
<1>5. agent = GetAgent(chain)
  BY <1>1, <1>4, AgentAtHead
<1>6. GetAgent(chain) # Unknown <=> RegisteredBefore(chain, Len(chain) + 1)
  <2>1. CASE RegisteredBefore(chain, Len(chain) + 1)
    <3>1. agent.hash \in Registrations
      BY <1>4, <2>1 DEF AgentAt
    <3> QED
      BY <1>5, <2>1, <3>1, NoTxAssumption DEF Unknown, Txs
  <2>2. CASE ~ RegisteredBefore(chain, Len(chain) + 1)
    BY <2>2 DEF GetAgent
  <2> QED
    BY <2>1, <2>2
<1> QED
  BY <1>5, <1>6 DEF IdentityDrift

---------------------------------------------------------------------------
(* Every variable stays in its type.                                       *)
THEOREM IndexerTypeCorrect == Spec => []IndexerTypeOK
<1>1. IndexerInv => IndexerTypeOK
  BY DEF IndexerInv, AlertInv
<1> QED
  BY <1>1, IndexerInit, IndexerStep, PTL DEF Spec

(* cursor.py: a cursor that would be resumed from has nothing unindexed    *)
(* behind it, if the finality gate covers the reorganizations or none      *)
(* struck in the middle of a poll.                                         *)
THEOREM NothingSkippedAlways == Spec => []NothingSkipped
<1>1. IndexerInv => NothingSkipped
  BY DEF IndexerInv, CoverInv
<1> QED
  BY <1>1, IndexerInit, IndexerStep, PTL DEF Spec

(* The read model is a function of the chain (invariant I6) behind a       *)
(* finality gate as deep as the reorganizations.                           *)
THEOREM ReadModelIsChainAlways == Spec => []ReadModelIsChain
<1>1. IndexerInv => ReadModelIsChain
  <2>1. chain \in Seq(Block) => DOMAIN chain = 1..Len(chain)
    OBVIOUS
  <2> QED
    BY <2>1 DEF IndexerInv, AlertInv, IndexerTypeOK, RowsOnChain, AtEvent, ReadModelIsChain
<1> QED
  BY <1>1, IndexerInit, IndexerStep, PTL DEF Spec

(* agent_events.py: whatever aborts a poll, an identity change that is     *)
(* indexed has had its alert raised.                                       *)
THEOREM IndexedIsAlertedAlways == Spec => []IndexedIsAlerted
<1>1. IndexerInv => IndexedIsAlerted
  BY DEF IndexerInv, AlertInv
<1> QED
  BY <1>1, IndexerInit, IndexerStep, PTL DEF Spec

(* agent_events.py, db/agents.py: without reorganizations, the agents table*)
(* holds what getAgent returns whenever all events are indexed, although   *)
(* the streams that refresh it are polled separately, and steps drift from *)
(* the registered hash exactly when the chain says so.                     *)
THEOREM AgentCurrentAlways == Spec => []AgentCurrent
<1>1. IndexerInv /\ AgentInv => AgentCurrent
  BY AgentInvGives
<1> QED
  BY <1>1, IndexerInit, IndexerStep, AgentInit, AgentStep, PTL DEF Spec
===========================================================================
