------------------------------- MODULE Chain -------------------------------
(***************************************************************************)
(* The consensus chain of core/blockchain.go: AddBlock, ReorgFrom and      *)
(* ReplaceChain over the account ledger, with the undo logs that make a    *)
(* reorganisation possible and the indexes that follow the chain.          *)
(*                                                                         *)
(* A block's hash commits to its parent, so a block IS the sequence of     *)
(* block bodies from height 1 up to it (a path), and the chain held by a   *)
(* node is the path of its tip.  One operation runs at a time (bc.mu); it  *)
(* is modelled step by step - one ledger write group per step - because    *)
(* the interesting failures happen halfway through a block, when some      *)
(* accounts are already written.                                           *)
(***************************************************************************)
EXTENDS Integers, Sequences, FiniteSets, FiniteSetsExt

CONSTANTS
    Addrs,             \* account addresses
    NoAddr,            \* "no fee sponsor"
    Bodies,            \* block bodies that peers and miners may produce
    MaxHeight,         \* bound on the chain's height
    Hash(_),           \* rank of a path's tip hash (hashes are compared as strings)
    MaxReorgDepth,     \* params.go: most blocks one reorg may discard
    Checkpoint,        \* highest checkpointed height
    CoinbaseMaturity,  \* params.go
    InitialReward,     \* params.go: InitialBlockReward
    HalvingInterval,   \* params.go
    MinFee,            \* base fee x size, the burned part of every fee
    UniqueCoinbase,    \* is UpgradeUniqueCoinbase active?
    MaxUint            \* largest uint64

VARIABLES
    chain,     \* bc.blocks above genesis: the path of the tip
    state,     \* bc.state: the live account ledger
    undos,     \* bc.undos: one undo log per block
    work,      \* bc.work
    burned,    \* bc.burned
    txIndex,   \* bc.txIndex, as a set of [id, h, i]
    poisoned,  \* bc.store has refused to go on (store.go: poison)
    hist,      \* history variable: hist[i+1] is the ledger left by block i
    job        \* the operation that holds bc.mu, and how far it has got

liveVars == <<chain, undos, work, burned, txIndex, hist>>
vars == <<chain, state, undos, work, burned, txIndex, poisoned, hist, job>>
-----------------------------------------------------------------------------
(* Accounts, transactions and blocks. *)

Account == [balance : Nat, nonce : Nat]

\* An address the ledger has never stored is distinct from a zero account.
NoAccount == [balance |-> -1, nonce |-> -1]

Ledgers == [Addrs -> Account \cup {NoAccount}]

EmptyLedger == [a \in Addrs |-> NoAccount]

Output == [to : Addrs, amount : Nat]

Transaction ==
    [from : Addrs, nonce : Nat, fee : Nat, payer : Addrs \cup {NoAddr},
     outs : Seq(Output), lock : Nat, expiry : Nat]

\* pays is what the coinbase claims; ok says the state-free rules hold; rootOk
\* says the committed state root is the one the block's transactions produce.
Body ==
    [miner : Addrs, pays : Nat, txs : Seq(Transaction), work : Nat \ {0},
     ok : BOOLEAN, rootOk : BOOLEAN]

Entry == [addr : Addrs, prev : Account \cup {NoAccount}]

Paths == UNION {[1 .. n -> Bodies] : n \in 0 .. MaxHeight}

ASSUME ChainAssumption ==
    /\ Bodies \subseteq Body
    /\ NoAddr \notin Addrs
    /\ MaxHeight \in Nat
    /\ MaxReorgDepth \in Nat
    /\ Checkpoint \in Nat
    /\ CoinbaseMaturity \in Nat
    /\ InitialReward \in Nat
    /\ HalvingInterval \in Nat \ {0}
    /\ MinFee \in Nat
    /\ MaxUint \in Nat

ASSUME HashAssumption ==
    \A p, q \in Paths : Hash(p) \in Nat /\ (Hash(p) = Hash(q) => p = q)
-----------------------------------------------------------------------------
(* The ledger's accessors and the undo log. *)

Get(s, a) == IF s[a] = NoAccount THEN [balance |-> 0, nonce |-> 0] ELSE s[a]

\* The closure "set" of applyTxsAndCoinbase: log the prior value, then write.
Logged(s, log, a) == Append(log, [addr |-> a, prev |-> s[a]])

Put(s, a, acc) == [s EXCEPT ![a] = acc]

Touches(log, a) == {i \in DOMAIN log : log[i].addr = a}

First(S) == CHOOSE i \in S : \A j \in S : i <= j

\* Mutant of ApplyUndo: replayed forwards, so the entry written last wins.
ApplyUndoForwards(s, log) ==
    [a \in Addrs |-> IF Touches(log, a) = {} THEN s[a]
        ELSE log[CHOOSE i \in Touches(log, a) : \A j \in Touches(log, a) : j <= i].prev]

\* applyUndo replays the log backwards, so the entry written first is the one
\* an address ends up with.
ApplyUndo(s, log) ==
    [a \in Addrs |-> IF Touches(log, a) = {} THEN s[a]
                                             ELSE log[First(Touches(log, a))].prev]

\* touchedBefore: the addresses a block wrote, with their value before it.
TouchedBefore(log) == {log[i].addr : i \in DOMAIN log}

Balance(s, a) == Get(s, a).balance

\* coinDelta: the net change in coin over the accounts the block touched.
CoinDelta(s, log) ==
    LET before == ApplyUndo(s, log)
    IN  MapThenSumSet(LAMBDA a : Balance(s, a) - Balance(before, a), TouchedBefore(log))
-----------------------------------------------------------------------------
(* Consensus arithmetic. *)

BlockReward(height) ==
    IF height \div HalvingInterval >= 64 THEN 0
    ELSE InitialReward \div (2 ^ (height \div HalvingInterval))

ChainWork(path) == MapThenSumSet(LAMBDA i : path[i].work, DOMAIN path)

BlockBurned(body) == MinFee * Len(body.txs)

\* Mutant of BurnedAbove: the block just above the fork is missed.
BurnedAboveShort(path, fork) ==
    MapThenSumSet(LAMBDA i : BlockBurned(path[i]), (fork + 2) .. Len(path))

BurnedAbove(path, fork) ==
    MapThenSumSet(LAMBDA i : BlockBurned(path[i]), (fork + 1) .. Len(path))

\* What a's own mining has paid it too recently to be spent in a block at height.
ImmatureCoinbase(path, height, a) ==
    LET start == IF height > CoinbaseMaturity THEN height - CoinbaseMaturity + 1 ELSE 1
        recent == {i \in start .. (height - 1) : i \in DOMAIN path /\ path[i].miner = a}
    IN  MapThenSumSet(LAMBDA i : path[i].pays, recent)

TotalOut(tx) == MapThenSumSet(LAMBDA i : tx.outs[i].amount, DOMAIN tx.outs)

SenderFee(tx) == IF tx.payer = NoAddr THEN tx.fee ELSE 0

\* Finite sums of naturals are naturals (TLC evaluates this; no prover here can).
ASSUME SumAssumption ==
    /\ \A b \in Bodies : \A k \in DOMAIN b.txs : TotalOut(b.txs[k]) \in Nat
    /\ \A p \in Paths : \A h \in 1 .. MaxHeight : \A a \in Addrs :
           ImmatureCoinbase(p, h, a) \in Nat
    /\ \A p \in Paths : ChainWork(p) \in Nat
-----------------------------------------------------------------------------
(* The transaction index: where each confirmed transaction sits.  Coinbases *)
(* of the same miner and amount share an id unless the height is bound in.  *)

CoinbaseId(body, h) ==
    <<"coinbase", body.miner, body.pays, IF UniqueCoinbase THEN h ELSE 0>>

TxIds(path, h) ==
    [i \in 1 .. Len(path[h].txs) + 1 |->
        IF i = 1 THEN CoinbaseId(path[h], h) ELSE <<"tx", path[h].txs[i - 1]>>]

\* indexBlock for the blocks above fork, lowest first: the first occurrence wins.
Indexed(idx, path, fork) ==
    LET known == {e.id : e \in idx}
        locs == UNION {{[id |-> TxIds(path, h)[i], h |-> h, i |-> i] :
                            i \in DOMAIN TxIds(path, h)} : h \in (fork + 1) .. Len(path)}
    IN  idx \cup {e \in locs :
                    /\ e.id \notin known
                    /\ ~\E f \in locs : /\ f.id = e.id
                                        /\ \/ f.h < e.h
                                           \/ f.h = e.h /\ f.i < e.i}

\* unindexBlock for the blocks above fork: only entries that point at them go.
Unindexed(idx, path, fork) ==
    {e \in idx : ~\E h \in (fork + 1) .. Len(path) :
                    e.h = h /\ \E i \in DOMAIN TxIds(path, h) : TxIds(path, h)[i] = e.id}
-----------------------------------------------------------------------------
(* The operation in progress. *)

Stages == {"rollback", "begin", "tx", "coinbase", "persist"}

Jobs ==
    [op : {"idle", "add", "reorg"}, stage : Stages,
     cand : Paths,         \* the path of the block(s) being connected
     fork : Nat,           \* last block kept
     h    : Nat,           \* height being undone or applied
     ti   : Nat \ {0},     \* next transaction of that block
     oi   : Nat,           \* next output of it; 0 = the sender is not debited yet
     tips : Int, burn : Int,
     log  : Seq(Entry),    \* undo log of the block being applied
     clone : Ledgers,      \* reorgLocked's copy of the ledger
     newUndos : Seq(Seq(Entry)), newHist : Seq(Ledgers)]

IdleJob ==
    [op |-> "idle", stage |-> "begin", cand |-> <<>>, fork |-> 0, h |-> 0,
     ti |-> 1, oi |-> 0, tips |-> 0, burn |-> 0, log |-> <<>>,
     clone |-> EmptyLedger, newUndos |-> <<>>, newHist |-> <<>>]

Idle == job.op = "idle"

\* AddBlock writes the live ledger in place; a reorg writes its own copy.
Working == IF job.op = "add" THEN state ELSE job.clone

\* The job after the writes of one step, and the ledger they go to.
Write(next, newLedger) ==
    IF job.op = "add"
    THEN /\ state' = newLedger
         /\ job' = next
    ELSE /\ job' = [next EXCEPT !.clone = newLedger]
         /\ UNCHANGED state

Block == job.cand[job.h]

Tx == Block.txs[job.ti]
-----------------------------------------------------------------------------
Init ==
    /\ chain = <<>>
    /\ state = EmptyLedger
    /\ undos = <<>>
    /\ work = 0
    /\ burned = 0
    /\ txIndex = {}
    /\ poisoned = FALSE
    /\ hist = <<EmptyLedger>>
    /\ job = IdleJob

\* AddBlock takes the lock with the block whose path is p.
AddBlock(p) ==
    /\ Idle
    /\ Len(p) > 0
    /\ job' = [IdleJob EXCEPT !.op = "add", !.cand = p, !.fork = Len(chain),
                              !.h = Len(chain) + 1]
    /\ UNCHANGED <<liveVars, state, poisoned>>

\* Mutant of FinalityAllows: one block too many.
FinalityAllowsDeeper(fork) ==
    /\ fork >= Checkpoint
    /\ Len(chain) - fork <= MaxReorgDepth + 1

\* The finality guards of reorgLocked.
FinalityAllows(fork) ==
    /\ fork >= Checkpoint
    /\ Len(chain) - fork <= MaxReorgDepth

CandWork(p, fork) == ChainWork(SubSeq(chain, 1, fork)) + ChainWork(SubSeq(p, fork + 1, Len(p)))

\* Mutant of Wins: any chain with as much work replaces ours.
WinsTies(p, fork) == CandWork(p, fork) >= work

\* Fork choice: more work, or as much work and a smaller tip hash.
Wins(p, fork) ==
    \/ CandWork(p, fork) > work
    \/ CandWork(p, fork) = work /\ Hash(p) < Hash(chain)

\* reorgLocked up to the point where the ledger is cloned.
ReorgLocked(p, fork) ==
    /\ FinalityAllows(fork)
    /\ Wins(p, fork)
    /\ job' = [IdleJob EXCEPT !.op = "reorg", !.stage = "rollback", !.cand = p,
                              !.fork = fork, !.h = Len(chain), !.clone = state]
    /\ UNCHANGED <<liveVars, state, poisoned>>

\* ReorgFrom: a suffix that claims to build on our block at height fork.
ReorgFrom(p, fork) ==
    /\ Idle
    /\ fork < Len(p)
    /\ fork <= Len(chain)
    /\ ReorgLocked(p, fork)

\* commonPrefix stops at the first difference, or where either chain ends.
CommonPrefix(p) ==
    First({n \in 0 .. Len(chain) :
              n = Len(chain) \/ n >= Len(p) \/ p[n + 1] # chain[n + 1]})

\* ReplaceChain: a whole chain; only what follows the shared prefix matters.
ReplaceChain(p) ==
    /\ Idle
    /\ CommonPrefix(p) < Len(p)   \* a prefix of our own chain has less work
    /\ ReorgLocked(p, CommonPrefix(p))
-----------------------------------------------------------------------------
(* Every error path ends here: AddBlock has the ledger put back by the undo *)
(* log, a reorg just drops its copy.                                        *)

Abort ==
    /\ state' = IF job.op = "add" THEN ApplyUndo(state, job.log) ELSE state
    /\ job' = IdleJob
    /\ UNCHANGED <<liveVars, poisoned>>

\* One block of the losing branch is undone on the copy.
RollbackBlock ==
    /\ job.op = "reorg" /\ job.stage = "rollback"
    /\ IF job.h > job.fork
       THEN job' = [job EXCEPT !.clone = ApplyUndo(@, undos[job.h]), !.h = @ - 1]
       ELSE job' = [job EXCEPT !.stage = "begin", !.h = job.fork + 1]
    /\ UNCHANGED <<liveVars, state, poisoned>>

\* validateBlockStructure: index and parent hash, then the state-free rules.
StructureOk ==
    /\ Len(job.cand) >= job.h
    /\ job.op = "add" => Len(job.cand) = job.h
    /\ SubSeq(job.cand, 1, job.fork) = SubSeq(chain, 1, job.fork)
    /\ Block.ok

BeginBlock ==
    /\ ~Idle /\ job.stage = "begin"
    /\ IF StructureOk
       THEN /\ job' = [job EXCEPT !.stage = "tx", !.ti = 1, !.oi = 0, !.tips = 0,
                                  !.burn = 0, !.log = <<>>]
            /\ UNCHANGED <<liveVars, state, poisoned>>
       ELSE Abort

\* checkTxAtHeight, the base fee, the duplicate check and applyTxTo's own tests.
TxOk(tx) ==
    LET reserve == ImmatureCoinbase(job.cand, job.h, tx.from)
        sender == Get(Working, tx.from)
        total == TotalOut(tx) + SenderFee(tx)
    IN  /\ tx.expiry = 0 \/ job.h <= tx.expiry
        /\ tx.lock <= job.h
        /\ tx.fee >= MinFee
        /\ \A k \in 1 .. (job.ti - 1) : Block.txs[k] # tx
        /\ ~(TotalOut(tx) = 0 /\ tx.fee = 0)
        /\ tx.nonce = sender.nonce
        /\ total + reserve <= MaxUint
        /\ sender.balance >= total + reserve

Debited(tx) ==
    LET sender == Get(Working, tx.from)
    IN  Put(Working, tx.from, [balance |-> sender.balance - TotalOut(tx) - SenderFee(tx),
                               nonce |-> sender.nonce + 1])

\* Mutants of SponsorOk: a sponsor without an account passes; the immature
\* reserve is forgotten.
SponsorUnknownPasses(tx) ==
    \/ tx.payer = NoAddr
    \/ Debited(tx)[tx.payer] = NoAccount
    \/ Balance(Debited(tx), tx.payer)
           >= tx.fee + ImmatureCoinbase(job.cand, job.h, tx.payer)

SponsorSpendsImmature(tx) ==
    \/ tx.payer = NoAddr
    \/ Balance(Debited(tx), tx.payer) >= tx.fee

\* chargeSponsor's test, made after the sender has been debited.
SponsorOk(tx) ==
    \/ tx.payer = NoAddr
    \/ Balance(Debited(tx), tx.payer)
           >= tx.fee + ImmatureCoinbase(job.cand, job.h, tx.payer)

\* Debit the sender, then the sponsor if there is one.
DebitTx ==
    LET tx == Tx
        s1 == Debited(tx)
        log1 == Logged(Working, job.log, tx.from)
        charged == [Get(s1, tx.payer) EXCEPT !.balance = @ - tx.fee]
        next(log) == [job EXCEPT !.oi = 1, !.log = log]
    IN  /\ ~Idle /\ job.stage = "tx" /\ job.oi = 0 /\ job.ti <= Len(Block.txs)
        /\ IF TxOk(tx) /\ SponsorOk(tx)
           THEN /\ IF tx.payer = NoAddr
                   THEN Write(next(log1), s1)
                   ELSE Write(next(Logged(s1, log1, tx.payer)), Put(s1, tx.payer, charged))
                /\ UNCHANGED <<liveVars, poisoned>>
           ELSE Abort

\* Mutant of TxDone: the base fee is not counted as burned.
TxDoneUnburned(j, tx) ==
    [j EXCEPT !.ti = @ + 1, !.oi = 0, !.tips = @ + tx.fee - MinFee]

\* A transaction is done: its tip goes to the miner, the rest is burned.
TxDone(j, tx) ==
    [j EXCEPT !.ti = @ + 1, !.oi = 0, !.tips = @ + tx.fee - MinFee, !.burn = @ + MinFee]

\* Credit one output, reading the ledger back each time.
CreditOutput ==
    LET tx == Tx
        out == tx.outs[job.oi]
        recip == Get(Working, out.to)
        next == [job EXCEPT !.oi = @ + 1, !.log = Logged(Working, job.log, out.to)]
    IN  /\ ~Idle /\ job.stage = "tx" /\ job.ti <= Len(Block.txs)
        /\ job.oi > 0 /\ job.oi <= Len(tx.outs)
        /\ IF recip.balance + out.amount <= MaxUint
           THEN /\ Write(next, Put(Working, out.to,
                                   [recip EXCEPT !.balance = @ + out.amount]))
                /\ UNCHANGED <<liveVars, poisoned>>
           ELSE Abort

FinishTx ==
    /\ ~Idle /\ job.stage = "tx"
    /\ IF job.ti > Len(Block.txs)
       THEN job' = [job EXCEPT !.stage = "coinbase"]
       ELSE /\ job.oi > Len(Tx.outs)
            /\ job' = TxDone(job, Tx)
    /\ UNCHANGED <<liveVars, state, poisoned>>

CoinbaseOk(acc) ==
    /\ Block.pays = BlockReward(job.h) + job.tips
    /\ acc.balance + Block.pays <= MaxUint

CoinbasePaid ==
    LET acc == Get(Working, Block.miner)
    IN  Put(Working, Block.miner, [acc EXCEPT !.balance = @ + Block.pays])

CoinbaseLog == Logged(Working, job.log, Block.miner)

\* checkConservation: coin appears only as subsidy and leaves only as base fee.
Conserved == CoinDelta(CoinbasePaid, CoinbaseLog) = BlockReward(job.h) - job.burn

\* The block is fully applied: AddBlock goes on to persist it, a reorg to the
\* next block of the suffix, or to persist them all.
BlockApplied(j, s) ==
    IF j.op = "add" THEN [j EXCEPT !.stage = "persist"]
    ELSE [j EXCEPT !.stage = IF j.h = Len(j.cand) THEN "persist" ELSE "begin",
                   !.h = @ + 1, !.log = <<>>,
                   !.newUndos = Append(@, j.log), !.newHist = Append(@, s)]

PayCoinbase ==
    LET paid == CoinbasePaid
        next == BlockApplied([job EXCEPT !.log = CoinbaseLog], paid)
    IN  /\ ~Idle /\ job.stage = "coinbase"
        /\ IF CoinbaseOk(Get(Working, Block.miner))
           THEN IF Conserved /\ Block.rootOk
                THEN Write(next, paid) /\ UNCHANGED <<liveVars, poisoned>>
                ELSE Abort
           ELSE Abort
-----------------------------------------------------------------------------
(* Persisting, and the commit in memory that follows it. *)

CommitAdd ==
    /\ job.op = "add" /\ job.stage = "persist"
    /\ ~poisoned
    /\ chain' = Append(chain, Block)
    /\ undos' = Append(undos, job.log)
    /\ work' = work + Block.work
    /\ burned' = burned + BlockBurned(Block)
    /\ txIndex' = Indexed(txIndex, job.cand, Len(chain))
    /\ hist' = Append(hist, state)
    /\ job' = IdleJob
    /\ UNCHANGED <<state, poisoned>>

\* store.append failed: the block's effect is taken back.
PersistAddFails ==
    /\ job.op = "add" /\ job.stage = "persist"
    /\ Abort

CommitReorg ==
    /\ job.op = "reorg" /\ job.stage = "persist"
    /\ ~poisoned
    /\ chain' = job.cand
    /\ state' = job.clone
    /\ undos' = SubSeq(undos, 1, job.fork) \o job.newUndos
    /\ work' = CandWork(job.cand, job.fork)
    /\ burned' = burned - BurnedAbove(chain, job.fork) + BurnedAbove(job.cand, job.fork)
    /\ txIndex' = Indexed(Unindexed(txIndex, chain, job.fork), job.cand, job.fork)
    /\ hist' = SubSeq(hist, 1, job.fork + 1) \o job.newHist
    /\ job' = IdleJob
    /\ UNCHANGED poisoned

\* The log could not be rewritten: the live chain stays, the store is poisoned.
PersistReorgFails ==
    /\ job.op = "reorg" /\ job.stage = "persist"
    /\ poisoned' = TRUE
    /\ job' = IdleJob
    /\ UNCHANGED <<liveVars, state>>
-----------------------------------------------------------------------------
Next ==
    \/ \E p \in Paths : AddBlock(p) \/ ReplaceChain(p)
    \/ \E p \in Paths : \E fork \in 0 .. MaxHeight : ReorgFrom(p, fork)
    \/ RollbackBlock
    \/ BeginBlock
    \/ DebitTx
    \/ CreditOutput
    \/ FinishTx
    \/ PayCoinbase
    \/ CommitAdd
    \/ PersistAddFails
    \/ CommitReorg
    \/ PersistReorgFails

Spec == Init /\ [][Next]_vars
-----------------------------------------------------------------------------
(* Properties. *)

\* Every variable, and every field of the running operation, keeps its type.
TypeOK ==
    /\ chain \in Paths
    /\ state \in Ledgers
    /\ undos \in Seq(Seq(Entry))
    /\ hist \in Seq(Ledgers)
    /\ poisoned \in BOOLEAN
    /\ job \in Jobs

\* The undo logs are exact: undoing block i from the ledger it left gives the
\* ledger before it, whatever operation is halfway through, and an operation
\* that failed (a bad transaction, a bad root, a failed write) leaves no trace.
UndoExact ==
    /\ Len(undos) = Len(chain) /\ Len(hist) = Len(chain) + 1
    /\ hist[1] = EmptyLedger
    /\ \A i \in 1 .. Len(chain) : ApplyUndo(hist[i + 1], undos[i]) = hist[i]
    /\ IF job.op = "add" THEN ApplyUndo(state, job.log) = hist[Len(chain) + 1]
                         ELSE state = hist[Len(chain) + 1]

\* The coin an account holds, computed from the blocks alone.
SumOverTxs(amount(_, _)) ==
    MapThenSumSet(LAMBDA h : MapThenSumSet(LAMBDA k : amount(h, chain[h].txs[k]),
                                           DOMAIN chain[h].txs), DOMAIN chain)

Received(a, tx) ==
    MapThenSumSet(LAMBDA i : tx.outs[i].amount, {i \in DOMAIN tx.outs : tx.outs[i].to = a})

Spent(a, tx) ==
    (IF tx.from = a THEN TotalOut(tx) + SenderFee(tx) ELSE 0)
        + (IF tx.payer = a THEN tx.fee ELSE 0)

Mentions(a, body) ==
    \/ body.miner = a
    \/ \E k \in DOMAIN body.txs :
           LET tx == body.txs[k]
           IN  a \in {tx.from, tx.payer} \/ \E i \in DOMAIN tx.outs : tx.outs[i].to = a

LedgerFromBlocks ==
    [a \in Addrs |->
        IF \E h \in DOMAIN chain : Mentions(a, chain[h])
        THEN [balance |-> MapThenSumSet(LAMBDA h : chain[h].pays,
                                        {h \in DOMAIN chain : chain[h].miner = a})
                          + SumOverTxs(LAMBDA h, tx : Received(a, tx) - Spent(a, tx)),
              nonce |-> SumOverTxs(LAMBDA h, tx : IF tx.from = a THEN 1 ELSE 0)]
        ELSE NoAccount]

\* Supply.Consistent: what accounts hold is what subsidies minted minus what base
\* fees burned.
SupplyConsistent ==
    MapThenSumSet(LAMBDA a : Balance(state, a), Addrs)
        = MapThenSumSet(BlockReward, DOMAIN chain) - burned

\* After any sequence of blocks, reorgs and failures everything kept incrementally
\* is what the current chain's blocks define: balances, nonces and which accounts
\* exist at all; the burn counter; the work; and the transaction index, equal to one
\* rebuilt from scratch also when coinbases of two blocks share an id.
StateMatchesChain ==
    Idle => /\ state = LedgerFromBlocks
            /\ SupplyConsistent
            /\ work = ChainWork(chain)
            /\ txIndex = Indexed({}, chain, 0)

\* At no point of applying a block - after any mix of spending, sponsoring and
\* receiving - does an account hold less than its still immature rewards.
ImmatureCoinUnspent ==
    (~Idle /\ job.stage \in {"tx", "coinbase"}) =>
        \A a \in Addrs : Balance(Working, a) >= ImmatureCoinbase(job.cand, job.h, a)

\* The block-wide conservation check is a backstop: no block whose transactions
\* and coinbase are individually legal is refused by it.
ConservationIsRedundant ==
    (~Idle /\ job.stage = "coinbase" /\ CoinbaseOk(Get(Working, Block.miner))) => Conserved

\* The ledger as it stood when the running operation began: all that anyone else,
\* kept out by bc.mu, can have seen.
Visible == IF job.op = "add" THEN ApplyUndo(state, job.log) ELSE state

Abstract == INSTANCE AbstractChain WITH tip <- chain, ledger <- Visible

\* To those who wait for the lock each operation is atomic: tip, ledger and work move
\* together or, when a transaction, a root or a write fails halfway, not at all; and
\* every move is to more work, or to as much work and a smaller hash, so that ties
\* cannot make a node flap.
ImplementsAbstract == Abstract!Spec

\* No step ever discards a checkpointed block, or more than MaxReorgDepth blocks.
FinalityHolds ==
    [][\A n \in 0 .. Len(chain) :
         (n <= Checkpoint \/ n <= Len(chain) - MaxReorgDepth)
            => Len(chain') >= n /\ SubSeq(chain', 1, n) = SubSeq(chain, 1, n)]_vars
=============================================================================
