------------------------------ MODULE Mempool ------------------------------
(***************************************************************************)
(* The transaction pool (core/mempool.go, core/package.go) and the parts   *)
(* of node/node.go that move it: submissions that are checked, verified    *)
(* without the lock and checked again; replacement, eviction one victim at *)
(* a time; the miner's selection; and what a tip change does, step by      *)
(* step, to the entries already queued.                                    *)
(*                                                                         *)
(* A transaction is its own hash: it pays one recipient, may have its fee  *)
(* paid by a sponsor, and may be bound to a range of heights.  The ledger  *)
(* is the confirmed, spendable one; block rewards are left out.            *)
(***************************************************************************)
EXTENDS Integers, Sequences, FiniteSets, FiniteSetsExt, SequencesExt

CONSTANTS
    Addrs,             \* accounts
    Txs,               \* the transactions that may be submitted
    StartBalance,      \* [Addrs -> Nat]
    MaxTxs, MaxBytes,  \* the pool's two budgets
    MaxPerSender, MaxPackageAncestors, MaxPackageDescendants, MaxPackageBytes,
    MinRelayFee,       \* per-byte floor of an empty pool
    FloorMultiplier,   \* feeFloorMaxMultiplier
    BaseFee,           \* per-byte base fee of the next block
    MaxBlockTxs, MaxBlockBytes,
    MaxHeight,         \* bound on the chain's height
    MaxSubmissions     \* bound on submissions being verified at once

VARIABLES
    ledger,    \* confirmed balances and nonces
    blocks,    \* the chain: [txs, before], before being the ledger it extends
    pool,      \* m.txs
    checking,  \* submissions between the first check and the second
    adding,    \* <<tx>> when an Add holds the lock in its eviction loop
    cand,      \* <<[txs, h, fresh]>> when a candidate is assembled, its root not computed
    template,  \* <<txs>> when the miner works on the current tip
    tip,       \* the tip change being handled: [stage, todo, then, wait]
    clean      \* has Reconcile run since the tip, or the miner's check, last disturbed it?

vars == <<ledger, blocks, pool, checking, adding, cand, template, tip, clean>>
chainVars == <<ledger, blocks, cand, template, clean>>
-----------------------------------------------------------------------------
Height == Len(blocks)

Sponsored(t) == t.payer # t.from

\* senderFee and txCoinCost.
SenderFee(t) == IF Sponsored(t) THEN 0 ELSE t.fee
Cost(t) == t.amount + SenderFee(t)

SumOf(S, f(_)) == MapThenSumSet(f, S)

Queue(a) == {t \in pool : t.from = a}

\* checkTxAtHeight; expiry 0 is no expiry.
MineableAt(t, h) == h >= t.lock /\ (t.expiry = 0 \/ h <= t.expiry)

Unmineable(t) == ~MineableAt(t, Height + 1)

\* txRate compares fees per byte.
RateLess(t, u) == t.fee * u.size < u.fee * t.size

MinFeeLocked ==
    LET count == (Cardinality(pool) * 100) \div MaxTxs
        bytes == (SumOf(pool, LAMBDA t : t.size) * 100) \div MaxBytes
        fill == Min({100, Max({count, bytes})})
    IN  MinRelayFee * (1 + ((FloorMultiplier - 1) * fill * fill) \div 10000)

PendingCredit(a) == SumOf({t \in pool : t.to = a /\ t.from # a}, LAMBDA t : t.amount)
-----------------------------------------------------------------------------
(* Packages: which queued transactions depend on which. *)

Closure(S, F(_)) ==
    LET c[n \in 0 .. Cardinality(pool)] ==
            IF n = 0 THEN S ELSE c[n - 1] \cup UNION {F(u) : u \in c[n - 1]}
    IN  c[Cardinality(pool)]

OwnLower(t) ==
    {u \in Queue(t.from) : ledger.nonce[t.from] <= u.nonce /\ u.nonce < t.nonce}

\* A sender's creditors are its ancestors only when its confirmed coin falls short.
Parents(t) ==
    OwnLower(t) \cup
        IF Cost(t) + SumOf(OwnLower(t), Cost) > ledger.bal[t.from]
        THEN {u \in pool : u.to = t.from /\ u.from # t.from} ELSE {}

Ancestors(t) == Closure(Parents(t), Parents)

\* Everything queued by a recipient that cannot pay its queue from confirmed coin.
Children(t) ==
    IF t.to = t.from \/ SumOf(Queue(t.to), Cost) <= ledger.bal[t.to]
    THEN {} ELSE Queue(t.to)

Descendants(t) == Closure(Children(t), Children) \ {t}

PackageLimits(t) ==
    LET anc == Ancestors(t)
        foreign == {u \in anc : u.from # t.from}
    IN  /\ Cardinality(foreign) <= MaxPackageAncestors
        /\ t.size + SumOf(anc, LAMBDA u : u.size) <= MaxPackageBytes
        /\ \A u \in foreign : Cardinality(Descendants(u)) + 1 <= MaxPackageDescendants

\* effectiveRates: the better of a transaction's own rate and its package's,
\* as a [fee, size] pair.
EffectiveRate(t) ==
    LET set == (Descendants(t) \cup {u \in Queue(t.from) : u.nonce > t.nonce}) \ {t}
        own == [fee |-> t.fee, size |-> t.size]
        package == [fee |-> t.fee + SumOf(set, LAMBDA u : u.fee),
                    size |-> t.size + SumOf(set, LAMBDA u : u.size)]
    IN  IF RateLess(own, package) THEN package ELSE own
-----------------------------------------------------------------------------
(* Admission. *)

\* The queued transaction in the same slot, if any.
Conflicts(t) == {u \in Queue(t.from) : u.nonce = t.nonce}

NextNonce(a) ==
    Min({n \in ledger.nonce[a] .. (ledger.nonce[a] + Cardinality(pool)) :
            \A u \in Queue(a) : u.nonce # n})

\* Mutant of NonceOk: any unused nonce will do.
NonceOkGaps(t) ==
    /\ t.nonce >= ledger.nonce[t.from]
    /\ Conflicts(t) = {} => Cardinality(Queue(t.from)) < MaxPerSender

NonceOk(t) ==
    /\ t.nonce >= ledger.nonce[t.from]
    /\ Conflicts(t) = {} =>
           /\ Cardinality(Queue(t.from)) < MaxPerSender
           /\ t.nonce = NextNonce(t.from)

\* Mutant of SponsorAffordable: each sponsorship is judged alone.
SponsorAffordableAlone(t) == Sponsored(t) => t.fee <= ledger.bal[t.payer]

\* sponsorAffordableLocked.
SponsorAffordable(t) ==
    Sponsored(t) =>
        LET others == {u \in pool \ Conflicts(t) : Sponsored(u) /\ u.payer = t.payer}
        IN  t.fee + SumOf(others, LAMBDA u : u.fee) <= ledger.bal[t.payer]

Admissible(t) ==
    /\ NonceOk(t)
    /\ Cost(t) + SumOf(Queue(t.from) \ Conflicts(t), Cost)
           <= ledger.bal[t.from] + PendingCredit(t.from)
    /\ PackageLimits(t)
    /\ SponsorAffordable(t)

\* The relay floor is read once, before anything else.
AboveFloor(t) == t.fee >= MinFeeLocked * t.size

\* Add up to the signature check.  The duplicate and admissibility checks it makes
\* on the way only refuse early what Commit, which repeats them, would refuse.
Submit(t) ==
    /\ adding = <<>>
    /\ Cardinality(checking) < MaxSubmissions
    /\ AboveFloor(t)
    /\ checking' = checking \cup {t}
    /\ UNCHANGED <<chainVars, pool, adding, tip>>

MayReplace(t, old) ==
    t.fee > old.fee \/ (Unmineable(old) /\ ~Unmineable(t))

Commit(t) ==
    /\ adding = <<>>
    /\ t \in checking
    /\ checking' = checking \ {t}
    /\ IF t \in pool \/ ~Admissible(t) \/ \E old \in Conflicts(t) : ~MayReplace(t, old)
       THEN UNCHANGED <<pool, adding>>
       ELSE IF Conflicts(t) # {}
            THEN pool' = (pool \ Conflicts(t)) \cup {t} /\ UNCHANGED adding
            ELSE adding' = <<t>> /\ UNCHANGED pool
    /\ UNCHANGED <<chainVars, tip>>

OverBudget(t) ==
    \/ Cardinality(pool) >= MaxTxs
    \/ SumOf(pool, LAMBDA u : u.size) + t.size > MaxBytes

\* evictionCandidateLocked: the cheapest of the last entries of each run.
Victims ==
    LET last == {t \in pool : \A u \in Queue(t.from) : u.nonce <= t.nonce}
    IN  {t \in last : \A u \in last : ~RateLess(u, t)}

\* One turn of the eviction loop.
Evict ==
    /\ adding # <<>>
    /\ OverBudget(adding[1])
    /\ LET t == adding[1]
           refused(v) == ~RateLess(v, t) \/ (v.from = t.from /\ v.nonce < t.nonce)
       IN  \/ /\ Victims = {} \/ \E v \in Victims : refused(v)
              /\ adding' = <<>>
              /\ UNCHANGED pool
           \/ \E v \in Victims :
                  ~refused(v) /\ pool' = pool \ {v} /\ UNCHANGED adding
    /\ UNCHANGED <<chainVars, checking, tip>>

Insert ==
    /\ adding # <<>>
    /\ ~OverBudget(adding[1])
    /\ pool' = pool \cup {adding[1]}
    /\ adding' = <<>>
    /\ UNCHANGED <<chainVars, checking, tip>>
-----------------------------------------------------------------------------
(* Selection. *)

\* What no block at this height could hold is passed over once and for all.
Selectable == {t \in pool : t.fee >= BaseFee * t.size /\ MineableAt(t, Height + 1)}

SimAfter(l, t) ==
    LET paid == [l.bal EXCEPT ![t.from] = @ - Cost(t)]
        sponsored == IF Sponsored(t) THEN [paid EXCEPT ![t.payer] = @ - t.fee] ELSE paid
    IN  [bal |-> [sponsored EXCEPT ![t.to] = @ + t.amount],
         nonce |-> [l.nonce EXCEPT ![t.from] = @ + 1]]

\* Mutant of Ready: the sponsor's simulated balance is not consulted.
ReadySponsorFree(sim, weight) ==
    {t \in Selectable :
        /\ t.nonce = sim.nonce[t.from]
        /\ weight + t.size <= MaxBlockBytes
        /\ sim.bal[t.from] >= Cost(t)}

\* The heads of the runs that can go in next.
Ready(sim, weight) ==
    {t \in Selectable :
        /\ t.nonce = sim.nonce[t.from]
        /\ weight + t.size <= MaxBlockBytes
        /\ Sponsored(t) => sim.bal[t.payer] >= t.fee
        /\ sim.bal[t.from] >= Cost(t)}

\* Ties are broken by hash: some fixed choice.
Best(S) ==
    CHOOSE t \in S : \A u \in S : ~RateLess(EffectiveRate(t), EffectiveRate(u))

Select ==
    LET step[n \in 0 .. MaxBlockTxs] ==
            IF n = 0 THEN [txs |-> <<>>, sim |-> ledger, weight |-> 0]
            ELSE LET s == step[n - 1]
                     ready == Ready(s.sim, s.weight)
                     best == Best(ready)
                 IN  IF ready = {} THEN s
                     ELSE [txs |-> Append(s.txs, best), sim |-> SimAfter(s.sim, best),
                           weight |-> s.weight + best.size]
    IN  step[MaxBlockTxs].txs
-----------------------------------------------------------------------------
(* The chain under the pool. *)

\* Block application (blockchain.go: applyTxsAndCoinbase) on the spendable ledger.
TxApplies(l, t, h) ==
    /\ t.nonce = l.nonce[t.from]
    /\ MineableAt(t, h)
    /\ t.fee >= BaseFee * t.size
    /\ l.bal[t.from] >= t.amount + SenderFee(t)
    /\ Sponsored(t) => l.bal[t.payer] >= t.fee

LedgerAfter(l, txs) == FoldSeq(LAMBDA t, acc : SimAfter(acc, t), l, txs)

\* The transactions that do not apply after those before them.
Rejected(l, txs, h) ==
    {i \in DOMAIN txs : ~TxApplies(LedgerAfter(l, SubSeq(txs, 1, i - 1)), txs[i], h)}

BlockApplies(l, txs, h) ==
    /\ Len(txs) <= MaxBlockTxs
    /\ FoldSeq(LAMBDA t, n : n + t.size, 0, txs) <= MaxBlockBytes
    /\ Rejected(l, txs, h) = {}

BlockBodies == UNION {[1 .. n -> Txs] : n \in 0 .. MaxBlockTxs}

\* The chain becomes chain c plus one block; then the handler takes over.
TipMoves(c, l, txs, stage, todo, then) ==
    /\ tip.stage = "none"
    /\ BlockApplies(l, txs, Len(c) + 1)
    /\ blocks' = Append(c, [txs |-> txs, before |-> l])
    /\ ledger' = LedgerAfter(l, txs)
    /\ template' = <<>>       \* a candidate on the old tip is refused
    /\ cand' = [i \in DOMAIN cand |-> [cand[i] EXCEPT !.fresh = FALSE]]
    /\ clean' = FALSE
    /\ tip' = [stage |-> stage, todo |-> todo, then |-> then, wait |-> {}]
    /\ UNCHANGED <<pool, checking, adding>>

\* assembleBlock: the miner selects for the current tip.
AssembleBlock ==
    /\ adding = <<>>
    /\ template = <<>> /\ cand = <<>>
    /\ cand' = <<[txs |-> Select, h |-> Height + 1, fresh |-> TRUE]>>
    /\ UNCHANGED <<ledger, blocks, template, clean, pool, checking, adding, tip>>

\* buildBlockFor after assembly: NextStateRoot applies the candidate to the tip of
\* that moment, and the transaction it rejects, if any, leaves the pool (except
\* in the last of maxBuildAttempts, which just gives up).
CheckCandidate ==
    /\ adding = <<>>
    /\ cand # <<>>
    /\ LET c == cand[1]
           bad == Rejected(ledger, c.txs, c.h)
       IN  /\ template' = IF bad = {} /\ c.fresh THEN <<c.txs>> ELSE <<>>
           /\ pool' \in {pool, pool \ {c.txs[i] : i \in {k \in bad : k = Min(bad)}}}
    /\ clean' = (clean /\ pool' = pool)
    /\ cand' = <<>>
    /\ UNCHANGED <<ledger, blocks, checking, adding, tip>>

\* commitMined: the block's transactions are removed; nothing is reconciled.
CommitMined ==
    /\ Height < MaxHeight
    /\ template # <<>>
    /\ TipMoves(blocks, ledger, template[1], "remove", template[1], "none")

\* SubmitMinedBlock: an outside miner's block is removed and reconciled.
SubmitMined ==
    /\ Height < MaxHeight
    /\ template # <<>>
    /\ TipMoves(blocks, ledger, template[1], "remove", template[1], "prune")

\* onBlockReceived and onBlocks: a peer's block, of any valid content.
ReceiveBlock(txs) ==
    /\ Height < MaxHeight
    /\ TipMoves(blocks, ledger, txs, "prune", <<>>, "prune")

\* A peer's branch replaces the tip (fork choice prefers it by work or hash).
Reorg(txs) ==
    /\ Height > 0
    /\ LET old == blocks[Height]
           lost == SelectSeq(old.txs, LAMBDA t : \A i \in DOMAIN txs : txs[i] # t)
       IN  /\ old.txs # txs
           /\ TipMoves(SubSeq(blocks, 1, Height - 1), old.before, txs,
                       "resurrect", lost, "prune")

RemoveMined ==
    /\ adding = <<>> /\ tip.stage = "remove"
    /\ pool' = pool \ ToSet(tip.todo)
    /\ tip' = [stage |-> tip.then, todo |-> <<>>, then |-> "none", wait |-> {}]
    /\ UNCHANGED <<chainVars, checking, adding>>

\* resurrectTxs adds the lost transactions one by one, each to completion.
Resurrect ==
    /\ adding = <<>> /\ tip.stage = "resurrect" /\ tip.wait \cap checking = {}
    /\ IF tip.todo = <<>>
       THEN /\ tip' = [tip EXCEPT !.stage = tip.then, !.wait = {}]
            /\ UNCHANGED checking
       ELSE /\ tip' = [tip EXCEPT !.todo = Tail(@), !.wait = {Head(tip.todo)}]
            /\ checking' = checking \cup {t \in {Head(tip.todo)} : AboveFloor(t)}
    /\ UNCHANGED <<chainVars, pool, adding>>

\* PruneExpired, which gives the lock up again before Reconcile takes it.
PruneExpired ==
    /\ adding = <<>> /\ tip.stage = "prune"
    /\ pool' = {t \in pool : t.expiry = 0 \/ Height + 1 <= t.expiry}
    /\ tip' = [tip EXCEPT !.stage = "reconcile"]
    /\ UNCHANGED <<chainVars, checking, adding>>

\* reconcileSponsorsLocked: the sets a payer's pass may drop, cheapest first.
SponsorDrops(p) ==
    LET mine == {t \in pool : Sponsored(t) /\ t.payer = p}
        over(S) == SumOf(S, LAMBDA t : t.fee) > ledger.bal[p]
    IN  {D \in SUBSET mine :
            /\ ~over(mine \ D)
            /\ \A d \in D, k \in mine \ D : ~RateLess(k, d)
            /\ D # {} => \E d \in D : /\ over((mine \ D) \cup {d})
                                      /\ \A e \in D : ~RateLess(d, e)}

\* The second pass: what a sender may keep of its queue in pool P.
KeptRun(P, a) ==
    LET run(n) == {t \in P : t.from = a /\ ledger.nonce[a] <= t.nonce /\ t.nonce <= n}
    IN  {t \in P : /\ t.from = a /\ t.nonce >= ledger.nonce[a]
                   /\ Cardinality(run(t.nonce)) = t.nonce - ledger.nonce[a] + 1
                   /\ SumOf(run(t.nonce), Cost) <= ledger.bal[a]}

Reconciled(P) == UNION {KeptRun(P, a) : a \in Addrs}

Reconcile ==
    /\ adding = <<>> /\ tip.stage = "reconcile"
    /\ \E drop \in [Addrs -> SUBSET pool] :
           /\ \A p \in Addrs : drop[p] \in SponsorDrops(p)
           /\ pool' = Reconciled(pool \ UNION {drop[p] : p \in Addrs})
    /\ tip' = [tip EXCEPT !.stage = "none"]
    /\ clean' = TRUE
    /\ UNCHANGED <<ledger, blocks, cand, template, checking, adding>>
-----------------------------------------------------------------------------
Init ==
    /\ ledger = [bal |-> StartBalance, nonce |-> [a \in Addrs |-> 0]]
    /\ blocks = <<>> /\ pool = {} /\ checking = {} /\ adding = <<>>
    /\ cand = <<>> /\ template = <<>> /\ clean = TRUE
    /\ tip = [stage |-> "none", todo |-> <<>>, then |-> "none", wait |-> {}]

Next ==
    \/ \E t \in Txs : Submit(t) \/ Commit(t)
    \/ Evict \/ Insert
    \/ AssembleBlock \/ CheckCandidate \/ CommitMined \/ SubmitMined
    \/ \E txs \in BlockBodies : ReceiveBlock(txs) \/ Reorg(txs)
    \/ RemoveMined \/ Resurrect \/ PruneExpired \/ Reconcile

Spec == Init /\ [][Next]_vars
-----------------------------------------------------------------------------
(* Properties. *)

\* Whatever the pool holds and however stale it is, the miner's selection is a
\* block the chain accepts: one bad choice would stop block production.
SelectionValid == adding = <<>> => BlockApplies(ledger, Select, Height + 1)

Contiguous ==
    \A a \in Addrs :
        {t.nonce : t \in Queue(a)} =
            ledger.nonce[a] .. (ledger.nonce[a] + Cardinality(Queue(a)) - 1)

\* Once a tip change has been reconciled, each sender's queue is a run of
\* nonces without gaps from the confirmed one, whatever was evicted, replaced,
\* resurrected or submitted meanwhile - until the tip moves again or the miner
\* drops a transaction.
RunsContiguous == (clean /\ adding = <<>>) => Contiguous

\* A sponsor can pay every fee it has queued, not just each of them.
SponsorsCovered ==
    clean =>
        \A p \in Addrs :
            SumOf({t \in pool : Sponsored(t) /\ t.payer = p}, LAMBDA t : t.fee)
                <= ledger.bal[p]

\* mempool.go: the pool holds, per sender, a contiguous run of nonces; so nothing
\* but a change of the confirmed nonces, and the clean-up after it, breaks one.
RunsStayContiguous ==
    [][(Contiguous /\ tip.stage = "none" /\ UNCHANGED ledger) => Contiguous']_vars
=============================================================================
