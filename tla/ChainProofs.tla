---------------------------- MODULE ChainProofs ----------------------------
(***************************************************************************)
(* Proofs about Chain for every set of accounts, bodies and parameters:    *)
(* type correctness, exactness of the undo logs across reorgs and failed   *)
(* operations, and the finality guards.                                    *)
(***************************************************************************)
EXTENDS Chain, TLAPS, FiniteSetTheorems

-----------------------------------------------------------------------------
(* Lemmas about undo logs. *)

\* A nonempty set of naturals has a least element.  The intervals 0 .. n are
\* finite sets, and strict inclusion is well founded on those.
LEMMA LeastNatural ==
    ASSUME NEW S \in SUBSET Nat, S # {}
    PROVE  \E x \in S : \A y \in S : x <= y
<1> DEFINE T == {0 .. n : n \in S}
<1>1. IsWellFoundedOn(StrictSubsetOrdering(Nat), FiniteSubsetsOf(Nat))
  BY FS_StrictSubsetOrderingWellFounded
<1>2. \A n \in S : 0 .. n \in FiniteSubsetsOf(Nat)
  BY FS_Interval DEF FiniteSubsetsOf
<1>3. T \subseteq FiniteSubsetsOf(Nat) /\ T # {}
  BY <1>2, ZenonT(20)
<1>4. PICK t \in T : \A u \in T : ~ (<<u, t>> \in StrictSubsetOrdering(Nat))
  <2> HIDE DEF T
  <2> QED BY <1>1, <1>3, WFMin, Zenon
<1>5. PICK x \in S : t = 0 .. x
  BY <1>4
<1>6. ASSUME NEW y \in S, y < x
      PROVE  FALSE
  <2>1. 0 .. y \in T
    BY <1>6
  <2>2. 0 .. y \subseteq 0 .. x /\ 0 .. y # 0 .. x
    BY <1>6
  <2>3. <<0 .. y, 0 .. x>> \in StrictSubsetOrdering(Nat)
    BY <2>2 DEF StrictSubsetOrdering
  <2>4. QED
    BY <2>1, <2>3, <1>4, <1>5, ZenonT(20)
<1>7. QED
  BY <1>6

\* First returns the least element of a nonempty set of naturals.
LEMMA FirstIsLeast ==
    ASSUME NEW S \in SUBSET Nat, S # {}
    PROVE  /\ First(S) \in S
           /\ \A j \in S : First(S) <= j
BY LeastNatural, ZenonT(20) DEF First

\* What First returns is determined by being least.
LEMMA FirstUnique ==
    ASSUME NEW S \in SUBSET Nat, NEW x \in S, \A j \in S : x <= j
    PROVE  First(S) = x
<1>1. First(S) \in S /\ \A j \in S : First(S) <= j
  BY FirstIsLeast
<1>2. First(S) \in Nat /\ x \in Nat
  BY <1>1, ZenonT(20)
<1>3. x <= First(S) /\ First(S) <= x
  BY <1>1, ZenonT(20)
<1>4. QED
  BY <1>2, <1>3

\* Writing an account after logging its prior value changes nothing of what the
\* undo log restores (the closure "set" of applyTxsAndCoinbase).
LEMMA UndoOfWrite ==
    ASSUME NEW s, NEW log \in Seq(Entry), NEW a \in Addrs, NEW acc,
           s = [x \in Addrs |-> s[x]]
    PROVE  ApplyUndo(Put(s, a, acc), Logged(s, log, a)) = ApplyUndo(s, log)
<1> DEFINE e == [addr |-> a, prev |-> s[a]]
           log2 == Append(log, e)
           s2 == Put(s, a, acc)
<1>1. /\ Len(log) \in Nat
      /\ DOMAIN log = 1 .. Len(log)
      /\ DOMAIN log2 = 1 .. Len(log) + 1
      /\ log2[Len(log) + 1] = e
      /\ \A i \in 1 .. Len(log) : log2[i] = log[i]
  OBVIOUS
<1> HIDE DEF log2
<1>t. \A y : Touches(log, y) \in SUBSET Nat /\ Touches(log2, y) \in SUBSET Nat
  BY <1>1 DEF Touches
<1>2. SUFFICES ASSUME NEW x \in Addrs
               PROVE  ApplyUndo(s2, log2)[x] = ApplyUndo(s, log)[x]
  BY ZenonT(20) DEF ApplyUndo, Logged, log2
<1>3. CASE x # a
  <2>1. Touches(log2, x) = Touches(log, x)
    BY <1>1, <1>3 DEF Touches
  <2>2. s2[x] = s[x]
    BY <1>3 DEF Put
  <2>3. CASE Touches(log, x) = {}
    BY <2>1, <2>2, <2>3 DEF ApplyUndo
  <2>4. CASE Touches(log, x) # {}
    <3>1. First(Touches(log, x)) \in Touches(log, x)
      BY <2>4, <1>t, FirstIsLeast
    <3>2. log2[First(Touches(log, x))] = log[First(Touches(log, x))]
      BY <3>1, <1>1 DEF Touches
    <3>3. QED
      BY <2>1, <2>4, <3>2 DEF ApplyUndo
  <2>5. QED
    BY <2>3, <2>4
<1>4. CASE x = a /\ Touches(log, a) = {}
  <2>1. Touches(log2, a) = {Len(log) + 1}
    BY <1>1, <1>4 DEF Touches
  <2>2. First(Touches(log2, a)) = Len(log) + 1
    <3>1. Len(log) + 1 \in Touches(log2, a) /\ \A j \in Touches(log2, a) : Len(log) + 1 <= j
      BY <2>1, <1>1
    <3>2. QED
      BY <3>1, <1>t, FirstUnique
  <2>3. ApplyUndo(s2, log2)[a] = s[a]
    <3>1. Touches(log2, a) # {}
      BY <2>1
    <3>2. ApplyUndo(s2, log2)[a] = log2[First(Touches(log2, a))].prev
      BY <3>1 DEF ApplyUndo
    <3>3. log2[First(Touches(log2, a))] = e
      BY <2>2, <1>1
    <3>4. QED
      BY <3>2, <3>3
  <2>4. QED
    BY <2>3, <1>4 DEF ApplyUndo
<1>5. CASE x = a /\ Touches(log, a) # {}
  <2> DEFINE f == First(Touches(log, a))
  <2>1. f \in Touches(log, a) /\ \A j \in Touches(log, a) : f <= j
    BY <1>5, <1>t, FirstIsLeast
  <2>2. Touches(log2, a) = Touches(log, a) \cup {Len(log) + 1}
    BY <1>1 DEF Touches
  <2>3. f \in 1 .. Len(log)
    BY <2>1, <1>1 DEF Touches
  <2>4. First(Touches(log2, a)) = f
    <3>2. f \in Touches(log2, a) /\ \A j \in Touches(log2, a) : f <= j
      BY <2>1, <2>2, <2>3, <1>1
    <3>3. QED
      BY <1>t, <3>2, FirstUnique
  <2>5. log2[f] = log[f]
    BY <2>3, <1>1
  <2>6. QED
    BY <2>2, <2>4, <2>5, <1>5, ZenonT(20) DEF ApplyUndo
<1>6. QED
  BY <1>3, <1>4, <1>5

\* An empty log restores the ledger it is applied to.
LEMMA UndoOfNothing ==
    ASSUME NEW s, s = [x \in Addrs |-> s[x]]
    PROVE  ApplyUndo(s, <<>>) = s
BY DEF ApplyUndo, Touches
-----------------------------------------------------------------------------
(* The inductive invariant.                                                *)

\* The ledger after n blocks of the suffix being connected by a reorg.
NewBase(n) == IF n = 0 THEN hist[job.fork + 1] ELSE job.newHist[n]

\* The candidate's first block builds on the block at the fork.
Linked == SubSeq(job.cand, 1, job.fork) = SubSeq(chain, 1, job.fork)

\* While AddBlock runs, undoing what it has logged gives the ledger before it.
AddInv ==
    /\ job.stage # "rollback"
    /\ job.fork = Len(chain)
    /\ job.h = Len(chain) + 1
    /\ job.stage # "begin" => Len(job.cand) = job.h /\ Linked
    /\ job.stage = "begin" => job.log = <<>>
    /\ ApplyUndo(state, job.log) = hist[Len(chain) + 1]

\* While a reorg undoes the losing branch, its copy is a ledger of the history.
RollbackInv ==
    /\ job.h \in job.fork .. Len(chain)
    /\ job.clone = hist[job.h + 1]
    /\ job.log = <<>> /\ job.newUndos = <<>> /\ job.newHist = <<>>

\* While it connects the winning one, each log it has built undoes its block.
SuffixInv ==
    /\ job.h \in (job.fork + 1) .. (Len(job.cand) + 1)
    /\ job.stage = "persist" <=> job.h = Len(job.cand) + 1
    /\ Len(job.newUndos) = job.h - job.fork - 1
    /\ Len(job.newHist) = job.h - job.fork - 1
    /\ \A i \in 1 .. (job.h - job.fork - 1) :
           ApplyUndo(job.newHist[i], job.newUndos[i]) = NewBase(i - 1)
    /\ ApplyUndo(job.clone, job.log) = NewBase(job.h - job.fork - 1)
    /\ job.stage \in {"begin", "persist"} => job.log = <<>>
    /\ job.stage # "begin" => Linked

\* A reorg never touches the live ledger, and its fork point was checked.
ReorgInv ==
    /\ state = hist[Len(chain) + 1]
    /\ job.fork <= Len(chain)
    /\ job.fork < Len(job.cand)
    /\ FinalityAllows(job.fork)
    /\ job.stage = "rollback" => RollbackInv
    /\ job.stage # "rollback" => SuffixInv

\* The inductive invariant: each undo log takes its block's ledger to the one
\* before, and the operation under way has kept that possible.
IInv ==
    /\ TypeOK
    /\ Len(undos) = Len(chain)
    /\ Len(hist) = Len(chain) + 1
    /\ hist[1] = EmptyLedger
    /\ \A i \in 1 .. Len(chain) : ApplyUndo(hist[i + 1], undos[i]) = hist[i]
    /\ job.op = "idle" => state = hist[Len(chain) + 1]
    /\ job.op = "add" => AddInv
    /\ job.op = "reorg" => ReorgInv

\* A ledger is a function on Addrs; its accounts read as real accounts.
LEMMA LedgerFacts ==
    ASSUME NEW s \in Ledgers
    PROVE  /\ s = [x \in Addrs |-> s[x]]
           /\ \A a \in Addrs : Get(s, a) \in Account
           /\ \A a \in Addrs : \A log \in Seq(Entry) : Logged(s, log, a) \in Seq(Entry)
           /\ \A a \in Addrs : \A acc \in Account : Put(s, a, acc) \in Ledgers
BY DEF Ledgers, Get, Logged, Put, Account, Entry

\* Undoing a log of account values yields a ledger.
LEMMA UndoType ==
    ASSUME NEW s \in Ledgers, NEW log \in Seq(Entry)
    PROVE  ApplyUndo(s, log) \in Ledgers
<1>1. ASSUME NEW a \in Addrs, Touches(log, a) # {}
      PROVE  log[First(Touches(log, a))].prev \in Account \cup {NoAccount}
  <2>1. Touches(log, a) \in SUBSET Nat
    BY DEF Touches
  <2>2. First(Touches(log, a)) \in DOMAIN log
    BY <2>1, <1>1, FirstIsLeast, ZenonT(20) DEF Touches
  <2>3. log[First(Touches(log, a))] \in Entry
    BY <2>2
  <2>4. QED
    BY <2>3 DEF Entry
<1>2. QED
  BY <1>1 DEF ApplyUndo, Ledgers

\* While a block is being applied it is one of the candidate's.
LEMMA BlockFacts ==
    ASSUME IInv, ~Idle, job.stage \in {"tx", "coinbase"}
    PROVE  /\ job.h \in 1 .. Len(job.cand)
           /\ job.h \in 1 .. MaxHeight
           /\ Block \in Body /\ Block \in Bodies
           /\ Working \in Ledgers
<1>1. job \in Jobs /\ chain \in Paths /\ state \in Ledgers
  BY DEF IInv, TypeOK
<1>2. PICK n \in 0 .. MaxHeight : job.cand \in [1 .. n -> Bodies]
  BY <1>1, ZenonT(20) DEF Jobs, Paths
<1>3. MaxHeight \in Nat
  BY ChainAssumption
<1>4. Len(job.cand) = n /\ DOMAIN job.cand = 1 .. n
  BY <1>2, <1>3
<1>5. Len(chain) \in Nat
  BY <1>1, <1>3 DEF Paths
<1>6. CASE job.op = "add"
  <2>1. job.h = Len(chain) + 1 /\ Len(job.cand) = job.h
    BY <1>6 DEF IInv, AddInv
  <2>2. job.h \in 1 .. n
    BY <2>1, <1>4, <1>5, <1>3
  <2>3. QED
    BY <1>1, <1>2, <1>3, <1>4, <1>6, <2>2, ChainAssumption DEF Block, Working
<1>7. CASE job.op = "reorg"
  <2>1. job.h \in (job.fork + 1) .. (Len(job.cand) + 1) /\ job.h # Len(job.cand) + 1
    BY <1>7 DEF IInv, ReorgInv, SuffixInv
  <2>2. job.fork \in Nat /\ job.clone \in Ledgers
    BY <1>1 DEF Jobs
  <2>3. job.h \in 1 .. n
    BY <2>1, <2>2, <1>4, <1>3
  <2>4. QED
    BY <1>1, <1>2, <1>3, <1>4, <1>7, <2>2, <2>3, ChainAssumption DEF Block, Working
<1>8. QED
  BY <1>1, <1>6, <1>7 DEF Jobs, Idle

\* Every error path preserves the invariant: AddBlock's writes are undone, a
\* reorg's were made on a copy.
LEMMA AbortPreserves ==
    ASSUME IInv, ~Idle, Abort
    PROVE  IInv'
<1>1. /\ UNCHANGED <<chain, undos, work, burned, txIndex, hist, poisoned>>
      /\ job' = IdleJob
  BY DEF Abort, liveVars
<1>2. state \in Ledgers /\ job \in Jobs
  BY DEF IInv, TypeOK
<1>3. state' = hist[Len(chain) + 1]
  BY <1>2 DEF Abort, IInv, AddInv, ReorgInv, Jobs, Idle
<1>4. state' \in Ledgers
  BY <1>2, UndoType DEF Abort, Jobs
<1>5. EmptyLedger \in Ledgers /\ <<>> \in Paths
  <2>1. EmptyLedger \in Ledgers
    BY DEF EmptyLedger, Ledgers
  <2>2. <<>> \in [1 .. 0 -> Bodies] /\ 0 \in 0 .. MaxHeight
    BY ChainAssumption
  <2>3. QED
    BY <2>1, <2>2 DEF Paths
<1>6. job' \in Jobs /\ job'.op = "idle"
  BY <1>1, <1>5 DEF IdleJob, Jobs, Stages
<1>7. QED
  BY <1>1, <1>3, <1>4, <1>6 DEF IInv, TypeOK

\* A step that only writes accounts, each logged first, preserves the invariant.
LEMMA WritePreserves ==
    ASSUME IInv, ~Idle, job.stage = "tx",
           NEW s \in Ledgers, NEW next \in Jobs,
           next.op = job.op, next.stage \in {"tx", "coinbase"}, next.cand = job.cand,
           next.fork = job.fork, next.h = job.h, next.clone = job.clone,
           next.newUndos = job.newUndos, next.newHist = job.newHist,
           ApplyUndo(s, next.log) = ApplyUndo(Working, job.log),
           Write(next, s), UNCHANGED <<liveVars, poisoned>>
    PROVE  IInv'
<1>1. /\ UNCHANGED <<chain, undos, work, burned, txIndex, hist, poisoned>>
      /\ job \in Jobs /\ state \in Ledgers
  BY DEF liveVars, IInv, TypeOK
<1>2. CASE job.op = "add"
  <2>1. state' = s /\ job' = next
    BY <1>2 DEF Write
  <2>2. TypeOK'
    BY <1>1, <2>1 DEF IInv, TypeOK
  <2>3. AddInv'
    BY <1>1, <1>2, <2>1 DEF IInv, AddInv, Working, Linked
  <2>4. QED
    BY <1>1, <1>2, <2>1, <2>2, <2>3 DEF IInv
<1>3. CASE job.op = "reorg"
  <2>1. job' = [next EXCEPT !.clone = s] /\ state' = state
    BY <1>3 DEF Write
  <2>2. /\ job' \in Jobs /\ job'.clone = s /\ job'.log = next.log
        /\ job'.op = "reorg" /\ job'.stage \in {"tx", "coinbase"} /\ job'.cand = job.cand
        /\ job'.fork = job.fork /\ job'.h = job.h
        /\ job'.newUndos = job.newUndos /\ job'.newHist = job.newHist
    BY <1>1, <1>3, <2>1, ZenonT(20) DEF Jobs
  <2>3. TypeOK'
    BY <1>1, <2>1, <2>2 DEF IInv, TypeOK
  <2>4. SuffixInv'
    <3>1. SuffixInv
      BY <1>3 DEF IInv, ReorgInv
    <3>2. ApplyUndo(job'.clone, job'.log) = NewBase(job.h - job.fork - 1)
      BY <1>3, <2>2, <3>1 DEF SuffixInv, Working
    <3>3. QED
      BY <1>1, <2>2, <3>1, <3>2, ZenonT(20) DEF SuffixInv, Linked, NewBase
  <2>5. ReorgInv'
    BY <1>1, <1>3, <2>1, <2>2, <2>4 DEF IInv, ReorgInv, FinalityAllows
  <2>6. QED
    BY <1>1, <2>1, <2>2, <2>3, <2>5 DEF IInv
<1>4. QED
  BY <1>1, <1>2, <1>3 DEF Jobs, Idle
-----------------------------------------------------------------------------
(* The steps that apply a transaction.                                     *)

\* The transaction being applied, and what it moves.
LEMMA TxFacts ==
    ASSUME IInv, ~Idle, job.stage = "tx", job.ti <= Len(Block.txs)
    PROVE  /\ Tx \in Transaction
           /\ TotalOut(Tx) \in Nat
           /\ SenderFee(Tx) \in Nat
           /\ \A a \in Addrs : ImmatureCoinbase(job.cand, job.h, a) \in Nat
<1>1. job \in Jobs
  BY DEF IInv, TypeOK
<1>2. Block \in Body /\ Block \in Bodies /\ job.h \in 1 .. MaxHeight
  BY BlockFacts
<1>3. Block.txs \in Seq(Transaction) /\ job.ti \in DOMAIN Block.txs
  BY <1>1, <1>2 DEF Body, Jobs
<1>4. Tx \in Transaction
  BY <1>3 DEF Tx
<1>5. TotalOut(Tx) \in Nat
  BY <1>2, <1>3, SumAssumption DEF Tx
<1>6. SenderFee(Tx) \in Nat
  BY <1>4 DEF SenderFee, Transaction
<1>7. QED
  BY <1>1, <1>2, <1>4, <1>5, <1>6, SumAssumption DEF Jobs

\* Taking a transaction's inputs from its sender and sponsor (the first half of
\* applyTxTo) keeps the undo log exact.
LEMMA DebitPreserves ==
    ASSUME IInv, DebitTx
    PROVE  IInv'
<1> DEFINE s1 == Debited(Tx)
           log1 == Logged(Working, job.log, Tx.from)
           acc1 == [balance |-> Get(Working, Tx.from).balance - TotalOut(Tx) - SenderFee(Tx),
                    nonce |-> Get(Working, Tx.from).nonce + 1]
           charged == [Get(s1, Tx.payer) EXCEPT !.balance = @ - Tx.fee]
           next(log) == [job EXCEPT !.oi = 1, !.log = log]
<1>1. /\ ~Idle /\ job.stage = "tx" /\ job.ti <= Len(Block.txs)
      /\ job \in Jobs
  BY DEF DebitTx, IInv, TypeOK
<1>2. CASE ~(TxOk(Tx) /\ SponsorOk(Tx))
  BY <1>1, <1>2, AbortPreserves DEF DebitTx
<1>3. CASE TxOk(Tx) /\ SponsorOk(Tx)
  <2>1. /\ Tx \in Transaction /\ TotalOut(Tx) \in Nat /\ SenderFee(Tx) \in Nat
        /\ \A a \in Addrs : ImmatureCoinbase(job.cand, job.h, a) \in Nat
        /\ Working \in Ledgers
    BY <1>1, TxFacts, BlockFacts
  <2>2. Tx.from \in Addrs /\ Tx.fee \in Nat /\ Tx.payer \in Addrs \cup {NoAddr}
    BY <2>1 DEF Transaction
  <2>3. job.log \in Seq(Entry)
    BY <1>1 DEF Jobs
  <2>4. acc1 \in Account
    <3>1. Get(Working, Tx.from) \in Account
      BY <2>1, <2>2, LedgerFacts
    <3>2. Get(Working, Tx.from).balance
              >= TotalOut(Tx) + SenderFee(Tx) + ImmatureCoinbase(job.cand, job.h, Tx.from)
      BY <1>3 DEF TxOk
    <3>3. QED
      BY <2>1, <2>2, <3>1, <3>2 DEF Account
  <2>5. s1 = Put(Working, Tx.from, acc1)
    BY DEF Debited
  <2>6. s1 \in Ledgers /\ log1 \in Seq(Entry)
    BY <2>1, <2>2, <2>3, <2>4, <2>5, LedgerFacts, SMTT(40)
  <2>7. ApplyUndo(s1, log1) = ApplyUndo(Working, job.log)
    <3>1. Working = [x \in Addrs |-> Working[x]]
      BY <2>1, LedgerFacts
    <3>2. QED
      BY <2>2, <2>3, <2>5, <3>1, UndoOfWrite
  <2>8. \A log \in Seq(Entry) :
          /\ next(log) \in Jobs /\ next(log).log = log
          /\ next(log).op = job.op /\ next(log).stage \in {"tx", "coinbase"}
          /\ next(log).cand = job.cand /\ next(log).fork = job.fork
          /\ next(log).h = job.h /\ next(log).clone = job.clone
          /\ next(log).newUndos = job.newUndos /\ next(log).newHist = job.newHist
    BY <1>1, ZenonT(20) DEF Jobs
  <2>9. UNCHANGED <<liveVars, poisoned>>
    BY <1>3 DEF DebitTx
  <2>10. CASE Tx.payer = NoAddr
    <3>1. Write(next(log1), s1)
      BY <1>3, <2>10 DEF DebitTx
    <3>2. next(log1) \in Jobs /\ ApplyUndo(s1, next(log1).log) = ApplyUndo(Working, job.log)
      BY <2>6, <2>7, <2>8, ZenonT(20)
    <3> HIDE DEF next, s1, log1
    <3>3. QED
      BY <1>1, <2>6, <2>8, <2>9, <3>1, <3>2, WritePreserves
  <2>11. CASE Tx.payer # NoAddr
    <3> DEFINE s2 == Put(s1, Tx.payer, charged)
               log2 == Logged(s1, log1, Tx.payer)
    <3>1. Write(next(log2), s2)
      BY <1>3, <2>11 DEF DebitTx
    <3>2. charged \in Account
      <4>1. Get(s1, Tx.payer) \in Account
        BY <2>2, <2>6, <2>11, LedgerFacts
      <4>2. Get(s1, Tx.payer).balance
                >= Tx.fee + ImmatureCoinbase(job.cand, job.h, Tx.payer)
        BY <1>3, <2>11 DEF SponsorOk, Balance
      <4>3. QED
        BY <2>1, <2>2, <2>11, <4>1, <4>2 DEF Account
    <3>3. s2 \in Ledgers /\ log2 \in Seq(Entry)
      BY <2>2, <2>6, <2>11, <3>2, LedgerFacts
    <3>4. ApplyUndo(s2, log2) = ApplyUndo(s1, log1)
      <4>1. s1 = [x \in Addrs |-> s1[x]]
        BY <2>6, LedgerFacts
      <4>2. QED
        BY <2>2, <2>6, <2>11, <4>1, UndoOfWrite
    <3>5. next(log2) \in Jobs /\ ApplyUndo(s2, next(log2).log) = ApplyUndo(Working, job.log)
      BY <2>7, <2>8, <3>3, <3>4, ZenonT(20)
    <3> HIDE DEF next, s2, log2
    <3>6. QED
      BY <1>1, <2>8, <2>9, <3>1, <3>3, <3>5, WritePreserves
  <2>12. QED
    BY <2>10, <2>11
<1>4. QED
  BY <1>2, <1>3

\* Crediting an output logs the recipient first, and so preserves the invariant.
LEMMA CreditPreserves ==
    ASSUME IInv, CreditOutput
    PROVE  IInv'
<1> DEFINE out == Tx.outs[job.oi]
           recip == Get(Working, out.to)
           acc == [recip EXCEPT !.balance = @ + out.amount]
           s == Put(Working, out.to, acc)
           log == Logged(Working, job.log, out.to)
           next == [job EXCEPT !.oi = @ + 1, !.log = log]
<1>1. /\ ~Idle /\ job.stage = "tx" /\ job.ti <= Len(Block.txs)
      /\ job.oi > 0 /\ job.oi <= Len(Tx.outs)
      /\ job \in Jobs
  BY DEF CreditOutput, IInv, TypeOK
<1>2. CASE ~(recip.balance + out.amount <= MaxUint)
  BY <1>1, <1>2, AbortPreserves DEF CreditOutput
<1>3. CASE recip.balance + out.amount <= MaxUint
  <2>1. Tx \in Transaction /\ Working \in Ledgers
    BY <1>1, TxFacts, BlockFacts
  <2>2. out.to \in Addrs /\ out.amount \in Nat
    <3>1. Tx.outs \in Seq(Output) /\ job.oi \in DOMAIN Tx.outs
      BY <1>1, <2>1, SMTT(40) DEF Transaction, Jobs
    <3>2. out \in Output
      BY <3>1
    <3>3. QED
      BY <3>2 DEF Output
  <2>3. acc \in Account
    BY <2>1, <2>2, LedgerFacts DEF Account
  <2>4. s \in Ledgers /\ log \in Seq(Entry)
    BY <1>1, <2>1, <2>2, <2>3, LedgerFacts, SMTT(40) DEF Jobs
  <2>5. ApplyUndo(s, log) = ApplyUndo(Working, job.log)
    <3>1. Working = [x \in Addrs |-> Working[x]] /\ job.log \in Seq(Entry)
      BY <1>1, <2>1, LedgerFacts DEF Jobs
    <3>2. QED
      BY <2>2, <3>1, UndoOfWrite
  <2>6. /\ next \in Jobs /\ next.log = log
        /\ next.op = job.op /\ next.stage \in {"tx", "coinbase"}
        /\ next.cand = job.cand /\ next.fork = job.fork
        /\ next.h = job.h /\ next.clone = job.clone
        /\ next.newUndos = job.newUndos /\ next.newHist = job.newHist
    <3>1. job.oi + 1 \in Nat
      BY <1>1 DEF Jobs
    <3> HIDE DEF log
    <3>2. QED
      BY <1>1, <2>4, <3>1, ZenonT(20) DEF Jobs
  <2>7. Write(next, s) /\ UNCHANGED <<liveVars, poisoned>>
    BY <1>3, SMTT(40) DEF CreditOutput
  <2> HIDE DEF next, s, log
  <2>8. QED
    BY <1>1, <2>4, <2>5, <2>6, <2>7, WritePreserves
<1>4. QED
  BY <1>2, <1>3

\* Moving on to the next transaction of the block changes no account.
LEMMA FinishPreserves ==
    ASSUME IInv, FinishTx
    PROVE  IInv'
<1>1. /\ ~Idle /\ job.stage = "tx" /\ job \in Jobs
      /\ UNCHANGED <<liveVars, state, poisoned>>
  BY DEF FinishTx, IInv, TypeOK
<1>2. Working \in Ledgers
  BY <1>1, BlockFacts
<1>3. /\ job' \in Jobs /\ job'.log = job.log
      /\ job'.op = job.op /\ job'.stage \in {"tx", "coinbase"}
      /\ job'.cand = job.cand /\ job'.fork = job.fork
      /\ job'.h = job.h /\ job'.clone = job.clone
      /\ job'.newUndos = job.newUndos /\ job'.newHist = job.newHist
  <2>1. CASE job.ti > Len(Block.txs)
    BY <1>1, <2>1 DEF FinishTx, Jobs, Stages
  <2>2. CASE ~(job.ti > Len(Block.txs))
    <3>1. Block \in Body
      BY <1>1, BlockFacts
    <3>2. job.ti <= Len(Block.txs)
      BY <1>1, <2>2, <3>1 DEF Body, Jobs
    <3>3. Tx.fee \in Nat /\ MinFee \in Nat
      BY <1>1, <3>2, TxFacts, ChainAssumption DEF Transaction
    <3>4. job' = TxDone(job, Tx)
      BY <2>2 DEF FinishTx
    <3>5. /\ job.ti + 1 \in Nat \ {0}
          /\ job.tips + Tx.fee - MinFee \in Int /\ job.burn + MinFee \in Int
      <4>1. job.ti \in Nat \ {0} /\ job.tips \in Int /\ job.burn \in Int
        BY <1>1 DEF Jobs
      <4>2. QED
        BY <3>3, <4>1
    <3>6. QED
      BY <1>1, <3>4, <3>5, ZenonT(20) DEF TxDone, Jobs
  <2>3. QED
    BY <2>1, <2>2
<1>4. Write(job', Working)
  BY <1>1, <1>3 DEF Write, Working, Jobs
<1>5. QED
  BY <1>1, <1>2, <1>3, <1>4, WritePreserves
-----------------------------------------------------------------------------
(* The coinbase closes a block.                                            *)

\* Paying the coinbase, and the checks that close a block, preserve the invariant:
\* the block's log becomes one more exact undo log of the candidate.
LEMMA CoinbasePreserves ==
    ASSUME IInv, PayCoinbase
    PROVE  IInv'
<1> DEFINE acc == Get(Working, Block.miner)
           paid == CoinbasePaid
           log == CoinbaseLog
           done == [job EXCEPT !.log = log]
           next == BlockApplied(done, paid)
<1>1. ~Idle /\ job.stage = "coinbase" /\ job \in Jobs
  BY DEF PayCoinbase, IInv, TypeOK
<1>2. CASE ~(CoinbaseOk(acc) /\ Conserved /\ Block.rootOk)
  BY <1>1, <1>2, AbortPreserves DEF PayCoinbase
<1>3. CASE CoinbaseOk(acc) /\ Conserved /\ Block.rootOk
  <2>1. Block \in Body /\ Working \in Ledgers /\ job.h \in 1 .. Len(job.cand)
    BY <1>1, BlockFacts
  <2>2. Block.miner \in Addrs /\ Block.pays \in Nat
    BY <2>1 DEF Body
  <2>3. [acc EXCEPT !.balance = @ + Block.pays] \in Account
    <3>1. acc \in Account
      BY <2>1, <2>2, LedgerFacts
    <3> HIDE DEF acc
    <3>2. QED
      BY <2>2, <3>1 DEF Account
  <2>4. paid \in Ledgers /\ log \in Seq(Entry)
    BY <1>1, <2>1, <2>2, <2>3, LedgerFacts DEF CoinbasePaid, CoinbaseLog, Jobs
  <2>5. ApplyUndo(paid, log) = ApplyUndo(Working, job.log)
    <3>1. Working = [x \in Addrs |-> Working[x]] /\ job.log \in Seq(Entry)
      BY <1>1, <2>1, LedgerFacts DEF Jobs
    <3>2. QED
      BY <2>2, <3>1, UndoOfWrite DEF CoinbasePaid, CoinbaseLog
  <2>6. Write(next, paid) /\ UNCHANGED <<liveVars, poisoned>>
    BY <1>3 DEF PayCoinbase
  <2>7. /\ UNCHANGED <<chain, undos, work, burned, txIndex, hist, poisoned>>
        /\ state \in Ledgers
    BY <2>6 DEF liveVars, IInv, TypeOK
  <2> HIDE DEF paid, log
  <2>8. /\ done \in Jobs /\ done.log = log /\ done.op = job.op /\ done.cand = job.cand
        /\ done.fork = job.fork /\ done.h = job.h /\ done.clone = job.clone
        /\ done.newUndos = job.newUndos /\ done.newHist = job.newHist
    BY <1>1, <2>4, ZenonT(20) DEF Jobs
  <2> HIDE DEF done
  <2>9. CASE job.op = "add"
    <3>1. state' = paid /\ job' = [done EXCEPT !.stage = "persist"]
      BY <2>6, <2>8, <2>9 DEF Write, BlockApplied
    <3>2. /\ job' \in Jobs /\ job'.log = log /\ job'.op = "add" /\ job'.stage = "persist"
          /\ job'.cand = job.cand /\ job'.fork = job.fork /\ job'.h = job.h
      BY <2>8, <2>9, <3>1, ZenonT(20) DEF Jobs, Stages
    <3>3. TypeOK'
      BY <2>4, <2>7, <3>1, <3>2 DEF IInv, TypeOK
    <3>4. AddInv'
      BY <1>1, <2>5, <2>7, <2>9, <3>1, <3>2, SMTT(40) DEF IInv, AddInv, Working, Linked
    <3>5. QED
      BY <2>7, <3>2, <3>3, <3>4 DEF IInv
  <2>10. CASE job.op = "reorg"
    <3> DEFINE stage == IF job.h = Len(job.cand) THEN "persist" ELSE "begin"
    <3>1. /\ state' = state
          /\ job' = [[done EXCEPT !.stage = IF done.h = Len(done.cand) THEN "persist" ELSE "begin",
                                  !.h = @ + 1, !.log = <<>>,
                                  !.newUndos = Append(@, done.log),
                                  !.newHist = Append(@, paid)] EXCEPT !.clone = paid]
      BY <2>6, <2>8, <2>10 DEF Write, BlockApplied
    <3>2. /\ job.h + 1 \in Nat /\ stage \in Stages
          /\ Append(job.newUndos, log) \in Seq(Seq(Entry))
          /\ Append(job.newHist, paid) \in Seq(Ledgers)
          /\ <<>> \in Seq(Entry)
      BY <1>1, <2>4 DEF Jobs, Stages
    <3>3. /\ job' \in Jobs /\ job'.op = "reorg" /\ job'.stage = stage
          /\ job'.cand = job.cand /\ job'.fork = job.fork /\ job'.h = job.h + 1
          /\ job'.log = <<>> /\ job'.clone = paid
          /\ job'.newUndos = Append(job.newUndos, log)
          /\ job'.newHist = Append(job.newHist, paid)
      BY <2>4, <2>8, <2>10, <3>1, <3>2, ZenonT(20) DEF Jobs
    <3> HIDE DEF stage
    <3>4. TypeOK'
      BY <2>7, <3>1, <3>3 DEF IInv, TypeOK
    <3>5. SuffixInv'
      <4>1. SuffixInv /\ job.fork \in Nat /\ job.h \in Nat /\ Len(job.cand) \in Nat
        BY <1>1, <2>1, <2>10 DEF IInv, ReorgInv, Jobs
      <4>m. PICK m \in Int : m = job.h - job.fork - 1
        BY <4>1
      <4>2. /\ job.newUndos \in Seq(Seq(Entry)) /\ job.newHist \in Seq(Ledgers)
            /\ Len(job.newUndos) = m /\ Len(job.newHist) = m /\ m \in Nat
        BY <1>1, <4>1, <4>m DEF SuffixInv, Jobs
      <4>3. /\ Len(job'.newUndos) = m + 1 /\ Len(job'.newHist) = m + 1
            /\ job'.newUndos[m + 1] = log /\ job'.newHist[m + 1] = paid
            /\ \A i \in 1 .. m : /\ job'.newUndos[i] = job.newUndos[i]
                                 /\ job'.newHist[i] = job.newHist[i]
        BY <3>3, <4>2
      <4>4. job'.h - job'.fork - 1 = m + 1
        BY <3>3, <4>1, <4>m
      <4>5. ApplyUndo(paid, log) = NewBase(m)
        BY <2>5, <2>10, <4>1, <4>m DEF SuffixInv, Working
      <4>6. \A i \in 0 .. m : NewBase(i)' = NewBase(i)
        BY <2>7, <3>3, <4>2, <4>3 DEF NewBase
      <4>7. NewBase(m + 1)' = paid
        BY <4>2, <4>3 DEF NewBase
      <4>8. ASSUME NEW i \in 1 .. (m + 1)
            PROVE  ApplyUndo(job'.newHist[i], job'.newUndos[i]) = NewBase(i - 1)'
        <5>1. CASE i = m + 1
          BY <4>2, <4>3, <4>5, <4>6, <5>1
        <5>2. CASE i \in 1 .. m
          <6>1. ApplyUndo(job.newHist[i], job.newUndos[i]) = NewBase(i - 1)
            BY <4>1, <4>m, <5>2 DEF SuffixInv
          <6>2. QED
            BY <4>2, <4>3, <4>6, <5>2, <6>1
        <5>3. QED
          BY <4>2, <5>1, <5>2
      <4>9. ApplyUndo(job'.clone, job'.log) = NewBase(m + 1)'
        BY <2>4, <3>3, <4>7, UndoOfNothing, LedgerFacts
      <4>10. /\ job'.h \in (job'.fork + 1) .. (Len(job'.cand) + 1)
             /\ job'.stage = "persist" <=> job'.h = Len(job'.cand) + 1
        <5>1. job.h \in (job.fork + 1) .. Len(job.cand)
          BY <2>1, <4>1 DEF SuffixInv
        <5>2. job'.h \in (job'.fork + 1) .. (Len(job'.cand) + 1)
          BY <3>3, <4>1, <5>1
        <5>3. QED
          BY <3>3, <4>1, <5>1, <5>2, SMTT(40) DEF stage
      <4>11. Linked'
        BY <1>1, <2>7, <3>3, <4>1, SMTT(40) DEF SuffixInv, Linked
      <4>12. QED
        <5>1. \A i \in 1 .. (job'.h - job'.fork - 1) :
                 ApplyUndo(job'.newHist[i], job'.newUndos[i]) = NewBase(i - 1)'
          BY <4>4, <4>8
        <5>2. QED
          BY <3>3, <4>1, <4>3, <4>4, <4>9, <4>10, <4>11, <5>1, ZenonT(20) DEF SuffixInv
    <3>6. ReorgInv'
      BY <1>1, <2>7, <2>10, <3>1, <3>3, <3>5, SMTT(40) DEF IInv, ReorgInv, FinalityAllows, stage
    <3>7. QED
      BY <2>7, <3>3, <3>4, <3>6, SMTT(40) DEF IInv
  <2>11. QED
    BY <1>1, <2>9, <2>10 DEF Jobs, Idle
<1>4. QED
  BY <1>2, <1>3
-----------------------------------------------------------------------------
(* Starting an operation, undoing the losing branch, starting a block.     *)

\* A path and its prefixes are sequences of body labels.
LEMMA PathFacts ==
    ASSUME NEW p \in Paths
    PROVE  Len(p) \in 0 .. MaxHeight /\ p \in [1 .. Len(p) -> Bodies] /\ p \in Seq(Bodies)
<1>1. PICK n \in 0 .. MaxHeight : p \in [1 .. n -> Bodies]
  BY DEF Paths
<1>2. n \in Nat
  BY <1>1, ChainAssumption
<1>3. Len(p) = n
  BY <1>1, <1>2
<1>4. QED
  BY <1>1, <1>2, <1>3

\* The idle job is a job.
LEMMA IdleJobType == IdleJob \in Jobs
<1>1. EmptyLedger \in Ledgers
  BY DEF EmptyLedger, Ledgers
<1>2. <<>> \in Paths
  <2>1. <<>> \in [1 .. 0 -> Bodies] /\ 0 \in 0 .. MaxHeight
    BY ChainAssumption
  <2>2. QED
    BY <2>1 DEF Paths
<1>3. QED
  BY <1>1, <1>2 DEF IdleJob, Jobs, Stages

\* AddBlock's checks before it writes, and its start, preserve the invariant.
LEMMA AddPreserves ==
    ASSUME IInv, NEW p \in Paths, AddBlock(p)
    PROVE  IInv'
<1>1. /\ UNCHANGED <<chain, state, undos, work, burned, txIndex, hist, poisoned>>
      /\ Idle /\ state \in Ledgers /\ chain \in Paths
  BY DEF AddBlock, liveVars, IInv, TypeOK
<1>2. Len(chain) \in Nat
  BY <1>1, PathFacts
<1>3. /\ job' \in Jobs /\ job'.op = "add" /\ job'.stage = "begin" /\ job'.log = <<>>
      /\ job'.fork = Len(chain) /\ job'.h = Len(chain) + 1
  <2>1. job' = [IdleJob EXCEPT !.op = "add", !.cand = p, !.fork = Len(chain),
                               !.h = Len(chain) + 1]
    BY DEF AddBlock
  <2>2. job' \in Jobs
    <3>1. Len(chain) + 1 \in Nat /\ "add" \in {"idle", "add", "reorg"}
      BY <1>2
    <3> HIDE DEF IdleJob
    <3>2. QED
      BY <1>2, <2>1, <3>1, IdleJobType, ZenonT(20) DEF Jobs
  <2>3. QED
    BY <2>1, <2>2 DEF IdleJob
<1>4. state = hist[Len(chain) + 1]
  BY <1>1 DEF IInv, Idle
<1>5. ApplyUndo(state, <<>>) = state
  BY <1>1, LedgerFacts, UndoOfNothing
<1>6. AddInv'
  BY <1>1, <1>3, <1>4, <1>5 DEF AddInv
<1>7. TypeOK'
  BY <1>1, <1>3 DEF IInv, TypeOK
<1>8. QED
  BY <1>1, <1>3, <1>6, <1>7 DEF IInv

\* The guards of reorgLocked, and its start on a copy, preserve the invariant.
LEMMA ReorgPreserves ==
    ASSUME IInv, Idle, NEW p \in Paths, NEW fork \in Nat,
           fork <= Len(chain), fork < Len(p), ReorgLocked(p, fork)
    PROVE  IInv'
<1>1. /\ UNCHANGED <<chain, state, undos, work, burned, txIndex, hist, poisoned>>
      /\ state \in Ledgers /\ chain \in Paths
  BY DEF ReorgLocked, liveVars, IInv, TypeOK
<1>2. Len(chain) \in Nat
  BY <1>1, PathFacts
<1>3. /\ job' \in Jobs /\ job'.op = "reorg" /\ job'.stage = "rollback"
      /\ job'.cand = p /\ job'.fork = fork /\ job'.h = Len(chain)
      /\ job'.clone = state /\ job'.log = <<>>
      /\ job'.newUndos = <<>> /\ job'.newHist = <<>>
  BY <1>1, <1>2, IdleJobType, ZenonT(20) DEF ReorgLocked, IdleJob, Jobs, Stages
<1>4. state = hist[Len(chain) + 1]
  BY DEF IInv, Idle
<1>5. RollbackInv'
  BY <1>1, <1>2, <1>3, <1>4 DEF RollbackInv
<1>6. ReorgInv'
  BY <1>1, <1>2, <1>3, <1>4, <1>5 DEF ReorgInv, ReorgLocked, FinalityAllows
<1>7. TypeOK'
  BY <1>1, <1>3 DEF IInv, TypeOK
<1>8. QED
  BY <1>1, <1>3, <1>6, <1>7 DEF IInv

\* Undoing the losing branch on the copy walks back through the live undo logs.
LEMMA RollbackPreserves ==
    ASSUME IInv, RollbackBlock
    PROVE  IInv'
<1>1. /\ UNCHANGED <<chain, state, undos, work, burned, txIndex, hist, poisoned>>
      /\ state \in Ledgers /\ chain \in Paths /\ job \in Jobs
      /\ undos \in Seq(Seq(Entry)) /\ hist \in Seq(Ledgers)
      /\ Len(undos) = Len(chain) /\ Len(hist) = Len(chain) + 1
  BY DEF RollbackBlock, liveVars, IInv, TypeOK
<1>2. /\ job.op = "reorg" /\ job.stage = "rollback" /\ ReorgInv /\ RollbackInv
      /\ job.h \in job.fork .. Len(chain) /\ job.fork \in Nat /\ job.h \in Nat
      /\ Len(chain) \in Nat /\ Len(job.cand) \in Nat
  BY <1>1, PathFacts DEF RollbackBlock, IInv, ReorgInv, RollbackInv, Jobs
<1>3. CASE job.h > job.fork
  <2>1. job' = [job EXCEPT !.clone = ApplyUndo(@, undos[job.h]), !.h = @ - 1]
    BY <1>3 DEF RollbackBlock
  <2>2. job.h \in 1 .. Len(chain)
    BY <1>2, <1>3
  <2>3. ApplyUndo(job.clone, undos[job.h]) = hist[job.h]
    BY <1>2, <2>2 DEF RollbackInv, IInv
  <2>4. hist[job.h] \in Ledgers /\ job.h - 1 \in Nat
    BY <1>1, <1>2, <2>2
  <2>5. /\ job' \in Jobs /\ job'.op = "reorg" /\ job'.stage = "rollback"
        /\ job'.cand = job.cand /\ job'.fork = job.fork /\ job'.h = job.h - 1
        /\ job'.clone = hist[job.h] /\ job'.log = job.log
        /\ job'.newUndos = job.newUndos /\ job'.newHist = job.newHist
    BY <1>1, <1>2, <2>1, <2>3, <2>4, ZenonT(20) DEF Jobs
  <2>6. RollbackInv'
    BY <1>1, <1>2, <1>3, <2>5, SMTT(40) DEF RollbackInv
  <2>7. ReorgInv'
    BY <1>1, <1>2, <2>5, <2>6 DEF ReorgInv, FinalityAllows
  <2>8. TypeOK'
    BY <1>1, <2>5, SMTT(40) DEF IInv, TypeOK
  <2>9. QED
    BY <1>1, <2>5, <2>7, <2>8 DEF IInv
<1>4. CASE ~(job.h > job.fork)
  <2>1. job' = [job EXCEPT !.stage = "begin", !.h = job.fork + 1]
    BY <1>4 DEF RollbackBlock
  <2>2. job.h = job.fork
    BY <1>2, <1>4
  <2>3. /\ job' \in Jobs /\ job'.op = "reorg" /\ job'.stage = "begin"
        /\ job'.cand = job.cand /\ job'.fork = job.fork /\ job'.h = job.fork + 1
        /\ job'.clone = hist[job.fork + 1] /\ job'.log = <<>>
        /\ job'.newUndos = <<>> /\ job'.newHist = <<>>
    <3>1. job.fork + 1 \in Nat /\ "begin" \in Stages
      BY <1>2 DEF Stages
    <3>2. /\ job.clone = hist[job.fork + 1] /\ job.log = <<>>
          /\ job.newUndos = <<>> /\ job.newHist = <<>>
      BY <1>2, <2>2 DEF RollbackInv
    <3>3. QED
      BY <1>1, <1>2, <2>1, <3>1, <3>2, ZenonT(20) DEF Jobs
  <2>4. ApplyUndo(job'.clone, job'.log) = hist[job.fork + 1]
    <3>1. job'.clone \in Ledgers
      BY <2>3 DEF Jobs
    <3>2. QED
      BY <2>3, <3>1, LedgerFacts, UndoOfNothing
  <2>5. SuffixInv'
    BY <1>1, <1>2, <2>3, <2>4, SMTT(40) DEF ReorgInv, SuffixInv, NewBase
  <2>6. ReorgInv'
    BY <1>1, <1>2, <2>3, <2>5, SMTT(40) DEF ReorgInv, FinalityAllows
  <2>7. TypeOK'
    BY <1>1, <2>3, SMTT(40) DEF IInv, TypeOK
  <2>8. QED
    BY <1>1, <2>3, <2>6, <2>7, SMTT(40) DEF IInv
<1>5. QED
  BY <1>3, <1>4

\* Starting a block opens an empty undo log.
LEMMA BeginPreserves ==
    ASSUME IInv, BeginBlock
    PROVE  IInv'
<1>1. ~Idle /\ job.stage = "begin" /\ job \in Jobs
  BY DEF BeginBlock, IInv, TypeOK
<1>2. CASE ~StructureOk
  BY <1>1, <1>2, AbortPreserves DEF BeginBlock
<1>3. CASE StructureOk
  <2>1. /\ UNCHANGED <<chain, state, undos, work, burned, txIndex, hist, poisoned>>
        /\ state \in Ledgers /\ chain \in Paths
    BY <1>3 DEF BeginBlock, liveVars, IInv, TypeOK
  <2>2. /\ job' \in Jobs /\ job'.op = job.op /\ job'.stage = "tx" /\ job'.cand = job.cand
        /\ job'.fork = job.fork /\ job'.h = job.h /\ job'.clone = job.clone
        /\ job'.log = <<>>
        /\ job'.newUndos = job.newUndos /\ job'.newHist = job.newHist
    <3>1. job' = [job EXCEPT !.stage = "tx", !.ti = 1, !.oi = 0, !.tips = 0,
                             !.burn = 0, !.log = <<>>]
      BY <1>3 DEF BeginBlock
    <3>2. "tx" \in Stages /\ 1 \in Nat \ {0} /\ 0 \in Nat /\ 0 \in Int /\ <<>> \in Seq(Entry)
      BY DEF Stages
    <3>3. QED
      BY <1>1, <3>1, <3>2, ZenonT(20) DEF Jobs
  <2>3. TypeOK'
    BY <2>1, <2>2 DEF IInv, TypeOK
  <2>4. Linked' /\ (job.op = "add" => Len(job.cand) = job.h)
    BY <1>3, <2>1, <2>2, ZenonT(20) DEF StructureOk, Linked
  <2>5. CASE job.op = "add"
    <3>1. job.log = <<>>
      BY <1>1, <2>5 DEF IInv, AddInv
    <3>2. AddInv'
      BY <1>1, <2>1, <2>2, <2>4, <2>5, <3>1 DEF IInv, AddInv
    <3>3. QED
      BY <2>1, <2>2, <2>3, <2>5, <3>2, SMTT(40) DEF IInv
  <2>6. CASE job.op = "reorg"
    <3>1. ReorgInv /\ SuffixInv /\ job.log = <<>>
      BY <1>1, <2>6, SMTT(40) DEF IInv, ReorgInv, SuffixInv
    <3>2. SuffixInv'
      BY <1>1, <2>1, <2>2, <2>4, <3>1, SMTT(40) DEF SuffixInv, NewBase
    <3>3. ReorgInv'
      BY <2>1, <2>2, <3>1, <3>2, SMTT(40) DEF ReorgInv, FinalityAllows
    <3>4. QED
      BY <2>1, <2>2, <2>3, <2>6, <3>3, SMTT(40) DEF IInv
  <2>7. QED
    BY <1>1, <2>5, <2>6 DEF Jobs, Idle
<1>4. QED
  BY <1>2, <1>3
-----------------------------------------------------------------------------
(* Committing.                                                             *)

\* A kept prefix followed by a new suffix.
Spliced(s, k, t) == SubSeq(s, 1, k) \o t

\* The length and the elements of a spliced sequence.
LEMMA SpliceFacts ==
    ASSUME NEW S, NEW s \in Seq(S), NEW t \in Seq(S), NEW k \in Nat, k <= Len(s)
    PROVE  /\ Spliced(s, k, t) \in Seq(S)
           /\ Len(Spliced(s, k, t)) = k + Len(t)
           /\ \A i \in 1 .. k : Spliced(s, k, t)[i] = s[i]
           /\ \A i \in 1 .. Len(t) : Spliced(s, k, t)[k + i] = t[i]
<1>1. /\ SubSeq(s, 1, k) \in Seq(S) /\ Len(SubSeq(s, 1, k)) = k
      /\ \A i \in 1 .. k : SubSeq(s, 1, k)[i] = s[i]
  OBVIOUS
<1> DEFINE p == SubSeq(s, 1, k)
<1> HIDE DEF p
<1>2. /\ p \o t \in Seq(S) /\ Len(p \o t) = k + Len(t)
      /\ \A i \in 1 .. k : (p \o t)[i] = p[i]
      /\ \A i \in 1 .. Len(t) : (p \o t)[k + i] = t[i]
  BY <1>1 DEF p
<1>3. QED
  BY <1>1, <1>2 DEF p, Spliced

\* The type and length of a spliced sequence.
LEMMA SpliceType ==
    ASSUME NEW S, NEW s \in Seq(S), NEW t \in Seq(S), NEW k \in Nat, k <= Len(s)
    PROVE  Spliced(s, k, t) \in Seq(S) /\ Len(Spliced(s, k, t)) = k + Len(t)
BY SpliceFacts, Zenon

\* A spliced sequence agrees with the old one up to the fork.
LEMMA SpliceKept ==
    ASSUME NEW S, NEW s \in Seq(S), NEW t \in Seq(S), NEW k \in Nat, k <= Len(s),
           NEW i \in 1 .. k
    PROVE  Spliced(s, k, t)[i] = s[i]
<1>1. /\ SubSeq(s, 1, k) \in Seq(S) /\ Len(SubSeq(s, 1, k)) = k
      /\ SubSeq(s, 1, k)[i] = s[i]
  OBVIOUS
<1>2. ASSUME NEW p \in Seq(S), Len(p) = k
      PROVE  (p \o t)[i] = p[i]
  BY <1>2
<1>3. QED
  BY <1>1, <1>2, ZenonT(20) DEF Spliced

\* Beyond the fork a spliced sequence is the new suffix.
LEMMA SpliceNew ==
    ASSUME NEW S, NEW s \in Seq(S), NEW t \in Seq(S), NEW k \in Nat, k <= Len(s),
           NEW i \in 1 .. Len(t)
    PROVE  Spliced(s, k, t)[k + i] = t[i]
<1>1. SubSeq(s, 1, k) \in Seq(S) /\ Len(SubSeq(s, 1, k)) = k
  OBVIOUS
<1>2. ASSUME NEW p \in Seq(S), Len(p) = k
      PROVE  (p \o t)[k + i] = t[i]
  BY <1>2
<1>3. QED
  BY <1>1, <1>2, ZenonT(20) DEF Spliced

\* Committing an added block appends its exact undo log.
LEMMA CommitAddPreserves ==
    ASSUME IInv, CommitAdd
    PROVE  IInv'
<1>1. /\ job \in Jobs /\ chain \in Paths /\ state \in Ledgers
      /\ undos \in Seq(Seq(Entry)) /\ hist \in Seq(Ledgers)
      /\ Len(undos) = Len(chain) /\ Len(hist) = Len(chain) + 1
      /\ job.op = "add" /\ AddInv /\ Len(chain) \in Nat
  BY PathFacts DEF IInv, TypeOK, CommitAdd
<1>2. /\ chain' = Append(chain, Block) /\ undos' = Append(undos, job.log)
      /\ hist' = Append(hist, state) /\ job' = IdleJob
      /\ state' = state /\ poisoned' = poisoned
  BY DEF CommitAdd
<1>3. chain' = job.cand
  <2>1. /\ Len(job.cand) = Len(chain) + 1 /\ job.h = Len(chain) + 1
        /\ SubSeq(job.cand, 1, Len(chain)) = SubSeq(chain, 1, Len(chain))
    BY <1>1, SMTT(40) DEF AddInv, Linked, CommitAdd
  <2>2. chain \in Seq(Bodies) /\ job.cand \in Seq(Bodies) /\ job.cand \in Paths
    BY <1>1, PathFacts DEF Jobs
  <2>3. \A i \in 1 .. Len(chain) : job.cand[i] = chain[i]
    <3>1. TAKE i \in 1 .. Len(chain)
    <3>2. SubSeq(job.cand, 1, Len(chain))[i] = job.cand[i]
      BY <1>1, <2>1, <2>2
    <3>3. SubSeq(chain, 1, Len(chain))[i] = chain[i]
      BY <1>1, <2>2
    <3>4. QED
      BY <2>1, <3>2, <3>3
  <2>4. Append(chain, job.cand[Len(chain) + 1]) = job.cand
    <3>1. DOMAIN job.cand = 1 .. Len(chain) + 1
      BY <2>1, <2>2
    <3>2. job.cand[Len(chain) + 1] \in Bodies
      BY <1>1, <2>2, <3>1
    <3>3. QED
      BY <1>1, <2>1, <2>2, <2>3, <3>2
  <2>5. QED
    BY <1>2, <2>1, <2>4 DEF Block
<1>4. /\ Len(chain') = Len(chain) + 1 /\ Len(undos') = Len(chain) + 1
      /\ Len(hist') = Len(chain) + 2
      /\ undos'[Len(chain) + 1] = job.log /\ hist'[Len(chain) + 2] = state
      /\ \A i \in 1 .. Len(chain) : undos'[i] = undos[i]
      /\ \A i \in 1 .. Len(chain) + 1 : hist'[i] = hist[i]
  BY <1>1, <1>2, <1>3, PathFacts, SMTT(40) DEF AddInv, CommitAdd
<1>5. TypeOK'
  <2>1. job.cand \in Paths /\ job.log \in Seq(Entry)
    BY <1>1 DEF Jobs
  <2>2. QED
    BY <1>1, <1>2, <1>3, <2>1, IdleJobType DEF IInv, TypeOK
<1>6. \A i \in 1 .. Len(chain') : ApplyUndo(hist'[i + 1], undos'[i]) = hist'[i]
  <2>1. SUFFICES ASSUME NEW i \in 1 .. Len(chain) + 1
                 PROVE  ApplyUndo(hist'[i + 1], undos'[i]) = hist'[i]
    BY <1>4
  <2>2. CASE i = Len(chain) + 1
    BY <1>1, <1>4, <2>2, SMTT(40) DEF AddInv
  <2>3. CASE i \in 1 .. Len(chain)
    <3>1. ApplyUndo(hist[i + 1], undos[i]) = hist[i]
      BY <2>3 DEF IInv
    <3>2. hist'[i + 1] = hist[i + 1] /\ undos'[i] = undos[i] /\ hist'[i] = hist[i]
      BY <1>1, <1>4, <2>3
    <3>3. QED
      BY <3>1, <3>2
  <2>4. QED
    BY <1>1, <2>2, <2>3
<1>7. hist'[1] = EmptyLedger
  BY <1>1, <1>4, SMTT(40) DEF IInv
<1>8. state' = hist'[Len(chain') + 1] /\ job'.op = "idle"
  BY <1>1, <1>2, <1>4, SMTT(40) DEF IdleJob
<1>9. Len(undos') = Len(chain') /\ Len(hist') = Len(chain') + 1
  BY <1>1, <1>4, SMTT(40)
<1>10. QED
  BY <1>5, <1>6, <1>7, <1>8, <1>9 DEF IInv

\* Committing a reorg keeps the undo logs below the fork and appends those built on
\* the copy.
LEMMA CommitReorgPreserves ==
    ASSUME IInv, CommitReorg
    PROVE  IInv'
<1>1. /\ job \in Jobs /\ chain \in Paths /\ state \in Ledgers
      /\ undos \in Seq(Seq(Entry)) /\ hist \in Seq(Ledgers)
      /\ Len(undos) = Len(chain) /\ Len(hist) = Len(chain) + 1
      /\ job.op = "reorg" /\ ReorgInv /\ SuffixInv /\ Len(chain) \in Nat
  BY PathFacts, SMTT(40) DEF IInv, TypeOK, CommitReorg, ReorgInv
<1>2. /\ chain' = job.cand /\ undos' = SubSeq(undos, 1, job.fork) \o job.newUndos
      /\ hist' = SubSeq(hist, 1, job.fork + 1) \o job.newHist /\ job' = IdleJob
      /\ state' = job.clone /\ poisoned' = poisoned
  BY DEF CommitReorg
<1>3. SUFFICES ASSUME NEW f \in Nat, NEW g \in Nat, NEW n \in Nat,
                      f = job.fork, g = f + 1, Len(job.cand) = job.fork + n
               PROVE  IInv'
  <2>1. job.fork \in Nat /\ job.cand \in Paths
    BY <1>1 DEF Jobs
  <2>2. Len(job.cand) \in Nat
    BY <2>1, PathFacts, SMTT(40)
  <2>3. job.fork < Len(job.cand)
    BY <1>1 DEF ReorgInv
  <2>4. PICK n \in Nat : Len(job.cand) = job.fork + n
    <3>1. Len(job.cand) - job.fork \in Nat
      BY <2>1, <2>2, <2>3
    <3>2. Len(job.cand) = job.fork + (Len(job.cand) - job.fork)
      BY <2>1, <2>2
    <3>3. QED
      BY <3>1, <3>2
  <2>5. job.fork + 1 \in Nat
    BY <2>1
  <2>6. QED
    BY <2>1, <2>4, <2>5, ZenonT(20)
<1>4. /\ f <= Len(chain) /\ job.h = f + n + 1 /\ n > 0
      /\ job.newUndos \in Seq(Seq(Entry)) /\ job.newHist \in Seq(Ledgers)
      /\ Len(job.newUndos) = n /\ Len(job.newHist) = n /\ Len(job.cand) = f + n
  <2>1. job.cand \in Paths /\ job.h \in Nat /\ Len(job.cand) \in Nat
    BY <1>1, PathFacts, SMTT(40) DEF Jobs
  <2>2. job.h = Len(job.cand) + 1
    BY <1>1, SMTT(40) DEF SuffixInv, CommitReorg
  <2>3. job.fork <= Len(chain) /\ job.fork < Len(job.cand)
    BY <1>1 DEF ReorgInv
  <2>4. /\ Len(job.newUndos) = job.h - job.fork - 1
        /\ Len(job.newHist) = job.h - job.fork - 1
    BY <1>1 DEF SuffixInv
  <2>5. job.newUndos \in Seq(Seq(Entry)) /\ job.newHist \in Seq(Ledgers)
    BY <1>1 DEF Jobs
  <2>6. f <= Len(chain)
    BY <1>3, <2>3
  <2>7. job.h = f + n + 1 
    BY <1>3, <2>1, <2>2, <2>3
  <2>8. n > 0
    BY <1>3, <2>1, <2>2, <2>3
  <2>9. Len(job.newUndos) = n /\ Len(job.newHist) = n /\ Len(job.cand) = f + n
    BY <1>3, <2>1, <2>2, <2>4, SMTT(40)
  <2>10. QED
    BY <2>5, <2>6, <2>7, <2>8, <2>9
<1>5. /\ undos' \in Seq(Seq(Entry)) /\ Len(undos') = f + n
      /\ \A i \in 1 .. f : undos'[i] = undos[i]
      /\ \A i \in 1 .. n : undos'[f + i] = job.newUndos[i]
  <2>1. f <= Len(undos)
    BY <1>1, <1>4
  <2> DEFINE u == Spliced(undos, f, job.newUndos)
  <2>2. /\ u \in Seq(Seq(Entry)) /\ Len(u) = f + Len(job.newUndos)
        /\ \A i \in 1 .. f : u[i] = undos[i]
        /\ \A i \in 1 .. Len(job.newUndos) : u[f + i] = job.newUndos[i]
    <3>1. undos \in Seq(Seq(Entry)) /\ job.newUndos \in Seq(Seq(Entry))
      BY <1>1, <1>4
    <3>2. u \in Seq(Seq(Entry)) /\ Len(u) = f + Len(job.newUndos)
      BY <2>1, <3>1, SpliceType, ZenonT(20)
    <3>3. ASSUME NEW i \in 1 .. f PROVE u[i] = undos[i]
      BY <2>1, <3>1, SpliceKept
    <3>4. ASSUME NEW i \in 1 .. Len(job.newUndos) PROVE u[f + i] = job.newUndos[i]
      BY <2>1, <3>1, SpliceNew
    <3>5. QED
      BY <3>2, <3>3, <3>4
  <2>3. undos' = u
    BY <1>2, <1>3 DEF Spliced
  <2> HIDE DEF u
  <2>4. Len(job.newUndos) = n
    BY <1>4
  <2>5. QED
    BY <2>2, <2>3, <2>4
<1>6. /\ hist' \in Seq(Ledgers) /\ Len(hist') = f + n + 1
      /\ \A i \in 1 .. f + 1 : hist'[i] = hist[i]
      /\ \A i \in 1 .. n : hist'[f + 1 + i] = job.newHist[i]
  <2>1. g <= Len(hist)
    BY <1>1, <1>3, <1>4, SMTT(40)
  <2> DEFINE u == Spliced(hist, g, job.newHist)
  <2>2. /\ u \in Seq(Ledgers) /\ Len(u) = g + Len(job.newHist)
        /\ \A i \in 1 .. g : u[i] = hist[i]
        /\ \A i \in 1 .. Len(job.newHist) : u[g + i] = job.newHist[i]
    <3>1. hist \in Seq(Ledgers) /\ job.newHist \in Seq(Ledgers)
      BY <1>1, <1>4
    <3>2. u \in Seq(Ledgers) /\ Len(u) = g + Len(job.newHist)
      BY <2>1, <3>1, SpliceType, SMTT(40)
    <3>3. ASSUME NEW i \in 1 .. g PROVE u[i] = hist[i]
      BY <2>1, <3>1, SpliceKept
    <3>4. ASSUME NEW i \in 1 .. Len(job.newHist) PROVE u[g + i] = job.newHist[i]
      BY <2>1, <3>1, SpliceNew
    <3>5. QED
      BY <3>2, <3>3, <3>4
  <2>3. hist' = u
    BY <1>2, <1>3 DEF Spliced
  <2> HIDE DEF u
  <2>4. Len(job.newHist) = n /\ g = f + 1
    BY <1>3, <1>4
  <2>5. Len(hist') = g + n /\ hist' \in Seq(Ledgers)
    BY <2>2, <2>3, <2>4
  <2>6. Len(hist') = f + n + 1
    BY <2>4, <2>5
  <2>7. \A i \in 1 .. g : hist'[i] = hist[i]
    BY <2>2, <2>3
  <2>8. \A i \in 1 .. n : hist'[g + i] = job.newHist[i]
    BY <2>2, <2>3, <2>4
  <2>9. QED
    BY <2>4, <2>5, <2>6, <2>7, <2>8
<1>7. TypeOK'
  <2>1. job.cand \in Paths /\ job.clone \in Ledgers
    BY <1>1 DEF Jobs
  <2>2. QED
    BY <1>1, <1>2, <1>5, <1>6, <2>1, IdleJobType, SMTT(40) DEF IInv, TypeOK
<1>8. \A k \in 0 .. n : NewBase(k) = hist'[f + 1 + k]
  <2>1. TAKE k \in 0 .. n
  <2>2. CASE k = 0
    <3>1. f + 1 + k = f + 1 /\ f + 1 \in 1 .. f + 1
      BY <2>2
    <3>2. hist'[f + 1 + k] = hist[f + 1]
      BY <1>6, <3>1
    <3>3. QED
      BY <1>3, <2>2, <3>2 DEF NewBase
  <2>3. CASE k \in 1 .. n
    BY <1>3, <1>6, <2>3 DEF NewBase
  <2>4. QED
    BY <1>3, <2>2, <2>3
<1>9. \A i \in 1 .. Len(chain') : ApplyUndo(hist'[i + 1], undos'[i]) = hist'[i]
  <2>1. SUFFICES ASSUME NEW i \in 1 .. f + n
                 PROVE  ApplyUndo(hist'[i + 1], undos'[i]) = hist'[i]
    BY <1>2, <1>4, ZenonT(20)
  <2>2. CASE i \in 1 .. f
    <3>1. ApplyUndo(hist[i + 1], undos[i]) = hist[i]
      BY <1>1, <1>4, <2>2, SMTT(40) DEF IInv
    <3>2. hist'[i + 1] = hist[i + 1] /\ undos'[i] = undos[i] /\ hist'[i] = hist[i]
      <4>1. i \in 1 .. f + 1 /\ i + 1 \in 1 .. f + 1
        BY <2>2
      <4>2. QED
        BY <1>5, <1>6, <2>2, <4>1, SMTT(40)
    <3>3. QED
      BY <3>1, <3>2
  <2>3. CASE i \notin 1 .. f
    <3>1. PICK k \in 1 .. n : i = f + k
      <4>1. i - f \in 1 .. n /\ i = f + (i - f)
        BY <1>3, <2>3
      <4>2. QED
        BY <4>1
    <3>2. ApplyUndo(job.newHist[k], job.newUndos[k]) = NewBase(k - 1)
      BY <1>1, <1>3, <1>4, <3>1, ZenonT(20) DEF SuffixInv
    <3>3. undos'[i] = job.newUndos[k] /\ hist'[i + 1] = job.newHist[k]
      <4>1. i + 1 = f + 1 + k
        BY <1>3, <3>1, SMTT(40)
      <4>2. QED
        BY <1>3, <1>5, <1>6, <3>1, <4>1, ZenonT(20)
    <3>4. NewBase(k - 1) = hist'[i]
      <4>1. k - 1 \in 0 .. n /\ f + 1 + (k - 1) = i
        BY <1>3, <3>1
      <4>2. QED
        BY <1>8, <4>1
    <3>5. QED
      BY <3>2, <3>3, <3>4
  <2>4. QED
    BY <2>2, <2>3
<1>10. state' = hist'[Len(chain') + 1]
  <2>1. job.log = <<>> /\ job.clone \in Ledgers
    BY <1>1, SMTT(40) DEF SuffixInv, CommitReorg, Jobs
  <2>2. job.clone = NewBase(job.h - job.fork - 1)
    BY <1>1, <2>1, LedgerFacts, UndoOfNothing, SMTT(40) DEF SuffixInv
  <2>3. job.h - job.fork - 1 = n
    BY <1>3, <1>4, SMTT(40)
  <2>4. n \in 0 .. n /\ Len(chain') + 1 = f + 1 + n
    BY <1>2, <1>3, <1>4, SMTT(40)
  <2>5. QED
    BY <1>2, <1>8, <2>2, <2>3, <2>4, ZenonT(20)
<1>11. hist'[1] = EmptyLedger
  <2>1. 1 \in 1 .. f + 1
    OBVIOUS
  <2>2. QED
    BY <1>6, <2>1, SMTT(40) DEF IInv
<1>12. /\ Len(undos') = Len(chain') /\ Len(hist') = Len(chain') + 1
       /\ job'.op = "idle"
  BY <1>2, <1>4, <1>5, <1>6, ZenonT(20) DEF IdleJob
<1>13. QED
  BY <1>7, <1>9, <1>10, <1>11, <1>12, SMTT(40) DEF IInv

\* A reorg whose store write fails drops the copy and leaves the live chain alone.
LEMMA PersistReorgFailsPreserves ==
    ASSUME IInv, PersistReorgFails
    PROVE  IInv'
<1>1. /\ UNCHANGED <<chain, state, undos, work, burned, txIndex, hist>>
      /\ poisoned' = TRUE /\ job' = IdleJob /\ job.op = "reorg"
  BY DEF PersistReorgFails, liveVars
<1>2. state = hist[Len(chain) + 1]
  BY <1>1 DEF IInv, ReorgInv
<1>3. job'.op = "idle"
  BY <1>1 DEF IdleJob
<1>4. TypeOK'
  BY <1>1, IdleJobType DEF IInv, TypeOK
<1>5. QED
  BY <1>1, <1>2, <1>3, <1>4 DEF IInv

\* ReplaceChain is a reorg from the common prefix.
LEMMA ReplacePreserves ==
    ASSUME IInv, NEW p \in Paths, ReplaceChain(p)
    PROVE  IInv'
<1> DEFINE stops == {n \in 0 .. Len(chain) :
                        n = Len(chain) \/ n >= Len(p) \/ p[n + 1] # chain[n + 1]}
<1>1. Len(chain) \in Nat
  BY PathFacts DEF IInv, TypeOK
<1>2. stops \in SUBSET Nat /\ stops # {}
  <2>1. Len(chain) \in stops
    BY <1>1
  <2>2. QED
    BY <1>1, <2>1
<1>3. CommonPrefix(p) \in stops
  <2> HIDE DEF stops
  <2>1. First(stops) \in stops
    BY <1>2, FirstIsLeast
  <2>2. QED
    BY <2>1 DEF CommonPrefix, stops
<1>4. CommonPrefix(p) \in Nat /\ CommonPrefix(p) <= Len(chain)
  BY <1>1, <1>3
<1>5. Idle /\ CommonPrefix(p) < Len(p) /\ ReorgLocked(p, CommonPrefix(p))
  BY DEF ReplaceChain
<1> HIDE DEF stops
<1>6. QED
  BY <1>4, <1>5, ReorgPreserves

\* The genesis ledger satisfies the inductive invariant.
LEMMA InitHolds == Init => IInv
<1>1. SUFFICES ASSUME Init PROVE IInv
  OBVIOUS
<1>2. /\ chain = <<>> /\ state = EmptyLedger /\ undos = <<>> /\ hist = <<EmptyLedger>>
      /\ poisoned = FALSE /\ job = IdleJob
  BY <1>1 DEF Init
<1>3. EmptyLedger \in Ledgers
  BY DEF EmptyLedger, Ledgers
<1>4. chain \in Paths
  BY <1>2, IdleJobType, SMTT(40) DEF Jobs, IdleJob
<1>5. TypeOK
  <2>1. <<>> \in Seq(Seq(Entry)) /\ FALSE \in BOOLEAN
    OBVIOUS
  <2>2. hist \in Seq(Ledgers)
    BY <1>2, <1>3
  <2>3. QED
    BY <1>2, <1>3, <1>4, <2>1, <2>2, IdleJobType, ZenonT(20) DEF TypeOK
<1>6. Len(undos) = Len(chain) /\ Len(hist) = Len(chain) + 1 /\ hist[1] = EmptyLedger
  BY <1>2
<1>7. \A i \in 1 .. Len(chain) : ApplyUndo(hist[i + 1], undos[i]) = hist[i]
  BY <1>2
<1>8. job.op = "idle" /\ state = hist[Len(chain) + 1]
  BY <1>2, SMTT(40) DEF IdleJob
<1>9. QED
  BY <1>5, <1>6, <1>7, <1>8 DEF IInv

\* Every step preserves the inductive invariant.
LEMMA StepHolds == IInv /\ [Next]_vars => IInv'
<1>1. SUFFICES ASSUME IInv, [Next]_vars PROVE IInv'
  BY SMTT(40)
<1>2. CASE UNCHANGED vars
  BY <1>1, <1>2, ZenonT(20) DEF vars, IInv, TypeOK, AddInv, ReorgInv, RollbackInv, SuffixInv, Linked,
                    NewBase, FinalityAllows
<1>3. ASSUME NEW p \in Paths, AddBlock(p) PROVE IInv'
  BY <1>1, <1>3, AddPreserves
<1>4. ASSUME NEW p \in Paths, ReplaceChain(p) PROVE IInv'
  BY <1>1, <1>4, ReplacePreserves
<1>5. ASSUME NEW p \in Paths, NEW fork \in 0 .. MaxHeight, ReorgFrom(p, fork) PROVE IInv'
  <2>1. fork \in Nat
    BY ChainAssumption
  <2>2. Idle /\ fork < Len(p) /\ fork <= Len(chain) /\ ReorgLocked(p, fork)
    BY <1>5 DEF ReorgFrom
  <2>3. QED
    BY <1>1, <2>1, <2>2, ReorgPreserves
<1>6. CASE RollbackBlock
  BY <1>1, <1>6, RollbackPreserves
<1>7. CASE BeginBlock
  BY <1>1, <1>7, BeginPreserves
<1>8. CASE DebitTx
  BY <1>1, <1>8, DebitPreserves
<1>9. CASE CreditOutput
  BY <1>1, <1>9, CreditPreserves
<1>10. CASE FinishTx
  BY <1>1, <1>10, FinishPreserves
<1>11. CASE PayCoinbase
  BY <1>1, <1>11, CoinbasePreserves
<1>12. CASE CommitAdd
  BY <1>1, <1>12, CommitAddPreserves
<1>13. CASE PersistAddFails
  <2>1. ~Idle /\ Abort
    BY <1>13 DEF PersistAddFails, Idle
  <2>2. QED
    BY <1>1, <2>1, AbortPreserves
<1>14. CASE CommitReorg
  BY <1>1, <1>14, CommitReorgPreserves
<1>15. CASE PersistReorgFails
  BY <1>1, <1>15, PersistReorgFailsPreserves
<1>16. QED
  BY <1>1, <1>2, <1>3, <1>4, <1>5, <1>6, <1>7, <1>8, <1>9, <1>10, <1>11, <1>12, <1>13,
     <1>14, <1>15 DEF Next

\* IInv is an invariant: between any two steps of AddBlock and of a reorg the log
\* under construction, undone, gives back the ledger it started from.
THEOREM Invariance == Spec => []IInv
<1>1. Init => IInv
  BY InitHolds
<1>2. IInv /\ [Next]_vars => IInv'
  BY StepHolds
<1>3. QED
  BY <1>1, <1>2, PTL DEF Spec

\* The chain model is well typed: whatever blocks and suffixes arrive, in whatever
\* order, no balance or nonce ever leaves the naturals (the uint64 subtractions
\* of applyTxTo and chargeSponsor never wrap) and every path stays in range.
THEOREM ChainTypeOK == Spec => []TypeOK
<1>1. IInv => TypeOK
  BY DEF IInv
<1>2. QED
  BY <1>1, Invariance, PTL

\* The undo logs of applyTxsAndCoinbase are exact after any history of blocks,
\* reorgs and failed operations, for every set of accounts and block bodies.
THEOREM ChainUndoExact == Spec => []UndoExact
<1>1. IInv => UndoExact
  <2>1. SUFFICES ASSUME IInv PROVE UndoExact
    OBVIOUS
  <2>2. job.op \in {"idle", "add", "reorg"}
    BY <2>1 DEF IInv, TypeOK, Jobs
  <2>3. QED
    BY <2>1, <2>2, SMTT(40) DEF IInv, UndoExact, AddInv, ReorgInv
<1>2. QED
  BY <1>1, Invariance, PTL
-----------------------------------------------------------------------------
(* Finality.                                                               *)

\* Only a commit moves the chain.
LEMMA ChainMoves ==
    ASSUME [Next]_vars, ~CommitAdd, ~CommitReorg
    PROVE  chain' = chain
BY ZenonT(20) DEF Next, vars, liveVars, AddBlock, ReorgFrom, ReplaceChain, ReorgLocked, RollbackBlock,
       BeginBlock, DebitTx, CreditOutput, FinishTx, PayCoinbase, PersistAddFails,
       PersistReorgFails, Abort

\* Two paths that agree up to k agree up to any n <= k.
LEMMA PrefixShrinks ==
    ASSUME NEW p \in Paths, NEW q \in Paths, NEW k \in Nat, NEW n \in 0 .. k,
           k <= Len(p), k <= Len(q), SubSeq(p, 1, k) = SubSeq(q, 1, k)
    PROVE  SubSeq(p, 1, n) = SubSeq(q, 1, n)
<1>1. p \in Seq(Bodies) /\ q \in Seq(Bodies) /\ Len(p) \in Nat /\ Len(q) \in Nat
  BY PathFacts
<1>2. ASSUME NEW i \in 1 .. n PROVE p[i] = q[i]
  <2>1. i \in 1 .. k
    OBVIOUS
  <2>2. SubSeq(p, 1, k)[i] = p[i] /\ SubSeq(q, 1, k)[i] = q[i]
    BY <1>1, <2>1
  <2>3. QED
    BY <2>2
<1>3. QED
  BY <1>1, <1>2

\* A commit keeps the chain up to the fork it was started with.
LEMMA CommitKeeps ==
    ASSUME IInv, IInv', [Next]_vars, NEW n \in 0 .. Len(chain),
           n <= Checkpoint \/ n <= Len(chain) - MaxReorgDepth
    PROVE  Len(chain') >= n /\ SubSeq(chain', 1, n) = SubSeq(chain, 1, n)
<1>1. /\ chain \in Paths /\ chain' \in Paths /\ job \in Jobs
      /\ Len(chain) \in Nat /\ Len(chain') \in Nat
  BY PathFacts, SMTT(40) DEF IInv, TypeOK
<1>2. CASE ~CommitAdd /\ ~CommitReorg
  BY <1>1, <1>2, ChainMoves
<1>3. CASE CommitAdd
  <2>1. chain' = Append(chain, Block) /\ chain \in Seq(Bodies)
    BY <1>1, <1>3, PathFacts, SMTT(40) DEF CommitAdd
  <2>2. Len(chain') = Len(chain) + 1
    BY <2>1
  <2>3. SubSeq(chain', 1, Len(chain)) = SubSeq(chain, 1, Len(chain))
    BY <1>1, <2>1, <2>2
  <2>4. Len(chain) <= Len(chain') /\ Len(chain) <= Len(chain) /\ n <= Len(chain')
    BY <1>1, <2>2
  <2>5. SubSeq(chain', 1, n) = SubSeq(chain, 1, n)
    BY <1>1, <2>3, <2>4, PrefixShrinks
  <2>6. QED
    BY <1>1, <2>4, <2>5
<1>4. CASE CommitReorg
  <2>1. /\ chain' = job.cand /\ Linked /\ FinalityAllows(job.fork)
        /\ job.fork < Len(job.cand) /\ job.fork <= Len(chain) /\ job.fork \in Nat
    BY <1>1, <1>4, ZenonT(20) DEF CommitReorg, IInv, ReorgInv, SuffixInv, Jobs
  <2>2. n <= job.fork
    BY <1>1, <2>1, ChainAssumption, SMTT(40) DEF FinalityAllows
  <2>3. n \in 0 .. job.fork /\ job.fork <= Len(chain')
    BY <1>1, <2>1, <2>2
  <2>4. SubSeq(chain', 1, n) = SubSeq(chain, 1, n)
    BY <1>1, <2>1, <2>3, PrefixShrinks, SMTT(40) DEF Linked
  <2>5. Len(chain') >= n
    BY <1>1, <2>1, <2>2
  <2>6. QED
    BY <2>4, <2>5
<1>5. QED
  BY <1>2, <1>3, <1>4

\* No step - a reorg committed after any number of others included - discards a
\* block at or below the last checkpoint, or more than MaxReorgDepth blocks.
THEOREM ChainFinality == Spec => FinalityHolds
<1>1. IInv /\ IInv' /\ [Next]_vars =>
        [\A n \in 0 .. Len(chain) :
           (n <= Checkpoint \/ n <= Len(chain) - MaxReorgDepth)
              => Len(chain') >= n /\ SubSeq(chain', 1, n) = SubSeq(chain, 1, n)]_vars
  BY CommitKeeps
<1>2. QED
  BY <1>1, Invariance, PTL DEF Spec, FinalityHolds
=============================================================================
