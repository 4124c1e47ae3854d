--------------------------- MODULE ChainRefinement ---------------------------
(***************************************************************************)
(* Chain implements AbstractChain, for every set of accounts, bodies and   *)
(* parameters.  The mapping shows, while AddBlock is writing the live      *)
(* ledger in place, the ledger its undo log leads back to.                 *)
(***************************************************************************)
EXTENDS ChainProofs

\* What the mapping needs beside IInv: the work is a number, and the chain that a
\* reorg is connecting still beats the live one, which bc.mu keeps from moving.
RInv ==
    /\ work \in Nat
    /\ job.op = "reorg" => Wins(job.cand, job.fork)

\* What readers see is the ledger the last committed block left.
LEMMA VisibleIsCommitted ==
    IInv => Visible = hist[Len(chain) + 1] /\ Visible \in Ledgers
<1> SUFFICES ASSUME IInv PROVE Visible = hist[Len(chain) + 1] /\ Visible \in Ledgers
  OBVIOUS
<1>1. job.op \in {"idle", "add", "reorg"} /\ hist \in Seq(Ledgers) /\ chain \in Paths
  BY DEF IInv, TypeOK, Jobs
<1>2. Len(chain) \in Nat /\ Len(hist) = Len(chain) + 1
  BY <1>1, PathFacts DEF IInv
<1>3. Visible = hist[Len(chain) + 1]
  BY <1>1, SMTT(40) DEF IInv, Visible, AddInv, ReorgInv
<1>4. QED
  BY <1>1, <1>2, <1>3

\* A sequence no longer than MaxHeight is a path.
LEMMA SeqIsPath ==
    ASSUME NEW s \in Seq(Bodies), Len(s) \in 0 .. MaxHeight
    PROVE  s \in Paths
<1>1. s \in [1 .. Len(s) -> Bodies]
  OBVIOUS
<1>2. QED
  BY <1>1 DEF Paths

\* The pieces of a path are paths.
LEMMA SubPath ==
    ASSUME NEW p \in Paths, NEW i \in Nat \ {0}, NEW j \in 0 .. Len(p)
    PROVE  SubSeq(p, i, j) \in Paths
<1>1. p \in Seq(Bodies) /\ Len(p) \in 0 .. MaxHeight /\ Len(p) \in Nat /\ MaxHeight \in Nat
  BY PathFacts, ChainAssumption
<1>2. SubSeq(p, i, j) \in Seq(Bodies) /\ Len(SubSeq(p, i, j)) \in 0 .. MaxHeight
  BY <1>1
<1>3. QED
  BY <1>2, SeqIsPath

\* The work a reorg would end with is a number.
LEMMA CandWorkType ==
    ASSUME chain \in Paths, NEW p \in Paths, NEW fork \in Nat, fork <= Len(chain), fork < Len(p)
    PROVE  CandWork(p, fork) \in Nat
<1>1. Len(chain) \in Nat /\ Len(p) \in Nat
  BY PathFacts
<1>2. SubSeq(chain, 1, fork) \in Paths /\ SubSeq(p, fork + 1, Len(p)) \in Paths
  BY <1>1, SubPath
<1>3. QED
  BY <1>2, SumAssumption DEF CandWork

\* A step that is no commit leaves tip, ledger history and work alone.
LEMMA OnlyCommitsMove ==
    ASSUME [Next]_vars, ~CommitAdd, ~CommitReorg
    PROVE  chain' = chain /\ hist' = hist /\ work' = work
BY ZenonT(20) DEF Next, vars, liveVars, AddBlock, ReorgFrom, ReplaceChain, ReorgLocked, RollbackBlock,
       BeginBlock, DebitTx, CreditOutput, FinishTx, PayCoinbase, PersistAddFails,
       PersistReorgFails, Abort

\* The fields that say which operation is running.
SameOperation == job'.op = job.op /\ job'.cand = job.cand /\ job'.fork = job.fork

\* An operation under way keeps its kind, candidate and fork until it ends.
LEMMA StepsKeepOperation ==
    ASSUME IInv, [Next]_vars, ~Idle, job' # IdleJob
    PROVE  SameOperation
<1>1. job \in Jobs
  BY DEF IInv, TypeOK
<1>2. CASE UNCHANGED vars
  BY <1>2 DEF vars, SameOperation
<1>3. CASE RollbackBlock
  BY <1>1, <1>3 DEF RollbackBlock, SameOperation, Jobs
<1>4. CASE BeginBlock
  BY <1>1, <1>4 DEF BeginBlock, Abort, SameOperation, Jobs
<1>5. CASE DebitTx
  BY <1>1, <1>5 DEF DebitTx, Abort, Write, SameOperation, Jobs
<1>6. CASE CreditOutput
  BY <1>1, <1>6 DEF CreditOutput, Abort, Write, SameOperation, Jobs
<1>7. CASE FinishTx
  BY <1>1, <1>7 DEF FinishTx, TxDone, SameOperation, Jobs
<1>8. CASE PayCoinbase
  BY <1>1, <1>8 DEF PayCoinbase, BlockApplied, Abort, Write, SameOperation, Jobs
<1>9. QED
  BY <1>2, <1>3, <1>4, <1>5, <1>6, <1>7, <1>8
     DEF Next, Idle, AddBlock, ReorgFrom, ReplaceChain, CommitAdd, PersistAddFails, Abort, CommitReorg, PersistReorgFails

\* A reorg starts only with a chain that beats the live one.
LEMMA ReorgsStartBetter ==
    ASSUME Idle, [Next]_vars, job'.op = "reorg"
    PROVE  Wins(job'.cand, job'.fork)
<1>1. ASSUME NEW p, NEW fork, ReorgLocked(p, fork)
      PROVE  Wins(job'.cand, job'.fork)
  <2>1. job'.cand = p /\ job'.fork = fork
    BY <1>1 DEF ReorgLocked, IdleJob
  <2>2. Wins(p, fork)
    BY <1>1 DEF ReorgLocked
  <2>3. QED
    BY <2>1, <2>2
<1>2. ASSUME NEW p, AddBlock(p) PROVE job'.op = "add"
  BY <1>2 DEF AddBlock, IdleJob
<1>3. QED
  BY <1>1, <1>2 DEF Next, Idle, vars, ReorgFrom, ReplaceChain, RollbackBlock, BeginBlock, DebitTx,
                    CreditOutput, FinishTx, PayCoinbase, CommitAdd, PersistAddFails, CommitReorg,
                    PersistReorgFails

\* AddBlock commits a block of the instance, with work of its own.
LEMMA AddedWork ==
    ASSUME IInv, work \in Nat, CommitAdd
    PROVE  work' \in Nat /\ work' > work
<1>1. job \in Jobs /\ chain \in Paths /\ job.op = "add" /\ job.stage = "persist" /\ work' = work + Block.work
  BY DEF CommitAdd, IInv, TypeOK
<1>2. job.cand \in Paths /\ job.h = Len(chain) + 1 /\ Len(job.cand) = job.h
  BY <1>1 DEF IInv, AddInv, Jobs
<1>3. job.cand[job.h] \in Bodies
  <2>1. Len(chain) \in Nat /\ job.cand \in [1 .. Len(job.cand) -> Bodies]
    BY <1>1, <1>2, PathFacts
  <2>2. QED
    BY <1>2, <2>1
<1>4. Block.work \in Nat \ {0}
  BY <1>3, ChainAssumption DEF Block, Body
<1>5. QED
  BY <1>1, <1>4

\* RInv holds of every step from a state where both invariants hold.
LEMMA StepKeepsRInv ==
    ASSUME IInv, RInv, [Next]_vars
    PROVE  RInv'
<1>1. job \in Jobs /\ chain \in Paths
  BY DEF IInv, TypeOK
<1>2. CASE CommitAdd
  <2>1. job' = IdleJob
    BY <1>2 DEF CommitAdd
  <2>2. QED
    BY <1>2, <2>1, AddedWork DEF RInv, IdleJob
<1>3. CASE CommitReorg
  <2>1. job' = IdleJob /\ work' = CandWork(job.cand, job.fork)
    BY <1>3 DEF CommitReorg
  <2>2. job.cand \in Paths /\ job.fork \in Nat /\ job.fork <= Len(chain) /\ job.fork < Len(job.cand)
    BY <1>1, <1>3 DEF CommitReorg, IInv, ReorgInv, Jobs
  <2>3. work' \in Nat
    BY <1>1, <2>1, <2>2, CandWorkType
  <2>4. QED
    BY <2>1, <2>3 DEF RInv, IdleJob
<1>4. CASE ~CommitAdd /\ ~CommitReorg
  <2>1. chain' = chain /\ work' = work
    BY <1>4, OnlyCommitsMove
  <2>2. ASSUME job'.op = "reorg" PROVE Wins(job'.cand, job'.fork)
    <3>1. CASE Idle
      BY <2>2, <3>1, ReorgsStartBetter
    <3>2. CASE ~Idle
      <4>1. SameOperation
        BY <2>2, <3>2, StepsKeepOperation DEF IdleJob
      <4>2. QED
        BY <2>2, <4>1 DEF SameOperation, RInv
    <3>3. QED
      BY <3>1, <3>2
  <2>3. QED
    BY <2>1, <2>2 DEF RInv, Wins, CandWork
<1>5. QED
  BY <1>2, <1>3, <1>4

\* Initially the mapped state is the abstract initial state.
LEMMA InitImplements == Init => RInv /\ Abstract!Init
<1>1. SUFFICES ASSUME Init PROVE RInv /\ Abstract!Init
  OBVIOUS
<1>2. chain = <<>> /\ state = EmptyLedger /\ work = 0 /\ job.op = "idle"
  BY <1>1 DEF Init, IdleJob
<1>3. QED
  BY <1>2 DEF RInv, Abstract!Init, Visible

\* Every step maps to Adopt or to no step at all.
LEMMA StepImplements ==
    ASSUME IInv, IInv', RInv, RInv', [Next]_vars
    PROVE  [Abstract!Adopt]_(Abstract!abstractVars)
<1>0. (IInv => Visible = hist[Len(chain) + 1] /\ Visible \in Ledgers)'
  BY VisibleIsCommitted, PTL
<1>1. CASE ~CommitAdd /\ ~CommitReorg
  <2>1. chain' = chain /\ hist' = hist /\ work' = work
    BY <1>1, OnlyCommitsMove
  <2>2. Visible' = Visible
    BY <1>0, <2>1, VisibleIsCommitted
  <2>3. QED
    BY <2>1, <2>2 DEF Abstract!abstractVars
<1>2. CASE CommitAdd \/ CommitReorg
  <2>1. Abstract!Better
    <3>1. CASE CommitAdd
      BY <3>1, AddedWork DEF RInv, Abstract!Better
    <3>2. CASE CommitReorg
      BY <3>2 DEF RInv, CommitReorg, Wins, Abstract!Better
    <3>3. QED
      BY <1>2, <3>1, <3>2
  <2>2. Abstract!KeepsFinal
    BY CommitKeeps DEF Abstract!KeepsFinal, Abstract!Final
  <2>3. chain' \in Paths /\ Visible' \in Ledgers /\ work' \in Nat
    BY <1>0 DEF IInv, TypeOK, RInv
  <2>4. QED
    BY <2>1, <2>2, <2>3 DEF Abstract!Adopt
<1>3. QED
  BY <1>1, <1>2

\* Chain implements AbstractChain: for those who wait for bc.mu, AddBlock, ReorgFrom and
\* ReplaceChain move tip, ledger and work together to a better chain that keeps what is
\* final, or leave no trace, whichever of their steps fails.
THEOREM ChainImplementsAbstract == Spec => ImplementsAbstract
<1>1. Init => IInv /\ RInv /\ Abstract!Init
  BY InitHolds, InitImplements
<1>2. IInv /\ RInv /\ [Next]_vars => IInv' /\ RInv'
  BY StepHolds, StepKeepsRInv
<1>3. IInv /\ IInv' /\ RInv /\ RInv' /\ [Next]_vars => [Abstract!Adopt]_(Abstract!abstractVars)
  BY StepImplements
<1>4. QED
  BY <1>1, <1>2, <1>3, PTL DEF Spec, ImplementsAbstract, Abstract!Spec
=============================================================================
