---------------------------- MODULE AbstractChain ----------------------------
(***************************************************************************)
(* What the chain promises those who read it under its lock (the mempool,  *)
(* the miner, the API, peers): a tip, the ledger it stands for and its     *)
(* work, which move together, only to a better chain and never past what   *)
(* is final.  Nothing of an operation that is under way or has failed is   *)
(* to be seen.                                                             *)
(***************************************************************************)
EXTENDS Integers, Sequences

CONSTANTS
    Paths,            \* chains
    Ledgers,          \* ledgers
    EmptyLedger,
    Hash(_),          \* rank of a chain's tip hash
    Checkpoint, MaxReorgDepth

VARIABLES tip, ledger, work

abstractVars == <<tip, ledger, work>>

Init == tip = <<>> /\ ledger = EmptyLedger /\ work = 0

\* Of two chains with as much work, the one with the smaller tip hash is better.
Better == work' > work \/ (work' = work /\ Hash(tip') < Hash(tip))

\* Checkpointed blocks, and those MaxReorgDepth below the tip, stay.
Final(n) == n <= Checkpoint \/ n <= Len(tip) - MaxReorgDepth

KeepsFinal ==
    \A n \in 0 .. Len(tip) :
        Final(n) => Len(tip') >= n /\ SubSeq(tip', 1, n) = SubSeq(tip, 1, n)

Adopt ==
    /\ Better
    /\ KeepsFinal
    /\ tip' \in Paths /\ ledger' \in Ledgers /\ work' \in Nat

Spec == Init /\ [][Adopt]_abstractVars
=============================================================================
