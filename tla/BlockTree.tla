------------------------------ MODULE BlockTree ------------------------------
(***************************************************************************)
(* A fixed tree of blocks.  A chain is named by its tip.  (core/block.go,  *)
(* core/work.go, and the lookups of core/blockchain.go.)                   *)
(***************************************************************************)
EXTENDS Integers, Sequences, FiniteSets, FiniteSetsExt, SequencesExt

CONSTANTS
    Blocks, Genesis,
    Path,                \* [Blocks -> Seq(Blocks)]: from above genesis up to the block
    Work,                \* [Blocks -> Nat], proof of work of the block alone
    HashRank             \* [Blocks -> Nat], hashes compared as strings

Height(t) == Len(Path[t])

BlockAt(t, i) == IF i = 0 THEN Genesis ELSE Path[t][i]

Parent == [b \in Blocks \ {Genesis} |-> BlockAt(b, Height(b) - 1)]

TotalWork == [b \in Blocks |-> MapThenSumSet(LAMBDA i : Work[Path[b][i]], DOMAIN Path[b])]

\* The locator is the sender's tip (it lists every block of a chain this short):
\* the highest block of the locator that chain t also has.
LocatorFork(t, locator) ==
    Max({i \in 0 .. Min({Height(t), Height(locator)}) : BlockAt(t, i) = BlockAt(locator, i)})

\* Fork choice: more work, or as much work and a smaller hash.
Beats(t, u) ==
    \/ TotalWork[t] > TotalWork[u]
    \/ TotalWork[t] = TotalWork[u] /\ HashRank[t] < HashRank[u]
=============================================================================
