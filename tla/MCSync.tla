------------------------------- MODULE MCSync -------------------------------
(* Small instances of Sync: a main branch, a fork, and a few peers. *)
EXTENDS Sync

CONSTANTS G, a1, a2, b1, b2, h1, f1, tA, tB

MCBlocks == {G, a1, a2, b1, b2}
MCPath == (G :> <<>>) @@ (a1 :> <<a1>>) @@ (a2 :> <<a1, a2>>) @@ (b1 :> <<b1>>) @@ (b2 :> <<b1, b2>>)
MCWork == [b \in MCBlocks |-> 1]
MCHashRank == (G :> 0) @@ (a1 :> 1) @@ (a2 :> 2) @@ (b1 :> 3) @@ (b2 :> 4)
MCBody == [b \in MCBlocks |-> CASE b = a2 -> <<tA>> [] b = b2 -> <<tB>> [] OTHER -> <<>>]
MCSize == [b \in MCBlocks |-> 1]

\* tA and tB have the same short id in every block.
MCShortId(b, x) == 0

\* The faulty peer is ahead on the other branch, with one of two transactions in the pool here; or it is on
\* either branch and its next block is announced compactly to a node that has neither
\* transaction.
MCStarts ==
    {[peerTip |-> (h1 :> a1) @@ (f1 :> b2), pool |-> pl] : pl \in {{tA}, {tB}}} \cup
    {[peerTip |-> (h1 :> a1) @@ (f1 :> b), pool |-> {}] : b \in {a1, b1}}
MCPeerMoves == (h1 :> {<<a1, a2>>}) @@ (f1 :> {<<a1, a2>>, <<a1, b2>>, <<b1, b2>>})
=============================================================================
