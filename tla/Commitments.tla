----------------------------- MODULE Commitments -----------------------------
(***************************************************************************)
(* What a header commits to and how a node keeps up with it: the account   *)
(* trie (core/trie.go), computed incrementally against a cache of nodes    *)
(* that may have lost any of them (core/statetrie.go, core/disknodes.go),  *)
(* the Merkle Mountain Range over the blocks below (core/mmr.go), the      *)
(* Merkle tree of the transactions (core/merkle.go), and the proofs light  *)
(* clients check against the three.                                        *)
(*                                                                         *)
(* A hash is the term that was hashed, tag and all: no two terms collide.  *)
(* A trie node is therefore its own address, and the cache of nodes can    *)
(* only find it or miss.  Addresses are their trie keys, sequences of bits. *)
(***************************************************************************)
EXTENDS Integers, Sequences, FiniteSets, FiniteSetsExt, SequencesExt

CONSTANTS
    Keys,             \* addresses in use, as trie keys of one length
    Gone,             \* no account
    Bodies,           \* what a block may do: sequences of writes <<key, account>>
    HistoryFrom,      \* activation height of UpgradeHistoryRoot
    RootReorgDepth,   \* MaxReorgDepth
    MaxRootHeight,    \* bound: height of the chain
    MaxRootSuffix     \* bound: length of a competing suffix

VARIABLES
    headers,    \* the chain above genesis: [body, accs, root, hist, txs] a block
    history,    \* bc.history
    refused     \* a valid block has been refused

commitVars == <<headers, history, refused>>
-----------------------------------------------------------------------------
(* The trie *)

EmptyNode == <<"empty">>
Leaf(key, value) == <<"leaf", key, value>>
Inner(left, right) == <<"inner", left, right>>

IsLeaf(node) == node[1] = "leaf"

\* split: inner nodes down to where the two keys part.
RECURSIVE Split(_, _, _)
Split(old, new, depth) ==
    CASE old[2][depth] = 0 /\ new[2][depth] = 0 -> Inner(Split(old, new, depth + 1), EmptyNode)
      [] old[2][depth] = 1 /\ new[2][depth] = 1 -> Inner(EmptyNode, Split(old, new, depth + 1))
      [] old[2][depth] = 0 /\ new[2][depth] = 1 -> Inner(old, new)
      [] OTHER -> Inner(new, old)

RECURSIVE Insert(_, _, _, _)
Insert(node, key, value, depth) ==
    CASE node = EmptyNode -> Leaf(key, value)
      [] node # EmptyNode /\ IsLeaf(node) ->
            IF node[2] = key THEN Leaf(key, value) ELSE Split(node, Leaf(key, value), depth)
      [] OTHER ->
            IF key[depth] = 0
            THEN Inner(Insert(node[2], key, value, depth + 1), node[3])
            ELSE Inner(node[2], Insert(node[3], key, value, depth + 1))

\* A leaf that is alone moves up, an inner node with one child does not.
Collapse(left, right) ==
    CASE left = EmptyNode /\ right = EmptyNode -> EmptyNode
      [] right = EmptyNode /\ left # EmptyNode /\ IsLeaf(left) -> left
      [] left = EmptyNode /\ right # EmptyNode /\ IsLeaf(right) -> right
      [] OTHER -> Inner(left, right)

RECURSIVE Delete(_, _, _)
Delete(node, key, depth) ==
    CASE node = EmptyNode -> EmptyNode
      [] node # EmptyNode /\ IsLeaf(node) -> IF node[2] = key THEN EmptyNode ELSE node
      [] OTHER ->
            IF key[depth] = 0
            THEN Collapse(Delete(node[2], key, depth + 1), node[3])
            ELSE Collapse(node[2], Delete(node[3], key, depth + 1))

Update(root, key, value) ==
    IF value = Gone THEN Delete(root, key, 1) ELSE Insert(root, key, value, 1)

\* Prove: the way down to a key, siblings deepest first.
RECURSIVE Walk(_, _, _, _)
Walk(node, key, depth, siblings) ==
    IF node = EmptyNode \/ IsLeaf(node) THEN [end |-> node, siblings |-> siblings]
    ELSE IF key[depth] = 0
         THEN Walk(node[2], key, depth + 1, <<node[3]>> \o siblings)
         ELSE Walk(node[3], key, depth + 1, <<node[2]>> \o siblings)

Prove(root, key) ==
    LET walk  == Walk(root, key, 1, <<>>)
        there == walk.end # EmptyNode
        found == there /\ walk.end[2] = key
    IN  [key |-> key, found |-> found, siblings |-> walk.siblings,
         value |-> IF found THEN walk.end[3] ELSE Gone,
         other |-> IF there /\ ~found THEN walk.end ELSE EmptyNode]

SharesPrefix(a, b, n) == \A i \in 1 .. n : a[i] = b[i]

\* VerifyTrieProof: the root the proof's claim leads to.
ProofRoot(p) ==
    LET depth == Len(p.siblings)
        start == IF p.found THEN Leaf(p.key, p.value) ELSE p.other
    IN  FoldLeftDomain(LAMBDA node, i :
                           IF p.key[depth - i + 1] = 0
                           THEN Inner(node, p.siblings[i])
                           ELSE Inner(p.siblings[i], node),
                       start, p.siblings)

VerifyTrieProof(p, root) ==
    /\ p.found => p.value # Gone
    /\ (~p.found /\ p.other # EmptyNode) =>
           p.other[2] # p.key /\ SharesPrefix(p.key, p.other[2], Len(p.siblings))
    /\ ProofRoot(p) = root
-----------------------------------------------------------------------------
(* The Merkle Mountain Range *)

EmptyRange == [peaks |-> <<>>, leaves |-> 0]

MmrLeaf(hash) == <<"mmrleaf", hash>>
MmrNode(left, right) == <<"mmrnode", left, right>>

\* Equal neighbours merge, like the carries of a binary increment.
RECURSIVE Carry(_)
Carry(peaks) ==
    LET n == Len(peaks)
    IN  IF n >= 2 /\ peaks[n].height = peaks[n - 1].height
        THEN Carry(Append(SubSeq(peaks, 1, n - 2),
                          [height |-> peaks[n].height + 1, hash |-> MmrNode(peaks[n - 1].hash, peaks[n].hash)]))
        ELSE peaks

AppendTo(range, hash) ==
    [peaks |-> Carry(Append(range.peaks, [height |-> 0, hash |-> MmrLeaf(hash)])),
     leaves |-> range.leaves + 1]

FoldPeaks(peaks, leaves) == <<"mmrroot", leaves, FoldRight(MmrNode, Front(peaks), Last(peaks))>>

RangeRoot(range) ==
    IF range.leaves = 0 THEN <<"mmrempty">>
    ELSE FoldPeaks([i \in DOMAIN range.peaks |-> range.peaks[i].hash], range.leaves)

PeakSizes(n) == SetToSortSeq({2 ^ b : b \in {b \in 0 .. n : (n \div 2 ^ b) % 2 = 1}}, >)

\* subtreeRoot and subtreePath, a level at a time.
Above(level) == [i \in 1 .. Len(level) \div 2 |-> MmrNode(level[2 * i - 1], level[2 * i])]

RECURSIVE SubtreeRoot(_)
SubtreeRoot(level) == IF Len(level) = 1 THEN level[1] ELSE SubtreeRoot(Above(level))

RECURSIVE SubtreePath(_, _)
SubtreePath(level, idx) ==
    IF Len(level) = 1 THEN <<>>
    ELSE LET right == idx % 2 = 0
         IN  <<[hash |-> IF right THEN level[idx + 2] ELSE level[idx], right |-> right]>>
                 \o SubtreePath(Above(level), idx \div 2)

Offset(sizes, i) == FoldLeft(+, 0, SubSeq(sizes, 1, i - 1))

\* The leaves under the i-th peak.
Chunk(leaves, sizes, i) ==
    LET from == Offset(sizes, i) IN [j \in 1 .. sizes[i] |-> MmrLeaf(leaves[from + j])]

BuildAncestryProof(leaves, position) ==
    LET sizes == PeakSizes(Len(leaves))
        peak  == CHOOSE i \in DOMAIN sizes :
                     Offset(sizes, i) <= position /\ position < Offset(sizes, i) + sizes[i]
    IN  [block |-> leaves[position + 1], position |-> position, leaves |-> Len(leaves),
         path  |-> SubtreePath(Chunk(leaves, sizes, peak), position - Offset(sizes, peak)),
         peaks |-> [i \in DOMAIN sizes |-> SubtreeRoot(Chunk(leaves, sizes, i))],
         peak  |-> peak]

\* The peak a proof climbs to, from its leaf.
Climb(p) ==
    FoldLeft(LAMBDA node, step : IF step.right THEN MmrNode(node, step.hash) ELSE MmrNode(step.hash, node),
             MmrLeaf(p.block), p.path)

\* Mutant of VerifyAncestryProof: the sides are not held against the position.
VerifyAncestryProofAnySide(p, root) ==
    LET sizes == PeakSizes(p.leaves)
    IN  /\ p.leaves > 0 /\ Len(sizes) = Len(p.peaks) /\ p.peak \in DOMAIN p.peaks
        /\ p.position - Offset(sizes, p.peak) \in 0 .. sizes[p.peak] - 1
        /\ 2 ^ Len(p.path) = sizes[p.peak]
        /\ Climb(p) = p.peaks[p.peak]
        /\ FoldPeaks(p.peaks, p.leaves) = root

VerifyAncestryProof(p, root) ==
    LET sizes == PeakSizes(p.leaves)
    IN  /\ p.leaves > 0 /\ Len(sizes) = Len(p.peaks) /\ p.peak \in DOMAIN p.peaks
        /\ LET idx == p.position - Offset(sizes, p.peak)
           IN  /\ idx \in 0 .. sizes[p.peak] - 1
               /\ 2 ^ Len(p.path) = sizes[p.peak]
               /\ \A i \in DOMAIN p.path : p.path[i].right = ((idx \div 2 ^ (i - 1)) % 2 = 0)
        /\ Climb(p) = p.peaks[p.peak]
        /\ FoldPeaks(p.peaks, p.leaves) = root
-----------------------------------------------------------------------------
(* The Merkle tree of a block's transactions: the last of an odd layer is its own *)
(* sibling.                                                                        *)

Paired(layer, i) == IF i + 1 <= Len(layer) THEN layer[i + 1] ELSE layer[i]

NextLayer(layer) ==
    [i \in 1 .. (Len(layer) + 1) \div 2 |-> <<"pair", layer[2 * i - 1], Paired(layer, 2 * i - 1)>>]

RECURSIVE MerkleRootOf(_)
MerkleRootOf(layer) == IF Len(layer) = 1 THEN layer[1] ELSE MerkleRootOf(NextLayer(layer))

RECURSIVE MerkleProofOf(_, _)
MerkleProofOf(layer, i) ==
    IF Len(layer) = 1 THEN <<>>
    ELSE <<IF i % 2 = 1 THEN [hash |-> Paired(layer, i), right |-> TRUE]
                        ELSE [hash |-> layer[i - 1], right |-> FALSE]>>
             \o MerkleProofOf(NextLayer(layer), (i + 1) \div 2)

VerifyMerkleProof(leaf, root, proof) ==
    root = FoldLeft(LAMBDA h, s : IF s.right THEN <<"pair", h, s.hash>> ELSE <<"pair", s.hash, h>>, leaf, proof)

\* The coinbase and one transaction a write, each hashed.
TxHashes(body) == << <<"coinbase">> >> \o [i \in DOMAIN body |-> <<"tx", body[i]>>]
-----------------------------------------------------------------------------
(* Keeping up with the chain *)

\* A block's hash: what it and the blocks below it did.
BlockHash(chain, h) == [i \in 1 .. h |-> chain[i].body]

Genesis == [k \in Keys |-> Gone]

Accounts(chain) == IF chain = <<>> THEN Genesis ELSE chain[Len(chain)].accs
RootOf(chain) == IF chain = <<>> THEN EmptyNode ELSE chain[Len(chain)].root

\* applyTxsAndCoinbase, as far as the ledger goes.
Apply(accs, body) == FoldLeft(LAMBDA a, w : [a EXCEPT ![w[1]] = w[2]], accs, body)

\* Only what is there can be released.
Applies(accs, body) == \A i \in DOMAIN body : body[i][2] = Gone => accs[body[i][1]] # Gone

\* touchedAddrs of the undo log.
TouchedAddrs(body) == {body[i][1] : i \in DOMAIN body}

\* Keys brought up to date, in some order.
UpdateAll(root, keys, accs) == FoldSet(LAMBDA k, r : Update(r, k, accs[k]), root, keys)

\* stateTrieWarming: the trie of the whole account set, in a store of its own.
StateTrie(accs) ==
    UpdateAll(EmptyNode, {k \in Keys : accs[k] # Gone}, accs)

\* Mutant of RootAfter: a rebuild leaves the cursor where it was.
RootAfterCursorStays(cursor, accs, body, miss) ==
    LET root == IF miss THEN StateTrie(accs)
                ELSE UpdateAll(cursor, TouchedAddrs(body), accs)
    IN  [root |-> root, cursor |-> IF miss THEN cursor ELSE root]

\* rootAfter: the touched keys are updated from where the committer stands, or the
\* trie is rebuilt when a node it needs has left the cache.
RootAfter(cursor, accs, body, miss) ==
    LET root == IF miss THEN StateTrie(accs)
                ELSE UpdateAll(cursor, TouchedAddrs(body), accs)
    IN  [root |-> root, cursor |-> root]

\* IsUpgradeActive(UpgradeHistoryRoot): 0 is active from genesis.
HistoryActive(h) == h >= HistoryFrom

InHistory(h) == h > 0 /\ HistoryActive(h)

RebuildHistoryTo(chain, at) ==
    FoldLeft(LAMBDA range, h : IF InHistory(h) THEN AppendTo(range, BlockHash(chain, h)) ELSE range,
             EmptyRange, [h \in 1 .. at |-> h])

HistoryUpTo(at) == IF at = Len(headers) THEN history ELSE RebuildHistoryTo(headers, at)

CommitCtxAt(at) == [cursor |-> RootOf(SubSeq(headers, 1, at)), history |-> HistoryUpTo(at)]

Advance(range, chain, h) == IF InHistory(h) THEN AppendTo(range, BlockHash(chain, h)) ELSE range

\* NextStateRoot and NextCommitments: a candidate for the next block, built by a
\* committer of its own.
Candidate(body, miss) ==
    LET accs == Apply(Accounts(headers), body)
    IN  [body |-> body, accs |-> accs, txs |-> MerkleRootOf(TxHashes(body)),
         root |-> RootAfter(CommitCtxAt(Len(headers)).cursor, accs, body, miss).root,
         hist |-> IF HistoryActive(Len(headers) + 1) THEN RangeRoot(history) ELSE <<"unset">>]

\* applyBlock on top of a chain, as far as commitments go (checkCommitments and
\* commitStateRoot): the context it leaves, and whether it accepted.
ApplyBlock(chain, ctx, block, miss) ==
    LET after    == RootAfter(ctx.cursor, Apply(Accounts(chain), block.body), block.body, miss)
        h        == Len(chain) + 1
        expected == IF HistoryActive(h) THEN RangeRoot(ctx.history) ELSE <<"unset">>
    IN  [ok  |-> block.hist = expected /\ block.txs = MerkleRootOf(TxHashes(block.body)) /\ block.root = after.root,
         ctx |-> [cursor |-> after.cursor, history |-> Advance(ctx.history, Append(chain, block), h)]]

(* What the rest of the network computes: the trie as the shape its contents      *)
(* determine, the range as perfect trees over the leaves.                          *)
RECURSIVE Canonical(_, _, _)
Canonical(accs, present, depth) ==
    CASE present = {} -> EmptyNode
      [] Cardinality(present) = 1 -> LET k == CHOOSE k \in present : TRUE IN Leaf(k, accs[k])
      [] OTHER -> Inner(Canonical(accs, {k \in present : k[depth] = 0}, depth + 1),
                        Canonical(accs, {k \in present : k[depth] = 1}, depth + 1))

\* ProveAncestry's leaves: the blocks of the range a header at height asOf commits.
LeavesBelow(chain, asOf) ==
    LET first == IF HistoryFrom = 0 THEN 1 ELSE HistoryFrom
    IN  [i \in 1 .. Max({0, asOf - first}) |-> BlockHash(chain, first + i - 1)]

TrueHistory(chain, h) ==
    LET leaves == LeavesBelow(chain, h)
        sizes  == PeakSizes(Len(leaves))
    IN  IF ~HistoryActive(h) THEN <<"unset">>
        ELSE IF leaves = <<>> THEN <<"mmrempty">>
        ELSE FoldPeaks([i \in DOMAIN sizes |-> SubtreeRoot(Chunk(leaves, sizes, i))], Len(leaves))

\* A block another node made.
TrueBlock(chain, body) ==
    LET accs == Apply(Accounts(chain), body)
    IN  [body |-> body, accs |-> accs, txs |-> MerkleRootOf(TxHashes(body)),
         root |-> Canonical(accs, {k \in Keys : accs[k] # Gone}, 1),
         hist |-> TrueHistory(chain, Len(chain) + 1)]
-----------------------------------------------------------------------------
CommitInit == headers = <<>> /\ history = EmptyRange /\ refused = FALSE

\* AddBlock: the range the context worked on is adopted with the block.
AddTo(block, miss) ==
    LET result == ApplyBlock(headers, CommitCtxAt(Len(headers)), block, miss)
    IN  IF result.ok
        THEN headers' = Append(headers, block) /\ history' = result.ctx.history /\ UNCHANGED refused
        ELSE refused' = TRUE /\ UNCHANGED <<headers, history>>

\* A block of a peer's.
ReceiveBlock(body, miss) ==
    /\ Len(headers) < MaxRootHeight /\ Applies(Accounts(headers), body)
    /\ AddTo(TrueBlock(headers, body), miss)

\* A block of our own: built, mined, and added, the cache changing meanwhile.
MineBlock(body, building, adding) ==
    /\ Len(headers) < MaxRootHeight /\ Applies(Accounts(headers), body)
    /\ AddTo(Candidate(body, building), adding)

\* A chain of other nodes' blocks on top of ours.
Grown(chain, bodies) == FoldLeft(LAMBDA c, body : Append(c, TrueBlock(c, body)), chain, bodies)

\* Validating the blocks of a chain above a height, one context for all of them.
ApplySuffix(chain, from, ctx, missing) ==
    FoldLeft(
        LAMBDA acc, h :
            LET result == ApplyBlock(SubSeq(chain, 1, h - 1), acc.ctx, chain[h], h - from = missing)
            IN  [ctx |-> result.ctx, ok |-> acc.ok /\ result.ok],
        [ctx |-> ctx, ok |-> TRUE], [i \in 1 .. Len(chain) - from |-> from + i])

\* reorgLocked, for a suffix that wins by work or, at equal work, by its hash.
Reorg(fork, bodies) ==
    /\ Len(headers) - fork <= RootReorgDepth
    /\ fork + Len(bodies) \in Len(headers) .. MaxRootHeight
    /\ LET before(i) == FoldLeft(Apply, Accounts(SubSeq(headers, 1, fork)), SubSeq(bodies, 1, i - 1))
       IN  \A i \in DOMAIN bodies : Applies(before(i), bodies[i])
    /\ LET chain == Grown(SubSeq(headers, 1, fork), bodies)
       IN  \E missing \in 0 .. Len(bodies) :
              LET result == ApplySuffix(chain, fork, CommitCtxAt(fork), missing)
              IN  IF result.ok
                  THEN headers' = chain /\ history' = result.ctx.history /\ UNCHANGED refused
                  ELSE refused' = TRUE /\ UNCHANGED <<headers, history>>

\* NewFromSnapshot: the range is rebuilt from the headers.
SnapshotCtx(at) == [cursor |-> RootOf(SubSeq(headers, 1, at)), history |-> RebuildHistoryTo(headers, at)]

\* Open: a chain whose bodies were pruned starts from the snapshot beside it, others
\* from genesis, and the blocks above are added again, at first with an empty cache.
Reopen(at) ==
    /\ at = 0 \/ at <= Len(headers) - RootReorgDepth
    /\ LET result == ApplySuffix(headers, at, SnapshotCtx(at), 1)
       IN  /\ history' = result.ctx.history
           /\ refused' = (refused \/ ~result.ok)
           /\ UNCHANGED headers

CommitNext ==
    \/ \E body \in Bodies, miss \in BOOLEAN : ReceiveBlock(body, miss)
    \/ \E body \in Bodies, building, adding \in BOOLEAN : MineBlock(body, building, adding)
    \/ \E fork \in 0 .. Len(headers), n \in 1 .. MaxRootSuffix :
           \E bodies \in [1 .. n -> Bodies] : Reorg(fork, bodies)
    \/ \E at \in 0 .. MaxRootHeight : Reopen(at)

CommitSpec == CommitInit /\ [][CommitNext]_commitVars
-----------------------------------------------------------------------------
(* Properties. *)

\* A node never refuses a valid block, nor mines one the others refuse, over its
\* commitments: whatever the cache has lost, whichever branch it came from and
\* wherever it started, the roots it computes step by step are those the account set
\* and the blocks below define.
CommitmentsAgree ==
    /\ ~refused
    /\ headers # <<>> =>
           Last(headers) = TrueBlock(Front(headers), Last(headers).body)

\* The answer an account proof gives is the ledger's.
AnswersFor(p, accs) == p.found = (accs[p.key] # Gone) /\ (p.found => p.value = accs[p.key])

\* Proofs are complete and sound.  Every account, or its absence, every ancestor and
\* every transaction can be proved against the tip's header.  A proof taken against an
\* older header, for another key, or with another block or position in it, verifies
\* only if what it says is true.
ProofsHold ==
    headers # <<>> =>
        LET tip    == Last(headers)
            top    == Len(headers)
            leaves == LeavesBelow(headers, top)
            txs    == TxHashes(tip.body)
        IN  /\ \A k \in Keys : VerifyTrieProof(Prove(tip.root, k), tip.root)
            /\ \A k, asked \in Keys, h \in DOMAIN headers :
                   LET p == [Prove(headers[h].root, k) EXCEPT !.key = asked]
                   IN  VerifyTrieProof(p, tip.root) => AnswersFor(p, tip.accs)
            /\ \A i \in 1 .. Len(leaves) :
                   LET p == BuildAncestryProof(leaves, i - 1)
                   IN  /\ VerifyAncestryProof(p, tip.hist)
                       /\ \A h \in DOMAIN headers, position \in 0 .. top :
                              LET q == [p EXCEPT !.block = BlockHash(headers, h), !.position = position]
                              IN  VerifyAncestryProof(q, tip.hist) =>
                                      position < Len(leaves) /\ leaves[position + 1] = q.block
            /\ \A i \in DOMAIN txs : VerifyMerkleProof(txs[i], tip.txs, MerkleProofOf(txs, i))
            /\ \A i, j \in DOMAIN txs :
                   VerifyMerkleProof(txs[i], tip.txs, MerkleProofOf(txs, j)) => txs[i] = txs[j]
=============================================================================
