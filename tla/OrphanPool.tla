----------------------------- MODULE OrphanPool -----------------------------
(***************************************************************************)
(* Blocks that wait for their parent, bounded in number and in bytes       *)
(* (node/orphan.go, connectOrphans of node/sync.go).  A pool is a record   *)
(* [pl, bytes]: the blocks, oldest first, and the running byte count.      *)
(***************************************************************************)
EXTENDS BlockTree

CONSTANTS
    Size,                \* [Blocks -> Nat], buffered bytes of a block
    OrphanPoolCapacity, OrphanPoolBytes

Held(pl) == {pl[i] : i \in DOMAIN pl}

Bytes(pl) == MapThenSumSet(LAMBDA i : Size[pl[i]], DOMAIN pl)

\* How many of the oldest blocks go before a block of the given size fits.
Evictions(pl, size) ==
    Min({k \in 0 .. Len(pl) :
            \/ k = Len(pl)
            \/ /\ Len(pl) - k < OrphanPoolCapacity
               /\ Bytes(SubSeq(pl, k + 1, Len(pl))) + size <= OrphanPoolBytes})

\* orphanPool.add, after bufferOrphan's own tests.
OrphanAdd(st, b) ==
    IF b \in Held(st.pl) \/ Size[b] > OrphanPoolBytes THEN st
    ELSE LET k == Evictions(st.pl, Size[b])
         IN  [pl |-> Append(SubSeq(st.pl, k + 1, Len(st.pl)), b),
              bytes |-> st.bytes - Bytes(SubSeq(st.pl, 1, k)) + Size[b]]

BufferOrphan(st, t, b) == IF Height(b) <= Height(t) THEN st ELSE OrphanAdd(st, b)

\* takeChildren: every block waiting for a parent leaves the pool, budget included.
TakeChildren(st, parents) ==
    LET child(b) == Parent[b] \in parents
        taken == SelectSeq(st.pl, child)
    IN  [pl |-> SelectSeq(st.pl, LAMBDA b : ~child(b)), bytes |-> st.bytes - Bytes(taken)]

\* The chain that connectOrphans builds on t: at each level the first waiting child
\* extends the tip, its siblings no longer do.
Connects(pl, t) ==
    LET firstChild(b) == SelectSeq(pl, LAMBDA c : Parent[c] = Parent[b])[1] = b
    IN  {b \in Held(pl) : /\ Height(b) > Height(t)
                          /\ BlockAt(b, Height(t)) = t
                          /\ \A i \in Height(t) + 1 .. Height(b) :
                                BlockAt(b, i) \in Held(pl) /\ firstChild(BlockAt(b, i))}

\* connectOrphans, from the tip st.tip: rounds of takeChildren until nothing connects.
ConnectOrphans(st) ==
    LET chain == Connects(st.pl, st.tip)
        top == CHOOSE b \in chain \cup {st.tip} : \A c \in chain : Height(c) <= Height(b)
        left == TakeChildren([pl |-> st.pl, bytes |-> st.bytes], chain \cup {st.tip})
    IN  [pl |-> left.pl, bytes |-> left.bytes, tip |-> top, seen |-> st.seen \cup chain]
=============================================================================
