---------------------------- MODULE StoreProofs ----------------------------
(***************************************************************************)
(* Proofs about BlockStore, for any labels, any work, any prune window and *)
(* any height: reopening the store gives the chain the node runs, a        *)
(* rewrite gives up no block, and, as long as no rewrite is overtaken by   *)
(* the prune window, the store can be opened whatever happens.             *)
(***************************************************************************)
EXTENDS BlockStore, SequenceTheorems, TLAPS

StoredRecords == [path : Seq(Labels), full : BOOLEAN]

\* L holds one record for each block of the chain t, in order.
LogOf(L, t) ==
    /\ L \in Seq(StoredRecords)
    /\ t \in Seq(Labels)
    /\ Len(L) = Len(t)
    /\ \A i \in 1 .. Len(t) : L[i].path = SubSeq(t, 1, i)

\* The chain that the records L lead to.
TipOf(L) == IF L = <<>> THEN <<>> ELSE L[Len(L)].path

\* Of the bodies f those above height b are kept.
FullFrom(f, b) ==
    /\ f \in Seq(BOOLEAN)
    /\ b \in 0 .. Len(f)
    /\ \A i \in 1 .. Len(f) : f[i] <=> i > b

\* The highest block whose body memory has lost.
Base == BodyHeight(full) - 1

\* What the chains on disk, in memory and in a rewrite have to do with each other.
PathInv ==
    /\ up \in BOOLEAN /\ sPoisoned \in BOOLEAN
    /\ LogOf(log, Recovered)
    /\ sidecar # <<>> => sidecar[1] \in Seq(Labels)
    /\ up => /\ bcBlocks \in Seq(Labels)
             /\ FullFrom(full, Base) /\ Len(full) = Len(bcBlocks)
             /\ ~sPoisoned => Recovered = bcBlocks
    /\ rewrite = [phase |-> rewrite.phase, blocks |-> rewrite.blocks, at |-> rewrite.at]
    /\ rewrite.phase # "idle" => up /\ LogOf(rewrite.blocks, TipOf(rewrite.blocks)) /\ rewrite.at \in Seq(Labels)

\* No record above height h has lost its body.
CoveredBy(L, h) == h <= Len(L) /\ \A i \in (h + 1) .. Len(L) : L[i].full

\* A log L of the chain t can be opened with the account state of block s.
Supports(s, L, t) ==
    /\ s \in Seq(Labels) /\ s = SubSeq(t, 1, Len(s))
    /\ CoveredBy(L, Len(s))

\* Where the bodies are missing, and what stands in for them.  A running node
\* never leaves the chain below Base, so the state of a block up to Base stays
\* good; the sidecar, and the one that a rewrite is about to put in its place,
\* are such a state, and every body missing on disk is below it.
CoverInv ==
    /\ up => Base <= Len(Recovered) /\ SubSeq(Recovered, 1, Base) = SubSeq(bcBlocks, 1, Base)
    /\ HasPlaceholder =>
         /\ sidecar # <<>> /\ Supports(sidecar[1], log, Recovered)
         /\ up => SidecarHeight <= Base
    /\ rewrite.phase # "idle" =>
         /\ Supports(rewrite.at, log, Recovered) /\ Len(rewrite.at) <= Base
         /\ CoveredBy(rewrite.blocks, Len(rewrite.at))
    /\ rewrite.phase \in {"stage", "swap"} => sidecar = <<rewrite.at>>
-----------------------------------------------------------------------------
(* Prefixes. *)

\* The first k elements of a sequence.
LEMMA Prefix ==
    ASSUME NEW S, NEW s \in Seq(S), NEW k \in 0 .. Len(s)
    PROVE  /\ SubSeq(s, 1, k) \in Seq(S) /\ Len(SubSeq(s, 1, k)) = k
           /\ \A i \in 1 .. k : SubSeq(s, 1, k)[i] = s[i]
OBVIOUS

\* Cutting a sequence at its own length changes nothing.
LEMMA WholePrefix ==
    ASSUME NEW S, NEW s \in Seq(S)
    PROVE  SubSeq(s, 1, Len(s)) = s
<1>1. Len(s) \in 0 .. Len(s)
    OBVIOUS
<1>2. /\ SubSeq(s, 1, Len(s)) \in Seq(S) /\ Len(SubSeq(s, 1, Len(s))) = Len(s)
      /\ \A i \in 1 .. Len(s) : SubSeq(s, 1, Len(s))[i] = s[i]
    BY <1>1, Prefix
<1> QED BY <1>2, SeqEqual

\* Cutting twice is cutting at the lower mark.
LEMMA PrefixOfPrefix ==
    ASSUME NEW S, NEW s \in Seq(S), NEW k \in 0 .. Len(s), NEW i \in 0 .. k
    PROVE  SubSeq(SubSeq(s, 1, k), 1, i) = SubSeq(s, 1, i)
<1> DEFINE t == SubSeq(s, 1, k)
<1>1. t \in Seq(S) /\ Len(t) = k /\ \A j \in 1 .. k : t[j] = s[j]
    BY Prefix
<1> HIDE DEF t
<1>2. /\ SubSeq(t, 1, i) \in Seq(S) /\ Len(SubSeq(t, 1, i)) = i
      /\ \A j \in 1 .. i : SubSeq(t, 1, i)[j] = t[j]
    BY <1>1, Prefix
<1>3. i \in 0 .. Len(s)
    OBVIOUS
<1>4. /\ SubSeq(s, 1, i) \in Seq(S) /\ Len(SubSeq(s, 1, i)) = i
      /\ \A j \in 1 .. i : SubSeq(s, 1, i)[j] = s[j]
    BY <1>3, Prefix
<1>5. \A j \in 1 .. i : SubSeq(t, 1, i)[j] = SubSeq(s, 1, i)[j]
    BY <1>1, <1>2, <1>4
<1>6. SubSeq(t, 1, i) = SubSeq(s, 1, i)
    BY <1>2, <1>4, <1>5, SeqEqual
<1> QED BY <1>6 DEF t
-----------------------------------------------------------------------------
(* Logs. *)

\* A log determines its chain, and replay accepts its links.
LEMMA LogTip ==
    ASSUME NEW L, NEW t, LogOf(L, t)
    PROVE  TipOf(L) = t
<1>1. CASE L = <<>>
    <2>1. Len(t) = 0 /\ t \in Seq(Labels)
        BY <1>1 DEF LogOf
    <2> QED BY <1>1, <2>1 DEF TipOf
<1>2. CASE L # <<>>
    <2>1. Len(L) \in 1 .. Len(t) /\ Len(L) = Len(t) /\ t \in Seq(Labels)
        BY <1>2 DEF LogOf
    <2>2. L[Len(L)].path = SubSeq(t, 1, Len(t))
        BY <2>1 DEF LogOf
    <2>3. SubSeq(t, 1, Len(t)) = t
        BY <2>1, WholePrefix
    <2> QED BY <1>2, <2>2, <2>3 DEF TipOf
<1> QED BY <1>1, <1>2

\* What a restart takes for the tip.
LEMMA RecoveredIsTip == Recovered = TipOf(log)
BY DEF Recovered, TipOf

\* The records of a log are linked, as replay and header validation demand.
LEMMA LogLinked ==
    ASSUME NEW t, LogOf(log, t)
    PROVE  LogLinks
<1>1. DOMAIN log = 1 .. Len(t) /\ t \in Seq(Labels)
    BY DEF LogOf
<1> SUFFICES ASSUME NEW i \in 1 .. Len(t)
             PROVE  /\ Len(log[i].path) = i
                    /\ i > 1 => SubSeq(log[i].path, 1, i - 1) = log[i - 1].path
    BY <1>1 DEF LogLinks
<1>2. log[i].path = SubSeq(t, 1, i) /\ i \in 0 .. Len(t)
    BY DEF LogOf
<1>3. Len(log[i].path) = i
    BY <1>1, <1>2, Prefix
<1>4. ASSUME i > 1 PROVE SubSeq(log[i].path, 1, i - 1) = log[i - 1].path
    <2>1. i - 1 \in 1 .. Len(t) /\ i - 1 \in 0 .. i
        BY <1>4
    <2>2. log[i - 1].path = SubSeq(t, 1, i - 1)
        BY <2>1 DEF LogOf
    <2>3. SubSeq(SubSeq(t, 1, i), 1, i - 1) = SubSeq(t, 1, i - 1)
        BY <1>1, <1>2, <2>1, PrefixOfPrefix
    <2> QED BY <1>2, <2>2, <2>3
<1> QED BY <1>3, <1>4

\* truncateAfter leaves the log of the shorter chain.
LEMMA TruncatedLog ==
    ASSUME NEW L, NEW t, LogOf(L, t), NEW k \in 0 .. Len(t)
    PROVE  /\ LogOf(SubSeq(L, 1, k), SubSeq(t, 1, k))
           /\ \A i \in 1 .. k : SubSeq(L, 1, k)[i] = L[i]
<1>1. L \in Seq(StoredRecords) /\ t \in Seq(Labels) /\ Len(L) = Len(t) /\ k \in 0 .. Len(L)
    BY DEF LogOf
<1>2. /\ SubSeq(L, 1, k) \in Seq(StoredRecords) /\ Len(SubSeq(L, 1, k)) = k
      /\ \A i \in 1 .. k : SubSeq(L, 1, k)[i] = L[i]
    BY <1>1, Prefix
<1>3. SubSeq(t, 1, k) \in Seq(Labels) /\ Len(SubSeq(t, 1, k)) = k
    BY <1>1, Prefix
<1>4. ASSUME NEW i \in 1 .. k PROVE SubSeq(L, 1, k)[i].path = SubSeq(SubSeq(t, 1, k), 1, i)
    <2>1. i \in 0 .. k /\ i \in 1 .. Len(t)
        BY <1>1
    <2>2. SubSeq(SubSeq(t, 1, k), 1, i) = SubSeq(t, 1, i)
        BY <1>1, <2>1, PrefixOfPrefix
    <2>3. L[i].path = SubSeq(t, 1, i)
        BY <2>1 DEF LogOf
    <2> QED BY <1>2, <2>2, <2>3
<1> QED BY <1>2, <1>3, <1>4 DEF LogOf

\* M continues the log L of the first k blocks of t up to its tip, with the
\* bodies that f says there are.
Completes(M, L, t, f, k) ==
    /\ LogOf(M, t)
    /\ \A i \in 1 .. k : M[i] = L[i]
    /\ \A i \in (k + 1) .. Len(t) : M[i].full = f[i]

\* The records of the rest of t complete a log of its first k blocks.
LEMMA ExtendedLog ==
    ASSUME NEW t \in Seq(Labels), NEW k \in 0 .. Len(t), NEW L, LogOf(L, SubSeq(t, 1, k)),
           NEW f, \A i \in (k + 1) .. Len(t) : f[i] \in BOOLEAN
    PROVE  Completes(L \o Records(t, f, k + 1), L, t, f, k)
<1> DEFINE R == Records(t, f, k + 1)
           M == L \o R
<1>1. Len(t) \in Nat /\ k \in Nat /\ k <= Len(t)
    OBVIOUS
<1>2. L \in Seq(StoredRecords) /\ Len(L) = k
    BY Prefix DEF LogOf
<1>3. \A i \in 1 .. (Len(t) - k) :
          R[i] = [path |-> SubSeq(t, 1, k + i), full |-> f[k + i]] /\ R[i] \in StoredRecords
    <2> SUFFICES ASSUME NEW i \in 1 .. (Len(t) - k)
                 PROVE  R[i] = [path |-> SubSeq(t, 1, k + i), full |-> f[k + i]] /\ R[i] \in StoredRecords
        OBVIOUS
    <2>1. i \in 1 .. (Len(t) - (k + 1) + 1) /\ (k + 1) + i - 1 = k + i
        BY <1>1
    <2>2. R[i] = [path |-> SubSeq(t, 1, (k + 1) + i - 1), full |-> f[(k + 1) + i - 1]]
        BY <2>1, Zenon DEF Records
    <2>3. R[i] = [path |-> SubSeq(t, 1, k + i), full |-> f[k + i]]
        BY <2>1, <2>2, Zenon
    <2>4. k + i \in (k + 1) .. Len(t) /\ k + i \in 0 .. Len(t)
        BY <1>1
    <2>5. SubSeq(t, 1, k + i) \in Seq(Labels) /\ f[k + i] \in BOOLEAN
        BY <2>4, Prefix
    <2>6. [path |-> SubSeq(t, 1, k + i), full |-> f[k + i]] \in StoredRecords
        BY <2>5, Zenon DEF StoredRecords
    <2> QED BY <2>3, <2>6, Zenon
<1>4. R \in Seq(StoredRecords) /\ Len(R) = Len(t) - k
    <2>1. R = [i \in 1 .. (Len(t) - k) |-> R[i]]
        BY <1>1 DEF Records
    <2>2. Len(t) - k \in Nat
        BY <1>1
    <2> HIDE DEF R
    <2>3. R \in [1 .. (Len(t) - k) -> StoredRecords]
        BY <1>3, <2>1, Zenon
    <2> QED BY <2>2, <2>3, SeqDef
<1> HIDE DEF R
<1>5. /\ M \in Seq(StoredRecords) /\ Len(M) = Len(t)
      /\ \A i \in 1 .. k : M[i] = L[i]
      /\ \A i \in (k + 1) .. Len(t) : M[i] = R[i - k]
    BY <1>1, <1>2, <1>4
<1> HIDE DEF M
<1>6. \A i \in (k + 1) .. Len(t) : M[i].full = f[i] /\ M[i].path = SubSeq(t, 1, i)
    <2> SUFFICES ASSUME NEW i \in (k + 1) .. Len(t) PROVE M[i].full = f[i] /\ M[i].path = SubSeq(t, 1, i)
        OBVIOUS
    <2>1. i - k \in 1 .. (Len(t) - k) /\ k + (i - k) = i
        BY <1>1
    <2>2. M[i] = R[i - k]
        BY <1>5
    <2>3. R[i - k] = [path |-> SubSeq(t, 1, k + (i - k)), full |-> f[k + (i - k)]]
        BY <1>3, <2>1, Zenon
    <2>4. M[i] = [path |-> SubSeq(t, 1, i), full |-> f[i]]
        BY <2>1, <2>2, <2>3, Zenon
    <2>5. M[i].path = SubSeq(t, 1, i)
        BY <2>4
    <2>6. M[i].full = f[i]
        BY <2>4
    <2> QED BY <2>5, <2>6, Zenon
<1>7. \A i \in 1 .. k : M[i].path = SubSeq(t, 1, i)
    <2> SUFFICES ASSUME NEW i \in 1 .. k PROVE L[i].path = SubSeq(t, 1, i)
        BY <1>5
    <2>1. i \in 1 .. Len(SubSeq(t, 1, k)) /\ i \in 0 .. k
        BY <1>1, Prefix
    <2>2. L[i].path = SubSeq(SubSeq(t, 1, k), 1, i)
        BY <2>1 DEF LogOf
    <2> QED BY <2>1, <2>2, PrefixOfPrefix
<1>8. \A i \in 1 .. Len(t) : M[i].path = SubSeq(t, 1, i)
    BY <1>1, <1>6, <1>7
<1>9. LogOf(M, t)
    BY <1>5, <1>8 DEF LogOf
<1> QED BY <1>5, <1>6, <1>9 DEF M, R, Completes

\* Appending the record of a new tip.
LEMMA AppendedLog ==
    ASSUME NEW L, NEW t, LogOf(L, t), NEW l \in Labels
    PROVE  LET M == Append(L, NewRecord(Append(t, l)))
           IN  /\ LogOf(M, Append(t, l))
               /\ \A i \in 1 .. Len(L) : M[i] = L[i]
               /\ M[Len(L) + 1].full = TRUE
<1> DEFINE p == Append(t, l)
           r == NewRecord(p)
           M == Append(L, r)
<1>1. L \in Seq(StoredRecords) /\ t \in Seq(Labels) /\ Len(L) = Len(t) /\ Len(t) \in Nat
    BY DEF LogOf
<1>2. p \in Seq(Labels) /\ Len(p) = Len(t) + 1 /\ \A i \in 1 .. Len(t) : p[i] = t[i]
    BY <1>1
<1>3. r.path = p /\ r.full = TRUE /\ r \in StoredRecords
    BY <1>2 DEF NewRecord, StoredRecords
<1> HIDE DEF r
<1>4. /\ M \in Seq(StoredRecords) /\ Len(M) = Len(L) + 1 /\ M[Len(L) + 1] = r
      /\ \A i \in 1 .. Len(L) : M[i] = L[i]
    BY <1>1, <1>3
<1> HIDE DEF M, p
<1>5. ASSUME NEW i \in 1 .. Len(t) PROVE M[i].path = SubSeq(p, 1, i)
    <2>1. M[i].path = SubSeq(t, 1, i)
        BY <1>1, <1>4 DEF LogOf
    <2>2. i \in 0 .. Len(t) /\ i \in 0 .. Len(p)
        BY <1>1, <1>2
    <2>3. /\ SubSeq(t, 1, i) \in Seq(Labels) /\ Len(SubSeq(t, 1, i)) = i
          /\ \A j \in 1 .. i : SubSeq(t, 1, i)[j] = t[j]
        BY <1>1, <2>2, Prefix
    <2>4. /\ SubSeq(p, 1, i) \in Seq(Labels) /\ Len(SubSeq(p, 1, i)) = i
          /\ \A j \in 1 .. i : SubSeq(p, 1, i)[j] = p[j]
        BY <1>2, <2>2, Prefix
    <2>5. \A j \in 1 .. i : SubSeq(t, 1, i)[j] = SubSeq(p, 1, i)[j]
        BY <1>1, <1>2, <2>3, <2>4
    <2>6. SubSeq(t, 1, i) = SubSeq(p, 1, i)
        BY <2>3, <2>4, <2>5, SeqEqual
    <2> QED BY <2>1, <2>6
<1>6. M[Len(p)].path = SubSeq(p, 1, Len(p))
    <2>1. SubSeq(p, 1, Len(p)) = p
        BY <1>2, WholePrefix
    <2> QED BY <1>1, <1>2, <1>3, <1>4, <2>1
<1>7. \A i \in 1 .. Len(p) : M[i].path = SubSeq(p, 1, i)
    <2> SUFFICES ASSUME NEW i \in 1 .. Len(p) PROVE M[i].path = SubSeq(p, 1, i)
        OBVIOUS
    <2>1. i \in 1 .. Len(t) \/ i = Len(p)
        BY <1>1, <1>2
    <2> QED BY <1>5, <1>6, <2>1
<1>8. LogOf(M, p)
    BY <1>1, <1>2, <1>4, <1>7 DEF LogOf
<1>9. M[Len(L) + 1].full = TRUE
    BY <1>3, <1>4
<1> QED BY <1>4, <1>8, <1>9 DEF M, p, r

\* The bounded paths that a reorg is chosen from are sequences of labels.
LEMMA PathIsSeq ==
    ASSUME NEW p \in StoredPaths
    PROVE  p \in Seq(Labels)
<1>1. PICK n \in 0 .. MaxStoreHeight : p \in [1 .. n -> Labels]
    BY DEF StoredPaths
<1>2. CASE n \in Nat
    BY <1>1, <1>2
<1> QED BY <1>1, <1>2

\* A reorg's rewrite, stopped after n appends.
LEMMA RewrittenLog ==
    ASSUME LogOf(log, bcBlocks), NEW p \in Seq(Labels), NEW fork \in Nat, Reorgable(p, fork),
           NEW n \in 0 .. (Len(p) - fork)
    PROVE  /\ LogOf(Rewritten(p, fork, n), SubSeq(p, 1, fork + n))
           /\ \A i \in 1 .. fork : Rewritten(p, fork, n)[i] = log[i]
           /\ \A i \in (fork + 1) .. (fork + n) : Rewritten(p, fork, n)[i].full = TRUE
<1> DEFINE t == SubSeq(p, 1, fork + n)
           L == SubSeq(log, 1, fork)
<1>1. /\ fork < Len(p) /\ fork <= Len(bcBlocks) /\ SubSeq(p, 1, fork) = SubSeq(bcBlocks, 1, fork)
      /\ Len(log) = Len(bcBlocks) /\ Len(bcBlocks) \in Nat /\ Len(p) \in Nat /\ n \in Nat
    BY DEF Reorgable, LogOf
<1>2. fork + n \in 0 .. Len(p) /\ fork \in 0 .. Len(bcBlocks) /\ fork \in 0 .. (fork + n) /\ fork + n \in Nat
    BY <1>1
<1>3. t \in Seq(Labels) /\ Len(t) = fork + n
    BY <1>2, Prefix
<1>4. SubSeq(t, 1, fork) = SubSeq(bcBlocks, 1, fork)
    BY <1>1, <1>2, PrefixOfPrefix
<1>5. LogOf(L, SubSeq(t, 1, fork)) /\ \A i \in 1 .. fork : L[i] = log[i]
    BY <1>2, <1>4, TruncatedLog
<1>6. Rewritten(p, fork, n) = L \o Records(t, AllFull(p), fork + 1)
    <2>1. (IF fork < Len(log) THEN fork ELSE Len(log)) = fork
        BY <1>1
    <2> QED BY <2>1 DEF Rewritten
<1>7. \A i \in (fork + 1) .. (fork + n) : AllFull(p)[i] = TRUE
    BY <1>1, <1>2 DEF AllFull
<1> HIDE DEF t, L
<1>8. fork \in 0 .. Len(t) /\ \A i \in (fork + 1) .. Len(t) : AllFull(p)[i] \in BOOLEAN
    BY <1>2, <1>3, <1>7
<1> DEFINE M == L \o Records(t, AllFull(p), fork + 1)
<1>9. Completes(M, L, t, AllFull(p), fork)
    BY <1>3, <1>5, <1>8, ExtendedLog, ZenonT(30)
<1> HIDE DEF M
<1>10. \A i \in (fork + 1) .. (fork + n) : M[i].full = TRUE
    BY <1>3, <1>7, <1>9 DEF Completes
<1>11. \A i \in 1 .. fork : M[i] = log[i]
    BY <1>5, <1>9 DEF Completes
<1> QED BY <1>6, <1>9, <1>10, <1>11 DEF M, t, Completes

\* The staged log with the blocks committed since, when the snapshot still is a
\* prefix of the chain.
LEMMA StagedLog ==
    ASSUME PathInv, rewrite.phase # "idle", Unchanged
    PROVE  /\ LogOf(Staged, bcBlocks)
           /\ \A i \in 1 .. Len(rewrite.blocks) : Staged[i] = rewrite.blocks[i]
           /\ \A i \in (Len(rewrite.blocks) + 1) .. Len(bcBlocks) : Staged[i].full = full[i]
<1> DEFINE L == rewrite.blocks
           k == Len(L)
<1>1. /\ bcBlocks \in Seq(Labels) /\ full \in Seq(BOOLEAN) /\ Len(full) = Len(bcBlocks)
      /\ LogOf(L, TipOf(L)) /\ L \in Seq(StoredRecords)
    BY DEF PathInv, LogOf, FullFrom
<1>2. k \in 0 .. Len(bcBlocks)
    BY <1>1 DEF Unchanged
<1>3. TipOf(L) = SubSeq(bcBlocks, 1, k)
    <2>1. CASE L = <<>>
        <3>1. k = 0
            BY <2>1
        <3>2. SubSeq(bcBlocks, 1, 0) = <<>>
            BY <1>1
        <3> QED BY <2>1, <3>1, <3>2 DEF TipOf
    <2>2. CASE L # <<>>
        BY <2>2 DEF TipOf, Unchanged
    <2> QED BY <2>1, <2>2
<1>4. \A i \in (k + 1) .. Len(bcBlocks) : full[i] \in BOOLEAN
    BY <1>1, <1>2
<1> HIDE DEF L, k
<1>5. LogOf(L, SubSeq(bcBlocks, 1, k))
    BY <1>1, <1>3
<1>6. Completes(L \o Records(bcBlocks, full, k + 1), L, bcBlocks, full, k)
    BY <1>1, <1>2, <1>4, <1>5, ExtendedLog, ZenonT(30)
<1> QED BY <1>6 DEF Staged, L, k, Completes
-----------------------------------------------------------------------------
(* Bodies. *)

\* bodyHeightLocked returns the first height whose body is kept.
LEMMA BodiesFrom ==
    ASSUME NEW f, NEW b, FullFrom(f, b)
    PROVE  BodyHeight(f) = b + 1
<1> DEFINE S == {i \in DOMAIN f : f[i]}
<1>1. DOMAIN f = 1 .. Len(f) /\ Len(f) \in Nat /\ b \in 0 .. Len(f)
    BY DEF FullFrom
<1>2. S = (b + 1) .. Len(f)
    BY <1>1 DEF FullFrom
<1> HIDE DEF S
<1>3. CASE b = Len(f)
    <2>1. S = {}
        BY <1>1, <1>2, <1>3
    <2> QED BY <1>3, <2>1 DEF BodyHeight, S
<1>4. CASE b < Len(f)
    <2>a. b \in Int /\ Len(f) \in Int /\ b < Len(f)
        BY <1>1, <1>4
    <2>0. b + 1 \in (b + 1) .. Len(f) /\ \A y \in (b + 1) .. Len(f) : b + 1 <= y
        BY <2>a
    <2>1. b + 1 \in S /\ \A y \in S : b + 1 <= y
        BY <1>2, <2>0, Zenon
    <2>2. \A x \in S : (\A y \in S : x <= y) => x = b + 1
        BY <1>1, <1>2, <2>1
    <2>3. Min(S) = b + 1
        BY <2>1, <2>2 DEF Min
    <2> QED BY <2>1, <2>3 DEF BodyHeight, S
<1>5. b = Len(f) \/ b < Len(f)
    <2>1. \A n \in Nat : \A c \in 0 .. n : c = n \/ c < n
        OBVIOUS
    <2> QED BY <1>1, <2>1, Zenon
<1> QED BY <1>3, <1>4, <1>5

\* Pruning keeps the shape, and never brings a body back.
LEMMA PrunedBodies ==
    ASSUME StoreAssumption, NEW p \in Seq(Labels), NEW f, NEW b, FullFrom(f, b), Len(f) = Len(p)
    PROVE  LET g == Pruned(p, f)
           IN  /\ FullFrom(g, BodyHeight(g) - 1) /\ Len(g) = Len(p)
               /\ b <= BodyHeight(g) - 1 /\ BodyHeight(g) - 1 <= Len(p)
<1> DEFINE n == Len(p)
           g == Pruned(p, f)
           c == IF n < PruneKeep \/ n - PruneKeep - 1 < b THEN b ELSE n - PruneKeep - 1
<1>1. /\ n \in Nat /\ PruneKeep \in Nat /\ PruneKeep > 0 /\ b \in 0 .. n
      /\ DOMAIN p = 1 .. n /\ f \in Seq(BOOLEAN) /\ \A i \in 1 .. n : f[i] <=> i > b
    BY DEF StoreAssumption, FullFrom
<1>2. c \in 0 .. n /\ b <= c
    BY <1>1
<1>3. g = [i \in 1 .. n |-> f[i] /\ (n < PruneKeep \/ i >= n - PruneKeep)]
    BY <1>1 DEF Pruned
<1>4. g \in [1 .. n -> BOOLEAN]
    BY <1>3
<1>5. \A i \in 1 .. n : g[i] <=> (f[i] /\ (n < PruneKeep \/ i >= n - PruneKeep))
    BY <1>3
<1> HIDE DEF g
<1>6. g \in Seq(BOOLEAN) /\ Len(g) = n
    BY <1>1, <1>4
<1>7. \A i \in 1 .. n : g[i] <=> i > c
    BY <1>1, <1>5
<1>8. FullFrom(g, c)
    BY <1>2, <1>6, <1>7 DEF FullFrom
<1>9. BodyHeight(g) = c + 1
    BY <1>8, BodiesFrom
<1>10. BodyHeight(g) - 1 = c
    BY <1>2, <1>9
<1> HIDE DEF c
<1> QED BY <1>1, <1>2, <1>6, <1>8, <1>10 DEF g

\* AddBlock's block has its body.
LEMMA AppendedBodies ==
    ASSUME NEW f, NEW b, FullFrom(f, b)
    PROVE  FullFrom(Append(f, TRUE), b) /\ Len(Append(f, TRUE)) = Len(f) + 1
<1> DEFINE g == Append(f, TRUE)
<1>1. f \in Seq(BOOLEAN) /\ Len(f) \in Nat /\ b \in 0 .. Len(f)
    BY DEF FullFrom
<1>2. /\ g \in Seq(BOOLEAN) /\ Len(g) = Len(f) + 1
      /\ \A i \in 1 .. Len(f) : g[i] = f[i]
      /\ g[Len(f) + 1] = TRUE
    BY <1>1
<1> HIDE DEF g
<1>3. ASSUME NEW i \in 1 .. Len(g) PROVE g[i] <=> i > b
    <2>1. CASE i \in 1 .. Len(f)
        BY <1>2, <2>1 DEF FullFrom
    <2>2. CASE i = Len(f) + 1
        <3>1. i > b
            BY <1>1, <2>2
        <3> QED BY <1>2, <2>2, <3>1
    <2> QED BY <1>1, <1>2, <2>1, <2>2
<1>4. b \in 0 .. Len(g)
    BY <1>1, <1>2
<1> QED BY <1>2, <1>3, <1>4 DEF FullFrom, g

\* So have the blocks of a reorg's suffix.
LEMMA ReorgedBodies ==
    ASSUME NEW f, NEW b, FullFrom(f, b), NEW fork \in b .. Len(f), NEW m \in Nat
    PROVE  LET g == SubSeq(f, 1, fork) \o [i \in 1 .. m |-> TRUE]
           IN  FullFrom(g, b) /\ Len(g) = fork + m
<1> DEFINE u == SubSeq(f, 1, fork)
           v == [i \in 1 .. m |-> TRUE]
           g == u \o v
<1>1. f \in Seq(BOOLEAN) /\ Len(f) \in Nat /\ b \in 0 .. Len(f) /\ fork \in 0 .. Len(f)
    BY DEF FullFrom
<1>2. u \in Seq(BOOLEAN) /\ Len(u) = fork /\ \A i \in 1 .. fork : u[i] = f[i]
    BY <1>1, Prefix
<1>3. v \in Seq(BOOLEAN) /\ Len(v) = m /\ \A i \in 1 .. m : v[i] = TRUE
    <2>1. v \in [1 .. m -> BOOLEAN] /\ \A i \in 1 .. m : v[i] = TRUE
        BY Zenon
    <2> HIDE DEF v
    <2> QED BY <2>1, SeqDef
<1> HIDE DEF u, v
<1>4. /\ g \in Seq(BOOLEAN) /\ Len(g) = fork + m
      /\ \A i \in 1 .. fork : g[i] = u[i]
      /\ \A i \in (fork + 1) .. (fork + m) : g[i] = v[i - fork]
    BY <1>1, <1>2, <1>3
<1> HIDE DEF g
<1>5. ASSUME NEW i \in 1 .. (fork + m) PROVE g[i] <=> i > b
    <2>1. CASE i \in 1 .. fork
        <3>1. i \in 1 .. Len(f)
            BY <1>1, <2>1
        <3> QED BY <1>2, <1>4, <2>1, <3>1 DEF FullFrom
    <2>2. CASE i \in (fork + 1) .. (fork + m)
        <3>1. i > b /\ i - fork \in 1 .. m
            BY <1>1, <2>2
        <3> QED BY <1>3, <1>4, <2>2, <3>1
    <2> QED BY <1>1, <2>1, <2>2
<1>6. b \in 0 .. Len(g)
    BY <1>1, <1>4
<1> QED BY <1>4, <1>5, <1>6 DEF FullFrom, g, u, v

\* A reorg only disconnects blocks that still have their undo logs.
LEMMA ReorgAboveBase ==
    ASSUME PathInv, up, NEW p \in Seq(Labels), NEW fork \in Nat, Reorgable(p, fork)
    PROVE  fork \in Base .. Len(full)
<1>1. /\ FullFrom(full, Base) /\ Len(full) = Len(bcBlocks) /\ Base \in 0 .. Len(full)
      /\ Len(full) \in Nat /\ fork <= Len(full)
      /\ \A i \in (fork + 1) .. Len(full) : full[i]
    BY DEF PathInv, FullFrom, Reorgable
<1>2. ASSUME Base > fork PROVE FALSE
    <2>1. Base \in (fork + 1) .. Len(full) /\ Base \in 1 .. Len(full) /\ ~(Base > Base)
        BY <1>1, <1>2
    <2> HIDE DEF Base
    <2> QED BY <1>1, <2>1 DEF FullFrom
<1> HIDE DEF Base
<1> QED BY <1>1, <1>2
-----------------------------------------------------------------------------
(* What each operation does to the log and to the bodies. *)

\* What a restart would make of the next log.
LEMMA NextLog ==
    ASSUME NEW t, LogOf(log', t)
    PROVE  Recovered' = t /\ LogOf(log', Recovered')
<1>1. TipOf(log') = t
    BY LogTip
<1>2. Recovered' = t
    BY <1>1 DEF Recovered, TipOf
<1> QED BY <1>2

\* Open trusts the sidecar for the bodies up to its height, and none below the
\* pruning mark.
LEMMA OpenBodies ==
    ASSUME StoreAssumption, PathInv, Open
    PROVE  /\ FullFrom(full', Base') /\ Len(full') = Len(bcBlocks')
           /\ HasPlaceholder => SidecarHeight \in Nat /\ SidecarHeight <= Base'
<1> DEFINE base == IF HasPlaceholder THEN SidecarHeight ELSE 0
           f == [i \in DOMAIN log |-> i > base]
<1>1. /\ Recovered \in Seq(Labels) /\ Len(log) = Len(Recovered) /\ Len(log) \in Nat
      /\ DOMAIN log = 1 .. Len(log)
    BY DEF PathInv, LogOf
<1>2. HasPlaceholder => SidecarHeight \in 0 .. Len(log)
    <2> HAVE HasPlaceholder
    <2>1. sidecar # <<>> /\ SidecarHeight <= Len(log)
        BY DEF Open, OpenOk, SidecarCovers
    <2>2. SidecarHeight \in Nat
        BY <2>1 DEF PathInv, SidecarHeight
    <2> QED BY <1>1, <2>1, <2>2
<1>3. base \in 0 .. Len(log)
    BY <1>1, <1>2
<1>4. f \in Seq(BOOLEAN) /\ Len(f) = Len(log) /\ \A i \in 1 .. Len(log) : f[i] <=> i > base
    <2> HIDE DEF base
    <2>1. f \in [1 .. Len(log) -> BOOLEAN] /\ \A i \in 1 .. Len(log) : f[i] <=> i > base
        <3>1. \A i \in 1 .. Len(log) : (i > base) \in BOOLEAN
            BY <1>1, <1>3
        <3>2. f = [i \in 1 .. Len(log) |-> i > base]
            BY <1>1
        <3>3. \A i \in 1 .. Len(log) : f[i] = (i > base)
            BY <3>2, Zenon
        <3> QED BY <3>1, <3>2, <3>3, Zenon
    <2> HIDE DEF f
    <2> QED BY <1>1, <2>1, SeqDef
<1>5. full' = Pruned(Recovered, f) /\ bcBlocks' = Recovered
    BY DEF Open
<1> HIDE DEF f
<1>6. FullFrom(f, base)
    BY <1>3, <1>4 DEF FullFrom
<1>7. /\ FullFrom(full', BodyHeight(full') - 1) /\ Len(full') = Len(Recovered)
      /\ base <= BodyHeight(full') - 1
    BY <1>1, <1>4, <1>5, <1>6, PrunedBodies
<1>8. HasPlaceholder => SidecarHeight \in Nat /\ SidecarHeight <= Base'
    BY <1>2, <1>7 DEF Base
<1> QED BY <1>5, <1>7, <1>8 DEF Base

\* A committed block.
LEMMA AddBlockStep ==
    ASSUME StoreAssumption, PathInv, NEW l \in Labels, StoreAddBlock(l)
    PROVE  /\ LogOf(log', bcBlocks') /\ \A i \in 1 .. Len(bcBlocks) : log'[i] = log[i]
           /\ log'[Len(bcBlocks) + 1].full = TRUE
           /\ FullFrom(full', Base') /\ Len(full') = Len(bcBlocks') /\ Base <= Base'
<1>1. /\ bcBlocks \in Seq(Labels) /\ LogOf(log, bcBlocks) /\ Len(log) = Len(bcBlocks)
      /\ FullFrom(full, Base) /\ Len(full) = Len(bcBlocks)
    BY DEF PathInv, StoreAddBlock, LogOf
<1>2. /\ LogOf(log', bcBlocks') /\ \A i \in 1 .. Len(bcBlocks) : log'[i] = log[i]
      /\ log'[Len(bcBlocks) + 1].full = TRUE
    BY <1>1, AppendedLog DEF StoreAddBlock
<1>3. FullFrom(Append(full, TRUE), Base) /\ Len(Append(full, TRUE)) = Len(full) + 1
    BY <1>1, AppendedBodies
<1>4. bcBlocks' \in Seq(Labels) /\ Len(bcBlocks') = Len(bcBlocks) + 1
    BY <1>1 DEF StoreAddBlock
<1>5. full' = Pruned(bcBlocks', Append(full, TRUE))
    BY DEF StoreAddBlock
<1>6. /\ FullFrom(full', BodyHeight(full') - 1) /\ Len(full') = Len(bcBlocks')
      /\ Base <= BodyHeight(full') - 1
    BY <1>1, <1>3, <1>4, <1>5, PrunedBodies
<1> QED BY <1>2, <1>6 DEF Base

\* A completed reorg.
LEMMA ReorgStep ==
    ASSUME StoreAssumption, PathInv, NEW p \in Seq(Labels), NEW fork \in Nat, Reorg(p, fork)
    PROVE  FullFrom(full', Base') /\ Len(full') = Len(bcBlocks') /\ Base <= Base'
<1> DEFINE m == Len(p) - fork
           g == SubSeq(full, 1, fork) \o [i \in 1 .. m |-> TRUE]
<1>1. /\ up /\ Reorgable(p, fork) /\ FullFrom(full, Base) /\ Len(full) = Len(bcBlocks)
      /\ full' = Pruned(p, g) /\ bcBlocks' = p
    BY DEF PathInv, Reorg
<1>2. fork \in Base .. Len(full)
    BY <1>1, ReorgAboveBase
<1>3. m \in Nat /\ fork + m = Len(p)
    BY <1>1 DEF Reorgable
<1> HIDE DEF m
<1>4. FullFrom(g, Base) /\ Len(g) = Len(p)
    BY <1>1, <1>2, <1>3, ReorgedBodies
<1> HIDE DEF g
<1>5. /\ FullFrom(full', BodyHeight(full') - 1) /\ Len(full') = Len(p)
      /\ Base <= BodyHeight(full') - 1
    BY <1>1, <1>4, PrunedBodies
<1> QED BY <1>1, <1>5 DEF Base

\* Phase 1 of a compaction.
LEMMA SnapshotStep ==
    ASSUME PathInv, CompactSnapshot
    PROVE  /\ Completes(rewrite'.blocks, <<>>, bcBlocks, full, 0)
           /\ rewrite'.at \in Seq(Labels) /\ Len(rewrite'.at) = Base /\ rewrite'.at = SubSeq(bcBlocks, 1, Base)
           /\ rewrite'.phase = "sidecar"
           /\ rewrite' = [phase |-> rewrite'.phase, blocks |-> rewrite'.blocks, at |-> rewrite'.at]
<1>1. /\ bcBlocks \in Seq(Labels) /\ FullFrom(full, Base) /\ Len(full) = Len(bcBlocks)
    BY DEF PathInv, CompactSnapshot
<1>2. Base \in 0 .. Len(bcBlocks) /\ full \in Seq(BOOLEAN)
    BY <1>1 DEF FullFrom
<1>3. /\ rewrite'.blocks = Records(bcBlocks, full, 1) /\ rewrite'.at = SubSeq(bcBlocks, 1, Base)
      /\ rewrite'.phase = "sidecar" /\ rewrite' = [phase |-> rewrite'.phase, blocks |-> rewrite'.blocks, at |-> rewrite'.at]
    BY DEF CompactSnapshot, Base
<1>4. rewrite'.at \in Seq(Labels) /\ Len(rewrite'.at) = Base
    BY <1>1, <1>2, <1>3, Prefix
<1>5. LogOf(<<>>, SubSeq(bcBlocks, 1, 0))
    <2>1. SubSeq(bcBlocks, 1, 0) = <<>>
        BY <1>1
    <2> QED BY <2>1 DEF LogOf
<1>6. 0 \in 0 .. Len(bcBlocks) /\ \A i \in (0 + 1) .. Len(bcBlocks) : full[i] \in BOOLEAN
    BY <1>1, <1>2
<1>7. Completes(<<>> \o Records(bcBlocks, full, 0 + 1), <<>>, bcBlocks, full, 0)
    BY <1>1, <1>5, <1>6, ExtendedLog, ZenonT(30)
<1>8. <<>> \o Records(bcBlocks, full, 0 + 1) = Records(bcBlocks, full, 1)
    <2>1. Records(bcBlocks, full, 1) \in Seq({Records(bcBlocks, full, 1)[i] : i \in 1 .. Len(bcBlocks)})
        <3> DEFINE R == Records(bcBlocks, full, 1)
        <3>2. Len(bcBlocks) \in Nat
            BY <1>1
        <3>4. R = [i \in 1 .. Len(bcBlocks) |-> R[i]]
            BY <3>2 DEF Records
        <3> HIDE DEF R
        <3>1. R \in [1 .. Len(bcBlocks) -> {R[i] : i \in 1 .. Len(bcBlocks)}]
            BY <3>4, Zenon
        <3>3. R \in Seq({R[i] : i \in 1 .. Len(bcBlocks)})
            BY <3>1, <3>2, SeqDef
        <3> QED BY <3>3 DEF R
    <2>2. 0 + 1 = 1
        OBVIOUS
    <2> QED BY <2>1, <2>2
<1>9. Completes(rewrite'.blocks, <<>>, bcBlocks, full, 0)
    BY <1>3, <1>7, <1>8
<1> QED BY <1>3, <1>4, <1>9

\* Phase 3, also when it fails halfway: what reopening recovers stays.
LEMMA SwapStep ==
    ASSUME PathInv, Swap \/ SwapFails
    PROVE  LogOf(log', Recovered)
<1>1. CASE log' = log
    BY <1>1 DEF PathInv
<1>2. CASE log' # log
    <2>1. log' = Staged /\ Unchanged /\ ~sPoisoned /\ rewrite.phase # "idle"
        BY <1>2 DEF Swap, SwapFails
    <2>2. Recovered = bcBlocks
        BY <2>1 DEF PathInv
    <2> QED BY <2>1, <2>2, StagedLog
<1> QED BY <1>1, <1>2
-----------------------------------------------------------------------------
(* Step by step: disk and memory. *)

\* A new node.
LEMMA PathInit == StoreInit => PathInv
<1> SUFFICES ASSUME StoreInit PROVE PathInv
    OBVIOUS
<1>1. LogOf(log, Recovered)
    BY DEF StoreInit, LogOf, Recovered
<1>2. BodyHeight(full) = 1
    BY DEF StoreInit, BodyHeight
<1>3. FullFrom(full, Base) /\ Len(full) = Len(bcBlocks)
    BY <1>2 DEF StoreInit, FullFrom, Base
<1>4. Recovered = bcBlocks /\ bcBlocks \in Seq(Labels)
    BY DEF StoreInit, Recovered
<1>5. rewrite.phase = "idle" /\ rewrite = [phase |-> rewrite.phase, blocks |-> rewrite.blocks, at |-> rewrite.at]
    BY DEF StoreInit, NoJob
<1> QED BY <1>1, <1>3, <1>4, <1>5 DEF StoreInit, PathInv

\* What an interrupted append or reorg leaves is the log of some chain.
LEMMA PartialLog ==
    ASSUME PathInv, up, ~sPoisoned
    PROVE  /\ \A l \in Labels : log' = Append(log, NewRecord(Append(bcBlocks, l))) =>
                  \E t : LogOf(log', t)
           /\ \A p \in StoredPaths, fork \in Nat : Reorgable(p, fork) =>
                  \A n \in 0 .. (Len(p) - fork) : log' = Rewritten(p, fork, n) => \E t : LogOf(log', t)
<1>1. LogOf(log, bcBlocks)
    BY DEF PathInv
<1>2. ASSUME NEW l \in Labels, log' = Append(log, NewRecord(Append(bcBlocks, l)))
      PROVE  \E t : LogOf(log', t)
    <2>1. LogOf(log', Append(bcBlocks, l))
        BY <1>1, <1>2, AppendedLog
    <2> QED BY <2>1
<1>3. ASSUME NEW p \in StoredPaths, NEW fork \in Nat, Reorgable(p, fork), NEW n \in 0 .. (Len(p) - fork),
             log' = Rewritten(p, fork, n)
      PROVE  \E t : LogOf(log', t)
    <2>1. LogOf(log', SubSeq(p, 1, fork + n))
        BY <1>1, <1>3, PathIsSeq, RewrittenLog
    <2> QED BY <2>1
<1> QED BY <1>2, <1>3

\* Every step keeps disk and memory together.
LEMMA PathStep == StoreAssumption /\ PathInv /\ [StoreNext]_storeVars => PathInv'
<1> SUFFICES ASSUME StoreAssumption, PathInv, [StoreNext]_storeVars PROVE PathInv'
    OBVIOUS
<1> USE DEF memory, disk
<1>1. CASE Open
    <2>1. Recovered' = Recovered /\ LogOf(log', Recovered')
        BY <1>1 DEF Open, Recovered, PathInv
    <2>2. bcBlocks' = Recovered /\ bcBlocks' \in Seq(Labels)
        BY <1>1 DEF Open, PathInv, LogOf
    <2>3. FullFrom(full', Base') /\ Len(full') = Len(bcBlocks')
        BY <1>1, OpenBodies
    <2>4. rewrite'.phase = "idle" /\ rewrite' = rewrite /\ up' = TRUE /\ sPoisoned' = FALSE /\ sidecar' = sidecar
        BY <1>1 DEF Open, PathInv
    <2> QED BY <2>1, <2>2, <2>3, <2>4 DEF PathInv
<1>2. ASSUME NEW l \in Labels, StoreAddBlock(l) PROVE PathInv'
    <2>1. LogOf(log', bcBlocks') /\ FullFrom(full', Base') /\ Len(full') = Len(bcBlocks')
        BY <1>2, AddBlockStep
    <2>2. Recovered' = bcBlocks' /\ LogOf(log', Recovered') /\ bcBlocks' \in Seq(Labels)
        BY <2>1, NextLog DEF LogOf
    <2>3. UNCHANGED <<up, sidecar, sPoisoned, rewrite>>
        BY <1>2 DEF StoreAddBlock
    <2> QED BY <2>1, <2>2, <2>3 DEF PathInv
<1>3. ASSUME NEW p \in StoredPaths, NEW fork \in Nat, Reorg(p, fork) PROVE PathInv'
    <2>1. p \in Seq(Labels)
        BY PathIsSeq
    <2>2. FullFrom(full', Base') /\ Len(full') = Len(bcBlocks')
        BY <1>3, <2>1, ReorgStep
    <2>3. LogOf(log, bcBlocks) /\ Reorgable(p, fork) /\ log' = Rewritten(p, fork, Len(p) - fork) /\ bcBlocks' = p
        BY <1>3 DEF Reorg, PathInv
    <2>4. Len(p) - fork \in 0 .. (Len(p) - fork) /\ fork + (Len(p) - fork) = Len(p)
        BY <2>1, <2>3 DEF Reorgable
    <2>5. LogOf(log', SubSeq(p, 1, fork + (Len(p) - fork)))
        BY <2>1, <2>3, <2>4, RewrittenLog
    <2>6. LogOf(log', bcBlocks')
        BY <2>1, <2>3, <2>4, <2>5, WholePrefix
    <2>7. Recovered' = bcBlocks' /\ LogOf(log', Recovered') /\ bcBlocks' \in Seq(Labels)
        BY <2>6, NextLog DEF LogOf
    <2>8. UNCHANGED <<up, sidecar, sPoisoned, rewrite>>
        BY <1>3 DEF Reorg
    <2> QED BY <2>2, <2>7, <2>8 DEF PathInv
<1>4. ASSUME NEW p \in StoredPaths, NEW fork \in Nat, ReorgFails(p, fork) PROVE PathInv'
    <2>1. up /\ ~sPoisoned /\ Reorgable(p, fork)
        BY <1>4 DEF ReorgFails
    <2>2. \E t : LogOf(log', t)
        <3>1. CASE log' = log
            BY <3>1 DEF PathInv
        <3>2. CASE log' # log
            BY <1>4, <2>1, <3>2, PartialLog DEF ReorgFails
        <3> QED BY <3>1, <3>2
    <2>3. LogOf(log', Recovered')
        BY <2>2, NextLog
    <2>4. UNCHANGED <<up, bcBlocks, full, sidecar, rewrite>> /\ sPoisoned' = TRUE
        BY <1>4 DEF ReorgFails
    <2> QED BY <2>3, <2>4 DEF PathInv, Base
<1>5. CASE CompactSnapshot
    <2>1. /\ Completes(rewrite'.blocks, <<>>, bcBlocks, full, 0) /\ rewrite'.at \in Seq(Labels)
          /\ rewrite' = [phase |-> rewrite'.phase, blocks |-> rewrite'.blocks, at |-> rewrite'.at]
        BY <1>5, SnapshotStep
    <2>2. LogOf(rewrite'.blocks, TipOf(rewrite'.blocks))
        BY <2>1, LogTip DEF Completes
    <2>3. up /\ UNCHANGED <<up, bcBlocks, full, log, sidecar, sPoisoned>>
        BY <1>5 DEF CompactSnapshot
    <2> QED BY <2>1, <2>2, <2>3 DEF PathInv, Base, Recovered, TipOf
<1>6. CASE WriteSidecar \/ StageLog
    <2>1. UNCHANGED <<up, bcBlocks, full, log, sPoisoned>> /\ rewrite.phase # "idle"
        BY <1>6 DEF WriteSidecar, StageLog
    <2>4. PICK x \in {"stage", "swap"} : rewrite' = [rewrite EXCEPT !.phase = x]
        BY <1>6 DEF WriteSidecar, StageLog
    <2>5. rewrite' = [phase |-> x, blocks |-> rewrite.blocks, at |-> rewrite.at]
        BY <2>4 DEF PathInv
    <2>2. rewrite'.at = rewrite.at /\ rewrite'.blocks = rewrite.blocks /\ rewrite' = [phase |-> rewrite'.phase, blocks |-> rewrite'.blocks, at |-> rewrite'.at]
        BY <2>5
    <2>3. sidecar' = sidecar \/ sidecar' = <<rewrite.at>>
        BY <1>6 DEF WriteSidecar, StageLog
    <2> QED BY <2>1, <2>2, <2>3 DEF PathInv, Base, Recovered, TipOf
<1>7. CASE Swap \/ SwapFails
    <2>1. LogOf(log', Recovered)
        BY <1>7, SwapStep
    <2>2. Recovered' = Recovered /\ LogOf(log', Recovered')
        BY <2>1, NextLog
    <2>3. UNCHANGED <<up, bcBlocks, full, sidecar>> /\ rewrite' = NoJob
        BY <1>7 DEF Swap, SwapFails
    <2>4. sPoisoned' = sPoisoned \/ sPoisoned' = TRUE
        BY <1>7 DEF Swap, SwapFails
    <2>5. rewrite'.phase = "idle" /\ rewrite' = [phase |-> rewrite'.phase, blocks |-> rewrite'.blocks, at |-> rewrite'.at]
        BY <2>3 DEF NoJob
    <2> QED BY <2>2, <2>3, <2>4, <2>5 DEF PathInv, Base
<1>8. CASE CompactFails \/ AppendFails
    <2>1. /\ UNCHANGED <<up, bcBlocks, full, log, sidecar, sPoisoned>>
          /\ rewrite' = NoJob \/ UNCHANGED rewrite
        BY <1>8 DEF CompactFails, AppendFails
    <2>2. rewrite' = NoJob => rewrite'.phase = "idle" /\ rewrite' = [phase |-> rewrite'.phase, blocks |-> rewrite'.blocks, at |-> rewrite'.at]
        BY DEF NoJob
    <2> QED BY <2>1, <2>2 DEF PathInv, Base, Recovered
<1>9. ASSUME Crash \/ (\E l \in Labels : CrashInAppend(l))
             \/ (\E p \in StoredPaths : \E fork \in Nat : CrashInReorg(p, fork))
      PROVE  PathInv'
    <2>1. up' = FALSE /\ rewrite' = NoJob /\ UNCHANGED <<sidecar, sPoisoned>>
        BY <1>9 DEF Crash, CrashInAppend, CrashInReorg, Down
    <2>4. rewrite'.phase = "idle" /\ rewrite' = [phase |-> rewrite'.phase, blocks |-> rewrite'.blocks, at |-> rewrite'.at]
        BY <2>1 DEF NoJob
    <2>2. \E t : LogOf(log', t)
        <3>1. CASE log' = log
            BY <3>1 DEF PathInv
        <3>2. CASE log' # log
            BY <1>9, <3>2, PartialLog DEF Crash, CrashInAppend, CrashInReorg
        <3> QED BY <3>1, <3>2
    <2>3. LogOf(log', Recovered')
        BY <2>2, NextLog
    <2> QED BY <2>1, <2>3, <2>4 DEF PathInv
<1>10. CASE UNCHANGED storeVars
    BY <1>10 DEF storeVars, PathInv, Base, Recovered
<1>11. 0 .. MaxStoreHeight \subseteq Nat
    BY DEF StoreAssumption
<1> QED BY <1>1, <1>2, <1>3, <1>4, <1>5, <1>6, <1>7, <1>8, <1>9, <1>10, <1>11 DEF StoreNext

\* So they always are.
LEMMA PathHolds ==
    ASSUME StoreAssumption
    PROVE  StoreSpec => []PathInv
<1>1. PathInv /\ [StoreNext]_storeVars => PathInv'
    BY PathStep
<1> QED BY <1>1, PathInit, PTL DEF StoreSpec

\* Blockchain.AddBlock, reorgLocked and CompactStore against Open, for every chain
\* length, pruning window and reorg depth: unless the store has declared itself
\* poisoned, reopening it gives exactly the chain that the node is running.
THEOREM StoreRecovers ==
    ASSUME StoreAssumption
    PROVE  StoreSpec => []RecoversCommitted
<1>1. PathInv => RecoversCommitted
    BY DEF PathInv, RecoversCommitted
<1> QED BY <1>1, PathHolds, PTL

\* CompactStore, all phases, succeeding or failing at any file operation: what
\* reopening the store would recover is never changed by a step of a rewrite.
THEOREM CompactionKeepsAll ==
    ASSUME StoreAssumption
    PROVE  StoreSpec => CompactionLosesNothing
<1>1. PathInv /\ [StoreNext]_storeVars => [rewrite # rewrite' /\ up' => Recovered' = Recovered]_storeVars
    <2> SUFFICES ASSUME PathInv, StoreNext, rewrite # rewrite', up' PROVE Recovered' = Recovered
        OBVIOUS
    <2>1. CASE Swap \/ SwapFails
        BY <2>1, SwapStep, NextLog
    <2>2. CASE ~(Swap \/ SwapFails)
        <3>1. CompactSnapshot \/ WriteSidecar \/ StageLog \/ CompactFails
            BY <2>2 DEF StoreNext, Open, AppendFails, StoreAddBlock, Reorg, ReorgFails,
                        Crash, CrashInAppend, CrashInReorg, Down
        <3>2. log' = log
            BY <3>1 DEF CompactSnapshot, WriteSidecar, StageLog, CompactFails, disk
        <3> QED BY <3>2 DEF Recovered
    <2> QED BY <2>1, <2>2
<1> QED BY <1>1, PathHolds, PTL DEF StoreSpec, CompactionLosesNothing
-----------------------------------------------------------------------------
(* Step by step: the bodies that are gone, and the sidecar. *)

\* The log M of the chain u keeps the records of the log L of t up to fork, and
\* adds blocks with their bodies.
Follows(M, u, L, t, fork) ==
    /\ LogOf(L, t) /\ LogOf(M, u)
    /\ fork \in 0 .. Len(t) /\ fork <= Len(u)
    /\ SubSeq(u, 1, fork) = SubSeq(t, 1, fork)
    /\ \A i \in 1 .. fork : M[i] = L[i]
    /\ \A i \in (fork + 1) .. Len(u) : M[i].full = TRUE

\* Chains that agree up to n agree below it.
LEMMA SamePrefix ==
    ASSUME NEW s \in Seq(Labels), NEW t \in Seq(Labels), NEW n \in 0 .. Len(s), n <= Len(t),
           SubSeq(s, 1, n) = SubSeq(t, 1, n), NEW k \in 0 .. n
    PROVE  SubSeq(s, 1, k) = SubSeq(t, 1, k)
<1>1. n \in 0 .. Len(t)
    OBVIOUS
<1>2. SubSeq(SubSeq(s, 1, n), 1, k) = SubSeq(s, 1, k)
    BY PrefixOfPrefix
<1>3. SubSeq(SubSeq(t, 1, n), 1, k) = SubSeq(t, 1, k)
    BY <1>1, PrefixOfPrefix
<1> QED BY <1>2, <1>3

\* A state below the fork still supports the log that follows.
LEMMA SupportKept ==
    ASSUME NEW M, NEW u, NEW L, NEW t, NEW fork, Follows(M, u, L, t, fork),
           NEW s, Supports(s, L, t), Len(s) <= fork
    PROVE  Supports(s, M, u)
<1>1. /\ t \in Seq(Labels) /\ u \in Seq(Labels) /\ Len(M) = Len(u) /\ Len(L) = Len(t)
      /\ fork \in 0 .. Len(t) /\ fork <= Len(u) /\ SubSeq(u, 1, fork) = SubSeq(t, 1, fork)
    BY DEF Follows, LogOf
<1>2. s \in Seq(Labels) /\ s = SubSeq(t, 1, Len(s)) /\ Len(s) \in 0 .. fork
    BY <1>1 DEF Supports
<1>3. SubSeq(t, 1, Len(s)) = SubSeq(u, 1, Len(s))
    BY <1>1, <1>2, SamePrefix
<1>4. ASSUME NEW i \in (Len(s) + 1) .. Len(M) PROVE M[i].full
    <2>1. CASE i \in (fork + 1) .. Len(u)
        BY <2>1 DEF Follows
    <2>2. CASE i \in 1 .. fork
        <3>1. i \in (Len(s) + 1) .. Len(L)
            BY <1>1, <1>2, <2>2
        <3> QED BY <2>2, <3>1 DEF Supports, CoveredBy, Follows
    <2> QED BY <1>1, <1>2, <2>1, <2>2
<1>5. Len(s) <= Len(M)
    BY <1>1, <1>2
<1> QED BY <1>2, <1>3, <1>4, <1>5 DEF Supports, CoveredBy

\* A body that is missing afterwards was missing before.
LEMMA LostBefore ==
    ASSUME NEW M, NEW u, NEW L, NEW t, NEW fork, Follows(M, u, L, t, fork),
           \E i \in DOMAIN M : ~M[i].full
    PROVE  \E i \in DOMAIN L : ~L[i].full
<1>1. /\ DOMAIN M = 1 .. Len(u) /\ DOMAIN L = 1 .. Len(t) /\ Len(u) \in Nat /\ Len(t) \in Nat
      /\ fork \in 0 .. Len(t)
    BY DEF Follows, LogOf
<1>2. PICK i \in 1 .. Len(u) : ~M[i].full
    BY <1>1
<1>3. i \notin (fork + 1) .. Len(u)
    BY <1>2 DEF Follows
<1>4. i \in 1 .. fork /\ i \in 1 .. Len(t)
    BY <1>1, <1>3
<1>5. M[i] = L[i]
    BY <1>4 DEF Follows
<1> QED BY <1>1, <1>2, <1>4, <1>5

\* A block or a reorg, whole or interrupted, on a healthy store.
LEMMA CoverKept ==
    ASSUME PathInv, CoverInv, up, ~sPoisoned, sidecar' = sidecar,
           NEW u, NEW fork, Base <= fork, Follows(log', u, log, bcBlocks, fork)
    PROVE  /\ Recovered' = u
           /\ Base <= Len(u) /\ SubSeq(u, 1, Base) = SubSeq(bcBlocks, 1, Base)
           /\ HasPlaceholder' => /\ sidecar # <<>> /\ Supports(sidecar[1], log', u)
                                 /\ SidecarHeight <= Base
           /\ rewrite.phase # "idle" => Supports(rewrite.at, log', u)
<1>1. /\ Recovered = bcBlocks /\ FullFrom(full, Base) /\ Len(full) = Len(bcBlocks) /\ bcBlocks \in Seq(Labels)
    BY DEF PathInv
<1>2. /\ Base \in 0 .. Len(bcBlocks) /\ fork \in 0 .. Len(bcBlocks) /\ fork <= Len(u) /\ u \in Seq(Labels)
      /\ SubSeq(u, 1, fork) = SubSeq(bcBlocks, 1, fork)
    BY <1>1 DEF FullFrom, Follows, LogOf
<1>3. Recovered' = u
    BY NextLog DEF Follows
<1>4. Base <= Len(u) /\ Base \in 0 .. fork /\ fork \in 0 .. Len(u) /\ fork <= Len(bcBlocks)
    BY <1>2
<1>5. SubSeq(u, 1, Base) = SubSeq(bcBlocks, 1, Base)
    BY <1>1, <1>2, <1>4, SamePrefix
<1>6. ASSUME HasPlaceholder'
      PROVE  sidecar # <<>> /\ Supports(sidecar[1], log', u) /\ SidecarHeight <= Base
    <2>1. \E i \in DOMAIN log' : ~log'[i].full
        BY <1>6 DEF HasPlaceholder
    <2>2. HasPlaceholder
        BY <2>1, LostBefore DEF HasPlaceholder
    <2>3. sidecar # <<>> /\ Supports(sidecar[1], log, bcBlocks) /\ SidecarHeight <= Base
        BY <1>1, <2>2 DEF CoverInv
    <2>4. Len(sidecar[1]) <= fork
        BY <1>2, <2>3 DEF SidecarHeight, Supports
    <2>5. Supports(sidecar[1], log', u)
        BY <2>3, <2>4, SupportKept
    <2> QED BY <2>3, <2>5
<1>7. ASSUME rewrite.phase # "idle" PROVE Supports(rewrite.at, log', u)
    <2>1. Supports(rewrite.at, log, bcBlocks) /\ Len(rewrite.at) <= Base
        BY <1>1, <1>7 DEF CoverInv
    <2>2. Len(rewrite.at) <= fork
        BY <1>2, <2>1 DEF Supports
    <2> QED BY <2>1, <2>2, SupportKept
<1> QED BY <1>3, <1>4, <1>5, <1>6, <1>7

\* Both kinds of write follow the log that was there.
LEMMA WritesFollow ==
    ASSUME PathInv, up, ~sPoisoned
    PROVE  /\ \A l \in Labels : log' = Append(log, NewRecord(Append(bcBlocks, l))) =>
                  Follows(log', Append(bcBlocks, l), log, bcBlocks, Len(bcBlocks))
           /\ \A p \in StoredPaths, fork \in Nat : Reorgable(p, fork) =>
                  \A n \in 0 .. (Len(p) - fork) : log' = Rewritten(p, fork, n) =>
                      Follows(log', SubSeq(p, 1, fork + n), log, bcBlocks, fork)
<1>1. LogOf(log, bcBlocks) /\ bcBlocks \in Seq(Labels) /\ Len(log) = Len(bcBlocks) /\ Len(bcBlocks) \in Nat
    BY DEF PathInv, LogOf
<1>2. ASSUME NEW l \in Labels, log' = Append(log, NewRecord(Append(bcBlocks, l)))
      PROVE  Follows(log', Append(bcBlocks, l), log, bcBlocks, Len(bcBlocks))
    <2> DEFINE u == Append(bcBlocks, l)
    <2>1. /\ LogOf(log', u) /\ \A i \in 1 .. Len(bcBlocks) : log'[i] = log[i]
          /\ log'[Len(bcBlocks) + 1].full = TRUE
        BY <1>1, <1>2, AppendedLog
    <2>2. u \in Seq(Labels) /\ Len(u) = Len(bcBlocks) + 1 /\ \A i \in 1 .. Len(bcBlocks) : u[i] = bcBlocks[i]
        BY <1>1
    <2> HIDE DEF u
    <2>3. Len(bcBlocks) \in 0 .. Len(u) /\ Len(bcBlocks) \in 0 .. Len(bcBlocks)
        BY <1>1, <2>2
    <2>4. /\ SubSeq(u, 1, Len(bcBlocks)) \in Seq(Labels) /\ Len(SubSeq(u, 1, Len(bcBlocks))) = Len(bcBlocks)
          /\ \A i \in 1 .. Len(bcBlocks) : SubSeq(u, 1, Len(bcBlocks))[i] = u[i]
        BY <2>2, <2>3, Prefix
    <2>5. SubSeq(u, 1, Len(bcBlocks)) = bcBlocks
        BY <1>1, <2>2, <2>4, SeqEqual
    <2>6. SubSeq(bcBlocks, 1, Len(bcBlocks)) = bcBlocks
        BY <1>1, WholePrefix
    <2>7. \A i \in (Len(bcBlocks) + 1) .. Len(u) : log'[i].full = TRUE
        <3>1. \A i \in (Len(bcBlocks) + 1) .. Len(u) : i = Len(bcBlocks) + 1
            BY <1>1, <2>2
        <3> QED BY <2>1, <3>1
    <2>8. Len(bcBlocks) <= Len(u)
        BY <1>1, <2>2
    <2>9. Follows(log', u, log, bcBlocks, Len(bcBlocks))
        BY <1>1, <2>1, <2>3, <2>5, <2>6, <2>7, <2>8 DEF Follows
    <2> QED BY <2>9 DEF u
<1>3. ASSUME NEW p \in StoredPaths, NEW fork \in Nat, Reorgable(p, fork), NEW n \in 0 .. (Len(p) - fork),
             log' = Rewritten(p, fork, n)
      PROVE  Follows(log', SubSeq(p, 1, fork + n), log, bcBlocks, fork)
    <2> DEFINE u == SubSeq(p, 1, fork + n)
    <2>1. p \in Seq(Labels)
        BY PathIsSeq
    <2>2. /\ LogOf(log', u) /\ \A i \in 1 .. fork : log'[i] = log[i]
          /\ \A i \in (fork + 1) .. (fork + n) : log'[i].full = TRUE
        BY <1>1, <1>3, <2>1, RewrittenLog
    <2>3. /\ fork <= Len(bcBlocks) /\ SubSeq(p, 1, fork) = SubSeq(bcBlocks, 1, fork)
          /\ fork + n \in 0 .. Len(p) /\ fork \in 0 .. (fork + n) /\ fork \in 0 .. Len(bcBlocks)
        BY <1>1, <1>3, <2>1 DEF Reorgable
    <2>4. Len(u) = fork + n /\ SubSeq(u, 1, fork) = SubSeq(bcBlocks, 1, fork)
        BY <2>1, <2>3, Prefix, PrefixOfPrefix
    <2> HIDE DEF u
    <2>5. fork <= Len(u)
        BY <2>3, <2>4
    <2>6. Follows(log', u, log, bcBlocks, fork)
        BY <1>1, <2>2, <2>3, <2>4, <2>5 DEF Follows
    <2> QED BY <2>6 DEF u
<1> QED BY <1>2, <1>3

\* Memory moves on with the log.
LEMMA CoverCommitted ==
    ASSUME PathInv, CoverInv, up, ~sPoisoned, UNCHANGED <<up, sidecar, rewrite>>,
           NEW fork, Base <= fork, Follows(log', bcBlocks', log, bcBlocks, fork),
           FullFrom(full', Base'), Len(full') = Len(bcBlocks'), Base <= Base'
    PROVE  CoverInv'
<1>1. /\ Recovered' = bcBlocks'
      /\ HasPlaceholder' => /\ sidecar # <<>> /\ Supports(sidecar[1], log', bcBlocks')
                            /\ SidecarHeight <= Base
      /\ rewrite.phase # "idle" => Supports(rewrite.at, log', bcBlocks')
    BY CoverKept
<1>2. Base \in Int /\ Base' \in Int /\ Base <= Base' /\ Base' <= Len(bcBlocks')
    <2>1. FullFrom(full, Base)
        BY DEF PathInv
    <2>2. Base \in 0 .. Len(full) /\ Len(full) \in Nat
        BY <2>1 DEF FullFrom
    <2>3. Base' \in 0 .. Len(full') /\ Len(full') \in Nat
        BY DEF FullFrom
    <2> HIDE DEF Base
    <2> QED BY <2>2, <2>3
<1>3. ASSUME HasPlaceholder'
      PROVE  sidecar' # <<>> /\ Supports(sidecar'[1], log', Recovered') /\ SidecarHeight' <= Base'
    <2>1. SidecarHeight' = SidecarHeight
        BY DEF SidecarHeight
    <2>2. SidecarHeight \in Nat
        BY <1>1, <1>3 DEF Supports, SidecarHeight
    <2> HIDE DEF Base
    <2>3. SidecarHeight <= Base'
        BY <1>1, <1>2, <1>3, <2>2
    <2> QED BY <1>1, <1>3, <2>1, <2>3
<1>4. ASSUME rewrite.phase # "idle" PROVE Len(rewrite.at) <= Base' /\ CoveredBy(rewrite.blocks, Len(rewrite.at))
    <2>1. Len(rewrite.at) <= Base /\ CoveredBy(rewrite.blocks, Len(rewrite.at)) /\ Len(rewrite.at) \in Nat
        BY <1>4 DEF CoverInv, Supports
    <2> HIDE DEF Base
    <2> QED BY <1>2, <2>1
<1> HIDE DEF Base
<1> QED BY <1>1, <1>2, <1>3, <1>4 DEF CoverInv

\* The store failed, or the node died, before memory moved.
LEMMA CoverInterrupted ==
    ASSUME PathInv, CoverInv, up, ~sPoisoned, UNCHANGED <<bcBlocks, full, sidecar>>,
           up' => UNCHANGED rewrite, ~up' => rewrite'.phase = "idle",
           NEW u, NEW fork, Base <= fork, Follows(log', u, log, bcBlocks, fork)
    PROVE  CoverInv'
<1>1. /\ Recovered' = u
      /\ Base <= Len(u) /\ SubSeq(u, 1, Base) = SubSeq(bcBlocks, 1, Base)
      /\ HasPlaceholder' => /\ sidecar # <<>> /\ Supports(sidecar[1], log', u)
                            /\ SidecarHeight <= Base
      /\ rewrite.phase # "idle" => Supports(rewrite.at, log', u)
    BY CoverKept
<1>2. Base' = Base /\ SidecarHeight' = SidecarHeight
    BY DEF Base, SidecarHeight
<1> HIDE DEF Base
<1>3. CASE up'
    <2>1. UNCHANGED rewrite
        BY <1>3
    <2>2. up' => Base' <= Len(Recovered') /\ SubSeq(Recovered', 1, Base') = SubSeq(bcBlocks', 1, Base')
        BY <1>1, <1>2
    <2>3. HasPlaceholder' =>
              /\ sidecar' # <<>> /\ Supports(sidecar'[1], log', Recovered')
              /\ SidecarHeight' <= Base'
        BY <1>1, <1>2
    <2>4. rewrite'.phase # "idle" =>
              /\ Supports(rewrite'.at, log', Recovered') /\ Len(rewrite'.at) <= Base'
              /\ CoveredBy(rewrite'.blocks, Len(rewrite'.at))
        BY <1>1, <1>2, <2>1 DEF CoverInv
    <2>5. rewrite'.phase \in {"stage", "swap"} => sidecar' = <<rewrite'.at>>
        BY <2>1 DEF CoverInv
    <2> QED BY <2>2, <2>3, <2>4, <2>5 DEF CoverInv
<1>4. CASE ~up'
    BY <1>1, <1>2, <1>4 DEF CoverInv
<1> QED BY <1>3, <1>4

\* Nothing that CoverInv speaks of has moved, but for a rewrite given up.
LEMMA CoverUntouched ==
    ASSUME CoverInv, UNCHANGED <<bcBlocks, full, log, sidecar>>, up' => up,
           UNCHANGED rewrite \/ rewrite'.phase = "idle"
    PROVE  CoverInv'
<1>1. /\ Base' = Base /\ SidecarHeight' = SidecarHeight /\ Recovered' = Recovered
      /\ HasPlaceholder' = HasPlaceholder
    BY DEF Base, SidecarHeight, Recovered, HasPlaceholder
<1> HIDE DEF Base
<1>2. up' => Base' <= Len(Recovered') /\ SubSeq(Recovered', 1, Base') = SubSeq(bcBlocks', 1, Base')
    BY <1>1 DEF CoverInv
<1>3. HasPlaceholder' =>
              /\ sidecar' # <<>> /\ Supports(sidecar'[1], log', Recovered')
              /\ up' => SidecarHeight' <= Base'
    BY <1>1 DEF CoverInv
<1>4. CASE UNCHANGED rewrite
    BY <1>1, <1>2, <1>3, <1>4 DEF CoverInv
<1>5. CASE rewrite'.phase = "idle"
    BY <1>2, <1>3, <1>5 DEF CoverInv
<1> QED BY <1>4, <1>5

\* Open: the bodies missing in memory are those below the sidecar, or more.
LEMMA CoverOpen ==
    ASSUME StoreAssumption, PathInv, CoverInv, Open
    PROVE  CoverInv'
<1>1. /\ FullFrom(full', Base') /\ Len(full') = Len(bcBlocks')
      /\ HasPlaceholder => SidecarHeight \in Nat /\ SidecarHeight <= Base'
    BY OpenBodies
<1>2. /\ Recovered' = Recovered /\ bcBlocks' = Recovered' /\ SidecarHeight' = SidecarHeight
      /\ HasPlaceholder' = HasPlaceholder /\ UNCHANGED <<log, sidecar>> /\ rewrite'.phase = "idle"
    BY DEF Open, Recovered, HasPlaceholder, SidecarHeight, PathInv
<1>3. Base' <= Len(Recovered')
    BY <1>1, <1>2 DEF FullFrom
<1> HIDE DEF Base
<1>4. HasPlaceholder' =>
              /\ sidecar' # <<>> /\ Supports(sidecar'[1], log', Recovered')
              /\ SidecarHeight' <= Base'
    BY <1>1, <1>2 DEF CoverInv
<1> QED BY <1>2, <1>3, <1>4 DEF CoverInv

\* Phase 1: the state that is dumped supports the log on disk as it is, poisoned or
\* not, and the one that is staged.
LEMMA CoverSnapshot ==
    ASSUME PathInv, CoverInv, CompactSnapshot
    PROVE  CoverInv'
<1>1. /\ Completes(rewrite'.blocks, <<>>, bcBlocks, full, 0)
      /\ rewrite'.at \in Seq(Labels) /\ Len(rewrite'.at) = Base /\ rewrite'.at = SubSeq(bcBlocks, 1, Base)
      /\ rewrite'.phase = "sidecar"
    BY SnapshotStep
<1>2. up /\ UNCHANGED <<up, bcBlocks, full, log, sidecar>>
    BY DEF CompactSnapshot, memory, disk
<1>3. /\ Base' = Base /\ SidecarHeight' = SidecarHeight /\ Recovered' = Recovered
      /\ HasPlaceholder' = HasPlaceholder
    BY <1>2 DEF Base, SidecarHeight, Recovered, HasPlaceholder
<1>4. /\ FullFrom(full, Base) /\ Len(full) = Len(bcBlocks) /\ Len(log) = Len(Recovered)
      /\ bcBlocks \in Seq(Labels) /\ DOMAIN log = 1 .. Len(log) /\ Len(log) \in Nat
    BY <1>2 DEF PathInv, LogOf
<1>5. Base \in 0 .. Len(bcBlocks) /\ \A i \in 1 .. Len(bcBlocks) : full[i] <=> i > Base
    BY <1>4 DEF FullFrom
<1> HIDE DEF Base
<1>6. CoveredBy(rewrite'.blocks, Base)
    <2>1. LogOf(rewrite'.blocks, bcBlocks) /\ \A i \in (0 + 1) .. Len(bcBlocks) : rewrite'.blocks[i].full = full[i]
        BY <1>1 DEF Completes
    <2>2. Len(rewrite'.blocks) = Len(bcBlocks)
        BY <2>1 DEF LogOf
    <2>3. ASSUME NEW i \in (Base + 1) .. Len(bcBlocks) PROVE rewrite'.blocks[i].full
        <3>1. i \in (0 + 1) .. Len(bcBlocks) /\ i \in 1 .. Len(bcBlocks) /\ i > Base
            BY <1>5
        <3> QED BY <1>5, <2>1, <3>1
    <2> QED BY <1>5, <2>2, <2>3 DEF CoveredBy
<1>7. Base <= Len(Recovered) /\ SubSeq(Recovered, 1, Base) = SubSeq(bcBlocks, 1, Base)
    BY <1>2 DEF CoverInv
<1>8. CoveredBy(log, Base)
    <2>1. CASE HasPlaceholder
        <3>1. CoveredBy(log, SidecarHeight) /\ SidecarHeight <= Base /\ SidecarHeight \in Nat
            BY <1>2, <2>1 DEF CoverInv, Supports, SidecarHeight
        <3>2. (Base + 1) .. Len(log) \subseteq (SidecarHeight + 1) .. Len(log)
            BY <1>4, <1>5, <3>1
        <3> QED BY <1>4, <1>7, <3>1, <3>2 DEF CoveredBy
    <2>2. CASE ~HasPlaceholder
        <3>1. (Base + 1) .. Len(log) \subseteq DOMAIN log
            BY <1>4, <1>5
        <3> QED BY <1>4, <1>7, <2>2, <3>1 DEF CoveredBy, HasPlaceholder
    <2> QED BY <2>1, <2>2
<1>9. Supports(rewrite'.at, log', Recovered')
    BY <1>1, <1>2, <1>3, <1>7, <1>8 DEF Supports
<1>10. rewrite'.phase # "idle" =>
           /\ Supports(rewrite'.at, log', Recovered') /\ Len(rewrite'.at) <= Base'
           /\ CoveredBy(rewrite'.blocks, Len(rewrite'.at))
    BY <1>1, <1>3, <1>5, <1>6, <1>9
<1>11. up' => Base' <= Len(Recovered') /\ SubSeq(Recovered', 1, Base') = SubSeq(bcBlocks', 1, Base')
    BY <1>2, <1>3, <1>7
<1>12. HasPlaceholder' =>
              /\ sidecar' # <<>> /\ Supports(sidecar'[1], log', Recovered')
              /\ up' => SidecarHeight' <= Base'
    BY <1>2, <1>3 DEF CoverInv
<1>13. rewrite'.phase \in {"stage", "swap"} => sidecar' = <<rewrite'.at>>
    BY <1>1
<1> QED BY <1>10, <1>11, <1>12, <1>13 DEF CoverInv

\* Phase 3 of a compaction that pruning has not overtaken.
LEMMA CoverSwap ==
    ASSUME PathInv, CoverInv, ~Overtaken, Swap \/ SwapFails
    PROVE  CoverInv'
<1>1. /\ rewrite.phase = "swap" /\ UNCHANGED <<up, bcBlocks, full, sidecar>> /\ rewrite'.phase = "idle"
    BY DEF Swap, SwapFails, memory, NoJob
<1>2. CASE log' = log
    BY <1>1, <1>2, CoverUntouched
<1>3. CASE log' # log
    <2>1. log' = Staged /\ Unchanged /\ ~sPoisoned
        BY <1>3 DEF Swap, SwapFails
    <2>2. /\ up /\ Recovered = bcBlocks /\ FullFrom(full, Base) /\ Len(full) = Len(bcBlocks)
          /\ bcBlocks \in Seq(Labels) /\ rewrite.blocks \in Seq(StoredRecords)
        BY <1>1, <2>1 DEF PathInv, LogOf
    <2>3. /\ LogOf(log', bcBlocks)
          /\ \A i \in 1 .. Len(rewrite.blocks) : log'[i] = rewrite.blocks[i]
          /\ \A i \in (Len(rewrite.blocks) + 1) .. Len(bcBlocks) : log'[i].full = full[i]
        BY <1>1, <2>1, StagedLog
    <2>4. Recovered' = bcBlocks /\ Len(log') = Len(bcBlocks)
        BY <2>3, NextLog DEF LogOf
    <2>5. /\ sidecar = <<rewrite.at>> /\ Supports(rewrite.at, log, bcBlocks) /\ Len(rewrite.at) <= Base
          /\ CoveredBy(rewrite.blocks, Len(rewrite.at)) /\ Len(rewrite.at) \in Nat
        BY <1>1, <2>2 DEF CoverInv, Supports
    <2>6. Base \in 0 .. Len(bcBlocks) /\ \A i \in 1 .. Len(bcBlocks) : full[i] <=> i > Base
        BY <2>2 DEF FullFrom
    <2>7. Base <= Len(rewrite.blocks)
        <3>1. ~(BodyHeight(full) > Len(rewrite.blocks) + 1) /\ Len(rewrite.blocks) \in Nat
            BY <1>1, <2>2 DEF Overtaken
        <3>2. BodyHeight(full) = Base + 1
            BY <2>2, BodiesFrom
        <3> HIDE DEF Base
        <3> QED BY <2>6, <3>1, <3>2
    <2>8. Base' = Base /\ SidecarHeight' = Len(rewrite.at) /\ sidecar' # <<>> /\ sidecar'[1] = rewrite.at
        BY <1>1, <2>5 DEF Base, SidecarHeight
    <2> HIDE DEF Base
    <2>9. CoveredBy(log', Len(rewrite.at))
        <3>1. ASSUME NEW i \in (Len(rewrite.at) + 1) .. Len(bcBlocks) PROVE log'[i].full
            <4>1. CASE i <= Len(rewrite.blocks)
                <5>1. i \in 1 .. Len(rewrite.blocks) /\ i \in (Len(rewrite.at) + 1) .. Len(rewrite.blocks)
                    BY <2>2, <2>5, <4>1
                <5> QED BY <2>3, <2>5, <5>1 DEF CoveredBy
            <4>2. CASE i > Len(rewrite.blocks)
                <5>1. i \in (Len(rewrite.blocks) + 1) .. Len(bcBlocks) /\ i \in 1 .. Len(bcBlocks) /\ i > Base
                    BY <2>2, <2>5, <2>6, <2>7, <4>2
                <5> QED BY <2>3, <2>6, <5>1
            <4> QED BY <2>2, <2>5, <4>1, <4>2
        <3>2. Len(rewrite.at) <= Len(bcBlocks)
            BY <2>2, <2>5, <2>6
        <3> QED BY <2>4, <3>1, <3>2 DEF CoveredBy
    <2>10. Supports(rewrite.at, log', Recovered')
        BY <2>4, <2>5, <2>9 DEF Supports
    <2>11. HasPlaceholder' =>
               /\ sidecar' # <<>> /\ Supports(sidecar'[1], log', Recovered')
               /\ up' => SidecarHeight' <= Base'
        BY <2>5, <2>8, <2>10
    <2>12. up' => Base' <= Len(Recovered') /\ SubSeq(Recovered', 1, Base') = SubSeq(bcBlocks', 1, Base')
        BY <1>1, <2>2, <2>4, <2>6, <2>8
    <2> QED BY <1>1, <2>11, <2>12 DEF CoverInv
<1> QED BY <1>2, <1>3

\* Phase 2: replacing the sidecar, while the old log is still in place.
LEMMA CoverSidecar ==
    ASSUME PathInv, CoverInv, WriteSidecar \/ StageLog
    PROVE  CoverInv'
<1>1. UNCHANGED <<up, bcBlocks, full, log>> /\ rewrite.phase \in {"sidecar", "stage"}
    BY DEF WriteSidecar, StageLog, memory, disk
<1>2. PICK x \in {"stage", "swap"} : rewrite' = [rewrite EXCEPT !.phase = x]
    BY DEF WriteSidecar, StageLog
<1>3. rewrite' = [phase |-> x, blocks |-> rewrite.blocks, at |-> rewrite.at]
    BY <1>2 DEF PathInv
<1>4. rewrite'.phase # "idle" /\ rewrite'.at = rewrite.at /\ rewrite'.blocks = rewrite.blocks
    BY <1>3
<1>5. sidecar' = <<rewrite.at>>
    BY DEF WriteSidecar, StageLog, disk, CoverInv
<1>6. /\ Base' = Base /\ Recovered' = Recovered /\ SidecarHeight' = Len(rewrite.at)
      /\ sidecar' # <<>> /\ sidecar'[1] = rewrite.at
    BY <1>1, <1>5 DEF Base, Recovered, SidecarHeight
<1>7. /\ Supports(rewrite.at, log, Recovered) /\ Len(rewrite.at) <= Base
      /\ CoveredBy(rewrite.blocks, Len(rewrite.at))
    BY <1>1 DEF CoverInv
<1> HIDE DEF Base
<1>8. up' => Base' <= Len(Recovered') /\ SubSeq(Recovered', 1, Base') = SubSeq(bcBlocks', 1, Base')
    BY <1>1, <1>6 DEF CoverInv
<1>9. HasPlaceholder' =>
          /\ sidecar' # <<>> /\ Supports(sidecar'[1], log', Recovered')
          /\ up' => SidecarHeight' <= Base'
    BY <1>1, <1>6, <1>7
<1>10. /\ Supports(rewrite'.at, log', Recovered') /\ Len(rewrite'.at) <= Base'
       /\ CoveredBy(rewrite'.blocks, Len(rewrite'.at))
    BY <1>1, <1>4, <1>6, <1>7
<1> QED BY <1>4, <1>5, <1>8, <1>9, <1>10 DEF CoverInv

\* A new node has lost nothing.
LEMMA CoverInit == StoreInit => CoverInv
<1> SUFFICES ASSUME StoreInit PROVE CoverInv
    OBVIOUS
<1>1. Base = 0
    BY DEF StoreInit, BodyHeight, Base
<1>2. bcBlocks = <<>> /\ Recovered = <<>> /\ ~HasPlaceholder /\ rewrite.phase = "idle"
    BY DEF StoreInit, Recovered, HasPlaceholder, NoJob
<1> QED BY <1>1, <1>2 DEF CoverInv

\* Every step keeps what is missing below the sidecar.
LEMMA CoverStep ==
    StoreAssumption /\ PathInv /\ CoverInv /\ ~Overtaken /\ [StoreNext]_storeVars => CoverInv'
<1> SUFFICES ASSUME StoreAssumption, PathInv, CoverInv, ~Overtaken, [StoreNext]_storeVars PROVE CoverInv'
    OBVIOUS
<1>1. CASE Open
    BY <1>1, CoverOpen
<1>2. ASSUME NEW l \in Labels, StoreAddBlock(l) PROVE CoverInv'
    <2>1. up /\ ~sPoisoned /\ UNCHANGED <<up, sidecar, rewrite>>
        BY <1>2 DEF StoreAddBlock
    <2>2. FullFrom(full', Base') /\ Len(full') = Len(bcBlocks') /\ Base <= Base'
        BY <1>2, AddBlockStep
    <2>3. Follows(log', bcBlocks', log, bcBlocks, Len(bcBlocks))
        BY <1>2, <2>1, WritesFollow DEF StoreAddBlock
    <2>4. Base <= Len(bcBlocks)
        BY <2>1 DEF PathInv, FullFrom
    <2> QED BY <2>1, <2>2, <2>3, <2>4, CoverCommitted
<1>3. ASSUME NEW p \in StoredPaths, NEW fork \in Nat, Reorg(p, fork) PROVE CoverInv'
    <2>1. /\ up /\ ~sPoisoned /\ UNCHANGED <<up, sidecar, rewrite>> /\ Reorgable(p, fork)
          /\ bcBlocks' = p /\ log' = Rewritten(p, fork, Len(p) - fork)
        BY <1>3 DEF Reorg
    <2>2. p \in Seq(Labels)
        BY PathIsSeq
    <2>3. FullFrom(full', Base') /\ Len(full') = Len(bcBlocks') /\ Base <= Base'
        BY <1>3, <2>2, ReorgStep
    <2>4. Len(p) - fork \in 0 .. (Len(p) - fork) /\ fork + (Len(p) - fork) = Len(p)
        BY <2>1, <2>2 DEF Reorgable
    <2>5. Follows(log', SubSeq(p, 1, fork + (Len(p) - fork)), log, bcBlocks, fork)
        BY <2>1, <2>4, WritesFollow
    <2>6. Follows(log', bcBlocks', log, bcBlocks, fork)
        BY <2>1, <2>2, <2>4, <2>5, WholePrefix
    <2>7. Base <= fork
        BY <2>1, <2>2, ReorgAboveBase
    <2> QED BY <2>1, <2>3, <2>6, <2>7, CoverCommitted
<1>4. ASSUME NEW p \in StoredPaths, NEW fork \in Nat, ReorgFails(p, fork) PROVE CoverInv'
    <2>1. up /\ ~sPoisoned /\ Reorgable(p, fork) /\ UNCHANGED <<up, bcBlocks, full, sidecar, rewrite>>
        BY <1>4 DEF ReorgFails, memory
    <2>2. CASE log' = log
        BY <2>1, <2>2, CoverUntouched
    <2>3. CASE log' # log
        <3>1. PICK n \in 0 .. (Len(p) - fork) : log' = Rewritten(p, fork, n)
            BY <1>4, <2>3 DEF ReorgFails
        <3>2. Follows(log', SubSeq(p, 1, fork + n), log, bcBlocks, fork)
            BY <2>1, <3>1, WritesFollow
        <3>3. Base <= fork
            BY <2>1, PathIsSeq, ReorgAboveBase
        <3> QED BY <2>1, <3>2, <3>3, CoverInterrupted
    <2> QED BY <2>2, <2>3
<1>5. CASE CompactSnapshot
    BY <1>5, CoverSnapshot
<1>6. CASE WriteSidecar \/ StageLog
    BY <1>6, CoverSidecar
<1>7. CASE Swap \/ SwapFails
    BY <1>7, CoverSwap
<1>8. CASE CompactFails \/ AppendFails
    <2>1. UNCHANGED <<up, bcBlocks, full, log, sidecar>> /\ (UNCHANGED rewrite \/ rewrite' = NoJob)
        BY <1>8 DEF CompactFails, AppendFails, memory, disk
    <2>2. UNCHANGED rewrite \/ rewrite'.phase = "idle"
        BY <2>1 DEF NoJob
    <2> QED BY <2>1, <2>2, CoverUntouched
<1>9. ASSUME Crash \/ (\E l \in Labels : CrashInAppend(l))
             \/ (\E p \in StoredPaths : \E fork \in Nat : CrashInReorg(p, fork))
      PROVE  CoverInv'
    <2>1. up /\ ~up' /\ UNCHANGED <<bcBlocks, full, sidecar>> /\ rewrite' = NoJob
        BY <1>9 DEF Crash, CrashInAppend, CrashInReorg, Down, memory
    <2>2. rewrite'.phase = "idle"
        BY <2>1 DEF NoJob
    <2>3. CASE log' = log
        BY <2>1, <2>2, <2>3, CoverUntouched
    <2>4. ASSUME NEW l \in Labels, CrashInAppend(l), log' # log PROVE CoverInv'
        <3>1. ~sPoisoned /\ log' = Append(log, NewRecord(Append(bcBlocks, l)))
            BY <2>4 DEF CrashInAppend
        <3>2. Follows(log', Append(bcBlocks, l), log, bcBlocks, Len(bcBlocks))
            BY <2>1, <3>1, WritesFollow
        <3>3. Base <= Len(bcBlocks)
            BY <2>1 DEF PathInv, FullFrom
        <3> QED BY <2>1, <2>2, <3>1, <3>2, <3>3, CoverInterrupted
    <2>5. ASSUME NEW p \in StoredPaths, NEW fork \in Nat, CrashInReorg(p, fork) PROVE CoverInv'
        <3>1. PICK n \in 0 .. (Len(p) - fork) : log' = Rewritten(p, fork, n)
            BY <2>5 DEF CrashInReorg
        <3>2. ~sPoisoned /\ Reorgable(p, fork)
            BY <2>5 DEF CrashInReorg
        <3>3. Follows(log', SubSeq(p, 1, fork + n), log, bcBlocks, fork)
            BY <2>1, <3>1, <3>2, WritesFollow
        <3>4. Base <= fork
            BY <2>1, <3>2, PathIsSeq, ReorgAboveBase
        <3> QED BY <2>1, <2>2, <3>2, <3>3, <3>4, CoverInterrupted
    <2> QED BY <1>9, <2>3, <2>4, <2>5 DEF Crash
<1>10. CASE UNCHANGED storeVars
    BY <1>10, CoverUntouched DEF storeVars
<1>11. 0 .. MaxStoreHeight \subseteq Nat
    BY DEF StoreAssumption
<1> QED BY <1>1, <1>2, <1>3, <1>4, <1>5, <1>6, <1>7, <1>8, <1>9, <1>10, <1>11 DEF StoreNext

\* A log with such a sidecar is what openPrunedStore accepts.
LEMMA CoveredOpens == PathInv /\ CoverInv => OpenOk
<1> SUFFICES ASSUME PathInv, CoverInv PROVE OpenOk
    OBVIOUS
<1>1. LogLinks
    BY LogLinked DEF PathInv
<1>2. ASSUME HasPlaceholder PROVE SidecarCovers
    <2> DEFINE h == SidecarHeight
    <2>1. /\ sidecar # <<>> /\ sidecar[1] = SubSeq(Recovered, 1, h) /\ CoveredBy(log, h) /\ h \in Nat
          /\ LogOf(log, Recovered)
        BY <1>2 DEF PathInv, CoverInv, Supports, SidecarHeight
    <2>2. h <= Len(log) /\ Len(log) = Len(Recovered) /\ Len(log) \in Nat
        BY <2>1 DEF CoveredBy, LogOf
    <2>3. ASSUME h > 0 PROVE log[h].path = sidecar[1]
        <3>1. h \in 1 .. Len(Recovered)
            BY <2>1, <2>2, <2>3
        <3> HIDE DEF h
        <3> QED BY <2>1, <3>1 DEF LogOf
    <2> QED BY <2>1, <2>2, <2>3 DEF SidecarCovers, CoveredBy
<1> QED BY <1>1, <1>2 DEF OpenOk

\* openPrunedStore after any history of appends, reorgs, compactions, write errors
\* and crashes, for every chain length, pruning window and reorg depth: the store
\* opens, as long as no rewrite is overtaken by pruning before it ends.
THEOREM StoreAlwaysOpens ==
    ASSUME StoreAssumption
    PROVE  SpecTimely => []StoreOpens
<1> DEFINE Inv == PathInv /\ CoverInv /\ ~Overtaken
<1>1. StoreInit => Inv
    BY PathInit, CoverInit DEF StoreInit, Overtaken, NoJob
<1>2. Inv /\ [NextTimely]_storeVars => Inv'
    <2> SUFFICES ASSUME Inv, [NextTimely]_storeVars PROVE Inv'
        OBVIOUS
    <2>1. [StoreNext]_storeVars
        BY DEF NextTimely
    <2>2. PathInv' /\ CoverInv'
        BY <2>1, PathStep, CoverStep
    <2>3. ~Overtaken'
        BY DEF NextTimely, storeVars, Overtaken
    <2> QED BY <2>2, <2>3
<1>3. Inv => StoreOpens
    BY CoveredOpens DEF StoreOpens
<1> QED BY <1>1, <1>2, <1>3, PTL DEF SpecTimely
=============================================================================
