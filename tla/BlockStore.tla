----------------------------- MODULE BlockStore -----------------------------
(***************************************************************************)
(* The on-disk block log of core/store.go with the pruning, compaction and *)
(* restart of core/prune.go and core/blockchain.go: what is on disk after  *)
(* any mix of appended blocks, reorgs, background rewrites, write errors   *)
(* and crashes, and what Open makes of it.                                 *)
(*                                                                         *)
(* A block is the path of labels from height 1 up to it (its hash commits  *)
(* to its parent); the genesis record is always first and is left out.  A  *)
(* crash ends the process: what the operating system was given stays.      *)
(***************************************************************************)
EXTENDS Integers, Sequences, FiniteSets, FiniteSetsExt

CONSTANTS
    Labels,           \* what tells two blocks on the same parent apart
    Work(_),          \* proof of work of a block with a given label
    MaxStoreHeight,   \* bound on the chain's height
    StoreReorgDepth,  \* MaxReorgDepth (params.go)
    PruneKeep,        \* recent bodies kept (EnablePruning)
    CompactInterval   \* prune.go: storeCompactInterval

VARIABLES
    up,           \* is the node running?
    bcBlocks,     \* bc.blocks: the path of the tip
    full,         \* full[i]: block i has its body and its undo log
    log,          \* intact records of the file: [path, full]
    torn,         \* are there stray bytes after them?
    sidecar,      \* <<block>> whose account state the .state file holds, or <<>>
    sPoisoned,    \* s.poisoned
    due,          \* bc.compactionDue
    compactedTo,  \* bc.storeCompactedTo
    rewrite       \* the compaction in flight

storeVars == <<up, bcBlocks, full, log, torn, sidecar, sPoisoned, due, compactedTo, rewrite>>
memory == <<bcBlocks, full, due, compactedTo>>
disk == <<log, torn, sidecar>>
-----------------------------------------------------------------------------
StoredPaths == UNION {[1 .. n -> Labels] : n \in 0 .. MaxStoreHeight}

Record == [path : StoredPaths, full : BOOLEAN]

StoreAssumption ==
    /\ MaxStoreHeight \in Nat /\ StoreReorgDepth \in Nat /\ CompactInterval \in Nat
    /\ PruneKeep \in Nat /\ PruneKeep > StoreReorgDepth   \* MinPruneKeep
    /\ \A l \in Labels : Work(l) \in Nat \ {0}

PathWork(p) == MapThenSumSet(LAMBDA i : Work(p[i]), DOMAIN p)

\* The records of blocks from .. Len(p), with the bodies f says they have.
Records(p, f, from) ==
    [i \in 1 .. (Len(p) - from + 1) |->
        [path |-> SubSeq(p, 1, from + i - 1), full |-> f[from + i - 1]]]

AllFull(p) == [i \in DOMAIN p |-> TRUE]

\* pruneLocked: bodies strictly below the cutoff go.
Pruned(p, f) ==
    [i \in DOMAIN p |-> f[i] /\ (Len(p) < PruneKeep \/ i >= Len(p) - PruneKeep)]

\* maybeCompactStoreLocked marks the file as worth rewriting.
NowDue(p, mark) ==
    Len(p) >= PruneKeep /\ Len(p) - PruneKeep >= mark + CompactInterval

\* bodyHeightLocked, over any list of body flags.
BodyHeight(f) ==
    LET withBody == {i \in DOMAIN f : f[i]}
    IN  IF withBody = {} THEN Len(f) + 1 ELSE Min(withBody)

NoJob == [phase |-> "idle", blocks |-> <<>>, at |-> <<>>]
-----------------------------------------------------------------------------
(* Open: what a restart makes of the file. *)

HasPlaceholder == \E i \in DOMAIN log : ~log[i].full

\* Replay and header validation both insist that each record extends the last.
LogLinks ==
    \A i \in DOMAIN log :
        /\ Len(log[i].path) = i
        /\ i > 1 => SubSeq(log[i].path, 1, i - 1) = log[i - 1].path

SidecarHeight == Len(sidecar[1])

\* openPrunedStore and NewFromSnapshot.
SidecarCovers ==
    /\ sidecar # <<>>
    /\ SidecarHeight <= Len(log)
    /\ \A i \in (SidecarHeight + 1) .. Len(log) : log[i].full
    /\ SidecarHeight > 0 => log[SidecarHeight].path = sidecar[1]

OpenOk == LogLinks /\ (HasPlaceholder => SidecarCovers)

Recovered == IF log = <<>> THEN <<>> ELSE log[Len(log)].path

Open ==
    LET base == IF HasPlaceholder THEN SidecarHeight ELSE 0
        f == [i \in DOMAIN log |-> i > base]
    IN  /\ ~up
        /\ OpenOk
        /\ up' = TRUE
        /\ bcBlocks' = Recovered
        /\ full' = Pruned(Recovered, f)       \* EnablePruning follows
        /\ compactedTo' = IF HasPlaceholder THEN base + 1 ELSE 0
        /\ due' = NowDue(Recovered, compactedTo')
        /\ torn' = FALSE                      \* stray bytes are truncated away
        /\ sPoisoned' = FALSE
        /\ UNCHANGED <<log, sidecar, rewrite>>
-----------------------------------------------------------------------------
(* Extending the chain. *)

NewRecord(p) == [path |-> p, full |-> TRUE]

StoreAddBlock(l) ==
    LET p == Append(bcBlocks, l)
    IN  /\ up /\ ~sPoisoned
        /\ Len(bcBlocks) < MaxStoreHeight
        /\ log' = Append(log, NewRecord(p))
        /\ torn' \in {FALSE, torn}            \* the record may not cover every stray byte
        /\ bcBlocks' = p
        /\ full' = Pruned(p, Append(full, TRUE))
        /\ due' = (due \/ NowDue(p, compactedTo))
        /\ UNCHANGED <<up, sidecar, sPoisoned, compactedTo, rewrite>>

\* A WriteAt fails: offsets and size do not move, the ledger is put back.
AppendFails ==
    /\ up /\ ~sPoisoned
    /\ torn' = TRUE
    /\ UNCHANGED <<up, memory, log, sidecar, sPoisoned, rewrite>>

\* Sync fails after offsets and size have moved; AddBlock undoes the ledger.
SyncFails(l) ==
    /\ up /\ ~sPoisoned
    /\ Len(bcBlocks) < MaxStoreHeight /\ Len(log) <= MaxStoreHeight
    /\ log' = Append(log, NewRecord(Append(bcBlocks, l)))
    /\ UNCHANGED <<up, memory, torn, sidecar, sPoisoned, rewrite>>
-----------------------------------------------------------------------------
(* Reorgs: truncate to the fork, then append the suffix. *)

\* reorgLocked's guards; the suffix validates only if every block it
\* disconnects still has its undo log.
Reorgable(p, fork) ==
    /\ fork < Len(p) /\ fork <= Len(bcBlocks)
    /\ SubSeq(p, 1, fork) = SubSeq(bcBlocks, 1, fork)
    /\ Len(bcBlocks) - fork <= StoreReorgDepth
    /\ PathWork(p) >= PathWork(bcBlocks) /\ p # bcBlocks
    /\ \A i \in (fork + 1) .. Len(bcBlocks) : full[i]

\* truncateAfter(fork) and the first n appends.
Rewritten(p, fork, n) ==
    SubSeq(log, 1, IF fork < Len(log) THEN fork ELSE Len(log))
        \o Records(SubSeq(p, 1, fork + n), AllFull(p), fork + 1)

Reorg(p, fork) ==
    /\ up /\ ~sPoisoned
    /\ Reorgable(p, fork)
    /\ log' = Rewritten(p, fork, Len(p) - fork)
    /\ torn' \in {FALSE, torn}
    /\ bcBlocks' = p
    /\ full' = Pruned(p, SubSeq(full, 1, fork) \o [i \in 1 .. (Len(p) - fork) |-> TRUE])
    /\ due' = (due \/ NowDue(p, compactedTo))
    /\ UNCHANGED <<up, sidecar, sPoisoned, compactedTo, rewrite>>

\* Mutant of ReorgFails: the store stays in use after a failed rewrite.
ReorgFailsQuietly(p, fork) ==
    /\ up /\ ~sPoisoned
    /\ Reorgable(p, fork)
    /\ log' \in {log} \cup {Rewritten(p, fork, n) : n \in 0 .. (Len(p) - fork)}
    /\ UNCHANGED <<up, memory, torn, sidecar, sPoisoned, rewrite>>

\* The truncate or one of the appends fails: memory keeps the old chain.
ReorgFails(p, fork) ==
    /\ up /\ ~sPoisoned
    /\ Reorgable(p, fork)
    /\ log' \in {log} \cup {Rewritten(p, fork, n) : n \in 0 .. (Len(p) - fork)}
    /\ sPoisoned' = TRUE
    /\ UNCHANGED <<up, memory, torn, sidecar, rewrite>>
-----------------------------------------------------------------------------
(* CompactStore: three phases, the long one without any lock. *)

\* Mutant of CompactSnapshot: the state is dumped one block too low.
CompactSnapshotLow ==
    /\ up /\ due
    /\ rewrite.phase = "idle"
    /\ rewrite' = [phase |-> "sidecar", blocks |-> Records(bcBlocks, full, 1),
                   at |-> SubSeq(bcBlocks, 1, BodyHeight(full) - 2)]
    /\ UNCHANGED <<up, memory, disk, sPoisoned>>

\* Phase 1, under the read lock.
CompactSnapshot ==
    /\ up /\ due
    /\ rewrite.phase = "idle"
    /\ rewrite' = [phase |-> "sidecar", blocks |-> Records(bcBlocks, full, 1),
                   at |-> SubSeq(bcBlocks, 1, BodyHeight(full) - 1)]
    /\ UNCHANGED <<up, memory, disk, sPoisoned>>

\* Phase 2: the sidecar first, then the staged log.
WriteSidecar ==
    /\ rewrite.phase = "sidecar"
    /\ sidecar' = <<rewrite.at>>
    /\ rewrite' = [rewrite EXCEPT !.phase = "stage"]
    /\ UNCHANGED <<up, memory, log, torn, sPoisoned>>

StageLog ==
    /\ rewrite.phase = "stage"
    /\ rewrite' = [rewrite EXCEPT !.phase = "swap"]
    /\ UNCHANGED <<up, memory, disk, sPoisoned>>

\* Any file operation of phase 2 fails: the error is noted, the request stays.
CompactFails ==
    /\ rewrite.phase \in {"sidecar", "stage", "swap"}
    /\ rewrite' = NoJob
    /\ UNCHANGED <<up, memory, disk, sPoisoned>>

\* Is the staged file still a prefix of the live chain?
Unchanged ==
    /\ Len(bcBlocks) >= Len(rewrite.blocks)
    /\ rewrite.blocks # <<>> =>
           rewrite.blocks[Len(rewrite.blocks)].path = SubSeq(bcBlocks, 1, Len(rewrite.blocks))

\* The staged log with the blocks committed since the snapshot.
Staged == rewrite.blocks \o Records(bcBlocks, full, Len(rewrite.blocks) + 1)

\* Phase 3, under the write lock.
Swap ==
    /\ rewrite.phase = "swap"
    /\ IF Unchanged /\ ~sPoisoned
       THEN /\ log' = Staged
            /\ torn' = FALSE
            /\ compactedTo' = BodyHeight(full)
            /\ due' = FALSE
       ELSE UNCHANGED <<log, torn, compactedTo, due>>
    /\ rewrite' = NoJob
    /\ UNCHANGED <<up, bcBlocks, full, sidecar, sPoisoned>>

\* Mutant of SwapFails: the file is renamed before the new blocks are copied.
SwapFailsBehind ==
    /\ rewrite.phase = "swap"
    /\ Unchanged /\ ~sPoisoned
    /\ log' \in {log, rewrite.blocks}
    /\ sPoisoned' = TRUE
    /\ rewrite' = NoJob
    /\ UNCHANGED <<up, memory, torn, sidecar>>

\* Closing, renaming or reopening the file fails: past the point of return.
SwapFails ==
    /\ rewrite.phase = "swap"
    /\ Unchanged /\ ~sPoisoned
    /\ log' \in {log, Staged}
    /\ sPoisoned' = TRUE
    /\ rewrite' = NoJob
    /\ UNCHANGED <<up, memory, torn, sidecar>>
-----------------------------------------------------------------------------
(* The process dies, between operations or inside one that writes. *)

Down ==
    /\ up' = FALSE
    /\ rewrite' = NoJob
    /\ UNCHANGED <<memory, sidecar, sPoisoned>>

Crash ==
    /\ up
    /\ Down
    /\ UNCHANGED <<log, torn>>

CrashInAppend(l) ==
    /\ up /\ ~sPoisoned /\ Len(bcBlocks) < MaxStoreHeight
    /\ Down
    /\ \/ torn' = TRUE /\ UNCHANGED log
       \/ log' = Append(log, NewRecord(Append(bcBlocks, l))) /\ UNCHANGED torn

CrashInReorg(p, fork) ==
    /\ up /\ ~sPoisoned
    /\ Reorgable(p, fork)
    /\ Down
    /\ \E n \in 0 .. (Len(p) - fork) : log' = Rewritten(p, fork, n)
    /\ torn' \in BOOLEAN
-----------------------------------------------------------------------------
StoreInit ==
    /\ up = TRUE /\ bcBlocks = <<>> /\ full = <<>>
    /\ log = <<>> /\ torn = FALSE /\ sidecar = <<>>
    /\ sPoisoned = FALSE /\ due = FALSE /\ compactedTo = 0
    /\ rewrite = NoJob

StoreNext ==
    \/ Open
    \/ AppendFails
    \/ \E l \in Labels : StoreAddBlock(l) \/ CrashInAppend(l)
    \/ \E p \in StoredPaths : \E fork \in 0 .. MaxStoreHeight :
           Reorg(p, fork) \/ ReorgFails(p, fork) \/ CrashInReorg(p, fork)
    \/ CompactSnapshot
    \/ WriteSidecar
    \/ StageLog
    \/ CompactFails
    \/ Swap
    \/ SwapFails
    \/ Crash

StoreSpec == StoreInit /\ [][StoreNext]_storeVars

\* More blocks were committed during a rewrite than pruning keeps bodies: the
\* first of the blocks that the rewrite still has to copy has lost its own.
Overtaken == rewrite.phase # "idle" /\ BodyHeight(full) > Len(rewrite.blocks) + 1

\* The store on a disk that finishes a rewrite before that happens.
NextTimely == StoreNext /\ ~Overtaken'

SpecTimely == StoreInit /\ [][NextTimely]_storeVars

\* The same store on a disk whose fsync may report an error.
NextSync == StoreNext \/ \E l \in Labels : SyncFails(l)

SpecSync == StoreInit /\ [][NextSync]_storeVars
-----------------------------------------------------------------------------
(* Properties. *)

\* The store can always be opened: a crash now, wherever the node is in an
\* append, a reorg or a compaction, leaves a file that replays.
StoreOpens == OpenOk

\* Disk never falls behind or ahead of memory: unless the store has declared
\* itself poisoned, reopening it gives exactly the chain the node is running.
RecoversCommitted == (up /\ ~sPoisoned) => Recovered = bcBlocks

\* A rewrite never gives up a block: what reopening would recover is unchanged
\* by every step of a compaction.
CompactionLosesNothing == [][rewrite # rewrite' /\ up' => Recovered' = Recovered]_storeVars
=============================================================================
