-------------------------------- MODULE Tokens --------------------------------
(***************************************************************************)
(* Names and assets: core/name.go, core/asset.go, the asset branches of    *)
(* applyTxTo in core/blockchain.go, and the registry of assetindex.go,     *)
(* over a chain whose last blocks may be disconnected.  Fees and nonces    *)
(* are those of any transaction (Chain); disconnecting a block restores    *)
(* the ledger before it, which Chain proves of the undo logs.              *)
(***************************************************************************)
EXTENDS Integers, Sequences, FiniteSets, FiniteSetsExt, SequencesExt, Functions, TLC

CONSTANTS
    Holders,           \* accounts
    Names,             \* names
    LeasePeriod,       \* NameLeasePeriod, in blocks
    Periods,           \* lease periods one may buy at once (0 is read as 1)
    Amounts,           \* asset amounts
    MaxAssetSupply,
    IssueNonces,       \* nonces an asset operation may state
    MaxTokenHeight,    \* bound: height
    MaxTokenTxs,       \* bound: transactions applied
    MaxDisconnects     \* bound: blocks disconnected

\* The lease lengths are numbers of blocks.
TokensAssumption == LeasePeriod \in Nat /\ Periods \subseteq Nat

VARIABLES
    kind,        \* "names" or "assets": what the transactions are about
    tledger,     \* names, holdings and nonces
    registry,    \* bc.assets: [id -> Supply]
    body,        \* transactions of the block being applied
    tblocks,     \* connected blocks, each with the ledger before it
    tokenTxs, disconnects,
    ghost        \* history: the leases paid for; the registry's two blind spots

tokenVars == <<kind, tledger, registry, body, tblocks, tokenTxs, disconnects, ghost>>

Unowned == [owner |-> "none", expires |-> 0]
NoNames == [n \in Names |-> Unowned]
NoPromise == [n \in Names |-> [owner |-> "none", since |-> 0, blocks |-> 0]]
Nothing == [ids \in {} |-> 0]

NoTokens == [names |-> NoNames, held |-> [a \in Holders |-> Nothing], nonce |-> [a \in Holders |-> 0]]

TokensInit ==
    /\ kind \in {"names", "assets"}
    /\ tledger = NoTokens
    /\ registry = Nothing
    /\ body = <<>> /\ tblocks = <<>>
    /\ tokenTxs = 0 /\ disconnects = 0
    /\ ghost = [promise |-> NoPromise, blind |-> FALSE]

\* Height of the block being applied.
NextHeight == Len(tblocks) + 1
-----------------------------------------------------------------------------
(* Names *)

HeldAt(rec, height) == rec.owner # "none" /\ rec.expires > height

Lease(periods) == (IF periods = 0 THEN 1 ELSE periods) * LeasePeriod

NameOps == [op : {"register"}, from : Holders, name : Names, target : Holders, periods : Periods]
      \cup [op : {"renew"}, from : Holders, name : Names, periods : Periods]
      \cup [op : {"transfer"}, from : Holders, name : Names, target : Holders]
      \cup [op : {"release"}, from : Holders, name : Names]

\* Mutant of NameOpAllowed: whoever signs manages a name that is held.
NameOpAllowedAnyone(tx, rec, height) ==
    IF tx.op = "register" THEN ~HeldAt(rec, height) ELSE HeldAt(rec, height)

\* A name may be registered when nobody holds it, and is managed by its holder.
NameOpAllowed(tx, rec, height) ==
    IF tx.op = "register" THEN ~HeldAt(rec, height) ELSE HeldAt(rec, height) /\ rec.owner = tx.from

\* A renewal extends from the current expiry; a released name is deleted.
NameRecordAfter(tx, rec, height) ==
    CASE tx.op = "register" -> [owner |-> tx.target, expires |-> height + Lease(tx.periods)]
      [] tx.op = "renew"    -> [rec EXCEPT !.expires = @ + Lease(tx.periods)]
      [] tx.op = "transfer" -> [rec EXCEPT !.owner = tx.target]
      [] tx.op = "release"  -> Unowned

\* History: whose a name is in the block at a height, by what has been paid for.
Entitled(p, height) == p.owner # "none" /\ height < p.since + p.blocks

\* Who may change that: anyone once it has run out, only its owner until then.
MayAct(tx, p, height) == IF Entitled(p, height) THEN tx.op # "register" /\ tx.from = p.owner ELSE tx.op = "register"

\* What has been paid for, since when and for how many blocks in all.  An operation of
\* anyone else takes nothing away from the owner, and gives nothing to anyone.
Promised(tx, was, height) ==
    CASE ~MayAct(tx, was, height) -> was
      [] MayAct(tx, was, height) /\ tx.op = "register" -> [owner |-> tx.target, since |-> height, blocks |-> Lease(tx.periods)]
      [] MayAct(tx, was, height) /\ tx.op = "renew"    -> [was EXCEPT !.blocks = @ + Lease(tx.periods)]
      [] MayAct(tx, was, height) /\ tx.op = "transfer" -> [was EXCEPT !.owner = tx.target]
      [] MayAct(tx, was, height) /\ tx.op = "release"  -> [owner |-> "none", since |-> height, blocks |-> 0]

ApplyNameOp(tx) ==
    LET rec == tledger.names[tx.name]
    IN  /\ NameOpAllowed(tx, rec, NextHeight)
        /\ tledger' = [tledger EXCEPT !.names[tx.name] = NameRecordAfter(tx, rec, NextHeight), !.nonce[tx.from] = @ + 1]
        /\ ghost' = [ghost EXCEPT !.promise[tx.name] = Promised(tx, @, NextHeight)]

\* LookupName: against the tip (the holder of an expiry at the next block is still named).
LookupName(n) == HeldAt(tledger.names[n], Len(tblocks))
-----------------------------------------------------------------------------
(* Assets *)

AssetID(issuer, nonce) == <<"tok", issuer, nonce>>
NonFungibleAssetID(issuer, nonce) == <<"nft", issuer, nonce>>

AssetBalance(a, id) == IF id \in DOMAIN tledger.held[a] THEN tledger.held[a][id] ELSE 0

\* withAssetDelta: an entry that becomes zero is dropped.
WithAssetDelta(held, id, delta) ==
    LET v == (IF id \in DOMAIN held THEN held[id] ELSE 0) + delta
    IN  IF v = 0 THEN Restrict(held, DOMAIN held \ {id}) ELSE (id :> v) @@ held

Ids == {AssetID(a, n) : a \in Holders, n \in IssueNonces} \cup {NonFungibleAssetID(a, n) : a \in Holders, n \in IssueNonces}

AssetOps == [op : {"issue"}, from : Holders, supply : Amounts, nft : BOOLEAN]
       \cup [op : {"mint", "burn"}, from : Holders, id : Ids, issueNonce : IssueNonces, amount : Amounts]
       \cup [op : {"send"}, from : Holders, id : Ids, to : Holders, amount : Amounts]

IssuedAssetID(tx, nonce) == IF tx.nft THEN NonFungibleAssetID(tx.from, nonce) ELSE AssetID(tx.from, nonce)

ApplyIssue(tx) ==
    /\ tx.supply <= MaxAssetSupply /\ (tx.nft => tx.supply = 1)
    /\ tledger' = [tledger EXCEPT !.held[tx.from] = WithAssetDelta(@, IssuedAssetID(tx, tledger.nonce[tx.from]), tx.supply),
                                  !.nonce[tx.from] = @ + 1]

\* Authority is the derivation of a fungible id, not a lookup.
AuthorizedBy(tx) == AssetID(tx.from, tx.issueNonce) = tx.id

\* The cap and the burn are judged by what the issuer holds.
ApplyAssetOp(tx) ==
    LET held == AssetBalance(tx.from, tx.id)
    IN  /\ AuthorizedBy(tx)
        /\ IF tx.op = "mint" THEN held + tx.amount <= MaxAssetSupply ELSE held >= tx.amount
        /\ tledger' = [tledger EXCEPT !.held[tx.from] = WithAssetDelta(@, tx.id, IF tx.op = "mint" THEN tx.amount ELSE -tx.amount),
                                      !.nonce[tx.from] = @ + 1]

ApplyAssetTransfer(tx) ==
    /\ AssetBalance(tx.from, tx.id) >= tx.amount
    /\ LET debited == [tledger EXCEPT !.held[tx.from] = WithAssetDelta(@, tx.id, -tx.amount), !.nonce[tx.from] = @ + 1]
       IN  tledger' = [debited EXCEPT !.held[tx.to] = WithAssetDelta(@, tx.id, tx.amount)]

ApplyAsset(tx) ==
    /\ CASE tx.op = "issue" -> ApplyIssue(tx)
         [] tx.op \in {"mint", "burn"} -> ApplyAssetOp(tx)
         [] tx.op = "send" -> ApplyAssetTransfer(tx)
    /\ UNCHANGED ghost
-----------------------------------------------------------------------------
(* The registry *)

Issues(txs) == {i \in DOMAIN txs : txs[i].op = "issue"}

\* The ids a block issues, with their supplies.  (The nonce was noted when applied.)
Issued(txs) == [id \in {txs[i].id : i \in Issues(txs)} |-> LET i == CHOOSE j \in Issues(txs) : txs[j].id = id IN txs[i].supply]

\* applyAssetOpToIndexLocked: an unknown asset is passed over, a total never goes
\* below zero.
MoveTotal(reg, tx, reverse) ==
    IF tx.op \notin {"mint", "burn"} \/ tx.id \notin DOMAIN reg THEN reg
    ELSE IF (tx.op = "mint") # reverse THEN [reg EXCEPT ![tx.id] = @ + tx.amount]
    ELSE IF reg[tx.id] >= tx.amount THEN [reg EXCEPT ![tx.id] = @ - tx.amount]
    ELSE reg

MoveTotals(reg, txs, reverse) == FoldLeft(LAMBDA r, tx : MoveTotal(r, tx, reverse), reg, txs)

\* indexBlockAssetsLocked: issuances first, then operations.
IndexBlockAssets(reg, txs) == MoveTotals(reg @@ Issued(txs), txs, FALSE)

\* Mutant of UnindexBlockAssets: the operations are not undone.
UnindexBlockAssetsOnly(reg, txs) == Restrict(reg, DOMAIN reg \ DOMAIN Issued(txs))

\* unindexBlockAssetsLocked: operations first, in the order of the block.
UnindexBlockAssets(reg, txs) ==
    LET undone == MoveTotals(reg, txs, TRUE) IN Restrict(undone, DOMAIN undone \ DOMAIN Issued(txs))

\* What the registry cannot see: a mint ahead of its issuance, and (when undone) a
\* burn of units the same block minted.
Overlooked(reg, txs) == \E i \in DOMAIN txs : txs[i].op \in {"mint", "burn"} /\ txs[i].id \notin DOMAIN (reg @@ Issued(txs))
Clamped(txs) == \E i, j \in DOMAIN txs : i < j /\ txs[i].op = "mint" /\ txs[j].op = "burn" /\ txs[i].id = txs[j].id
-----------------------------------------------------------------------------
ApplyTx(tx) ==
    /\ tokenTxs < MaxTokenTxs /\ Len(body) < 2 /\ Len(tblocks) < MaxTokenHeight
    /\ IF kind = "names" THEN ApplyNameOp(tx) ELSE ApplyAsset(tx)
    /\ tokenTxs' = tokenTxs + 1
    /\ body' = Append(body, IF tx.op = "issue" THEN tx @@ [id |-> IssuedAssetID(tx, tledger.nonce[tx.from])] ELSE tx)
    /\ UNCHANGED <<kind, registry, tblocks, disconnects>>

\* The ledger (and the promises) that a chain of blocks left.
After(blocks) == IF blocks = <<>> THEN [after |-> NoTokens, promise |-> NoPromise] ELSE blocks[Len(blocks)]

ConnectBlock ==
    /\ Len(tblocks) < MaxTokenHeight
    /\ registry' = IndexBlockAssets(registry, body)
    /\ ghost' = [ghost EXCEPT !.blind = @ \/ Overlooked(registry, body)]
    /\ tblocks' = Append(tblocks, [txs |-> body, after |-> tledger, promise |-> ghost.promise])
    /\ body' = <<>>
    /\ UNCHANGED <<kind, tledger, tokenTxs, disconnects>>

\* A block one of whose transactions does not apply leaves nothing behind.
RejectBlock ==
    /\ body # <<>>
    /\ tledger' = After(tblocks).after /\ body' = <<>>
    /\ ghost' = [ghost EXCEPT !.promise = After(tblocks).promise]
    /\ UNCHANGED <<kind, registry, tblocks, tokenTxs, disconnects>>

\* A reorganisation takes the last block away.
DisconnectBlock ==
    /\ body = <<>> /\ tblocks # <<>> /\ disconnects < MaxDisconnects
    /\ LET below == SubSeq(tblocks, 1, Len(tblocks) - 1)
           txs   == tblocks[Len(tblocks)].txs
       IN  /\ tblocks' = below
           /\ tledger' = After(below).after
           /\ registry' = UnindexBlockAssets(registry, txs)
           /\ ghost' = [promise |-> After(below).promise, blind |-> ghost.blind \/ Clamped(txs)]
    /\ disconnects' = disconnects + 1
    /\ UNCHANGED <<kind, body, tokenTxs>>

TokensNext ==
    \/ \E tx \in IF kind = "names" THEN NameOps ELSE AssetOps : ApplyTx(tx)
    \/ ConnectBlock \/ RejectBlock \/ DisconnectBlock

TokensSpec == TokensInit /\ [][TokensNext]_tokenVars
-----------------------------------------------------------------------------
\* A name is its owner's in every block that was paid for and in no other, whatever
\* else is in those blocks and whichever blocks are disconnected: only the owner's own
\* operation passes it on or gives it up, and once the lease has run out the next
\* registration, anyone's, is accepted.
LeasesHonoured ==
    \A n \in Names :
        LET p == ghost.promise[n]
        IN  /\ HeldAt(tledger.names[n], NextHeight) <=> Entitled(p, NextHeight)
            /\ LookupName(n) <=> Entitled(p, Len(tblocks))
            /\ LookupName(n) => tledger.names[n].owner = p.owner

\* What accounts hold of an asset is what the registry reports, after any mints, burns,
\* transfers and disconnected blocks (between blocks, and but for the registry's two
\* blind spots), and a non-fungible token stays the only one of its kind.
AssetsAccounted ==
    LET total(id) == MapThenSumSet(LAMBDA a : AssetBalance(a, id), Holders)
    IN  /\ body = <<>> /\ ~ghost.blind => \A id \in Ids : total(id) = (IF id \in DOMAIN registry THEN registry[id] ELSE 0)
        /\ \A id \in Ids : id[1] = "nft" => total(id) <= 1
=============================================================================
