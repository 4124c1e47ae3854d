---------------------------- MODULE TokensProofs ----------------------------
(***************************************************************************)
(* Proofs about Tokens, for any accounts, names, lease lengths and bounds: *)
(* a name stays with the one who paid for it, for the blocks paid for.     *)
(***************************************************************************)
EXTENDS Tokens, SequenceTheorems, TLAPS

Owners == Holders \cup {"none"}
NameRecords == [Names -> [owner : Owners, expires : Int]]
Promises == [Names -> [owner : Owners, since : Int, blocks : Int]]

\* The name records of a ledger are what has been promised.
Keeps(names, promise) ==
    /\ names \in NameRecords /\ promise \in Promises
    /\ \A n \in Names :
         /\ names[n].owner = promise[n].owner
         /\ promise[n].owner # "none" => names[n].expires = promise[n].since + promise[n].blocks

IsLedger(l) == l = [names |-> l.names, held |-> l.held, nonce |-> l.nonce]

\* Each of the blocks left a ledger that keeps its promises.
AllKeep(blocks) ==
    /\ \E S : blocks \in Seq(S)
    /\ \A i \in 1 .. Len(blocks) :
         IsLedger(blocks[i].after) /\ Keeps(blocks[i].after.names, blocks[i].promise)

\* The ledger as it is, and as every connected block left it, keeps its promises:
\* the one that a disconnected or rejected block brings back does, too.
TokensInv ==
    /\ IsLedger(tledger) /\ Keeps(tledger.names, ghost.promise)
    /\ ghost = [promise |-> ghost.promise, blind |-> ghost.blind]
    /\ AllKeep(tblocks)
-----------------------------------------------------------------------------
\* A lease is a number of blocks.
LEMMA LeaseType ==
    ASSUME TokensAssumption, NEW periods \in Periods
    PROVE  Lease(periods) \in Nat
<1>1. periods \in Nat /\ LeasePeriod \in Nat
    BY DEF TokensAssumption
<1>2. \A x, y \in Nat : x * y \in Nat
    OBVIOUS
<1> QED BY <1>1, <1>2 DEF Lease

\* One operation on one name.
LEMMA NameOpKeeps ==
    ASSUME TokensAssumption, NEW names, NEW promise, Keeps(names, promise), NEW h \in Int,
           NEW tx \in NameOps, NameOpAllowed(tx, names[tx.name], h)
    PROVE  /\ tx.name \in Names
           /\ Keeps([names EXCEPT ![tx.name] = NameRecordAfter(tx, names[tx.name], h)],
                    [promise EXCEPT ![tx.name] = Promised(tx, promise[tx.name], h)])
<1> DEFINE m == tx.name
           rec == names[m]
           was == promise[m]
           r == NameRecordAfter(tx, rec, h)
           p == Promised(tx, was, h)
<1>1. m \in Names
    BY DEF NameOps
<1>2. /\ names \in NameRecords /\ promise \in Promises
      /\ rec \in [owner : Owners, expires : Int] /\ was \in [owner : Owners, since : Int, blocks : Int]
      /\ rec.owner = was.owner /\ (was.owner # "none" => rec.expires = was.since + was.blocks)
    BY <1>1 DEF Keeps, NameRecords, Promises
<1>0. MayAct(tx, was, h)
    <2>1. HeldAt(rec, h) <=> Entitled(was, h)
        BY <1>2 DEF HeldAt, Entitled
    <2> QED BY <1>2, <2>1 DEF NameOpAllowed, MayAct
<1> HIDE DEF m, rec, was
<1>3. /\ r \in [owner : Owners, expires : Int] /\ p \in [owner : Owners, since : Int, blocks : Int]
      /\ r.owner = p.owner /\ (p.owner # "none" => r.expires = p.since + p.blocks)
    <2>1. CASE tx.op = "register"
        <3>1. tx.target \in Owners /\ tx.periods \in Periods
            BY <2>1 DEF NameOps, Owners
        <3>2. Lease(tx.periods) \in Nat
            BY <3>1, LeaseType
        <3>3. /\ r = [owner |-> tx.target, expires |-> h + Lease(tx.periods)]
              /\ p = [owner |-> tx.target, since |-> h, blocks |-> Lease(tx.periods)]
            BY <1>0, <2>1 DEF NameRecordAfter, Promised
        <3> HIDE DEF r, p
        <3> QED BY <3>1, <3>2, <3>3
    <2>2. CASE tx.op = "renew"
        <3>1. tx.periods \in Periods
            BY <2>2 DEF NameOps
        <3>2. Lease(tx.periods) \in Nat
            BY <3>1, LeaseType
        <3>3. /\ r = [rec EXCEPT !.expires = @ + Lease(tx.periods)]
              /\ p = [was EXCEPT !.blocks = @ + Lease(tx.periods)]
            BY <1>0, <2>2 DEF NameRecordAfter, Promised
        <3>4. /\ r = [owner |-> rec.owner, expires |-> rec.expires + Lease(tx.periods)]
              /\ p = [owner |-> was.owner, since |-> was.since, blocks |-> was.blocks + Lease(tx.periods)]
            BY <1>2, <3>3
        <3>5. /\ rec.owner \in Owners /\ was.owner \in Owners /\ rec.expires \in Int
              /\ was.since \in Int /\ was.blocks \in Int
            BY <1>2
        <3> HIDE DEF r, p
        <3> QED BY <1>2, <3>2, <3>4, <3>5
    <2>3. CASE tx.op = "transfer"
        <3>1. tx.target \in Owners
            BY <2>3 DEF NameOps, Owners
        <3>2. r = [rec EXCEPT !.owner = tx.target] /\ p = [was EXCEPT !.owner = tx.target]
            BY <1>0, <2>3 DEF NameRecordAfter, Promised
        <3>3. was.owner # "none"
            BY <1>2, <2>3 DEF NameOpAllowed, HeldAt, rec, m
        <3> HIDE DEF r, p
        <3> QED BY <1>2, <3>1, <3>2, <3>3
    <2>4. CASE tx.op = "release"
        <3>1. /\ r = [owner |-> "none", expires |-> 0]
              /\ p = [owner |-> "none", since |-> h, blocks |-> 0]
            BY <1>0, <2>4 DEF NameRecordAfter, Promised, Unowned
        <3> HIDE DEF r, p
        <3> QED BY <3>1 DEF Owners
    <2> QED BY <2>1, <2>2, <2>3, <2>4 DEF NameOps
<1> HIDE DEF r, p
<1>4. Keeps([names EXCEPT ![m] = r], [promise EXCEPT ![m] = p])
    BY <1>1, <1>2, <1>3 DEF Keeps, NameRecords, Promises
<1> QED BY <1>1, <1>4 DEF m, r, p, rec, was

\* A new node has promised nothing.
LEMMA TokensInitInv == TokensInit => TokensInv
<1> SUFFICES ASSUME TokensInit PROVE TokensInv
    OBVIOUS
<1>1. IsLedger(tledger) /\ tledger.names = NoNames
    BY DEF TokensInit, NoTokens, IsLedger
<1>2. ghost = [promise |-> ghost.promise, blind |-> ghost.blind] /\ ghost.promise = NoPromise
    BY DEF TokensInit
<1>3. Keeps(NoNames, NoPromise)
    BY DEF Keeps, NoNames, NoPromise, Unowned, NameRecords, Promises, Owners
<1>4. AllKeep(tblocks)
    <2>1. tblocks \in Seq({}) /\ Len(tblocks) = 0
        BY DEF TokensInit
    <2>2. \E S : tblocks \in Seq(S)
        BY <2>1
    <2> QED BY <2>1, <2>2 DEF AllKeep
<1> QED BY <1>1, <1>2, <1>3, <1>4 DEF TokensInv

\* What a chain of blocks left keeps its promises, if each of its blocks does.
LEMMA AfterKeeps ==
    ASSUME NEW blocks, AllKeep(blocks)
    PROVE  IsLedger(After(blocks).after) /\ Keeps(After(blocks).after.names, After(blocks).promise)
<1>1. CASE blocks = <<>>
    <2>1. /\ After(blocks).after = NoTokens /\ After(blocks).promise = NoPromise
        BY <1>1 DEF After
    <2>2. IsLedger(NoTokens) /\ NoTokens.names = NoNames
        BY DEF NoTokens, IsLedger
    <2>3. Keeps(NoNames, NoPromise)
        BY DEF Keeps, NoNames, NoPromise, Unowned, NameRecords, Promises, Owners
    <2> QED BY <2>1, <2>2, <2>3
<1>2. CASE blocks # <<>>
    <2>1. Len(blocks) \in 1 .. Len(blocks)
        BY <1>2 DEF AllKeep
    <2> QED BY <1>2, <2>1 DEF After, AllKeep
<1> QED BY <1>1, <1>2

\* Every transaction, block, rejection and disconnection.
LEMMA TokensStep == TokensAssumption /\ TokensInv /\ [TokensNext]_tokenVars => TokensInv'
<1> SUFFICES ASSUME TokensAssumption, TokensInv, [TokensNext]_tokenVars PROVE TokensInv'
    OBVIOUS
<1>1. ASSUME NEW tx \in NameOps, kind = "names", ApplyTx(tx) PROVE TokensInv'
    <2> DEFINE m == tx.name
               r == NameRecordAfter(tx, tledger.names[m], NextHeight)
               p == Promised(tx, ghost.promise[m], NextHeight)
    <2>1. /\ NameOpAllowed(tx, tledger.names[m], NextHeight) /\ UNCHANGED tblocks
          /\ tledger' = [tledger EXCEPT !.names[m] = r, !.nonce[tx.from] = @ + 1]
          /\ ghost' = [ghost EXCEPT !.promise[m] = p]
        BY <1>1 DEF ApplyTx, ApplyNameOp
    <2>2. NextHeight \in Int
        <3>1. PICK S : tblocks \in Seq(S)
            BY DEF TokensInv, AllKeep
        <3> QED BY <3>1 DEF NextHeight
    <2>3. Keeps([tledger.names EXCEPT ![m] = r], [ghost.promise EXCEPT ![m] = p])
        BY <2>1, <2>2, NameOpKeeps DEF TokensInv
    <2> HIDE DEF m, r, p
    <2>4. IsLedger(tledger') /\ tledger'.names = [tledger.names EXCEPT ![m] = r]
        <3>1. tledger = [names |-> tledger.names, held |-> tledger.held, nonce |-> tledger.nonce]
            BY DEF TokensInv, IsLedger
        <3>2. tledger' = [names |-> [tledger.names EXCEPT ![m] = r], held |-> tledger.held,
                          nonce |-> [tledger.nonce EXCEPT ![tx.from] = @ + 1]]
            BY <2>1, <3>1
        <3> QED BY <3>2 DEF IsLedger
    <2>5. /\ ghost' = [promise |-> ghost'.promise, blind |-> ghost'.blind]
          /\ ghost'.promise = [ghost.promise EXCEPT ![m] = p]
        <3>1. ghost = [promise |-> ghost.promise, blind |-> ghost.blind]
            BY DEF TokensInv
        <3>2. ghost' = [promise |-> [ghost.promise EXCEPT ![m] = p], blind |-> ghost.blind]
            BY <2>1, <3>1
        <3> QED BY <3>2
    <2> QED BY <2>1, <2>3, <2>4, <2>5 DEF TokensInv
<1>2. ASSUME NEW tx \in AssetOps, kind # "names", ApplyTx(tx) PROVE TokensInv'
    <2>1. UNCHANGED <<ghost, tblocks>> /\ ApplyAsset(tx)
        BY <1>2 DEF ApplyTx, ApplyAsset
    <2>2. tledger = [names |-> tledger.names, held |-> tledger.held, nonce |-> tledger.nonce]
        BY DEF TokensInv, IsLedger
    <2>3. IsLedger(tledger') /\ tledger'.names = tledger.names
        <3>1. CASE tx.op = "issue"
            <4>1. PICK x : tledger' = [tledger EXCEPT !.held[tx.from] = x, !.nonce[tx.from] = @ + 1]
                BY <2>1, <3>1 DEF ApplyAsset, ApplyIssue
            <4> QED BY <2>2, <4>1 DEF IsLedger
        <3>2. CASE tx.op \in {"mint", "burn"}
            <4>1. PICK x : tledger' = [tledger EXCEPT !.held[tx.from] = x, !.nonce[tx.from] = @ + 1]
                BY <2>1, <3>2 DEF ApplyAsset, ApplyAssetOp
            <4> QED BY <2>2, <4>1 DEF IsLedger
        <3>3. CASE tx.op = "send"
            <4>1. PICK x, d : /\ d = [tledger EXCEPT !.held[tx.from] = x, !.nonce[tx.from] = @ + 1]
                              /\ \E y : tledger' = [d EXCEPT !.held[tx.to] = y]
                BY <2>1, <3>3 DEF ApplyAsset, ApplyAssetTransfer
            <4>2. d = [names |-> tledger.names, held |-> d.held, nonce |-> d.nonce]
                BY <2>2, <4>1
            <4> QED BY <4>1, <4>2 DEF IsLedger
        <3> QED BY <3>1, <3>2, <3>3 DEF AssetOps
    <2> QED BY <2>1, <2>3 DEF TokensInv
<1>3. CASE ConnectBlock
    <2> DEFINE b == [txs |-> body, after |-> tledger, promise |-> ghost.promise]
    <2>1. /\ UNCHANGED tledger /\ tblocks' = Append(tblocks, b)
          /\ \E x : ghost' = [ghost EXCEPT !.blind = x]
        BY <1>3 DEF ConnectBlock
    <2>2. ghost'.promise = ghost.promise /\ ghost' = [promise |-> ghost'.promise, blind |-> ghost'.blind]
        <3>1. ghost = [promise |-> ghost.promise, blind |-> ghost.blind]
            BY DEF TokensInv
        <3> QED BY <2>1, <3>1
    <2>3. b.after = tledger /\ b.promise = ghost.promise
        OBVIOUS
    <2> HIDE DEF b
    <2>4. AllKeep(tblocks')
        <3>1. PICK S : tblocks \in Seq(S)
            BY DEF TokensInv, AllKeep
        <3>2. tblocks \in Seq(S \cup {b}) /\ b \in S \cup {b}
            BY <3>1
        <3>3. /\ tblocks' \in Seq(S \cup {b}) /\ Len(tblocks') = Len(tblocks) + 1 /\ Len(tblocks) \in Nat
              /\ \A i \in 1 .. Len(tblocks) : tblocks'[i] = tblocks[i]
              /\ tblocks'[Len(tblocks) + 1] = b
            BY <2>1, <3>2
        <3>4. \A i \in 1 .. Len(tblocks') : i \in 1 .. Len(tblocks) \/ i = Len(tblocks) + 1
            BY <3>3
        <3>5. IsLedger(b.after) /\ Keeps(b.after.names, b.promise)
            BY <2>3 DEF TokensInv
        <3>6. \A i \in 1 .. Len(tblocks') :
                  IsLedger(tblocks'[i].after) /\ Keeps(tblocks'[i].after.names, tblocks'[i].promise)
            BY <3>3, <3>4, <3>5 DEF TokensInv, AllKeep
        <3> QED BY <3>3, <3>6 DEF AllKeep
    <2> QED BY <2>1, <2>2, <2>4 DEF TokensInv
<1>4. CASE RejectBlock
    <2>1. /\ UNCHANGED tblocks /\ tledger' = After(tblocks).after
          /\ ghost' = [ghost EXCEPT !.promise = After(tblocks).promise]
        BY <1>4 DEF RejectBlock
    <2>2. /\ ghost' = [promise |-> ghost'.promise, blind |-> ghost'.blind]
          /\ ghost'.promise = After(tblocks).promise
        <3>1. ghost = [promise |-> ghost.promise, blind |-> ghost.blind]
            BY DEF TokensInv
        <3> QED BY <2>1, <3>1
    <2>3. IsLedger(After(tblocks).after) /\ Keeps(After(tblocks).after.names, After(tblocks).promise)
        BY AfterKeeps DEF TokensInv
    <2> QED BY <2>1, <2>2, <2>3 DEF TokensInv
<1>5. CASE DisconnectBlock
    <2> DEFINE below == SubSeq(tblocks, 1, Len(tblocks) - 1)
    <2>1. /\ tblocks # <<>> /\ tblocks' = below /\ tledger' = After(below).after
          /\ \E x : ghost' = [promise |-> After(below).promise, blind |-> x]
        BY <1>5 DEF DisconnectBlock
    <2>2. AllKeep(below)
        <3>1. PICK S : tblocks \in Seq(S)
            BY DEF TokensInv, AllKeep
        <3>2. Len(tblocks) - 1 \in Nat /\ Len(tblocks) \in Nat
            BY <2>1, <3>1
        <3>5. \A k \in 0 .. Len(tblocks) :
                  /\ SubSeq(tblocks, 1, k) \in Seq(S) /\ Len(SubSeq(tblocks, 1, k)) = k
                  /\ \A i \in 1 .. k : SubSeq(tblocks, 1, k)[i] = tblocks[i]
            BY <3>1
        <3>6. Len(tblocks) - 1 \in 0 .. Len(tblocks)
            BY <3>2
        <3>3. /\ below \in Seq(S) /\ Len(below) = Len(tblocks) - 1
              /\ \A i \in 1 .. (Len(tblocks) - 1) : below[i] = tblocks[i]
            BY <3>5, <3>6, Zenon
        <3> HIDE DEF below
        <3>4. \A i \in 1 .. Len(below) : below[i] = tblocks[i] /\ i \in 1 .. Len(tblocks)
            BY <3>2, <3>3
        <3> QED BY <3>3, <3>4 DEF AllKeep, TokensInv
    <2> HIDE DEF below
    <2>3. IsLedger(After(below).after) /\ Keeps(After(below).after.names, After(below).promise)
        BY <2>2, AfterKeeps
    <2>4. /\ ghost' = [promise |-> ghost'.promise, blind |-> ghost'.blind]
          /\ ghost'.promise = After(below).promise
        BY <2>1
    <2> QED BY <2>1, <2>2, <2>3, <2>4 DEF TokensInv
<1>6. CASE UNCHANGED tokenVars
    BY <1>6 DEF tokenVars, TokensInv
<1> QED BY <1>1, <1>2, <1>3, <1>4, <1>5, <1>6 DEF TokensNext

\* NameRecordAfter, applyTxTo and the disconnection of blocks, for any names, leases
\* and chains: a name is its owner's in the blocks that were paid for and in no other,
\* only the owner's own operations pass it on, whatever else is in those blocks and
\* whichever of them are taken back.
THEOREM TokensHonourLeases ==
    ASSUME TokensAssumption
    PROVE  TokensSpec => []LeasesHonoured
<1>1. TokensInv /\ [TokensNext]_tokenVars => TokensInv'
    BY TokensStep
<1>2. TokensInv => LeasesHonoured
    <2> SUFFICES ASSUME TokensInv, NEW n \in Names
                 PROVE  /\ \A h \in Int : HeldAt(tledger.names[n], h) <=> Entitled(ghost.promise[n], h)
                        /\ tledger.names[n].owner = ghost.promise[n].owner
                        /\ NextHeight \in Int /\ Len(tblocks) \in Int
        BY DEF LeasesHonoured, LookupName
    <2>1. /\ tledger.names[n].owner = ghost.promise[n].owner
          /\ ghost.promise[n].owner # "none" => tledger.names[n].expires = ghost.promise[n].since + ghost.promise[n].blocks
          /\ tledger.names[n].expires \in Int /\ ghost.promise[n].since \in Int /\ ghost.promise[n].blocks \in Int
        BY DEF TokensInv, Keeps, NameRecords, Promises
    <2>2. \A h \in Int : HeldAt(tledger.names[n], h) <=> Entitled(ghost.promise[n], h)
        BY <2>1 DEF HeldAt, Entitled
    <2>3. PICK S : tblocks \in Seq(S)
        BY DEF TokensInv, AllKeep
    <2>4. NextHeight \in Int /\ Len(tblocks) \in Int
        BY <2>3 DEF NextHeight
    <2> QED BY <2>1, <2>2, <2>4
<1> QED BY <1>1, <1>2, TokensInitInv, PTL DEF TokensSpec
=============================================================================
