----------------------------- MODULE LightClient -----------------------------
(***************************************************************************)
(* The light client: cmd/dnas/headercache.go, spv.go, spvwallet.go (what   *)
(* it watches), anchor.go (verify) and fastsync.go, against one node.      *)
(*                                                                         *)
(* A command is a sequence of HTTP requests; the node may change its chain *)
(* between any two of them, and a request may fail.  Headers are a chain,  *)
(* named by its last block; a filter names its block; a filter header is   *)
(* the sequence of filters folded into it.  A filter matches exactly the   *)
(* addresses of its block (a false positive only costs a download).        *)
(***************************************************************************)
EXTENDS BlockTree, Functions, TLC

CONSTANTS
    Addresses,       \* addresses to watch
    Pays,            \* [Blocks -> SUBSET Addresses]: whom a block pays, one unit each
    Watched,         \* what the wallet watches at first
    StartTip,        \* where the node starts
    Commands,        \* the commands in use
    PageLimit,       \* maxPageLimit of the node
    Maturity,        \* CoinbaseMaturity: how far below the tip fastsync takes its snapshot
    MaxCommands,     \* bound: commands started
    MaxFailures      \* bound: requests that fail

VARIABLES
    tip,         \* the node's chain
    cacheFile,   \* the header cache on disk
    walletFile,  \* the wallet on disk
    cl,          \* the running command
    answer,      \* what the last finished command printed
    commands, failures

lightVars == <<tip, cacheFile, walletFile, cl, answer, commands, failures>>

None == "none"
NoAnswer == [kind |-> None, at |-> 0, value |-> 0]

\* What the chain up to height i has paid to an address.
Received(t, i, x) == Cardinality({j \in 1 .. i : x \in Pays[BlockAt(t, j)]})

\* The filter header at height i folds the filters of all blocks up to there.
FilterHeader(t, i) == [j \in 1 .. i + 1 |-> BlockAt(t, j - 1)]

FoldFilterHeaders(prev, filters, i) == prev \o SubSeq(filters, 1, i)

\* Heights that a page starting at from holds.
PageHeights(t, from) == from .. Min({Height(t), from + PageLimit - 1})

EmptyCache == [hdr |-> None, fh |-> <<>>]
\* The wallet file.  clean (history): since it was last reset no scan that stopped
\* halfway was kept, and no chain was taken that ends below the height scanned.
NewWallet == [addrs |-> {}, scanned |-> Genesis, bal |-> [x \in Addresses |-> 0], clean |-> TRUE]

\* Number of headers held.
Headers(c) == IF c.hdr = None THEN 0 ELSE Height(c.hdr) + 1

Idle == [pc |-> "idle", cmd |-> None, hdr |-> None, fh |-> <<>>, attempt |-> 0, from |-> 0,
         filters |-> <<>>, wallet |-> NewWallet, h |-> 0, found |-> Genesis, steady |-> FALSE]

LightInit ==
    /\ tip = StartTip
    /\ cacheFile = EmptyCache
    /\ walletFile = [NewWallet EXCEPT !.addrs = Watched]
    /\ cl = Idle
    /\ answer = NoAnswer
    /\ commands = 0 /\ failures = 0

\* The node switches to a better chain, at any time.
NodeMoves(t) ==
    /\ Beats(t, tip)
    /\ tip' = t
    /\ cl' = [cl EXCEPT !.steady = FALSE]
    /\ UNCHANGED <<cacheFile, walletFile, answer, commands, failures>>
-----------------------------------------------------------------------------
(* Starting a command *)

WalletCommands == {"update", "add", "watch"}

ResetScan(w) == [w EXCEPT !.scanned = Genesis, !.bal = [x \in Addresses |-> 0], !.clean = TRUE]

AddAddress(w, x) == IF x \in w.addrs THEN w ELSE ResetScan([w EXCEPT !.addrs = @ \cup {x}])

Forget(w, x) == [w EXCEPT !.addrs = @ \ {x}, !.bal[x] = 0]

\* The cached filter headers are those of the cached headers' own blocks.
Coherent(c) == \A i \in DOMAIN c.fh : i <= Headers(c) /\ c.fh[i] = FilterHeader(c.hdr, i - 1)

\* steady (history): the command started from a coherent cache that the node is not
\* behind, and the node has not moved since.
Steady == Coherent(cacheFile) /\ (cacheFile.hdr = None \/ Height(tip) >= Height(cacheFile.hdr))

\* update: filters are wanted above what was scanned.
Update(w) == [Idle EXCEPT !.pc = "headers", !.hdr = cacheFile.hdr, !.fh = cacheFile.fh,
                          !.from = IF w.scanned = Genesis THEN 0 ELSE Height(w.scanned) + 1, !.wallet = w,
                          !.steady = Steady]

Start(cmd, x) ==
    /\ cl.pc = "idle" /\ commands < MaxCommands
    /\ commands' = commands + 1
    /\ cmd \in {"add", "forget"} \/ x = CHOOSE y \in Addresses : TRUE
    /\ LET w == IF cmd = "add" THEN AddAddress(walletFile, x) ELSE walletFile
       IN  IF cmd = "forget"
           THEN x \in walletFile.addrs /\ walletFile' = Forget(walletFile, x) /\ UNCHANGED cl
           ELSE cl' = [Update(w) EXCEPT !.cmd = cmd] /\ UNCHANGED walletFile
    /\ UNCHANGED <<tip, cacheFile, answer, failures>>

\* watchEvents: another update from memory, on a block event.
WatchAgain ==
    /\ cl.pc = "watching" /\ commands < MaxCommands
    /\ commands' = commands + 1
    /\ cl' = [Update(cl.wallet) EXCEPT !.cmd = "watch"]
    /\ UNCHANGED <<tip, cacheFile, walletFile, answer, failures>>

\* The command ends without an answer.  add saves the wallet all the same, and
\* watch keeps it in memory.
Fail ==
    /\ LET halfway == cl.pc = "fold" /\ cl.h > Height(cl.wallet.scanned) + 1
           kept    == [cl.wallet EXCEPT !.clean = @ /\ ~halfway]
       IN  /\ cl' = IF cl.cmd = "watch" THEN [Idle EXCEPT !.pc = "watching", !.cmd = "watch", !.wallet = kept] ELSE Idle
           /\ walletFile' = IF cl.cmd = "add" THEN kept ELSE walletFile
    /\ answer' = NoAnswer

RequestFails ==
    /\ cl.pc \notin {"idle", "watching"} /\ failures < MaxFailures
    /\ failures' = failures + 1
    /\ Fail
    /\ UNCHANGED <<tip, cacheFile, commands>>
-----------------------------------------------------------------------------
(* The header cache *)

\* Mutant of ResetCache: the filter headers stay.
ResetCacheHeaders(c) == [c EXCEPT !.hdr = None]

ResetCache(c) == [c EXCEPT !.hdr = None, !.fh = <<>>]

\* What follows when the headers are verified.  The one-answer commands save
\* the cache now (fetchHeaders); the filter commands drop filter headers beyond
\* the tip, and save once both are in.
HeadersDone(c) ==
    IF c.cmd \in WalletCommands
    THEN /\ cl' = [c EXCEPT !.pc = "cfheaders", !.fh = SubSeq(@, 1, Min({Len(@), Headers(c)}))]
         /\ UNCHANGED cacheFile
    ELSE cl' = [c EXCEPT !.pc = c.cmd] /\ cacheFile' = [hdr |-> c.hdr, fh |-> c.fh]

\* appendVerified, of a page that links.
AppendVerified(c, b) ==
    [c EXCEPT !.hdr = b, !.fh = IF Len(@) > Height(b) + 1 THEN <<>> ELSE @]

\* tryExtend's first request re-reads the cached tip.  A different block there
\* discards the cache, once.
TryExtend ==
    /\ cl.pc = "headers"
    /\ LET from == IF cl.hdr = None THEN 0 ELSE Height(cl.hdr)
           last == BlockAt(tip, Max(PageHeights(tip, from)))
       IN  IF PageHeights(tip, from) = {} THEN HeadersDone(cl) /\ UNCHANGED <<walletFile, answer>>
           ELSE IF cl.hdr # None /\ BlockAt(tip, from) # cl.hdr
           THEN IF cl.attempt = 0
                THEN cl' = [ResetCache(cl) EXCEPT !.attempt = 1] /\ UNCHANGED <<walletFile, cacheFile, answer>>
                ELSE Fail /\ UNCHANGED cacheFile
           ELSE IF last = cl.hdr THEN HeadersDone(cl) /\ UNCHANGED <<walletFile, answer>>
           ELSE cl' = [AppendVerified(cl, last) EXCEPT !.pc = "more"] /\ UNCHANGED <<walletFile, cacheFile, answer>>
    /\ UNCHANGED <<tip, commands, failures>>

\* Then page by page, each of which must link, until one is empty.
NextPage ==
    /\ cl.pc = "more"
    /\ LET from == Height(cl.hdr) + 1
           page == PageHeights(tip, from)
       IN  IF page = {} THEN HeadersDone(cl) /\ UNCHANGED <<walletFile, answer>>
           ELSE IF Parent[BlockAt(tip, from)] # cl.hdr THEN Fail /\ UNCHANGED cacheFile
           ELSE cl' = AppendVerified(cl, BlockAt(tip, Max(page))) /\ UNCHANGED <<walletFile, cacheFile, answer>>
    /\ UNCHANGED <<tip, commands, failures>>

\* syncFilterHeaders: pages until the headers are covered.  The last page may
\* reach beyond them; it is kept, and saved, as it came.
SyncFilterHeaders ==
    /\ cl.pc = "cfheaders"
    /\ LET have == Len(cl.fh)
           page == PageHeights(tip, have)
       IN  IF have >= Headers(cl)
           THEN /\ cacheFile' = [hdr |-> cl.hdr, fh |-> cl.fh]
                /\ cl' = [cl EXCEPT !.pc = "cfilters"]
                /\ UNCHANGED <<walletFile, answer>>
           ELSE IF page = {} THEN Fail /\ UNCHANGED cacheFile
           ELSE /\ cl' = [cl EXCEPT !.fh = @ \o [j \in 1 .. Cardinality(page) |-> FilterHeader(tip, have + j - 1)]]
                /\ UNCHANGED <<cacheFile, walletFile, answer>>
    /\ UNCHANGED <<tip, commands, failures>>
-----------------------------------------------------------------------------
(* verifiedFiltersFrom *)

\* Every filter belongs to its verified header, and they fold into the cached
\* filter headers.
FiltersConsistent(c, base) ==
    \A i \in DOMAIN c.filters :
        /\ c.filters[i] = BlockAt(c.hdr, base + i - 1)
        /\ FoldFilterHeaders(IF base = 0 THEN <<>> ELSE c.fh[base], c.filters, i) = c.fh[base + i]

\* Mutant of Rescan: the recorded hash is not looked at.
RescanNever(c, w) == w

\* syncFrom's reorg detection.
Rescan(c, w) ==
    IF w.scanned # Genesis /\ Height(w.scanned) < Headers(c) /\ BlockAt(c.hdr, Height(w.scanned)) # w.scanned
    THEN ResetScan(w) ELSE w

FetchFilters ==
    /\ cl.pc = "cfilters"
    /\ LET base == Min({cl.from, Headers(cl)})
           page == PageHeights(tip, base + Len(cl.filters))
           below == Height(cl.wallet.scanned) >= Headers(cl)
           w    == [Rescan(cl, cl.wallet) EXCEPT !.clean = @ /\ ~below]
           next == Height(w.scanned) + 1
       IN  IF page # {}
           THEN /\ cl' = [cl EXCEPT !.filters = @ \o [j \in 1 .. Cardinality(page) |-> BlockAt(tip, base + Len(cl.filters) + j - 1)]]
                /\ UNCHANGED <<walletFile, answer>>
           ELSE IF base + Len(cl.filters) # Headers(cl) \/ ~FiltersConsistent(cl, base) THEN Fail
           \* errRescanNeeded: once more, with every filter.
           ELSE /\ cl' = IF next < cl.from THEN [Update(w) EXCEPT !.cmd = cl.cmd, !.from = 0, !.steady = cl.steady]
                         ELSE [cl EXCEPT !.pc = "fold", !.wallet = w, !.h = next]
                /\ UNCHANGED <<walletFile, answer>>
    /\ UNCHANGED <<tip, cacheFile, commands, failures>>

\* foldBlock: one unit to every watched address the block pays.
FoldBlock(w, b) == [w EXCEPT !.bal = [x \in Addresses |-> @[x] + IF x \in w.addrs \cap Pays[b] THEN 1 ELSE 0]]

\* syncFrom, one block at a time.  The answer of an update is the wallet.
FetchBlock ==
    /\ cl.pc = "fold"
    /\ LET matching == {h \in cl.h .. Height(cl.hdr) : h - cl.from < Len(cl.filters)
                                                       /\ Pays[cl.filters[h - cl.from + 1]] \cap cl.wallet.addrs # {}}
           h == Min(matching)
           done == [cl.wallet EXCEPT !.scanned = cl.hdr]
       IN  IF matching = {}
           THEN /\ walletFile' = done
                /\ cl' = IF cl.cmd = "watch" THEN [Idle EXCEPT !.pc = "watching", !.cmd = "watch", !.wallet = done] ELSE Idle
                /\ answer' = [kind |-> "wallet", at |-> Height(cl.hdr), value |-> 0]
           ELSE IF h > Height(tip) \/ BlockAt(tip, h) # BlockAt(cl.hdr, h) THEN Fail
           ELSE cl' = [cl EXCEPT !.wallet = FoldBlock(@, BlockAt(cl.hdr, h)), !.h = h + 1] /\ UNCHANGED <<walletFile, answer>>
    /\ UNCHANGED <<tip, cacheFile, commands, failures>>
-----------------------------------------------------------------------------
(* One-answer commands.  The payment they ask about is the first one to X. *)

X == CHOOSE x \in Addresses : TRUE

Answer(kind, at, value) ==
    /\ answer' = [kind |-> kind, at |-> at, value |-> value]
    /\ cl' = Idle

\* verifySPV: the proof's block lies within the verified headers, and its root
\* is the header's (the root stands for what the block holds).
ProofHolds(c, b) == Height(b) < Headers(c) /\ Pays[b] = Pays[BlockAt(c.hdr, Height(b))]

\* spv verify and anchor verify: an inclusion proof from the node's chain of now.
Verify ==
    /\ cl.pc \in {"verify", "anchor"}
    /\ LET holding == {i \in 1 .. Height(tip) : X \in Pays[BlockAt(tip, i)]}
           b == BlockAt(tip, Min(holding))
       IN  IF holding = {} \/ ~ProofHolds(cl, b) THEN Fail
           ELSE /\ IF cl.pc = "verify" THEN Answer("tx", Height(b), Height(cl.hdr) - Height(b) + 1)
                   ELSE cl' = [cl EXCEPT !.pc = "body", !.found = b] /\ UNCHANGED answer
                /\ UNCHANGED walletFile
    /\ UNCHANGED <<tip, cacheFile, commands, failures>>

\* verifyAnchor: the body at that height must be the header's and hold the memo.
VerifyAnchor ==
    /\ cl.pc = "body"
    /\ LET i == Height(cl.found)
       IN  IF i > Height(tip) \/ Pays[BlockAt(tip, i)] # Pays[BlockAt(cl.hdr, i)] THEN Fail
           ELSE Answer("tx", i, Height(cl.hdr) - i + 1) /\ UNCHANGED walletFile
    /\ UNCHANGED <<tip, cacheFile, commands, failures>>

\* spv balance: the account under the node's tip, whose state root must be that of
\* the verified header there.  For an account the node does not find nothing is
\* checked, and the answer is "treat as 0".
SpvBalance ==
    /\ cl.pc = "balance"
    /\ LET state(t) == [x \in Addresses |-> Received(t, Height(tip), x)]
       IN  IF state(tip)[X] = 0 THEN Answer("absent", Height(tip), 0) /\ UNCHANGED walletFile
           ELSE IF Height(tip) >= Headers(cl) \/ state(tip) # state(cl.hdr) THEN Fail
           ELSE Answer("balance", Height(tip), state(tip)[X]) /\ UNCHANGED walletFile
    /\ UNCHANGED <<tip, cacheFile, commands, failures>>

\* fastsync: the snapshot must be that of the verified header at its height.
FastSync ==
    /\ cl.pc = "fastsync"
    /\ LET snapHeight == Max({0, Height(cl.hdr) - Maturity})
       IN  IF snapHeight > Height(tip) \/ BlockAt(tip, snapHeight) # BlockAt(cl.hdr, snapHeight) THEN Fail
           ELSE cl' = [cl EXCEPT !.pc = "bodies", !.found = BlockAt(tip, snapHeight)] /\ UNCHANGED <<walletFile, answer>>
    /\ UNCHANGED <<tip, cacheFile, commands, failures>>

\* The bodies above it are downloaded one by one; each must extend the last.
FastSyncBody ==
    /\ cl.pc = "bodies"
    /\ LET next == Height(cl.found) + 1
       IN  IF next > Height(cl.hdr)
           THEN Answer("balance", Height(cl.found), Received(cl.found, Height(cl.found), X)) /\ UNCHANGED walletFile
           ELSE IF next > Height(tip) \/ Parent[BlockAt(tip, next)] # cl.found THEN Fail
           ELSE cl' = [cl EXCEPT !.found = BlockAt(tip, next)] /\ UNCHANGED <<walletFile, answer>>
    /\ UNCHANGED <<tip, cacheFile, commands, failures>>

LightNext ==
    \/ \E t \in Blocks : NodeMoves(t)
    \/ \E cmd \in Commands, x \in Addresses : Start(cmd, x)
    \/ WatchAgain \/ RequestFails
    \/ TryExtend \/ NextPage \/ SyncFilterHeaders \/ FetchFilters \/ FetchBlock
    \/ Verify \/ VerifyAnchor \/ SpvBalance \/ FastSync \/ FastSyncBody

LightSpec == LightInit /\ [][LightNext]_lightVars
-----------------------------------------------------------------------------
Exact(w) == \A x \in w.addrs : w.bal[x] = Received(w.scanned, Height(w.scanned), x)

\* What the wallet file says was received is what the chain it was scanned against
\* paid, address by address, whatever the node did between the requests the scan
\* was made of: unless a scan that stopped halfway was kept (add, watch), or a chain
\* was taken that ends below the height already scanned.
WalletExact == walletFile.clean => Exact(walletFile)

\* The same of every wallet file: a chain that does not carry the recorded block makes
\* the wallet rescan from scratch, as syncFrom's comment says.
RescansOnReorg == Exact(walletFile)

\* A command that ran while the node stayed on one chain and answered every request
\* gives the answer of that chain: wallets are scanned to its tip, balances are its
\* balances, transactions are where it has them.  Whatever was left behind by the
\* commands before (a cache of another branch, a wallet of another branch) only
\* costs requests.
SteadyAnswers ==
    [][cl.steady /\ cl'.pc \in {"idle", "watching"} /\ failures' = failures =>
         /\ answer'.kind = "wallet"  => walletFile'.scanned = tip
         /\ answer'.kind = "balance" => answer'.at = Height(tip) /\ answer'.value = Received(tip, Height(tip), X)
         /\ answer'.kind = "absent"  => Received(tip, Height(tip), X) = 0
         /\ answer'.kind = "tx"      => X \in Pays[BlockAt(tip, answer'.at)] /\ answer'.value = Height(tip) - answer'.at + 1
         /\ answer'.kind = None      => cl.cmd \in {"verify", "anchor"} /\ Received(tip, Height(tip), X) = 0]_lightVars
=============================================================================
