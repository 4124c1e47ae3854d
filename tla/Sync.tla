-------------------------------- MODULE Sync --------------------------------
(***************************************************************************)
(* How a node follows its peers' chains: announcements, compact blocks,    *)
(* headers-first ranged download with time-outs, the orphan pool and ban   *)
(* scores (node/node.go, node/sync.go, node/orphan.go,                     *)
(* node/compactblock.go, node/ban.go, node/reorghist.go).                  *)
(*                                                                         *)
(* The module is one node (tip, best, orphans, ...) and its connections.   *)
(* A peer runs the same code; here it only serves: it answers requests     *)
(* from its own chain and announces what that chain becomes.  Blocks form  *)
(* a fixed tree, so a chain is its tip.  A connection is a pair of FIFO    *)
(* queues that are lost with it.                                           *)
(***************************************************************************)
EXTENDS OrphanPool

CONSTANTS
    Txs, NoTx,           \* transactions, and a hole where one is missing
    Body,                \* [Blocks -> Seq(Txs)], without the coinbase
    ShortId(_, _),       \* the block-keyed short id of a transaction
    Peers,
    Faulty,              \* peers that may stay silent or serve rubbish
    Junk,                \* the hash of a malformed block
    Lies,                \* requests that a faulty peer may answer with rubbish
    ClaimedHeight,       \* a height a faulty peer claims to have
    StartTip,
    Starts,              \* how the peers' chains and the mempool may be at first
    PeerMoves,           \* [Peers -> SUBSET (Blocks \X Blocks)]: how a peer's chain may change
    MaxHeadersBatch, MaxBlocksBatch, MaxSyncPeers,
    MaxPendingBlocks,
    MaxReorgDepth,
    BanThreshold, BanStalling, BanBadHeaders, BanInvalidBlock,
    MaxFaults,           \* bound on connections lost and rubbish served
    MaxQueue             \* bound on messages under way when a tick or a peer adds one

VARIABLES
    tip,          \* the chain held
    bestHeight,   \* the highest height a peer ever announced
    seenBlk,      \* block hashes seen
    orphans,      \* the orphan pool, oldest first
    orphanBytes,  \* its running byte count
    pending,      \* compact blocks waiting for transactions, oldest first
    spoilt,       \* blocks whose assembly an eviction or a faulty answer discarded (history)
    pool,         \* transactions in the mempool
    inflight,     \* ranged requests outstanding
    asking,       \* ranged requests requestMoreBlocks is still sending
    conn,         \* state of the connection to each peer
    inq, outq,    \* messages from and to each peer
    score,        \* ban scores
    peerTip,      \* the peer's chain
    cooling,      \* has the peer served its whole chain within getChainCooldown?
    faults        \* connections lost and rubbish served so far

assembly == <<pending, spoilt>>
nodeVars == <<tip, bestHeight, seenBlk, orphans, orphanBytes, assembly, pool>>
syncVars == <<inflight, asking>>
netVars  == <<conn, score, faults>>
peerVars == <<peerTip, cooling>>
vars == <<nodeVars, syncVars, netVars, peerVars, inq, outq>>
-----------------------------------------------------------------------------
HeadersFrom(t, from) ==
    SubSeq(Path[t], from, Min({Height(t), from + MaxHeadersBatch - 1}))

BlocksRange(t, from, to) ==
    SubSeq(Path[t], from, Min({to, Height(t), from + MaxBlocksBatch - 1}))

FinalityAllows(fork) == Height(tip) - fork <= MaxReorgDepth
-----------------------------------------------------------------------------
Here == [pl |-> orphans, bytes |-> orphanBytes, tip |-> tip, seen |-> seenBlk]

SetNode(st) ==
    /\ orphans' = st.pl
    /\ orphanBytes' = st.bytes
    /\ tip' = st.tip
    /\ seenBlk' = st.seen
-----------------------------------------------------------------------------
(* Connections and messages. *)

Msg(type) == [type |-> type]

GetHeaders == [type |-> "getheaders", locator |-> tip]

Up == {p \in Peers : conn[p] = "up"}

\* p.send: what is written to a connection being closed is lost.
SendTo(q, p, m) == IF conn[p] = "up" THEN [q EXCEPT ![p] = Append(@, m)] ELSE q

\* The head of p's queue is handled, with the answer (if any) sent back to p.
Receive(p, type) ==
    /\ conn[p] = "up"
    /\ inq[p] # <<>>
    /\ Head(inq[p]).type = type
    /\ inq' = [inq EXCEPT ![p] = Tail(@)]

Reply(p, m) == outq' = SendTo(outq, p, m)

Confirmed ==
    [b \in Blocks |-> UNION {{Body[c][k] : k \in DOMAIN Body[c]} : c \in {Path[b][i] : i \in DOMAIN Path[b]}}]

\* resurrectTxs, then reconcileMempool, when the chain moves from old to new.
PoolAfter(old, new) == (pool \cup Confirmed[old]) \ Confirmed[new]

NoteBestHeight(h) == bestHeight' = Max({bestHeight, h})

Banned(p) == score[p] >= BanThreshold

Points(p, n) == score' = [score EXCEPT ![p] = Min({@ + n, BanThreshold})]

\* A request is dropped from the table when its peer answers or goes away.
Cleared(p) == {r \in inflight : ~(r.peer = p /\ r.live)}
-----------------------------------------------------------------------------
Init ==
    /\ tip = StartTip /\ bestHeight = 0 /\ seenBlk = {}
    /\ orphans = <<>> /\ orphanBytes = 0 /\ pending = <<>> /\ spoilt = {}
    /\ inflight = {} /\ asking = <<>>
    /\ conn = [p \in Peers |-> "down"] /\ score = [p \in Peers |-> 0] /\ faults = 0
    /\ inq = [p \in Peers |-> <<>>] /\ outq = [p \in Peers |-> <<>>]
    /\ \E s \in Starts : peerTip = s.peerTip /\ pool = s.pool
    /\ cooling = {}

\* A completed handshake: handleConn starts headers-first catch-up.
Connect(p) ==
    /\ conn[p] = "down"
    /\ ~Banned(p)
    /\ conn' = [conn EXCEPT ![p] = "up"]
    /\ outq' = [outq EXCEPT ![p] = <<GetHeaders>>]
    /\ cooling' = cooling \ {p}
    /\ UNCHANGED <<nodeVars, inflight, asking, score, faults, peerTip, inq>>

\* The read loop notices that the connection is gone: removePeer.
RemovePeer(p) ==
    /\ conn[p] = "closing"
    /\ conn' = [conn EXCEPT ![p] = "down"]
    /\ inflight' = Cleared(p)
    /\ asking' = [i \in DOMAIN asking |-> [asking[i] EXCEPT !.live = @ /\ asking[i].peer # p]]
    /\ UNCHANGED <<nodeVars, score, faults, peerVars, inq, outq>>

\* The connection to p is lost, with every message on it (a faulty peer can as
\* well stay silent).
Lose(p) ==
    /\ conn[p] = "up"
    /\ p \notin Faulty /\ faults < MaxFaults
    /\ faults' = faults + 1
    /\ conn' = [conn EXCEPT ![p] = "closing"]
    /\ inq' = [inq EXCEPT ![p] = <<>>]
    /\ outq' = [outq EXCEPT ![p] = <<>>]
    /\ UNCHANGED <<nodeVars, syncVars, score, peerVars>>
-----------------------------------------------------------------------------
(* The peer's side: the serving half of handleMessage, and announcements. *)

Announcement(p, b) ==
    IF Parent[b] = peerTip[p] /\ Body[b] # <<>> THEN [type |-> "cmpct", block |-> b, ok |-> TRUE]
                                               ELSE [type |-> "inv", index |-> Height(b)]

\* A peer's chain changes for the better and it announces its new tip.
PeerAdvances(p, b) ==
    /\ <<peerTip[p], b>> \in PeerMoves[p]
    /\ Beats(b, peerTip[p])
    /\ peerTip' = [peerTip EXCEPT ![p] = b]
    /\ inq' = IF conn[p] = "up" THEN [inq EXCEPT ![p] = Append(@, Announcement(p, b))] ELSE inq
    /\ UNCHANGED <<nodeVars, syncVars, netVars, cooling, outq>>

\* What the peer sends back for a request; nothing at all when it has nothing.
Answer(p, m) ==
    LET t == peerTip[p]
    IN  CASE m.type = "getheaders" ->
               LET hs == HeadersFrom(t, LocatorFork(t, m.locator) + 1)
               IN  IF hs = <<>> THEN <<>> ELSE <<[type |-> "headers", hs |-> hs, ok |-> TRUE]>>
          [] m.type = "getblocks" ->
               LET bs == BlocksRange(t, m.from, m.to)
               IN  IF bs = <<>> THEN <<>> ELSE <<[type |-> "blocks", bs |-> bs]>>
          [] m.type = "getdata" ->
               IF m.index > Height(t) THEN <<>>
               ELSE <<[type |-> "block", block |-> BlockAt(t, m.index), ok |-> TRUE]>>
          [] m.type = "getblocktxn" ->
               IF Height(m.block) > Height(t) \/ BlockAt(t, Height(m.block)) # m.block THEN <<>>
               ELSE <<[type |-> "blocktxn", block |-> m.block,
                       txs |-> [i \in DOMAIN m.missing |-> Body[m.block][m.missing[i]]]]>>
          [] m.type = "getchain" ->
               IF p \in cooling THEN <<>> ELSE <<[type |-> "chain", block |-> t]>>

\* What a faulty peer may send instead.
Rubbish(p, m) ==
    CASE m.type = "getheaders"  -> {[type |-> "headers", hs |-> <<peerTip[p]>>, ok |-> FALSE],
                                    [type |-> "inv", index |-> ClaimedHeight]}
      [] m.type = "getdata"     -> {[type |-> "block", block |-> Junk, ok |-> FALSE]}
      [] m.type = "getblocks"   -> {[type |-> "cmpct", block |-> Junk, ok |-> FALSE]}
      [] m.type = "getblocktxn" -> {[type |-> "blocktxn", block |-> m.block, txs |-> txs] :
                                       txs \in {<<>>, [i \in DOMAIN m.missing |-> NoTx]}}
      [] OTHER                  -> {}

PeerServes(p) ==
    /\ conn[p] = "up"
    /\ outq[p] # <<>>
    /\ Len(inq[p]) < MaxQueue
    /\ LET m == Head(outq[p])
       IN  /\ \/ inq' = [inq EXCEPT ![p] = @ \o Answer(p, m)] /\ UNCHANGED faults
              \/ p \in Faulty /\ UNCHANGED <<inq, faults>>
              \/ /\ p \in Faulty /\ m.type \in Lies /\ faults < MaxFaults
                 /\ \E r \in Rubbish(p, m) : inq' = [inq EXCEPT ![p] = Append(@, r)]
                 /\ faults' = faults + 1
           /\ cooling' = IF m.type = "getchain" THEN cooling \cup ({p} \ Faulty) ELSE cooling
    /\ outq' = [outq EXCEPT ![p] = Tail(@)]
    /\ UNCHANGED <<nodeVars, syncVars, conn, score, peerTip>>

CoolingEnds(p) ==
    /\ p \in cooling
    /\ cooling' = cooling \ {p}
    /\ UNCHANGED <<nodeVars, syncVars, netVars, peerTip, inq, outq>>
-----------------------------------------------------------------------------
(* The node's side: the receiving half of handleMessage. *)

\* A block hash announced on its own.
OnInv(p) ==
    /\ Receive(p, "inv")
    /\ LET index == Head(inq[p]).index
       IN  /\ NoteBestHeight(index)
           /\ \/ index = Height(tip) + 1 /\ Reply(p, [type |-> "getdata", index |-> index])
              \/ index > Height(tip) + 1 /\ Reply(p, GetHeaders)
              \/ index <= Height(tip) /\ UNCHANGED outq
    /\ UNCHANGED <<tip, seenBlk, orphans, orphanBytes, assembly, pool, syncVars, netVars, peerVars>>

\* onBlockReceived for a block that is valid on its own terms.  Announcing the
\* block to the other peers is their business, not modelled here.
AcceptBlock(p, b) ==
    IF b \in seenBlk THEN UNCHANGED <<tip, bestHeight, seenBlk, orphans, orphanBytes, pool, outq>>
    ELSE /\ NoteBestHeight(Height(b))
         /\ IF Parent[b] = tip
            THEN LET st == ConnectOrphans([Here EXCEPT !.tip = b, !.seen = @ \cup {b}])
                 IN  SetNode(st) /\ pool' = PoolAfter(tip, st.tip) /\ UNCHANGED outq
            ELSE LET st == BufferOrphan([pl |-> orphans, bytes |-> orphanBytes], tip, b)
                 IN  /\ orphans' = st.pl /\ orphanBytes' = st.bytes
                     /\ seenBlk' = seenBlk \cup {b}
                     /\ Reply(p, GetHeaders)
                     /\ UNCHANGED <<tip, pool>>

OnBlock(p) ==
    /\ Receive(p, "block")
    /\ LET m == Head(inq[p])
       IN  \/ (m.ok \/ m.block \in seenBlk) /\ AcceptBlock(p, m.block) /\ UNCHANGED score
           \/ /\ ~m.ok /\ m.block \notin seenBlk
              /\ seenBlk' = seenBlk \cup {m.block}
              /\ Points(p, BanInvalidBlock)
              /\ UNCHANGED <<tip, bestHeight, orphans, orphanBytes, pool, outq>>
    /\ UNCHANGED <<assembly, syncVars, conn, faults, peerVars>>

\* completeBlock: believed only if the body has the header's merkle root.
CompleteBlock(p, b, txs) ==
    IF txs = Body[b] THEN AcceptBlock(p, b)
    ELSE /\ Reply(p, [type |-> "getdata", index |-> Height(b)])
         /\ UNCHANGED <<tip, bestHeight, seenBlk, orphans, orphanBytes, pool>>

\* The pool's transactions that a short id may resolve to (one of them is used
\* when ids collide), and the positions nothing resolves.
Resolves(b, i) == {t \in pool : ShortId(b, t) = ShortId(b, Body[b][i])}

MissingIn(b) == SelectSeq([i \in DOMAIN Body[b] |-> i], LAMBDA i : Resolves(b, i) = {})

\* What blockAssembly.put evicts: the oldest when the assembly is full, though the
\* block may be one it holds already.
Evicted == IF Len(pending) < MaxPendingBlocks THEN <<>> ELSE <<Head(pending)>>

Put(q) ==
    /\ pending' = Append(SelectSeq(pending, LAMBDA o : o.block # q.block /\ ~Contains(Evicted, o)), q)
    /\ spoilt' = spoilt \cup ({o.block : o \in ToSet(Evicted)} \ {q.block})

OnCompactBlock(p) ==
    /\ Receive(p, "cmpct")
    /\ LET m == Head(inq[p])
           b == m.block
       IN  \/ /\ b \in seenBlk
              /\ UNCHANGED <<tip, bestHeight, seenBlk, orphans, orphanBytes, pool, assembly, outq, score>>
           \/ /\ b \notin seenBlk /\ ~m.ok
              /\ Points(p, BanInvalidBlock)
              /\ UNCHANGED <<tip, bestHeight, seenBlk, orphans, orphanBytes, pool, assembly, outq>>
           \/ /\ b \notin seenBlk /\ m.ok
              /\ \E txs \in {f \in [DOMAIN Body[b] -> pool \cup {NoTx}] :
                                \A i \in DOMAIN f : IF Resolves(b, i) = {} THEN f[i] = NoTx
                                                                          ELSE f[i] \in Resolves(b, i)} :
                   IF MissingIn(b) = <<>>
                   THEN CompleteBlock(p, b, txs) /\ UNCHANGED assembly
                   ELSE /\ Put([block |-> b, txs |-> txs, missing |-> MissingIn(b)])
                        /\ Reply(p, [type |-> "getblocktxn", block |-> b, missing |-> MissingIn(b)])
                        /\ UNCHANGED <<tip, bestHeight, seenBlk, orphans, orphanBytes, pool>>
              /\ UNCHANGED score
    /\ UNCHANGED <<syncVars, conn, faults, peerVars>>

\* The missing transactions arrive and fill the holes.  The assembly is taken whoever
\* answers and whatever the answer is worth.
OnBlockTxn(p) ==
    /\ Receive(p, "blocktxn")
    /\ LET m == Head(inq[p])
           waiting == {q \in ToSet(pending) : q.block = m.block}
       IN  /\ pending' = SelectSeq(pending, LAMBDA q : q.block # m.block)
           /\ IF waiting = {}
              THEN UNCHANGED <<tip, bestHeight, seenBlk, orphans, orphanBytes, pool, outq>>
              ELSE \E q \in waiting :
                      IF Len(m.txs) # Len(q.missing)
                      THEN /\ Reply(p, [type |-> "getdata", index |-> Height(m.block)])
                           /\ UNCHANGED <<tip, bestHeight, seenBlk, orphans, orphanBytes, pool>>
                      ELSE LET at(i) == CHOOSE k \in DOMAIN q.missing : q.missing[k] = i
                           IN  CompleteBlock(p, m.block,
                                   [i \in DOMAIN q.txs |-> IF q.txs[i] = NoTx THEN m.txs[at(i)]
                                                                                 ELSE q.txs[i]])
           /\ spoilt' = IF waiting # {} /\ p \in Faulty THEN spoilt \cup {m.block} ELSE spoilt
    /\ UNCHANGED <<syncVars, netVars, peerVars>>

\* pendingBlockTTL passes: take no longer returns the block, put no longer counts it.
\* An answer that is still on its way arrives first.
PendingExpires(q) ==
    /\ \A p \in Peers : inq[p] = <<>> /\ outq[p] = <<>>
    /\ pending' = SelectSeq(pending, LAMBDA o : o # q)
    /\ UNCHANGED <<spoilt, tip, bestHeight, seenBlk, orphans, orphanBytes, pool, syncVars,
                   netVars, peerVars, inq, outq>>

\* Mutant of WantedFrom: only heights above our own are asked for.
WantedAboveTip(hs) == Max({Height(hs[1]), Height(tip) + 1})

\* The first body to ask for: the first header, even where it forks off our chain.
WantedFrom(hs) == Height(hs[1])

\* Headers that link to our chain are followed by a request for the bodies.
OnHeaders(p) ==
    /\ Receive(p, "headers")
    /\ LET m == Head(inq[p])
           from == Height(m.hs[1])
           to == Height(m.hs[Len(m.hs)])
           links == from - 1 <= Height(tip) /\ BlockAt(tip, from - 1) = Parent[m.hs[1]]
       IN  \/ /\ ~links
              /\ Reply(p, Msg("getchain"))
              /\ UNCHANGED <<bestHeight, score, inflight>>
           \/ /\ links /\ ~m.ok
              /\ Points(p, BanBadHeaders)
              /\ UNCHANGED <<bestHeight, outq, inflight>>
           \/ /\ links /\ m.ok
              /\ NoteBestHeight(to)
              /\ Reply(p, [type |-> "getblocks", from |-> WantedFrom(m.hs), to |-> to])
              /\ inflight' = Cleared(p) \cup {[peer |-> p, live |-> TRUE, from |-> WantedFrom(m.hs), to |-> to,
                                               late |-> FALSE]}
              /\ UNCHANGED score
    /\ UNCHANGED <<tip, seenBlk, orphans, orphanBytes, assembly, pool, asking,
                   conn, faults, peerVars>>

\* Blocks of a batch one after the other: extend the tip or wait for a parent.
Apply1(st, b) ==
    IF Parent[b] = st.tip
    THEN [st EXCEPT !.tip = b, !.seen = @ \cup {b}, !.applied = @ + 1]
    ELSE LET o == BufferOrphan([pl |-> st.pl, bytes |-> st.bytes], st.tip, b)
         IN  [st EXCEPT !.pl = o.pl, !.bytes = o.bytes,
                        !.buffered = IF o.pl = st.pl THEN @ ELSE @ + 1]

ApplyBatch(bs) ==
    LET start == [pl |-> orphans, bytes |-> orphanBytes, tip |-> tip, seen |-> seenBlk,
                  applied |-> 0, buffered |-> 0]
    IN  FoldLeft(Apply1, start, bs)

ExtendWith(p, bs) ==
    LET st == ApplyBatch(bs)
        end == ConnectOrphans([pl |-> st.pl, bytes |-> st.bytes, tip |-> st.tip, seen |-> st.seen])
        applied == Height(end.tip) - Height(tip)
    IN  /\ SetNode(end)
        /\ pool' = PoolAfter(tip, end.tip)
        /\ IF (applied = 0 /\ st.buffered = 0) \/ (applied > 0 /\ applied >= Len(bs))
           THEN outq' = SendTo(outq, p, [type |-> "getheaders", locator |-> end.tip])
           ELSE UNCHANGED outq

\* A batch that starts below our tip is a fork suffix.
ReorgWith(p, bs) ==
    LET new == bs[Len(bs)]
        fork == Height(bs[1]) - 1
        adopted == BlockAt(tip, fork) = Parent[bs[1]] /\ FinalityAllows(fork) /\ Beats(new, tip)
    IN  IF adopted
        THEN /\ tip' = new
             /\ seenBlk' = seenBlk \cup {bs[i] : i \in DOMAIN bs}
             /\ pool' = PoolAfter(tip, new)
             /\ outq' = IF Len(bs) = MaxBlocksBatch
                        THEN SendTo(outq, p, [type |-> "getheaders", locator |-> new]) ELSE outq
             /\ UNCHANGED <<orphans, orphanBytes>>
        ELSE /\ Reply(p, Msg("getchain"))
             /\ UNCHANGED <<tip, seenBlk, orphans, orphanBytes, pool>>

OnBlocks(p) ==
    /\ Receive(p, "blocks")
    /\ LET bs == Head(inq[p]).bs
       IN  /\ inflight' = Cleared(p)
           /\ NoteBestHeight(Height(bs[Len(bs)]))
           /\ IF Height(bs[1]) <= Height(tip) THEN ReorgWith(p, bs) ELSE ExtendWith(p, bs)
    /\ UNCHANGED <<assembly, asking, netVars, peerVars>>

\* The whole-chain fallback: ReplaceChain.
OnChain(p) ==
    /\ Receive(p, "chain")
    /\ LET new == Head(inq[p]).block
           fork == LocatorFork(tip, new)
           adopt == FinalityAllows(fork) /\ Beats(new, tip)
       IN  \/ adopt /\ tip' = new /\ pool' = PoolAfter(tip, new)
           \/ ~adopt /\ UNCHANGED <<tip, pool>>
    /\ UNCHANGED <<bestHeight, seenBlk, orphans, orphanBytes, assembly, syncVars, netVars, peerVars, outq>>
-----------------------------------------------------------------------------
(* The sync loop. *)

\* blockRequestTimeout passes without an answer.  Answers are assumed prompt: one
\* that is still on its way arrives before the time-out.
RequestExpires(r) ==
    /\ ~r.late
    /\ r.live => inq[r.peer] = <<>> /\ outq[r.peer] = <<>>
    /\ inflight' = (inflight \ {r}) \cup {[r EXCEPT !.late = TRUE]}
    /\ UNCHANGED <<nodeVars, asking, netVars, peerVars, inq, outq>>

Stalled == {r \in inflight : r.late}

\* Windows beyond what is already in flight, one per idle peer.
NextWindow(reqs) == Max({Height(tip) + 1} \cup {r.to + 1 : r \in reqs})

Windows(order, first, slots) ==
    LET from(i) == first + (i - 1) * MaxBlocksBatch
    IN  [i \in 1 .. Cardinality({i \in 1 .. Min({slots, Len(order)}) : from(i) <= bestHeight}) |->
            [peer |-> order[i], live |-> TRUE, sent |-> FALSE, from |-> from(i),
             to |-> Min({from(i) + MaxBlocksBatch - 1, bestHeight})]]

RoomFor(ps) == \A p \in ps : Len(inq[p]) + Len(outq[p]) < MaxQueue

\* The table once dropStalledPeers has given up on the late requests.
DropStalled == inflight \ Stalled

\* dropStalledPeers and requestMoreBlocks, whose windows are then sent and recorded
\* one at a time (Relay models the tick's mempool reconciliation).  p0 is the idle
\* peer that the randomised iteration over the peer map happens to give first.
SyncTick(p0) ==
    LET left == DropStalled
        gone == {r.peer : r \in {q \in Stalled : q.live}}
        open == {p \in Peers : conn[p] # "down"}
        idle == {p \in open : ~\E r \in left : r.live /\ r.peer = p}
        slots == MaxSyncPeers - Cardinality(left)
        first == NextWindow(left)
        behind == bestHeight > Height(tip) /\ slots > 0 /\ idle # {}
        quiet == [p \in Peers |-> IF p \in gone THEN <<>> ELSE outq[p]]
    IN  /\ asking = <<>>
        /\ RoomFor(open \ gone)
        /\ idle # {} => p0 \in idle
        /\ inflight' = left
        /\ score' = [p \in Peers |-> Min({BanThreshold, score[p]
                        + BanStalling * Cardinality({r \in Stalled : r.peer = p})})]
        /\ conn' = [p \in Peers |-> IF p \in gone THEN "closing" ELSE conn[p]]
        /\ inq' = [p \in Peers |-> IF p \in gone THEN <<>> ELSE inq[p]]
        /\ \/ /\ behind /\ first = Height(tip) + 1
              /\ outq' = [quiet EXCEPT ![p0] = IF conn'[p0] = "up" THEN Append(@, GetHeaders) ELSE @]
              /\ UNCHANGED asking
           \/ /\ behind /\ first > Height(tip) + 1
              /\ \E order \in SetToSeqs(idle) : order[1] = p0 /\ asking' = Windows(order, first, slots)
              /\ outq' = quiet
           \/ /\ ~behind
              /\ outq' = quiet
              /\ UNCHANGED asking
    /\ UNCHANGED <<nodeVars, faults, peerVars>>

\* requestMoreBlocks writes the request to the connection ...
SendWindow ==
    /\ asking # <<>> /\ ~asking[1].sent
    /\ LET a == asking[1]
           m == [type |-> "getblocks", from |-> a.from, to |-> a.to]
       IN  /\ asking' = [asking EXCEPT ![1].sent = TRUE]
           /\ outq' = IF a.live THEN SendTo(outq, a.peer, m) ELSE outq
    /\ UNCHANGED <<nodeVars, inflight, netVars, peerVars, inq>>

\* ... and records it only then, whatever has happened to the peer meanwhile.
TrackWindow ==
    /\ asking # <<>> /\ asking[1].sent
    /\ LET a == asking[1]
       IN  inflight' = (IF a.live THEN Cleared(a.peer) ELSE inflight)
                           \cup {[peer |-> a.peer, live |-> a.live, from |-> a.from, to |-> a.to,
                                  late |-> FALSE]}
    /\ asking' = Tail(asking)
    /\ UNCHANGED <<nodeVars, netVars, peerVars, inq, outq>>
-----------------------------------------------------------------------------
Handle(p) ==
    \/ OnInv(p) \/ OnBlock(p) \/ OnCompactBlock(p) \/ OnBlockTxn(p)
    \/ OnHeaders(p) \/ OnBlocks(p) \/ OnChain(p)

Next ==
    \/ \E p \in Peers : \/ Connect(p) \/ RemovePeer(p) \/ Lose(p)
                        \/ PeerServes(p) \/ CoolingEnds(p) \/ Handle(p) \/ SyncTick(p)
    \/ \E p \in Peers, b \in Blocks : PeerAdvances(p, b)
    \/ \E q \in ToSet(pending) : PendingExpires(q)
    \/ \E r \in inflight : RequestExpires(r)
    \/ SendWindow
    \/ TrackWindow

\* Dial loops redial, goroutines run, the ticker ticks and comes to every idle peer
\* in turn (Go randomises map iteration), clocks advance, and peers that are not
\* faulty serve.  Nothing obliges a peer to mine, a connection to
\* fail, or a transaction to arrive.
HasMessage(p) == conn[p] = "up" /\ inq[p] # <<>>

HasRequest(p) == conn[p] = "up" /\ outq[p] # <<>> /\ Len(inq[p]) < MaxQueue

Expirable == {r \in inflight : ~r.late /\ (r.live => inq[r.peer] = <<>> /\ outq[r.peer] = <<>>)}

\* Strong fairness of SyncTick and weak fairness of the others, each by the
\* condition it is enabled under and the change it makes.
Fairness ==
    /\ \A p \in Peers : /\ []<>(conn[p] # "down" \/ Banned(p))
                        /\ []<>(conn[p] # "closing")
                        /\ []<>(p \notin cooling)
                        /\ []<>~HasMessage(p) \/ []<><<Len(inq'[p]) < Len(inq[p])>>_inq
                        /\ []<>~HasRequest(p) \/ []<><<Len(outq'[p]) < Len(outq[p])>>_outq
                        /\ SF_vars(SyncTick(p))
    /\ []<>(Expirable = {}) \/ []<><<\E r \in Expirable : r \notin inflight'>>_inflight
    /\ []<>(asking = <<>> \/ asking[1].sent)
    /\ []<>(asking = <<>> \/ ~asking[1].sent)

Spec == Init /\ [][Next]_vars /\ Fairness
-----------------------------------------------------------------------------
(* Properties. *)

\* p's chain is taller than ours and preferred by fork choice.
Behind(p) ==
    /\ ~Banned(p)
    /\ Height(peerTip[p]) > Height(tip)
    /\ Beats(peerTip[p], tip)
    /\ FinalityAllows(LocatorFork(tip, peerTip[p]))

\* A node catches up with every honest peer that is ahead of it, whatever stalls,
\* lies, disconnects or arrives out of order on the way: no request, slot or
\* buffered block is waited for for ever.  A block it stays behind by is one it was told
\* of by a compact announcement only, which records no height, and whose assembly
\* an eviction or a faulty peer's answer discarded (onCompactBlock, onBlockTxn).
CatchesUp ==
    <>[](\A p \in Peers \ Faulty :
            Behind(p) => bestHeight < Height(peerTip[p]) /\ peerTip[p] \in spoilt)

\* The same without the exception: both ways of announcing a block end with the peer
\* holding it, as announceBlock's comment says.
AnnouncedIsHeld == <>[](\A p \in Peers \ Faulty : ~Behind(p))
=============================================================================
