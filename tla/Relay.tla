-------------------------------- MODULE Relay --------------------------------
(***************************************************************************)
(* How a pending transaction reaches every pool: announcements and         *)
(* requests (node/txrelay.go), the stem, its embargo and the fluff         *)
(* (node/dandelion.go, node/node.go) and the once-per-connection exchange  *)
(* of whole pools (node/sync.go).  A link is a pair of FIFO queues that a  *)
(* dropped connection empties; a dial loop brings the connection back.     *)
(*                                                                         *)
(* Chains are equal and do not grow here, so every node is caught up, and  *)
(* admission is the nonce rule alone: Needs[t] are the earlier             *)
(* transactions of t's sender.                                             *)
(***************************************************************************)
EXTENDS Integers, Sequences, FiniteSets, SequencesExt

CONSTANTS
    Nodes, Txs,
    Links,          \* pairs of nodes, both orders
    Needs,          \* [Txs -> SUBSET Txs]
    TxInvNodes,     \* nodes that speak CapTxInv; the others run an older build
    DandelionNodes, \* nodes that run, and advertise, Dandelion++
    Silent,         \* nodes that announce and never serve
    Submitters,     \* where a transaction may be created
    MaxDrops        \* bound on lost connections

VARIABLES
    pool,        \* the mempools
    seenTx,      \* transactions processed
    txReq,       \* bodies asked for: transaction -> "fresh" or "stale" claim
    embargo,     \* armed embargo timers
    up,          \* open connections, both orders
    asked,       \* <<n, p>> when n has asked p for its pool on this connection
    q,           \* q[<<p, n>>]: what p has sent to n
    drops

vars == <<pool, seenTx, txReq, embargo, up, asked, q, drops>>
-----------------------------------------------------------------------------
PeersOf(n) == {p \in Nodes : <<n, p>> \in up}

\* send, on an open connection.
Send(queues, n, p, m) == [queues EXCEPT ![<<n, p>>] = Append(@, m)]

Body(t, stem) == [type |-> "tx", tx |-> t, stem |-> stem]

\* Mempool.Add: known transactions and nonce gaps are refused.
Admits(P, t) == t \notin P /\ Needs[t] \subseteq P

\* announceTx: the id to peers that speak CapTxInv, the body to the others; an
\* older node pushes bodies to everyone.
AnnounceTx(queues, n, t, except) ==
    [l \in DOMAIN queues |->
        IF l[1] = n /\ l \in up /\ l[2] # except
        THEN Append(queues[l], IF n \in TxInvNodes /\ l[2] \in TxInvNodes
                               THEN [type |-> "txinv", tx |-> t] ELSE Body(t, FALSE))
        ELSE queues[l]]

\* relayTx: one stem successor (any capable peer but the sender, a new one every
\* epoch) and an embargo, or a fluff.
RelayTx(queues, n, t, from, stem) ==
    LET cands == {p \in PeersOf(n) \ {from} : p \in DandelionNodes}
    IN  \/ q' = AnnounceTx(queues, n, t, from) /\ UNCHANGED embargo
        \/ /\ n \in DandelionNodes /\ stem
           /\ \E p \in cands : q' = Send(queues, n, p, Body(t, TRUE))
           /\ embargo' = [embargo EXCEPT ![n] = @ \cup {t}]

Init ==
    /\ pool = [n \in Nodes |-> {}] /\ seenTx = [n \in Nodes |-> {}]
    /\ txReq = [n \in Nodes |-> [t \in Txs |-> "none"]] /\ embargo = [n \in Nodes |-> {}]
    /\ up = Links /\ asked = Links /\ q = [l \in Links |-> <<>>] /\ drops = 0

\* SubmitTx: a local transaction, originated on the stem.
SubmitTx(n, t) ==
    /\ n \in Submitters[t]
    /\ Admits(pool[n], t)
    /\ pool' = [pool EXCEPT ![n] = @ \cup {t}]
    /\ seenTx' = [seenTx EXCEPT ![n] = @ \cup {t}]
    /\ RelayTx(q, n, t, n, TRUE)
    /\ UNCHANGED <<txReq, up, asked, drops>>
-----------------------------------------------------------------------------
(* Handlers: the first message of q[<<p, n>>]. *)

Received(p, n, type) ==
    /\ q[<<p, n>>] # <<>>
    /\ Head(q[<<p, n>>]).type = type

Rest(p, n) == [q EXCEPT ![<<p, n>>] = Tail(@)]

\* MsgTx.
OnTx(p, n) ==
    /\ Received(p, n, "tx")
    /\ LET m == Head(q[<<p, n>>])
           t == m.tx
           kept == IF m.stem THEN embargo ELSE [embargo EXCEPT ![n] = @ \ {t}]
           new == t \notin seenTx[n]
       IN  /\ txReq' = [txReq EXCEPT ![n][t] = "none"]
           /\ seenTx' = [seenTx EXCEPT ![n] = @ \cup {t}]
           /\ \/ /\ new /\ Admits(pool[n], t)
                 /\ pool' = [pool EXCEPT ![n] = @ \cup {t}]
                 /\ RelayTx(Rest(p, n), n, t, p, m.stem)
              \/ /\ ~(new /\ Admits(pool[n], t))
                 /\ q' = Rest(p, n) /\ embargo' = kept
                 /\ UNCHANGED pool
    /\ UNCHANGED <<up, asked, drops>>

\* Mutant of OnTxInv: an announced transaction is marked seen.
OnTxInvMarks(p, n) ==
    /\ Received(p, n, "txinv")
    /\ LET t == Head(q[<<p, n>>]).tx
           want == t \notin seenTx[n] /\ txReq[n][t] # "fresh"
       IN  /\ q' = IF want THEN Send(Rest(p, n), n, p, [type |-> "gettx", tx |-> t]) ELSE Rest(p, n)
           /\ txReq' = IF want THEN [txReq EXCEPT ![n][t] = "fresh"] ELSE txReq
           /\ seenTx' = [seenTx EXCEPT ![n] = @ \cup {t}]
    /\ UNCHANGED <<pool, embargo, up, asked, drops>>

\* MsgTxInv: ask for what is neither here nor asked of somebody else.
OnTxInv(p, n) ==
    /\ Received(p, n, "txinv")
    /\ LET t == Head(q[<<p, n>>]).tx
           want == t \notin seenTx[n] \cup pool[n] /\ txReq[n][t] # "fresh"
       IN  /\ q' = IF want THEN Send(Rest(p, n), n, p, [type |-> "gettx", tx |-> t]) ELSE Rest(p, n)
           /\ txReq' = IF want THEN [txReq EXCEPT ![n][t] = "fresh"] ELSE txReq
    /\ UNCHANGED <<pool, seenTx, embargo, up, asked, drops>>

\* MsgGetTx: serve what is in the pool.
OnGetTx(p, n) ==
    /\ Received(p, n, "gettx")
    /\ LET t == Head(q[<<p, n>>]).tx
       IN  q' = IF t \in pool[n] /\ n \notin Silent
                THEN Send(Rest(p, n), n, p, [type |-> "txs", txs |-> <<t>>]) ELSE Rest(p, n)
    /\ UNCHANGED <<pool, seenTx, txReq, embargo, up, asked, drops>>

\* MsgGetMempool: the whole pool, in the order of a map's iteration.
OnGetMempool(p, n) ==
    /\ Received(p, n, "getmempool")
    /\ \E s \in SetToSeqs(IF n \in Silent THEN {} ELSE pool[n]) :
        q' = IF s = <<>> THEN Rest(p, n) ELSE Send(Rest(p, n), n, p, [type |-> "txs", txs |-> s])
    /\ UNCHANGED <<pool, seenTx, txReq, embargo, up, asked, drops>>

\* MsgMempool and MsgTxs: onMempoolBatch, one transaction after the other; what is
\* new is fluffed.
OnBatch(p, n) ==
    /\ Received(p, n, "txs")
    /\ LET txs == Head(q[<<p, n>>]).txs
           one(st, t) ==
               IF t \in st.seen THEN st
               ELSE IF ~Admits(st.pool, t) THEN [st EXCEPT !.seen = @ \cup {t}]
               ELSE [pool |-> st.pool \cup {t}, seen |-> st.seen \cup {t},
                     q |-> AnnounceTx(st.q, n, t, p)]
           end == FoldLeft(one, [pool |-> pool[n], seen |-> seenTx[n], q |-> Rest(p, n)], txs)
       IN  /\ pool' = [pool EXCEPT ![n] = end.pool]
           /\ seenTx' = [seenTx EXCEPT ![n] = end.seen]
           /\ txReq' = [txReq EXCEPT ![n] = [t \in Txs |-> IF t \in ToSet(txs) THEN "none" ELSE @[t]]]
           /\ q' = end.q
    /\ UNCHANGED <<embargo, up, asked, drops>>
-----------------------------------------------------------------------------
(* Timers and connections. *)

\* reconcileMempoolWithPeers: ask every peer not asked yet on its connection.
ToAsk(n) == {p \in PeersOf(n) : <<n, p>> \notin asked}

SyncTick(n) ==
    /\ ToAsk(n) # {}
    /\ asked' = asked \cup {<<n, p>> : p \in ToAsk(n)}
    /\ q' = [l \in Links |-> IF l[1] = n /\ l[2] \in ToAsk(n)
                             THEN Append(q[l], [type |-> "getmempool"]) ELSE q[l]]
    /\ UNCHANGED <<pool, seenTx, txReq, embargo, up, drops>>

\* The embargo ends: fluff to everyone.
EmbargoFires(n, t) ==
    /\ t \in embargo[n]
    /\ embargo' = [embargo EXCEPT ![n] = @ \ {t}]
    /\ q' = AnnounceTx(q, n, t, n)
    /\ UNCHANGED <<pool, seenTx, txReq, up, asked, drops>>

\* txRequestTimeout passes.
ClaimExpires(n, t) ==
    /\ txReq[n][t] = "fresh"
    /\ txReq' = [txReq EXCEPT ![n][t] = "stale"]
    /\ UNCHANGED <<pool, seenTx, embargo, up, asked, q, drops>>

\* A connection ends, with everything on it; both ends forget the peer.
Disconnect(n, p) ==
    /\ <<n, p>> \in up /\ drops < MaxDrops
    /\ drops' = drops + 1
    /\ up' = up \ {<<n, p>>, <<p, n>>}
    /\ asked' = asked \ {<<n, p>>, <<p, n>>}
    /\ q' = [q EXCEPT ![<<n, p>>] = <<>>, ![<<p, n>>] = <<>>]
    /\ UNCHANGED <<pool, seenTx, txReq, embargo>>

Reconnect(n, p) ==
    /\ <<n, p>> \in Links \ up
    /\ up' = up \cup {<<n, p>>, <<p, n>>}
    /\ UNCHANGED <<pool, seenTx, txReq, embargo, asked, q, drops>>

Next ==
    \/ \E n \in Nodes, t \in Txs : SubmitTx(n, t) \/ EmbargoFires(n, t) \/ ClaimExpires(n, t)
    \/ \E l \in Links : OnTx(l[1], l[2])
    \/ \E l \in Links : OnTxInv(l[1], l[2])
    \/ \E l \in Links : OnGetTx(l[1], l[2])
    \/ \E l \in Links : OnGetMempool(l[1], l[2])
    \/ \E l \in Links : OnBatch(l[1], l[2])
    \/ \E n \in Nodes : SyncTick(n)
    \/ \E l \in Links : Disconnect(l[1], l[2]) \/ Reconnect(l[1], l[2])

\* Every connection's goroutine reads on, the tick and the embargo timers fire and dial
\* loops reconnect.  Weak fairness of the handlers, of SyncTick and of EmbargoFires is
\* stated by the condition they can be done under, which they end.
Fairness ==
    /\ \A l \in Links : /\ []<>(q[l] = <<>>) \/ []<><<Len(q'[l]) < Len(q[l])>>_q
                        /\ WF_up(Reconnect(l[1], l[2]))
    /\ \A n \in Nodes : /\ []<>(ToAsk(n) = {})
                        /\ \A t \in Txs : []<>(t \notin embargo[n])

Spec == Init /\ [][Next]_vars /\ Fairness
-----------------------------------------------------------------------------
(* Properties. *)

\* A transaction that needs no other reaches the pool of every node that serves what it
\* announces once it is in one of these, whatever is on the stem, whichever
\* announcements race and whichever connections drop on the way: no claim, embargo or
\* duplicate test loses it.
Propagates ==
    \A t \in {t \in Txs : Needs[t] = {}}, n \in Nodes \ Silent :
        (\E m \in Nodes \ Silent : t \in pool[m]) ~> t \in pool[n]
=============================================================================
