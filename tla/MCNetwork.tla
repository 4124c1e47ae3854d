------------------------------ MODULE MCNetwork ------------------------------
(***************************************************************************)
(* Relay and Peers side by side: a behaviour is one of the two, the other  *)
(* stays in its initial state.  Peers is extended and keeps its names.     *)
(*                                                                         *)
(* Relay: three nodes that all know each other.  Either all of them        *)
(* announce, so that a node has two announcers of one transaction, or one  *)
(* is an older build and there are two transactions, t2 only after t1.     *)
(* Peers: two outbound slots; p and q share a network group, s is the node *)
(* itself under another name, x speaks another protocol or holds the wrong *)
(* key.                                                                    *)
(***************************************************************************)
EXTENDS Peers, Sequences, SequencesExt, TLC

CONSTANTS
    Parts, a, b, c, t1, t2, Silent, MaxDrops,
    p, q, s, x

VARIABLES
    on,    \* the part at work
    pools, seenTx, txReq, embargo, up, asked, queue, drops

relayVars == <<pools, seenTx, txReq, embargo, up, asked, queue, drops>>

MCLinks == {l \in {a, b, c} \X {a, b, c} : l[1] # l[2]}
MCNeeds == (t1 :> {}) @@ (t2 :> {t1})
MCSubmitters == (t1 :> {a}) @@ (t2 :> {a})

MCGroup == (p :> "A") @@ (q :> "A") @@ (s :> "B") @@ (x :> "C")

Re == INSTANCE Relay WITH
    Nodes <- {a, b, c}, Txs <- {t1}, Links <- MCLinks, Needs <- MCNeeds, TxInvNodes <- {a, b, c},
    DandelionNodes <- {a, b, c}, Submitters <- MCSubmitters, pool <- pools, q <- queue

Old == INSTANCE Relay WITH
    Nodes <- {a, b, c}, Txs <- {t1, t2}, Links <- MCLinks, Needs <- MCNeeds, TxInvNodes <- {a, b},
    DandelionNodes <- {a, b}, Submitters <- MCSubmitters, Silent <- {}, pool <- pools, q <- queue

ASSUME PeersInstance == PeersAssumption

NetworkInit ==
    /\ on \in Parts
    /\ IF on = "older" THEN Old!Init ELSE Re!Init
    /\ Init

NetworkNext ==
    /\ UNCHANGED on
    /\ \/ on = "relay" /\ Re!Next /\ UNCHANGED vars
       \/ on = "older" /\ Old!Next /\ UNCHANGED vars
       \/ on = "peers" /\ Next /\ UNCHANGED relayVars

\* Re!Fairness and Old!Fairness in one formula: they are the same but for t2.
RelayFairness ==
    /\ \A l \in MCLinks : /\ []<>(queue[l] = <<>>) \/ []<><<Len(queue'[l]) < Len(queue[l])>>_queue
                          /\ WF_up(Old!Reconnect(l[1], l[2]))
    /\ \A n \in {a, b, c} : /\ []<>(Old!ToAsk(n) = {})
                            /\ []<>(t1 \notin embargo[n]) /\ []<>(t2 \notin embargo[n])

\* A part that is not at work has nothing to do that fairness asks for.
NetworkSpec == NetworkInit /\ [][NetworkNext]_<<on, relayVars, vars>> /\ RelayFairness /\ Fairness

\* A transaction that is in one pool comes to be in all of them (Relay): t1, in both networks.
Propagates == Re!Propagates
=============================================================================
