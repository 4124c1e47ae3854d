------------------------------ MODULE MCChain ------------------------------
(* A small instance of Chain: a few bodies on three accounts. *)
EXTENDS Chain

CONSTANTS A, B, C

Pay(from, nonce, to, amount, fee) ==
    [from |-> from, nonce |-> nonce, fee |-> fee, payer |-> NoAddr,
     outs |-> <<[to |-> to, amount |-> amount]>>, lock |-> 0, expiry |-> 0]

Mined(miner, pays, txs, w) ==
    [miner |-> miner, pays |-> pays, txs |-> txs, work |-> w, ok |-> TRUE, rootOk |-> TRUE]

EmptyA == Mined(A, 4, <<>>, 1)
HeavyB == Mined(B, 4, <<>>, 2)

\* A pays B and itself; the miner takes a tip of 1.
Split == [Pay(A, 0, B, 1, 2) EXCEPT !.outs = Append(@, [to |-> A, amount |-> 1])]
PaysB == Mined(B, 5, <<Split>>, 1)

\* A spends its whole matured reward, the second time with a stale nonce.
Replays == Mined(B, 6, <<Pay(A, 0, C, 1, 2), Pay(A, 0, C, 1, 2)>>, 1)

\* C moves nothing but its nonce; B, or A, sponsors the fee.
Sponsored(p) ==
    Mined(A, 5, <<[Pay(C, 0, C, 0, 2) EXCEPT !.payer = p, !.expiry = 3, !.lock = 2]>>, 1)

\* C spends in the block that funds it.
Funds == Mined(C, 5, <<Pay(A, 0, C, 1, 2), Pay(C, 0, A, 0, 1)>>, 1)

BadRoot == [PaysB EXCEPT !.rootOk = FALSE]
BadShape == [EmptyA EXCEPT !.ok = FALSE]

BodySeq == <<EmptyA, HeavyB, PaysB, Sponsored(A), Replays, Funds, BadRoot, BadShape>>
MCBodies == {BodySeq[i] : i \in DOMAIN BodySeq}

\* The tip's body is the leading digit of the hash, then its parent's, and so on.
MCHash(p) ==
    LET K == Len(BodySeq) + 1
        digit(b) == CHOOSE i \in DOMAIN BodySeq : BodySeq[i] = b
        rank[n \in 0 .. Len(p)] == IF n = 0 THEN 0 ELSE rank[n - 1] + digit(p[n]) * K ^ (n - 1)
    IN  rank[Len(p)] + (IF Len(p) = 0 THEN 0 ELSE digit(p[Len(p)]) * K ^ MaxHeight)
=============================================================================
