------------------------------- MODULE Faucet -------------------------------
(***************************************************************************)
(* The faucet (node/faucet.go): requests, each a goroutine, that read the  *)
(* fee and the wallet's confirmed balance, claim a cooldown for the        *)
(* recipient and for the requester, pick a nonce and submit a payment to   *)
(* the mempool.  Fees move, blocks are mined and time passes in between.   *)
(***************************************************************************)
EXTENDS Integers, Sequences, FiniteSets, FiniteSetsExt, SequencesExt, Functions

CONSTANTS
    Requests,      \* [id -> [addr, who]]: who asks for which address, NoOne if not known
    Cooldown,      \* FaucetCooldown
    MaxKeys,       \* maxFaucetKeys
    Amount,        \* FaucetAmount
    Rates,         \* fees that faucetFee may come to
    Funds,         \* coin the wallet starts with
    MaxPending,    \* MaxPerSender
    MaxTime        \* how far the clock runs

VARIABLES
    now,
    rate,          \* faucetFee
    stamped,       \* f.last: key -> when it was claimed
    req,           \* [id -> [at, claimed, fee, nonce]]
    mined,         \* the wallet's payments in the chain, by nonce
    pending,       \* its payments in the mempool, by nonce after those
    payouts        \* payments the faucet has answered with

faucetVars == <<now, rate, stamped, req, mined, pending, payouts>>

NoOne == "none"
Idle  == [at |-> "idle", claimed |-> 0, fee |-> 0, nonce |-> 0]

Keys(r) == {<<"addr", Requests[r].addr>>} \cup
           (IF Requests[r].who = NoOne THEN {} ELSE {<<"who", Requests[r].who>>})

Cost(payments) == FoldLeft(LAMBDA sum, p : sum + Amount + p.fee, 0, payments)

\* SpendableBalance: what is in the mempool does not count.
SpendableBalance == Funds - Cost(mined)

\* Mutant of Swept: a claim is forgotten a moment too early.
SweptEarly(l) == Restrict(l, {k \in DOMAIN l : now + 1 - l[k] < Cooldown})

Swept(l) == Restrict(l, {k \in DOMAIN l : now - l[k] < Cooldown})

\* The faucet is dry: refused before anything is claimed.
CheckBalance(r) ==
    /\ req[r].at = "idle"
    /\ SpendableBalance >= Amount + rate
    /\ req' = [req EXCEPT ![r].at = "claim", ![r].fee = rate]
    /\ UNCHANGED <<now, rate, stamped, mined, pending, payouts>>

\* Every key is stamped, or none: one of them is cooling down or the ledger is full.
Claim(r) ==
    LET l == Swept(stamped)
    IN  /\ req[r].at = "claim"
        /\ IF Keys(r) \cap DOMAIN l # {} \/ Cardinality(DOMAIN l) + Cardinality(Keys(r)) > MaxKeys
           THEN /\ stamped' = l
                /\ req' = [req EXCEPT ![r] = Idle]
           ELSE /\ stamped' = [k \in DOMAIN l \cup Keys(r) |-> IF k \in Keys(r) THEN now ELSE l[k]]
                /\ req' = [req EXCEPT ![r].at = "nonce", ![r].claimed = now]
        /\ UNCHANGED <<now, rate, mined, pending, payouts>>

NextNonce(r) ==
    /\ req[r].at = "nonce"
    /\ req' = [req EXCEPT ![r].at = "submit", ![r].nonce = Len(mined) + Len(pending)]
    /\ UNCHANGED <<now, rate, stamped, mined, pending, payouts>>

\* The same bytes: one payment, whichever request it was made for.
SameTx(p, q) == Requests[p.id].addr = Requests[q.id].addr /\ p.fee = q.fee /\ p.nonce = q.nonce

\* The place a payment takes in the queue, and the queue with it there.
Place(p) == p.nonce - Len(mined) + 1
Queued(p) == [i \in DOMAIN pending \cup {Place(p)} |-> IF i = Place(p) THEN p ELSE pending[i]]

\* Mempool.Add: the next nonce, or one that is queued with a lower fee; and the whole
\* queue is affordable.
Admitted(p) ==
    /\ Place(p) \in 1 .. Len(pending) + 1
    /\ IF Place(p) \in DOMAIN pending THEN p.fee > pending[Place(p)].fee ELSE Len(pending) < MaxPending
    /\ Cost(Queued(p)) <= SpendableBalance

\* SubmitTx.  A payment that is queued already is a success; one that is refused (for
\* its nonce, its cost, or a relay floor that has passed its fee) leaves the cooldown
\* claimed.
SubmitTx(r) ==
    LET p == [id |-> r, claimed |-> req[r].claimed, fee |-> req[r].fee, nonce |-> req[r].nonce]
        Known == \E i \in DOMAIN pending : SameTx(p, pending[i])
    IN  /\ req[r].at = "submit"
        /\ \/ pending' = (IF ~Known /\ Admitted(p) THEN Queued(p) ELSE pending)
              /\ payouts' = (IF Known \/ Admitted(p) THEN payouts \cup {p} ELSE payouts)
           \/ rate > p.fee /\ UNCHANGED <<pending, payouts>>
        /\ req' = [req EXCEPT ![r] = Idle]
        /\ UNCHANGED <<now, rate, stamped, mined>>

\* A block takes the first of the wallet's payments.
PayoutMined ==
    /\ pending # <<>>
    /\ mined' = Append(mined, Head(pending)) /\ pending' = Tail(pending)
    /\ UNCHANGED <<now, rate, stamped, req, payouts>>

\* The base fee or the relay floor moves.
RateMoves(f) ==
    /\ rate' = f
    /\ UNCHANGED <<now, stamped, req, mined, pending, payouts>>

Tick ==
    /\ now < MaxTime
    /\ now' = now + 1
    /\ UNCHANGED <<rate, stamped, req, mined, pending, payouts>>

Init ==
    /\ now = 0 /\ rate \in Rates
    /\ stamped = <<>> /\ mined = <<>> /\ pending = <<>> /\ payouts = {}
    /\ req = [r \in DOMAIN Requests |-> Idle]

FaucetFor(r) == CheckBalance(r) \/ Claim(r) \/ NextNonce(r) \/ SubmitTx(r)

Next ==
    \/ Tick \/ PayoutMined
    \/ \E f \in Rates : RateMoves(f)
    \/ \E r \in DOMAIN Requests : FaucetFor(r)

Spec == Init /\ [][Next]_faucetVars
-----------------------------------------------------------------------------
Payments == Range(mined) \cup Range(pending)

(***************************************************************************)
(* One payout per recipient and per requester per cooldown window: two     *)
(* payouts that share either were claimed a cooldown apart, whatever the   *)
(* order their requests ran in, and all of them fit in the wallet and in   *)
(* the ledger of claims.  A payout that was answered with is queued or     *)
(* mined, with one exception: two requests that read the same nonce, of    *)
(* which the later pays a higher fee and drops the other's payment.        *)
(***************************************************************************)
FaucetPaysOnce ==
    /\ Cardinality(DOMAIN stamped) <= MaxKeys
    /\ Payments \subseteq payouts /\ Cost(pending) <= SpendableBalance
    /\ \A p, q \in payouts :
        p # q /\ Keys(p.id) \cap Keys(q.id) # {} =>
            p.claimed - q.claimed >= Cooldown \/ q.claimed - p.claimed >= Cooldown
    /\ \A p \in payouts : \E q \in Payments : q.nonce = p.nonce /\ (SameTx(p, q) \/ q.fee > p.fee)
=============================================================================
