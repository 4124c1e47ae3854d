------------------------------ MODULE Contracts ------------------------------
(***************************************************************************)
(* Three arrangements between people who do not trust each other, run with *)
(* the command line against one chain: the asset-for-coin swap of          *)
(* cmd/dnas/swap.go (two hash-time-locked accounts under one hash, spent   *)
(* with cmd/dnas/htlc.go), the time-delayed vault (cmd/dnas/vault.go) and  *)
(* the escrow (cmd/dnas/escrow.go, a two-of-three account whose spends     *)
(* travel as files, cmd/dnas/multisig.go).                                 *)
(*                                                                         *)
(* Every account here is spent once, at its first nonce, so the pool holds *)
(* at most one spend of it: slot.  Fees are equal, so a spend in the slot  *)
(* is displaced only by the rule for unmineable ones (core/mempool.go).    *)
(* A block takes every spend that its height allows.                       *)
(***************************************************************************)
EXTENDS Integers, FiniteSets

CONSTANTS
    Heights,      \* the heights the timeouts are chosen from
    Unlock,       \* the vault's unlock height
    MaxHeight     \* bound: the model stops there

ContractsAssumption == Heights \subseteq Nat /\ Unlock \in Nat

Kinds == {"swap", "vault", "escrow"}
Accounts == [swap |-> {"asset", "coin"}, vault |-> {"vault"}, escrow |-> {"escrow"}]
Roles == {"buyer", "seller", "arbiter"}

VARIABLES
    deal,       \* the arrangement: its kind and the two timeouts of a swap
    cheight,    \* the chain's height
    funded,     \* accounts whose funding is confirmed
    slot,       \* per account: the spend waiting in the pool
    outcome,    \* per account: the spend that was mined
    secret,     \* has the preimage been published?
    gone,       \* the parties that stopped
    spends      \* escrow: who signed the release and who the refund

contractVars == <<deal, cheight, funded, slot, outcome, secret, gone, spends>>

All == {"asset", "coin", "vault", "escrow"}
NoSpend == [how |-> "none", by |-> "none"]
Spend(how, by) == [how |-> how, by |-> by]

\* Mutant of BuildSwapPlan: equal timeouts are let through.
BuildSwapPlanEqual(coinTimeout, assetTimeout) == coinTimeout <= assetTimeout

\* The coin leg must time out before the asset leg.
BuildSwapPlan(coinTimeout, assetTimeout) == coinTimeout < assetTimeout

Deals ==
    {d \in [kind : Kinds, coin : Heights, asset : Heights] :
        IF d.kind = "swap" THEN BuildSwapPlan(d.coin, d.asset)
        ELSE d.coin = d.asset /\ \A h \in Heights : d.coin <= h}

\* newEscrow: nobody has two roles, so no key has two of the signatures.
ContractsInit ==
    /\ deal \in Deals
    /\ cheight = 0
    /\ funded = IF deal.kind = "swap" THEN {} ELSE Accounts[deal.kind]
    /\ slot = [a \in All |-> NoSpend]
    /\ outcome = [a \in All |-> NoSpend]
    /\ secret = FALSE
    /\ gone = {}
    /\ spends = [release |-> {}, refund |-> {}]

Timeout(a) == IF a = "coin" THEN deal.coin ELSE deal.asset

\* checkTxAtHeight: a refund waits for the timeout, the hot key for the unlock
\* height; a claim, the cold key and an escrow's spend wait for nothing.
Mineable(a, s, h) ==
    CASE s.how = "refund" /\ a \in {"asset", "coin"} -> h >= Timeout(a)
      [] s.how = "hot" -> h >= Unlock
      [] OTHER -> s # NoSpend

\* Mempool.Add with equal fees: a spend that the next block could not take gives
\* way to one that it could.
Displaces(a, old, new) ==
    old = NoSpend \/ (~Mineable(a, old, cheight + 1) /\ Mineable(a, new, cheight + 1))

\* The account must hold something (the commands read its balance first), and its
\* nonce must still be free.
PostSpend(a, s) ==
    /\ a \in funded /\ outcome[a] = NoSpend /\ slot[a] # s
    /\ Displaces(a, slot[a], s)
    /\ slot' = [slot EXCEPT ![a] = s]
-----------------------------------------------------------------------------
(* The swap *)

\* The asset owner goes first, the coin owner once that leg is on the chain, if
\* the coin's own timeout is not here yet.
FundLeg(a) ==
    /\ deal.kind = "swap" /\ a \notin funded
    /\ IF a = "asset" THEN "assetOwner" \notin gone 
       ELSE "coinOwner" \notin gone /\ "asset" \in funded /\ cheight + 1 < deal.coin
    /\ funded' = funded \cup {a}
    /\ UNCHANGED <<deal, cheight, slot, outcome, secret, gone, spends>>

\* The asset owner holds the preimage; claiming the coin publishes it.
ClaimCoin ==
    /\ deal.kind = "swap" /\ "assetOwner" \notin gone
    /\ PostSpend("coin", Spend("claim", "assetOwner"))
    /\ secret' = TRUE
    /\ UNCHANGED <<deal, cheight, funded, outcome, gone, spends>>

\* The coin owner takes the preimage from that transaction.
ClaimAsset ==
    /\ deal.kind = "swap" /\ secret /\ "coinOwner" \notin gone
    /\ PostSpend("asset", Spend("claim", "coinOwner"))
    /\ UNCHANGED <<deal, cheight, funded, outcome, secret, gone, spends>>

\* Whoever funded a leg may submit its refund at any time; the asset owner's may
\* wait in the pool for the timeout.  The coin owner has no use for one before
\* it can be mined.
RefundLeg(a) ==
    /\ deal.kind = "swap"
    /\ LET owner == IF a = "asset" THEN "assetOwner" ELSE "coinOwner"
       IN  /\ owner \notin gone
           /\ a = "coin" => cheight + 1 >= deal.coin
           /\ PostSpend(a, Spend("refund", owner))
    /\ UNCHANGED <<deal, cheight, funded, outcome, secret, gone, spends>>
-----------------------------------------------------------------------------
(* The vault *)

\* With either key; the hot key's sweep is accepted early and waits in the pool.
VaultSpend(key) ==
    /\ deal.kind = "vault"
    /\ PostSpend("vault", Spend(key, key))
    /\ UNCHANGED <<deal, cheight, funded, outcome, secret, gone, spends>>
-----------------------------------------------------------------------------
(* The escrow *)

\* A member that has not signed this file yet.
AddMemberSignature(how, role) == role \in Roles \ spends[how]

\* multisig sign: a member adds its signature to one of the two files.
EscrowSign(how, role) ==
    /\ deal.kind = "escrow" /\ role \notin gone
    /\ AddMemberSignature(how, role)
    /\ spends' = [spends EXCEPT ![how] = @ \cup {role}]
    /\ UNCHANGED <<deal, cheight, funded, slot, outcome, secret, gone>>

\* multisig submit: two signatures, verified before they are sent.
EscrowSubmit(how) ==
    /\ deal.kind = "escrow"
    /\ Cardinality(spends[how]) >= 2
    /\ PostSpend("escrow", Spend(how, "anyone"))
    /\ UNCHANGED <<deal, cheight, funded, outcome, secret, gone, spends>>
-----------------------------------------------------------------------------
\* A present coin owner reacts between two blocks: to the preimage by claiming
\* the asset, to the timeout by taking the coin back.
CoinOwnerReacted ==
    "coinOwner" \in gone \/
        /\ secret /\ "asset" \in funded /\ outcome["asset"] = NoSpend =>
               slot["asset"].how = "claim" \/ ~Displaces("asset", slot["asset"], Spend("claim", "coinOwner"))
        /\ "coin" \in funded /\ outcome["coin"] = NoSpend /\ cheight + 1 >= deal.coin => slot["coin"] # NoSpend

\* applyTxsAndCoinbase: every waiting spend that the height allows.
NextBlock ==
    /\ cheight < MaxHeight
    /\ deal.kind = "swap" => CoinOwnerReacted
    /\ cheight' = cheight + 1
    /\ LET mined == {a \in funded : outcome[a] = NoSpend /\ Mineable(a, slot[a], cheight + 1)}
       IN  /\ outcome' = [a \in All |-> IF a \in mined THEN slot[a] ELSE outcome[a]]
           /\ slot' = [a \in All |-> IF a \in mined THEN NoSpend ELSE slot[a]]
    /\ UNCHANGED <<deal, funded, secret, gone, spends>>

\* A party walks away, at any point.
Stop(p) ==
    /\ p \notin gone
    /\ CASE deal.kind = "swap" -> p \in {"assetOwner", "coinOwner"}
         [] deal.kind = "escrow" -> p \in Roles
         [] OTHER -> FALSE
    /\ gone' = gone \cup {p}
    /\ UNCHANGED <<deal, cheight, funded, slot, outcome, secret, spends>>

ContractsNext ==
    \/ \E a \in {"asset", "coin"} : FundLeg(a) \/ RefundLeg(a)
    \/ ClaimCoin \/ ClaimAsset
    \/ \E key \in {"hot", "cold"} : VaultSpend(key)
    \/ \E how \in {"release", "refund"} : EscrowSubmit(how) \/ \E r \in Roles : EscrowSign(how, r)
    \/ NextBlock
    \/ \E p \in {"assetOwner", "coinOwner"} \cup Roles : Stop(p)

ContractsSpec == ContractsInit /\ [][ContractsNext]_contractVars
-----------------------------------------------------------------------------
\* What each arrangement is for.  Swap: the asset owner never ends with the coin
\* and the asset while the coin owner is watching, and the asset never changes
\* hands before the preimage is out; a coin owner who saw nothing keeps the coin.
\* Vault: a cold-key sweep that reaches the pool while the hot key still has to
\* wait is the one that confirms, whatever the hot key submitted before or after.
\* Escrow: the coin moves only where two different people agreed it should.
ContractsHonoured ==
    /\ deal.kind = "swap" /\ "coinOwner" \notin gone =>
         /\ ~(outcome["coin"].how = "claim" /\ outcome["asset"].how = "refund")
         /\ outcome["asset"].how = "claim" => secret
         /\ outcome["coin"].how = "claim" => secret
    /\ deal.kind = "vault" =>
         /\ outcome["vault"].how = "hot" => cheight >= Unlock
         /\ slot["vault"].how = "hot" /\ cheight + 1 < Unlock => Displaces("vault", slot["vault"], Spend("cold", "cold"))
         /\ slot["vault"].how = "cold" => ~Displaces("vault", slot["vault"], Spend("hot", "hot"))
    /\ deal.kind = "escrow" =>
         \A how \in {"release", "refund"} :
             outcome["escrow"].how = how => Cardinality(spends[how]) >= 2
=============================================================================
