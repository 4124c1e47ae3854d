---------------------------- MODULE ContractsProofs ----------------------------
(***************************************************************************)
(* ContractsHonoured for any timeouts and unlock height: what a swap, a    *)
(* vault and an escrow promise does not depend on how far apart the        *)
(* heights are chosen, nor on how long the chain runs.                     *)
(***************************************************************************)
EXTENDS Contracts, FiniteSetTheorems, TLAPS

\* What can wait for, and be mined on, each account.
SpendsOf(a) ==
    {NoSpend} \cup
    CASE a = "asset"  -> {Spend("claim", "coinOwner"), Spend("refund", "assetOwner")}
      [] a = "coin"   -> {Spend("claim", "assetOwner"), Spend("refund", "coinOwner")}
      [] a = "vault"  -> {Spend("hot", "hot"), Spend("cold", "cold")}
      [] a = "escrow" -> {Spend("release", "anyone"), Spend("refund", "anyone")}

ContractsTypeOK ==
    /\ deal \in Deals /\ cheight \in Nat
    /\ DOMAIN slot = All /\ \A a \in All : slot[a] \in SpendsOf(a)
    /\ DOMAIN outcome = All /\ \A a \in All : outcome[a] \in SpendsOf(a)
    /\ secret \in BOOLEAN
    /\ spends \in [release : SUBSET Roles, refund : SUBSET Roles]

\* The preimage is out before a claim can wait or be mined, and an asset leg that was
\* taken back had timed out.  While the coin owner is there: the coin leg is spent by
\* its timeout, so the preimage can only come out before that; and once it is out the
\* asset is claimed, or is still to be claimed with the coin's timeout ahead.
SwapInv ==
    /\ "coin" \in funded => "asset" \in funded
    /\ slot["coin"].how = "claim" \/ outcome["coin"].how = "claim" => secret
    /\ slot["asset"].how = "claim" \/ outcome["asset"].how = "claim" => secret
    /\ outcome["asset"].how = "refund" => cheight >= deal.asset
    /\ "coinOwner" \notin gone =>
         /\ "coin" \in funded /\ cheight >= deal.coin => outcome["coin"] # NoSpend
         /\ secret => \/ outcome["asset"].how = "claim"
                      \/ outcome["asset"] = NoSpend /\ "asset" \in funded /\ cheight < deal.coin

VaultInv == outcome["vault"].how = "hot" => cheight >= Unlock

\* A release or a refund that waits or was mined has its two signatures.
EscrowInv ==
    \A how \in {"release", "refund"} :
        slot["escrow"].how = how \/ outcome["escrow"].how = how => Cardinality(spends[how]) >= 2

ContractsInv ==
    /\ ContractsTypeOK
    /\ deal.kind = "swap" => SwapInv
    /\ deal.kind = "vault" => VaultInv
    /\ EscrowInv
-----------------------------------------------------------------------------
LEMMA RolesFinite == IsFiniteSet(Roles)
<1>1. Roles = (({} \cup {"buyer"}) \cup {"seller"}) \cup {"arbiter"}
    BY DEF Roles
<1> QED BY <1>1, FS_EmptySet, FS_AddElement

\* Signatures are only added: a file that has its two keeps them.
LEMMA SignaturesStay ==
    ASSUME NEW S \in SUBSET Roles, NEW r \in Roles, Cardinality(S) >= 2
    PROVE  Cardinality(S \cup {r}) >= 2
<1>1. IsFiniteSet(S \cup {r}) /\ S \subseteq S \cup {r}
    BY RolesFinite, FS_Subset
<1>2. Cardinality(S) <= Cardinality(S \cup {r})
    BY <1>1, FS_Subset
<1>3. Cardinality(S) \in Nat /\ Cardinality(S \cup {r}) \in Nat
    BY <1>1, RolesFinite, FS_Subset, FS_CardinalityType
<1> QED BY <1>2, <1>3

LEMMA NoSpendHow == \A a \in All : \A s \in SpendsOf(a) : s.how = "none" <=> s = NoSpend
BY DEF All, SpendsOf, Spend, NoSpend

\* A post touches the slot of its account and nothing else.
LEMMA PostSlot ==
    ASSUME ContractsTypeOK, NEW a \in All, NEW s \in SpendsOf(a), PostSpend(a, s)
    PROVE  /\ a \in funded /\ outcome[a] = NoSpend
           /\ DOMAIN slot' = All
           /\ \A b \in All : slot'[b] = IF b = a THEN s ELSE slot[b]
           /\ \A b \in All : slot'[b] \in SpendsOf(b)
BY DEF ContractsTypeOK, PostSpend

LEMMA ContractsInitInv == ContractsInit => ContractsInv
<1> SUFFICES ASSUME ContractsInit PROVE ContractsInv
    OBVIOUS
<1>1. ContractsTypeOK
    BY DEF ContractsInit, ContractsTypeOK, SpendsOf
<1>2. \A a \in All : slot[a].how = "none" /\ outcome[a].how = "none" /\ slot[a] = NoSpend /\ outcome[a] = NoSpend
    BY DEF ContractsInit, NoSpend
<1>3. deal.kind = "swap" => SwapInv
    BY <1>2 DEF ContractsInit, SwapInv, All
<1> QED BY <1>1, <1>2, <1>3 DEF ContractsInv, VaultInv, EscrowInv, All

LEMMA SwapStepInv ==
    ASSUME Heights \subseteq Nat, ContractsInv, deal.kind = "swap",
           \/ ClaimCoin \/ ClaimAsset
           \/ \E a \in {"asset", "coin"} : FundLeg(a) \/ RefundLeg(a)
    PROVE  ContractsInv'
<1>0. deal.coin \in Nat /\ deal.asset \in Nat /\ deal.coin < deal.asset /\ cheight \in Nat
    BY DEF ContractsInv, ContractsTypeOK, Deals, BuildSwapPlan
<1>1. UNCHANGED <<deal, cheight, outcome, gone, spends>>
    BY DEF ClaimCoin, ClaimAsset, FundLeg, RefundLeg
<1>2. ASSUME NEW a \in {"asset", "coin"}, FundLeg(a) PROVE ContractsInv'
    <2>1. /\ funded' = funded \cup {a} /\ UNCHANGED <<slot, secret>>
          /\ a = "coin" => "asset" \in funded /\ cheight + 1 < deal.coin
        BY <1>2 DEF FundLeg
    <2>2. SwapInv'
        BY <1>0, <1>1, <2>1 DEF ContractsInv, SwapInv
    <2> QED BY <1>1, <2>1, <2>2 DEF ContractsInv, ContractsTypeOK, EscrowInv
<1>3. ASSUME NEW a \in {"asset", "coin"}, NEW s \in SpendsOf(a), PostSpend(a, s), UNCHANGED funded,
             s.how \in {"claim", "refund"}, secret' \in BOOLEAN, secret => secret',
             s.how = "claim" => secret',
             secret' # secret => a = "coin"
      PROVE  ContractsInv'
    <2>1. a \in All /\ ContractsTypeOK /\ SwapInv /\ "asset" \in All /\ "coin" \in All /\ "escrow" \in All
        BY DEF ContractsInv, All
    <2>2. /\ a \in funded /\ outcome[a] = NoSpend
          /\ DOMAIN slot' = All
          /\ \A b \in All : slot'[b] = IF b = a THEN s ELSE slot[b]
          /\ \A b \in All : slot'[b] \in SpendsOf(b)
        BY <1>3, <2>1, PostSlot
    <2>3. ContractsTypeOK'
        BY <1>1, <1>3, <2>1, <2>2 DEF ContractsTypeOK
    <2>4. slot'["escrow"] = slot["escrow"]
        BY <2>1, <2>2
    <2>5. EscrowInv'
        BY <1>1, <2>4 DEF ContractsInv, EscrowInv
    <2>6. outcome["asset"].how \in {"none", "claim", "refund"} /\ (outcome["asset"].how = "none" <=> outcome["asset"] = NoSpend)
        BY <2>1 DEF ContractsTypeOK, SpendsOf, Spend, NoSpend
    <2>7. /\ slot'["coin"].how = "claim" => secret'
          /\ slot'["asset"].how = "claim" => secret'
        BY <1>3, <2>1, <2>2 DEF SwapInv
    <2>8. SwapInv'
        BY <1>0, <1>1, <1>3, <2>1, <2>2, <2>6, <2>7 DEF SwapInv
    <2> QED BY <1>1, <2>3, <2>5, <2>8 DEF ContractsInv
<1>4. CASE ClaimCoin
    BY <1>3, <1>4 DEF ClaimCoin, SpendsOf, Spend
<1>5. CASE ClaimAsset
    BY <1>3, <1>5 DEF ClaimAsset, SpendsOf, Spend, ContractsInv, ContractsTypeOK
<1>6. ASSUME NEW a \in {"asset", "coin"}, RefundLeg(a) PROVE ContractsInv'
    BY <1>3, <1>6 DEF RefundLeg, SpendsOf, Spend, ContractsInv, ContractsTypeOK
<1> QED BY <1>2, <1>4, <1>5, <1>6

LEMMA VaultStepInv ==
    ASSUME ContractsInv, NEW key \in {"hot", "cold"}, VaultSpend(key)
    PROVE  ContractsInv'
<1>1. UNCHANGED <<deal, cheight, funded, outcome, secret, gone, spends>> /\ PostSpend("vault", Spend(key, key)) /\ deal.kind = "vault"
    BY DEF VaultSpend
<1>2. "vault" \in All /\ "escrow" \in All /\ Spend(key, key) \in SpendsOf("vault") /\ ContractsTypeOK
    BY DEF All, SpendsOf, ContractsInv
<1>3. /\ DOMAIN slot' = All
      /\ \A b \in All : slot'[b] = IF b = "vault" THEN Spend(key, key) ELSE slot[b]
      /\ \A b \in All : slot'[b] \in SpendsOf(b)
    BY <1>1, <1>2, PostSlot
<1>4. slot'["escrow"] = slot["escrow"]
    BY <1>2, <1>3
<1> QED BY <1>1, <1>3, <1>4 DEF ContractsInv, ContractsTypeOK, VaultInv, EscrowInv

LEMMA EscrowStepInv ==
    ASSUME ContractsInv, NEW how \in {"release", "refund"},
           EscrowSubmit(how) \/ \E r \in Roles : EscrowSign(how, r)
    PROVE  ContractsInv'
<1>1. UNCHANGED <<deal, cheight, funded, outcome, secret, gone>> /\ deal.kind = "escrow"
    BY DEF EscrowSubmit, EscrowSign
<1>2. "escrow" \in All /\ ContractsTypeOK
    BY DEF All, ContractsInv
<1>3. CASE EscrowSubmit(how)
    <2>1. PostSpend("escrow", Spend(how, "anyone")) /\ Cardinality(spends[how]) >= 2 /\ UNCHANGED spends
        BY <1>3 DEF EscrowSubmit
    <2>2. Spend(how, "anyone") \in SpendsOf("escrow") /\ Spend(how, "anyone").how = how
        BY DEF SpendsOf, Spend
    <2>3. /\ DOMAIN slot' = All
          /\ \A b \in All : slot'[b] = IF b = "escrow" THEN Spend(how, "anyone") ELSE slot[b]
          /\ \A b \in All : slot'[b] \in SpendsOf(b)
        BY <1>2, <2>1, <2>2, PostSlot
    <2>4. slot'["escrow"].how = how
        BY <1>2, <2>2, <2>3
    <2>5. EscrowInv'
        BY <1>1, <2>1, <2>4 DEF ContractsInv, EscrowInv
    <2> QED BY <1>1, <2>1, <2>3, <2>5 DEF ContractsInv, ContractsTypeOK
<1>4. ASSUME NEW r \in Roles, EscrowSign(how, r) PROVE ContractsInv'
    <2>1. spends' = [spends EXCEPT ![how] = @ \cup {r}] /\ UNCHANGED slot
        BY <1>4 DEF EscrowSign
    <2>2. spends \in [release : SUBSET Roles, refund : SUBSET Roles]
        BY <1>2 DEF ContractsTypeOK
    <2>3. /\ spends' \in [release : SUBSET Roles, refund : SUBSET Roles]
          /\ \A h \in {"release", "refund"} : spends[h] \in SUBSET Roles /\ spends'[h] \in {spends[h], spends[h] \cup {r}}
        BY <2>1, <2>2
    <2>4. \A h \in {"release", "refund"} : Cardinality(spends[h]) >= 2 => Cardinality(spends'[h]) >= 2
        BY <2>3, SignaturesStay
    <2>5. EscrowInv'
        BY <1>1, <2>1, <2>4 DEF ContractsInv, EscrowInv
    <2> QED BY <1>1, <2>1, <2>3, <2>5 DEF ContractsInv, ContractsTypeOK
<1> QED BY <1>3, <1>4

\* A block that the present coin owner saw coming: the preimage was answered with a
\* claim that no refund can hold back before the asset's timeout, and a coin leg at
\* its timeout had a spend to mine.
LEMMA NextBlockInv ==
    ASSUME Heights \subseteq Nat, Unlock \in Nat, ContractsInv, NextBlock
    PROVE  ContractsInv'
<1> DEFINE mined == {a \in funded : outcome[a] = NoSpend /\ Mineable(a, slot[a], cheight + 1)}
<1>0. ContractsTypeOK /\ "asset" \in All /\ "coin" \in All /\ "vault" \in All /\ "escrow" \in All
    BY DEF ContractsInv, All
<1>1. /\ cheight' = cheight + 1 /\ UNCHANGED <<deal, funded, secret, gone, spends>>
      /\ deal.kind = "swap" => CoinOwnerReacted
      /\ outcome' = [a \in All |-> IF a \in mined THEN slot[a] ELSE outcome[a]]
      /\ slot' = [a \in All |-> IF a \in mined THEN NoSpend ELSE slot[a]]
    BY DEF NextBlock
<1>2. \A a \in mined : outcome[a] = NoSpend /\ Mineable(a, slot[a], cheight + 1)
    OBVIOUS
<1>3. \A a \in funded : outcome[a] = NoSpend /\ Mineable(a, slot[a], cheight + 1) => a \in mined
    OBVIOUS
<1> HIDE DEF mined
<1>4. \A a \in All : /\ outcome'[a] = IF a \in mined THEN slot[a] ELSE outcome[a]
                     /\ slot'[a] = IF a \in mined THEN NoSpend ELSE slot[a]
                     /\ NoSpend \in SpendsOf(a)
    BY <1>1 DEF SpendsOf
<1>5. ContractsTypeOK'
    BY <1>0, <1>1, <1>4 DEF ContractsTypeOK
<1>6. NoSpend.how = "none"
    BY DEF NoSpend
<1>7. EscrowInv'
    <2>1. \A how \in {"release", "refund"} :
             slot'["escrow"].how = how \/ outcome'["escrow"].how = how =>
                slot["escrow"].how = how \/ outcome["escrow"].how = how
        BY <1>0, <1>4, <1>6
    <2> QED BY <1>1, <2>1 DEF ContractsInv, EscrowInv
<1>8. ASSUME deal.kind = "vault" PROVE VaultInv'
    BY <1>0, <1>1, <1>2, <1>4, <1>8 DEF ContractsInv, ContractsTypeOK, VaultInv, Mineable
<1>9. ASSUME deal.kind = "swap" PROVE SwapInv'
    <2>0. SwapInv /\ CoinOwnerReacted
        BY <1>1, <1>9 DEF ContractsInv
    <2>1. deal.coin \in Nat /\ deal.asset \in Nat /\ deal.coin < deal.asset /\ cheight \in Nat
        BY <1>0, <1>9 DEF ContractsTypeOK, Deals, BuildSwapPlan
    <2>2. /\ slot["coin"] \in {NoSpend, Spend("claim", "assetOwner"), Spend("refund", "coinOwner")}
          /\ slot["asset"] \in {NoSpend, Spend("claim", "coinOwner"), Spend("refund", "assetOwner")}
        BY <1>0 DEF ContractsTypeOK, SpendsOf
    <2>3. \A s \in {Spend("claim", "assetOwner"), Spend("claim", "coinOwner")} :
             s # NoSpend /\ s.how = "claim" /\ \A a \in All, h \in Nat : Mineable(a, s, h)
        BY DEF Spend, NoSpend, Mineable
    <2>4. \A a \in {"asset", "coin"}, p \in {"assetOwner", "coinOwner"}, h \in Nat :
             Spend("refund", p).how = "refund" /\ (Mineable(a, Spend("refund", p), h) <=> h >= Timeout(a))
        BY DEF Spend, Mineable
    <2>5. outcome'["asset"].how = "refund" => cheight' >= deal.asset
        BY <1>0, <1>1, <1>2, <1>4, <1>6, <2>0, <2>1, <2>2, <2>3, <2>4 DEF SwapInv, Timeout
    <2>6. /\ slot'["coin"].how = "claim" \/ outcome'["coin"].how = "claim" => secret
          /\ slot'["asset"].how = "claim" \/ outcome'["asset"].how = "claim" => secret
        BY <1>0, <1>4, <1>6, <2>0 DEF SwapInv
    <2>7. ASSUME "coinOwner" \notin gone, "coin" \in funded, cheight + 1 >= deal.coin
          PROVE  outcome'["coin"] # NoSpend
        <3>1. CASE outcome["coin"] # NoSpend
            BY <1>0, <1>2, <1>4, <3>1
        <3>2. CASE outcome["coin"] = NoSpend
            <4>1. slot["coin"] # NoSpend
                BY <2>0, <2>7, <3>2 DEF CoinOwnerReacted
            <4>2. Mineable("coin", slot["coin"], cheight + 1)
                BY <1>0, <2>1, <2>2, <2>3, <2>4, <2>7, <4>1 DEF Timeout
            <4> QED BY <1>0, <1>3, <1>4, <2>7, <3>2, <4>1, <4>2
        <3> QED BY <3>1, <3>2
    <2>8. ASSUME "coinOwner" \notin gone, secret
          PROVE  outcome'["asset"].how = "claim"
        <3>1. CASE outcome["asset"].how = "claim"
            BY <1>0, <1>2, <1>4, <1>6, <3>1
        <3>2. CASE outcome["asset"] = NoSpend /\ "asset" \in funded /\ cheight < deal.coin
            <4>1. slot["asset"].how = "claim" \/ ~Displaces("asset", slot["asset"], Spend("claim", "coinOwner"))
                BY <2>0, <2>8, <3>2 DEF CoinOwnerReacted
            <4>2. ~(cheight + 1 >= Timeout("asset"))
                BY <2>1, <3>2 DEF Timeout
            <4>3. slot["asset"] = Spend("claim", "coinOwner")
                BY <1>0, <1>6, <2>1, <2>2, <2>3, <2>4, <4>1, <4>2 DEF Displaces
            <4>4. "asset" \in mined
                BY <1>0, <1>3, <2>1, <2>3, <3>2, <4>3
            <4> QED BY <1>0, <1>4, <2>3, <4>3, <4>4
        <3> QED BY <2>0, <2>8, <3>1, <3>2 DEF SwapInv
    <2> QED BY <1>1, <2>0, <2>1, <2>5, <2>6, <2>7, <2>8 DEF SwapInv
<1> QED BY <1>1, <1>5, <1>7, <1>8, <1>9 DEF ContractsInv

LEMMA ContractsNextInv ==
    ASSUME Heights \subseteq Nat, Unlock \in Nat, ContractsInv, [ContractsNext]_contractVars
    PROVE  ContractsInv'
<1>1. CASE \/ ClaimCoin \/ ClaimAsset
           \/ \E a \in {"asset", "coin"} : FundLeg(a) \/ RefundLeg(a)
    <2>1. deal.kind = "swap"
        BY <1>1 DEF ClaimCoin, ClaimAsset, FundLeg, RefundLeg
    <2> QED BY <1>1, <2>1, SwapStepInv
<1>2. CASE \E p \in {"assetOwner", "coinOwner"} \cup Roles : Stop(p)
    <2>1. UNCHANGED <<deal, cheight, funded, slot, outcome, secret, spends>> /\ gone \subseteq gone'
        BY <1>2 DEF Stop
    <2> QED BY <2>1 DEF ContractsInv, ContractsTypeOK, SwapInv, VaultInv, EscrowInv
<1>3. CASE UNCHANGED contractVars
    BY <1>3 DEF contractVars, ContractsInv, ContractsTypeOK, SwapInv, VaultInv, EscrowInv
<1> QED BY <1>1, <1>2, <1>3, VaultStepInv, EscrowStepInv, NextBlockInv DEF ContractsNext

LEMMA ContractsInvHonoured ==
    ASSUME Unlock \in Nat, ContractsInv
    PROVE  ContractsHonoured
<1>0. ContractsTypeOK /\ "asset" \in All /\ "vault" \in All
    BY DEF ContractsInv, All
<1>1. deal.kind = "swap" /\ "coinOwner" \notin gone =>
         /\ ~(outcome["coin"].how = "claim" /\ outcome["asset"].how = "refund")
         /\ outcome["asset"].how = "claim" => secret
         /\ outcome["coin"].how = "claim" => secret
    BY DEF ContractsInv, SwapInv, NoSpend
<1>2. \A h \in Nat : /\ Mineable("vault", Spend("cold", "cold"), h)
                     /\ Mineable("vault", Spend("hot", "hot"), h) <=> h >= Unlock
    BY DEF Mineable, Spend, NoSpend
<1>3. slot["vault"] \in {NoSpend, Spend("hot", "hot"), Spend("cold", "cold")} /\ cheight \in Nat
    BY <1>0 DEF ContractsTypeOK, SpendsOf
<1>4. Spend("hot", "hot").how = "hot" /\ Spend("cold", "cold").how = "cold" /\ NoSpend.how = "none"
    BY DEF Spend, NoSpend
<1>5. /\ slot["vault"].how = "hot" /\ cheight + 1 < Unlock => Displaces("vault", slot["vault"], Spend("cold", "cold"))
      /\ slot["vault"].how = "cold" => ~Displaces("vault", slot["vault"], Spend("hot", "hot"))
    BY <1>2, <1>3, <1>4 DEF Displaces
<1>6. deal.kind = "vault" => (outcome["vault"].how = "hot" => cheight >= Unlock)
    BY DEF ContractsInv, VaultInv
<1> QED BY <1>1, <1>5, <1>6 DEF ContractsInv, EscrowInv, ContractsHonoured

\* Swap, vault and escrow keep their promises for any timeouts with the coin's before
\* the asset's, any unlock height and a chain of any length (cmd/dnas/swap.go,
\* vault.go, escrow.go; core/mempool.go's rule for spends that cannot be mined yet).
THEOREM ContractsKeepPromises ==
    ASSUME ContractsAssumption
    PROVE  ContractsSpec => []ContractsHonoured
<1>1. ContractsInit => ContractsInv
    BY ContractsInitInv
<1>2. ContractsInv /\ [ContractsNext]_contractVars => ContractsInv'
    BY ContractsNextInv DEF ContractsAssumption
<1>3. ContractsInv => ContractsHonoured
    BY ContractsInvHonoured DEF ContractsAssumption
<1> QED BY <1>1, <1>2, <1>3, PTL DEF ContractsSpec
=============================================================================
