-------------------------------- MODULE MCCore --------------------------------
(***************************************************************************)
(* Six parts of the core package side by side: a behaviour is one of       *)
(* Chain, BlockStore, VersionBits, Tokens, Commitments or Mempool; the     *)
(* others stay in their initial states.  Chain (with the bodies of         *)
(* MCChain), BlockStore and Tokens are extended and keep their names.      *)
(***************************************************************************)
EXTENDS MCChain, BlockStore, Tokens

CONSTANTS
    Parts,    \* the parts looked at
    Start, Window, Threshold, Timeout, VoteReorgDepth, MaxVoteHeight, MaxSuffix,
    HistoryFrom, RootReorgDepth, MaxRootHeight, MaxRootSuffix,
    PoolTxs, MaxTxs, MaxBytes, MaxPerSender, MaxPackageAncestors, MaxPackageDescendants, MaxPackageBytes,
    MinRelayFee, FloorMultiplier, BaseFee, MaxBlockTxs, MaxBlockBytes, MaxPoolHeight, MaxSubmissions

VARIABLES
    on,    \* the part at work
    votes, schedule,
    headers, history, refused,
    ledger, blocks, pool, checking, adding, cand, template, tip, clean

voteVars == <<votes, schedule>>
rootVars == <<headers, history, refused>>
poolVars == <<ledger, blocks, pool, checking, adding, cand, template, tip, clean>>

\* Blocks differ in their label only.
EqualWork(l) == 1

(* The transactions of the mempool: A has coin, B lives on what A pays it, S only *)
(* sponsors.                                                                       *)
PoolTx(from, nonce, to, amount, fee, size, payer, lock, expiry) ==
    [from |-> from, nonce |-> nonce, to |-> to, amount |-> amount, fee |-> fee,
     size |-> size, payer |-> payer, lock |-> lock, expiry |-> expiry]

Plain(from, nonce, to, amount, fee, size) ==
    PoolTx(from, nonce, to, amount, fee, size, from, 0, 0)

MCAddrs == {"A", "B", "S"}

MCStartBalance == [a \in MCAddrs |-> CASE a = "A" -> 7 [] a = "B" -> 0 [] a = "S" -> 3]

PayB == Plain("A", 0, "B", 2, 1, 1)
PayBMore == Plain("A", 0, "B", 1, 3, 2)               \* replaces PayB, bigger and dearer
PayBNext == Plain("A", 1, "S", 1, 2, 1)
PayBLast == Plain("A", 2, "B", 0, 1, 1)
SponsoredA == PoolTx("A", 1, "B", 1, 2, 1, "S", 0, 0)     \* S pays the fee
SponsoredB == PoolTx("B", 0, "A", 0, 2, 1, "S", 0, 0)     \* S cannot pay both fees
Locked == PoolTx("A", 0, "B", 1, 3, 2, "A", 2, 0)         \* not before height 2; bigger and dearer than PayB
Expiring == PoolTx("B", 0, "A", 1, 1, 1, "B", 0, 1)       \* needs PayB, not after height 1

RunTxs == {PayB, SponsoredA, SponsoredB, Locked, Expiring}
LongTxs == {PayB, PayBNext, PayBLast}
BigTxs == {PayB, PayBNext, PayBMore}

(* The accounts of the commitments: two names whose keys part at the last bit, an *)
(* account below the same inner node and one on the other side.                   *)
Near == <<0, 0, 0>>
Nearer == <<0, 0, 1>>
Side == <<0, 1, 0>>
Far == <<1, 0, 0>>

MCRootBodies == {<< <<Near, 1>>, <<Nearer, 1>> >>, << <<Far, 2>>, <<Side, 1>> >>, << <<Nearer, 0>> >>,
             << <<Near, 0>>, <<Far, 1>>, <<Side, 2>> >>}

Vb == INSTANCE VersionBits WITH chain <- votes, MaxReorgDepth <- VoteReorgDepth, MaxHeight <- MaxVoteHeight
Co == INSTANCE Commitments WITH Keys <- {Near, Nearer, Side, Far}, Gone <- 0, Bodies <- MCRootBodies
Me == INSTANCE Mempool WITH Addrs <- MCAddrs, Txs <- PoolTxs, StartBalance <- MCStartBalance, MaxHeight <- MaxPoolHeight

ASSUME StoreInstance == StoreAssumption
ASSUME TokensInstance == TokensAssumption
ASSUME DeploymentInstance == Vb!DeploymentValid

CoreInit ==
    /\ on \in Parts
    /\ Init /\ StoreInit /\ Vb!Init
    /\ TokensInit /\ (on # "tokens" => kind = "names")
    /\ Co!CommitInit
    /\ Me!Init

CoreNext ==
    /\ UNCHANGED on
    /\ \/ on = "chain"  /\ Next /\ UNCHANGED <<storeVars, voteVars, tokenVars, rootVars, poolVars>>
       \/ on = "store"  /\ NextTimely /\ UNCHANGED <<vars, voteVars, tokenVars, rootVars, poolVars>>
       \/ on = "votes"  /\ Vb!Next /\ UNCHANGED <<vars, storeVars, tokenVars, rootVars, poolVars>>
       \/ on = "tokens" /\ TokensNext /\ UNCHANGED <<vars, storeVars, voteVars, rootVars, poolVars>>
       \/ on = "roots"  /\ Co!CommitNext /\ UNCHANGED <<vars, storeVars, voteVars, tokenVars, poolVars>>
       \/ on = "pool"   /\ Me!Next /\ UNCHANGED <<vars, storeVars, voteVars, tokenVars, rootVars>>

coreVars == <<on, vars, storeVars, voteVars, tokenVars, rootVars, poolVars>>

CoreSpec == CoreInit /\ [][CoreNext]_coreVars

\* The store alone: on a disk that may be slower than the chain grows, and on one
\* whose fsync may report an error.
StoreAlone == on = "store" /\ UNCHANGED <<on, vars, voteVars, tokenVars, rootVars, poolVars>>

CoreSpecSlow == CoreInit /\ [][StoreAlone /\ StoreNext]_coreVars

CoreSpecSync == CoreInit /\ [][StoreAlone /\ NextSync]_coreVars

(* The properties of the parts that are not extended, each stated in its module. *)

\* The upgrade table is the one the chain's votes define (VersionBits).
ScheduleFollowsChain == on = "votes" => Vb!ScheduleFollowsChain
\* The chain held is one that replay accepts (VersionBits).
RuleFollowsChain == Vb!RuleFollowsChain
\* The roots computed step by step are those the chain defines (Commitments).
CommitmentsAgree == on = "roots" => Co!CommitmentsAgree
\* Light-client proofs are complete and sound (Commitments).
ProofsHold == on = "roots" => Co!ProofsHold
\* What the miner selects makes a valid block (Mempool).
SelectionValid == on = "pool" => Me!SelectionValid
\* A sender's queue has no nonce gaps (Mempool).
RunsContiguous == on = "pool" => Me!RunsContiguous
\* Sponsors can pay for what they sponsor (Mempool).
SponsorsCovered == on = "pool" => Me!SponsorsCovered
\* A run stays without gaps (Mempool).
RunsStayContiguous == Me!RunsStayContiguous
=============================================================================
