----------------------------- MODULE MCServices -----------------------------
(***************************************************************************)
(* The node's services side by side: a behaviour is one of Mining,         *)
(* PoolServer, Faucet, Webhook or Inbound; the others stay in a state in   *)
(* which they have nothing to do.                                          *)
(***************************************************************************)
EXTENDS Integers, Sequences, FiniteSets, FiniteSetsExt, SequencesExt, Functions

CONSTANTS
    Services, Txs, Bad, MaxBuildAttempts, MaxTips, MaxTxs, MaxCalls, Nodes,
    Sessions, AddressOf, FilterCommit, MaxJobs, WindowMax, MaxMiners, Factors,
    Rewards, MaxTip, Setups, MaxEvents,
    Requests, Cooldown, MaxKeys, Amount, Rates, Funds, MaxPending, MaxTime,
    Urls, WebhookQueue, WebhookRetries, MaxEmitted,
    Ips, IpGroup, Exempt, MaxInbound, MaxInboundPerGroup, IpBanThreshold, IpBanHandshake, MaxPerIp

VARIABLES
    on,    \* the service at work
    tip, confirmed, mempool, tipGen, txGen, pc, cand, picked, tries, mark, lastTip, queued,
    mining, quit, active, calls,
    ptip, conn, authorized, factor, jobs, shown, muted, sending, share, last, event, toPush,
    ledger, window, total, credited, saved, torn, phase, events,
    now, rate, stamped, req, mined, pending, payouts,
    emitted, queue, posting, delivered, sent, failed, dropped, halted,
    handlers, inboundTotal, inboundGroup, ipScore

minerVars == <<tip, confirmed, mempool, tipGen, txGen, pc, cand, picked, tries, mark, lastTip, queued,
               mining, quit, active, calls>>
poolVars == <<ptip, conn, authorized, factor, jobs, shown, muted, sending, share, last, event, toPush,
              ledger, window, total, credited, saved, torn, phase, events>>
faucetVars == <<now, rate, stamped, req, mined, pending, payouts>>
hookVars == <<emitted, queue, posting, delivered, sent, failed, dropped, halted>>
inboundVars == <<handlers, inboundTotal, inboundGroup, ipScore>>

Mi == INSTANCE Mining
Po == INSTANCE PoolServer
Fa == INSTANCE Faucet
We == INSTANCE Webhook
In == INSTANCE Inbound

MCNodes     == {{}, {"mineLoop", "network"}, {"mineLoop", "Generate"}, {"mineLoop", "dnas miner"}, {"network", "dnas miner"}}
MCAddressOf == ("m" :> 1) @@ ("n" :> 2) @@ ("api" :> 3)
MCSetups    == {[miners |-> {}, spent |-> 0], [miners |-> {"m", "api"}, spent |-> 0], [miners |-> {"m", "n"}, spent |-> 1]}
MCRequests  == (1 :> [addr |-> "a", who |-> "x"]) @@ (2 :> [addr |-> "b", who |-> "x"]) @@
               (3 :> [addr |-> "a", who |-> "none"])
MCIpGroup   == ("i" :> "g") @@ ("j" :> "g") @@ ("k" :> "h") @@ ("lo" :> "lo")

Init ==
    /\ on \in Services
    /\ Mi!Init /\ (on = "mining") = (active # {})
    /\ Po!Init /\ (on = "pool") = (\E s \in Sessions : conn[s] # "absent")
    /\ Fa!Init /\ (on # "faucet" => rate = Min(Rates))
    /\ We!Init /\ In!Init

Next ==
    /\ UNCHANGED on
    /\ \/ on = "mining"  /\ Mi!Next /\ UNCHANGED <<poolVars, faucetVars, hookVars, inboundVars>>
       \/ on = "pool"    /\ Po!Next /\ UNCHANGED <<minerVars, faucetVars, hookVars, inboundVars>>
       \/ on = "faucet"  /\ Fa!Next /\ UNCHANGED <<minerVars, poolVars, hookVars, inboundVars>>
       \/ on = "webhook" /\ We!Next /\ UNCHANGED <<minerVars, poolVars, faucetVars, inboundVars>>
       \/ on = "inbound" /\ In!Next /\ UNCHANGED <<minerVars, poolVars, faucetVars, hookVars>>

vars == <<on, minerVars, poolVars, faucetVars, hookVars, inboundVars>>

Spec == Init /\ [][Next]_vars /\ Mi!Fairness /\ Po!Fairness /\ We!Fairness

(* The properties of the components, each stated in its own module. *)

\* After a search on a dead tip the loop works on the tip again (Mining, mineLoop).
MinerRecovers == Mi!MinerRecovers
\* The long poll misses no tip (Mining, WaitForTip).
LongPollAnswers == Mi!LongPollAnswers
\* The pool's books are what the shares say, in memory and on disk (PoolServer).
PoolBooks == Po!PoolBooks
\* A miner is not left on a dead job (PoolServer, jobLoop).
JobsFollowTip == Po!JobsFollowTip
\* One payout per recipient and requester per cooldown, and none lost but to a higher
\* fee (Faucet, FaucetFor).
FaucetPaysOnce == Fa!FaucetPaysOnce
\* A receiver that is down holds nothing up (Webhook, deliver).
EventsSettle == We!EventsSettle
\* Inbound slots are the connections being handled (Inbound, releaseInbound).
InboundSlots == In!InboundSlots
=============================================================================
