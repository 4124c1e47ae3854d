------------------------------ MODULE MCClients ------------------------------
(***************************************************************************)
(* What people run against a node, side by side: a behaviour is one of     *)
(* Authorization (a spend being verified), Contracts (a swap, a vault, an  *)
(* escrow), Channel, LightClient, LightSend or Invoices; the others stay   *)
(* in their initial states.  Contracts, Channel, LightSend and Invoices    *)
(* are extended and keep their names.                                      *)
(***************************************************************************)
EXTENDS Contracts, Channel, LightSend, Invoices, Functions, TLC

CONSTANTS
    Parts,    \* the parts looked at
    Parties, MaxScriptOps, MaxScriptStack, MaxScriptWitness, MaxScriptSigChecks, MaxSmallInt,
    MaxMultisigKeys, Lock, Workers, CacheMax,
    G, a1, a2, b2, b3, d1, x, y, Commands, PageLimit, Maturity, MaxCommands, MaxFailures

VARIABLES
    on,    \* the part at work
    authCase, order, cworker, verdict,
    tip, cacheFile, walletFile, cl, answer, commands, failures

authVars == <<authCase, order, cworker, verdict>>
lightVars == <<tip, cacheFile, walletFile, cl, answer, commands, failures>>

(* The node's chains: a1-a2, its sibling a1-b2-b3, and a fork at genesis, d1.  b2 wins  *)
(* the tie with a2 by its hash, b3 beats both, and d1 beats all with one block.         *)
MCBlocks == {G, a1, a2, b2, b3, d1}
MCPath == (G :> <<>>) @@ (a1 :> <<a1>>) @@ (a2 :> <<a1, a2>>) @@ (b2 :> <<a1, b2>>)
          @@ (b3 :> <<a1, b2, b3>>) @@ (d1 :> <<d1>>)
MCWork == [b \in MCBlocks |-> IF b = d1 THEN 4 ELSE 1]
MCHashRank == (G :> 0) @@ (a1 :> 1) @@ (a2 :> 3) @@ (b2 :> 2) @@ (b3 :> 4) @@ (d1 :> 5)
MCPays == (G :> {}) @@ (a1 :> {x}) @@ (a2 :> {x, y}) @@ (b2 :> {y}) @@ (b3 :> {x}) @@ (d1 :> {y})
MCPaysTo == [p \in Payers |-> <<1, 0>>]

Au == INSTANCE Authorization
Li == INSTANCE LightClient WITH Blocks <- MCBlocks, Genesis <- G, Path <- MCPath, Work <- MCWork, HashRank <- MCHashRank,
                                Addresses <- {x, y}, Pays <- MCPays, Watched <- {x}, StartTip <- a1

ASSUME ContractsInstance == ContractsAssumption
ASSUME ChannelInstance == ChannelAssumption

Init ==
    /\ on \in Parts
    /\ Au!AuthInit /\ (on # "auth" => authCase = Au!CacheCase)
    /\ ContractsInit /\ (on # "contracts" => deal.kind = "vault")
    /\ ChannelInit /\ Li!LightInit /\ SendInit /\ InvoicesInit

\* Invoices twice: issued one at a time and served, and issued at several tills at once.
OneTill == InvoicesNext /\ \A t \in Tills : t # "t1" => issuing'[t] = NoCommand
IssuingAlone == InvoicesNext /\ UNCHANGED <<payBlocks, payPool, serveVars, receiverUp, invReorgs>>

Next ==
    /\ UNCHANGED on
    /\ \/ on = "auth"      /\ Au!AuthNext      /\ UNCHANGED <<contractVars, channelVars, lightVars, sendVars, invoiceVars>>
       \/ on = "contracts" /\ ContractsNext    /\ UNCHANGED <<authVars, channelVars, lightVars, sendVars, invoiceVars>>
       \/ on = "channel"   /\ ChannelNext      /\ UNCHANGED <<authVars, contractVars, lightVars, sendVars, invoiceVars>>
       \/ on = "light"     /\ Li!LightNext     /\ UNCHANGED <<authVars, contractVars, channelVars, sendVars, invoiceVars>>
       \/ on = "send"      /\ SendNext         /\ UNCHANGED <<authVars, contractVars, channelVars, lightVars, invoiceVars>>
       \/ on = "invoices"  /\ OneTill          /\ UNCHANGED <<authVars, contractVars, channelVars, lightVars, sendVars>>
       \/ on = "issuing"   /\ IssuingAlone     /\ UNCHANGED <<authVars, contractVars, channelVars, lightVars, sendVars>>

vars == <<on, authVars, contractVars, channelVars, lightVars, sendVars, invoiceVars>>

Fairness ==
    \/ on \notin {"channel", "invoices"}
    \/ on = "channel"  /\ ChannelFairness
    \/ on = "invoices" /\ InvoicesFairness

Spec == Init /\ [][Next]_vars /\ Fairness

\* The invoices alone: the daemon goes round, and a receiver that is down comes back.
InvoicesFairSpec ==
    /\ Init /\ [][Next]_vars
    /\ WF_invoiceVars(ServeInvoice) /\ WF_invoiceVars(ServeSave) /\ WF_invoiceVars(ReceiverBack)

(* The properties of the parts that are not extended, each stated in its module. *)

\* A script account is spent by those who could spend the shape it replaces (Authorization).
ScriptsMatchShapes == Au!ScriptsMatchShapes
\* The verdict cache answers as verification would (Authorization, ValidationCache).
VerdictsSound == Au!VerdictsSound
\* The light wallet's totals are those of the chain it scanned (LightClient).
WalletExact == Li!WalletExact
\* The wallet rescans when its chain is replaced (LightClient).
RescansOnReorg == Li!RescansOnReorg
\* What a command answers is what the chain of a node that stays put says (LightClient).
SteadyAnswers == Li!SteadyAnswers
=============================================================================
