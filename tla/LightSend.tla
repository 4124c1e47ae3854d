------------------------------ MODULE LightSend ------------------------------
(***************************************************************************)
(* One account spent from with the self-custodial tools: spvwallet.go      *)
(* (send, sendmany, issue, mint and burn differ only in what they carry),  *)
(* bump.go, anchor.go (add), name.go and sponsor.go.  Each tool chooses a  *)
(* nonce in its own way and posts; the node keeps one transaction a nonce. *)
(*                                                                         *)
(* The owner may run any command at any time, also one that was refused or *)
(* cut off.  cmd tells the attempts to pay apart: a command is a new       *)
(* attempt, unless the same one was run before and nothing was recorded,   *)
(* mined or disconnected since (the owner trying again).                   *)
(***************************************************************************)
EXTENDS Integers, Sequences

CONSTANTS
    Payments,      \* what the owner pays for
    Fees,          \* fee levels
    Tools,         \* the tools in use
    MaxAttempts,   \* bound: attempts to pay
    MaxReorgs      \* bound: blocks disconnected

VARIABLES
    confirmed,     \* transactions of the account on the chain, in nonce order
    queued,        \* its transactions in the node's mempool
    nextNonce,     \* SPVWallet.NextNonce on disk
    sending,       \* the running command
    halfSigned,    \* the files sponsor request wrote
    trying,        \* attempts that running the command again would repeat
    attempts,      \* attempts made
    reorgs

sendVars == <<confirmed, queued, nextNonce, sending, halfSigned, trying, attempts, reorgs>>

NoTx == [nonce |-> 0, pay |-> "none", fee |-> 0, op |-> FALSE, cmd |-> 0]
NotSending == [step |-> "idle", tool |-> "none", tx |-> NoTx]

\* The confirmed nonce, from a state proof.
ProvenNonce == Len(confirmed)

SendInit ==
    /\ confirmed = <<>> /\ queued = {} /\ nextNonce = 0
    /\ sending = NotSending /\ halfSigned = {}
    /\ trying = {} /\ attempts = 0 /\ reorgs = 0

\* nextNonce: the wallet's own count when it is ahead of the chain.
NextNonce == IF nextNonce > ProvenNonce THEN nextNonce ELSE ProvenNonce

\* A tool signs p at a nonce; op is an operation that pays nobody.  The wallet's own
\* commands tell it of the nonce once it is posted.
Build(p, fee, nonce, tool, op) ==
    /\ sending.step = "idle"
    /\ \E c \in 1 .. MaxAttempts :
          /\ IF \E a \in trying : a.pay = p /\ a.tool = tool
             THEN [pay |-> p, tool |-> tool, cmd |-> c] \in trying /\ UNCHANGED <<trying, attempts>>
             ELSE /\ c = attempts + 1
                  /\ trying' = trying \cup {[pay |-> p, tool |-> tool, cmd |-> c]}
                  /\ attempts' = c
          /\ sending' = [step |-> "post", tool |-> tool, tx |-> [nonce |-> nonce, pay |-> p, fee |-> fee, op |-> op, cmd |-> c]]
    /\ UNCHANGED <<confirmed, queued, nextNonce, halfSigned, reorgs>>

\* The wallet's own commands go by its count.
Send(p, fee) == "send" \in Tools /\ Build(p, fee, NextNonce, "wallet", FALSE)
SendMany(p, fee) == "sendmany" \in Tools /\ Build(p, fee, NextNonce, "wallet", FALSE)
Issue(p, fee) == "issue" \in Tools /\ Build(p, fee, NextNonce, "wallet", TRUE)
AssetOp(p, fee) == "assetop" \in Tools /\ Build(p, fee, NextNonce, "wallet", TRUE)

\* anchor add and the name commands know only the chain's.
AnchorAdd(p, fee) == "anchor" \in Tools /\ Build(p, fee, ProvenNonce, "other", FALSE)
NameCommand(p, fee) == "name" \in Tools /\ Build(p, fee, ProvenNonce, "other", TRUE)

\* Mutant of BuildBump: the payment is sent again rather than replaced.
BuildBumpAgain(old, fee) == [old EXCEPT !.fee = fee, !.nonce = NextNonce]

\* An operation is not bumped: an issuance is refused, and of the others what is
\* copied has no recipient and the node refuses it.
BuildBump(old, fee) == [old EXCEPT !.fee = fee]

BuildCancel(old, fee) == [old EXCEPT !.fee = fee, !.pay = "self", !.op = FALSE]

\* findReplaceable: the node says it is still pending.
FindReplaceable(tool, old, fee) ==
    /\ sending.step = "idle" /\ tool \in Tools \cap {"bump", "cancel"}
    /\ old \in queued /\ fee > old.fee
    /\ tool = "bump" => ~old.op
    /\ sending' = [step |-> "post", tool |-> "wallet", tx |-> IF tool = "bump" THEN BuildBump(old, fee) ELSE BuildCancel(old, fee)]
    /\ UNCHANGED <<confirmed, queued, nextNonce, halfSigned, trying, attempts, reorgs>>

\* What is said of the same nonce, payment and fee has the same hash.
SameTx(s, t) == s.nonce = t.nonce /\ s.pay = t.pay /\ s.fee = t.fee

\* What the node takes: the next unused nonce, or one queued at a strictly lower fee.
Admitted(tx) ==
    /\ tx.nonce >= Len(confirmed)
    /\ \A n \in Len(confirmed) .. tx.nonce - 1 : \E t \in queued : t.nonce = n
    /\ \A t \in queued : t.nonce = tx.nonce => tx.fee > t.fee \/ SameTx(t, tx)

\* One already queued is taken without a change.
Queue(tx) ==
    IF \E t \in queued : SameTx(t, tx) THEN queued ELSE {t \in queued : t.nonce # tx.nonce} \cup {tx}

Post ==
    /\ sending.step = "post"
    /\ IF Admitted(sending.tx)
       THEN /\ queued' = Queue(sending.tx)
            /\ sending' = IF sending.tool = "other" THEN NotSending ELSE [sending EXCEPT !.step = "record"]
       ELSE /\ sending' = NotSending
            /\ UNCHANGED queued
    /\ UNCHANGED <<confirmed, nextNonce, halfSigned, trying, attempts, reorgs>>

\* recordSent and save.
RecordSent ==
    /\ sending.step = "record"
    /\ nextNonce' = sending.tx.nonce + 1
    /\ sending' = NotSending /\ trying' = {}
    /\ UNCHANGED <<confirmed, queued, halfSigned, attempts, reorgs>>

\* The tool is stopped, or hears no answer: with or without its transaction posted.
SendStops ==
    /\ sending.step # "idle"
    /\ sending' = NotSending
    /\ UNCHANGED <<confirmed, queued, nextNonce, halfSigned, trying, attempts, reorgs>>

\* sponsor request writes a file at the confirmed nonce, or the one given with
\* -nonce; the wallet is not told.
SponsorRequest(p, fee, nonce) ==
    /\ "sponsor" \in Tools /\ attempts < MaxAttempts
    /\ attempts' = attempts + 1
    /\ halfSigned' = halfSigned \cup {[nonce |-> nonce, pay |-> p, fee |-> fee, op |-> FALSE, cmd |-> attempts + 1]}
    /\ UNCHANGED <<confirmed, queued, nextNonce, sending, trying, reorgs>>

\* sponsor pay: the fee payer posts it, at any later time and as often as they like.
SponsorPay ==
    /\ \E tx \in halfSigned : Admitted(tx) /\ queued' = Queue(tx)
    /\ UNCHANGED <<confirmed, nextNonce, sending, halfSigned, trying, attempts, reorgs>>

\* The account's next transaction is mined, its last one disconnected, or one
\* waiting dropped from the pool.
SendMined ==
    /\ \E t \in queued :
          /\ t.nonce = Len(confirmed)
          /\ confirmed' = Append(confirmed, t) /\ queued' = queued \ {t}
    /\ trying' = {}
    /\ UNCHANGED <<nextNonce, sending, halfSigned, attempts, reorgs>>

SendReorged ==
    /\ reorgs < MaxReorgs /\ confirmed # <<>>
    /\ reorgs' = reorgs + 1
    /\ confirmed' = SubSeq(confirmed, 1, Len(confirmed) - 1)
    /\ queued' = queued \cup {confirmed[Len(confirmed)]}
    /\ trying' = {}
    /\ UNCHANGED <<nextNonce, sending, halfSigned, attempts>>

SendDropped ==
    /\ \E t \in queued : queued' = queued \ {t}
    /\ UNCHANGED <<confirmed, nextNonce, sending, halfSigned, trying, attempts, reorgs>>

SendNext ==
    \/ \E p \in Payments, fee \in Fees :
          \/ Send(p, fee) \/ SendMany(p, fee) \/ Issue(p, fee) \/ AssetOp(p, fee)
          \/ AnchorAdd(p, fee) \/ NameCommand(p, fee)
          \/ \E nonce \in 0 .. MaxAttempts : SponsorRequest(p, fee, nonce)
    \/ \E tool \in {"bump", "cancel"}, old \in queued, fee \in Fees : FindReplaceable(tool, old, fee)
    \/ Post \/ RecordSent \/ SendStops
    \/ SponsorPay \/ SendMined \/ SendReorged \/ SendDropped

SendSpec == SendInit /\ [][SendNext]_sendVars

\* Whatever was bumped, cancelled, run again, reposted or disconnected in between, no
\* attempt to pay is on the chain twice, and none is there together with its
\* cancellation.
PaysOnce == \A i, j \in DOMAIN confirmed : i # j => confirmed[i].cmd # confirmed[j].cmd
=============================================================================
