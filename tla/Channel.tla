------------------------------- MODULE Channel -------------------------------
(***************************************************************************)
(* A one-way payment channel: cmd/dnas/channel.go and channelcmd.go.       *)
(*                                                                         *)
(* Two people, each with a channel file, pass spend files to each other    *)
(* and post transactions to a node.  The channel is a two-of-two account;  *)
(* every transaction that spends it uses nonce 0, so one of them at most   *)
(* can ever confirm.  Files arrive late, in any order, or never; a command *)
(* can be cut off between its post and its write; the pool can lose a      *)
(* transaction.  A signature is the name of its maker.                     *)
(***************************************************************************)
EXTENDS Integers, FiniteSets, FiniteSetsExt

CONSTANTS
    Capacity,     \* what the funder locks
    ChFee,        \* reserved for the closing transaction
    ExpireIn,     \* blocks from open to the refund
    Wealth,       \* the funder's coin at the start
    MaxOpens,     \* bound: channels opened between the two keys
    MaxChHeight,  \* bound: the height counter stops there
    MaxFaults     \* bound: lost transactions and cut-off commands

\* newChannel refuses a fee that is not less than the capacity.
ChannelAssumption ==
    /\ Capacity \in Nat /\ ChFee \in Nat /\ ChFee < Capacity
    /\ ExpireIn \in Nat /\ Wealth \in Nat /\ MaxChHeight \in Nat

VARIABLES
    fFile, rFile,    \* the two channel files
    refundReq,       \* refund-request.json and signed-refund.json: refunds sent
    settlements,     \* copies of settlement.json that were sent
    ledger,          \* height, nonces, balances and the spend of the channel on the chain
    chPool,          \* transactions waiting at the node
    posting,         \* commands between their post and their write
    opens, faults    \* counters of the bounds

channelVars == <<fFile, rFile, refundReq, settlements, ledger, chPool, posting, opens, faults>>

NoChTx == [kind |-> "none"]

Spendable == IF Capacity < ChFee THEN 0 ELSE Capacity - ChFee

\* buildRefund: everything to the funder, from the expiry on.
BuildRefund(expiry, sigs) == [kind |-> "refund", lock |-> expiry, paid |-> 0, sigs |-> sigs]

\* buildSettlement: no lock, the total to the receiver and the rest back.
BuildSettlement(paid, sigs) == [kind |-> "settle", lock |-> 0, paid |-> paid, sigs |-> sigs]

Funding(nonce) == [kind |-> "fund", nonce |-> nonce]

NewChannel(expiry, refund) ==
    [expiry |-> expiry, refund |-> refund, funded |-> FALSE, paid |-> 0, settlement |-> NoChTx, closed |-> FALSE]

NoFile == NewChannel(0, BuildRefund(0, {}))

\* Mutant of RefundArmed: signatures are counted, whoever made them.
RefundArmedCounts(c) == c.refund.sigs # {}

\* The receiver's signature is on the refund.
RefundArmed(c) == "receiver" \in c.refund.sigs

ChannelInit ==
    /\ fFile = NoFile /\ rFile = NoFile
    /\ refundReq = {} /\ settlements = {}
    /\ ledger = [height |-> 0, nonce |-> 0, held |-> 0, fNonce |-> 0, funder |-> Wealth, receiver |-> 0,
                 spend |-> NoChTx]
    /\ chPool = {}
    /\ posting = {}
    /\ opens = 0 /\ faults = 0
-----------------------------------------------------------------------------
(* The node *)

SpendsChannel(tx) == tx.kind \in {"refund", "settle"}

\* May the next block take it?  Both members signed, the nonce is the account's,
\* the time lock is open and the account can pay.
Applies(tx) ==
    IF SpendsChannel(tx)
    THEN /\ tx.sigs = {"funder", "receiver"}
         /\ ledger.nonce = 0 /\ ledger.held >= Capacity
         /\ ledger.height + 1 >= tx.lock
    ELSE tx.nonce = ledger.fNonce /\ ledger.funder >= Capacity + ChFee

\* The pool refuses a second spend of a nonce at the same fee.
Accepted(tx) == Applies(tx) /\ \A o \in chPool : SpendsChannel(o) # SpendsChannel(tx)

ChPost(tx) == Accepted(tx) /\ chPool' = chPool \cup {tx}

\* A block with at most one waiting transaction; the height stops at its bound.
ChMine(tx) ==
    /\ tx \in chPool /\ Applies(tx)
    /\ chPool' = {o \in chPool \ {tx} : SpendsChannel(o) # SpendsChannel(tx)}
    /\ ledger' = LET next == [ledger EXCEPT !.height = Min({@ + 1, MaxChHeight})]
                 IN  IF SpendsChannel(tx)
                     THEN [next EXCEPT !.nonce = 1, !.held = @ - Capacity, !.spend = tx,
                                       !.funder = @ + Spendable - tx.paid, !.receiver = @ + tx.paid]
                     ELSE [next EXCEPT !.fNonce = @ + 1, !.held = @ + Capacity, !.funder = @ - Capacity - ChFee]
    /\ UNCHANGED <<fFile, rFile, refundReq, settlements, posting, opens, faults>>

ChBlock ==
    /\ ledger.height < MaxChHeight
    /\ ledger' = [ledger EXCEPT !.height = @ + 1]
    /\ UNCHANGED <<fFile, rFile, refundReq, settlements, chPool, posting, opens, faults>>

\* The node restarts, evicts or expires it.
ChLose(tx) ==
    /\ tx \in chPool /\ faults < MaxFaults
    /\ chPool' = chPool \ {tx}
    /\ faults' = faults + 1
    /\ UNCHANGED <<fFile, rFile, refundReq, settlements, ledger, posting, opens>>
-----------------------------------------------------------------------------
(* Opening.  A person runs one command on a channel file at a time. *)

FunderIdle == posting \cap {"fund", "refund"} = {}
ReceiverIdle == "close" \notin posting

\* The second of a command's two files is written, or the command is cut off.
Written(file, new) == file' = new /\ UNCHANGED faults
CutOff(file) == faults < MaxFaults /\ faults' = faults + 1 /\ UNCHANGED file

\* channel open: the refund carries the funder's signature only.  Whatever channel
\* the file held before is overwritten.
ChannelOpen ==
    /\ FunderIdle /\ opens < MaxOpens
    /\ ledger.height + ExpireIn <= MaxChHeight
    /\ LET r == BuildRefund(ledger.height + ExpireIn, {"funder"})
       IN  /\ fFile' = NewChannel(ledger.height + ExpireIn, r)
           /\ refundReq' = refundReq \cup {r}
    /\ opens' = opens + 1
    /\ UNCHANGED <<rFile, settlements, ledger, chPool, posting, faults>>

\* channel countersign: the receiver's file is derived from the refund, which must
\* have a time lock, and replaces the file of a channel that it had before.
ChannelCountersign ==
    \E r \in refundReq :
        /\ ReceiverIdle /\ "receiver" \notin r.sigs /\ r.lock # 0
        /\ LET both == [r EXCEPT !.sigs = @ \cup {"receiver"}]
           IN  /\ refundReq' = refundReq \cup {both}
               /\ Written(rFile, NewChannel(r.lock, both)) \/ CutOff(rFile)
        /\ UNCHANGED <<fFile, settlements, ledger, chPool, posting, opens>>

\* checkRefund: this channel's expiry, and the receiver's signature.
CheckRefund(c, tx) == tx.kind = "refund" /\ tx.lock = c.expiry /\ "receiver" \in tx.sigs

ChannelArm ==
    \E r \in refundReq :
        /\ FunderIdle /\ fFile # NoFile /\ CheckRefund(fFile, r)
        /\ fFile' = [fFile EXCEPT !.refund = r]
        /\ UNCHANGED <<rFile, refundReq, settlements, ledger, chPool, posting, opens, faults>>

\* channel fund, up to the post: armed, not recorded as funded, and the proven
\* account can pay.
ChannelFund ==
    /\ FunderIdle /\ fFile # NoFile
    /\ ~fFile.funded /\ RefundArmed(fFile)
    /\ ChPost(Funding(ledger.fNonce))
    /\ posting' = posting \cup {"fund"}
    /\ UNCHANGED <<fFile, rFile, refundReq, settlements, ledger, opens, faults>>
-----------------------------------------------------------------------------
(* Paying *)

\* channel pay: the settlement's file is written before the channel's.
ChannelPay(paid) ==
    /\ FunderIdle /\ fFile # NoFile /\ fFile.funded
    /\ paid \in fFile.paid .. Spendable
    /\ LET s == BuildSettlement(paid, {"funder"})
       IN  /\ settlements' = settlements \cup {s}
           /\ Written(fFile, [fFile EXCEPT !.paid = paid, !.settlement = s]) \/ CutOff(fFile)
    /\ UNCHANGED <<rFile, refundReq, ledger, chPool, posting, opens>>

\* checkSettlement: unlocked, within the channel, never less than before, signed.
CheckSettlement(c, tx) ==
    tx.lock = 0 /\ tx.paid <= Spendable /\ tx.paid >= c.paid /\ "funder" \in tx.sigs

ChannelAccept ==
    \E s \in settlements :
        /\ ReceiverIdle /\ rFile # NoFile /\ CheckSettlement(rFile, s)
        /\ rFile' = [rFile EXCEPT !.paid = s.paid, !.settlement = s]
        /\ UNCHANGED <<fFile, refundReq, settlements, ledger, chPool, posting, opens, faults>>
-----------------------------------------------------------------------------
(* Ending *)

\* channel close, up to the post: the receiver completes its latest settlement.
ChannelClose ==
    /\ ReceiverIdle /\ rFile # NoFile
    /\ rFile.settlement # NoChTx /\ ~rFile.closed
    /\ ChPost([rFile.settlement EXCEPT !.sigs = @ \cup {"receiver"}])
    /\ posting' = posting \cup {"close"}
    /\ UNCHANGED <<fFile, rFile, refundReq, settlements, ledger, opens, faults>>

\* The refund is armed.  The tip is asked for only to explain an early refusal,
\* and no answer is passed over: the pool's own test of the lock decides.
RefundReady(c) == c # NoFile /\ RefundArmed(c)

\* Mutant of ChannelRefund: like close, it refuses once it has run.
ChannelRefundOnce ==
    /\ FunderIdle /\ RefundReady(fFile) /\ ~fFile.closed
    /\ ChPost([fFile.refund EXCEPT !.sigs = @ \cup {"funder"}])
    /\ posting' = posting \cup {"refund"}
    /\ UNCHANGED <<fFile, rFile, refundReq, settlements, ledger, opens, faults>>

\* channel refund, up to the post; it may be run again.
ChannelRefund ==
    /\ FunderIdle /\ RefundReady(fFile)
    /\ ChPost([fFile.refund EXCEPT !.sigs = @ \cup {"funder"}])
    /\ posting' = posting \cup {"refund"}
    /\ UNCHANGED <<fFile, rFile, refundReq, settlements, ledger, opens, faults>>

\* The write after the post, or the command is cut off before it.
ChannelRecord(c) ==
    /\ c \in posting
    /\ posting' = posting \ {c}
    /\ CASE c = "fund"   -> (Written(fFile, [fFile EXCEPT !.funded = TRUE]) \/ CutOff(fFile)) /\ UNCHANGED rFile
         [] c = "refund" -> (Written(fFile, [fFile EXCEPT !.closed = TRUE]) \/ CutOff(fFile)) /\ UNCHANGED rFile
         [] c = "close"  -> (Written(rFile, [rFile EXCEPT !.closed = TRUE]) \/ CutOff(rFile)) /\ UNCHANGED fFile
    /\ UNCHANGED <<refundReq, settlements, ledger, chPool, opens>>

ChannelNext ==
    \/ ChannelOpen \/ ChannelCountersign \/ ChannelArm \/ ChannelFund
    \/ \E paid \in 0 .. Spendable : ChannelPay(paid)
    \/ ChannelAccept \/ ChannelClose \/ ChannelRefund
    \/ \E c \in posting : ChannelRecord(c)
    \/ ChBlock \/ \E tx \in chPool : ChMine(tx) \/ ChLose(tx)

\* Blocks come, waiting transactions are mined, a command that posted finishes,
\* and the funder asks for the refund while the channel is unspent.
ChannelFairness ==
    /\ WF_channelVars(ChBlock)
    /\ WF_channelVars(\E tx \in chPool : ChMine(tx))
    /\ WF_channelVars(\E c \in posting : ChannelRecord(c))
    /\ WF_channelVars(ChannelRefund)

ChannelSpec == ChannelInit /\ [][ChannelNext]_channelVars /\ ChannelFairness
-----------------------------------------------------------------------------
\* One channel, whatever is lost, late or cut off: coin enters the account only
\* while the funder's file holds a refund that both have signed; what leaves it
\* is exactly one capacity, and what took it, signed by both, is a settlement that
\* the funder made, or the refund and then not before the expiry; the receiver is
\* paid what that transaction says; until then, the settlement that the receiver's
\* file holds is one that the next block could take; and a settlement reaches the
\* pool by the receiver's hand only.
ChannelSafe ==
    /\ ledger.held > 0 \/ Funding(ledger.fNonce) \in chPool =>
         "receiver" \in fFile.refund.sigs /\ fFile.refund.lock = fFile.expiry
    /\ ledger.held = (ledger.fNonce - ledger.nonce) * Capacity
    /\ ledger.funder + ledger.receiver + ledger.held + (ledger.fNonce + ledger.nonce) * ChFee = Wealth
    /\ ledger.nonce = 1 =>
         /\ ledger.spend.sigs = {"funder", "receiver"} /\ ledger.receiver = ledger.spend.paid
         /\ IF ledger.spend.kind = "settle"
            THEN \E s \in settlements : s.paid = ledger.spend.paid
            ELSE ledger.spend.paid = 0 /\ ledger.height >= fFile.expiry
    /\ ledger.nonce = 0 /\ ledger.held > 0 /\ rFile.settlement # NoChTx =>
         Applies([rFile.settlement EXCEPT !.sigs = @ \cup {"receiver"}]) /\ rFile.settlement.paid = rFile.paid
    /\ \A tx \in chPool : tx.kind = "settle" => "receiver" \in tx.sigs

\* A capacity that was locked once is released in the end, by the receiver or by
\* the refund, though the receiver never acts again, transactions are lost and
\* commands are cut off.
ChannelResolves ==
    (ledger.held > 0 /\ ledger.fNonce = 1) ~> (ledger.held = 0 \/ ledger.fNonce > 1)

\* What the refund is for: no coin stays in the channel for ever (channel.go:47-49).
NeverStuck == (ledger.held > 0) ~> (ledger.held = 0)
=============================================================================
