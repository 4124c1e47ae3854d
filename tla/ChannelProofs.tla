----------------------------- MODULE ChannelProofs -----------------------------
(***************************************************************************)
(* ChannelSafe for one channel of any capacity, fee and expiry, however    *)
(* many transactions are lost and commands cut off.  A second channel      *)
(* between the two keys is excluded (MaxOpens): the account's nonce is     *)
(* spent by then, and the refund protects nothing (NeverStuck).            *)
(***************************************************************************)
EXTENDS Channel, TLAPS

\* One channel, whose terms are as in ChannelAssumption.
OneChannel == ChannelAssumption /\ MaxOpens \in {0, 1}

Signers == {"funder", "receiver"}
Refunds == [kind : {"refund"}, lock : Nat, paid : {0}, sigs : SUBSET Signers]
Settles == [kind : {"settle"}, lock : {0}, paid : 0 .. Spendable, sigs : SUBSET Signers]
Funds   == [kind : {"fund"}, nonce : Nat]
Files   == [expiry : Nat, refund : Refunds, funded : BOOLEAN, paid : Nat, settlement : Settles \cup {NoChTx}, closed : BOOLEAN]
Spends  == Refunds \cup Settles \cup {NoChTx}
Ledgers == [height : 0 .. MaxChHeight, nonce : {0, 1}, held : Int, fNonce : Nat, funder : Int, receiver : Nat, spend : Spends]

ChannelTypeOK ==
    /\ fFile \in Files /\ rFile \in Files
    /\ refundReq \subseteq Refunds /\ settlements \subseteq Settles
    /\ ledger \in Ledgers
    /\ chPool \subseteq Refunds \cup Settles \cup Funds
    /\ posting \subseteq {"fund", "close", "refund"}
    /\ opens \in {0, 1}

\* Before the channel is opened nothing has happened.
NotOpened ==
    opens = 0 => /\ fFile = NoFile /\ rFile = NoFile /\ refundReq = {} /\ chPool = {} /\ posting = {}
                 /\ ledger.nonce = 0 /\ ledger.held = 0

\* There is one expiry: every refund that was sent, kept or posted has it.
OneExpiry ==
    /\ fFile.refund.lock = fFile.expiry /\ fFile.expiry <= MaxChHeight
    /\ \A r \in refundReq : r.lock = fFile.expiry
    /\ \A tx \in chPool : tx.kind = "refund" => tx.lock = fFile.expiry

\* Coin is in the channel, or on its way, only once the refund is armed.
ArmedFirst == ledger.held # 0 \/ (\E tx \in chPool : tx.kind = "fund") => RefundArmed(fFile)

\* What the receiver completed is a settlement that the funder signed and sent.
Completed ==
    /\ \A s \in settlements : s.sigs = {"funder"}
    /\ rFile.settlement # NoChTx => rFile.settlement \in settlements /\ rFile.settlement.paid = rFile.paid
    /\ \A tx \in chPool : tx.kind = "settle" => /\ tx.sigs = {"funder", "receiver"}
                                                /\ \E s \in settlements : s.paid = tx.paid

\* What took the capacity, once it is taken.
TakenBy(tx, paid) ==
    /\ tx.sigs = {"funder", "receiver"} /\ paid = tx.paid
    /\ IF tx.kind = "settle"
       THEN \E s \in settlements : s.paid = tx.paid
       ELSE tx.paid = 0 /\ ledger.height >= fFile.expiry

\* The books: whole capacities in the account, and every coin accounted for.
Books ==
    /\ ledger.held = (ledger.fNonce - ledger.nonce) * Capacity
    /\ ledger.funder + ledger.receiver + ledger.held + (ledger.fNonce + ledger.nonce) * ChFee = Wealth
    /\ ledger.nonce = 0 => ledger.receiver = 0
    /\ ledger.nonce = 1 => TakenBy(ledger.spend, ledger.receiver)

ChannelInv == ChannelTypeOK /\ NotOpened /\ OneExpiry /\ ArmedFirst /\ Completed /\ Books
-----------------------------------------------------------------------------
LEMMA MinOfTwo == \A a, b \in Int : Min({a, b}) = IF a <= b THEN a ELSE b
<1> SUFFICES ASSUME NEW a \in Int, NEW b \in Int PROVE Min({a, b}) = IF a <= b THEN a ELSE b
    OBVIOUS
<1>1. \E m \in {a, b} : \A n \in {a, b} : m <= n
    OBVIOUS
<1>2. Min({a, b}) \in {a, b} /\ \A n \in {a, b} : Min({a, b}) <= n
    BY <1>1 DEF Min
<1> QED BY <1>2

LEMMA Times == \A a, c \in Int : (a + 1) * c = a * c + c /\ (a - 1) * c = a * c - c
BY SMT

LEMMA HoldsCapacity == \A k, c \in Nat : k * c # 0 => k * c >= c
<1> SUFFICES ASSUME NEW k \in Nat, NEW c \in Nat, k * c # 0 PROVE k * c >= c
    OBVIOUS
<1>1. k # 0
    OBVIOUS
<1>2. k - 1 \in Nat /\ k = (k - 1) + 1
    BY <1>1
<1>3. k * c = (k - 1) * c + c
    BY <1>2, Times
<1>4. (k - 1) * c \in Nat
    BY <1>2
<1> QED BY <1>3, <1>4

LEMMA ChannelInitInv == OneChannel /\ ChannelInit => ChannelInv
<1> SUFFICES ASSUME OneChannel, ChannelInit PROVE ChannelInv
    OBVIOUS
<1>1. NoFile \in Files
    BY DEF NoFile, NewChannel, BuildRefund, Files, Refunds, NoChTx, Signers
<1>2. /\ NoFile.refund.lock = NoFile.expiry /\ NoFile.expiry = 0 /\ NoFile.settlement = NoChTx /\ NoFile.paid = 0
    BY DEF NoFile, NewChannel, BuildRefund
<1>3. ledger = [height |-> 0, nonce |-> 0, held |-> 0, fNonce |-> 0, funder |-> Wealth, receiver |-> 0,
                spend |-> NoChTx]
    BY DEF ChannelInit
<1>4. ChannelTypeOK
    BY <1>1, <1>3 DEF OneChannel, ChannelAssumption, ChannelInit, ChannelTypeOK, Ledgers, Spends
<1>5. NotOpened /\ OneExpiry /\ ArmedFirst /\ Completed
    BY <1>2, <1>3 DEF OneChannel, ChannelAssumption, ChannelInit, NotOpened, OneExpiry, ArmedFirst, Completed
<1>6. Books
    BY <1>2, <1>3 DEF OneChannel, ChannelAssumption, Books
<1> QED BY <1>4, <1>5, <1>6 DEF ChannelInv

\* Opening, and the passage of the refund between the two.
LEMMA OpeningInv ==
    ASSUME OneChannel, ChannelInv, ChannelOpen \/ ChannelCountersign \/ ChannelArm
    PROVE  ChannelInv'
<1>0. ChannelTypeOK /\ NotOpened /\ OneExpiry /\ ArmedFirst /\ Completed /\ Books
    BY DEF ChannelInv
<1>1. UNCHANGED <<settlements, ledger, chPool, posting>>
    BY DEF ChannelOpen, ChannelCountersign, ChannelArm
<1>2. CASE ChannelOpen
    <2> DEFINE e == ledger.height + ExpireIn
               r == BuildRefund(e, {"funder"})
    <2>1. opens = 0 /\ e \in Nat /\ e <= MaxChHeight
        BY <1>0, <1>2 DEF ChannelOpen, OneChannel, ChannelAssumption, ChannelTypeOK, Ledgers
    <2>2. r \in Refunds /\ r.lock = e
        BY <2>1 DEF BuildRefund, Refunds, Signers
    <2>3. fFile' = NewChannel(e, r) /\ refundReq' = refundReq \cup {r} /\ opens' = opens + 1 /\ UNCHANGED rFile
        BY <1>2 DEF ChannelOpen
    <2> HIDE DEF e, r
    <2>4. /\ fFile' \in Files /\ fFile'.expiry = e /\ fFile'.refund = r
        BY <2>1, <2>2, <2>3 DEF NewChannel, Files
    <2>5. refundReq = {} /\ chPool = {} /\ ledger.nonce = 0 /\ ledger.held = 0
        BY <1>0, <2>1 DEF NotOpened
    <2>6. ChannelTypeOK'
        BY <1>0, <1>1, <2>1, <2>2, <2>3, <2>4 DEF ChannelTypeOK
    <2>7. NotOpened' /\ OneExpiry' /\ ArmedFirst'
        BY <1>1, <2>1, <2>2, <2>3, <2>4, <2>5 DEF NotOpened, OneExpiry, ArmedFirst
    <2>8. Completed' /\ Books'
        BY <1>0, <1>1, <2>3, <2>5 DEF Completed, Books, TakenBy
    <2> QED BY <2>6, <2>7, <2>8 DEF ChannelInv
<1>3. CASE ChannelCountersign
    <2>1. PICK r \in refundReq :
             LET both == [r EXCEPT !.sigs = @ \cup {"receiver"}]
             IN  rFile' \in {rFile, NewChannel(r.lock, both)} /\ refundReq' = refundReq \cup {both} /\ UNCHANGED <<fFile, opens>>
        BY <1>3 DEF ChannelCountersign, Written, CutOff
    <2> DEFINE both == [r EXCEPT !.sigs = @ \cup {"receiver"}]
    <2>2. r \in Refunds /\ r.lock = fFile.expiry /\ opens = 1
        BY <1>0 DEF ChannelTypeOK, OneExpiry, NotOpened
    <2>3. both \in Refunds /\ both.lock = r.lock
        BY <2>2 DEF Refunds, Signers
    <2>4. rFile' \in {rFile, NewChannel(r.lock, both)} /\ refundReq' = refundReq \cup {both} /\ UNCHANGED <<fFile, opens>>
        BY <2>1
    <2> HIDE DEF both
    <2>5. rFile' \in Files /\ (rFile' = rFile \/ rFile'.settlement = NoChTx)
        <3>1. r.lock \in Nat
            BY <2>2 DEF Refunds
        <3>2. NewChannel(r.lock, both) \in Files /\ NewChannel(r.lock, both).settlement = NoChTx
            BY <2>3, <3>1 DEF NewChannel, Files
        <3> QED BY <1>0, <2>4, <3>2 DEF ChannelTypeOK
    <2>6. ChannelTypeOK'
        BY <1>0, <1>1, <2>3, <2>4, <2>5 DEF ChannelTypeOK
    <2>7. NotOpened' /\ OneExpiry' /\ ArmedFirst' /\ Completed'
        BY <1>0, <1>1, <2>2, <2>3, <2>4, <2>5 DEF NotOpened, OneExpiry, ArmedFirst, Completed
    <2>8. Books'
        BY <1>0, <1>1, <2>4 DEF Books, TakenBy
    <2> QED BY <2>6, <2>7, <2>8 DEF ChannelInv
<1>4. CASE ChannelArm
    <2>1. PICK r \in refundReq : CheckRefund(fFile, r) /\ fFile' = [fFile EXCEPT !.refund = r] /\ UNCHANGED <<rFile, refundReq, opens>>
        BY <1>4 DEF ChannelArm
    <2>2. r \in Refunds /\ r.lock = fFile.expiry /\ "receiver" \in r.sigs /\ opens = 1
        BY <1>0, <2>1 DEF ChannelTypeOK, CheckRefund, NotOpened
    <2>3. fFile' \in Files /\ fFile'.expiry = fFile.expiry /\ fFile'.refund = r
        BY <1>0, <2>1, <2>2 DEF ChannelTypeOK, Files
    <2>4. ChannelTypeOK'
        BY <1>0, <1>1, <2>1, <2>3 DEF ChannelTypeOK
    <2>5. NotOpened' /\ OneExpiry' /\ ArmedFirst'
        BY <1>0, <1>1, <2>1, <2>2, <2>3 DEF NotOpened, OneExpiry, ArmedFirst, RefundArmed
    <2>6. Completed' /\ Books'
        BY <1>0, <1>1, <2>1, <2>3 DEF Completed, Books, TakenBy
    <2> QED BY <2>4, <2>5, <2>6 DEF ChannelInv
<1> QED BY <1>2, <1>3, <1>4

\* What a transaction posted by a command must be for the pool to keep its invariants.
LEMMA PostInv ==
    ASSUME ChannelInv, opens = 1, NEW tx \in Refunds \cup Settles \cup Funds,
           chPool' = chPool \cup {tx}, posting' \subseteq {"fund", "close", "refund"},
           UNCHANGED <<fFile, rFile, refundReq, settlements, ledger, opens>>,
           tx.kind = "refund" => tx.lock = fFile.expiry,
           tx.kind = "fund" => RefundArmed(fFile),
           tx.kind = "settle" => tx.sigs = {"funder", "receiver"} /\ \E s \in settlements : s.paid = tx.paid
    PROVE  ChannelInv'
<1>0. ChannelTypeOK /\ NotOpened /\ OneExpiry /\ ArmedFirst /\ Completed /\ Books
    BY DEF ChannelInv
<1>1. ChannelTypeOK'
    BY <1>0 DEF ChannelTypeOK
<1>2. NotOpened' /\ OneExpiry' /\ ArmedFirst'
    BY <1>0 DEF NotOpened, OneExpiry, ArmedFirst, RefundArmed
<1>3. Completed'
    BY <1>0 DEF Completed
<1>4. Books'
    BY <1>0 DEF Books, TakenBy
<1> QED BY <1>1, <1>2, <1>3, <1>4 DEF ChannelInv

LEMMA FundInv ==
    ASSUME ChannelInv, ChannelFund
    PROVE  ChannelInv'
<1>1. /\ chPool' = chPool \cup {Funding(ledger.fNonce)} /\ posting' = posting \cup {"fund"} /\ RefundArmed(fFile)
      /\ UNCHANGED <<fFile, rFile, refundReq, settlements, ledger, opens>> /\ fFile # NoFile
    BY DEF ChannelFund, ChPost
<1>2. opens = 1 /\ ledger.fNonce \in Nat
    BY <1>1 DEF ChannelInv, ChannelTypeOK, NotOpened, Ledgers
<1>3. Funding(ledger.fNonce) \in Funds /\ Funding(ledger.fNonce).kind = "fund"
    BY <1>2 DEF Funding, Funds
<1>4. posting' \subseteq {"fund", "close", "refund"}
    BY <1>1 DEF ChannelInv, ChannelTypeOK
<1> QED BY <1>1, <1>2, <1>3, <1>4, PostInv

LEMMA CloseInv ==
    ASSUME ChannelInv, ChannelClose
    PROVE  ChannelInv'
<1> DEFINE tx == [rFile.settlement EXCEPT !.sigs = @ \cup {"receiver"}]
<1>1. /\ chPool' = chPool \cup {tx} /\ posting' = posting \cup {"close"}
      /\ UNCHANGED <<fFile, rFile, refundReq, settlements, ledger, opens>>
      /\ rFile # NoFile /\ rFile.settlement # NoChTx
    BY DEF ChannelClose, ChPost
<1>2. opens = 1 /\ rFile.settlement \in settlements /\ rFile.settlement \in Settles /\ rFile.settlement.sigs = {"funder"}
    BY <1>1 DEF ChannelInv, ChannelTypeOK, NotOpened, Completed
<1>3. /\ tx \in Settles /\ tx.kind = "settle" /\ tx.paid = rFile.settlement.paid
      /\ tx.sigs = {"funder", "receiver"}
    BY <1>2 DEF Settles, Signers
<1> HIDE DEF tx
<1>4. posting' \subseteq {"fund", "close", "refund"}
    BY <1>1 DEF ChannelInv, ChannelTypeOK
<1> QED BY <1>1, <1>2, <1>3, <1>4, PostInv

LEMMA RefundInv ==
    ASSUME ChannelInv, ChannelRefund
    PROVE  ChannelInv'
<1> DEFINE tx == [fFile.refund EXCEPT !.sigs = @ \cup {"funder"}]
<1>1. /\ chPool' = chPool \cup {tx} /\ posting' = posting \cup {"refund"}
      /\ UNCHANGED <<fFile, rFile, refundReq, settlements, ledger, opens>>
      /\ fFile # NoFile
    BY DEF ChannelRefund, RefundReady, ChPost
<1>2. opens = 1 /\ fFile.refund \in Refunds /\ fFile.refund.lock = fFile.expiry
    BY <1>1 DEF ChannelInv, ChannelTypeOK, NotOpened, Files, OneExpiry
<1>3. tx \in Refunds /\ tx.kind = "refund" /\ tx.lock = fFile.expiry
    BY <1>2 DEF Refunds, Signers
<1> HIDE DEF tx
<1>4. posting' \subseteq {"fund", "close", "refund"}
    BY <1>1 DEF ChannelInv, ChannelTypeOK
<1> QED BY <1>1, <1>2, <1>3, <1>4, PostInv

\* Paying: the files of the two sides move to a later settlement, or a command ends.
LEMMA PayingInv ==
    ASSUME OneChannel, ChannelInv,
           \/ \E paid \in 0 .. Spendable : ChannelPay(paid)
           \/ ChannelAccept \/ \E c \in posting : ChannelRecord(c)
    PROVE  ChannelInv'
<1>0. ChannelTypeOK /\ NotOpened /\ OneExpiry /\ ArmedFirst /\ Completed /\ Books
    BY DEF ChannelInv
<1>1. UNCHANGED <<refundReq, ledger, chPool, opens>>
    BY DEF ChannelPay, ChannelAccept, ChannelRecord
<1>2. Spendable \in Nat
    BY DEF Spendable, OneChannel, ChannelAssumption
<1>3. ASSUME NEW paid \in 0 .. Spendable, ChannelPay(paid) PROVE ChannelInv'
    <2> DEFINE s == BuildSettlement(paid, {"funder"})
    <2>1. /\ settlements' = settlements \cup {s} /\ UNCHANGED <<rFile, posting>> /\ fFile # NoFile
          /\ fFile' \in {fFile, [fFile EXCEPT !.paid = paid, !.settlement = s]}
        BY <1>3 DEF ChannelPay, Written, CutOff
    <2>2. s \in Settles /\ s.sigs = {"funder"} /\ paid \in Nat
        BY <1>2 DEF BuildSettlement, Settles, Signers
    <2> HIDE DEF s
    <2>3. fFile' \in Files /\ fFile'.expiry = fFile.expiry /\ fFile'.refund = fFile.refund
        BY <1>0, <1>2, <2>1, <2>2 DEF ChannelTypeOK, Files
    <2>4. opens = 1
        BY <1>0, <2>1 DEF NotOpened, ChannelTypeOK
    <2>5. ChannelTypeOK'
        BY <1>0, <1>1, <2>1, <2>2, <2>3 DEF ChannelTypeOK
    <2>6. NotOpened' /\ OneExpiry' /\ ArmedFirst'
        BY <1>0, <1>1, <2>1, <2>3, <2>4 DEF NotOpened, OneExpiry, ArmedFirst, RefundArmed
    <2>7. Completed'
        BY <1>0, <1>1, <2>1, <2>2 DEF Completed
    <2>8. Books'
        BY <1>0, <1>1, <2>1, <2>3 DEF Books, TakenBy
    <2> QED BY <2>5, <2>6, <2>7, <2>8 DEF ChannelInv
<1>4. CASE ChannelAccept
    <2>1. PICK s \in settlements : /\ rFile # NoFile /\ rFile' = [rFile EXCEPT !.paid = s.paid, !.settlement = s]
                                   /\ UNCHANGED <<fFile, settlements, posting>>
        BY <1>4 DEF ChannelAccept
    <2>2. s \in Settles /\ s.paid \in Nat /\ opens = 1
        BY <1>0, <1>2, <2>1 DEF ChannelTypeOK, Settles, NotOpened
    <2>3. rFile' \in Files /\ rFile'.paid = s.paid /\ rFile'.settlement = s
        BY <1>0, <2>1, <2>2 DEF ChannelTypeOK, Files
    <2>4. ChannelTypeOK'
        BY <1>0, <1>1, <2>1, <2>3 DEF ChannelTypeOK
    <2>5. NotOpened' /\ OneExpiry' /\ ArmedFirst'
        BY <1>0, <1>1, <2>1, <2>2 DEF NotOpened, OneExpiry, ArmedFirst, RefundArmed
    <2>6. Completed'
        BY <1>0, <1>1, <2>1, <2>3 DEF Completed
    <2>7. Books'
        BY <1>0, <1>1, <2>1 DEF Books, TakenBy
    <2> QED BY <2>4, <2>5, <2>6, <2>7 DEF ChannelInv
<1>5. ASSUME NEW c \in posting, ChannelRecord(c) PROVE ChannelInv'
    <2>1. /\ posting # {} /\ posting' \subseteq posting /\ UNCHANGED settlements
          /\ fFile' \in {fFile, [fFile EXCEPT !.funded = TRUE], [fFile EXCEPT !.closed = TRUE]}
          /\ rFile' \in {rFile, [rFile EXCEPT !.closed = TRUE]}
        BY <1>0, <1>5 DEF ChannelRecord, ChannelTypeOK, Written, CutOff
    <2>2. /\ fFile' \in Files /\ fFile'.expiry = fFile.expiry /\ fFile'.refund = fFile.refund
          /\ rFile' \in Files /\ rFile'.paid = rFile.paid /\ rFile'.settlement = rFile.settlement
        BY <1>0, <2>1 DEF ChannelTypeOK, Files
    <2>3. opens = 1
        BY <1>0, <2>1 DEF NotOpened, ChannelTypeOK
    <2>4. ChannelTypeOK'
        BY <1>0, <1>1, <2>1, <2>2 DEF ChannelTypeOK
    <2>5. NotOpened' /\ OneExpiry' /\ ArmedFirst'
        BY <1>0, <1>1, <2>1, <2>2, <2>3 DEF NotOpened, OneExpiry, ArmedFirst, RefundArmed
    <2>6. Completed' /\ Books'
        BY <1>0, <1>1, <2>1, <2>2 DEF Completed, Books, TakenBy
    <2> QED BY <2>4, <2>5, <2>6 DEF ChannelInv
<1> QED BY <1>3, <1>4, <1>5

\* The node's own steps: the height moves, or a waiting transaction is lost.
LEMMA NodeInv ==
    ASSUME OneChannel, ChannelInv, ChBlock \/ \E tx \in chPool : ChLose(tx)
    PROVE  ChannelInv'
<1>0. ChannelTypeOK /\ NotOpened /\ OneExpiry /\ ArmedFirst /\ Completed /\ Books
    BY DEF ChannelInv
<1>1. CASE ChBlock
    <2>1. /\ ledger.height < MaxChHeight /\ ledger' = [ledger EXCEPT !.height = @ + 1]
          /\ UNCHANGED <<fFile, rFile, refundReq, settlements, chPool, posting, opens>>
        BY <1>1 DEF ChBlock
    <2>2. /\ ledger' \in Ledgers /\ ledger'.height = ledger.height + 1 /\ ledger.height \in Nat
          /\ ledger'.nonce = ledger.nonce /\ ledger'.held = ledger.held /\ ledger'.fNonce = ledger.fNonce
          /\ ledger'.funder = ledger.funder /\ ledger'.receiver = ledger.receiver /\ ledger'.spend = ledger.spend
        BY <1>0, <2>1 DEF OneChannel, ChannelAssumption, ChannelTypeOK, Ledgers
    <2>3. ChannelTypeOK' /\ NotOpened' /\ OneExpiry' /\ ArmedFirst' /\ Completed'
        BY <1>0, <2>1, <2>2 DEF ChannelTypeOK, NotOpened, OneExpiry, ArmedFirst, Completed, RefundArmed
    <2>4. fFile.expiry \in Nat
        BY <1>0 DEF ChannelTypeOK, Files
    <2>5. Books'
        BY <1>0, <2>1, <2>2, <2>4 DEF Books, TakenBy
    <2> QED BY <2>3, <2>5 DEF ChannelInv
<1>2. ASSUME NEW tx \in chPool, ChLose(tx) PROVE ChannelInv'
    <2>1. chPool' \subseteq chPool /\ UNCHANGED <<fFile, rFile, refundReq, settlements, ledger, posting, opens>>
        BY <1>2 DEF ChLose
    <2>2. opens = 1
        BY <1>0 DEF NotOpened, ChannelTypeOK
    <2>3. ChannelTypeOK' /\ NotOpened' /\ OneExpiry' /\ ArmedFirst' /\ Completed'
        BY <1>0, <2>1, <2>2 DEF ChannelTypeOK, NotOpened, OneExpiry, ArmedFirst, Completed, RefundArmed
    <2>4. Books'
        BY <1>0, <2>1 DEF Books, TakenBy
    <2> QED BY <2>3, <2>4 DEF ChannelInv
<1> QED BY <1>1, <1>2

LEMMA MineInv ==
    ASSUME OneChannel, ChannelInv, NEW tx \in chPool, ChMine(tx)
    PROVE  ChannelInv'
<1> DEFINE h == Min({ledger.height + 1, MaxChHeight})
           next == [ledger EXCEPT !.height = h]
<1>0. ChannelTypeOK /\ NotOpened /\ OneExpiry /\ ArmedFirst /\ Completed /\ Books
    BY DEF ChannelInv
<1>1. /\ Applies(tx) /\ chPool' \subseteq chPool /\ \A o \in chPool' : SpendsChannel(o) # SpendsChannel(tx)
      /\ UNCHANGED <<fFile, rFile, refundReq, settlements, posting, opens>>
      /\ ledger' = IF SpendsChannel(tx)
                   THEN [next EXCEPT !.nonce = 1, !.held = @ - Capacity, !.spend = tx,
                                     !.funder = @ + Spendable - tx.paid, !.receiver = @ + tx.paid]
                   ELSE [next EXCEPT !.fNonce = @ + 1, !.held = @ + Capacity, !.funder = @ - Capacity - ChFee]
    BY DEF ChMine
<1>2. /\ ledger \in Ledgers /\ fFile.expiry \in Nat /\ opens = 1
      /\ Capacity \in Nat /\ ChFee \in Nat /\ MaxChHeight \in Nat /\ Wealth \in Nat
    BY <1>0 DEF OneChannel, ChannelAssumption, ChannelTypeOK, NotOpened, Files
<1>3. h \in 0 .. MaxChHeight /\ h >= ledger.height /\ (h = ledger.height + 1 \/ h = MaxChHeight)
    BY <1>2, MinOfTwo DEF Ledgers
<1>4. Spendable = Capacity - ChFee /\ Spendable \in Nat
    BY DEF OneChannel, ChannelAssumption, Spendable
<1> HIDE DEF h
<1>10. /\ next \in Ledgers /\ next.height = h /\ next.nonce = ledger.nonce /\ next.held = ledger.held
       /\ next.fNonce = ledger.fNonce /\ next.funder = ledger.funder /\ next.receiver = ledger.receiver
       /\ next.spend = ledger.spend
    BY <1>2, <1>3 DEF Ledgers
<1> HIDE DEF next
<1>5. CASE SpendsChannel(tx)
    <2>1. /\ tx \in Refunds \cup Settles /\ tx.paid \in Nat /\ ledger.nonce = 0 /\ ledger.height + 1 >= tx.lock
          /\ tx.sigs = {"funder", "receiver"}
        BY <1>0, <1>1, <1>4, <1>5 DEF ChannelTypeOK, SpendsChannel, Refunds, Settles, Funds, Applies
    <2>2. /\ ledger' \in Ledgers
          /\ ledger'.height = h /\ ledger'.nonce = 1 /\ ledger'.held = ledger.held - Capacity /\ ledger'.fNonce = ledger.fNonce
          /\ ledger'.funder = ledger.funder + Spendable - tx.paid /\ ledger'.receiver = ledger.receiver + tx.paid
          /\ ledger'.spend = tx
        <3>1. ledger' = [next EXCEPT !.nonce = 1, !.held = @ - Capacity, !.spend = tx,
                                     !.funder = @ + Spendable - tx.paid, !.receiver = @ + tx.paid]
            BY <1>1, <1>5
        <3>2. /\ next.held - Capacity \in Int /\ next.funder + Spendable - tx.paid \in Int
              /\ next.receiver + tx.paid \in Nat
            BY <1>2, <1>4, <1>10, <2>1 DEF Ledgers
        <3>3. ledger' = [height |-> next.height, nonce |-> 1, held |-> next.held - Capacity,
                         fNonce |-> next.fNonce, funder |-> next.funder + Spendable - tx.paid,
                         receiver |-> next.receiver + tx.paid, spend |-> tx]
            BY <1>10, <3>1 DEF Ledgers
        <3>4. tx \in Spends
            BY <2>1 DEF Spends
        <3>5. ledger' \in Ledgers
            BY <1>10, <3>2, <3>3, <3>4 DEF Ledgers
        <3> QED BY <1>10, <3>3, <3>5
    <2>3. ledger.held # 0
        <3>1. ledger.held >= Capacity /\ Capacity > 0
            BY <1>1, <1>5 DEF Applies, OneChannel, ChannelAssumption
        <3> QED BY <1>2, <3>1 DEF Ledgers
    <2>4. ledger.receiver = 0
        BY <1>0, <2>1 DEF Books, TakenBy
    <2>5. tx.kind = "settle" => \E s \in settlements : s.paid = tx.paid
        BY <1>0, <2>1 DEF Completed, Refunds, Settles
    <2>6. tx.kind = "refund" => tx.paid = 0 /\ tx.lock = fFile.expiry
        BY <1>0, <2>1 DEF OneExpiry, Refunds, Settles
    <2>7. tx.kind \in {"settle", "refund"}
        BY <1>5 DEF SpendsChannel
    <2>8. ledger'.held = (ledger'.fNonce - ledger'.nonce) * Capacity
        <3>1. ledger.held = (ledger.fNonce - 0) * Capacity
            BY <1>0, <2>1 DEF Books, TakenBy
        <3>2. (ledger.fNonce - 1) * Capacity = ledger.fNonce * Capacity - Capacity
            BY <1>2, Times DEF Ledgers
        <3> QED BY <1>2, <2>2, <3>1, <3>2 DEF Ledgers
    <2>9. ledger'.funder + ledger'.receiver + ledger'.held + (ledger'.fNonce + ledger'.nonce) * ChFee = Wealth
        <3>1. ledger.funder + ledger.receiver + ledger.held + ledger.fNonce * ChFee = Wealth
            BY <1>0, <1>2, <2>1 DEF Books, Ledgers
        <3>2. (ledger.fNonce + 1) * ChFee = ledger.fNonce * ChFee + ChFee
            BY <1>2, Times DEF Ledgers
        <3>3. ledger.fNonce * ChFee \in Int
            BY <1>2 DEF Ledgers
        <3> HIDE DEF Ledgers
        <3>4. /\ ledger.funder \in Int /\ ledger.receiver \in Int /\ ledger.held \in Int
            BY <1>2 DEF Ledgers
        <3> QED BY <1>2, <1>4, <2>1, <2>2, <3>1, <3>2, <3>3, <3>4
    <2>10. tx.kind = "refund" => h >= fFile.expiry
        BY <1>0, <1>2, <1>3, <2>1, <2>6 DEF OneExpiry, Ledgers
    <2>11. Books'
        <3>1. ledger'.receiver = tx.paid
            BY <2>1, <2>2, <2>4
        <3>2. TakenBy(tx, tx.paid)'
            BY <1>1, <2>1, <2>2, <2>5, <2>6, <2>7, <2>10 DEF TakenBy
        <3> QED BY <2>2, <2>8, <2>9, <3>1, <3>2 DEF Books
    <2>12. ChannelTypeOK' /\ NotOpened' /\ OneExpiry' /\ Completed'
        BY <1>0, <1>1, <1>2, <2>2 DEF ChannelTypeOK, NotOpened, OneExpiry, Completed
    <2>13. ArmedFirst'
        BY <1>0, <1>1, <2>3 DEF ArmedFirst, RefundArmed
    <2> QED BY <2>11, <2>12, <2>13 DEF ChannelInv
<1>6. CASE ~SpendsChannel(tx)
    <2>1. tx.kind = "fund"
        BY <1>0, <1>6 DEF ChannelTypeOK, SpendsChannel, Refunds, Settles, Funds
    <2>2. /\ ledger' \in Ledgers
          /\ ledger'.height = h /\ ledger'.nonce = ledger.nonce /\ ledger'.held = ledger.held + Capacity
          /\ ledger'.fNonce = ledger.fNonce + 1
          /\ ledger'.funder = ledger.funder - Capacity - ChFee /\ ledger'.receiver = ledger.receiver
          /\ ledger'.spend = ledger.spend
        <3>1. ledger' = [next EXCEPT !.fNonce = @ + 1, !.held = @ + Capacity, !.funder = @ - Capacity - ChFee]
            BY <1>1, <1>6
        <3>2. next.held + Capacity \in Int /\ next.funder - Capacity - ChFee \in Int /\ next.fNonce + 1 \in Nat
            BY <1>2, <1>10 DEF Ledgers
        <3>3. ledger' = [height |-> next.height, nonce |-> next.nonce, held |-> next.held + Capacity,
                         fNonce |-> next.fNonce + 1, funder |-> next.funder - Capacity - ChFee,
                         receiver |-> next.receiver, spend |-> next.spend]
            BY <1>10, <3>1 DEF Ledgers
        <3>4. ledger' \in Ledgers
            BY <1>10, <3>2, <3>3 DEF Ledgers
        <3> QED BY <1>10, <3>3, <3>4
    <2>3. /\ ledger.funder \in Int /\ ledger.receiver \in Int /\ ledger.held \in Int /\ ledger.fNonce \in Int /\ ledger.nonce \in Int
        BY <1>2 DEF Ledgers
    <2>4. ledger'.held = (ledger'.fNonce - ledger'.nonce) * Capacity
        <3>1. ((ledger.fNonce - ledger.nonce) + 1) * Capacity = (ledger.fNonce - ledger.nonce) * Capacity + Capacity
            BY <1>2, <2>3, Times
        <3>2. (ledger.fNonce - ledger.nonce) + 1 = (ledger.fNonce + 1) - ledger.nonce
            BY <2>3
        <3> QED BY <1>0, <2>2, <3>1, <3>2 DEF Books, TakenBy
    <2>5. ledger'.funder + ledger'.receiver + ledger'.held + (ledger'.fNonce + ledger'.nonce) * ChFee = Wealth
        <3>1. ledger.funder + ledger.receiver + ledger.held + (ledger.fNonce + ledger.nonce) * ChFee = Wealth
            BY <1>0 DEF Books, TakenBy
        <3>2. ((ledger.fNonce + ledger.nonce) + 1) * ChFee = (ledger.fNonce + ledger.nonce) * ChFee + ChFee
            BY <1>2, <2>3, Times
        <3>3. (ledger.fNonce + ledger.nonce) + 1 = (ledger.fNonce + 1) + ledger.nonce
            BY <2>3
        <3>4. (ledger.fNonce + ledger.nonce) * ChFee \in Int
            BY <1>2, <2>3
        <3>5. ((ledger.fNonce + 1) + ledger.nonce) * ChFee = (ledger.fNonce + ledger.nonce) * ChFee + ChFee
            BY <3>2, <3>3
        <3> QED BY <1>2, <2>2, <2>3, <3>1, <3>4, <3>5
    <2>6. ledger'.nonce = 1 => TakenBy(ledger.spend, ledger.receiver)'
        <3>1. h >= ledger.height /\ ledger.height \in Nat /\ h \in Nat /\ fFile.expiry \in Nat
            BY <1>2, <1>3 DEF Ledgers
        <3> QED BY <1>0, <1>1, <2>2, <3>1 DEF Books, TakenBy
    <2>7. Books'
        BY <1>0, <1>1, <2>2, <2>4, <2>5, <2>6 DEF Books, TakenBy
    <2>8. ChannelTypeOK' /\ NotOpened' /\ OneExpiry' /\ Completed'
        BY <1>0, <1>1, <1>2, <2>2 DEF ChannelTypeOK, NotOpened, OneExpiry, Completed
    <2>9. ArmedFirst'
        BY <1>0, <1>1, <2>1 DEF ArmedFirst, RefundArmed
    <2> QED BY <2>7, <2>8, <2>9 DEF ChannelInv
<1> QED BY <1>5, <1>6

LEMMA ChannelNextInv ==
    ASSUME OneChannel, ChannelInv, [ChannelNext]_channelVars
    PROVE  ChannelInv'
<1>1. CASE UNCHANGED channelVars
    BY <1>1 DEF channelVars, ChannelInv, ChannelTypeOK, NotOpened, OneExpiry, ArmedFirst, Completed, Books, TakenBy, RefundArmed
<1> QED BY <1>1, OpeningInv, FundInv, CloseInv, RefundInv, PayingInv, NodeInv, MineInv DEF ChannelNext

LEMMA ChannelInvSafe ==
    ASSUME OneChannel, ChannelInv
    PROVE  ChannelSafe
<1>0. ChannelTypeOK /\ NotOpened /\ OneExpiry /\ ArmedFirst /\ Completed /\ Books
    BY DEF ChannelInv
<1>1. ledger.held > 0 \/ Funding(ledger.fNonce) \in chPool =>
         "receiver" \in fFile.refund.sigs /\ fFile.refund.lock = fFile.expiry
    BY <1>0 DEF ChannelTypeOK, Ledgers, ArmedFirst, OneExpiry, RefundArmed, Funding
<1>2. ASSUME ledger.nonce = 0, ledger.held > 0, rFile.settlement # NoChTx
      PROVE  Applies([rFile.settlement EXCEPT !.sigs = @ \cup {"receiver"}]) /\ rFile.settlement.paid = rFile.paid
    <2>1. rFile.settlement \in Settles /\ rFile.settlement.sigs = {"funder"} /\ rFile.settlement.paid = rFile.paid
        BY <1>0, <1>2 DEF Completed, ChannelTypeOK
    <2>2. ledger.held = ledger.fNonce * Capacity /\ ledger.fNonce \in Nat /\ Capacity \in Nat /\ ledger.height \in Nat
        BY <1>0, <1>2 DEF Books, ChannelTypeOK, Ledgers, OneChannel, ChannelAssumption
    <2>3. ledger.held >= Capacity
        BY <1>2, <2>2, HoldsCapacity
    <2> DEFINE tx == [rFile.settlement EXCEPT !.sigs = @ \cup {"receiver"}]
    <2>4. tx.kind = "settle" /\ tx.lock = 0 /\ tx.sigs = {"funder", "receiver"}
        BY <2>1 DEF Settles
    <2> HIDE DEF tx
    <2>5. Applies(tx)
        BY <1>2, <2>2, <2>3, <2>4 DEF Applies, SpendsChannel
    <2> QED BY <2>1, <2>5 DEF tx
<1>3. \A tx \in chPool : tx.kind = "settle" => "receiver" \in tx.sigs
    BY <1>0 DEF Completed
<1> QED BY <1>0, <1>1, <1>2, <1>3 DEF ChannelSafe, Books, TakenBy

\* One channel is safe for both sides whatever its capacity, fee and expiry: coin
\* enters only under an armed refund, one capacity leaves, as agreed or after the
\* expiry, and the receiver's latest settlement stays one the next block could take
\* (cmd/dnas/channel.go, channelcmd.go).
THEOREM ChannelIsSafe ==
    ASSUME OneChannel
    PROVE  ChannelSpec => []ChannelSafe
<1>1. ChannelInit => ChannelInv
    BY ChannelInitInv
<1>2. ChannelInv /\ [ChannelNext]_channelVars => ChannelInv'
    BY ChannelNextInv
<1>3. ChannelInv => ChannelSafe
    BY ChannelInvSafe
<1> QED BY <1>1, <1>2, <1>3, PTL DEF ChannelSpec
=============================================================================
