----------------------------- MODULE WalletProofs -----------------------------
(***************************************************************************)
(* What the self-custodial tools promise their owner, for every set of     *)
(* payments, fees and tools and any number of reorganisations: LightSend   *)
(* puts no attempt to pay on the chain twice, and Invoices asks for no     *)
(* derived address twice unless a save of the seed file was lost.          *)
(***************************************************************************)
EXTENDS LightSend, Invoices, TLAPS

(* LightSend.  An attempt to pay is a transaction at one nonce, wherever it *)
(* is: waiting, on the chain, in the running command or in a file of        *)
(* sponsor request.  The chain takes one transaction a nonce; running a     *)
(* command again finds the count, and so the nonce, where it was.           *)

SendTxs == [nonce : Nat, pay : Payments \cup {"self", "none"}, fee : Fees \cup {0}, op : BOOLEAN, cmd : Nat]

Tries == [pay : Payments, tool : {"wallet", "other"}, cmd : Nat]

\* The transactions that may still reach the chain, or are on it.
Live == queued \cup {confirmed[i] : i \in DOMAIN confirmed} \cup halfSigned \cup {t \in {sending.tx} : sending.step # "idle"}

SendTypeOK ==
    /\ confirmed \in Seq(SendTxs) /\ queued \subseteq SendTxs /\ nextNonce \in Nat
    /\ sending \in [step : {"idle", "post", "record"}, tool : {"none", "wallet", "other"}, tx : SendTxs]
    /\ halfSigned \subseteq SendTxs
    /\ trying \subseteq Tries /\ attempts \in Nat

NonceOrder == \A i \in DOMAIN confirmed : confirmed[i].nonce = i - 1

OneNonce == \A s, t \in Live : s.cmd = t.cmd => s.nonce = t.nonce

\* Attempts are numbered as they are made.
Numbered ==
    /\ \A t \in Live : t.cmd <= attempts
    /\ \A a \in trying : a.cmd <= attempts
    /\ \A a, b \in trying : a.cmd = b.cmd => a = b

\* The nonce a tool would choose now.
NonceFor(tool) == IF tool = "wallet" THEN NextNonce ELSE ProvenNonce

\* What may be tried again is at the nonce that trying again chooses.
SameChoice == \A a \in trying, t \in Live : t.cmd = a.cmd => t.nonce = NonceFor(a.tool)

SendInv == SendTypeOK /\ NonceOrder /\ OneNonce /\ Numbered /\ SameChoice

LEMMA NextNonceIsNat == SendInv => NextNonce \in Nat /\ ProvenNonce \in Nat
BY DEF SendInv, SendTypeOK, NextNonce, ProvenNonce

LEMMA NumbersAreNat == SendInv => (\A t \in Live : t.cmd \in Nat) /\ (\A a \in trying : a.cmd \in Nat)
<1> SUFFICES ASSUME SendInv PROVE (\A t \in Live : t.cmd \in Nat) /\ (\A a \in trying : a.cmd \in Nat)
    OBVIOUS
<1>1. {confirmed[i] : i \in DOMAIN confirmed} \subseteq SendTxs
    BY DEF SendInv, SendTypeOK
<1>2. sending.tx \in SendTxs
    BY DEF SendInv, SendTypeOK
<1>3. Live \subseteq SendTxs
    BY <1>1, <1>2 DEF Live, SendInv, SendTypeOK
<1> QED BY <1>3 DEF SendInv, SendTypeOK, SendTxs, Tries

LEMMA SendInitInv == SendInit => SendInv
<1> SUFFICES ASSUME SendInit PROVE SendInv
    OBVIOUS
<1>1. NoTx \in SendTxs
    BY DEF NoTx, SendTxs
<1>2. SendTypeOK
    BY <1>1 DEF SendInit, SendTypeOK, NotSending
<1>3. Live = {}
    BY DEF SendInit, Live, NotSending
<1> QED BY <1>2, <1>3 DEF SendInit, SendInv, NonceOrder, OneNonce, Numbered, SameChoice

\* A step that makes no attempt, and after which what is live was live before and what
\* may be tried again has the same choice, keeps the four facts about attempts.
LEMMA LiveShrinks ==
    ASSUME SendInv, Live' \subseteq Live, attempts' = attempts,
           trying' = {} \/ (trying' = trying /\ UNCHANGED <<confirmed, nextNonce>>)
    PROVE  OneNonce' /\ Numbered' /\ SameChoice'
<1>1. OneNonce' /\ Numbered'
    BY DEF SendInv, OneNonce, Numbered
<1>2. CASE trying' = {}
    BY <1>1, <1>2 DEF SameChoice
<1>3. CASE trying' = trying /\ UNCHANGED <<confirmed, nextNonce>>
    <2>1. \A tool : NonceFor(tool)' = NonceFor(tool)
        BY <1>3 DEF NonceFor, NextNonce, ProvenNonce
    <2> QED BY <1>1, <1>3, <2>1 DEF SendInv, SameChoice
<1> QED BY <1>2, <1>3

\* What the node takes in place of the transactions at its nonce is one of the live ones.
LEMMA QueueLive ==
    ASSUME SendInv, NEW tx \in SendTxs, tx \in Live
    PROVE  Queue(tx) \subseteq SendTxs /\ Queue(tx) \subseteq Live
BY DEF SendInv, SendTypeOK, Queue, Live

LEMMA BuildInv ==
    ASSUME SendInv, NEW p \in Payments, NEW fee \in Fees, NEW tool \in {"wallet", "other"}, NEW op \in BOOLEAN,
           Build(p, fee, NonceFor(tool), tool, op)
    PROVE  SendInv'
<1> DEFINE N == NonceFor(tool)
<1>1. N \in Nat
    BY NextNonceIsNat DEF NonceFor
<1>2. PICK c \in 1 .. MaxAttempts :
          /\ IF \E a \in trying : a.pay = p /\ a.tool = tool
             THEN [pay |-> p, tool |-> tool, cmd |-> c] \in trying /\ UNCHANGED <<trying, attempts>>
             ELSE /\ c = attempts + 1
                  /\ trying' = trying \cup {[pay |-> p, tool |-> tool, cmd |-> c]}
                  /\ attempts' = c
          /\ sending' = [step |-> "post", tool |-> tool, tx |-> [nonce |-> N, pay |-> p, fee |-> fee, op |-> op, cmd |-> c]]
    BY DEF Build
<1>3. UNCHANGED <<confirmed, queued, nextNonce, halfSigned>> /\ sending.step = "idle"
    BY DEF Build
<1> DEFINE tx == [nonce |-> N, pay |-> p, fee |-> fee, op |-> op, cmd |-> c]
           new == [pay |-> p, tool |-> tool, cmd |-> c]
<1>4. c \in Nat /\ attempts \in Nat
    BY DEF SendInv, SendTypeOK
<1>5. tx \in SendTxs /\ new \in Tries /\ tx.nonce = N /\ tx.cmd = c /\ new.tool = tool /\ new.cmd = c
    BY <1>1, <1>4 DEF SendTxs, Tries
<1>6. sending' = [step |-> "post", tool |-> tool, tx |-> tx]
    BY <1>2
<1>7. Live' \subseteq Live \cup {tx}
    BY <1>3, <1>6 DEF Live
<1>8. \A k : NonceFor(k)' = NonceFor(k)
    BY <1>3 DEF NonceFor, NextNonce, ProvenNonce
<1>9. \/ new \in trying /\ UNCHANGED <<trying, attempts>>
      \/ c = attempts + 1 /\ trying' = trying \cup {new} /\ attempts' = c
    BY <1>2
<1> HIDE DEF tx, new, N
<1>10. SendTypeOK'
    BY <1>3, <1>4, <1>5, <1>6, <1>9 DEF SendInv, SendTypeOK
<1>11. CASE new \in trying /\ UNCHANGED <<trying, attempts>>
    <2>1. \A t \in Live : t.cmd = c => t.nonce = N
        BY <1>5, <1>11 DEF SendInv, SameChoice, N
    <2>2. OneNonce'
        BY <1>5, <1>7, <2>1 DEF SendInv, OneNonce
    <2>3. Numbered'
        BY <1>5, <1>7, <1>11 DEF SendInv, Numbered
    <2>4. \A a \in trying : a.cmd = c => a = new
        BY <1>5, <1>11 DEF SendInv, Numbered
    <2>5. SameChoice'
        BY <1>5, <1>7, <1>8, <1>11, <2>4 DEF SendInv, SameChoice, N
    <2> QED BY <1>3, <1>10, <2>2, <2>3, <2>5 DEF SendInv, NonceOrder
<1>12. CASE c = attempts + 1 /\ trying' = trying \cup {new} /\ attempts' = c
    <2>1. (\A t \in Live : t.cmd # c) /\ \A a \in trying : a.cmd # c
        BY <1>4, <1>12, NumbersAreNat DEF SendInv, Numbered
    <2>2. OneNonce'
        BY <1>5, <1>7, <2>1 DEF SendInv, OneNonce
    <2>3. Numbered'
        BY <1>4, <1>5, <1>7, <1>12, <2>1, NumbersAreNat DEF SendInv, Numbered
    <2>4. SameChoice'
        BY <1>5, <1>7, <1>8, <1>12, <2>1 DEF SendInv, SameChoice, N
    <2> QED BY <1>3, <1>10, <2>2, <2>3, <2>4 DEF SendInv, NonceOrder
<1> QED BY <1>9, <1>11, <1>12

LEMMA ReplaceInv ==
    ASSUME SendInv, NEW tool \in {"bump", "cancel"}, NEW old \in queued, NEW fee \in Fees,
           FindReplaceable(tool, old, fee)
    PROVE  SendInv'
<1> DEFINE tx == IF tool = "bump" THEN BuildBump(old, fee) ELSE BuildCancel(old, fee)
<1>1. old \in SendTxs /\ old \in Live
    BY DEF SendInv, SendTypeOK, Live
<1>2. tx \in SendTxs /\ tx.nonce = old.nonce /\ tx.cmd = old.cmd
    BY <1>1 DEF SendTxs, BuildBump, BuildCancel
<1>3. sending' = [step |-> "post", tool |-> "wallet", tx |-> tx]
    BY DEF FindReplaceable
<1>4. UNCHANGED <<confirmed, queued, nextNonce, halfSigned, trying, attempts>>
    BY DEF FindReplaceable
<1> HIDE DEF tx
<1>5. Live' \subseteq Live \cup {tx}
    BY <1>3, <1>4 DEF Live
<1>6. SendTypeOK'
    BY <1>2, <1>3, <1>4 DEF SendInv, SendTypeOK
<1>7. OneNonce' /\ Numbered'
    BY <1>1, <1>2, <1>4, <1>5 DEF SendInv, OneNonce, Numbered
<1>8. SameChoice'
    <2>1. \A k : NonceFor(k)' = NonceFor(k)
        BY <1>4 DEF NonceFor, NextNonce, ProvenNonce
    <2> QED BY <1>1, <1>2, <1>4, <1>5, <2>1 DEF SendInv, SameChoice
<1> QED BY <1>4, <1>6, <1>7, <1>8 DEF SendInv, NonceOrder

LEMMA SponsorRequestInv ==
    ASSUME SendInv, NEW p \in Payments, NEW fee \in Fees, NEW nonce \in 0 .. MaxAttempts, SponsorRequest(p, fee, nonce)
    PROVE  SendInv'
<1> DEFINE tx == [nonce |-> nonce, pay |-> p, fee |-> fee, op |-> FALSE, cmd |-> attempts + 1]
<1>1. attempts \in Nat /\ nonce \in Nat
    BY DEF SendInv, SendTypeOK
<1>2. tx \in SendTxs /\ tx.cmd = attempts + 1
    BY <1>1 DEF SendTxs
<1>3. /\ halfSigned' = halfSigned \cup {tx} /\ attempts' = attempts + 1
      /\ UNCHANGED <<confirmed, queued, nextNonce, sending, trying>>
    BY DEF SponsorRequest
<1> HIDE DEF tx
<1>4. Live' \subseteq Live \cup {tx}
    BY <1>3 DEF Live
<1>5. (\A t \in Live : t.cmd \in Nat) /\ \A a \in trying : a.cmd \in Nat
    BY NumbersAreNat
<1>6. (\A t \in Live : t.cmd # attempts + 1) /\ \A a \in trying : a.cmd # attempts + 1
    BY <1>1, <1>5 DEF SendInv, Numbered
<1>7. SendTypeOK'
    BY <1>1, <1>2, <1>3 DEF SendInv, SendTypeOK
<1>8. OneNonce'
    BY <1>2, <1>4, <1>6 DEF SendInv, OneNonce
<1>9. Numbered'
    BY <1>1, <1>2, <1>3, <1>4, <1>5 DEF SendInv, Numbered
<1>10. SameChoice'
    <2>1. \A k : NonceFor(k)' = NonceFor(k)
        BY <1>3 DEF NonceFor, NextNonce, ProvenNonce
    <2> QED BY <1>2, <1>3, <1>4, <1>6, <2>1 DEF SendInv, SameChoice
<1> QED BY <1>3, <1>7, <1>8, <1>9, <1>10 DEF SendInv, NonceOrder

LEMMA SendNextInv == SendInv /\ [SendNext]_sendVars => SendInv'
<1> SUFFICES ASSUME SendInv, [SendNext]_sendVars PROVE SendInv'
    OBVIOUS
<1>0. Len(confirmed) \in Nat /\ nextNonce \in Nat /\ NoTx \in SendTxs
    BY DEF SendInv, SendTypeOK, NoTx, SendTxs
<1>1. ASSUME NEW p \in Payments, NEW fee \in Fees,
             \/ Send(p, fee) \/ SendMany(p, fee) \/ Issue(p, fee) \/ AssetOp(p, fee)
             \/ AnchorAdd(p, fee) \/ NameCommand(p, fee)
      PROVE  SendInv'
    <2>1. ASSUME NEW op \in BOOLEAN, Build(p, fee, NextNonce, "wallet", op) PROVE SendInv'
        <3>1. Build(p, fee, NonceFor("wallet"), "wallet", op)
            BY <2>1 DEF NonceFor
        <3> QED BY <3>1, BuildInv
    <2>2. ASSUME NEW op \in BOOLEAN, Build(p, fee, ProvenNonce, "other", op) PROVE SendInv'
        <3>1. Build(p, fee, NonceFor("other"), "other", op)
            BY <2>2 DEF NonceFor
        <3> QED BY <3>1, BuildInv
    <2> QED BY <1>1, <2>1, <2>2 DEF Send, SendMany, Issue, AssetOp, AnchorAdd, NameCommand
<1>2. CASE Post
    <2>1. sending.tx \in SendTxs /\ sending.tx \in Live
        BY <1>2 DEF SendInv, SendTypeOK, Post, Live
    <2>2. UNCHANGED <<confirmed, nextNonce, halfSigned, trying, attempts>> /\ queued' \in {queued, Queue(sending.tx)}
        BY <1>2 DEF Post
    <2>3. sending' \in {NotSending, [sending EXCEPT !.step = "record"]}
        BY <1>2 DEF Post
    <2>4. /\ sending' \in [step : {"idle", "post", "record"}, tool : {"none", "wallet", "other"}, tx : SendTxs]
          /\ sending'.step = "idle" \/ sending'.tx = sending.tx
        BY <1>0, <2>1, <2>3 DEF NotSending, SendInv, SendTypeOK
    <2>5. queued' \subseteq SendTxs /\ queued' \subseteq Live
        BY <2>1, <2>2, QueueLive DEF SendInv, SendTypeOK, Live
    <2>6. Live' \subseteq Live
        BY <2>1, <2>2, <2>4, <2>5 DEF Live
    <2>7. OneNonce' /\ Numbered' /\ SameChoice'
        BY <2>2, <2>6, LiveShrinks
    <2> QED BY <2>2, <2>4, <2>5, <2>7 DEF SendInv, SendTypeOK, NonceOrder
<1>3. CASE RecordSent \/ SendStops
    <2>1. /\ sending' = NotSending /\ UNCHANGED <<confirmed, queued, halfSigned, attempts>>
          /\ trying' = {} \/ (trying' = trying /\ UNCHANGED <<confirmed, nextNonce>>)
        BY <1>3 DEF RecordSent, SendStops
    <2>2. nextNonce' \in Nat
        BY <1>3 DEF RecordSent, SendStops, SendInv, SendTypeOK, SendTxs
    <2>3. Live' \subseteq Live
        BY <2>1 DEF Live, NotSending
    <2>4. OneNonce' /\ Numbered' /\ SameChoice'
        BY <2>1, <2>3, LiveShrinks
    <2> QED BY <1>0, <2>1, <2>2, <2>4 DEF SendInv, SendTypeOK, NonceOrder, NotSending
<1>4. CASE SponsorPay
    <2>1. PICK tx \in halfSigned : queued' = Queue(tx)
        BY <1>4 DEF SponsorPay
    <2>2. UNCHANGED <<confirmed, nextNonce, sending, halfSigned, trying, attempts>>
        BY <1>4 DEF SponsorPay
    <2>3. tx \in SendTxs /\ tx \in Live
        BY DEF SendInv, SendTypeOK, Live
    <2>4. queued' \subseteq SendTxs /\ queued' \subseteq Live
        BY <2>1, <2>3, QueueLive
    <2>5. Live' \subseteq Live
        BY <2>2, <2>4 DEF Live
    <2>6. OneNonce' /\ Numbered' /\ SameChoice'
        BY <2>2, <2>5, LiveShrinks
    <2> QED BY <2>2, <2>4, <2>6 DEF SendInv, SendTypeOK, NonceOrder
<1>5. CASE SendMined
    <2>1. PICK t \in queued : /\ t.nonce = Len(confirmed)
                              /\ confirmed' = Append(confirmed, t) /\ queued' = queued \ {t}
        BY <1>5 DEF SendMined
    <2>2. UNCHANGED <<nextNonce, sending, halfSigned, attempts>> /\ trying' = {}
        BY <1>5 DEF SendMined
    <2>3. t \in SendTxs /\ t \in Live /\ confirmed \in Seq(SendTxs)
        BY DEF SendInv, SendTypeOK, Live
    <2>4. /\ confirmed' \in Seq(SendTxs) /\ DOMAIN confirmed' = 1 .. Len(confirmed) + 1
          /\ \A i \in DOMAIN confirmed' : confirmed'[i] = IF i \in DOMAIN confirmed THEN confirmed[i] ELSE t
          /\ \A i \in DOMAIN confirmed' : i \notin DOMAIN confirmed => i = Len(confirmed) + 1
        BY <2>1, <2>3
    <2>5. Live' \subseteq Live
        BY <2>1, <2>2, <2>3, <2>4 DEF Live
    <2>6. NonceOrder'
        BY <1>0, <2>1, <2>4 DEF SendInv, NonceOrder
    <2>7. OneNonce' /\ Numbered' /\ SameChoice'
        BY <2>2, <2>5, LiveShrinks
    <2> QED BY <2>1, <2>2, <2>3, <2>4, <2>6, <2>7 DEF SendInv, SendTypeOK
<1>6. CASE SendReorged
    <2> DEFINE last == confirmed[Len(confirmed)]
    <2>1. confirmed \in Seq(SendTxs) /\ confirmed # <<>>
        BY <1>6 DEF SendReorged, SendInv, SendTypeOK
    <2>2. /\ confirmed' = SubSeq(confirmed, 1, Len(confirmed) - 1)
          /\ queued' = queued \cup {last} /\ UNCHANGED <<nextNonce, sending, halfSigned, attempts>> /\ trying' = {}
        BY <1>6 DEF SendReorged
    <2>3. Len(confirmed) \in DOMAIN confirmed
        BY <2>1
    <2>4. last \in SendTxs /\ last \in Live
        BY <2>1, <2>3 DEF Live
    <2>5. /\ confirmed' \in Seq(SendTxs) /\ DOMAIN confirmed' \subseteq DOMAIN confirmed
          /\ \A i \in DOMAIN confirmed' : confirmed'[i] = confirmed[i]
        BY <2>1, <2>2
    <2>6. Live' \subseteq Live
        BY <2>2, <2>4, <2>5 DEF Live
    <2>7. OneNonce' /\ Numbered' /\ SameChoice'
        BY <2>2, <2>6, LiveShrinks
    <2> QED BY <2>2, <2>4, <2>5, <2>7 DEF SendInv, SendTypeOK, NonceOrder
<1>7. CASE SendDropped
    <2>1. queued' \subseteq queued /\ UNCHANGED <<confirmed, nextNonce, sending, halfSigned, trying, attempts>>
        BY <1>7 DEF SendDropped
    <2>2. Live' \subseteq Live
        BY <2>1 DEF Live
    <2>3. OneNonce' /\ Numbered' /\ SameChoice'
        BY <2>1, <2>2, LiveShrinks
    <2> QED BY <2>1, <2>3 DEF SendInv, SendTypeOK, NonceOrder
<1>8. CASE UNCHANGED sendVars
    BY <1>8 DEF sendVars, SendInv, SendTypeOK, NonceOrder, OneNonce, Numbered, SameChoice, NonceFor, NextNonce, ProvenNonce, Live
<1> QED BY <1>1, <1>2, <1>3, <1>4, <1>5, <1>6, <1>7, <1>8, ReplaceInv, SponsorRequestInv DEF SendNext

LEMMA SendInvPaysOnce == SendInv => PaysOnce
BY DEF SendInv, SendTypeOK, NonceOrder, OneNonce, PaysOnce, Live

\* No attempt to pay is on the chain twice, nor together with its cancellation: for any
\* payments, fees and tools, however the commands are cut off, run again and bumped,
\* half-signed files posted, transactions dropped and the chain reorganised
\* (spvwallet.go, bump.go, anchor.go, name.go, sponsor.go).
THEOREM SendPaysOnce == SendSpec => []PaysOnce
<1>1. SendInit => SendInv
    BY SendInitInv
<1>2. SendInv /\ [SendNext]_sendVars => SendInv'
    BY SendNextInv
<1>3. SendInv => PaysOnce
    BY SendInvPaysOnce
<1> QED BY <1>1, <1>2, <1>3, PTL DEF SendSpec
-----------------------------------------------------------------------------
(* Invoices.  As long as every save of the seed file replaced the file that  *)
(* was read, the file's counter is ahead of every address handed out, all of *)
(* its own seed, and an address at a till is on no invoice and at no other.  *)

SeedFiles == [seed : Nat, next : Nat]

IssueTypeOK ==
    /\ seedFile \in SeedFiles /\ seeds \in Nat
    /\ issuing \in [Tills -> [step : {"idle", "create", "loaded", "addressed"}, file : SeedFiles, addr : Nat \X Nat]]
    /\ \E S : invoices \in Seq(S)
    /\ \A i \in DOMAIN invoices : invoices[i].addr \in Nat \X Nat

\* The address has been counted by a seed file.
Counted(file, addr) == addr[1] = file.seed /\ addr[2] < file.next

\* The seed of a file that was read is one that was generated.
SeedsGenerated ==
    /\ seedFile.seed <= seeds /\ (seedFile.seed = 0 => seedFile = NoSeed)
    /\ \A t \in Tills : issuing[t].step = "loaded" => issuing[t].file.seed \in 1 .. seeds
    /\ \A t \in Tills : issuing[t].step = "addressed" => Derived(issuing[t].addr)

Addressed == {t \in Tills : issuing[t].step = "addressed"}

IssueInv ==
    /\ IssueTypeOK /\ SeedsGenerated
    /\ ~lostSave =>
         /\ \A i \in Derivations : Counted(seedFile, invoices[i].addr)
         /\ \A i, j \in Derivations : i # j => invoices[i].addr # invoices[j].addr
         /\ \A t \in Addressed : /\ Counted(seedFile, issuing[t].addr)
                                 /\ \A i \in DOMAIN invoices : invoices[i].addr # issuing[t].addr
                                 /\ \A u \in Addressed \ {t} : issuing[u].addr # issuing[t].addr

LEMMA IssueInitInv == InvoicesInit => IssueInv
<1> SUFFICES ASSUME InvoicesInit PROVE IssueInv
    OBVIOUS
<1>1. NoSeed \in SeedFiles /\ <<0, 0>> \in Nat \X Nat /\ NoSeed.seed = 0
    BY DEF NoSeed, SeedFiles
<1>2. invoices \in Seq({}) /\ DOMAIN invoices = {}
    BY DEF InvoicesInit
<1>3. IssueTypeOK
    BY <1>1, <1>2 DEF InvoicesInit, IssueTypeOK, NoCommand
<1>4. SeedsGenerated
    BY <1>1 DEF InvoicesInit, SeedsGenerated, NoCommand
<1>5. Addressed = {} /\ Derivations = {}
    BY <1>2 DEF InvoicesInit, Addressed, Derivations, NoCommand
<1> QED BY <1>3, <1>4, <1>5 DEF IssueInv

\* The save of a counter that is the one on file counts one address more.
LEMMA NextAddressInv ==
    ASSUME IssueInv, NEW t \in Tills, NextInvoiceAddress(t)
    PROVE  IssueInv'
<1> DEFINE read == issuing[t].file
           addr == <<read.seed, read.next>>
<1>1. /\ issuing[t].step = "loaded" /\ seedFile' = [read EXCEPT !.next = @ + 1]
      /\ lostSave' = (lostSave \/ seedFile # read)
      /\ issuing' = [issuing EXCEPT ![t] = [@ EXCEPT !.step = "addressed", !.addr = addr]]
      /\ seeds' = seeds /\ invoices' = invoices
    BY DEF NextInvoiceAddress, WriteInvoiceSeed
<1>2. read \in SeedFiles /\ read.seed \in Nat /\ read.next \in Nat /\ read.seed \in 1 .. seeds
    BY <1>1 DEF IssueInv, IssueTypeOK, SeedsGenerated, SeedFiles
<1>3. seedFile' \in SeedFiles /\ seedFile'.seed = read.seed /\ seedFile'.next = read.next + 1
    BY <1>1, <1>2 DEF SeedFiles
<1>4. addr \in Nat \X Nat /\ addr[1] = read.seed /\ addr[2] = read.next
    BY <1>2
<1> HIDE DEF addr
<1>5. /\ issuing'[t].step = "addressed" /\ issuing'[t].addr = addr /\ issuing'[t].file = read
      /\ \A u \in Tills \ {t} : issuing'[u] = issuing[u]
      /\ issuing' \in [Tills -> [step : {"idle", "create", "loaded", "addressed"}, file : SeedFiles, addr : Nat \X Nat]]
    BY <1>1, <1>4 DEF IssueInv, IssueTypeOK
<1>6. IssueTypeOK'
    BY <1>1, <1>3, <1>5 DEF IssueInv, IssueTypeOK
<1>7. SeedsGenerated'
    BY <1>1, <1>2, <1>3, <1>4, <1>5 DEF IssueInv, SeedsGenerated, Derived
<1>8. Addressed' = Addressed \cup {t} /\ t \notin Addressed /\ Derivations' = Derivations
    BY <1>1, <1>5 DEF Addressed, Derivations
<1>9. ASSUME ~lostSave'
      PROVE  /\ \A i \in Derivations' : Counted(seedFile', invoices'[i].addr)
             /\ \A i, j \in Derivations' : i # j => invoices'[i].addr # invoices'[j].addr
             /\ \A v \in Addressed' : /\ Counted(seedFile', issuing'[v].addr)
                                      /\ \A i \in DOMAIN invoices' : invoices'[i].addr # issuing'[v].addr
                                      /\ \A u \in Addressed' \ {v} : issuing'[u].addr # issuing'[v].addr
    <2>1. ~lostSave /\ seedFile = read
        BY <1>1, <1>9
    <2>2. \A a \in Nat \X Nat : Counted(seedFile, a) => Counted(seedFile', a) /\ a # addr
        BY <1>2, <1>3, <1>4, <2>1 DEF Counted
    <2>3. Counted(seedFile', addr)
        BY <1>2, <1>3, <1>4 DEF Counted
    <2>4. \A i \in DOMAIN invoices : invoices[i].addr # addr
        <3>1. \A i \in Derivations : invoices[i].addr # addr
            BY <2>1, <2>2 DEF IssueInv, IssueTypeOK, Derivations
        <3>2. \A i \in DOMAIN invoices \ Derivations : invoices[i].addr # addr
            BY <1>2, <1>4 DEF Derivations, Derived
        <3> QED BY <3>1, <3>2
    <2>5. \A i \in Derivations : Counted(seedFile', invoices[i].addr)
        BY <2>1, <2>2 DEF IssueInv, IssueTypeOK, Derivations
    <2>6. \A v \in Addressed : /\ v # t /\ issuing'[v].addr = issuing[v].addr
                               /\ Counted(seedFile', issuing[v].addr) /\ issuing[v].addr # addr
                               /\ \A i \in DOMAIN invoices : invoices[i].addr # issuing[v].addr
                               /\ \A u \in Addressed \ {v} : issuing[u].addr # issuing[v].addr
        BY <1>5, <1>8, <2>1, <2>2 DEF IssueInv, IssueTypeOK, Addressed
    <2>7. \A i, j \in Derivations : i # j => invoices[i].addr # invoices[j].addr
        BY <2>1 DEF IssueInv
    <2> QED BY <1>1, <1>5, <1>8, <2>3, <2>4, <2>5, <2>6, <2>7 DEF Counted
<1> QED BY <1>6, <1>7, <1>9 DEF IssueInv

\* A seed file created where there was none: no address has been handed out yet.
LEMMA CreateSeedInv ==
    ASSUME IssueInv, NEW t \in Tills, CreateInvoiceSeed(t)
    PROVE  IssueInv'
<1> DEFINE new == [seed |-> seeds + 1, next |-> 0]
<1>1. /\ issuing[t].step = "create" /\ seedFile' = new /\ lostSave' = (lostSave \/ seedFile # NoSeed)
      /\ issuing' = [issuing EXCEPT ![t] = [@ EXCEPT !.step = "loaded", !.file = new]]
      /\ seeds' = seeds + 1 /\ invoices' = invoices
    BY DEF CreateInvoiceSeed, WriteInvoiceSeed
<1>2. seeds \in Nat /\ new \in SeedFiles /\ new.seed = seeds + 1 /\ new.next = 0
    BY DEF IssueInv, IssueTypeOK, SeedFiles
<1> HIDE DEF new
<1>3. /\ issuing'[t].step = "loaded" /\ issuing'[t].file = new
      /\ \A u \in Tills \ {t} : issuing'[u] = issuing[u]
      /\ issuing' \in [Tills -> [step : {"idle", "create", "loaded", "addressed"}, file : SeedFiles, addr : Nat \X Nat]]
    BY <1>1, <1>2 DEF IssueInv, IssueTypeOK
<1>4. IssueTypeOK'
    BY <1>1, <1>2, <1>3 DEF IssueInv, IssueTypeOK
<1>5. SeedsGenerated'
    BY <1>1, <1>2, <1>3 DEF IssueInv, IssueTypeOK, SeedsGenerated
<1>6. Addressed' = Addressed /\ Derivations' = Derivations
    BY <1>1, <1>3 DEF Addressed, Derivations
<1>7. ASSUME ~lostSave' PROVE Addressed = {} /\ Derivations = {}
    <2>0. ~lostSave /\ seedFile = NoSeed
        BY <1>1, <1>7
    <2>1. ~lostSave /\ seedFile.next = 0
        BY <2>0 DEF NoSeed
    <2>2. \A a \in Nat \X Nat : ~Counted(seedFile, a)
        BY <2>1 DEF Counted
    <2> QED BY <2>1, <2>2 DEF IssueInv, IssueTypeOK, Addressed, Derivations
<1> QED BY <1>4, <1>5, <1>6, <1>7 DEF IssueInv

\* A till that forgets its command, or has only read the file, takes nothing away.
LEMMA TillInv ==
    ASSUME IssueInv, NEW t \in Tills, LoadInvoiceSeed(t) \/ InvoiceNewStops(t)
    PROVE  IssueInv'
<1>1. UNCHANGED <<seedFile, seeds, lostSave, invoices>>
    BY DEF LoadInvoiceSeed, InvoiceNewStops
<1>2. NoCommand \in [step : {"idle", "create", "loaded", "addressed"}, file : SeedFiles, addr : Nat \X Nat]
    BY DEF NoCommand, NoSeed, SeedFiles
<1>3. PICK c \in [step : {"idle", "create", "loaded", "addressed"}, file : SeedFiles, addr : Nat \X Nat] :
          /\ issuing' = [issuing EXCEPT ![t] = c] /\ c.step # "addressed"
          /\ c.step = "loaded" => c.file = seedFile /\ seedFile # NoSeed
    <2>1. CASE LoadInvoiceSeed(t)
        <3> DEFINE c == [step |-> IF seedFile = NoSeed THEN "create" ELSE "loaded", file |-> seedFile, addr |-> OwnAddress]
        <3>1. issuing' = [issuing EXCEPT ![t] = c]
            BY <2>1 DEF LoadInvoiceSeed
        <3>2. c \in [step : {"idle", "create", "loaded", "addressed"}, file : SeedFiles, addr : Nat \X Nat]
            BY DEF OwnAddress, IssueInv, IssueTypeOK
        <3>3. c.step # "addressed" /\ (c.step = "loaded" => c.file = seedFile /\ seedFile # NoSeed)
            OBVIOUS
        <3> QED BY <3>1, <3>2, <3>3
    <2>2. CASE InvoiceNewStops(t)
        BY <1>2, <2>2 DEF InvoiceNewStops, NoCommand
    <2> QED BY <2>1, <2>2
<1>4. issuing'[t] = c /\ \A u \in Tills \ {t} : issuing'[u] = issuing[u]
    BY <1>3 DEF IssueInv, IssueTypeOK
<1>5. IssueTypeOK'
    BY <1>1, <1>3 DEF IssueInv, IssueTypeOK
<1>6. seedFile # NoSeed => seedFile.seed \in 1 .. seeds
    BY DEF IssueInv, IssueTypeOK, SeedsGenerated, SeedFiles
<1>7. SeedsGenerated'
    BY <1>1, <1>3, <1>4, <1>6 DEF IssueInv, SeedsGenerated
<1>8. Derivations' = Derivations
    BY <1>1 DEF Derivations
<1>9. \A v \in Addressed' : v \in Addressed /\ issuing'[v] = issuing[v]
    BY <1>3, <1>4 DEF Addressed
<1> QED BY <1>1, <1>5, <1>7, <1>8, <1>9 DEF IssueInv

\* The invoice takes over the address of its till, or asks for one of no seed.
LEMMA InvoiceNewInv ==
    ASSUME IssueInv, NEW t \in Tills, InvoiceNew(t)
    PROVE  IssueInv'
<1>1. PICK S : invoices \in Seq(S)
    BY DEF IssueInv, IssueTypeOK
<1>2. PICK addr : /\ \/ issuing[t].step = "idle" /\ addr = OwnAddress
                     \/ issuing[t].step = "addressed" /\ addr = issuing[t].addr
                  /\ WriteInvoice(addr)
    BY DEF InvoiceNew
<1> DEFINE new == [addr |-> addr, from |-> Tip + 1, expires |-> IF ExpiresIn = 0 THEN 0 ELSE Tip + ExpiresIn]
<1>3. invoices' = Append(invoices, new) /\ new.addr = addr
    BY <1>2 DEF WriteInvoice
<1>4. UNCHANGED <<seedFile, seeds, lostSave>> /\ issuing' = [issuing EXCEPT ![t] = NoCommand]
    BY DEF InvoiceNew
<1> HIDE DEF new
<1>5. /\ invoices' \in Seq(S \cup {new}) /\ DOMAIN invoices' = 1 .. Len(invoices) + 1
      /\ \A i \in DOMAIN invoices' : invoices'[i] = IF i \in DOMAIN invoices THEN invoices[i] ELSE new
      /\ \A i \in DOMAIN invoices' : i \notin DOMAIN invoices => i = Len(invoices) + 1
    BY <1>1, <1>3
<1>6. addr \in Nat \X Nat /\ (issuing[t].step = "idle" => ~Derived(addr))
    BY <1>2 DEF OwnAddress, Derived, IssueInv, IssueTypeOK
<1>7. /\ issuing'[t].step = "idle" /\ \A u \in Tills \ {t} : issuing'[u] = issuing[u]
      /\ issuing' \in [Tills -> [step : {"idle", "create", "loaded", "addressed"}, file : SeedFiles, addr : Nat \X Nat]]
    BY <1>4 DEF IssueInv, IssueTypeOK, NoCommand, NoSeed, SeedFiles
<1>8. IssueTypeOK'
    BY <1>3, <1>4, <1>5, <1>6, <1>7 DEF IssueInv, IssueTypeOK
<1>9. SeedsGenerated'
    BY <1>4, <1>7 DEF IssueInv, SeedsGenerated
<1>10. Addressed' \subseteq Addressed \ {t}
    BY <1>7 DEF Addressed
<1>11. ASSUME ~lostSave'
       PROVE  /\ \A i \in Derivations' : Counted(seedFile', invoices'[i].addr)
              /\ \A i, j \in Derivations' : i # j => invoices'[i].addr # invoices'[j].addr
              /\ \A v \in Addressed' : /\ Counted(seedFile', issuing'[v].addr)
                                       /\ \A i \in DOMAIN invoices' : invoices'[i].addr # issuing'[v].addr
                                       /\ \A u \in Addressed' \ {v} : issuing'[u].addr # issuing'[v].addr
    <2>0. ~lostSave
        BY <1>4, <1>11
    <2>1. Derived(addr) => t \in Addressed /\ addr = issuing[t].addr
        BY <1>2, <1>6 DEF Addressed
    <2>2. \A i \in Derivations' : \/ i \in Derivations /\ invoices'[i] = invoices[i]
                                  \/ Derived(addr) /\ invoices'[i].addr = addr /\ i \notin DOMAIN invoices
        <3> SUFFICES ASSUME NEW i \in Derivations'
                     PROVE  \/ i \in Derivations /\ invoices'[i] = invoices[i]
                            \/ Derived(addr) /\ invoices'[i].addr = addr /\ i \notin DOMAIN invoices
            OBVIOUS
        <3>1. i \in DOMAIN invoices' /\ Derived(invoices'[i].addr)
            BY DEF Derivations
        <3> QED BY <1>3, <1>5, <3>1 DEF Derivations
    <2>3. \A i \in Derivations' : Counted(seedFile', invoices'[i].addr)
        BY <1>4, <2>0, <2>1, <2>2 DEF IssueInv
    <2>4. Derived(addr) => \A i \in DOMAIN invoices : invoices[i].addr # addr
        BY <2>0, <2>1 DEF IssueInv
    <2>5. \A i, j \in Derivations' : i # j => invoices'[i].addr # invoices'[j].addr
        <3> SUFFICES ASSUME NEW i \in Derivations', NEW j \in Derivations', i # j
                     PROVE  invoices'[i].addr # invoices'[j].addr
            OBVIOUS
        <3>1. i \in DOMAIN invoices \/ j \in DOMAIN invoices
            BY <1>5 DEF Derivations
        <3>2. CASE i \in Derivations /\ j \in Derivations
            BY <1>5, <2>0, <3>2 DEF IssueInv, Derivations
        <3> QED BY <2>2, <2>4, <3>1, <3>2 DEF Derivations
    <2>6. \A v \in Addressed' : v \in Addressed /\ v # t /\ issuing'[v] = issuing[v]
        BY <1>7, <1>10 DEF Addressed
    <2>7. \A v \in Addressed' : addr # issuing[v].addr
        <3>1. CASE Derived(addr)
            BY <2>0, <2>1, <2>6, <3>1 DEF IssueInv
        <3>2. CASE ~Derived(addr)
            BY <2>6, <3>2 DEF IssueInv, SeedsGenerated, Addressed
        <3> QED BY <3>1, <3>2
    <2>8. \A v \in Addressed', i \in DOMAIN invoices' : invoices'[i].addr # issuing'[v].addr
        BY <1>3, <1>5, <2>0, <2>6, <2>7 DEF IssueInv
    <2> QED BY <1>4, <2>0, <2>3, <2>5, <2>6, <2>8 DEF IssueInv
<1> QED BY <1>8, <1>9, <1>11 DEF IssueInv

LEMMA IssueNextInv == IssueInv /\ [InvoicesNext]_invoiceVars => IssueInv'
<1> SUFFICES ASSUME IssueInv, [InvoicesNext]_invoiceVars PROVE IssueInv'
    OBVIOUS
<1>1. ASSUME UNCHANGED <<issueVars, invoices>> PROVE IssueInv'
    BY <1>1 DEF issueVars, IssueInv, IssueTypeOK, SeedsGenerated, Addressed, Derivations
<1> QED BY <1>1, NextAddressInv, CreateSeedInv, TillInv, InvoiceNewInv
        DEF InvoicesNext, invoiceVars, InvoicePay, PayMined, PayReorged,
            ServeInvoice, ServeSave, ServeRestarts, ReceiverDown, ReceiverBack

\* No two invoices ask for the same derived address, and every one can be spent from the
\* seed on file, for any number of tills, of invoices and of interrupted attempts to
\* issue one, until a seed file is saved over one that was not read
\* (invoiceaddr.go, nextInvoiceAddress).
THEOREM InvoicesAddressesFresh == InvoicesSpec => []AddressesFresh
<1>1. InvoicesInit => IssueInv
    BY IssueInitInv
<1>2. IssueInv /\ [InvoicesNext]_invoiceVars => IssueInv'
    BY IssueNextInv
<1>3. IssueInv => AddressesFresh
    BY DEF IssueInv, AddressesFresh, Counted
<1> QED BY <1>1, <1>2, <1>3, PTL DEF InvoicesSpec
=============================================================================
