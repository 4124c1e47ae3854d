------------------------------- MODULE Invoices -------------------------------
(***************************************************************************)
(* Invoices: cmd/dnas/invoice.go (new, pay, the matching of payments),     *)
(* invoiceaddr.go (one fresh address an invoice) and invoiceserve.go (the  *)
(* daemon that tells a webhook).  A payment is one unit.  The scan of one  *)
(* invoice is one step: its parts are checked against one chain of headers *)
(* (LightClient).                                                          *)
(***************************************************************************)
EXTENDS Integers, Sequences, FiniteSets

CONSTANTS
    Tills,            \* where `invoice new` is run, at the same time and on one seed file
    Payers,           \* payments that may be made
    PaysTo,           \* [Payers -> addresses]: the address each one pays
    Amount,           \* what every invoice asks for
    Confirmations,    \* -confirmations (3 by default)
    ExpiresIn,        \* -expire-in, 0 for none
    MaxInvoices,      \* bound: invoices issued
    MaxInvHeight,     \* bound: height of the chain
    MaxInvReorgs,     \* bound: reorganisations
    MaxInvFaults      \* bound: crashes and outages of the receiver

VARIABLES
    seedFile,     \* the seed on disk: which mnemonic, and its NextIdx
    seeds,        \* mnemonics generated
    issuing,      \* the command at each till
    lostSave,     \* (history) a seed file was written over one not read before
    invoices,     \* the invoice files, in order of their references
    payBlocks,    \* the payments in each block
    payPool,      \* payments waiting
    records,      \* the daemon's memory: one record an invoice
    stateFile,    \* and its file
    serveAt,      \* where the pass is: 0 between passes
    dirty,        \* the pass changed something
    receiverUp,   \* the webhook answers 2xx
    told,         \* what it has acknowledged: <<invoice, status>>
    invReorgs, invFaults

issueVars == <<seedFile, seeds, issuing, lostSave>>
serveVars == <<records, stateFile, serveAt, dirty, told>>
invoiceVars == <<issueVars, invoices, payBlocks, payPool, serveVars, receiverUp, invReorgs, invFaults>>

NoSeed == [seed |-> 0, next |-> 0]
NoCommand == [step |-> "idle", file |-> NoSeed, addr |-> <<0, 0>>]

\* An address is a mnemonic and an index.  The one of -address or -key is of no seed.
OwnAddress == <<0, 0>>
Derived(addr) == addr[1] # 0

NoRecord == [status |-> "none", notified |-> FALSE]
NoRecords == [i \in 1 .. MaxInvoices |-> NoRecord]

Tip == Len(payBlocks)

InvoicesInit ==
    /\ seedFile = NoSeed /\ seeds = 0 /\ lostSave = FALSE
    /\ issuing = [t \in Tills |-> NoCommand] /\ invoices = <<>>
    /\ payBlocks = <<>> /\ payPool = {}
    /\ records = NoRecords /\ stateFile = NoRecords
    /\ serveAt = 0 /\ dirty = FALSE
    /\ receiverUp = TRUE /\ told = {}
    /\ invReorgs = 0 /\ invFaults = 0
-----------------------------------------------------------------------------
(* Issuing and paying *)

\* writeInvoiceSeed: the whole file, by rename, whatever is there by now.
WriteInvoiceSeed(read, new) ==
    /\ seedFile' = new
    /\ lostSave' = (lostSave \/ seedFile # read)

\* invoice new -seed: the file is read.
LoadInvoiceSeed(t) ==
    /\ issuing[t].step = "idle" /\ Len(invoices) < MaxInvoices
    /\ issuing' = [issuing EXCEPT ![t] = [step |-> IF seedFile = NoSeed THEN "create" ELSE "loaded",
                                          file |-> seedFile, addr |-> OwnAddress]]
    /\ UNCHANGED <<seedFile, seeds, lostSave, invoices, payBlocks, payPool, serveVars, receiverUp, invReorgs, invFaults>>

\* One that was not there is created, with a new mnemonic.
CreateInvoiceSeed(t) ==
    /\ issuing[t].step = "create"
    /\ LET new == [seed |-> seeds + 1, next |-> 0]
       IN  /\ WriteInvoiceSeed(NoSeed, new)
           /\ issuing' = [issuing EXCEPT ![t] = [@ EXCEPT !.step = "loaded", !.file = new]]
    /\ seeds' = seeds + 1
    /\ UNCHANGED <<invoices, payBlocks, payPool, serveVars, receiverUp, invReorgs, invFaults>>

\* Mutant of NextInvoiceAddress: the counter is not saved.
NextInvoiceAddressUnsaved(t) ==
    /\ issuing[t].step = "loaded"
    /\ LET read == issuing[t].file
       IN  /\ WriteInvoiceSeed(read, read)
           /\ issuing' = [issuing EXCEPT ![t] = [@ EXCEPT !.step = "addressed", !.addr = <<read.seed, read.next>>]]
    /\ UNCHANGED <<seeds, invoices, payBlocks, payPool, serveVars, receiverUp, invReorgs, invFaults>>

\* The counter that was read is advanced and saved before the address is handed out.
NextInvoiceAddress(t) ==
    /\ issuing[t].step = "loaded"
    /\ LET read == issuing[t].file
       IN  /\ WriteInvoiceSeed(read, [read EXCEPT !.next = @ + 1])
           /\ issuing' = [issuing EXCEPT ![t] = [@ EXCEPT !.step = "addressed", !.addr = <<read.seed, read.next>>]]
    /\ UNCHANGED <<seeds, invoices, payBlocks, payPool, serveVars, receiverUp, invReorgs, invFaults>>

\* writeInvoice: payable from the next block on.
WriteInvoice(addr) ==
    invoices' = Append(invoices, [addr |-> addr, from |-> Tip + 1, expires |-> IF ExpiresIn = 0 THEN 0 ELSE Tip + ExpiresIn])

\* invoice new with -address or -key asks for the address it is given; with -seed for
\* the one derived.
InvoiceNew(t) ==
    /\ Len(invoices) < MaxInvoices
    /\ \/ issuing[t].step = "idle" /\ WriteInvoice(OwnAddress)
       \/ issuing[t].step = "addressed" /\ WriteInvoice(issuing[t].addr)
    /\ issuing' = [issuing EXCEPT ![t] = NoCommand]
    /\ UNCHANGED <<seedFile, seeds, lostSave, payBlocks, payPool, serveVars, receiverUp, invReorgs, invFaults>>

\* The command stops before the invoice is written: the index, if taken, is burnt.
InvoiceNewStops(t) ==
    /\ issuing[t].step # "idle" /\ invFaults < MaxInvFaults
    /\ invFaults' = invFaults + 1
    /\ issuing' = [issuing EXCEPT ![t] = NoCommand]
    /\ UNCHANGED <<seedFile, seeds, lostSave, invoices, payBlocks, payPool, serveVars, receiverUp, invReorgs>>

\* invoicePay: refused once the tip is past the expiry.
InvoicePay(p) ==
    /\ p \notin payPool /\ \A h \in DOMAIN payBlocks : p \notin payBlocks[h]
    /\ \E i \in DOMAIN invoices :
          /\ invoices[i].addr = PaysTo[p]
          /\ invoices[i].expires = 0 \/ Tip <= invoices[i].expires
    /\ payPool' = payPool \cup {p}
    /\ UNCHANGED <<issueVars, invoices, payBlocks, serveVars, receiverUp, invReorgs, invFaults>>

PayMined(S) ==
    /\ Tip < MaxInvHeight /\ S \subseteq payPool
    /\ payBlocks' = Append(payBlocks, S) /\ payPool' = payPool \ S
    /\ UNCHANGED <<issueVars, invoices, serveVars, receiverUp, invReorgs, invFaults>>

\* The last two blocks give way to three with nothing for us in them.
PayReorged ==
    /\ invReorgs < MaxInvReorgs /\ Tip >= 2 /\ Tip < MaxInvHeight
    /\ invReorgs' = invReorgs + 1
    /\ payBlocks' = SubSeq(payBlocks, 1, Tip - 2) \o <<{}, {}, {}>>
    /\ payPool' = payPool \cup payBlocks[Tip] \cup payBlocks[Tip - 1]
    /\ UNCHANGED <<issueVars, invoices, serveVars, receiverUp, invFaults>>
-----------------------------------------------------------------------------
(* matchInvoice *)

\* Blocks that count for an invoice, confirmed at least conf times.
Counting(inv, conf) ==
    {h \in inv.from .. Tip : (inv.expires = 0 \/ h <= inv.expires) /\ Tip - h + 1 >= conf}

PaidIn(inv, heights) == Cardinality({p \in Payers : PaysTo[p] = inv.addr /\ \E h \in heights : p \in payBlocks[h]})

Received(inv) == PaidIn(inv, Counting(inv, 1))

Settled(inv) == PaidIn(inv, Counting(inv, Confirmations))

StatusOf(inv) ==
    CASE Settled(inv) >= Amount -> "settled"
      [] Settled(inv) < Amount /\ inv.expires > 0 /\ Tip > inv.expires -> "expired"
      [] OTHER -> IF Received(inv) >= Amount THEN "pending" ELSE IF Received(inv) > 0 THEN "partial" ELSE "unpaid"

Terminal(status) == status \in {"settled", "expired"}
-----------------------------------------------------------------------------
(* The daemon *)

\* Whether the record still counts as notified under its new status.
Renotifiable(prev, status) == prev.notified /\ (status = prev.status \/ Terminal(status))

\* Mutant of Acknowledged: the attempt counts.
AcknowledgedAnyway(due) == due

\* postInvoiceEvent: only a 2xx counts.
Acknowledged(due) == due /\ receiverUp

\* One invoice of a pass.  A POST that is not acknowledged is tried again next pass.
ServeInvoice ==
    /\ serveAt < Len(invoices)
    /\ LET i        == serveAt + 1
           status   == StatusOf(invoices[i])
           prev     == records[i]
           notified == Renotifiable(prev, status)
           due      == Terminal(status) /\ ~notified
           post     == Acknowledged(due)
       IN  /\ records' = [records EXCEPT ![i] = [status |-> status, notified |-> notified \/ post]]
           /\ told' = IF due /\ receiverUp THEN told \cup {<<i, status>>} ELSE told
           /\ dirty' = (dirty \/ status # prev.status \/ post)
           /\ serveAt' = i
    /\ UNCHANGED <<issueVars, invoices, payBlocks, payPool, stateFile, receiverUp, invReorgs, invFaults>>

\* The end of a pass: saved if anything changed.
ServeSave ==
    /\ serveAt > 0 /\ serveAt = Len(invoices)
    /\ stateFile' = IF dirty THEN records ELSE stateFile
    /\ dirty' = FALSE /\ serveAt' = 0
    /\ UNCHANGED <<issueVars, invoices, payBlocks, payPool, records, receiverUp, told, invReorgs, invFaults>>

\* The daemon is killed and started again.
ServeRestarts ==
    /\ invFaults < MaxInvFaults
    /\ invFaults' = invFaults + 1
    /\ records' = stateFile /\ serveAt' = 0 /\ dirty' = FALSE
    /\ UNCHANGED <<issueVars, invoices, payBlocks, payPool, stateFile, receiverUp, told, invReorgs>>

ReceiverDown ==
    /\ receiverUp /\ invFaults < MaxInvFaults
    /\ receiverUp' = FALSE /\ invFaults' = invFaults + 1
    /\ UNCHANGED <<issueVars, invoices, payBlocks, payPool, serveVars, invReorgs>>

ReceiverBack ==
    /\ ~receiverUp /\ receiverUp' = TRUE
    /\ UNCHANGED <<issueVars, invoices, payBlocks, payPool, serveVars, invReorgs, invFaults>>

InvoicesNext ==
    \/ \E t \in Tills :
          \/ LoadInvoiceSeed(t) \/ CreateInvoiceSeed(t) \/ NextInvoiceAddress(t)
          \/ InvoiceNew(t) \/ InvoiceNewStops(t)
    \/ \E p \in Payers : InvoicePay(p)
    \/ \E S \in SUBSET payPool : PayMined(S)
    \/ PayReorged
    \/ ServeInvoice \/ ServeSave \/ ServeRestarts
    \/ ReceiverDown \/ ReceiverBack

\* The daemon's loop goes round, and a receiver that is down comes back.
InvoicesFairness ==
    WF_invoiceVars(ServeInvoice) /\ WF_invoiceVars(ServeSave) /\ WF_invoiceVars(ReceiverBack)

InvoicesSpec == InvoicesInit /\ [][InvoicesNext]_invoiceVars /\ InvoicesFairness
-----------------------------------------------------------------------------
Derivations == {i \in DOMAIN invoices : Derived(invoices[i].addr)}

\* One payment settles one invoice: no two invoices with a derived address share it,
\* even when issuing one was interrupted or others were issued at given addresses,
\* and what is paid can be spent from the seed on file.  Two commands at a time are the
\* exception, once one of them has saved the seed file over what the other saved.
AddressesFresh ==
    ~lostSave =>
        \A i \in Derivations :
            /\ invoices[i].addr[1] = seedFile.seed
            /\ \A j \in Derivations \ {i} : invoices[j].addr # invoices[i].addr

\* The same without the exception, as invoiceNew tells its user: every invoice gets an
\* address of its own.
AddressesNeverShared == \A i, j \in Derivations : i # j => invoices[i].addr # invoices[j].addr

\* An invoice that is settled for good is reported settled to the webhook, through
\* outages, restarts and reorganisations of the payment.
SettledIsTold ==
    \A i \in 1 .. MaxInvoices :
        <>[](i <= Len(invoices) /\ Settled(invoices[i]) >= Amount) => <>(<<i, "settled">> \in told)
=============================================================================
