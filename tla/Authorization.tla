---------------------------- MODULE Authorization ----------------------------
(***************************************************************************)
(* Who may spend an account: the four hard-coded shapes                    *)
(* (core/transaction.go), the script machine (core/script.go), the scripts *)
(* it comes with (core/scriptbuild.go) and the cache of verdict           *)
(* (core/valcache.go).                                                     *)
(*                                                                         *)
(* Bytes are abstracted to items: a number (0 is the empty item, the only  *)
(* false one), a key, a signature by a key over a message, a preimage, a   *)
(* hash.  An address is the script it is derived from: hashing is          *)
(* injective.  A transaction is its authorization fields, the address it   *)
(* spends and the message that its signatures must cover.                  *)
(***************************************************************************)
EXTENDS Integers, Sequences, FiniteSets, FiniteSetsExt, SequencesExt, Functions

CONSTANTS
    Parties,              \* key holders
    MaxScriptOps,         \* MaxScriptOps
    MaxScriptStack,       \* MaxScriptStack
    MaxScriptWitness,     \* MaxScriptWitness
    MaxScriptSigChecks,   \* MaxScriptSigChecks
    MaxSmallInt,          \* 2^31, where smallInt saturates
    MaxMultisigKeys,      \* wallet.MaxMultisigKeys
    Lock,                 \* the height of the time locks under test
    Workers,              \* goroutines that verify through the cache
    CacheMax              \* entries of the validation cache

Num(n)  == <<"num", n>>
Key(p)  == <<"key", p>>
Secret  == <<"preimage", "s">>
Hash(x) == <<"hash", x>>

Sig(p, m) == <<"sig", p, m>>

\* wallet.Verify: the key's owner signed this message.
Verify(k, s, m) == k[1] = "key" /\ s = Sig(k[2], m)

\* truthy: not all zeroes.
Truthy(x) == x # Num(0)

\* smallInt: an item of more than 8 bytes reads as zero, a number saturates.
SmallInt(x) == IF x[1] = "num" THEN Min({x[2], MaxSmallInt}) ELSE 0
-----------------------------------------------------------------------------
(* The script machine.  The stack's top is its first item. *)

Machine(args) == [stack |-> Reverse(args), arms |-> <<>>, ops |-> 0, sigs |-> 0, minHeight |-> 0, failed |-> FALSE]

Fail(v) == [v EXCEPT !.failed = TRUE]

Push(v, x) == IF Len(v.stack) >= MaxScriptStack THEN Fail(v) ELSE [v EXCEPT !.stack = <<x>> \o @]

Bool(b) == Num(IF b THEN 1 ELSE 0)

\* Drop the n items at the top.
Pop(v, n) == [v EXCEPT !.stack = SubSeq(@, n + 1, Len(@))]

\* The result of a check: pushed, or demanded by the VERIFY form.
Outcome(v, ok, verify) ==
    IF ~verify THEN Push(v, Bool(ok)) ELSE IF ok THEN v ELSE Fail(v)

CheckSig(v, m, verify) ==
    LET w == [v EXCEPT !.sigs = @ + 1]
    IN  IF w.sigs > MaxScriptSigChecks \/ Len(w.stack) < 2 THEN Fail(w)
        ELSE Outcome(Pop(w, 2), Verify(w.stack[1], w.stack[2], m), verify)

\* The keys matched by signatures, each signature by the first key not yet used.
Matched(keys, sigs, m) ==
    FoldLeft(LAMBDA used, s :
                LET free == {i \in DOMAIN keys \ used : Verify(keys[i], s, m)}
                IN  IF free = {} THEN used ELSE used \cup {Min(free)},
             {}, sigs)

\* A count, that many keys, a threshold, that many signatures.
CheckMultiSig(v, m, verify) ==
    LET st == v.stack
        n  == IF st = <<>> THEN 0 ELSE SmallInt(st[1])
        t  == IF n \notin 1 .. MaxScriptSigChecks \/ Len(st) < n + 2 THEN 0 ELSE SmallInt(st[n + 2])
        w  == [v EXCEPT !.sigs = @ + t * n]
    IN  IF t \notin 1 .. n \/ Len(st) < n + 2 + t \/ w.sigs > MaxScriptSigChecks THEN Fail(w)
        ELSE Outcome(Pop(w, n + 2 + t),
                     Cardinality(Matched(SubSeq(st, 2, n + 1), SubSeq(st, n + 3, n + 2 + t), m)) >= t,
                     verify)

\* The height is a requirement that is recorded, never a value that is pushed.
CheckHeight(v) ==
    IF v.stack = <<>> \/ v.stack[1][1] # "num" THEN Fail(v)
    ELSE [Pop(v, 1) EXCEPT !.minHeight = Max({@, SmallInt(v.stack[1])})]

Exec(v, op, m) ==
    LET st == v.stack
        need == CASE op[1] \in {"DUP", "DROP", "VERIFY", "SHA256"} -> 1
                  [] op[1] \in {"SWAP", "EQUAL", "EQUALVERIFY"} -> 2
                  [] OTHER -> 0
    IN  IF Len(st) < need THEN Fail(v)
        ELSE CASE op[1] = "PUSH"        -> Push(v, op[2])
               [] op[1] \in {"TRUE", "FALSE"} -> Push(v, Bool(op[1] = "TRUE"))
               [] op[1] = "DUP"         -> Push(v, st[1])
               [] op[1] = "DROP"        -> Pop(v, 1)
               [] op[1] = "SWAP"        -> [v EXCEPT !.stack = <<st[2], st[1]>> \o SubSeq(st, 3, Len(st))]
               [] op[1] = "EQUAL"       -> Push(Pop(v, 2), Bool(st[1] = st[2]))
               [] op[1] = "EQUALVERIFY" -> IF st[1] = st[2] THEN Pop(v, 2) ELSE Fail(v)
               [] op[1] = "VERIFY"      -> IF Truthy(st[1]) THEN Pop(v, 1) ELSE Fail(v)
               [] op[1] = "SHA256"      -> Push(Pop(v, 1), Hash(st[1]))
               [] op[1] = "CHECKSIG"    -> CheckSig(v, m, FALSE)
               [] op[1] = "CHECKSIGVERIFY" -> CheckSig(v, m, TRUE)
               [] op[1] = "CHECKMULTISIG"  -> CheckMultiSig(v, m, FALSE)
               [] op[1] = "CHECKMULTISIGVERIFY" -> CheckMultiSig(v, m, TRUE)
               [] op[1] = "CHECKHEIGHTVERIFY" -> CheckHeight(v)
               [] OTHER -> Fail(v)

Live(arms) == \A i \in DOMAIN arms : arms[i]

\* IF, ELSE and ENDIF are followed even where the code around them is skipped.
Branch(v, op) ==
    LET n == Len(v.arms)
    IN  CASE op[1] = "IF" ->
               IF ~Live(v.arms) THEN [v EXCEPT !.arms = Append(@, FALSE)]
               ELSE IF v.stack = <<>> THEN Fail(v)
               ELSE [Pop(v, 1) EXCEPT !.arms = Append(@, Truthy(v.stack[1]))]
          [] op[1] = "ELSE" ->
               IF n = 0 THEN Fail(v)
               ELSE IF Live(Front(v.arms)) THEN [v EXCEPT !.arms[n] = ~@] ELSE v
          [] op[1] = "ENDIF" ->
               IF n = 0 THEN Fail(v) ELSE [v EXCEPT !.arms = Front(@)]

RunOp(vm, op, m) ==
    LET v == [vm EXCEPT !.ops = @ + 1]
    IN  IF vm.failed THEN vm
        ELSE IF v.ops > MaxScriptOps THEN Fail(v)
        ELSE IF op[1] \in {"IF", "ELSE", "ENDIF"} THEN Branch(v, op)
        ELSE IF Live(v.arms) THEN Exec(v, op, m) ELSE v

Run(script, args, m) == FoldLeft(LAMBDA v, op : RunOp(v, op, m), Machine(args), script)

\* evalScript: every arm closed and exactly one item left, a true one.
EvalOk(script, args, m) ==
    LET v == Run(script, args, m)
    IN  /\ Len(args) <= MaxScriptWitness
        /\ ~v.failed /\ v.arms = <<>>
        /\ Len(v.stack) = 1 /\ Truthy(v.stack[1])
-----------------------------------------------------------------------------
(* The scripts that come with the language. *)

PushOp(x) == <<"PUSH", x>>

ScriptPayToPubKey(k) == << PushOp(k), <<"CHECKSIG">> >>

\* The keys are pushed in reverse.
ScriptMultisig(t, keys) ==
    <<PushOp(Num(t))>> \o [i \in DOMAIN keys |-> PushOp(Reverse(keys)[i])] \o << PushOp(Num(Len(keys))), <<"CHECKMULTISIG">> >>

ScriptTimeLock(k, h) == << PushOp(Num(h)), <<"CHECKHEIGHTVERIFY">>, PushOp(k), <<"CHECKSIG">> >>

ScriptHTLC(hash, recipient, sender, timeout) ==
    << <<"IF">>, <<"SHA256">>, PushOp(hash), <<"EQUALVERIFY">> >> \o ScriptPayToPubKey(recipient)
        \o << <<"ELSE">> >> \o ScriptTimeLock(sender, timeout) \o << <<"ENDIF">> >>

ScriptVault(hot, cold, unlock) ==
    << <<"IF">> >> \o ScriptPayToPubKey(cold) \o << <<"ELSE">> >> \o ScriptTimeLock(hot, unlock) \o << <<"ENDIF">> >>
-----------------------------------------------------------------------------
(* The hard-coded shapes.  A transaction without a field has None there. *)

None == <<"none">>

Bare == [from |-> None, pubKey |-> None, signature |-> None, signatures |-> <<>>, preimage |-> None,
         multisig |-> None, htlc |-> None, vault |-> None, script |-> None, args |-> <<>>,
         feePayer |-> None, feePayerKey |-> None, feePayerSig |-> None]

IsMultisig(tx) == tx.multisig # None
IsHTLC(tx)     == tx.htlc # None
IsVault(tx)    == tx.vault # None
IsScript(tx)   == tx.script # None

\* At most one script, and no field that its branch does not read.
CheckAuthShape(tx) ==
    /\ Cardinality({f \in {"multisig", "htlc", "vault", "script"} : tx[f] # None}) <= 1
    /\ CASE IsMultisig(tx) -> tx.pubKey = None /\ tx.signature = None /\ tx.preimage = None
         [] IsHTLC(tx)     -> tx.pubKey = None /\ tx.signatures = <<>>
         [] IsScript(tx)   -> tx.pubKey = None /\ tx.signature = None /\ tx.signatures = <<>> /\ tx.preimage = None
         [] IsVault(tx)    -> tx.pubKey = None /\ tx.signatures = <<>> /\ tx.preimage = None
         [] OTHER          -> tx.signatures = <<>> /\ tx.preimage = None

\* A sponsor's three fields come together, and the sponsor is not the sender.
CheckSponsorShape(tx) ==
    IF tx.feePayer = None THEN tx.feePayerKey = None /\ tx.feePayerSig = None
    ELSE tx.feePayerKey # None /\ tx.feePayerSig # None /\ tx.feePayer # tx.from

\* MultisigAddress: the members in any order, none twice.
MultisigAddress(t, keys) ==
    IF Len(keys) <= MaxMultisigKeys /\ t \in 1 .. Len(keys) /\ IsInjective(keys)
    THEN <<"multisig", t, Range(keys)>> ELSE None

\* Mutant of VerifyMultisig: signatures are counted, whoever made them.
VerifyMultisigCounts(tx, m) ==
    LET ms == tx.multisig[2]
    IN  /\ tx.from # None /\ tx.from = MultisigAddress(ms.threshold, ms.keys)
        /\ Len(tx.signatures) \in ms.threshold .. Len(ms.keys)
        /\ \A i \in DOMAIN tx.signatures : \E k \in Range(ms.keys) : Verify(k, tx.signatures[i], m)

\* Every signature matches a member that no other one matched, and they are enough.
VerifyMultisig(tx, m) ==
    LET ms == tx.multisig[2]
        used == Cardinality(Matched(ms.keys, tx.signatures, m))
    IN  /\ tx.from # None /\ tx.from = MultisigAddress(ms.threshold, ms.keys)
        /\ Len(tx.signatures) \in ms.threshold .. Len(ms.keys)
        /\ used = Len(tx.signatures)
        /\ used >= ms.threshold

\* With a preimage a claim, without one a refund.
VerifyHTLC(tx, m) ==
    LET s == tx.htlc[2]
    IN  /\ tx.from = tx.htlc
        /\ IF tx.preimage # None
           THEN Hash(tx.preimage) = s.hash /\ Verify(s.recipient, tx.signature, m)
           ELSE Verify(s.sender, tx.signature, m)

VerifyVault(tx, m) ==
    /\ tx.from = tx.vault
    /\ Verify(tx.vault[2].cold, tx.signature, m) \/ Verify(tx.vault[2].hot, tx.signature, m)

VerifyScript(tx, m) ==
    /\ tx.from = <<"script", tx.script>>
    /\ EvalOk(tx.script, tx.args, m)

VerifySender(tx, m) ==
    CASE IsMultisig(tx) -> VerifyMultisig(tx, m)
      [] IsHTLC(tx)     -> VerifyHTLC(tx, m)
      [] IsVault(tx)    -> VerifyVault(tx, m)
      [] IsScript(tx)   -> VerifyScript(tx, m)
      [] OTHER          -> tx.from = tx.pubKey /\ Verify(tx.pubKey, tx.signature, m)

VerifySponsor(tx, m) ==
    tx.feePayer # None => tx.feePayerKey = tx.feePayer /\ Verify(tx.feePayerKey, tx.feePayerSig, m)

VerifySignature(tx, m) == VerifySender(tx, m) /\ VerifySponsor(tx, m)
-----------------------------------------------------------------------------
(* Height rules, decided where a block is applied. *)

HTLCRefundNotReady(tx, h) == IsHTLC(tx) /\ tx.preimage = None /\ h < tx.htlc[2].timeout

\* Whoever the cold key did not sign for is the hot key.
VaultHotNotReady(tx, m, h) == IsVault(tx) /\ h < tx.vault[2].unlock /\ ~Verify(tx.vault[2].cold, tx.signature, m)

ScriptNotReady(tx, m, h) ==
    IsScript(tx) /\ EvalOk(tx.script, tx.args, m) /\ h < Run(tx.script, tx.args, m).minHeight

CheckTxAtHeight(tx, m, h) ==
    ~HTLCRefundNotReady(tx, h) /\ ~ScriptNotReady(tx, m, h) /\ ~VaultHotNotReady(tx, m, h)

Spends(tx, m, h) ==
    CheckAuthShape(tx) /\ CheckSponsorShape(tx) /\ VerifySignature(tx, m) /\ CheckTxAtHeight(tx, m, h)
-----------------------------------------------------------------------------
(* What a transaction costs to verify. *)

VerifyOps(tx) ==
    (CASE IsMultisig(tx) -> Max({1, Len(tx.signatures) * Len(tx.multisig[2].keys)})
       [] IsVault(tx)    -> 2
       [] IsScript(tx)   -> 2 * MaxScriptSigChecks
       [] OTHER          -> 1) + (IF tx.feePayer # None THEN 1 ELSE 0)

\* The verifications verifyMultisig makes: each signature is tried on the keys in
\* order that are not used yet, up to its own.
MultisigTries(tx, m) ==
    LET keys == tx.multisig[2].keys
        owner(i) == Min({k \in DOMAIN keys : Verify(keys[k], tx.signatures[i], m)})
        used(i) == {owner(j) : j \in 1 .. (i - 1)}
    IN  FoldLeft(+, 0, [i \in DOMAIN tx.signatures |-> Cardinality((1 .. owner(i)) \ used(i))])

\* The verifications an accepted spend really costs: its authorization, and once
\* more for the height rule of a vault below its unlock height or of a script.
Cost(tx, m, h) ==
    (CASE IsMultisig(tx) -> MultisigTries(tx, m)
       [] IsVault(tx)    -> (IF Verify(tx.vault[2].cold, tx.signature, m) THEN 1 ELSE 2) + (IF h < tx.vault[2].unlock THEN 1 ELSE 0)
       [] IsScript(tx)   -> 2 * Run(tx.script, tx.args, m).sigs
       [] OTHER          -> 1) + (IF tx.feePayer # None THEN 1 ELSE 0)
-----------------------------------------------------------------------------
(* The cache of verdict, filled by several goroutines at once. *)

VARIABLES
    authCase,   \* a shape, who signs, whether the secret is known, the height
    order,      \* ValidationCache.seen and .order: verified transactions, oldest first
    cworker,    \* per goroutine: the transaction it verifies and whether it was known
    verdict     \* what Verify answered last: the transaction and whether it is authorized

authVars == <<authCase, order, cworker, verdict>>

Msg == "m"

\* No shape is under test while the cache is.
CacheCase == [shape |-> <<"cache">>, held |-> {}, known |-> FALSE, h |-> 0]

\* The same payment signed by enough members, by too few, and by others.
CacheTxs ==
    LET ms == [threshold |-> 2, keys |-> SetToSeq({Key(p) : p \in Parties})]
    IN  {[Bare EXCEPT !.from = MultisigAddress(2, ms.keys), !.multisig = <<"multi", ms>>, !.signatures = <<Sig(p, Msg), Sig(q, Msg)>>] :
            p, q \in Parties}

\* Mutant of CacheKey: the signatures are left out of the identity.
CacheKeySigning(tx) == [tx EXCEPT !.signatures = <<>>]

\* Transaction.Hash commits to every field, the signatures included.
CacheKey(tx) == tx

\* Verify, first half: is this transaction known?
CacheLookup(w) ==
    /\ authCase = CacheCase /\ cworker[w] = <<>>
    /\ \E tx \in CacheTxs :
           cworker' = [cworker EXCEPT ![w] = <<tx, CacheKey(tx) \in Range(order)>>]
    /\ UNCHANGED <<authCase, order, verdict>>

\* mark: nothing when another goroutine was first, else the oldest makes room.
Mark(ord, k) ==
    IF k \in Range(ord) THEN ord
    ELSE Append(IF Len(ord) >= CacheMax THEN Tail(ord) ELSE ord, k)

\* Verify, second half: verify unless known, and remember a success.
CacheVerify(w) ==
    /\ cworker[w] # <<>>
    /\ LET tx == cworker[w][1]
           ok == cworker[w][2] \/ VerifySignature(tx, Msg)
       IN  /\ verdict' = <<tx, ok>>
           /\ order' = IF ok /\ ~cworker[w][2] THEN Mark(order, CacheKey(tx)) ELSE order
    /\ cworker' = [cworker EXCEPT ![w] = <<>>]
    /\ UNCHANGED authCase
-----------------------------------------------------------------------------
(* The shapes under test, and who is entitled to spend each. *)

A == CHOOSE p \in Parties : TRUE
B == CHOOSE p \in Parties \ {A} : TRUE
C == CHOOSE p \in Parties \ {A, B} : TRUE

Multi == {<<2, <<Key(A), Key(B)>> >>} \cup {<<t, <<Key(A), Key(B), Key(C)>> >> : t \in 1 .. 3}

\* The multisigs that the script machine has signature checks for.
Shapes ==
    {<<"pubkey">>, <<"sponsored">>, <<"htlc">>, <<"vault">>}
        \cup {<<"multisig", s[1], s[2]>> : s \in {x \in Multi : x[1] * Len(x[2]) <= MaxScriptSigChecks}}

Cases == [shape : Shapes, held : SUBSET Parties, known : BOOLEAN, h : {Lock - 1, Lock}]

\* A party that does not sign has signed something else before.
SigItems(c) == {Sig(p, IF p \in c.held THEN Msg ELSE "old") : p \in Parties}
Preimages(c) == IF c.known THEN {Secret} ELSE {Num(1)}
Items(c) == SigItems(c) \cup Preimages(c) \cup {Num(0), Num(1)}

HtlcScript  == [hash |-> Hash(Secret), recipient |-> Key(A), sender |-> Key(B), timeout |-> Lock]
VaultScript == [hot |-> Key(A), cold |-> Key(B), unlock |-> Lock]

\* Every transaction of the hard-coded shape that what is known can fill in.
HardTxs(c) ==
    LET s == c.shape
    IN  CASE s[1] = "pubkey" ->
               {[Bare EXCEPT !.from = Key(A), !.pubKey = Key(A), !.signature = x] : x \in SigItems(c)}
          [] s[1] = "sponsored" ->
               {[Bare EXCEPT !.from = Key(A), !.pubKey = Key(A), !.signature = x,
                             !.feePayer = Key(C), !.feePayerKey = Key(C), !.feePayerSig = y] : x, y \in SigItems(c)}
          [] s[1] = "multisig" ->
               {[Bare EXCEPT !.from = MultisigAddress(s[2], s[3]), !.multisig = <<"multi", [threshold |-> s[2], keys |-> s[3]]>>,
                             !.signatures = x] : x \in BoundedSeq(SigItems(c), 3)}
          [] s[1] = "htlc" ->
               {[Bare EXCEPT !.from = <<"htlc", HtlcScript>>, !.htlc = <<"htlc", HtlcScript>>, !.signature = x, !.preimage = y] :
                    x \in SigItems(c), y \in {None} \cup Preimages(c)}
          [] s[1] = "vault" ->
               {[Bare EXCEPT !.from = <<"vault", VaultScript>>, !.vault = <<"vault", VaultScript>>, !.signature = x] : x \in SigItems(c)}

\* The same account as a script.
ScriptOf(s) ==
    CASE s[1] \in {"pubkey", "sponsored"} -> ScriptPayToPubKey(Key(A))
      [] s[1] = "multisig" -> ScriptMultisig(s[2], s[3])
      [] s[1] = "htlc" -> ScriptHTLC(HtlcScript.hash, HtlcScript.recipient, HtlcScript.sender, Lock)
      [] s[1] = "vault" -> ScriptVault(VaultScript.hot, VaultScript.cold, Lock)

ScriptTxs(c) ==
    LET tx == [Bare EXCEPT !.from = <<"script", ScriptOf(c.shape)>>, !.script = ScriptOf(c.shape)]
        txs == {[tx EXCEPT !.args = x] : x \in BoundedSeq(Items(c), 3)}
    IN  IF c.shape[1] # "sponsored" THEN txs
        ELSE {[t EXCEPT !.feePayer = Key(C), !.feePayerKey = Key(C), !.feePayerSig = y] : t \in txs, y \in SigItems(c)}

Entitled(c) ==
    LET s == c.shape
    IN  CASE s[1] = "pubkey"    -> A \in c.held
          [] s[1] = "sponsored" -> {A, C} \subseteq c.held
          [] s[1] = "multisig"  -> Cardinality({p \in c.held : Key(p) \in Range(s[3])}) >= s[2]
          [] s[1] = "htlc"      -> (A \in c.held /\ c.known) \/ (B \in c.held /\ c.h >= Lock)
          [] s[1] = "vault"     -> B \in c.held \/ (A \in c.held /\ c.h >= Lock)

Spending(c, txs) == {tx \in txs : Spends(tx, Msg, c.h)}

AuthInit ==
    /\ authCase \in Cases \cup {CacheCase}
    /\ order = <<>>
    /\ cworker = [w \in Workers |-> <<>>]
    /\ verdict = <<>>

AuthNext == \E w \in Workers : CacheLookup(w) \/ CacheVerify(w)
-----------------------------------------------------------------------------
\* An account written as a script can be spent by exactly those who could spend
\* the hard-coded shape it replaces: those entitled to, at the heights they may,
\* with any witness; an accepted spend costs no more signature checks than the
\* block was charged for it; and no authorization field that an accepted spend
\* leaves empty can be filled in without the spend being refused.
ScriptsMatchShapes ==
    LET c == authCase
        hard == Spending(c, HardTxs(c))
        script == Spending(c, ScriptTxs(c))
    IN  c # CacheCase =>
        /\ (hard # {}) = Entitled(c)
        /\ (script # {}) = Entitled(c)
        /\ \A tx \in hard \cup script :
             /\ Cost(tx, Msg, c.h) <= VerifyOps(tx)
             /\ \A f \in {"pubKey", "signature", "preimage", "feePayerSig"} : tx[f] = None =>
                    \A x \in Items(c) : ~Spends([tx EXCEPT ![f] = x], Msg, c.h)

\* Whatever order goroutines look up, verify and mark in, and whatever was
\* evicted, Verify answers for each transaction what verifying it answers; the
\* cache holds no transaction twice and no more than its size.
VerdictsSound ==
    /\ verdict # <<>> => verdict[2] = VerifySignature(verdict[1], Msg)
    /\ Len(order) <= CacheMax /\ IsInjective(order)
=============================================================================
