------------------------------- MODULE Mining -------------------------------
(***************************************************************************)
(* Who builds blocks on the tip and how they learn that it moved: the      *)
(* mining loop and Generate (node/node.go), an external miner and its long *)
(* poll (cmd/dnas/miner.go, node/shares.go), woken by the generation       *)
(* counters tipGen and txGen and by the event bus (node/events.go).        *)
(*                                                                         *)
(* The tip is numbered by how often it moved; a candidate is the number of *)
(* the tip it was built on.  Adopting a block is several steps, the chain, *)
(* then the counter, then the event, and others run in between.            *)
(***************************************************************************)
EXTENDS Integers, FiniteSets, FiniteSetsExt

CONSTANTS
    Txs,                \* transactions that may reach the mempool
    Bad,                \* those of them that block validation refuses
    MaxBuildAttempts,   \* maxBuildAttempts
    MaxTips,            \* how often the tip moves
    MaxTxs,             \* how often a transaction arrives
    MaxCalls,           \* calls of Generate and SetMining, and lost answers
    Nodes               \* which workers a node has: a set of subsets of Workers

Loop == "mineLoop"
Gen  == "Generate"
Ext  == "dnas miner"
Net  == "network"
Workers == {Loop, Gen, Ext, Net}

VARIABLES
    tip,                \* the chain's tip
    confirmed,          \* transactions in the chain
    mempool,
    tipGen, txGen,      \* bumped when the tip, the mempool changed
    pc,                 \* [Workers -> program counter]
    cand,               \* [Workers -> tip of the candidate]
    picked,             \* [Workers -> transactions of the candidate]
    tries,              \* [Workers -> build attempts]
    mark,               \* the counters when the loop's sleep or search began
    lastTip,            \* the tip of the external miner's last template, -1 if none
    queued,             \* an event waits in the long poll's channel
    mining, quit,       \* the toggle; the node is stopping
    active,             \* the workers this node has
    calls

chain == <<tip, confirmed>>
gens  == <<tipGen, txGen>>
build == <<cand, picked, tries, mark>>
poll  == <<lastTip, queued>>
flags == <<mining, quit, active, calls>>
vars  == <<chain, mempool, gens, pc, build, poll, flags>>

Goto(w, l) == pc' = [pc EXCEPT ![w] = l]


\* The end of a round: what it built is dropped.
Return(w, l) ==
    /\ Goto(w, l)
    /\ cand' = [cand EXCEPT ![w] = 0]
    /\ picked' = [picked EXCEPT ![w] = {}]
    /\ tries' = [tries EXCEPT ![w] = 0]
    /\ mark' = IF w = Loop THEN <<0, 0>> ELSE mark
At(w, l)   == pc[w] = l

\* publish: only a subscriber has a channel to put the event in.
Publish == queued' = (queued \/ At(Ext, "wait") \/ At(Ext, "subscribed"))
-----------------------------------------------------------------------------
(* Building a candidate: assembleBlock reads the tip, NextStateRoot later. *)

AssembleBlock(w) ==
    /\ At(w, "assemble")
    /\ cand' = [cand EXCEPT ![w] = tip]
    /\ picked' = [picked EXCEPT ![w] = mempool \ confirmed]
    /\ Goto(w, "root")
    /\ UNCHANGED <<chain, mempool, gens, tries, mark, poll, flags>>

\* Where a built candidate goes: the loop idles over one without transactions.
Built(w) == IF w = Loop THEN (IF picked[w] = {} THEN "idle" ELSE "start") ELSE "hash"

\* Where a candidate without a state root goes: the loop backs off, Generate and
\* the template request fail.
Unbuilt(w) == CASE w = Loop -> "backoff" [] w = Gen -> "top" [] w = Ext -> "fetch"

BuildOk(w) ==
    /\ At(w, "root")
    /\ cand[w] = tip => picked[w] \cap Bad = {}
    /\ Goto(w, Built(w))
    /\ tries' = [tries EXCEPT ![w] = 0]
    /\ UNCHANGED <<chain, mempool, gens, cand, picked, mark, poll, flags>>

\* A refused transaction is dropped from the mempool and the block reassembled.  On
\* a tip that moved meanwhile any of them may be refused.
BuildDrop(w) ==
    /\ At(w, "root") /\ tries[w] + 1 < MaxBuildAttempts
    /\ \E t \in picked[w] :
        /\ cand[w] = tip => t \in Bad
        /\ mempool' = mempool \ {t}
    /\ tries' = [tries EXCEPT ![w] = @ + 1]
    /\ Goto(w, "assemble")
    /\ UNCHANGED <<chain, gens, cand, picked, mark, poll, flags>>

BuildFails(w) ==
    /\ At(w, "root")
    /\ cand[w] = tip => picked[w] \cap Bad # {} /\ tries[w] + 1 >= MaxBuildAttempts
    /\ Return(w, Unbuilt(w))
    /\ UNCHANGED <<chain, mempool, gens, poll, flags>>
-----------------------------------------------------------------------------
(* Adopting a block: AddBlock, then onTipChanged, then publishBlock. *)

AddBlock(w) ==
    /\ At(w, "commit") /\ cand[w] = tip
    /\ tip' = tip + 1
    /\ confirmed' = confirmed \cup picked[w]
    /\ Goto(w, "added")
    /\ UNCHANGED <<mempool, gens, build, poll, flags>>

OnTipChanged(w) ==
    /\ At(w, "added")
    /\ tipGen' = tipGen + 1
    /\ mempool' = mempool \ confirmed
    /\ Goto(w, "bumped")
    /\ UNCHANGED <<chain, txGen, build, poll, flags>>

PublishBlock(w) ==
    /\ At(w, "bumped")
    /\ Publish
    /\ Return(w, IF w = Ext THEN "fetch" ELSE "top")
    /\ UNCHANGED <<chain, mempool, gens, lastTip, flags>>
-----------------------------------------------------------------------------
(* Blocks and transactions of others. *)

\* A block of another node, or a reorg to one, arrives for the tip.
ReceiveBlock ==
    /\ At(Net, "top") /\ tip < MaxTips
    /\ cand' = [cand EXCEPT ![Net] = tip]
    /\ picked' = [picked EXCEPT ![Net] = {}]
    /\ Goto(Net, "commit")
    /\ UNCHANGED <<chain, mempool, gens, tries, mark, poll, flags>>

\* It lost the race for the tip.
ReceiveLate ==
    /\ At(Net, "commit") /\ cand[Net] # tip
    /\ Return(Net, "top")
    /\ UNCHANGED <<chain, mempool, gens, poll, flags>>

\* SubmitTx: into the mempool, then onNewTx and the event.
SubmitTx(t) ==
    /\ At(Net, "top") /\ txGen < MaxTxs /\ t \notin mempool \cup confirmed
    /\ mempool' = mempool \cup {t}
    /\ Goto(Net, "submitted")
    /\ UNCHANGED <<chain, gens, build, poll, flags>>

OnNewTx ==
    /\ At(Net, "submitted")
    /\ txGen' = txGen + 1
    /\ Publish
    /\ Goto(Net, "top")
    /\ UNCHANGED <<chain, mempool, tipGen, build, lastTip, flags>>
-----------------------------------------------------------------------------
(* The mining loop. *)

LoopTop ==
    /\ At(Loop, "top")
    /\ Goto(Loop, IF quit THEN "done" ELSE IF mining THEN "assemble" ELSE "top")
    /\ UNCHANGED <<chain, mempool, gens, build, poll, flags>>

\* sleepInterruptible, called for an idle wait or a back-off.
Sleep ==
    /\ pc[Loop] \in {"idle", "backoff"}
    /\ mark' = <<tipGen, txGen>>
    /\ Goto(Loop, IF At(Loop, "idle") THEN "idling" ELSE "backing off")
    /\ UNCHANGED <<chain, mempool, gens, cand, picked, tries, poll, flags>>

\* It returns early when a counter moved or the node stops.
Interrupted ==
    /\ pc[Loop] \in {"idling", "backing off"}
    /\ mark # <<tipGen, txGen>> \/ quit
    /\ Return(Loop, "top")
    /\ UNCHANGED <<chain, mempool, gens, poll, flags>>

SleptOut ==
    /\ \/ At(Loop, "idling") /\ Goto(Loop, "start") /\ UNCHANGED build
       \/ At(Loop, "backing off") /\ Return(Loop, "top")
    /\ UNCHANGED <<chain, mempool, gens, poll, flags>>

\* startGen (the first of mark) is read once the candidate is built.
StartSearch ==
    /\ At(Loop, "start")
    /\ mark' = <<tipGen, 0>>
    /\ Goto(Loop, "hash")
    /\ UNCHANGED <<chain, mempool, gens, cand, picked, tries, poll, flags>>

AbortSearch ==
    /\ At(Loop, "hash")
    /\ tipGen # mark[1] \/ quit
    /\ Return(Loop, "top")
    /\ UNCHANGED <<chain, mempool, gens, poll, flags>>

\* Mine finds a nonce; the last block the bound allows is never found.
Found(w) ==
    /\ At(w, "hash")
    /\ cand[w] < MaxTips
    /\ Goto(w, "commit")
    /\ UNCHANGED <<chain, mempool, gens, build, poll, flags>>

\* Mutant of CommitRefused: the loop keeps the refused block and searches on.
CommitRefusedRetries ==
    /\ At(Loop, "commit") /\ cand[Loop] # tip
    /\ Goto(Loop, "hash")
    /\ UNCHANGED build
    /\ UNCHANGED <<chain, mempool, gens, poll, flags>>

\* AddBlock refused our block; back off when the counter did not move.
CommitRefused ==
    /\ At(Loop, "commit") /\ cand[Loop] # tip
    /\ Return(Loop, IF tipGen = mark[1] THEN "backoff" ELSE "top")
    /\ UNCHANGED <<chain, mempool, gens, poll, flags>>

\* The toggle interrupts a search as a moved tip does.
SetMining(on) ==
    /\ calls < MaxCalls /\ mining # on
    /\ mining' = on
    /\ tipGen' = tipGen + 1
    /\ calls' = calls + 1
    /\ UNCHANGED <<chain, mempool, txGen, pc, build, poll, quit, active>>

Shutdown ==
    /\ ~quit
    /\ quit' = TRUE
    /\ UNCHANGED <<chain, mempool, gens, pc, build, poll, mining, active, calls>>

\* Generate builds at once, neither paused nor interrupted, and retries a lost race.
Generate ==
    /\ At(Gen, "top") /\ calls < MaxCalls
    /\ calls' = calls + 1
    /\ Goto(Gen, "assemble")
    /\ UNCHANGED <<chain, mempool, gens, build, poll, mining, quit, active>>

GenerateRetries ==
    /\ At(Gen, "commit") /\ cand[Gen] # tip
    /\ \E l \in {"assemble", "top"} : Return(Gen, l)
    /\ UNCHANGED <<chain, mempool, gens, poll, flags>>
-----------------------------------------------------------------------------
(* The external miner and the long poll. *)

\* fetchTemplate: the first request does not hang.
FetchTemplate ==
    /\ At(Ext, "fetch") /\ ~quit
    /\ Goto(Ext, IF lastTip = -1 THEN "assemble" ELSE "check")
    /\ UNCHANGED <<chain, mempool, gens, build, poll, flags>>

\* WaitForTip: look at the tip, subscribe, look again, wait.
PollCheck ==
    /\ At(Ext, "check")
    /\ Goto(Ext, IF tip # lastTip THEN "assemble" ELSE "subscribe")
    /\ UNCHANGED <<chain, mempool, gens, build, poll, flags>>

Subscribe ==
    /\ At(Ext, "subscribe")
    /\ queued' = FALSE
    /\ Goto(Ext, "subscribed")
    /\ UNCHANGED <<chain, mempool, gens, build, lastTip, flags>>

\* Mutant of PollRecheck: wait without looking at the tip again.
PollRecheckSkipped ==
    /\ At(Ext, "subscribed")
    /\ Goto(Ext, "wait")
    /\ UNCHANGED <<chain, mempool, gens, build, poll, flags>>

PollRecheck ==
    /\ At(Ext, "subscribed")
    /\ Goto(Ext, IF tip # lastTip THEN "assemble" ELSE "wait")
    /\ UNCHANGED <<chain, mempool, gens, build, poll, flags>>

PollEvent ==
    /\ At(Ext, "wait") /\ queued
    /\ queued' = FALSE
    /\ Goto(Ext, IF tip # lastTip THEN "assemble" ELSE "wait")
    /\ UNCHANGED <<chain, mempool, gens, build, lastTip, flags>>

PollDeadline ==
    /\ At(Ext, "wait")
    /\ Goto(Ext, IF quit THEN "fetch" ELSE "assemble")
    /\ UNCHANGED <<chain, mempool, gens, build, poll, flags>>

\* The template arrived: lastTip is its parent.
NoteTemplate ==
    /\ At(Ext, "hash") /\ lastTip # cand[Ext]
    /\ lastTip' = cand[Ext]
    /\ UNCHANGED <<chain, mempool, gens, pc, build, queued, flags>>

\* mineTemplate stops when the node's height has reached the template's.
Superseded ==
    /\ At(Ext, "hash") /\ lastTip = cand[Ext] /\ tip > cand[Ext]
    /\ Return(Ext, "fetch")
    /\ UNCHANGED <<chain, mempool, gens, poll, flags>>

\* submitWinner: refused because the tip moved, or the answer was lost on the way.
SubmitRefused ==
    /\ At(Ext, "commit")
    /\ cand[Ext] # tip \/ calls < MaxCalls
    /\ calls' = calls + (IF cand[Ext] = tip THEN 1 ELSE 0)
    /\ Return(Ext, "fetch")
    /\ UNCHANGED <<chain, mempool, gens, poll, mining, quit, active>>
-----------------------------------------------------------------------------
Init ==
    /\ tip = 0 /\ confirmed = {} /\ mempool = {}
    /\ tipGen = 0 /\ txGen = 0
    /\ active \in Nodes
    /\ pc = [w \in Workers |-> IF w \notin active THEN "none" ELSE IF w = Ext THEN "fetch" ELSE "top"]
    /\ cand = [w \in Workers |-> 0]
    /\ picked = [w \in Workers |-> {}]
    /\ tries = [w \in Workers |-> 0]
    /\ mark = <<0, 0>>
    /\ lastTip = -1 /\ queued = FALSE
    /\ mining = TRUE /\ quit = FALSE /\ calls = 0

Builder(w) == AssembleBlock(w) \/ BuildOk(w) \/ BuildDrop(w) \/ BuildFails(w)
Adopter(w) == AddBlock(w) \/ OnTipChanged(w) \/ PublishBlock(w)

LoopStep == LoopTop \/ Sleep \/ Interrupted \/ SleptOut \/ StartSearch \/ AbortSearch \/ CommitRefused
ExtStep  == \/ FetchTemplate \/ PollCheck \/ Subscribe \/ PollRecheck \/ PollEvent
            \/ NoteTemplate \/ Superseded \/ SubmitRefused
GenStep  == GenerateRetries
NetStep  == ReceiveLate \/ OnNewTx

Step(w) == \/ Adopter(w)
           \/ w # Net /\ Builder(w)
           \/ CASE w = Loop -> LoopStep [] w = Ext -> ExtStep [] w = Gen -> GenStep [] w = Net -> NetStep

Environment == \/ ReceiveBlock \/ Shutdown \/ Generate \/ PollDeadline
               \/ \E t \in Txs : SubmitTx(t)
               \/ \E on \in BOOLEAN : SetMining(on)

Next == \/ \E w \in Workers : Step(w)
        \/ \E w \in Workers \ {Net} : Found(w)
        \/ Environment

\* A worker that can take its next step.
Ready(w) ==
    CASE pc[w] \in {"none", "done"}   -> FALSE
      [] At(w, "top")                 -> w = Loop /\ (mining \/ quit)
      [] At(w, "hash") /\ w = Loop    -> tipGen # mark[1] \/ quit
      [] At(w, "hash") /\ w = Ext     -> lastTip = cand[w] => tip > cand[w]
      [] At(w, "hash") /\ w = Gen     -> FALSE
      [] At(w, "fetch")               -> ~quit
      [] At(w, "wait")                -> queued
      [] OTHER                        -> TRUE

(***************************************************************************)
(* Goroutines are scheduled and tickers fire: a worker that can step does  *)
(* (only its own steps change its variables).  Nothing is assumed of the   *)
(* luck of a search, nor that a long poll's deadline helps it.             *)
(***************************************************************************)
Fairness ==
    /\ \A w \in Workers \ {Ext} : []<>~Ready(w) \/ []<><<pc'[w] # pc[w]>>_pc
    /\ []<>~Ready(Ext) \/ []<><<TRUE>>_<<pc[Ext], lastTip>>

Spec == Init /\ [][Next]_vars /\ Fairness
-----------------------------------------------------------------------------
Current == At(Loop, "hash") /\ cand[Loop] = tip

(***************************************************************************)
(* A search can also start on a tip that has moved already, because        *)
(* startGen is read after the candidate was built: it is interrupted only  *)
(* by the next move.  If its nonce is found the refused block costs a      *)
(* back-off and no more: the loop is always working on the tip again.      *)
(***************************************************************************)
DeadSearch == At(Loop, "hash") /\ cand[Loop] # tip

MinerRecovers ==
    ([]<>~DeadSearch \/ []<><<Found(Loop)>>_vars)
        => []<>(Current \/ ~mining \/ quit \/ Loop \notin active)

(***************************************************************************)
(* The long poll misses no tip: a request waiting on a tip the chain has   *)
(* left is answered by an event, without its deadline (WaitForTip's second *)
(* look after subscribing).                                                *)
(***************************************************************************)
LongPollAnswers == (At(Ext, "wait") /\ tip # lastTip) ~> ~At(Ext, "wait")
=============================================================================
