----------------------------- MODULE PoolServer -----------------------------
(***************************************************************************)
(* The mining pool: stratum sessions and their jobs (node/stratum.go), the *)
(* share ledger (node/shares.go), the payout window and per-miner          *)
(* difficulty (node/pool.go), and both books across a restart              *)
(* (node/persist.go).                                                      *)
(*                                                                         *)
(* A session's handler and the job loop both send it jobs, each in two     *)
(* steps: the template is built, then recorded and notified.  A submitted  *)
(* share passes through the ledger and the window under separate locks;    *)
(* one that comes over POST /submitshare passes through the ledger only.   *)
(* A job is the tip it builds on and its share factor; a share's weight is *)
(* the difficulty its job asked for, here a whole number.                  *)
(***************************************************************************)
EXTENDS Integers, Sequences, FiniteSets, FiniteSetsExt, SequencesExt, Functions

CONSTANTS
    Sessions,        \* connections of miners, each paying the address AddressOf
    AddressOf,       \* [Submitters -> Nat]: addresses, in their order
    FilterCommit,    \* UpgradeFilterCommit is active
    MaxJobs,         \* maxStratumJobs
    WindowMax,       \* pplnsWindow
    MaxMiners,       \* maxTrackedMiners
    Factors,         \* share factors in use, powers of two
    Rewards,         \* block rewards to split
    MaxTip,          \* how often the tip moves
    Setups,          \* who mines here, and how many of the events are used up
    MaxEvents        \* how many connections, shares, expiries, foreign blocks and stops there are

VARIABLES
    ptip,            \* the chain's tip
    conn,            \* [Sessions -> "absent" | "none" | "accepted" | "open" | "closed"]
    authorized,      \* sessions that authorized
    factor,          \* [Sessions -> share factor]
    jobs,            \* [Sessions -> jobs remembered, oldest first]
    shown,           \* [Sessions -> tip of the job notified last, -1 if none]
    muted,           \* sessions a write to which has failed: the encoder writes no more
    sending,         \* [Sessions \X Senders -> job built and not yet sent, or NoJob]
    share,           \* [Submitters -> the share being handled, or Nobody]
    last, event,     \* the job loop's last tip; an event waits
    toPush,          \* sessions pushJobs has still to serve
    ledger, window, total,
    credited,        \* history: shares the window has been given
    saved,           \* the books on disk, and what was credited by then
    torn,            \* history: the node was killed between the writes of the two books
    phase,           \* "up", "waiting" (wg.Wait), "half" (one book written) or "down"
    events

Submitters == Sessions \cup {"api"}
Senders == {"handler", "jobLoop"}
NoJob   == [tip |-> -1]
NoShare == [at |-> "none"]
Nobody  == [at |-> "absent"]

conns == <<conn, authorized, factor, jobs, shown, muted, sending>>
loopvars == <<last, event, toPush>>
books == <<ledger, window, total, credited>>
disk == <<saved, torn>>
poolVars == <<ptip, conns, share, loopvars, books, disk, phase, events>>

Open(s)  == conn[s] = "open"
Heard(s) == Open(s) /\ s \in authorized
-----------------------------------------------------------------------------
(* The books. *)

\* pooled and lost are history: accepted shares that are the window's too, and shares
\* that were submitted and are in no other count.
NoBooks == [submitted |-> 0, accepted |-> 0, stale |-> 0, blocks |-> 0, rows |-> <<>>, pooled |-> 0, lost |-> 0]

Bump(l, f) == [l EXCEPT ![f] = @ + 1]

\* A new address gets no row of its own once the ledger is full.
RecordShare(l, a, isBlock) ==
    LET m == [Bump(l, "accepted") EXCEPT !.blocks = @ + (IF isBlock THEN 1 ELSE 0)]
    IN  IF a \in DOMAIN m.rows THEN [m EXCEPT !.rows[a] = @ + 1]
        ELSE IF Cardinality(DOMAIN m.rows) >= MaxMiners THEN m
        ELSE [m EXCEPT !.rows = (a :> 1) @@ @]

Weight(j) == Max(Factors) \div j.factor

WindowAdd(sh) ==
    LET full == Len(window) >= WindowMax
    IN  /\ window' = Append(IF full THEN Tail(window) ELSE window, sh)
        /\ total' = (IF full THEN total - Head(window).weight ELSE total) + sh.weight
        /\ credited' = credited + 1

WeightOf(w) == FoldFunction(LAMBDA sh, n : sh.weight + n, 0, w)

\* restore: the newest that fit.
WindowRestore(w) ==
    IF Len(w) > WindowMax THEN SubSeq(w, Len(w) - WindowMax + 1, Len(w)) ELSE w

Payees(w)   == {w[i].addr : i \in DOMAIN w}
Claim(w, a) == WeightOf(SelectSeq(w, LAMBDA sh : sh.addr = a))

\* The largest claim, the smallest address among equals.
Largest(w) ==
    CHOOSE a \in Payees(w) :
        \A b \in Payees(w) \ {a} :
            Claim(w, b) < Claim(w, a) \/ (Claim(w, b) = Claim(w, a) /\ a < b)

Payouts(w, sum, reward) ==
    LET part == [a \in Payees(w) |-> (reward * Claim(w, a)) \div sum]
        assigned == FoldFunction(+, 0, part)
    IN  [part EXCEPT ![Largest(w)] = @ + (IF reward > assigned THEN reward - assigned ELSE 0)]

\* vardiff.observe: up to four times easier or harder, within the bounds.
Retuned(f) == {g \in Factors : g <= 4 * f /\ f <= 4 * g}
-----------------------------------------------------------------------------
(* Sessions. *)

\* Accept returns; the session is registered a moment later.
Accept(s) ==
    /\ phase = "up" /\ conn[s] = "none" /\ events < MaxEvents
    /\ conn' = [conn EXCEPT ![s] = "accepted"]
    /\ events' = events + 1
    /\ UNCHANGED <<ptip, authorized, factor, jobs, shown, muted, sending, share, loopvars, books, disk, phase>>

Register(s) ==
    /\ conn[s] = "accepted"
    /\ conn' = [conn EXCEPT ![s] = "open"]
    /\ UNCHANGED <<ptip, authorized, factor, jobs, shown, muted, sending, share, loopvars, books, disk, phase, events>>

\* mining.authorize, and the job that answers it.
Authorize(s) ==
    /\ Open(s) /\ s \notin authorized
    /\ authorized' = authorized \cup {s}
    /\ sending' = [sending EXCEPT ![<<s, "handler">>] = [tip |-> ptip, factor |-> factor[s]]]
    /\ UNCHANGED <<ptip, conn, factor, jobs, shown, muted, share, loopvars, books, disk, phase, events>>

\* serve returns: the connection broke or was closed.  Its job sends come to nothing.
Leave(s) ==
    /\ conn[s] = "closed" \/ (Open(s) /\ events < MaxEvents)
    /\ share[s].at = "none"
    /\ events' = events + (IF Open(s) THEN 1 ELSE 0)
    /\ conn' = [conn EXCEPT ![s] = "none"]
    /\ authorized' = authorized \ {s}
    /\ jobs' = [jobs EXCEPT ![s] = <<>>]
    /\ shown' = [shown EXCEPT ![s] = -1]
    /\ muted' = muted \ {s}
    /\ sending' = [p \in DOMAIN sending |-> IF p[1] = s THEN NoJob ELSE sending[p]]
    /\ UNCHANGED <<ptip, factor, share, loopvars, books, disk, phase>>

\* sendJob, its second half: remember the job, dropping the oldest, and notify.  A
\* failed write is not looked at: the session stays, with an encoder that is done.
SendJob(s, who) ==
    LET j == sending[<<s, who>>]
    IN  /\ j # NoJob
        /\ jobs' = [jobs EXCEPT ![s] =
                       Append(IF Len(@) >= MaxJobs THEN Tail(@) ELSE @, [tip |-> j.tip, factor |-> j.factor, expired |-> FALSE])]
        /\ \/ s \notin muted /\ shown' = [shown EXCEPT ![s] = j.tip] /\ UNCHANGED <<muted, events>>
           \/ s \in muted /\ UNCHANGED <<shown, muted, events>>
           \/ s \notin muted /\ events < MaxEvents
              /\ muted' = muted \cup {s} /\ events' = events + 1 /\ UNCHANGED shown
        /\ sending' = [sending EXCEPT ![<<s, who>>] = NoJob]
        /\ UNCHANGED <<ptip, conn, authorized, factor, share, loopvars, books, disk, phase>>

\* stratumTemplate failed: there is no job until the next push.
JobUnavailable(s, who) ==
    /\ sending[<<s, who>>] # NoJob /\ events < MaxEvents
    /\ sending' = [sending EXCEPT ![<<s, who>>] = NoJob]
    /\ events' = events + 1
    /\ UNCHANGED <<ptip, conn, authorized, factor, jobs, shown, muted, share, loopvars, books, disk, phase>>

\* stratumJobTTL passes for the jobs a session holds.
Expire(s) ==
    /\ \E i \in DOMAIN jobs[s] : ~jobs[s][i].expired
    /\ events < MaxEvents
    /\ jobs' = [jobs EXCEPT ![s] = [i \in DOMAIN @ |-> [@[i] EXCEPT !.expired = TRUE]]]
    /\ events' = events + 1
    /\ UNCHANGED <<ptip, conn, authorized, factor, shown, muted, sending, share, loopvars, books, disk, phase>>
-----------------------------------------------------------------------------
(* The job loop. *)

JobLoopEvent ==
    /\ event /\ phase = "up" /\ toPush = {}
    /\ event' = FALSE
    /\ last' = ptip
    /\ toPush' = IF ptip # last THEN {s \in Sessions : Open(s)} ELSE {}
    /\ UNCHANGED <<ptip, conns, share, books, disk, phase, events>>

\* Mutant of JobTick: the refresh leaves sessions alone that have a job.
JobTickNewOnly ==
    /\ phase = "up" /\ toPush = {}
    /\ toPush' = {s \in Sessions : Open(s) /\ shown[s] = -1}
    /\ UNCHANGED <<ptip, conns, share, last, event, books, disk, phase, events>>

\* Every 30 seconds; the model leaves out a refresh that would repeat a job.
JobTick ==
    /\ phase = "up" /\ toPush = {}
    /\ toPush' = {s \in Sessions : Open(s) /\ shown[s] # ptip}
    /\ UNCHANGED <<ptip, conns, share, last, event, books, disk, phase, events>>

\* pushJobs, one session after another.
PushJob(s) ==
    /\ s \in toPush /\ sending[<<s, "jobLoop">>] = NoJob
    /\ toPush' = toPush \ {s}
    /\ sending' = IF Heard(s) THEN [sending EXCEPT ![<<s, "jobLoop">>] = [tip |-> ptip, factor |-> factor[s]]] ELSE sending
    /\ UNCHANGED <<ptip, conn, authorized, factor, jobs, shown, muted, share, last, event, books, disk, phase, events>>

\* A block from elsewhere moves the tip and publishes an event.
TipMoves ==
    /\ ptip < MaxTip /\ phase = "up" /\ events < MaxEvents
    /\ ptip' = ptip + 1
    /\ event' = TRUE
    /\ events' = events + 1
    /\ UNCHANGED <<conns, share, last, toPush, books, disk, phase>>
-----------------------------------------------------------------------------
(* Shares. *)

\* What the hash of a candidate is worth: less than a share, a share or a block.
Grades == {"short", "share", "block"}

Judged(job, grade) == [at |-> "judge", job |-> job, grade |-> grade, block |-> FALSE]

\* onSubmit for a known, fresh job; submitted is counted first.  A session that has
\* not authorized, an unknown or an expired job is refused and changes nothing.
OnSubmit(s, i, grade) ==
    /\ Heard(s) /\ share[s].at = "none" /\ sending[<<s, "handler">>] = NoJob
    /\ events < MaxEvents
    /\ i \in DOMAIN jobs[s] /\ ~jobs[s][i].expired
    /\ share' = [share EXCEPT ![s] = Judged(jobs[s][i], grade)]
    /\ ledger' = Bump(ledger, "submitted")
    /\ events' = events + 1
    /\ UNCHANGED <<ptip, conns, loopvars, window, total, credited, disk, phase>>

\* POST /submitshare, by a miner that polls /blocktemplate.  The API serves until the
\* process ends.
SubmitShare(tip, grade) ==
    /\ phase # "down" /\ share["api"].at = "none" /\ events < MaxEvents
    /\ share' = [share EXCEPT !["api"] = Judged([tip |-> tip, factor |-> Max(Factors), expired |-> FALSE], grade)]
    /\ ledger' = Bump(ledger, "submitted")
    /\ events' = events + 1
    /\ UNCHANGED <<ptip, conns, loopvars, window, total, credited, disk, phase>>

\* A candidate's merkle root, named by its coinbase's memo, and the one its filter
\* root was computed over.
BuildTemplate == [root |-> "", filterOver |-> ""]

\* stratumTemplate writes the session's extranonce into the coinbase afterwards.
StratumTemplate(s) == [BuildTemplate EXCEPT !.root = s]

\* checkCommitments: the filter is keyed on the block's merkle root.
FilterRootOk(b) == FilterCommit => b.filterOver = b.root

\* A share not on the tip is stale, one below its target is refused; one that meets the
\* block's target is a block if the chain takes it.
SubmitShareChecked(s) ==
    LET sh == share[s]
        stale == sh.job.tip # ptip
        refused == ~stale /\ sh.grade = "short"
        template == IF s = "api" THEN BuildTemplate ELSE StratumTemplate(s)
        block == ~stale /\ sh.grade = "block" /\ FilterRootOk(template) /\ ptip < MaxTip
    IN  /\ sh.at = "judge"
        /\ share' = [share EXCEPT ![s] = IF stale \/ refused THEN NoShare ELSE [sh EXCEPT !.at = "record", !.block = block]]
        /\ ledger' = IF stale THEN Bump(ledger, "stale") ELSE IF refused THEN Bump(ledger, "lost") ELSE ledger
        /\ ptip' = IF block THEN ptip + 1 ELSE ptip
        /\ event' = (event \/ block)
        /\ UNCHANGED <<conns, last, toPush, window, total, credited, disk, phase, events>>

\* The end of a share of the API's: the window is not told.
RecordStep(s) ==
    /\ share[s].at = "record"
    /\ LET l == RecordShare(ledger, AddressOf[s], share[s].block)
       IN  ledger' = IF s = "api" THEN l ELSE Bump(l, "pooled")
    /\ share' = [share EXCEPT ![s] = IF s = "api" THEN NoShare ELSE [@ EXCEPT !.at = "window"]]
    /\ UNCHANGED <<ptip, conns, loopvars, window, total, credited, disk, phase, events>>

\* submitShareAt credits the window; then the difficulty may be retuned, which
\* sends a job.
SubmitShareAt(s) ==
    /\ share[s].at = "window"
    /\ WindowAdd([addr |-> AddressOf[s], weight |-> Weight(share[s].job)])
    /\ share' = [share EXCEPT ![s] = NoShare]
    /\ \E f \in Retuned(factor[s]) :
        /\ factor' = [factor EXCEPT ![s] = f]
        /\ sending' = IF f = factor[s] THEN sending
                      ELSE [sending EXCEPT ![<<s, "handler">>] = [tip |-> ptip, factor |-> f]]
    /\ UNCHANGED <<ptip, conn, authorized, jobs, shown, muted, loopvars, ledger, disk, phase, events>>
-----------------------------------------------------------------------------
(* Stopping and starting. *)

\* Stop: close quit and the listener, close the registered sessions, wait.
Stop ==
    /\ phase = "up" /\ events < MaxEvents
    /\ phase' = "waiting"
    /\ conn' = [s \in Sessions |-> IF Open(s) THEN "closed" ELSE conn[s]]
    /\ toPush' = {}
    /\ events' = events + 1
    /\ UNCHANGED <<ptip, authorized, factor, jobs, shown, muted, sending, share, last, event, books, disk>>

\* Shares of the API's that are on their way when the ledger is written are lost.
InFlight(S) == Cardinality({s \in S : share[s].at \in {"judge", "record"}})

\* Mutant of SaveShares: written without waiting for the handlers.
SaveSharesEarly ==
    /\ phase = "waiting"
    /\ phase' = "half"
    /\ saved' = [saved EXCEPT !.ledger = [ledger EXCEPT !.lost = @ + InFlight(Submitters)]]
    /\ UNCHANGED <<ptip, conns, share, loopvars, books, torn, events>>

\* saveState: wg.Wait returned, every handler is gone.  First one book is written,
SaveShares ==
    /\ phase = "waiting" /\ \A s \in Sessions : conn[s] \in {"none", "absent"}
    /\ phase' = "half"
    /\ saved' = [saved EXCEPT !.ledger = [ledger EXCEPT !.lost = @ + InFlight(Submitters)]]
    /\ UNCHANGED <<ptip, conns, share, loopvars, books, torn, events>>

\* then the other.
SavePool ==
    /\ phase = "half"
    /\ phase' = "down"
    /\ saved' = [saved EXCEPT !.window = window, !.credited = credited]
    /\ UNCHANGED <<ptip, conns, share, loopvars, books, torn, events>>

\* A start reads the books of the last clean shutdown; after a crash they are older, and
\* one of them may be older than the other.
Start ==
    /\ phase # "down" => events < MaxEvents
    /\ phase' = "up"
    /\ events' = events + (IF phase = "down" THEN 0 ELSE 1)
    /\ torn' = (torn \/ phase = "half")
    /\ credited' = saved.credited
    /\ ledger' = saved.ledger
    /\ window' = WindowRestore(saved.window)
    /\ total' = WeightOf(WindowRestore(saved.window))
    /\ conn' = [s \in Sessions |-> IF conn[s] = "absent" THEN "absent" ELSE "none"]
    /\ authorized' = {}
    /\ factor' = [s \in Sessions |-> Max(Factors)]
    /\ jobs' = [s \in Sessions |-> <<>>]
    /\ shown' = [s \in Sessions |-> -1] /\ muted' = {}
    /\ sending' = [p \in Sessions \X Senders |-> NoJob]
    /\ share' = [s \in Submitters |-> IF share[s] = Nobody THEN Nobody ELSE NoShare]
    /\ last' = ptip /\ event' = FALSE /\ toPush' = {}
    /\ UNCHANGED <<ptip, saved>>
-----------------------------------------------------------------------------
\* Some miners are connected and at work.
Init ==
    /\ ptip = 0
    /\ authorized \in SUBSET Sessions
    /\ \E c \in Setups :
        /\ authorized \subseteq c.miners
        /\ conn = [s \in Sessions |->
                      IF s \in authorized THEN "open" ELSE IF s \in c.miners THEN "none" ELSE "absent"]
        /\ share = [s \in Submitters |-> IF s \in c.miners \cup Sessions THEN NoShare ELSE Nobody]
        /\ events = c.spent
    /\ factor = [s \in Sessions |-> Max(Factors)]
    /\ jobs = [s \in Sessions |->
                  IF s \in authorized THEN <<[tip |-> 0, factor |-> factor[s], expired |-> FALSE]>> ELSE <<>>]
    /\ shown = [s \in Sessions |-> IF s \in authorized THEN 0 ELSE -1]
    /\ sending = [p \in Sessions \X Senders |-> NoJob]
    /\ muted = {}
    /\ last = 0 /\ event = FALSE /\ toPush = {}
    /\ ledger = NoBooks /\ window = <<>> /\ total = 0 /\ credited = 0
    /\ saved = [ledger |-> NoBooks, window |-> <<>>, credited |-> 0] /\ torn = FALSE
    /\ phase = "up"

Handler(s) == Register(s) \/ SubmitShareChecked(s) \/ RecordStep(s) \/ SubmitShareAt(s) \/ SendJob(s, "handler")
JobLoop    == JobLoopEvent \/ JobTick \/ \E s \in Sessions : PushJob(s) \/ SendJob(s, "jobLoop")

Next ==
    \/ \E s \in Sessions :
        \/ Accept(s) \/ Handler(s) \/ Authorize(s) \/ Leave(s) \/ Expire(s)
        \/ \E i \in DOMAIN jobs[s], grade \in Grades : OnSubmit(s, i, grade)
        \/ \E who \in Senders : JobUnavailable(s, who)
    \/ \E tip \in 0 .. ptip, grade \in Grades : SubmitShare(tip, grade)
    \/ SubmitShareChecked("api") \/ RecordStep("api")
    \/ JobLoop \/ TipMoves \/ Stop \/ SaveShares \/ SavePool \/ Start

LoopBusy ==
    \/ toPush # {}
    \/ \E s \in Sessions : sending[<<s, "jobLoop">>] # NoJob
    \/ phase = "up" /\ (event \/ \E s \in Sessions : Open(s) /\ shown[s] # ptip)

HandlerBusy(s) == conn[s] = "accepted" \/ share[s].at # "none" \/ sending[<<s, "handler">>] # NoJob

\* Goroutines run and the ticker ticks; miners need not leave, submit or find.  Weak
\* fairness of JobLoop and Handler, by the conditions they can step under.
Fairness ==
    /\ []<>~LoopBusy \/ []<><<JobLoop>>_poolVars
    /\ \A s \in Sessions : []<>~HandlerBusy(s) \/ []<><<Handler(s)>>_poolVars

Spec == Init /\ [][Next]_poolVars /\ Fairness
-----------------------------------------------------------------------------
(***************************************************************************)
(* The books are what the shares say: the window's running total is the    *)
(* sum of what it holds, within its bound; every submitted share is        *)
(* accepted, stale, refused or still being handled; rows are never more    *)
(* than the accepted shares.  The two books agree: every share of a        *)
(* stratum miner that the ledger accepted was credited to the window, in   *)
(* memory (but for those on their way) and on disk, unless the node was    *)
(* once killed between the two writes, and then the window has missed some *)
(* and never has one too many.  What the window says is paid to the last   *)
(* unit.                                                                   *)
(***************************************************************************)
BooksBalance(l, open) ==
    /\ l.submitted = l.accepted + l.stale + l.lost + open
    /\ l.blocks <= l.accepted
    /\ FoldFunction(+, 0, l.rows) <= l.accepted
    /\ Cardinality(DOMAIN l.rows) < MaxMiners => FoldFunction(+, 0, l.rows) = l.accepted

BooksAgree(l, n, whole) == n <= l.pooled /\ (whole => n = l.pooled)

\* Whatever the window holds, a reward is paid out to the last unit, and no claim
\* gets less than its share rounded down.
PayoutsExact ==
    window # <<>> =>
        \A r \in Rewards :
            LET out == Payouts(window, total, r)
            IN  /\ FoldFunction(+, 0, out) = r
                /\ \A a \in Payees(window) : out[a] * total >= r * Claim(window, a) - total + 1

PoolBooks ==
    /\ total = WeightOf(window) /\ Len(window) = Min({credited, WindowMax})
    /\ BooksBalance(ledger, InFlight(Submitters)) /\ BooksBalance(saved.ledger, 0)
    /\ BooksAgree(ledger, credited + Cardinality({s \in Sessions : share[s].at = "window"}), ~torn)
    /\ BooksAgree(saved.ledger, saved.credited, ~torn /\ phase # "half")
    /\ PayoutsExact

(***************************************************************************)
(* A miner is not left on a dead job: whichever of the handler and the job *)
(* loop notifies last, and though a template may fail, an authorized       *)
(* session is shown a job on the tip, or the tip moves on, or the session  *)
(* ends (jobLoop's push and its refresh).  A session to which a write has  *)
(* failed is shown nothing any more and is not ended by the pool.          *)
(***************************************************************************)
JobsFollowTip ==
    \A s \in Sessions :
        (Heard(s) /\ shown[s] # ptip) ~> (shown[s] = ptip \/ ~Heard(s) \/ s \in muted \/ phase # "up")
=============================================================================
