-------------------------------- MODULE Peers --------------------------------
(***************************************************************************)
(* Who a node is connected to: the address manager's tables and outbound   *)
(* reservations (node/addrman.go), the peerbook (node/peerbook.go), dial   *)
(* loops and the handshake (node/node.go), ban scores (node/ban.go) and    *)
(* what of this survives a restart (node/persist.go, node/dnsseed.go,      *)
(* node/peerinfo.go).  Inbound admission is in Inbound.                    *)
(*                                                                         *)
(* Each known address has at most one dial loop, a goroutine whose program *)
(* counter is loop[a].  Addresses reach a loop in two steps, a reservation *)
(* with the address manager and an approval of the peerbook, under two     *)
(* locks; held is what sits between the two.                               *)
(***************************************************************************)
EXTENDS Integers, FiniteSets, FiniteSetsExt, Functions

CONSTANTS
    Addrs,                 \* addresses a node may hear of
    Aliases,               \* those that reach the node itself
    Group,                 \* [Addrs -> network groups]
    Loopback,              \* addresses exempt from the group caps
    Configured,            \* -peers
    Seeded,                \* what the DNS seeds resolve to
    Strangers,             \* addresses whose handshake fails or is refused
    MaxPeers, MaxOutboundPerGroup,
    MaxNewEntries, MaxTriedEntries, MaxEntriesPerGroup,
    MaxDialFailures, MaxTriedDialFailures, DnsSeedThreshold,
    BanThreshold, BanHandshake,
    MaxEvents,             \* how often addresses are gossiped, flap or are unbanned
    MaxRestarts            \* how often the process is stopped or crashes

\* Finitely many addresses, and limits that are numbers.
PeersAssumption ==
    /\ IsFiniteSet(Addrs)
    /\ MaxPeers \in Nat /\ MaxOutboundPerGroup \in Nat

VARIABLES
    entries,       \* addrman: known address -> [tried, fails]
    live,          \* outbound reservations
    liveGroups,    \* reservations counted per group
    known,         \* peerbook: addresses to gossip
    dialing,       \* peerbook: dial loops launched
    selfAliases,   \* peerbook: addresses that turned out to be us
    held,          \* reserved, not yet approved
    loop,          \* program counter of the address's dial loop
    named,         \* outbound connections whose hello has arrived
    score,         \* ban scores (an outbound peer is scored under its address)
    stage,         \* how far Shutdown has come: "up", "quit", "closed" or "saved"
    disk,          \* soft state as last saved
    reach,         \* addresses that answer a dial
    events, restarts

outbound == <<live, liveGroups, dialing, held>>
book     == <<known, selfAliases>>
env      == <<reach, events, restarts>>
vars     == <<entries, outbound, book, loop, named, score, stage, disk, env>>

Groups == {Group[a] : a \in Addrs}
-----------------------------------------------------------------------------
(* The address manager. *)

NewEntry   == [tried |-> FALSE, fails |-> 0]
TriedEntry == [tried |-> TRUE, fails |-> 0]

Put(e, a, r) == [b \in DOMAIN e \cup {a} |-> IF b = a THEN r ELSE e[b]]
Drop(e, a)   == Restrict(e, DOMAIN e \ {a})

Table(e, tried) == {a \in DOMAIN e : e[a].tried = tried}

\* evictWorst: what may go is an entry with most failures that is not in use (the
\* code breaks ties by age); nothing can when all are.
Evictable(e, l, tried) ==
    LET idle == Table(e, tried) \ l
    IN  {a \in idle : \A b \in idle : e[b].fails <= e[a].fails}

\* The tables Add(a) may leave.
Added(e, l, a) ==
    LET crowded == Cardinality({b \in DOMAIN e : Group[b] = Group[a]}) >= MaxEntriesPerGroup
        full == Cardinality(Table(e, FALSE)) >= MaxNewEntries
    IN  IF a \in DOMAIN e \/ crowded \/ (full /\ Evictable(e, l, FALSE) = {}) THEN {e}
        ELSE IF ~full THEN {Put(e, a, NewEntry)}
        ELSE {Put(Drop(e, b), a, NewEntry) : b \in Evictable(e, l, FALSE)}

\* The tables Good(a) may leave; an address not known yet becomes an entry.
Promoted(e, l, a) ==
    LET full == a \notin Table(e, TRUE) /\ Cardinality(Table(e, TRUE)) >= MaxTriedEntries
    IN  IF full /\ Evictable(e, l, TRUE) # {}
        THEN {Put(Drop(e, b), a, TriedEntry) : b \in Evictable(e, l, TRUE)}
        ELSE {Put(e, a, TriedEntry)}

\* Failed: one more failure; an entry is retired after too many.
Failed(e, a) ==
    LET limit == IF e[a].tried THEN MaxTriedDialFailures ELSE MaxDialFailures
    IN  IF a \notin DOMAIN e THEN e
        ELSE IF e[a].fails + 1 >= limit THEN Drop(e, a)
        ELSE [e EXCEPT ![a].fails = @ + 1]

\* reserve: may a join the reservations l, counted by c?
Reservable(l, c, a) ==
    a \notin l /\ (a \in Loopback \/ c[Group[a]] < MaxOutboundPerGroup)

\* Mutant of Release: the group keeps its share.
ReleaseKeeps(a) == live' = live \ {a} /\ liveGroups' = liveGroups

Release(a) ==
    /\ live' = live \ {a}
    /\ liveGroups' = [liveGroups EXCEPT ![Group[a]] = @ - 1]

\* connectedTo: the peer has said which address it listens on.
ConnectedTo(a) == a \in named

\* The counts c with the addresses S counted in.
Counted(c, S) == [g \in Groups |-> c[g] + Cardinality({a \in S : Group[a] = g})]

\* What one pass over the candidates C, in random order, may reserve when c counts
\* the reservations: at most n, each within its group's share, and fewer than n only
\* if none of the others can join.
Picks(C, c, n) ==
    {S \in SUBSET C :
        /\ Cardinality(S) <= n
        /\ \A a \in S \ Loopback : Counted(c, S \ Loopback)[Group[a]] <= MaxOutboundPerGroup
        /\ Cardinality(S) = n \/ \A a \in C \ S : ~Reservable(S, Counted(c, S), a)}

\* Select: tried addresses first, each table in random order, until n are reserved.
Selections(n) ==
    LET ok(tried) == {a \in Addrs \ live : a \in Table(entries, tried) \ selfAliases /\ ~ConnectedTo(a)}
    IN  UNION {{S \cup F : F \in Picks(ok(FALSE), Counted(liveGroups, S), n - Cardinality(S))} :
                  S \in Picks(ok(TRUE), liveGroups, n)}
-----------------------------------------------------------------------------
(* Start-up and shutdown. *)

Banned(k) == score[k] >= BanThreshold

\* The tables after every address of S went through F, in some order.
Each(F(_, _), S, es) ==
    FoldSet(LAMBDA a, acc : UNION {F(e, a) : e \in acc}, es, S)

\* loadState: peers.json, and over it the saved tables.
Loaded(saved) ==
    {[a \in DOMAIN e \cup DOMAIN saved.entries |->
        IF a \in DOMAIN saved.entries THEN saved.entries[a] ELSE e[a]] :
            e \in Each(LAMBDA e, a : Added(e, {}, a), saved.known, {<<>>})}

\* bootstrapFromDNSSeeds, only when little is known.
Bootstrapped(e) ==
    IF Cardinality(DOMAIN e) >= DnsSeedThreshold THEN {e}
    ELSE Each(LAMBDA x, a : Added(x, {}, a), Seeded, {e})

\* Start: what was saved, then the configured peers (as tried), then the seeds.
BootTables(saved) ==
    UNION {Bootstrapped(e) :
        e \in Each(LAMBDA x, a : UNION {Promoted(y, {}, a) : y \in Added(x, {}, a)}, Configured, Loaded(saved))}

Boot(saved) ==
    /\ entries' \in BootTables(saved)
    /\ known' = saved.known \cup Configured
    /\ score' = saved.score
    /\ live' = {} /\ liveGroups' = [g \in Groups |-> 0] /\ dialing' = {} /\ held' = {}
    /\ selfAliases' = {} /\ loop' = [a \in Addrs |-> "none"] /\ named' = {}
    /\ stage' = "up"

FreshDisk == [entries |-> <<>>, known |-> {}, score |-> [k \in Addrs |-> 0]]

Init ==
    /\ disk = FreshDisk
    /\ entries \in BootTables(FreshDisk) /\ known = Configured /\ score = FreshDisk.score
    /\ live = {} /\ liveGroups = [g \in Groups |-> 0] /\ dialing = {} /\ held = {}
    /\ selfAliases = {} /\ loop = [a \in Addrs |-> "none"] /\ named = {}
    /\ stage = "up"
    /\ reach = Addrs \ Aliases /\ events = 0 /\ restarts = 0

\* Shutdown closes quit, then every connection, then saves.
Stop ==
    /\ stage = "up"
    /\ restarts < MaxRestarts
    /\ stage' = "quit"
    /\ UNCHANGED <<entries, outbound, book, loop, named, score, disk, env>>

ClosePeers ==
    /\ stage = "quit"
    /\ stage' = "closed"
    /\ loop' = [a \in Addrs |-> IF loop[a] = "up" THEN "wait" ELSE loop[a]]
    /\ named' = {}
    /\ UNCHANGED <<entries, outbound, book, score, disk, env>>

SaveState ==
    /\ stage = "closed"
    /\ stage' = "saved"
    /\ disk' = [entries |-> entries, known |-> known, score |-> score]
    /\ UNCHANGED <<entries, outbound, book, loop, named, score, env>>

\* The process ends, after saving or by a crash, and is started again.
Restart ==
    /\ restarts < MaxRestarts
    /\ restarts' = restarts + 1
    /\ Boot(disk)
    /\ UNCHANGED <<disk, reach, events>>
-----------------------------------------------------------------------------
(* Outbound: reservation, approval, dial loop. *)

Reserve(S) ==
    /\ live' = live \cup S
    /\ liveGroups' = Counted(liveGroups, S)
    /\ held' = held \cup S

\* fillOutbound, up to the reservations.
FillOutbound ==
    /\ stage = "up"
    /\ LET want == MaxPeers - Cardinality(dialing)
       IN  /\ want > 0
           /\ \E S \in Selections(want) : S # {} /\ Reserve(S)
    /\ UNCHANGED <<entries, book, dialing, loop, named, score, stage, disk, env>>

\* shouldDial decides about a reserved address: a dial loop, or the slot goes back.
ShouldDial(a) ==
    /\ a \in held
    /\ held' = held \ {a}
    /\ IF a \in selfAliases \cup dialing \/ Cardinality(dialing) >= MaxPeers
       THEN Release(a) /\ UNCHANGED <<known, dialing, loop>>
       ELSE /\ known' = known \cup {a}
            /\ dialing' = dialing \cup {a}
            /\ loop' = [loop EXCEPT ![a] = "dial"]
            /\ UNCHANGED <<live, liveGroups>>
    /\ UNCHANGED <<entries, selfAliases, named, score, stage, disk, env>>

\* Mutant of Dial: the loop ends when a dial fails, and gives its slot back.
DialGivesUp(a) ==
    /\ loop[a] = "dial" /\ stage = "up"
    /\ IF a \in reach \cup Aliases
       THEN loop' = [loop EXCEPT ![a] = "hand"] /\ UNCHANGED entries
       ELSE entries' = Failed(entries, a) /\ loop' = [loop EXCEPT ![a] = "none"]
    /\ IF loop'[a] = "none" THEN Release(a) /\ dialing' = dialing \ {a} ELSE UNCHANGED <<live, liveGroups, dialing>>
    /\ UNCHANGED <<held, book, named, score, stage, disk, env>>

\* One dial, at the top of the loop.
Dial(a) ==
    /\ loop[a] = "dial" /\ stage = "up"
    /\ IF a \in reach \cup Aliases
       THEN loop' = [loop EXCEPT ![a] = "hand"] /\ UNCHANGED entries
       ELSE loop' = [loop EXCEPT ![a] = "wait"] /\ entries' = Failed(entries, a)
    /\ UNCHANGED <<outbound, book, named, score, stage, disk, env>>

Points(k) == IF k \in Loopback THEN 0 ELSE BanHandshake

\* handleConn on the connection just made, up to addPeer.  A connection that breaks
\* in the handshake counts against the address like a wrong key.
Handshake(a) ==
    /\ loop[a] = "hand"
    /\ \/ /\ Banned(a)
          /\ loop' = [loop EXCEPT ![a] = "wait"] /\ UNCHANGED <<entries, book, dialing, score>>
       \/ /\ ~Banned(a) /\ a \in Strangers \cup (Addrs \ (reach \cup Aliases))
          /\ score' = [score EXCEPT ![a] = Min({@ + Points(a), BanThreshold})]
          /\ loop' = [loop EXCEPT ![a] = "wait"] /\ UNCHANGED <<entries, book, dialing>>
       \/ /\ ~Banned(a) /\ a \in Strangers
          /\ loop' = [loop EXCEPT ![a] = "wait"] /\ UNCHANGED <<entries, book, dialing, score>>
       \/ /\ ~Banned(a) /\ a \in Aliases
          /\ selfAliases' = selfAliases \cup {a}
          /\ known' = known \ {a} /\ dialing' = dialing \ {a}
          /\ loop' = [loop EXCEPT ![a] = "self"] /\ UNCHANGED <<entries, score>>
       \/ /\ ~Banned(a) /\ a \in reach \ Strangers
          /\ entries' \in Promoted(entries, live, a)
          /\ loop' = [loop EXCEPT ![a] = "up"] /\ UNCHANGED <<book, dialing, score>>
    /\ UNCHANGED <<live, liveGroups, held, named, stage, disk, env>>

\* Mutant of SelfDialEnds: the loop does not ask whether it reached itself.
SelfDialRetries(a) ==
    /\ loop[a] = "self"
    /\ loop' = [loop EXCEPT ![a] = "wait"]
    /\ UNCHANGED <<entries, outbound, book, named, score, stage, disk, env>>

\* The loop finds that it reached its own node: forget the address and end.
SelfDialEnds(a) ==
    /\ loop[a] = "self"
    /\ entries' = Drop(entries, a)
    /\ loop' = [loop EXCEPT ![a] = "none"]
    /\ Release(a)
    /\ UNCHANGED <<dialing, held, book, named, score, stage, disk, env>>

\* The retry delay passes, unless the node stops first.
Wait(a) ==
    /\ loop[a] \in {"wait", "dial"}
    /\ IF stage = "up"
       THEN loop[a] = "wait" /\ loop' = [loop EXCEPT ![a] = "dial"] /\ UNCHANGED <<live, liveGroups>>
       ELSE loop' = [loop EXCEPT ![a] = "none"] /\ Release(a)
    /\ UNCHANGED <<entries, dialing, held, book, named, score, stage, disk, env>>

\* The connection ends: the peer, the network, the rate limit or DropPeer.
Disconnect(a) ==
    /\ loop[a] = "up"
    /\ loop' = [loop EXCEPT ![a] = "wait"]
    /\ named' = named \ {a}
    /\ UNCHANGED <<entries, outbound, book, score, stage, disk, env>>

\* The peer's hello names the address it listens on.
Hello(a) ==
    /\ loop[a] = "up" /\ a \notin named
    /\ named' = named \cup {a}
    /\ known' = known \cup ({a} \ selfAliases)
    /\ entries' \in Added(entries, live, a)
    /\ UNCHANGED <<outbound, selfAliases, loop, score, stage, disk, env>>

\* Some peer gossips a (MsgPeers), or an operator adds it (AddPeer).
HearOf(a) ==
    /\ stage = "up" /\ events < MaxEvents
    /\ known' = known \cup ({a} \ selfAliases)
    /\ entries' \in Added(entries, live, a)
    /\ IF ~ConnectedTo(a) /\ Reservable(live, liveGroups, a)
       THEN Reserve({a}) ELSE UNCHANGED <<live, liveGroups, held>>
    /\ events' = events + 1
    /\ UNCHANGED <<dialing, selfAliases, loop, named, score, stage, disk, reach, restarts>>
-----------------------------------------------------------------------------
\* Unban clears a score.
Unban(k) ==
    /\ score[k] > 0 /\ events < MaxEvents
    /\ score' = [score EXCEPT ![k] = 0]
    /\ events' = events + 1
    /\ UNCHANGED <<entries, outbound, book, loop, named, stage, disk, reach, restarts>>

\* An address goes away or comes back.
Flap(a) ==
    /\ events < MaxEvents
    /\ events' = events + 1
    /\ reach' = IF a \in reach THEN reach \ {a} ELSE reach \cup {a}
    /\ UNCHANGED <<entries, outbound, book, loop, named, score, stage, disk, restarts>>

Next ==
    \/ Stop \/ ClosePeers \/ SaveState \/ Restart
    \/ FillOutbound
    \/ \E a \in Addrs : \/ ShouldDial(a) \/ Dial(a) \/ Handshake(a) \/ SelfDialEnds(a) \/ Wait(a)
                        \/ Disconnect(a) \/ Hello(a) \/ HearOf(a)
    \/ \E k \in Addrs : Unban(k)
    \/ \E a \in Addrs \ Aliases : Flap(a)

\* Go schedules every runnable goroutine, dials and handshakes have timeouts and
\* the retry timer fires: a reservation is decided on, and a dial loop moves unless
\* it is connected.  (In each of its other states the loop can always step, so this
\* is weak fairness of its steps.)
Fairness ==
    \A a \in Addrs : /\ []<>(a \notin held)
                     /\ []<>(loop[a] \in {"none", "up"}) \/ []<><<loop'[a] # loop[a]>>_loop

Spec == Init /\ [][Next]_vars /\ Fairness
-----------------------------------------------------------------------------
(* Properties. *)

Looping == {a \in Addrs : loop[a] # "none"}

\* An outbound slot is held by exactly the addresses that have a dial loop or are
\* between reservation and approval, every group's count is exact and within its
\* share, and the number of loops is within -maxpeers, however gossip, the refill
\* tick, an operator, self-connections and shutdown interleave.
OutboundSlots ==
    /\ live = held \cup Looping /\ held \cap Looping = {}
    /\ \A g \in Groups :
        /\ liveGroups[g] = Cardinality({a \in live : Group[a] = g})
        /\ Cardinality({a \in live \ Loopback : Group[a] = g}) <= MaxOutboundPerGroup
    /\ stage = "up" => dialing = Looping \ selfAliases
    /\ Cardinality(dialing) <= MaxPeers

\* A node that dials itself under another name stops, and gives the slot back, even
\* when the alias keeps being gossiped or was on disk.
SelfDialsEnd == \A a \in Aliases : loop[a] # "none" ~> loop[a] = "none"

\* A peer that dropped, or could not be reached for a while, is connected again when
\* it can be: no sequence of failures, bans of others, retirements from the tables
\* or drops leaves its dial loop dead or stuck.
Reconnects ==
    \A a \in Addrs \ (Aliases \cup Strangers) :
        <>[](a \in reach /\ ~Banned(a)) =>
            \A r \in 0..MaxRestarts :
                (loop[a] # "none" /\ restarts = r) ~> (loop[a] = "up" \/ stage # "up" \/ restarts # r)
=============================================================================
