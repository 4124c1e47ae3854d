----------------------------- MODULE PeersProofs -----------------------------
(***************************************************************************)
(* Proofs about Peers, for any finite set of addresses and any limits:     *)
(* outbound slots are accounted for exactly and stay within their shares.  *)
(***************************************************************************)
EXTENDS Peers, FiniteSetTheorems, TLAPS

\* The addresses of S in the group g.
In(S, g) == {a \in S : Group[a] = g}

\* The counts of the reservations, exact and within the groups' shares.
CountsInv ==
    /\ liveGroups = [g \in Groups |-> Cardinality(In(live, g))]
    /\ \A g \in Groups : Cardinality(In(live \ Loopback, g)) <= MaxOutboundPerGroup

\* Who holds a slot.  An address whose loop has just reached the node itself is
\* already off the list of dial loops, and known to be an alias.
SlotsInv ==
    /\ live \subseteq Addrs /\ dialing \subseteq Addrs
    /\ loop = [a \in Addrs |-> loop[a]]
    /\ live = held \cup Looping /\ held \cap Looping = {}
    /\ stage = "up" => dialing = Looping \ selfAliases
    /\ Cardinality(dialing) <= MaxPeers
    /\ \A a \in Addrs : loop[a] = "self" => a \in selfAliases
-----------------------------------------------------------------------------
(* Counting. *)

\* A group's addresses among finitely many.
LEMMA InFinite ==
    ASSUME PeersAssumption, NEW S \in SUBSET Addrs, NEW g
    PROVE  IsFiniteSet(In(S, g)) /\ Cardinality(In(S, g)) \in Nat
<1>1. In(S, g) \in SUBSET Addrs
    BY DEF In
<1> QED BY <1>1, FS_Subset, FS_CardinalityType DEF PeersAssumption

\* Addresses that join are counted in.
LEMMA CountJoined ==
    ASSUME PeersAssumption, NEW S \in SUBSET Addrs, NEW T \in SUBSET Addrs, S \cap T = {}, NEW g
    PROVE  Cardinality(In(S \cup T, g)) = Cardinality(In(S, g)) + Cardinality(In(T, g))
<1>1. In(S \cup T, g) = In(S, g) \cup In(T, g) /\ In(S, g) \cap In(T, g) = {}
    BY DEF In
<1>2. /\ IsFiniteSet(In(S, g)) /\ Cardinality(In(S, g)) \in Nat
      /\ IsFiniteSet(In(T, g)) /\ Cardinality(In(T, g)) \in Nat
    BY InFinite
<1>3. Cardinality(In(S, g) \cup In(T, g))
          = Cardinality(In(S, g)) + Cardinality(In(T, g)) - Cardinality(In(S, g) \cap In(T, g))
    BY <1>2, FS_Union
<1>4. Cardinality(In(S, g) \cap In(T, g)) = 0
    BY <1>1, FS_EmptySet
<1>5. Cardinality(In(S \cup T, g)) = Cardinality(In(S, g) \cup In(T, g))
    BY <1>1, Zenon
<1> QED BY <1>2, <1>3, <1>4, <1>5

\* An address that leaves is counted out of its own group.
LEMMA CountLeft ==
    ASSUME PeersAssumption, NEW S \in SUBSET Addrs, NEW a \in S, NEW g
    PROVE  Cardinality(In(S \ {a}, g)) = Cardinality(In(S, g)) - (IF Group[a] = g THEN 1 ELSE 0)
<1>1. IsFiniteSet(In(S, g)) /\ Cardinality(In(S, g)) \in Nat
    BY InFinite
<1>2. In(S \ {a}, g) = In(S, g) \ {a}
    BY DEF In
<1>3. Cardinality(In(S, g) \ {a})
          = IF a \in In(S, g) THEN Cardinality(In(S, g)) - 1 ELSE Cardinality(In(S, g))
    BY <1>1, FS_RemoveElement
<1>4. a \in In(S, g) <=> Group[a] = g
    BY DEF In
<1>5. Cardinality(In(S \ {a}, g)) = Cardinality(In(S, g) \ {a})
    BY <1>2, Zenon
<1> QED BY <1>1, <1>3, <1>4, <1>5

\* Fewer addresses, no more of a group.
LEMMA CountFewer ==
    ASSUME PeersAssumption, NEW S \in SUBSET Addrs, NEW T \in SUBSET S, NEW g
    PROVE  Cardinality(In(T, g)) <= Cardinality(In(S, g))
<1>1. IsFiniteSet(In(S, g)) /\ In(T, g) \in SUBSET In(S, g)
    BY InFinite DEF In
<1> QED BY <1>1, FS_Subset

\* Release.
LEMMA CountsReleased ==
    ASSUME PeersAssumption, CountsInv, live \subseteq Addrs, NEW a \in live, Release(a)
    PROVE  CountsInv'
<1>1. live' = live \ {a} /\ liveGroups' = [liveGroups EXCEPT ![Group[a]] = @ - 1] /\ a \in Addrs
    BY DEF Release
<1>2. Group[a] \in Groups
    BY <1>1 DEF Groups
<1>3. liveGroups' = [g \in Groups |-> Cardinality(In(live', g))]
    <2>1. liveGroups' = [g \in Groups |-> IF g = Group[a] THEN liveGroups[g] - 1 ELSE liveGroups[g]]
        BY <1>1, <1>2 DEF CountsInv
    <2>2. \A g \in Groups : liveGroups[g] = Cardinality(In(live, g))
        BY DEF CountsInv
    <2>3. \A g \in Groups : Cardinality(In(live, g)) \in Nat
        BY InFinite
    <2>4. \A g \in Groups : Cardinality(In(live', g)) = Cardinality(In(live, g)) - (IF Group[a] = g THEN 1 ELSE 0)
        BY <1>1, CountLeft
    <2>5. \A g \in Groups :
              (IF g = Group[a] THEN liveGroups[g] - 1 ELSE liveGroups[g]) = Cardinality(In(live', g))
        BY <2>2, <2>3, <2>4
    <2> QED BY <2>1, <2>5
<1>4. ASSUME NEW g \in Groups PROVE Cardinality(In(live' \ Loopback, g)) <= MaxOutboundPerGroup
    <2>1. /\ live \ Loopback \in SUBSET Addrs /\ live' \ Loopback \in SUBSET (live \ Loopback)
          /\ live' \ Loopback \in SUBSET Addrs
        BY <1>1
    <2>2. Cardinality(In(live' \ Loopback, g)) <= Cardinality(In(live \ Loopback, g))
        BY <2>1, CountFewer
    <2>3. Cardinality(In(live' \ Loopback, g)) \in Nat /\ Cardinality(In(live \ Loopback, g)) \in Nat
        BY <2>1, InFinite
    <2> QED BY <2>2, <2>3 DEF CountsInv, PeersAssumption
<1> QED BY <1>3, <1>4 DEF CountsInv

\* The addresses S fit in the shares that the counts c leave.
Fits(c, S) ==
    \A g \in Groups : In(S \ Loopback, g) = {} \/ c[g] + Cardinality(In(S \ Loopback, g)) <= MaxOutboundPerGroup

\* Reservations that fit.
LEMMA CountsReserved ==
    ASSUME PeersAssumption, CountsInv, live \subseteq Addrs, NEW S \in SUBSET Addrs, S \cap live = {},
           Fits(liveGroups, S), Reserve(S)
    PROVE  CountsInv'
<1>1. live' = live \cup S /\ liveGroups' = Counted(liveGroups, S) /\ live \cap S = {}
    BY DEF Reserve
<1>2. liveGroups' = [g \in Groups |-> Cardinality(In(live', g))]
    <2>1. liveGroups' = [g \in Groups |-> liveGroups[g] + Cardinality(In(S, g))]
        BY <1>1 DEF Counted, In
    <2>2. \A g \in Groups : liveGroups[g] = Cardinality(In(live, g))
        BY DEF CountsInv
    <2>3. \A g \in Groups : Cardinality(In(live', g)) = Cardinality(In(live, g)) + Cardinality(In(S, g))
        BY <1>1, CountJoined
    <2>4. \A g \in Groups : liveGroups[g] + Cardinality(In(S, g)) = Cardinality(In(live', g))
        BY <2>2, <2>3
    <2> QED BY <2>1, <2>4
<1>3. ASSUME NEW g \in Groups PROVE Cardinality(In(live' \ Loopback, g)) <= MaxOutboundPerGroup
    <2> DEFINE U == live \ Loopback
               V == S \ Loopback
    <2>1. /\ U \in SUBSET Addrs /\ V \in SUBSET Addrs /\ U \cap V = {} /\ live' \ Loopback = U \cup V
          /\ U \in SUBSET live /\ live \in SUBSET Addrs
        BY <1>1
    <2> HIDE DEF U, V
    <2>2. Cardinality(In(U \cup V, g)) = Cardinality(In(U, g)) + Cardinality(In(V, g))
        BY <2>1, CountJoined
    <2>3. /\ Cardinality(In(U, g)) \in Nat /\ Cardinality(In(V, g)) \in Nat
          /\ Cardinality(In(live, g)) \in Nat
        BY <2>1, InFinite
    <2>4. Cardinality(In(U, g)) <= Cardinality(In(live, g))
        BY <2>1, CountFewer
    <2>5. Cardinality(In(U, g)) <= MaxOutboundPerGroup /\ liveGroups[g] = Cardinality(In(live, g))
        BY DEF CountsInv, U
    <2>6. Cardinality(In(U, g)) + Cardinality(In(V, g)) <= MaxOutboundPerGroup
        <3>1. CASE In(V, g) = {}
            <4>1. Cardinality(In(V, g)) = 0
                BY <3>1, FS_EmptySet
            <4> QED BY <2>3, <2>5, <4>1 DEF PeersAssumption
        <3>2. CASE In(V, g) # {}
            <4>1. liveGroups[g] + Cardinality(In(V, g)) <= MaxOutboundPerGroup
                BY <3>2 DEF Fits, V
            <4> QED BY <2>3, <2>4, <2>5, <4>1 DEF PeersAssumption
        <3> QED BY <3>1, <3>2
    <2>7. Cardinality(In(live' \ Loopback, g)) = Cardinality(In(U \cup V, g))
        BY <2>1, Zenon
    <2> QED BY <2>2, <2>6, <2>7
<1> QED BY <1>2, <1>3 DEF CountsInv

\* What Select returns: addresses without a slot, that fit.
LEMMA SelectionFits ==
    ASSUME PeersAssumption, CountsInv, live \subseteq Addrs, NEW n \in Int, NEW R \in Selections(n)
    PROVE  R \in SUBSET Addrs /\ R \cap live = {} /\ Fits(liveGroups, R)
<1> DEFINE ok(tried) == {a \in Addrs \ live : a \in Table(entries, tried) \ selfAliases /\ ~ConnectedTo(a)}
<1>1. PICK S \in Picks(ok(TRUE), liveGroups, n) :
          \E F \in Picks(ok(FALSE), Counted(liveGroups, S), n - Cardinality(S)) : R = S \cup F
    BY DEF Selections
<1>2. PICK F \in Picks(ok(FALSE), Counted(liveGroups, S), n - Cardinality(S)) : R = S \cup F
    BY <1>1
<1>3. S \subseteq ok(TRUE) /\ F \subseteq ok(FALSE)
    BY <1>1, <1>2 DEF Picks
<1>4. ok(TRUE) \cap ok(FALSE) = {}
    BY DEF Table
<1>5. /\ S \in SUBSET Addrs /\ F \in SUBSET Addrs /\ R \in SUBSET Addrs
      /\ R \cap live = {} /\ S \cap F = {}
    BY <1>2, <1>3, <1>4
<1>6. \A a \in S \ Loopback : Counted(liveGroups, S \ Loopback)[Group[a]] <= MaxOutboundPerGroup
    BY <1>1 DEF Picks
<1>7. \A a \in F \ Loopback :
          Counted(Counted(liveGroups, S), F \ Loopback)[Group[a]] <= MaxOutboundPerGroup
    BY <1>2 DEF Picks
<1> HIDE DEF ok
<1>8. ASSUME NEW g \in Groups, In(R \ Loopback, g) # {}
      PROVE  liveGroups[g] + Cardinality(In(R \ Loopback, g)) <= MaxOutboundPerGroup
    <2> DEFINE U == S \ Loopback
               V == F \ Loopback
    <2>1. /\ U \in SUBSET Addrs /\ V \in SUBSET Addrs /\ U \cap V = {} /\ R \ Loopback = U \cup V
          /\ U \in SUBSET S
        BY <1>2, <1>5
    <2>2. Cardinality(In(R \ Loopback, g)) = Cardinality(In(U, g)) + Cardinality(In(V, g))
        <3> HIDE DEF U, V
        <3>1. Cardinality(In(U \cup V, g)) = Cardinality(In(U, g)) + Cardinality(In(V, g))
            BY <2>1, CountJoined
        <3>2. Cardinality(In(R \ Loopback, g)) = Cardinality(In(U \cup V, g))
            BY <2>1, Zenon
        <3> QED BY <3>1, <3>2
    <2>3. /\ Cardinality(In(U, g)) \in Nat /\ Cardinality(In(V, g)) \in Nat
          /\ Cardinality(In(S, g)) \in Nat /\ liveGroups[g] \in Nat
        <3>1. liveGroups[g] = Cardinality(In(live, g))
            BY DEF CountsInv
        <3> HIDE DEF U, V
        <3> QED BY <1>5, <2>1, <3>1, InFinite
    <2>4. Cardinality(In(U, g)) <= Cardinality(In(S, g))
        <3> HIDE DEF U, V
        <3> QED BY <1>5, <2>1, CountFewer
    <2>5. /\ Counted(liveGroups, U)[g] = liveGroups[g] + Cardinality(In(U, g))
          /\ Counted(Counted(liveGroups, S), V)[g]
                 = (liveGroups[g] + Cardinality(In(S, g))) + Cardinality(In(V, g))
        <3> HIDE DEF U, V
        <3>1. \A c, T : Counted(c, T)[g] = c[g] + Cardinality(In(T, g))
            BY Zenon DEF Counted, In
        <3> QED BY <3>1, Zenon
    <2>6. CASE In(V, g) # {}
        <3>1. PICK a \in V : Group[a] = g
            BY <2>6 DEF In
        <3>2. Counted(Counted(liveGroups, S), V)[g] <= MaxOutboundPerGroup
            BY <1>7, <3>1, Zenon
        <3> HIDE DEF U, V
        <3> QED BY <2>2, <2>3, <2>4, <2>5, <3>2 DEF PeersAssumption
    <2>7. CASE In(V, g) = {}
        <3>1. Cardinality(In(V, g)) = 0
            BY <2>7, FS_EmptySet
        <3>2. PICK a \in U : Group[a] = g
            BY <1>8, <2>1, <2>7 DEF In
        <3>3. Counted(liveGroups, U)[g] <= MaxOutboundPerGroup
            BY <1>6, <3>2, Zenon
        <3> HIDE DEF U, V
        <3> QED BY <2>2, <2>3, <2>5, <3>1, <3>3 DEF PeersAssumption
    <2> QED BY <2>6, <2>7
<1> QED BY <1>5, <1>8 DEF Fits
-----------------------------------------------------------------------------
(* Step by step. *)

PeersInv == SlotsInv /\ CountsInv

\* One loop moves.
LEMMA LoopMoves ==
    ASSUME SlotsInv, NEW a \in Addrs, NEW x, loop' = [loop EXCEPT ![a] = x]
    PROVE  /\ loop' = [b \in Addrs |-> loop'[b]]
           /\ loop'[a] = x /\ \A b \in Addrs \ {a} : loop'[b] = loop[b]
           /\ Looping' = IF x = "none" THEN Looping \ {a} ELSE Looping \cup {a}
<1>1. loop = [b \in Addrs |-> loop[b]]
    BY DEF SlotsInv
<1>2. loop' = [b \in Addrs |-> IF b = a THEN x ELSE loop[b]]
    BY <1>1
<1>3. loop' = [b \in Addrs |-> loop'[b]] /\ loop'[a] = x /\ \A b \in Addrs \ {a} : loop'[b] = loop[b]
    BY <1>2
<1> QED BY <1>3 DEF Looping

\* Nothing that the counts speak of has moved.
LEMMA CountsSame ==
    ASSUME CountsInv, UNCHANGED <<live, liveGroups>>
    PROVE  CountsInv'
BY DEF CountsInv, In

\* A loop moves on, and keeps its slot.
LEMMA LoopGoesOn ==
    ASSUME PeersInv, NEW a \in Looping, NEW x, x # "none", x # "self", loop' = [loop EXCEPT ![a] = x],
           UNCHANGED <<live, liveGroups, held, dialing, selfAliases, stage>>
    PROVE  PeersInv'
<1>1. a \in Addrs
    BY DEF Looping
<1>2. /\ loop' = [b \in Addrs |-> loop'[b]]
      /\ loop'[a] = x /\ \A b \in Addrs \ {a} : loop'[b] = loop[b]
      /\ Looping' = Looping \cup {a}
    BY <1>1, LoopMoves DEF PeersInv
<1>4. Looping' = Looping
    BY <1>2
<1>3. SlotsInv'
    BY <1>2, <1>4 DEF PeersInv, SlotsInv
<1> QED BY <1>3, CountsSame DEF PeersInv

\* A loop ends, and gives its slot back.
LEMMA LoopEnds ==
    ASSUME PeersAssumption, PeersInv, NEW a \in Looping, loop' = [loop EXCEPT ![a] = "none"], Release(a),
           UNCHANGED <<held, dialing, selfAliases, stage>>, stage = "up" => a \in selfAliases
    PROVE  PeersInv'
<1>1. a \in Addrs /\ a \in live /\ a \notin held
    BY DEF Looping, PeersInv, SlotsInv
<1>2. /\ loop' = [b \in Addrs |-> loop'[b]]
      /\ loop'[a] = "none" /\ \A b \in Addrs \ {a} : loop'[b] = loop[b]
      /\ Looping' = Looping \ {a}
    BY <1>1, LoopMoves DEF PeersInv
<1>3. live' = live \ {a}
    BY DEF Release
<1>4. SlotsInv'
    BY <1>1, <1>2, <1>3 DEF PeersInv, SlotsInv
<1> QED BY <1>1, <1>4, CountsReleased DEF PeersInv, SlotsInv

\* Reservations, until they are decided on.
LEMMA SlotsReserved ==
    ASSUME PeersAssumption, PeersInv, NEW S \in SUBSET Addrs, S \cap live = {}, Fits(liveGroups, S), Reserve(S),
           UNCHANGED <<loop, dialing, selfAliases, stage>>
    PROVE  PeersInv'
<1>1. live' = live \cup S /\ held' = held \cup S /\ Looping' = Looping
    BY DEF Reserve, Looping
<1>2. SlotsInv'
    BY <1>1 DEF PeersInv, SlotsInv
<1>3. CountsInv'
    BY CountsReserved DEF PeersInv, SlotsInv
<1> QED BY <1>2, <1>3 DEF PeersInv

NoSlots ==
    /\ live = {} /\ liveGroups = [g \in Groups |-> 0] /\ dialing = {} /\ held = {}
    /\ loop = [a \in Addrs |-> "none"]

\* A new process holds no slot.
LEMMA SlotsBoot ==
    ASSUME PeersAssumption
    PROVE  NoSlots => PeersInv
<1> SUFFICES ASSUME NoSlots PROVE PeersInv
    OBVIOUS
<1> USE DEF NoSlots
<1>1. \A g : In({}, g) = {} /\ In({} \ Loopback, g) = {}
    BY DEF In
<1>2. Cardinality({}) = 0
    BY FS_EmptySet
<1>3. \A g : Cardinality(In(live, g)) = 0 /\ Cardinality(In(live \ Loopback, g)) = 0
    BY <1>1, <1>2
<1>4. CountsInv
    BY <1>3 DEF CountsInv, PeersAssumption
<1>5. Looping = {}
    BY DEF Looping
<1>6. SlotsInv
    BY <1>2, <1>5 DEF SlotsInv, PeersAssumption
<1> QED BY <1>4, <1>6 DEF PeersInv

\* shouldDial.
LEMMA SlotsDecided ==
    ASSUME PeersAssumption, PeersInv, NEW a \in Addrs, ShouldDial(a)
    PROVE  PeersInv'
<1>1. /\ a \in held /\ held' = held \ {a} /\ UNCHANGED <<selfAliases, stage>>
      /\ a \in live /\ a \notin Looping
    BY DEF ShouldDial, PeersInv, SlotsInv
<1>2. CASE a \in selfAliases \cup dialing \/ Cardinality(dialing) >= MaxPeers
    <2>1. Release(a) /\ UNCHANGED <<dialing, loop>> /\ live' = live \ {a} /\ Looping' = Looping
        BY <1>2 DEF ShouldDial, Release, Looping
    <2>2. SlotsInv'
        BY <1>1, <2>1 DEF PeersInv, SlotsInv
    <2> QED BY <1>1, <2>1, <2>2, CountsReleased DEF PeersInv, SlotsInv
<1>3. CASE ~(a \in selfAliases \cup dialing \/ Cardinality(dialing) >= MaxPeers)
    <2>1. /\ dialing' = dialing \cup {a} /\ loop' = [loop EXCEPT ![a] = "dial"]
          /\ UNCHANGED <<live, liveGroups>> /\ a \notin dialing /\ a \notin selfAliases
          /\ ~(Cardinality(dialing) >= MaxPeers)
        BY <1>3 DEF ShouldDial
    <2>2. /\ loop' = [b \in Addrs |-> loop'[b]]
          /\ loop'[a] = "dial" /\ \A b \in Addrs \ {a} : loop'[b] = loop[b]
          /\ Looping' = Looping \cup {a}
        BY <2>1, LoopMoves DEF PeersInv
    <2>3. Cardinality(dialing') <= MaxPeers
        <3>1. IsFiniteSet(dialing)
            BY FS_Subset DEF PeersInv, SlotsInv, PeersAssumption
        <3>2. Cardinality(dialing) \in Nat /\ Cardinality(dialing \cup {a}) = Cardinality(dialing) + 1
            BY <2>1, <3>1, FS_AddElement, FS_CardinalityType
        <3> QED BY <2>1, <3>2 DEF PeersAssumption
    <2>4. SlotsInv'
        BY <1>1, <2>1, <2>2, <2>3 DEF PeersInv, SlotsInv
    <2> QED BY <2>1, <2>4, CountsSame DEF PeersInv
<1> QED BY <1>2, <1>3

\* handleConn: on to a connection, back to waiting, or found to be the node itself.
LEMMA SlotsHandshake ==
    ASSUME PeersAssumption, PeersInv, NEW a \in Addrs, Handshake(a)
    PROVE  PeersInv'
<1>1. a \in Looping /\ UNCHANGED <<live, liveGroups, held, stage>>
    BY DEF Handshake, Looping
<1>2. CASE loop' = [loop EXCEPT ![a] = "wait"] /\ UNCHANGED <<dialing, selfAliases>>
    BY <1>1, <1>2, LoopGoesOn
<1>3. CASE loop' = [loop EXCEPT ![a] = "up"] /\ UNCHANGED <<dialing, selfAliases>>
    BY <1>1, <1>3, LoopGoesOn
<1>4. CASE /\ loop' = [loop EXCEPT ![a] = "self"] /\ selfAliases' = selfAliases \cup {a}
           /\ dialing' = dialing \ {a}
    <2>1. /\ loop' = [b \in Addrs |-> loop'[b]]
          /\ loop'[a] = "self" /\ \A b \in Addrs \ {a} : loop'[b] = loop[b]
          /\ Looping' = Looping \cup {a}
        BY <1>4, LoopMoves DEF PeersInv
    <2>4. Looping' = Looping
        BY <1>1, <2>1
    <2>2. Cardinality(dialing') <= MaxPeers
        <3>1. IsFiniteSet(dialing) /\ dialing' \in SUBSET dialing
            BY <1>4, FS_Subset DEF PeersInv, SlotsInv, PeersAssumption
        <3>2. Cardinality(dialing') <= Cardinality(dialing) /\ Cardinality(dialing) \in Nat /\ Cardinality(dialing') \in Nat
            BY <3>1, FS_Subset, FS_CardinalityType
        <3> QED BY <3>2 DEF PeersInv, SlotsInv, PeersAssumption
    <2>3. SlotsInv'
        BY <1>1, <1>4, <2>1, <2>2, <2>4 DEF PeersInv, SlotsInv
    <2> QED BY <1>1, <2>3, CountsSame DEF PeersInv
<1> QED BY <1>2, <1>3, <1>4 DEF Handshake, book

\* Every step keeps the slots accounted for.
LEMMA PeersStep == PeersAssumption /\ PeersInv /\ [Next]_vars => PeersInv'
<1> SUFFICES ASSUME PeersAssumption, PeersInv, [Next]_vars PROVE PeersInv'
    OBVIOUS
<1> USE DEF outbound, book, env
<1>1. CASE Stop \/ SaveState
    <2>1. UNCHANGED <<live, liveGroups, dialing, held, selfAliases, loop>> /\ stage' # "up"
        BY <1>1 DEF Stop, SaveState
    <2>2. SlotsInv'
        BY <2>1 DEF PeersInv, SlotsInv, Looping
    <2> QED BY <2>1, <2>2, CountsSame DEF PeersInv
<1>2. CASE ClosePeers
    <2>1. /\ UNCHANGED <<live, liveGroups, dialing, held, selfAliases>> /\ stage' # "up"
          /\ loop' = [a \in Addrs |-> IF loop[a] = "up" THEN "wait" ELSE loop[a]]
        BY <1>2 DEF ClosePeers
    <2>2. \A a \in Addrs : loop'[a] = IF loop[a] = "up" THEN "wait" ELSE loop[a]
        BY <2>1
    <2>3. Looping' = Looping /\ \A a \in Addrs : loop'[a] = "self" => loop[a] = "self"
        BY <2>2 DEF Looping
    <2>4. loop' = [a \in Addrs |-> loop'[a]]
        BY <2>1
    <2>5. SlotsInv'
        BY <2>1, <2>3, <2>4 DEF PeersInv, SlotsInv
    <2> QED BY <2>1, <2>5, CountsSame DEF PeersInv
<1>3. CASE Restart
    <2>1. NoSlots'
        BY <1>3 DEF Restart, Boot, NoSlots
    <2> QED BY <2>1, SlotsBoot, PTL
<1>4. CASE FillOutbound
    <2>1. PICK n : n = MaxPeers - Cardinality(dialing)
        OBVIOUS
    <2>2. n \in Int
        <3>1. Cardinality(dialing) \in Nat
            BY FS_Subset, FS_CardinalityType DEF PeersInv, SlotsInv, PeersAssumption
        <3> QED BY <2>1, <3>1 DEF PeersAssumption
    <2>3. PICK S \in Selections(n) : Reserve(S)
        BY <1>4, <2>1 DEF FillOutbound
    <2>4. S \in SUBSET Addrs /\ S \cap live = {} /\ Fits(liveGroups, S)
        BY <2>2, SelectionFits DEF PeersInv, SlotsInv
    <2>5. UNCHANGED <<loop, dialing, selfAliases, stage>>
        BY <1>4 DEF FillOutbound
    <2> QED BY <2>3, <2>4, <2>5, SlotsReserved
<1>5. ASSUME NEW a \in Addrs, ShouldDial(a) PROVE PeersInv'
    BY <1>5, SlotsDecided
<1>6. ASSUME NEW a \in Addrs, Dial(a) PROVE PeersInv'
    <2>1. /\ a \in Looping /\ UNCHANGED <<live, liveGroups, held, dialing, selfAliases, stage>>
          /\ \E x \in {"hand", "wait"} : loop' = [loop EXCEPT ![a] = x]
        BY <1>6 DEF Dial, Looping
    <2> QED BY <2>1, LoopGoesOn
<1>7. ASSUME NEW a \in Addrs, Handshake(a) PROVE PeersInv'
    BY <1>7, SlotsHandshake
<1>8. ASSUME NEW a \in Addrs, SelfDialEnds(a) PROVE PeersInv'
    <2>1. /\ a \in Looping /\ Release(a) /\ UNCHANGED <<held, dialing, selfAliases, stage>>
          /\ loop' = [loop EXCEPT ![a] = "none"]
        BY <1>8 DEF SelfDialEnds, Looping
    <2>2. a \in selfAliases
        BY <1>8 DEF SelfDialEnds, PeersInv, SlotsInv
    <2> QED BY <2>1, <2>2, LoopEnds
<1>9. ASSUME NEW a \in Addrs, Wait(a) PROVE PeersInv'
    <2>1. a \in Looping /\ UNCHANGED <<held, dialing, selfAliases, stage>>
        BY <1>9 DEF Wait, Looping
    <2>2. CASE stage = "up"
        <3>1. loop' = [loop EXCEPT ![a] = "dial"] /\ UNCHANGED <<live, liveGroups>>
            BY <1>9, <2>2 DEF Wait
        <3> QED BY <2>1, <3>1, LoopGoesOn
    <2>3. CASE stage # "up"
        <3>1. loop' = [loop EXCEPT ![a] = "none"] /\ Release(a)
            BY <1>9, <2>3 DEF Wait
        <3> QED BY <2>1, <2>3, <3>1, LoopEnds
    <2> QED BY <2>2, <2>3
<1>10. ASSUME NEW a \in Addrs, Disconnect(a) PROVE PeersInv'
    <2>1. /\ a \in Looping /\ UNCHANGED <<live, liveGroups, held, dialing, selfAliases, stage>>
          /\ loop' = [loop EXCEPT ![a] = "wait"]
        BY <1>10 DEF Disconnect, Looping
    <2> QED BY <2>1, LoopGoesOn
<1>11. ASSUME NEW a \in Addrs, HearOf(a) PROVE PeersInv'
    <2>1. UNCHANGED <<dialing, selfAliases, loop, stage>>
        BY <1>11 DEF HearOf
    <2>2. CASE ~ConnectedTo(a) /\ Reservable(live, liveGroups, a)
        <3>1. Reserve({a}) /\ {a} \in SUBSET Addrs /\ {a} \cap live = {}
            BY <1>11, <2>2 DEF HearOf, Reservable
        <3>2. ASSUME NEW g \in Groups, In({a} \ Loopback, g) # {}
              PROVE  liveGroups[g] + Cardinality(In({a} \ Loopback, g)) <= MaxOutboundPerGroup
            <4>1. a \notin Loopback /\ Group[a] = g /\ In({a} \ Loopback, g) = {a}
                BY <3>2 DEF In
            <4>2. liveGroups[g] < MaxOutboundPerGroup
                BY <2>2, <4>1 DEF Reservable
            <4>3. Cardinality(In({a} \ Loopback, g)) = 1
                BY <4>1, FS_Singleton, Zenon
            <4>4. liveGroups[g] \in Nat
                <5>1. liveGroups[g] = Cardinality(In(live, g))
                    BY DEF PeersInv, CountsInv
                <5> QED BY <5>1, InFinite DEF PeersInv, SlotsInv
            <4> QED BY <4>2, <4>3, <4>4 DEF PeersAssumption
        <3>3. Fits(liveGroups, {a})
            BY <3>2 DEF Fits
        <3> QED BY <2>1, <3>1, <3>3, SlotsReserved
    <2>3. CASE ~(~ConnectedTo(a) /\ Reservable(live, liveGroups, a))
        <3>1. UNCHANGED <<live, liveGroups, held>>
            BY <1>11, <2>3 DEF HearOf
        <3>2. SlotsInv'
            BY <2>1, <3>1 DEF PeersInv, SlotsInv, Looping
        <3> QED BY <3>1, <3>2, CountsSame DEF PeersInv
    <2> QED BY <2>2, <2>3
<1>12. ASSUME \/ \E a \in Addrs : Hello(a)
              \/ \E k \in Addrs : Unban(k)
              \/ \E a \in Addrs \ Aliases : Flap(a)
              \/ UNCHANGED vars
       PROVE  PeersInv'
    <2>1. UNCHANGED <<live, liveGroups, dialing, held, selfAliases, loop, stage>>
        BY <1>12 DEF Hello, Unban, Flap, vars
    <2>2. SlotsInv'
        BY <2>1 DEF PeersInv, SlotsInv, Looping
    <2> QED BY <2>1, <2>2, CountsSame DEF PeersInv
<1> QED BY <1>1, <1>2, <1>3, <1>4, <1>5, <1>6, <1>7, <1>8, <1>9, <1>10, <1>11, <1>12 DEF Next

\* addrman's reservations, the peerbook's approvals and the dial loops, for any
\* addresses and limits: an outbound slot is held by exactly the addresses that are
\* being decided on or have a dial loop, every group's count is exact and within its
\* share, and the loops are within -maxpeers.
THEOREM PeersCountSlots ==
    ASSUME PeersAssumption
    PROVE  Spec => []OutboundSlots
<1>1. Init => PeersInv
    BY SlotsBoot DEF Init, NoSlots
<1>2. PeersInv /\ [Next]_vars => PeersInv'
    BY PeersStep
<1>3. PeersInv => OutboundSlots
    <2> SUFFICES ASSUME PeersInv PROVE OutboundSlots
        OBVIOUS
    <2>1. \A g \in Groups :
              /\ liveGroups[g] = Cardinality({a \in live : Group[a] = g})
              /\ Cardinality({a \in live \ Loopback : Group[a] = g}) <= MaxOutboundPerGroup
        BY DEF PeersInv, CountsInv, In
    <2> QED BY <2>1 DEF PeersInv, SlotsInv, OutboundSlots
<1> QED BY <1>1, <1>2, <1>3, PTL DEF Spec
=============================================================================
