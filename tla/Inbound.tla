------------------------------- MODULE Inbound -------------------------------
(***************************************************************************)
(* Inbound connections (node/node.go, node/ban.go): admission under the    *)
(* total and the per-group cap before the handshake, a handler that may    *)
(* end at any point of the handshake or later, and scores kept by IP.      *)
(***************************************************************************)
EXTENDS Integers, FiniteSets, FiniteSetsExt, Functions

CONSTANTS
    Ips,                 \* where connections come from
    IpGroup,             \* [Ips -> network groups]
    Exempt,              \* loopback addresses
    MaxInbound, MaxInboundPerGroup,
    IpBanThreshold, IpBanHandshake,
    MaxPerIp             \* how many connections one address keeps open here

VARIABLES
    handlers,            \* [Ips -> handlers running, by how far they came]
    inboundTotal, inboundGroup,
    ipScore              \* [Ips -> ban score]

inboundVars == <<handlers, inboundTotal, inboundGroup, ipScore>>

Stages    == {"accepted", "handshake", "peer"}
IpGroups  == {IpGroup[i] : i \in Ips}
Open(i)   == handlers[i]["accepted"] + handlers[i]["handshake"] + handlers[i]["peer"]
Counted(i) == IF i \in Exempt THEN 0 ELSE 1

\* listen and admitInbound: the slot is taken before anything is known of the peer.
AdmitInbound(i) ==
    /\ Open(i) < MaxPerIp
    /\ i \notin Exempt => inboundTotal < MaxInbound /\ inboundGroup[IpGroup[i]] < MaxInboundPerGroup
    /\ handlers' = [handlers EXCEPT ![i]["accepted"] = @ + 1]
    /\ inboundTotal' = inboundTotal + Counted(i)
    /\ inboundGroup' = [inboundGroup EXCEPT ![IpGroup[i]] = @ + Counted(i)]
    /\ UNCHANGED ipScore

\* Mutant of ReleaseInbound: only a handler that got as far as a peer gives it back.
ReleaseInboundPeers(i, stage) ==
    LET n == IF stage = "peer" THEN Counted(i) ELSE 0
    IN  /\ inboundTotal' = inboundTotal - n
        /\ inboundGroup' = [inboundGroup EXCEPT ![IpGroup[i]] = @ - n]

ReleaseInbound(i, stage) ==
    LET n == Counted(i)
    IN  /\ inboundTotal' = inboundTotal - n
        /\ inboundGroup' = [inboundGroup EXCEPT ![IpGroup[i]] = @ - n]

IpBanned(i) == ipScore[i] >= IpBanThreshold

Moves(i, from, to) == handlers' = [handlers EXCEPT ![i][from] = @ - 1, ![i][to] = @ + 1]

Ends(i, stage) == handlers' = [handlers EXCEPT ![i][stage] = @ - 1] /\ ReleaseInbound(i, stage)

\* handleConn looks up the ban once, before the handshake: an address banned later, by
\* the failure of another of its connections, goes on with this one.
HandleConn(i) ==
    /\ handlers[i]["accepted"] > 0
    /\ \/ IpBanned(i) /\ Ends(i, "accepted")
       \/ ~IpBanned(i) /\ Moves(i, "accepted", "handshake") /\ UNCHANGED <<inboundTotal, inboundGroup>>
    /\ UNCHANGED ipScore

HandshakeDone(i) ==
    /\ handlers[i]["handshake"] > 0
    /\ Moves(i, "handshake", "peer")
    /\ UNCHANGED <<inboundTotal, inboundGroup, ipScore>>

\* A failed key exchange or a wrong signature is scored, unless the address is exempt;
\* silence, ourselves, a banned identity, another version or network is not.
HandshakeFails(i) ==
    /\ handlers[i]["handshake"] > 0
    /\ Ends(i, "handshake")
    /\ \/ i \notin Exempt /\ ipScore' = [ipScore EXCEPT ![i] = Min({@ + IpBanHandshake, IpBanThreshold})]
       \/ UNCHANGED ipScore

PeerEnds(i) ==
    /\ handlers[i]["peer"] > 0
    /\ Ends(i, "peer")
    /\ UNCHANGED ipScore

ClearBan(i) ==
    /\ ipScore[i] > 0
    /\ ipScore' = [ipScore EXCEPT ![i] = 0]
    /\ UNCHANGED <<handlers, inboundTotal, inboundGroup>>

Init ==
    /\ handlers = [i \in Ips |-> [s \in Stages |-> 0]]
    /\ inboundTotal = 0
    /\ inboundGroup = [g \in IpGroups |-> 0]
    /\ ipScore = [i \in Ips |-> 0]

Next == \E i \in Ips :
    AdmitInbound(i) \/ HandleConn(i) \/ HandshakeDone(i) \/ HandshakeFails(i) \/ PeerEnds(i) \/ ClearBan(i)

Spec == Init /\ [][Next]_inboundVars
-----------------------------------------------------------------------------
(***************************************************************************)
(* The counters are the connections being handled, in total and by group,  *)
(* however each of them ended, so the caps neither leak nor wear out       *)
(* (listen's deferred releaseInbound), and they hold.                      *)
(***************************************************************************)
Handled(S) == FoldFunctionOnSet(+, 0, [i \in Ips |-> Counted(i) * Open(i)], S)

InboundSlots ==
    /\ inboundTotal = Handled(Ips) /\ inboundTotal <= MaxInbound
    /\ \A g \in IpGroups :
        /\ inboundGroup[g] = Handled({i \in Ips : IpGroup[i] = g})
        /\ inboundGroup[g] <= MaxInboundPerGroup
=============================================================================
