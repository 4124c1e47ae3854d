---------------------------- MODULE VersionBits ----------------------------
(***************************************************************************)
(* Miner-voted rule changes (core/versionbits.go, core/upgrade.go): how    *)
(* evaluateDeployment reads the votes in the headers, how the activation   *)
(* height it finds is installed in the upgrade table whenever the block    *)
(* list changes, and how block validation reads that table.                *)
(*                                                                         *)
(* A block either votes for the deployment or not, and either uses the new *)
(* rule (valid only where the upgrade is active, like a vault spend) or    *)
(* not.  Every block has the same work.                                    *)
(***************************************************************************)
EXTENDS Integers, Sequences, FiniteSets, FiniteSetsExt

CONSTANTS Start, Window, Threshold, Timeout,  \* the Deployment's terms
          MaxReorgDepth,                      \* params.go
          MaxHeight, MaxSuffix                \* bounds on the chain and on a reorg

VARIABLES chain,    \* bc.blocks above genesis
          schedule  \* upgrades[name], 0 when unscheduled

vars == <<chain, schedule>>

\* Deployment.Validate.
DeploymentValid ==
    /\ Start \in Nat /\ Timeout \in Nat /\ MaxHeight \in Nat /\ MaxReorgDepth \in Nat /\ MaxSuffix \in Nat
    /\ Window \in Nat \ {0}
    /\ Threshold \in 1 .. Window
    /\ Timeout >= Start + Window

Block == [votes : BOOLEAN, usesRule : BOOLEAN]

States == {"defined", "started", "locked_in", "active", "failed"}

\* signalsIn: votes in the window that begins at a height (genesis casts none).
SignalsIn(c, from) ==
    Cardinality({h \in from .. (from + Window - 1) : h \in DOMAIN c /\ c[h].votes})

WinStart(k) == Start + k * Window

\* One turn of the loop: the state of window k from the state of window k - 1.
NextStatus(c, st, k) ==
    CASE st.state = "started" /\ SignalsIn(c, WinStart(k - 1)) >= Threshold ->
            [state |-> "locked_in", activation |-> WinStart(k + 1)]
      [] st.state = "started" /\ WinStart(k) > Timeout ->
            [state |-> "failed", activation |-> 0]
      [] st.state = "locked_in" ->
            [state |-> "active", activation |-> WinStart(k)]
      [] OTHER -> st

EvaluateDeployment(c) ==
    LET last == (Len(c) - Start) \div Window
        status[k \in 0 .. last] ==
            IF k = 0 THEN [state |-> "started", activation |-> 0]
                     ELSE NextStatus(c, status[k - 1], k)
    IN  IF Len(c) < Start THEN [state |-> "defined", activation |-> 0]
                          ELSE status[last]

\* What refreshDeploymentsLocked leaves in the upgrade table.
Activation(c) == EvaluateDeployment(c).activation

IsUpgradeActive(act, h) == act # 0 /\ h >= act

\* checkTxAtHeight for a rule that must be active to be used.
BlockOk(b, h, act) == b.usesRule => IsUpgradeActive(act, h)
-----------------------------------------------------------------------------
Init ==
    /\ chain = <<>>
    /\ schedule = Activation(<<>>)

AddBlock(b) ==
    /\ Len(chain) < MaxHeight
    /\ BlockOk(b, Len(chain) + 1, schedule)
    /\ chain' = Append(chain, b)
    /\ schedule' = Activation(chain')

\* Mutant of Reorg: the table is not refreshed.
ReorgStale(fork, suffix) ==
    /\ Len(chain) - fork <= MaxReorgDepth
    /\ fork + Len(suffix) > Len(chain)
    /\ \A i \in DOMAIN suffix : BlockOk(suffix[i], fork + i, schedule)
    /\ chain' = SubSeq(chain, 1, fork) \o suffix
    /\ UNCHANGED schedule

\* reorgLocked: the whole suffix is validated, then committed, then the table
\* is refreshed.
Reorg(fork, suffix) ==
    /\ Len(chain) - fork <= MaxReorgDepth
    /\ fork + Len(suffix) > Len(chain)
    /\ \A i \in DOMAIN suffix : BlockOk(suffix[i], fork + i, schedule)
    /\ chain' = SubSeq(chain, 1, fork) \o suffix
    /\ schedule' = Activation(chain')

Suffixes == UNION {[1 .. n -> Block] : n \in 1 .. MaxSuffix}

Next ==
    \/ \E b \in Block : AddBlock(b)
    \/ \E fork \in 0 .. Len(chain), suffix \in Suffixes :
           fork + Len(suffix) <= MaxHeight /\ Reorg(fork, suffix)

Spec == Init /\ [][Next]_vars
-----------------------------------------------------------------------------
(* Properties. *)

\* Reference definition of the vote: the windows that begin right after one that
\* reached the threshold, with no earlier window boundary beyond the timeout.
Last == (Len(chain) - Start) \div Window

Won ==
    {k \in 1 .. Last : /\ SignalsIn(chain, WinStart(k - 1)) >= Threshold
                       /\ \A j \in 1 .. (k - 1) : WinStart(j) <= Timeout}

Outcome ==
    IF Len(chain) < Start THEN "defined"
    ELSE IF Won # {} THEN IF Min(Won) = Last THEN "locked_in" ELSE "active"
    ELSE IF \E j \in 1 .. Last : WinStart(j) > Timeout THEN "failed" ELSE "started"

\* The loop of evaluateDeployment computes the vote's outcome, and the table blocks
\* are validated with is the one the votes of the current chain define (one whole
\* window after the first to carry the vote), also after a reorg that undid a
\* lock-in or moved it (refreshDeploymentsLocked).  So only a reorg can move or
\* withdraw a lock-in, and an activation is known a window ahead.
ScheduleFollowsChain ==
    /\ EvaluateDeployment(chain).state = Outcome
    /\ schedule = IF Won = {} THEN 0 ELSE WinStart(Min(Won) + 1)

\* versionbits.go: the rule follows the chain, not the order in which blocks
\* arrived; so the chain held is one that replaying it block by block accepts,
\* as Open does at the next start.
RuleFollowsChain ==
    \A h \in DOMAIN chain : BlockOk(chain[h], h, Activation(SubSeq(chain, 1, h - 1)))
=============================================================================
