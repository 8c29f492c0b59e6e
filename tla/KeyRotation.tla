---------------------------- MODULE KeyRotation ----------------------------
(***************************************************************************)
(* The operator's decisions on key rotations (LocalKeyRotationRegistry of  *)
(* src/src/runner_swarm/key_rotation.py), and the identities of a node     *)
(* that follow from them.                                                  *)
(*                                                                         *)
(* Signatures and the times of a rotation are checked first and refuse an  *)
(* operation with no effect; they are left out.  LocalTrustStore keeps the *)
(* decisions in their order and replays them into a registry for each use, *)
(* so that a restart changes nothing.                                      *)
(***************************************************************************)
EXTENDS Integers, FiniteSets

CONSTANTS
  Nodes,
  Rotations,                \* signed rotations that the operator may be shown
  OldOf, NewOf, SequenceOf  \* of each: its identities and sequence number

ASSUME KeyRotationAssumption ==
  /\ IsFiniteSet(Nodes) /\ "cycle" \notin Nodes
  /\ OldOf \in [Rotations -> Nodes] /\ NewOf \in [Rotations -> Nodes]
  /\ \A r \in Rotations : OldOf[r] # NewOf[r]
  /\ SequenceOf \in [Rotations -> Nat]

VARIABLE latest  \* the last decision on each rotation

RotationTypeOK == latest \in [Rotations -> {"none", "accepted", "rejected", "revoked"}]

RotationInit == latest = [r \in Rotations |-> "none"]

-----------------------------------------------------------------------------
Accepted == {r \in Rotations : latest[r] = "accepted"}

_active_decision_for_old(n) == {r \in Accepted : OldOf[r] = n}

Successor(n) ==
  LET active == _active_decision_for_old(n) IN
  IF active = {} THEN n ELSE NewOf[CHOOSE r \in active : TRUE]

\* Where the accepted rotations lead; "cycle" where the code raises.
resolve(n) ==
  LET walk[i \in 0..Cardinality(Nodes)] == IF i = 0 THEN n ELSE Successor(walk[i - 1])
      end == walk[Cardinality(Nodes)]
  IN IF _active_decision_for_old(end) = {} THEN end ELSE "cycle"

is_continuation(m, n) == resolve(m) = resolve(n)

\* All identities whose accepted rotations lead where those of n lead.
continuity_node_ids(n) ==
  LET back[i \in 0..Cardinality(Nodes)] ==
        IF i = 0 THEN {resolve(n)}
        ELSE back[i - 1] \cup {OldOf[r] : r \in {q \in Accepted : NewOf[q] \in back[i - 1]}}
  IN back[Cardinality(Nodes)]

Record(r, status) == latest' = [latest EXCEPT ![r] = status]

OthersOfOld(r) == {q \in Rotations \ {r} : OldOf[q] = OldOf[r]}

accept_Circle(r) ==
  /\ _active_decision_for_old(OldOf[r]) \subseteq {r}
  /\ \A q \in OthersOfOld(r) : latest[q] # "none" => SequenceOf[q] < SequenceOf[r]
  /\ Record(r, "accepted")
accept(r) ==
  /\ _active_decision_for_old(OldOf[r]) \subseteq {r}
  /\ resolve(NewOf[r]) # OldOf[r]
  /\ \A q \in OthersOfOld(r) : latest[q] # "none" => SequenceOf[q] < SequenceOf[r]
  /\ Record(r, "accepted")

reject(r) ==
  /\ latest[r] # "accepted"
  /\ Record(r, "rejected")

revoke(r) ==
  /\ latest[r] = "accepted"
  /\ Record(r, "revoked")

RotationNext == \E r \in Rotations : accept(r) \/ reject(r) \/ revoke(r)

RotationSpec == RotationInit /\ [][RotationNext]_latest

-----------------------------------------------------------------------------
\* Who is who does not depend on whom one asks.  Whatever the operator accepts,
\* rejects and takes back, in any order: an identity has one successor at most,
\* resolve() never meets a cycle, and continuity_node_ids(), which walks the
\* rotations backwards, names exactly those that is_continuation() relates.
ContinuityAgrees ==
  /\ \A n \in Nodes : Cardinality(_active_decision_for_old(n)) <= 1
  /\ \A n \in Nodes : resolve(n) # "cycle"
  /\ \A n \in Nodes : continuity_node_ids(n) = {m \in Nodes : is_continuation(m, n)}
=============================================================================
