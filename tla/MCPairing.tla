----------------------------- MODULE MCPairing -----------------------------
(***************************************************************************)
(* Small instances of Pairing for TLC.                                     *)
(***************************************************************************)
EXTENDS Pairing, TLC

CONSTANTS j1, j2, k1

TwoRuns == {1, 2}
ThreeRuns == {1, 2, 3}
TwoJoiners == {j1, j2}
OneJoiner == {j1}
OneCode == {k1}

Count(P) == IF P THEN 1 ELSE 0

(***************************************************************************)
(* What takes a behaviour off the straight path, expiry left aside: a      *)
(* fault, the first device's screen closed, a joiner stopped by its owner, *)
(* a second device at the invitation, a new invitation after the first.    *)
(* One of them in a behaviour, wherever it hits.                           *)
(***************************************************************************)
Mishaps ==
  faults + Count(~host.open) + Cardinality({j \in Joiner : joiner[j].aborted})
  + Count(\A j \in Joiner : joiner[j] # Fresh /\ Cardinality(Joiner) > 1)
  + Count(host.runs + Cardinality(host.pending) > 1 /\ host.inv # None)

OneMishap == Mishaps <= 1
=============================================================================
