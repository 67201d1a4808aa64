--------------------------- MODULE MCSyncSession ----------------------------
(***************************************************************************)
(* Small instances of SyncSession for TLC: two server addresses, and as    *)
(* many unsettled rounds as the run's Slot.                                *)
(***************************************************************************)
EXTENDS SyncSession

CONSTANTS u1, u2, s1, s2, s3

TwoUrls == {u1, u2}
ThreeRounds == {s1, s2, s3}
=============================================================================
