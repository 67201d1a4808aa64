--------------------------- MODULE MCDeviceEntry ---------------------------
(***************************************************************************)
(* Small instances of DeviceEntry for TLC.                                 *)
(***************************************************************************)
EXTENDS DeviceEntry, TLC

CONSTANTS m1, b1, b2, c1, l1, s1, s2

Phrases == {m1, b1, b2}
MintedHere == {m1}
SixDigits == {c1}
LongerCodes == {l1}
Servers == {s1, s2}

(* Vaults of other devices are alike, and so are servers.                  *)
Alike == Permutations({b1, b2}) \cup Permutations(Servers)
=============================================================================
