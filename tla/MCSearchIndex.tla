--------------------------- MODULE MCSearchIndex ---------------------------
(***************************************************************************)
(* Small instances of SearchIndex for TLC.                                 *)
(***************************************************************************)
EXTENDS SearchIndex, TLC

CONSTANTS f1, f2, d1

Files == {f1, f2}
OneFile == {f1}
MasksHere == {{}, {f2}}
NoMasks == {{}}
=============================================================================
