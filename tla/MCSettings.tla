----------------------------- MODULE MCSettings -----------------------------
(***************************************************************************)
(* A small instance of Settings for TLC: a section with a setting of the   *)
(* device and one of the vault, and a section with one setting.            *)
(***************************************************************************)
EXTENDS Settings

CONSTANTS a, b, dk, sk, bk, v0, v1

TwoSections == {a, b}
Keys == {dk, sk, bk}
KeysOf == [s \in Section |-> IF s = a THEN {dk, sk} ELSE {bk}]
TwoValues == {v0, v1}

(* The settings of the first section that their own file says, and those that
   another version left in the other one: of no files, of a synced file that
   comes to a new device, of both files, and of a setting that has changed sides. *)
Versions == {<<{}, {}>>, <<{sk}, {}>>, <<{dk, sk}, {}>>, <<{sk}, {dk}>>, <<{dk}, {sk}>>}

(* The second section is there for saveAll: its form is on screen and shows the
   defaults, though a file of the device, which nobody reads, says otherwise.
   The first section's files do not say what is the default anyway. *)
SmallInit ==
  \E version \in Versions, moved \in {{}, {a}} :
    LET says(f) == {k \in version[1] : File(k) = f} \cup {k \in version[2] : OtherFile(k) = f}
                     \cup (IF f = "device" THEN {bk} ELSE {})
    IN InitWith([s \in Section |-> [f \in {"device", "synced"} |->
                  [k \in Key |-> IF k \in says(f) THEN v1 ELSE Unset]]], moved,
                [s \in Section |->
                  IF s = a THEN Unshown
                  ELSE [load(Unshown, [Nothing EXCEPT ![bk] = v0]) EXCEPT !.at = "open"]])
SmallSpec == SmallInit /\ [][Next]_vars
=============================================================================
