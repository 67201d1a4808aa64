----------------------------- MODULE DeviceLock -----------------------------
(***************************************************************************)
(* The device's key store and the lock over it: EncryptedKeyStore and the  *)
(* operations that set, change and remove the unlock code                  *)
(* (plugins/keystore/src/device-lock.ts).                                  *)
(*                                                                         *)
(* The store is Web Storage: each set and delete lands by itself, and the  *)
(* app may be killed between any two of them.  An operation reads before   *)
(* it writes and nothing else runs meanwhile, so it is a plan: the writes  *)
(* to come, each with its turn; those of one turn land in any order.  The  *)
(* names the store holds are the device's one secret and the lock's three  *)
(* reserved entries; the staging area holds the same names under its       *)
(* prefix.                                                                 *)
(*                                                                         *)
(* A value sealed under a code and a salt is a record that names both; a   *)
(* phrase at rest in the clear is the phrase itself.                       *)
(***************************************************************************)
EXTENDS Naturals

CONSTANTS Phrase,    \* recovery phrases
          Six,       \* codes of six digits
          Longer,    \* codes of a lock set before the six-digit rule
          None,      \* null
          MaxSalts   \* how many salts the device ever draws

VARIABLES
  store,   \* the real entries
  staged,  \* the entries under STAGING_PREFIX
  salts    \* how many salts have been drawn

Identity == "identity"
SALT_ENTRY == "salt"
CHECK_ENTRY == "check"
CODE_SHAPE_ENTRY == "shape"
RESERVED == {SALT_ENTRY, CHECK_ENTRY, CODE_SHAPE_ENTRY}
Name == RESERVED \cup {Identity}

Codes == Six \cup Longer
CHECK_VALUE == "check-value"
DIGITS_6 == "digits-6"
Unreadable == "unreadable"

Nothing == [name \in Name |-> None]
Held(area) == {name \in Name : area[name] # None}

sealed(value, code, salt) == [of |-> value, code |-> code, salt |-> salt]
Ciphertext == [of : Phrase \cup {CHECK_VALUE, Unreadable}, code : Codes, salt : 1 .. MaxSalts]

ASSUME LockAssumption ==
  /\ Six \cap Longer = {} /\ MaxSalts \in Nat \ {0}
  /\ None \notin Phrase \cup Codes \cup Ciphertext \cup (1 .. MaxSalts) \cup {DIGITS_6, Unreadable}
  /\ Phrase \cap (Ciphertext \cup {CHECK_VALUE, Unreadable}) = {}

hasVerifier(area) == area[CHECK_ENTRY] # None

(* verifyCode, and what get() makes of an entry under a code.              *)
opens(area, code) ==
  /\ area[SALT_ENTRY] # None
  /\ area[CHECK_ENTRY] = sealed(CHECK_VALUE, code, area[SALT_ENTRY])
decrypts(area, code) ==
  \/ area[Identity] = None
  \/ \E p \in Phrase : area[Identity] = sealed(p, code, area[SALT_ENTRY])
decrypted(value) == IF value = None THEN None ELSE value.of

getCodeShape(area) ==
  IF hasVerifier(area) /\ area[CODE_SHAPE_ENTRY] # DIGITS_6 THEN "legacy" ELSE "digits-6"

(* Two digits of shape: isUnlockCodeValid.                                 *)
isUnlockCodeValid(code) == code \in Six

-----------------------------------------------------------------------------
(* Plans.                                                                  *)

Put(turn, area, name, value) == [turn |-> turn, area |-> area, name |-> name, value |-> value]
Drop(turn, area, name) == Put(turn, area, name, None)

clearStaging == {Drop(1, "staged", name) : name \in Held(staged)}

(* Staging: the salt, the value, the verifier, the marker.                 *)
StagingTurn(name) ==
  CASE name = SALT_ENTRY -> 2 [] name = CHECK_ENTRY -> 4 [] name = CODE_SHAPE_ENTRY -> 5 [] OTHER -> 3
staging(next) == {Put(StagingTurn(name), "staged", name, next[name]) : name \in Held(next)}

(* promoteStaged: ordinary values before the reserved entries or after     *)
(* them, then what was staged goes.                                        *)
(* A form that would write the marker ahead of its verifier.               *)
PromotionTurn_markerFirst(name, order) ==
  CASE name = CODE_SHAPE_ENTRY -> 7 [] name = SALT_ENTRY -> 8 [] name = CHECK_ENTRY -> 9
    [] OTHER -> IF order = "ordinary-first" THEN 6 ELSE 10
PromotionTurn(name, order) ==
  CASE name = SALT_ENTRY -> 7 [] name = CHECK_ENTRY -> 8 [] name = CODE_SHAPE_ENTRY -> 9
    [] OTHER -> IF order = "ordinary-first" THEN 6 ELSE 10
Promoted(next, names, order) ==
  {Put(PromotionTurn(name, order), "store", name, next[name]) : name \in names}
Unstaged(next, turn) == {Drop(turn, "staged", name) : name \in Held(next)}

(* Forms that would forget the salt, and clear the staging area too early. *)
promoteStaged_noSalt(next, order) ==
  Promoted(next, Held(next) \ {SALT_ENTRY}, order) \cup Unstaged(next, 11)
promoteStaged_clears(next, order) == Promoted(next, Held(next), order) \cup Unstaged(next, 7)
promoteStaged(next, order) == Promoted(next, Held(next), order) \cup Unstaged(next, 11)

(* The generation a staging view writes under a code and a salt; what is   *)
(* no phrase is none when it is opened again either.                       *)
inside(value) == IF value \in Phrase THEN value ELSE Unreadable
generated(phrase, code, salt) ==
  [name \in Name |->
     CASE name = Identity -> IF phrase = None THEN None ELSE sealed(inside(phrase), code, salt)
       [] name = SALT_ENTRY -> salt
       [] name = CHECK_ENTRY -> sealed(CHECK_VALUE, code, salt)
       [] OTHER -> DIGITS_6]
(* A form that would seal under the salt there was before.                 *)
generation_oldSalt(phrase, code) == generated(phrase, code, salts)
generation(phrase, code) == generated(phrase, code, salts + 1)

enableDeviceLock(code) ==
  LET next == generation(store[Identity], code)
  IN clearStaging \cup staging(next) \cup promoteStaged(next, "verifier-first")

changeUnlockCode(newCode) ==
  LET next == generation(decrypted(store[Identity]), newCode)
  IN clearStaging \cup staging(next) \cup promoteStaged(next, "ordinary-first")

disableDeviceLock ==
  LET next == [Nothing EXCEPT ![Identity] = decrypted(store[Identity])]
  IN clearStaging \cup staging(next) \cup promoteStaged(next, "ordinary-first")
     \cup {Drop(12, "store", CODE_SHAPE_ENTRY), Drop(13, "store", SALT_ENTRY),
           Drop(14, "store", CHECK_ENTRY)}

(* Every name of the store, staged ones too, in the order list() has them. *)
resetDeviceKeyStore ==
  {Drop(1, "store", name) : name \in Held(store)} \cup {Drop(1, "staged", name) : name \in Held(staged)}

(* What asking for a code writes: a salt, when an interrupted removal left *)
(* a verifier without one, and the marker of a lock that follows the rule. *)
saltWrites == IF store[SALT_ENTRY] = None THEN {Put(1, "store", SALT_ENTRY, salts + 1)} ELSE {}
unlockWrites(code) ==
  IF opens(store, code) /\ isUnlockCodeValid(code) /\ getCodeShape(store) = "legacy"
  THEN {Put(1, "store", CODE_SHAPE_ENTRY, DIGITS_6)} ELSE saltWrites
=============================================================================
