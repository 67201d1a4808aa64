---------------------------- MODULE SharedHistory ----------------------------
(***************************************************************************)
(* What synchronisation promises its devices, without rounds, objects or   *)
(* failures: there is one history of the vault; it only ever grows at its  *)
(* end; and every device has confirmed a part of it from the beginning,    *)
(* which never shrinks.                                                    *)
(***************************************************************************)
EXTENDS Sequences, SequencesExt

CONSTANT Device

VARIABLES
  log,        \* the published manifests, oldest first
  confirmed   \* confirmed[d]: how much of it d knows to be published

(* Nothing is published yet, or devices that have met before go on. *)
Init == confirmed \in [Device -> Prefixes(log)]

Publish ==
  /\ IsStrictPrefix(log, log')
  /\ UNCHANGED confirmed

Confirm(d) ==
  /\ \E s \in Prefixes(log) :
       /\ IsPrefix(confirmed[d], s)
       /\ confirmed' = [confirmed EXCEPT ![d] = s]
  /\ UNCHANGED log

Next == Publish \/ \E d \in Device : Confirm(d)

Spec == Init /\ [][Next]_<<log, confirmed>>
=============================================================================
