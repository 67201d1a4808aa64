---------------------------- MODULE PairingRelay ----------------------------
(***************************************************************************)
(* The relay of the pairing protocol: PairingRelay in                      *)
(* plugins/protection/src/pairing/relay.ts.  It keeps, in memory, the      *)
(* invitations the vault's first device opens and what the two devices     *)
(* have left at each.  Every handler is synchronous, so it is an operator  *)
(* from the relay before to the relay after and the answer that leaves.    *)
(*                                                                         *)
(* A device makes one invitation in each run of PairingHost.start, so an   *)
(* invitation is named after its run; its key pair has the same name.  A   *)
(* joiner is named after its key, its nonce and its token: it makes each   *)
(* of them once.  Time is a flag, late, that expiry raises; the two rate   *)
(* limits are refusals the module Pairing may draw.                        *)
(***************************************************************************)
EXTENDS Naturals, FiniteSets

CONSTANTS Run,     \* the runs of the first device, 1 .. n: ids, host keys
          Joiner,  \* the new devices
          Code,    \* the codes generateInvitationCode draws from
          None,    \* null
          MaxOpen  \* MAX_OPEN_INVITATIONS

ASSUME RelayAssumption ==
  /\ None \notin Run \cup Joiner \cup Code
  /\ Run \cap Code = {}
  /\ MaxOpen \in Nat \ {0}

TERMINAL == {"completed", "cancelled"}
PairingState == {"open", "claimed", "nonced", "revealed", "delivered"} \cup TERMINAL

(* What the map holds under an id nobody made, or that has been removed.   *)
Gone == [state |-> "gone", code |-> None, late |-> FALSE, hostKey |-> None,
         token |-> None, joiner |-> None, hostNonce |-> None,
         joinerNonce |-> None, ciphertext |-> None]

Invitation(id, code) == [Gone EXCEPT !.state = "open", !.code = code, !.hostKey = id]

NoInvitations == [invitations |-> [id \in Run |-> Gone], byCode |-> [c \in Code |-> None]]

Present(relay) == {id \in Run : relay.invitations[id].state # "gone"}
Open(relay) == {id \in Present(relay) : relay.invitations[id].state \notin TERMINAL}
Late(relay) == {id \in Run : relay.invitations[id].late}

refused(relay, error) == [relay |-> relay, answer |-> [is |-> error]]
answered(relay, view) == [relay |-> relay, answer |-> view]
NoContent == [is |-> "ok"]

(* A form that would free whatever code the removed invitations went by.   *)
remove_byCode(relay, ids) ==
  [invitations |-> [id \in Run |-> IF id \in ids THEN Gone ELSE relay.invitations[id]],
   byCode |-> [c \in Code |-> IF \E id \in ids : relay.invitations[id].code = c THEN None
                              ELSE relay.byCode[c]]]

(* remove, of every id in ids: a code that has been given to another       *)
(* invitation since stays with that one.                                   *)
remove(relay, ids) ==
  [invitations |-> [id \in Run |-> IF id \in ids THEN Gone ELSE relay.invitations[id]],
   byCode |-> [c \in Code |-> IF relay.byCode[c] \in ids THEN None ELSE relay.byCode[c]]]

sweep(relay) == remove(relay, Late(relay))

(* A form that would drop the token and keep the joiner's key.             *)
end_keepsJoiner(relay, id, state) ==
  IF relay.invitations[id].state \in TERMINAL THEN relay
  ELSE LET was == relay.invitations[id]
       IN [invitations |-> [relay.invitations EXCEPT
             ![id] = [Gone EXCEPT !.state = state, !.code = was.code,
                                  !.late = was.late, !.joiner = was.joiner]],
           byCode |-> [relay.byCode EXCEPT ![was.code] = None]]

(* end: the key material goes and the code is free; the token stays, so    *)
(* that the joiner's next poll learns the outcome.                         *)
end(relay, id, state) ==
  IF relay.invitations[id].state \in TERMINAL THEN relay
  ELSE LET was == relay.invitations[id]
       IN [invitations |-> [relay.invitations EXCEPT
             ![id] = [Gone EXCEPT !.state = state, !.code = was.code,
                                  !.late = was.late, !.token = was.token]],
           byCode |-> [relay.byCode EXCEPT ![was.code] = None]]

live(relay, id, result) ==
  IF id \notin Present(relay) THEN refused(relay, "PairingNotFound")
  ELSE IF id \in Late(relay) THEN refused(remove(relay, {id}), "PairingNotFound")
  ELSE result

requireState(relay, id, state, result) ==
  IF relay.invitations[id].state = state THEN result ELSE refused(relay, "PairingState")

joined(relay, id, token, result) ==
  live(relay, id, IF relay.invitations[id].token = token THEN result
                  ELSE refused(relay, "PairingForbidden"))

-----------------------------------------------------------------------------
(* The host's side.                                                        *)

(* A code drawn from those no invitation goes by; the sweep comes first.   *)
create(relay, id) ==
  LET swept == sweep(relay)
  IN IF Cardinality(Open(swept)) >= MaxOpen THEN {refused(swept, "PairingLimit")}
     ELSE {answered([invitations |-> [swept.invitations EXCEPT ![id] = Invitation(id, code)],
                     byCode |-> [swept.byCode EXCEPT ![code] = id]],
                    [is |-> "ok", code |-> code]) : code \in {c \in Code : swept.byCode[c] = None}}

hostView(relay, id) ==
  live(relay, id, LET it == relay.invitations[id]
                  IN answered(relay, [is |-> "ok", state |-> it.state, joiner |-> it.joiner,
                                      joinerNonce |-> it.joinerNonce]))

(* A form that would take a nonce again in whatever state.                 *)
hostNonce_again(relay, id, nonce) ==
  live(relay, id, answered([relay EXCEPT !.invitations[id].hostNonce = nonce,
                              !.invitations[id].state = IF @ = "claimed" THEN "nonced" ELSE @],
                           NoContent))

hostNonce(relay, id, nonce) ==
  live(relay, id, requireState(relay, id, "claimed",
    answered([relay EXCEPT !.invitations[id].hostNonce = nonce,
                           !.invitations[id].state = "nonced"], NoContent)))

deliver(relay, id, ciphertext) ==
  live(relay, id, requireState(relay, id, "revealed",
    answered([relay EXCEPT !.invitations[id].ciphertext = ciphertext,
                           !.invitations[id].state = "delivered"], NoContent)))

hostCancel(relay, id) == live(relay, id, answered(end(relay, id, "cancelled"), NoContent))

-----------------------------------------------------------------------------
(* The joiner's side.                                                      *)

(* A claim names the invitation by its id or by its code.                  *)
lookup(relay, ref) == IF ref \in Code THEN relay.byCode[ref] ELSE ref

(* A form that would let a device claim what another has claimed.          *)
claim_twice(relay, ref, j) ==
  LET id == lookup(relay, ref)
  IN IF id = None THEN refused(relay, "PairingNotFound")
     ELSE live(relay, id,
       IF id \notin Open(relay) THEN refused(relay, "PairingNotFound")
       ELSE answered([relay EXCEPT !.invitations[id].token = j, !.invitations[id].joiner = j,
                                   !.invitations[id].state = "claimed"],
                     [is |-> "ok", id |-> id, hostKey |-> relay.invitations[id].hostKey]))

claim(relay, ref, j) ==
  LET id == lookup(relay, ref)
  IN IF id = None THEN refused(relay, "PairingNotFound")
     ELSE live(relay, id,
       CASE id \notin Open(relay) -> refused(relay, "PairingNotFound")
         [] relay.invitations[id].state # "open" -> refused(relay, "PairingClaimed")
         [] OTHER -> answered([relay EXCEPT !.invitations[id].token = j,
                                            !.invitations[id].joiner = j,
                                            !.invitations[id].state = "claimed"],
                              [is |-> "ok", id |-> id,
                               hostKey |-> relay.invitations[id].hostKey]))

joinerView(relay, id, j) ==
  joined(relay, id, j, LET it == relay.invitations[id]
                       IN answered(relay, [is |-> "ok", state |-> it.state,
                                           hostNonce |-> it.hostNonce,
                                           ciphertext |-> it.ciphertext]))

reveal(relay, id, j) ==
  joined(relay, id, j, requireState(relay, id, "nonced",
    answered([relay EXCEPT !.invitations[id].joinerNonce = j,
                           !.invitations[id].state = "revealed"], NoContent)))

ack(relay, id, j) ==
  joined(relay, id, j, requireState(relay, id, "delivered",
    answered(end(relay, id, "completed"), NoContent)))

joinerCancel(relay, id, j) ==
  joined(relay, id, j, answered(end(relay, id, "cancelled"), NoContent))

(* What the relay may make of a call: pairing-routes.ts.                   *)
outcomes(relay, call) ==
  CASE call.op = "create" -> create(relay, call.inv)
    [] call.op = "hostView" -> {hostView(relay, call.inv)}
    [] call.op = "hostNonce" -> {hostNonce(relay, call.inv, call.arg)}
    [] call.op = "deliver" -> {deliver(relay, call.inv, call.arg)}
    [] call.op = "hostCancel" -> {hostCancel(relay, call.inv)}
    [] call.op = "claim" -> {claim(relay, call.inv, call.arg)}
    [] call.op = "joinerView" -> {joinerView(relay, call.inv, call.arg)}
    [] call.op = "reveal" -> {reveal(relay, call.inv, call.arg)}
    [] call.op = "ack" -> {ack(relay, call.inv, call.arg)}
    [] call.op = "joinerCancel" -> {joinerCancel(relay, call.inv, call.arg)}
=============================================================================
