------------------------------ MODULE Pairing ------------------------------
(***************************************************************************)
(* Handing the vault's phrase to a new device: PairingHost on the first    *)
(* device and PairingJoiner on each new one, polling the relay             *)
(* (plugins/protection/src/pairing/pairing-client.ts), under the two       *)
(* screens that drive them.                                                *)
(*                                                                         *)
(* A call is made, then served by the relay, then answered, and the other  *)
(* parties move in between.  The network may drop a call: the caller sees  *)
(* no answer, and the request is lost, or arrives later, or had arrived.   *)
(* A run goes on where it awaits although it has been aborted, as in the   *)
(* code: only pause() and the handling of a failure look at the signal.    *)
(***************************************************************************)
EXTENDS PairingRelay

CONSTANTS MaxFaults  \* how many calls the network drops or the relay limits

ASSUME FaultAssumption ==
  MaxFaults \in Nat /\ Cardinality(Run) \in Nat /\ Run = 1 .. Cardinality(Run)

(* A run sends a new nonce each time the call of the one before was lost.  *)
Nonces == Run \X (1 .. MaxFaults + 1)

ASSUME NonceAssumption == None \notin Nonces

VARIABLES
  relay,    \* the relay's maps
  host,     \* PairingHost's fields and its screen
  loop,     \* loop[r]: where run r of PairingHost.start awaits
  sending,  \* sending[r]: confirm()'s call for invitation r
  joiner,   \* joiner[j]: PairingJoiner's fields, its loop and its screen
  adrift,   \* calls no one awaits: deletes, and dropped calls still on their way
  faults    \* how many calls have gone wrong

vars == <<relay, host, loop, sending, joiner, adrift, faults>>

HostPhase == {"idle", "creating", "waiting", "connecting", "compare", "sending",
              "done", "expired", "cancelled", "failed"}
JoinerPhase == {"idle", "claiming", "waiting", "compare", "received", "expired",
                "cancelled", "failed"}

Waiting == [is |-> "waiting"]   \* the relay has not served the call
Dropped == [is |-> "dropped"]   \* no answer will come
Idle == [at |-> "off", nonce |-> 0, answer |-> Waiting]
NotSent == [ciphertext |-> None, answer |-> Waiting]
Fresh == [phase |-> "idle", sas |-> None, matched |-> FALSE, held |-> FALSE,
          aborted |-> FALSE, at |-> "off", ref |-> None, id |-> None, hostKey |-> None,
          pinned |-> None, opened |-> FALSE, shown |-> FALSE, answer |-> Waiting]

Call(op, inv, arg) == [op |-> op, inv |-> inv, arg |-> arg]

Init ==
  /\ relay = NoInvitations
  /\ host = [phase |-> "idle", inv |-> None, code |-> None, sas |-> None, run |-> None,
             keys |-> None, joiner |-> None, nonce |-> None, aborted |-> {},
             pending |-> {}, runs |-> 0, open |-> TRUE, confirmed |-> {}]
  /\ loop = [r \in Run |-> Idle]
  /\ sending = [r \in Run |-> NotSent]
  /\ joiner = [j \in Joiner |-> Fresh]
  /\ adrift = {}
  /\ faults = 0

-----------------------------------------------------------------------------
(* The network.  What each party has on its way to the relay:              *)

LoopCall(r) == Call(loop[r].at, r, IF loop[r].at = "hostNonce" THEN <<r, loop[r].nonce>> ELSE None)
SendCall(r) == Call("deliver", r, sending[r].ciphertext)
JoinerCall(j) == Call(joiner[j].at, IF joiner[j].at = "claim" THEN joiner[j].ref ELSE joiner[j].id, j)

LoopCalls(r) == loop[r].at \notin {"off", "pause"}
Sends(r) == sending[r].ciphertext # None
JoinerCalls(j) == joiner[j].at \notin {"off", "pause"}

ServeLoop(r) ==
  /\ LoopCalls(r) /\ loop[r].answer = Waiting
  /\ \E out \in outcomes(relay, LoopCall(r)) :
       relay' = out.relay /\ loop' = [loop EXCEPT ![r].answer = out.answer]
  /\ UNCHANGED <<host, sending, joiner, adrift, faults>>

ServeSend(r) ==
  /\ Sends(r) /\ sending[r].answer = Waiting
  /\ \E out \in outcomes(relay, SendCall(r)) :
       relay' = out.relay /\ sending' = [sending EXCEPT ![r].answer = out.answer]
  /\ UNCHANGED <<host, loop, joiner, adrift, faults>>

ServeJoiner(j) ==
  /\ JoinerCalls(j) /\ joiner[j].answer = Waiting
  /\ \E out \in outcomes(relay, JoinerCall(j)) :
       relay' = out.relay /\ joiner' = [joiner EXCEPT ![j].answer = out.answer]
  /\ UNCHANGED <<host, loop, sending, adrift, faults>>

ServeAdrift ==
  \E call \in adrift :
    /\ \E out \in outcomes(relay, call) : relay' = out.relay
    /\ adrift' = adrift \ {call}
    /\ UNCHANGED <<host, loop, sending, joiner, faults>>

Fault == faults < MaxFaults /\ faults' = faults + 1

(* A call that was not served yet may still be on its way.                 *)
MayComeLate(call, answer) ==
  adrift' \in (IF answer = Waiting THEN {adrift, adrift \cup {call}} ELSE {adrift})

DropLoop(r) ==
  /\ Fault /\ LoopCalls(r) /\ loop[r].answer # Dropped
  /\ loop' = [loop EXCEPT ![r].answer = Dropped]
  /\ MayComeLate(LoopCall(r), loop[r].answer)
  /\ UNCHANGED <<relay, host, sending, joiner>>

DropSend(r) ==
  /\ Fault /\ Sends(r) /\ sending[r].answer # Dropped
  /\ sending' = [sending EXCEPT ![r].answer = Dropped]
  /\ MayComeLate(SendCall(r), sending[r].answer)
  /\ UNCHANGED <<relay, host, loop, joiner>>

DropJoiner(j) ==
  /\ Fault /\ JoinerCalls(j) /\ joiner[j].answer # Dropped
  /\ joiner' = [joiner EXCEPT ![j].answer = Dropped]
  /\ MayComeLate(JoinerCall(j), joiner[j].answer)
  /\ UNCHANGED <<relay, host, loop, sending>>

DropAdrift ==
  /\ Fault /\ \E call \in adrift : adrift' = adrift \ {call}
  /\ UNCHANGED <<relay, host, loop, sending, joiner>>

(* spend() finds no token left: the call is refused before anything else,  *)
(* and a delete that is refused is not repeated.                           *)
Limit(j) ==
  /\ Fault /\ JoinerCalls(j) /\ joiner[j].answer = Waiting
  /\ joiner' = [joiner EXCEPT ![j].answer = [is |-> "PairingRateLimited"]]
  /\ UNCHANGED <<relay, host, loop, sending, adrift>>

(* An invitation's five minutes are over; the relay finds out when it      *)
(* looks, or sweeps.                                                       *)
Expire(id) ==
  /\ id \in Present(relay) \ Late(relay)
  /\ relay' = [relay EXCEPT !.invitations[id].late = TRUE]
  /\ UNCHANGED <<host, loop, sending, joiner, adrift, faults>>

Sweep ==
  /\ Late(relay) # {} /\ relay' = sweep(relay)
  /\ UNCHANGED <<host, loop, sending, joiner, adrift, faults>>

(* The server is restarted: it keeps invitations in memory only.           *)
RelayRestarts ==
  /\ Fault /\ Present(relay) # {} /\ relay' = NoInvitations
  /\ UNCHANGED <<host, loop, sending, joiner, adrift>>

-----------------------------------------------------------------------------
(* The first device.                                                       *)

forget(h) == [h EXCEPT !.keys = None, !.joiner = None, !.nonce = None]
settleFailure(h, phase) == [h EXCEPT !.phase = phase]

(* The finally of start().                                                 *)
finally(h, r) == IF h.run = r THEN forget([h EXCEPT !.run = None]) ELSE h

Deletes(id) == IF id = None THEN {} ELSE {Call("hostCancel", id, None)}

settled == host.phase \in {"done", "expired", "failed"}

(* cancel(), but for its delete.                                           *)
cancelled ==
  IF host.run = None THEN host
  ELSE forget([host EXCEPT !.run = None, !.aborted = @ \cup {host.run},
                           !.phase = IF settled THEN @ ELSE "cancelled"])
cancelDeletes == IF host.run = None \/ settled THEN {} ELSE Deletes(host.inv)

newRun(h) ==
  LET r == h.runs + 1
  IN [h EXCEPT !.runs = r, !.run = r, !.keys = r, !.sas = None, !.phase = "creating"]

Begin(h) ==
  /\ host' = newRun(h)
  /\ loop' = [loop EXCEPT ![h.runs + 1] = [Idle EXCEPT !.at = "create"]]

(* start(): the screen opens, "New code" after an outcome, or "They don't  *)
(* match".  A run under way is cancelled first, and its delete awaited.    *)
Start ==
  /\ host.open /\ host.phase \in {"idle", "compare", "expired", "cancelled", "failed"}
  /\ host.runs + Cardinality(host.pending) < Cardinality(Run)
  /\ IF cancelDeletes = {} THEN Begin(cancelled) /\ UNCHANGED adrift
     ELSE /\ host' = [cancelled EXCEPT !.pending = @ \cup {host.inv}]
          /\ adrift' = adrift \cup cancelDeletes
          /\ UNCHANGED loop
  /\ UNCHANGED <<relay, sending, joiner, faults>>

(* The delete has been answered, or never will be.                         *)
StartGoesOn ==
  /\ \E id \in host.pending :
       Deletes(id) \cap adrift = {} /\ Begin([host EXCEPT !.pending = @ \ {id}])
  /\ UNCHANGED <<relay, sending, joiner, adrift, faults>>

(* The task's surface goes away.                                           *)
CloseHost ==
  /\ host.open
  /\ host' = [cancelled EXCEPT !.open = FALSE]
  /\ adrift' = adrift \cup cancelDeletes
  /\ UNCHANGED <<relay, loop, sending, joiner, faults>>

Pause(r) == loop' = [loop EXCEPT ![r].at = "pause", ![r].answer = Waiting]
Off(r) == loop' = [loop EXCEPT ![r].at = "off", ![r].answer = Waiting]

(* The catch of start().                                                   *)
Fails(r, phase) ==
  /\ Off(r)
  /\ host' = finally(IF r \in host.aborted THEN host ELSE settleFailure(host, phase), r)
  /\ UNCHANGED adrift

(* A form that would poll on when the relay no longer knows the id.        *)
PollFails_retried(r) ==
  LET error == loop[r].answer.is
  IN CASE r \in host.aborted -> Fails(r, "cancelled")
       [] error \in {"dropped", "PairingNotFound"} -> Pause(r) /\ UNCHANGED <<host, adrift>>
       [] OTHER -> Fails(r, "failed")

(* The catch of pollUntil().                                               *)
PollFails(r) ==
  LET error == loop[r].answer.is
  IN CASE r \in host.aborted -> Fails(r, "cancelled")
       [] error = "dropped" -> Pause(r) /\ UNCHANGED <<host, adrift>>
       [] error = "PairingNotFound" -> Fails(r, "expired")
       [] OTHER -> Fails(r, "failed")

Answered(r, op) == loop[r].at = op /\ loop[r].answer # Waiting

Created(r) ==
  /\ Answered(r, "create")
  /\ CASE r \in host.aborted -> Off(r) /\ UNCHANGED <<host, adrift>>
       [] loop[r].answer.is = "ok" ->
            /\ host' = [host EXCEPT !.inv = r, !.code = loop[r].answer.code, !.phase = "waiting"]
            /\ Pause(r) /\ UNCHANGED adrift
       [] OTHER -> Fails(r, "failed")
  /\ UNCHANGED <<relay, sending, joiner, faults>>

(* The pause of pollUntil is over, or was cut short.                       *)
Poll(r) ==
  /\ loop[r].at = "pause"
  /\ IF r \in host.aborted THEN Fails(r, "cancelled")
     ELSE /\ loop' = [loop EXCEPT ![r].at = "hostView"] /\ UNCHANGED <<host, adrift>>
  /\ UNCHANGED <<relay, sending, joiner, faults>>

abandoned == forget([settleFailure(host, "failed") EXCEPT
                       !.run = None, !.aborted = @ \cup ({host.run} \ {None})])

(* The commit is one nonce and one key of the joiner's own.                *)
pairingCommitMatches(j, joinerNonce) == j = joinerNonce

StepClaimed(r, view) ==
  IF host.nonce # None \/ view.joiner = None
  THEN Pause(r) /\ UNCHANGED <<host, adrift>>
  ELSE /\ host' = [host EXCEPT !.joiner = view.joiner]
       /\ loop' = [loop EXCEPT ![r] = [at |-> "hostNonce", nonce |-> @.nonce + 1, answer |-> Waiting]]
       /\ UNCHANGED adrift

StepRevealed(r, view) ==
  IF host.phase # "connecting" THEN Pause(r) /\ UNCHANGED <<host, adrift>>
  ELSE IF host.keys = None \/ host.joiner = None \/ host.nonce = None \/ view.joinerNonce = None
  THEN Fails(r, "failed")
  ELSE IF pairingCommitMatches(host.joiner, view.joinerNonce)
       THEN /\ host' = [host EXCEPT !.phase = "compare",
                          !.sas = <<r, host.keys, host.joiner, host.nonce, view.joinerNonce>>]
            /\ Pause(r) /\ UNCHANGED adrift
       ELSE /\ host' = abandoned /\ adrift' = adrift \cup Deletes(host.inv) /\ Off(r)

StepDone(r) ==
  /\ host' = finally([host EXCEPT !.phase = "done"], r)
  /\ Off(r) /\ UNCHANGED adrift

(* A form that would take the payload's delivery for the end.              *)
step_delivered(r) ==
  LET view == loop[r].answer
  IN CASE view.state = "claimed" -> StepClaimed(r, view)
       [] view.state = "revealed" -> StepRevealed(r, view)
       [] view.state \in {"delivered", "completed"} -> StepDone(r)
       [] view.state = "cancelled" -> Fails(r, "failed")
       [] OTHER -> Pause(r) /\ UNCHANGED <<host, adrift>>

step(r) ==
  LET view == loop[r].answer
  IN CASE view.state = "claimed" -> StepClaimed(r, view)
       [] view.state = "revealed" -> StepRevealed(r, view)
       [] view.state = "completed" -> StepDone(r)
       [] view.state = "cancelled" -> Fails(r, "failed")
       [] OTHER -> Pause(r) /\ UNCHANGED <<host, adrift>>

Viewed(r) ==
  /\ Answered(r, "hostView")
  /\ IF loop[r].answer.is = "ok" THEN step(r) ELSE PollFails(r)
  /\ UNCHANGED <<relay, sending, joiner, faults>>

NonceSent(r) ==
  /\ Answered(r, "hostNonce")
  /\ IF loop[r].answer.is = "ok"
     THEN /\ host' = [host EXCEPT !.nonce = <<r, loop[r].nonce>>, !.phase = "connecting"]
          /\ Pause(r) /\ UNCHANGED adrift
     ELSE PollFails(r)
  /\ UNCHANGED <<relay, sending, joiner, faults>>

(* "Match - send the key": sealed under what id and keys the fields hold.  *)
Confirm ==
  /\ host.open /\ host.phase = "compare" /\ host.inv # None /\ host.keys # None /\ host.joiner # None
  /\ host' = [host EXCEPT !.phase = "sending", !.confirmed = @ \cup {<<host.inv, host.joiner>>}]
  /\ sending' = [sending EXCEPT ![host.inv] =
                   [ciphertext |-> <<host.inv, host.keys, host.joiner>>, answer |-> Waiting]]
  /\ UNCHANGED <<relay, loop, joiner, adrift, faults>>

Sent(r) ==
  /\ Sends(r) /\ sending[r].answer # Waiting
  /\ IF sending[r].answer.is = "ok" THEN UNCHANGED <<host, adrift>>
     ELSE host' = abandoned /\ adrift' = adrift \cup Deletes(host.inv)
  /\ sending' = [sending EXCEPT ![r] = NotSent]
  /\ UNCHANGED <<relay, loop, joiner, faults>>

-----------------------------------------------------------------------------
(* A new device.                                                           *)

(* A joiner's own step; release() ends the invitation it holds.            *)
Becomes(j, to) == joiner' = [joiner EXCEPT ![j] = to]
Releases(j, to) ==
  /\ Becomes(j, [to EXCEPT !.held = FALSE])
  /\ adrift' = adrift \cup (IF to.held THEN {Call("joinerCancel", to.id, j)} ELSE {})

OnlyJoiner == UNCHANGED <<relay, host, loop, sending, faults>>

(* The invitation is scanned, or a code typed: that of the first device's  *)
(* screen or another.                                                      *)
JoinerStart(j, ref) ==
  /\ joiner[j] = Fresh /\ ref \in Code \cup ({host.inv} \ {None})
  /\ Becomes(j, [Fresh EXCEPT !.phase = "claiming", !.at = "claim", !.ref = ref, !.shown = TRUE])
  /\ UNCHANGED adrift /\ OnlyJoiner

JoinerPauses(it) == [it EXCEPT !.at = "pause", !.answer = Waiting]
JoinerOff(it) == [it EXCEPT !.at = "off", !.answer = Waiting]

(* The catch of start(); an aborted run leaves everything as it is.        *)
JoinerFails(j, phase) ==
  IF joiner[j].aborted THEN Becomes(j, JoinerOff(joiner[j])) /\ UNCHANGED adrift
  ELSE Releases(j, [JoinerOff(joiner[j]) EXCEPT !.phase = phase])

JoinerPollFails(j) ==
  LET error == joiner[j].answer.is
  IN CASE joiner[j].aborted -> JoinerFails(j, "cancelled")
       [] ~joiner[j].aborted /\ error \in {"dropped", "PairingRateLimited"} ->
            Becomes(j, JoinerPauses(joiner[j])) /\ UNCHANGED adrift
       [] ~joiner[j].aborted /\ error = "PairingNotFound" -> JoinerFails(j, "expired")
       [] OTHER -> JoinerFails(j, "failed")

JoinerAnswered(j, op) == joiner[j].at = op /\ joiner[j].answer # Waiting

Claimed(j) ==
  /\ JoinerAnswered(j, "claim")
  /\ IF joiner[j].answer.is = "ok"
     THEN /\ Becomes(j, [JoinerPauses(joiner[j]) EXCEPT
                           !.phase = "waiting", !.held = TRUE, !.id = joiner[j].answer.id,
                           !.hostKey = joiner[j].answer.hostKey])
          /\ UNCHANGED adrift
     ELSE JoinerFails(j, "failed")
  /\ OnlyJoiner

JoinerPoll(j) ==
  /\ joiner[j].at = "pause"
  /\ IF joiner[j].aborted THEN JoinerFails(j, "cancelled")
     ELSE Becomes(j, [joiner[j] EXCEPT !.at = "joinerView"]) /\ UNCHANGED adrift
  /\ OnlyJoiner

(* The digits are worked out once; the nonce is sent again until taken.    *)
Reveals(j, it) ==
  [it EXCEPT !.at = "reveal", !.answer = Waiting,
             !.phase = IF it.sas = None THEN "compare" ELSE @,
             !.sas = IF it.sas = None THEN <<it.id, it.hostKey, j, it.pinned, j>> ELSE @]

(* openPairingPayload under the key this side derives.                     *)
opens(j, it, ciphertext) == ciphertext = <<it.id, it.hostKey, j>>

(* A form that would open the payload before its owner has compared.       *)
JoinerStep_unmatched(j) ==
  LET view == joiner[j].answer
      pin == IF joiner[j].pinned = None THEN view.hostNonce ELSE joiner[j].pinned
      it == [joiner[j] EXCEPT !.pinned = pin]
  IN CASE view.state = "cancelled" -> JoinerFails(j, "cancelled")
       [] view.state # "cancelled" /\ view.hostNonce \notin {None, pin} -> JoinerFails(j, "failed")
       [] view.state = "nonced" /\ view.hostNonce = pin ->
            Becomes(j, Reveals(j, it)) /\ UNCHANGED adrift
       [] view.state = "delivered" /\ view.hostNonce = pin ->
            IF opens(j, it, view.ciphertext)
            THEN /\ Becomes(j, [it EXCEPT !.opened = TRUE, !.at = "ack", !.answer = Waiting])
                 /\ UNCHANGED adrift
            ELSE JoinerFails(j, "failed")
       [] OTHER -> Becomes(j, JoinerPauses(it)) /\ UNCHANGED adrift

JoinerStep(j) ==
  LET view == joiner[j].answer
      pin == IF joiner[j].pinned = None THEN view.hostNonce ELSE joiner[j].pinned
      it == [joiner[j] EXCEPT !.pinned = pin]
  IN CASE view.state = "cancelled" -> JoinerFails(j, "cancelled")
       [] view.state # "cancelled" /\ view.hostNonce \notin {None, pin} -> JoinerFails(j, "failed")
       [] view.state = "nonced" /\ view.hostNonce = pin ->
            Becomes(j, Reveals(j, it)) /\ UNCHANGED adrift
       [] view.state = "delivered" /\ view.hostNonce = pin /\ it.matched ->
            IF opens(j, it, view.ciphertext)
            THEN /\ Becomes(j, [it EXCEPT !.opened = TRUE, !.at = "ack", !.answer = Waiting])
                 /\ UNCHANGED adrift
            ELSE JoinerFails(j, "failed")
       [] OTHER -> Becomes(j, JoinerPauses(it)) /\ UNCHANGED adrift

JoinerViewed(j) ==
  /\ JoinerAnswered(j, "joinerView")
  /\ IF joiner[j].answer.is = "ok" THEN JoinerStep(j) ELSE JoinerPollFails(j)
  /\ OnlyJoiner

Revealed(j) ==
  /\ JoinerAnswered(j, "reveal")
  /\ IF joiner[j].answer.is = "ok" THEN Becomes(j, JoinerPauses(joiner[j])) /\ UNCHANGED adrift
     ELSE JoinerPollFails(j)
  /\ OnlyJoiner

(* The relay was told; the flow takes the phrase if it still shows this.   *)
Acked(j) ==
  /\ JoinerAnswered(j, "ack")
  /\ IF joiner[j].answer.is = "ok"
     THEN Becomes(j, [JoinerOff(joiner[j]) EXCEPT !.phase = "received"]) /\ UNCHANGED adrift
     ELSE JoinerPollFails(j)
  /\ OnlyJoiner

deciding(j) == joiner[j].shown /\ joiner[j].phase = "compare" /\ ~joiner[j].matched

JoinerMatch(j) ==
  /\ deciding(j) /\ Becomes(j, [joiner[j] EXCEPT !.matched = TRUE])
  /\ UNCHANGED adrift /\ OnlyJoiner

JoinerMismatch(j) ==
  /\ deciding(j) /\ Releases(j, [joiner[j] EXCEPT !.phase = "failed", !.aborted = TRUE])
  /\ OnlyJoiner

(* "Cancel", or "Back" from the reason.                                    *)
CancelJoin(j) ==
  /\ joiner[j].shown /\ ~deciding(j) /\ joiner[j].phase # "received"
  /\ Releases(j, [joiner[j] EXCEPT !.phase = "cancelled", !.aborted = TRUE, !.shown = FALSE])
  /\ OnlyJoiner

-----------------------------------------------------------------------------
HostRuns(r) == Created(r) \/ Poll(r) \/ Viewed(r) \/ NonceSent(r) \/ Sent(r)
JoinerRuns(j) == Claimed(j) \/ JoinerPoll(j) \/ JoinerViewed(j) \/ Revealed(j) \/ Acked(j)
Owner == Start \/ CloseHost \/ Confirm
JoinerOwner(j) ==
  \/ \E ref \in Run \cup Code : JoinerStart(j, ref)
  \/ JoinerMatch(j) \/ JoinerMismatch(j) \/ CancelJoin(j)

Next ==
  \/ Owner \/ StartGoesOn \/ ServeAdrift \/ DropAdrift \/ Sweep \/ RelayRestarts
  \/ \E r \in Run : HostRuns(r) \/ ServeLoop(r) \/ ServeSend(r) \/ DropLoop(r) \/ DropSend(r) \/ Expire(r)
  \/ \E j \in Joiner : JoinerRuns(j) \/ JoinerOwner(j) \/ ServeJoiner(j) \/ DropJoiner(j) \/ Limit(j)

(* The loops run, the relay serves and time passes; owners owe nothing.    *)
Fairness ==
  /\ WF_vars(StartGoesOn) /\ WF_vars(ServeAdrift)
  /\ \A r \in Run : /\ WF_vars(HostRuns(r)) /\ WF_vars(ServeLoop(r))
                    /\ WF_vars(ServeSend(r)) /\ WF_vars(Expire(r))
  /\ \A j \in Joiner : WF_vars(JoinerRuns(j)) /\ WF_vars(ServeJoiner(j))

Spec == Init /\ [][Next]_vars
FairSpec == Spec /\ Fairness
-----------------------------------------------------------------------------
(* Every variable keeps its type.                                          *)
TypeOK ==
  /\ \A r \in Run :
       LET it == relay.invitations[r]
       IN /\ it.state \in PairingState \cup {"gone"} /\ it.code \in Code \cup {None}
          /\ it.token \in Joiner \cup {None} /\ it.joiner \in {it.token, None}
          /\ it.hostNonce \in Nonces \cup {None} /\ it.joinerNonce \in {it.token, None}
  /\ relay.byCode \in [Code -> Run \cup {None}]
  /\ host.phase \in HostPhase /\ host.run \in 0 .. host.runs \cup {None}
  /\ \A r \in Run : /\ loop[r].at \in {"off", "create", "pause", "hostView", "hostNonce"}
                     /\ loop[r].nonce \in 0 .. MaxFaults + 1
                     /\ loop[r].at = "off" => loop[r].answer = Waiting
  /\ \A j \in Joiner : /\ joiner[j].phase \in JoinerPhase
                        /\ joiner[j].at \in {"off", "pause", "claim", "joinerView", "reveal", "ack"}
                        /\ joiner[j].pinned \in Nonces \cup {None}
                        /\ joiner[j].opened => joiner[j].id \in Run
  /\ faults \in 0 .. MaxFaults

(* A code finds the invitation it was given to for as long as that is      *)
(* open, and nothing after: also when the code has been given again while  *)
(* the first one's tombstone was still kept (end, remove and sweep).       *)
CodesConsistent ==
  \A c \in Code, r \in Run :
    relay.byCode[c] = r <=> r \in Open(relay) /\ relay.invitations[r].code = c

(* The digits come of one run's key pair and nonce.  With three runs those *)
(* of two can mix, since the runs share the fields: see OneRunFollowed.    *)
OfOneRun(sas) == sas[2] = sas[1] /\ sas[4][1] = sas[1]

(* Two honest screens that compare digits for one invitation show the same *)
(* ones, whatever nonce was sent again after its call was dropped, and     *)
(* whoever else has claimed, cancelled or started over meanwhile.          *)
DigitsAgree ==
  host.phase \in {"compare", "sending"} /\ OfOneRun(host.sas) =>
    \A j \in Joiner :
      joiner[j].sas # None /\ joiner[j].id = host.sas[1] => joiner[j].sas = host.sas

(* A device opens the phrase only when the owner has said "match" on both  *)
(* devices, about this invitation and this device.                         *)
HandedOnBothWords ==
  \A j \in Joiner : joiner[j].opened => joiner[j].matched /\ <<joiner[j].id, j>> \in host.confirmed

(* The first device says "done" only when a device has opened the phrase.  *)
DoneMeansOpened ==
  host.phase = "done" => \E j \in Joiner : joiner[j].opened

(* An invitation belongs to the device that claimed it first: its token is *)
(* never another's, not even after a late or repeated claim.               *)
OneClaimant ==
  [][\A r \in Run : LET was == relay.invitations[r].token
                   IN was # None => relay'.invitations[r].token \in {was, None}]_vars

(* Whatever was dropped, cancelled or left unanswered by an owner, no poll *)
(* of either device goes on for ever: pollUntil ends at expiry.            *)
PollsEnd ==
  /\ \A r \in Run : loop[r].at # "off" ~> loop[r].at = "off"
  /\ \A j \in Joiner : joiner[j].at # "off" ~> joiner[j].at = "off"

(* What entry-flow.ts says of "Cancel": the invitation is ended on the     *)
(* relay too, so the first device learns at once rather than at expiry.    *)
CancelEnds ==
  \A j \in Joiner :
    joiner[j].aborted /\ joiner[j].at = "off" /\ (\A call \in adrift : call.arg # j)
    => \A r \in Open(relay) \ Late(relay) : relay.invitations[r].token # j

(* What start() says of itself: it drops any previous invitation.          *)
OneRunFollowed ==
  \A r, q \in Run : loop[r].at # "off" /\ loop[q].at # "off" /\ r # q
                    => r \in host.aborted \/ q \in host.aborted
=============================================================================
