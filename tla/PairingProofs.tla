---------------------------- MODULE PairingProofs ----------------------------
(***************************************************************************)
(* For any number of invitations, new devices, codes and faults: the       *)
(* relay's codes find what they were given to, an invitation is one        *)
(* device's, the phrase is opened only on both owners' word, and two       *)
(* screens that compare digits show the same ones.                         *)
(***************************************************************************)
EXTENDS Pairing, TLAPS

-----------------------------------------------------------------------------
(***************************************************************************)
(* What every handler of the relay keeps: how its maps fit together, whose *)
(* invitation it is, and where what a device reads from it has come from.  *)
(***************************************************************************)

OpenStates == {"open", "claimed", "nonced", "revealed", "delivered"}

(* An invitation has the fields of the code's record.  Nonces and          *)
(* ciphertexts are whatever the devices sent.                              *)
Fields == {"state", "code", "late", "hostKey", "token", "joiner", "hostNonce", "joinerNonce",
           "ciphertext"}
IsInvitation(it) ==
  /\ it = [f \in Fields |-> it[f]]
  /\ it.state \in OpenStates \cup TERMINAL \cup {"gone"}
  /\ it.state \in {"open", "gone"} => it.token = None

IsRelay(rel) ==
  /\ rel = [invitations |-> rel.invitations, byCode |-> rel.byCode]
  /\ rel.invitations = [r \in Run |-> rel.invitations[r]]
  /\ rel.byCode = [c \in Code |-> rel.byCode[c]]
  /\ \A r \in Run : IsInvitation(rel.invitations[r])

(* A code finds an open invitation that goes by it, and no other.          *)
CodesMatch(rel) ==
  \A c \in Code, r \in Run :
    rel.byCode[c] = r <=> rel.invitations[r].state \in OpenStates
                            /\ rel.invitations[r].code = c

RelayInv(rel) == IsRelay(rel) /\ CodesMatch(rel)

IsGone(rel, id) == rel.invitations[id].state = "gone"

(* What came of a call: what the relay holds afterwards it held before, or *)
(* the call has brought it; what the caller reads was there.               *)
Traced(rel, call, out) ==
  /\ RelayInv(out.relay)
  /\ \A r \in Run : rel.invitations[r].token # None
       => out.relay.invitations[r].token \in {rel.invitations[r].token, None}
  /\ \A r \in Run : IsGone(rel, r) /\ ~ (call.op = "create" /\ call.inv = r)
       => IsGone(out.relay, r)
  /\ \A r \in Run :
       out.relay.invitations[r].state = "delivered" =>
         \/ /\ rel.invitations[r].state = "delivered"
            /\ out.relay.invitations[r].ciphertext = rel.invitations[r].ciphertext
         \/ call.op = "deliver" /\ out.relay.invitations[r].ciphertext = call.arg
  /\ \A r \in Run : out.relay.invitations[r].state = "completed"
       => rel.invitations[r].state = "completed" \/ call.op = "ack"
  /\ out.answer.is # "waiting"
  /\ call.op = "joinerView" /\ out.answer.is = "ok"
       => \E r \in Run : /\ out.answer.state = rel.invitations[r].state
                         /\ out.answer.ciphertext = rel.invitations[r].ciphertext
  /\ call.op = "hostView" /\ out.answer.is = "ok" /\ out.answer.state = "completed"
       => \E r \in Run : rel.invitations[r].state = "completed"

-----------------------------------------------------------------------------
LEMMA OpenIs ==
  ASSUME NEW rel, IsRelay(rel), NEW r \in Run
  PROVE  r \in Open(rel) <=> rel.invitations[r].state \in OpenStates
BY DEF Open, Present, OpenStates, TERMINAL, IsRelay, IsInvitation

(* Removing invitations frees the codes that find them.                    *)
LEMMA RemoveKeeps ==
  ASSUME NEW rel, RelayInv(rel), NEW ids \in SUBSET Run
  PROVE  /\ RelayInv(remove(rel, ids))
         /\ \A r \in Run : remove(rel, ids).invitations[r] =
                             IF r \in ids THEN Gone ELSE rel.invitations[r]
<1> DEFINE new == remove(rel, ids)
<1>1. \A r \in Run : new.invitations[r] = IF r \in ids THEN Gone ELSE rel.invitations[r]
  BY DEF remove
<1>2. \A c \in Code : new.byCode[c] = IF rel.byCode[c] \in ids THEN None ELSE rel.byCode[c]
  BY DEF remove
<1>3. IsInvitation(Gone) /\ Gone.state \notin OpenStates
  BY DEF IsInvitation, Fields, Gone, OpenStates
<1>4. IsRelay(new)
  <2>1. new = [invitations |-> new.invitations, byCode |-> new.byCode]
    BY DEF remove
  <2>2. new.invitations = [r \in Run |-> new.invitations[r]]
    BY DEF remove
  <2>3. new.byCode = [c \in Code |-> new.byCode[c]]
    BY DEF remove
  <2> QED BY <1>1, <1>3, <2>1, <2>2, <2>3 DEF IsRelay, RelayInv
<1>5. CodesMatch(new)
  BY <1>1, <1>2, <1>3, RelayAssumption DEF RelayInv, CodesMatch
<1> QED BY <1>1, <1>4, <1>5 DEF RelayInv

(* Ending one frees its code and keeps its token.                          *)
LEMMA EndKeeps ==
  ASSUME NEW rel, RelayInv(rel), NEW id \in Run, id \in Present(rel), NEW state \in TERMINAL
  PROVE  LET new == end(rel, id, state) IN
         /\ RelayInv(new)
         /\ \A r \in Run \ {id} : new.invitations[r] = rel.invitations[r]
         /\ new.invitations[id].token = rel.invitations[id].token
         /\ new.invitations[id].state \in {state, rel.invitations[id].state} \cap TERMINAL
<1> DEFINE was == rel.invitations[id]
           it == [Gone EXCEPT !.state = state, !.code = was.code, !.late = was.late,
                              !.token = was.token]
           new == [invitations |-> [rel.invitations EXCEPT ![id] = it],
                   byCode |-> [rel.byCode EXCEPT ![was.code] = None]]
<1>1. CASE was.state \in TERMINAL
  BY <1>1 DEF end
<1>2. CASE was.state \notin TERMINAL
  <2>1. end(rel, id, state) = new
    BY <1>2 DEF end
  <2>2. /\ it.state = state /\ it.code = was.code /\ it.token = was.token
        /\ IsInvitation(it)
    BY DEF Gone, IsInvitation, Fields, TERMINAL
  <2>3. was.state \in OpenStates
    BY <1>2, OpenIs DEF RelayInv, IsRelay, IsInvitation, Present
  <2>4. /\ new.invitations[id] = it
        /\ \A r \in Run \ {id} : new.invitations[r] = rel.invitations[r]
    BY DEF RelayInv, IsRelay
  <2>5. \A c \in Code : new.byCode[c] = IF c = was.code THEN None ELSE rel.byCode[c]
    BY DEF RelayInv, IsRelay
  <2>6. IsRelay(new)
    <3>1. new.invitations = [r \in Run |-> new.invitations[r]]
      BY DEF RelayInv, IsRelay
    <3>2. new.byCode = [c \in Code |-> new.byCode[c]]
      BY DEF RelayInv, IsRelay
    <3> QED BY <2>2, <2>4, <3>1, <3>2 DEF RelayInv, IsRelay
  <2>7. CodesMatch(new)
    <3> SUFFICES ASSUME NEW c \in Code, NEW r \in Run
                 PROVE  new.byCode[c] = r <=> new.invitations[r].state \in OpenStates
                                              /\ new.invitations[r].code = c
      BY DEF CodesMatch
    <3>1. rel.byCode[c] = r <=> rel.invitations[r].state \in OpenStates
                                  /\ rel.invitations[r].code = c
      BY DEF RelayInv, CodesMatch
    <3> HIDE DEF new, it
    <3>2. CASE r = id
      <4>1. rel.byCode[c] = id => c = was.code
        BY DEF RelayInv, CodesMatch
      <4>2. state \notin OpenStates
        BY DEF OpenStates, TERMINAL
      <4> QED BY <2>2, <2>4, <2>5, <3>2, <4>1, <4>2, RelayAssumption
    <3>3. CASE r # id
      <4>1. rel.byCode[c] = id => c = was.code
        BY DEF RelayInv, CodesMatch
      <4>2. c = was.code => rel.byCode[c] = id
        BY <2>3 DEF RelayInv, CodesMatch
      <4> QED BY <2>4, <2>5, <3>1, <3>3, <4>1, <4>2, RelayAssumption
    <3> QED BY <3>2, <3>3
  <2> QED BY <2>1, <2>2, <2>4, <2>6, <2>7 DEF RelayInv
<1> QED BY <1>1, <1>2

(* A handler that moves an open invitation on leaves its code alone.       *)
LEMMA MoveKeeps ==
  ASSUME NEW rel, RelayInv(rel), NEW id \in Run, id \in Open(rel),
         NEW it, IsInvitation(it), it.state \in OpenStates, it.code = rel.invitations[id].code
  PROVE  LET new == [rel EXCEPT !.invitations[id] = it] IN
         /\ RelayInv(new)
         /\ new.invitations[id] = it
         /\ \A r \in Run \ {id} : new.invitations[r] = rel.invitations[r]
<1> DEFINE new == [rel EXCEPT !.invitations[id] = it]
<1>1. /\ new = [invitations |-> [rel.invitations EXCEPT ![id] = it], byCode |-> rel.byCode]
  BY DEF RelayInv, IsRelay
<1>2. /\ new.invitations[id] = it
      /\ \A r \in Run \ {id} : new.invitations[r] = rel.invitations[r]
      /\ new.byCode = rel.byCode
  BY <1>1 DEF RelayInv, IsRelay
<1>3. rel.invitations[id].state \in OpenStates
  BY OpenIs DEF RelayInv
<1>4. IsRelay(new)
  <2>1. new.invitations = [r \in Run |-> new.invitations[r]]
    BY <1>1 DEF RelayInv, IsRelay
  <2> QED BY <1>1, <1>2, <2>1 DEF RelayInv, IsRelay
<1>5. CodesMatch(new)
  BY <1>2, <1>3 DEF RelayInv, CodesMatch
<1> QED BY <1>2, <1>4, <1>5 DEF RelayInv

-----------------------------------------------------------------------------
(* What a refusal leaves: the relay as it was, or without what is late.    *)
LEMMA RefusedTraced ==
  ASSUME NEW rel, RelayInv(rel), NEW call, NEW ids \in SUBSET Run, NEW error,
         error \notin {"waiting", "ok"}
  PROVE  /\ Traced(rel, call, refused(rel, error))
         /\ Traced(rel, call, refused(remove(rel, ids), error))
<1>1. Gone.token = None /\ Gone.ciphertext = None /\ Gone.state = "gone"
  BY DEF Gone
<1>2. /\ RelayInv(remove(rel, ids))
      /\ \A r \in Run : remove(rel, ids).invitations[r] =
                          IF r \in ids THEN Gone ELSE rel.invitations[r]
  BY RemoveKeeps
<1>3. \A s : refused(s, error).relay = s /\ refused(s, error).answer.is = error
  BY DEF refused
<1> QED BY <1>1, <1>2, <1>3 DEF Traced, IsGone

(* A handler that has found its invitation.                                *)
LEMMA LiveTraced ==
  ASSUME NEW rel, RelayInv(rel), NEW call, NEW id, NEW result,
         id \in Present(rel) /\ id \notin Late(rel) => Traced(rel, call, result)
  PROVE  Traced(rel, call, live(rel, id, result))
<1>1. id \in Late(rel) => {id} \in SUBSET Run
  BY DEF Late
<1>2. Traced(rel, call, refused(rel, "PairingNotFound"))
  BY RefusedTraced, {} \in SUBSET Run
<1>3. id \in Late(rel) => Traced(rel, call, refused(remove(rel, {id}), "PairingNotFound"))
  BY RefusedTraced, <1>1
<1> QED BY <1>2, <1>3 DEF live

LEMMA StateTraced ==
  ASSUME NEW rel, RelayInv(rel), NEW call, NEW id, NEW state, NEW result,
         rel.invitations[id].state = state => Traced(rel, call, result)
  PROVE  Traced(rel, call, requireState(rel, id, state, result))
<1>1. Traced(rel, call, refused(rel, "PairingState"))
  BY RefusedTraced, {} \in SUBSET Run
<1> QED BY <1>1 DEF requireState

LEMMA JoinedTraced ==
  ASSUME NEW rel, RelayInv(rel), NEW call, NEW id, NEW token, NEW result,
         id \in Present(rel) /\ rel.invitations[id].token = token
           => Traced(rel, call, result)
  PROVE  Traced(rel, call, joined(rel, id, token, result))
<1>1. Traced(rel, call, refused(rel, "PairingForbidden"))
  BY RefusedTraced, {} \in SUBSET Run
<1> QED BY <1>1, LiveTraced DEF joined

(* A read leaves the relay as it is.                                       *)
LEMMA ViewTraced ==
  ASSUME NEW rel, RelayInv(rel), NEW call, NEW view, view.is = "ok",
         call.op = "joinerView"
           => \E r \in Run : /\ view.state = rel.invitations[r].state
                             /\ view.ciphertext = rel.invitations[r].ciphertext,
         call.op = "hostView" => \E r \in Run : view.state = rel.invitations[r].state
  PROVE  Traced(rel, call, answered(rel, view))
<1>1. answered(rel, view).relay = rel /\ answered(rel, view).answer = view
  BY DEF answered
<1> QED BY <1>1 DEF Traced

(* What moves an invitation on.                                            *)
LEMMA MoveTraced ==
  ASSUME NEW rel, RelayInv(rel), NEW call, NEW id \in Run, id \in Open(rel),
         NEW it, IsInvitation(it), it.state \in OpenStates, it.code = rel.invitations[id].code,
         rel.invitations[id].token # None => it.token = rel.invitations[id].token,
         it.state = "delivered" => call.op = "deliver" /\ it.ciphertext = call.arg,
         NEW view, view.is = "ok", call.op \notin {"joinerView", "hostView"}
  PROVE  Traced(rel, call, answered([rel EXCEPT !.invitations[id] = it], view))
<1> DEFINE new == [rel EXCEPT !.invitations[id] = it]
           out == answered(new, view)
<1>1. /\ RelayInv(new) /\ new.invitations[id] = it
      /\ \A r \in Run \ {id} : new.invitations[r] = rel.invitations[r]
  BY MoveKeeps
<1>2. out.relay = new /\ out.answer = view
  BY DEF answered
<1>3. rel.invitations[id].state \in OpenStates
  BY OpenIs DEF RelayInv
<1> HIDE DEF new, out
<1>4. \A r \in Run : IsGone(rel, r) => IsGone(new, r)
  BY <1>1, <1>3 DEF IsGone, OpenStates
<1>5. \A r \in Run : new.invitations[r].state = "completed"
                       => rel.invitations[r].state = "completed"
  BY <1>1 DEF OpenStates
<1>6. Traced(rel, call, out)
  BY <1>1, <1>2, <1>4, <1>5 DEF Traced
<1> QED BY <1>6 DEF out, new

(* What ends one.                                                          *)
LEMMA EndTraced ==
  ASSUME NEW rel, RelayInv(rel), NEW call, NEW id \in Run, id \in Present(rel),
         NEW state \in TERMINAL, state = "completed" => call.op = "ack",
         call.op \notin {"joinerView", "hostView"}
  PROVE  Traced(rel, call, answered(end(rel, id, state), NoContent))
<1> DEFINE new == end(rel, id, state)
           out == answered(new, NoContent)
<1>1. /\ RelayInv(new)
      /\ \A r \in Run \ {id} : new.invitations[r] = rel.invitations[r]
      /\ new.invitations[id].token = rel.invitations[id].token
      /\ new.invitations[id].state \in {state, rel.invitations[id].state} \cap TERMINAL
  BY EndKeeps
<1>2. out.relay = new /\ out.answer.is = "ok"
  BY DEF answered, NoContent
<1>3. ~ IsGone(rel, id)
  BY DEF IsGone, Present
<1> HIDE DEF new, out
<1>4. \A r \in Run : IsGone(rel, r) => IsGone(new, r)
  BY <1>1, <1>3 DEF IsGone
<1> QED BY <1>1, <1>2, <1>4 DEF Traced, TERMINAL

-----------------------------------------------------------------------------
(* The handlers.                                                           *)
LEMMA CreateTraced ==
  ASSUME NEW rel, RelayInv(rel), NEW call, call.op = "create", call.inv \in Run,
         IsGone(rel, call.inv), NEW out \in create(rel, call.inv)
  PROVE  Traced(rel, call, out)
<1> DEFINE swept == sweep(rel)
           id == call.inv
<1>1. Late(rel) \in SUBSET Run
  BY DEF Late
<1>2. /\ RelayInv(swept)
      /\ \A r \in Run : swept.invitations[r] =
                          IF r \in Late(rel) THEN Gone ELSE rel.invitations[r]
  BY <1>1, RemoveKeeps DEF sweep
<1>3. CASE out = refused(swept, "PairingLimit")
  BY <1>1, <1>3, RefusedTraced DEF sweep
<1>4. CASE out # refused(swept, "PairingLimit")
  <2>1. PICK code \in Code :
          /\ swept.byCode[code] = None
          /\ out = answered([invitations |->
                                [swept.invitations EXCEPT ![id] = Invitation(id, code)],
                             byCode |-> [swept.byCode EXCEPT ![code] = id]],
                            [is |-> "ok", code |-> code])
    BY <1>4 DEF create
  <2> DEFINE it == Invitation(id, code)
             new == [invitations |-> [swept.invitations EXCEPT ![id] = it],
                     byCode |-> [swept.byCode EXCEPT ![code] = id]]
  <2>2. IsInvitation(it) /\ it.state = "open" /\ it.code = code /\ it.token = None
    BY DEF Invitation, Gone, IsInvitation, Fields, OpenStates
  <2>3. swept.invitations[id].state = "gone"
    BY <1>2 DEF IsGone, Gone
  <2>4. /\ new.invitations[id] = it
        /\ \A r \in Run \ {id} : new.invitations[r] = swept.invitations[r]
        /\ \A c \in Code : new.byCode[c] = IF c = code THEN id ELSE swept.byCode[c]
    BY <1>2 DEF RelayInv, IsRelay
  <2>5. IsRelay(new)
    <3>1. new.invitations = [r \in Run |-> new.invitations[r]]
      BY <1>2 DEF RelayInv, IsRelay
    <3>2. new.byCode = [c \in Code |-> new.byCode[c]]
      BY <1>2 DEF RelayInv, IsRelay
    <3> QED BY <1>2, <2>2, <2>4, <3>1, <3>2 DEF RelayInv, IsRelay
  <2>6. CodesMatch(new)
    <3> SUFFICES ASSUME NEW c \in Code, NEW r \in Run
                 PROVE  new.byCode[c] = r <=> new.invitations[r].state \in OpenStates
                                              /\ new.invitations[r].code = c
      BY DEF CodesMatch
    <3>1. swept.byCode[c] = r <=> swept.invitations[r].state \in OpenStates
                                  /\ swept.invitations[r].code = c
      BY <1>2 DEF RelayInv, CodesMatch
    <3>2. CASE r = id
      BY <2>2, <2>3, <2>4, <3>1, <3>2 DEF OpenStates
    <3>3. CASE r # id
      BY <2>1, <2>4, <3>1, <3>3, RelayAssumption
    <3> QED BY <3>2, <3>3
  <2>7. out.relay = new /\ out.answer.is = "ok"
    BY <2>1 DEF answered
  <2> HIDE DEF new, it
  <2>8. \A r \in Run \ {id} : IsGone(rel, r) => IsGone(new, r)
    BY <1>2, <2>4 DEF IsGone, Gone
  <2>9. \A r \in Run : rel.invitations[r].token # None
          => new.invitations[r].token \in {rel.invitations[r].token, None}
    BY <1>2, <2>2, <2>4 DEF Gone
  <2>10. \A r \in Run : new.invitations[r].state = "delivered"
           => /\ rel.invitations[r].state = "delivered"
              /\ new.invitations[r].ciphertext = rel.invitations[r].ciphertext
    BY <1>2, <2>2, <2>4 DEF Gone
  <2>11. \A r \in Run : new.invitations[r].state = "completed"
           => rel.invitations[r].state = "completed"
    BY <1>2, <2>2, <2>4 DEF Gone
  <2> QED BY <2>5, <2>6, <2>7, <2>8, <2>9, <2>10, <2>11 DEF Traced, RelayInv
<1> QED BY <1>3, <1>4

LEMMA HostTraced ==
  ASSUME NEW rel, RelayInv(rel), NEW call
  PROVE  /\ call.op = "hostView" => Traced(rel, call, hostView(rel, call.inv))
         /\ call.op = "hostNonce" => Traced(rel, call, hostNonce(rel, call.inv, call.arg))
         /\ call.op = "deliver" => Traced(rel, call, deliver(rel, call.inv, call.arg))
         /\ call.op = "hostCancel" => Traced(rel, call, hostCancel(rel, call.inv))
<1> DEFINE id == call.inv
           was == rel.invitations[id]
<1>0. \A i \in Present(rel) : i \in Run
  BY DEF Present
<1>1. ASSUME call.op = "hostView" PROVE Traced(rel, call, hostView(rel, id))
  <2> DEFINE view == [is |-> "ok", state |-> was.state, joiner |-> was.joiner,
                      joinerNonce |-> was.joinerNonce]
  <2>1. ASSUME id \in Present(rel) PROVE Traced(rel, call, answered(rel, view))
    BY <1>0, <1>1, <2>1, ViewTraced
  <2> QED BY <2>1, LiveTraced DEF hostView
<1>2. ASSUME call.op = "hostNonce" PROVE Traced(rel, call, hostNonce(rel, id, call.arg))
  <2> DEFINE it == [was EXCEPT !.hostNonce = call.arg, !.state = "nonced"]
             new == [rel EXCEPT !.invitations[id].hostNonce = call.arg,
                                  !.invitations[id].state = "nonced"]
  <2>1. ASSUME id \in Present(rel), was.state = "claimed"
        PROVE  Traced(rel, call, answered(new, NoContent))
    <3>1. id \in Run /\ id \in Open(rel) /\ IsInvitation(was)
      BY <1>0, <2>1 DEF RelayInv, IsRelay, Open, TERMINAL
    <3>2. new = [rel EXCEPT !.invitations[id] = it]
      BY <3>1 DEF RelayInv, IsRelay
    <3>3. /\ IsInvitation(it) /\ it.state \in OpenStates /\ it.code = was.code
          /\ it.token = was.token /\ it.state # "delivered"
      BY <3>1 DEF IsInvitation, Fields, OpenStates
    <3> HIDE DEF it, was, new
    <3>4. NoContent.is = "ok"
      BY DEF NoContent
    <3> QED BY <1>2, <3>1, <3>2, <3>3, <3>4, MoveTraced DEF was
  <2> QED BY <2>1, LiveTraced, StateTraced DEF hostNonce
<1>3. ASSUME call.op = "deliver" PROVE Traced(rel, call, deliver(rel, id, call.arg))
  <2> DEFINE it == [was EXCEPT !.ciphertext = call.arg, !.state = "delivered"]
             new == [rel EXCEPT !.invitations[id].ciphertext = call.arg,
                                  !.invitations[id].state = "delivered"]
  <2>1. ASSUME id \in Present(rel), was.state = "revealed"
        PROVE  Traced(rel, call, answered(new, NoContent))
    <3>1. id \in Run /\ id \in Open(rel) /\ IsInvitation(was)
      BY <1>0, <2>1 DEF RelayInv, IsRelay, Open, TERMINAL
    <3>2. new = [rel EXCEPT !.invitations[id] = it]
      BY <3>1 DEF RelayInv, IsRelay
    <3>3. /\ IsInvitation(it) /\ it.state \in OpenStates /\ it.code = was.code
          /\ it.token = was.token /\ it.ciphertext = call.arg
      BY <3>1 DEF IsInvitation, Fields, OpenStates
    <3> HIDE DEF it, was, new
    <3>4. NoContent.is = "ok"
      BY DEF NoContent
    <3> QED BY <1>3, <3>1, <3>2, <3>3, <3>4, MoveTraced DEF was
  <2> QED BY <2>1, LiveTraced, StateTraced DEF deliver
<1>4. ASSUME call.op = "hostCancel" PROVE Traced(rel, call, hostCancel(rel, id))
  <2>1. ASSUME id \in Present(rel)
        PROVE  Traced(rel, call, answered(end(rel, id, "cancelled"), NoContent))
    BY <1>0, <1>4, <2>1, EndTraced DEF TERMINAL
  <2> QED BY <2>1, LiveTraced DEF hostCancel
<1> QED BY <1>1, <1>2, <1>3, <1>4

LEMMA JoinerTraced ==
  ASSUME NEW rel, RelayInv(rel), NEW call
  PROVE  /\ call.op = "joinerView" => Traced(rel, call, joinerView(rel, call.inv, call.arg))
         /\ call.op = "reveal" => Traced(rel, call, reveal(rel, call.inv, call.arg))
         /\ call.op = "ack" => Traced(rel, call, ack(rel, call.inv, call.arg))
         /\ call.op = "joinerCancel" => Traced(rel, call, joinerCancel(rel, call.inv, call.arg))
<1> DEFINE id == call.inv
           was == rel.invitations[id]
<1>0. \A i \in Present(rel) : i \in Run
  BY DEF Present
<1>1. ASSUME call.op = "joinerView" PROVE Traced(rel, call, joinerView(rel, id, call.arg))
  <2> DEFINE view == [is |-> "ok", state |-> was.state, hostNonce |-> was.hostNonce,
                      ciphertext |-> was.ciphertext]
  <2>1. ASSUME id \in Present(rel) PROVE Traced(rel, call, answered(rel, view))
    BY <1>0, <1>1, <2>1, ViewTraced
  <2> QED BY <2>1, JoinedTraced DEF joinerView
<1>2. ASSUME call.op = "reveal" PROVE Traced(rel, call, reveal(rel, id, call.arg))
  <2> DEFINE it == [was EXCEPT !.joinerNonce = call.arg, !.state = "revealed"]
             new == [rel EXCEPT !.invitations[id].joinerNonce = call.arg,
                                  !.invitations[id].state = "revealed"]
  <2>1. ASSUME id \in Present(rel), was.state = "nonced"
        PROVE  Traced(rel, call, answered(new, NoContent))
    <3>1. id \in Run /\ id \in Open(rel) /\ IsInvitation(was)
      BY <1>0, <2>1 DEF RelayInv, IsRelay, Open, TERMINAL
    <3>2. new = [rel EXCEPT !.invitations[id] = it]
      BY <3>1 DEF RelayInv, IsRelay
    <3>3. /\ IsInvitation(it) /\ it.state \in OpenStates /\ it.code = was.code
          /\ it.token = was.token /\ it.state # "delivered"
      BY <3>1 DEF IsInvitation, Fields, OpenStates
    <3> HIDE DEF it, was, new
    <3>4. NoContent.is = "ok"
      BY DEF NoContent
    <3> QED BY <1>2, <3>1, <3>2, <3>3, <3>4, MoveTraced DEF was
  <2>2. ASSUME id \in Present(rel)
        PROVE  Traced(rel, call, requireState(rel, id, "nonced", answered(new, NoContent)))
    BY <2>1, <2>2, StateTraced
  <2> QED BY <2>2, JoinedTraced DEF reveal
<1>3. ASSUME call.op = "ack" PROVE Traced(rel, call, ack(rel, id, call.arg))
  <2> DEFINE out == answered(end(rel, id, "completed"), NoContent)
  <2>1. ASSUME id \in Present(rel) PROVE Traced(rel, call, out)
    BY <1>0, <1>3, <2>1, EndTraced DEF TERMINAL
  <2>2. ASSUME id \in Present(rel)
        PROVE  Traced(rel, call, requireState(rel, id, "delivered", out))
    BY <2>1, <2>2, StateTraced
  <2> QED BY <2>2, JoinedTraced DEF ack
<1>4. ASSUME call.op = "joinerCancel" PROVE Traced(rel, call, joinerCancel(rel, id, call.arg))
  <2>1. ASSUME id \in Present(rel)
        PROVE  Traced(rel, call, answered(end(rel, id, "cancelled"), NoContent))
    BY <1>0, <1>4, <2>1, EndTraced DEF TERMINAL
  <2> QED BY <2>1, JoinedTraced DEF joinerCancel
<1> QED BY <1>1, <1>2, <1>3, <1>4

LEMMA ClaimTraced ==
  ASSUME NEW rel, RelayInv(rel), NEW call, call.op = "claim", NEW ref, NEW j
  PROVE  Traced(rel, call, claim(rel, ref, j))
<1> DEFINE id == lookup(rel, ref)
           was == rel.invitations[id]
           it == [was EXCEPT !.token = j, !.joiner = j, !.state = "claimed"]
           new == [rel EXCEPT !.invitations[id].token = j, !.invitations[id].joiner = j,
                                !.invitations[id].state = "claimed"]
           view == [is |-> "ok", id |-> id, hostKey |-> was.hostKey]
           result == CASE id \notin Open(rel) -> refused(rel, "PairingNotFound")
                       [] was.state # "open" -> refused(rel, "PairingClaimed")
                       [] OTHER -> answered(new, view)
<1>1. Traced(rel, call, refused(rel, "PairingNotFound"))
      /\ Traced(rel, call, refused(rel, "PairingClaimed"))
  BY RefusedTraced, {} \in SUBSET Run
<1>2. ASSUME id \in Open(rel), was.state = "open"
      PROVE  Traced(rel, call, answered(new, view))
  <2>1. id \in Run /\ IsInvitation(was) /\ was.token = None
    BY <1>2 DEF RelayInv, IsRelay, IsInvitation, Open, Present
  <2>2. new = [rel EXCEPT !.invitations[id] = it]
    BY <2>1 DEF RelayInv, IsRelay
  <2>3. /\ IsInvitation(it) /\ it.state \in OpenStates /\ it.code = was.code
        /\ it.state # "delivered"
    BY <2>1 DEF IsInvitation, Fields, OpenStates
  <2>4. view.is = "ok"
    OBVIOUS
  <2> HIDE DEF it, new, view
  <2> QED BY <1>2, <2>1, <2>2, <2>3, <2>4, MoveTraced
<1>3. Traced(rel, call, result)
  <2>1. CASE id \notin Open(rel)
    BY <1>1, <2>1
  <2>2. CASE id \in Open(rel) /\ was.state # "open"
    BY <1>1, <2>2
  <2>3. CASE id \in Open(rel) /\ was.state = "open"
    BY <1>2, <2>3
  <2> QED BY <2>1, <2>2, <2>3
<1> HIDE DEF result
<1>4. Traced(rel, call, live(rel, id, result))
  BY <1>3, LiveTraced
<1>5. claim(rel, ref, j) = IF id = None THEN refused(rel, "PairingNotFound")
                             ELSE live(rel, id, result)
  BY DEF claim, result
<1> QED BY <1>1, <1>4, <1>5

Ops == {"create", "hostView", "hostNonce", "deliver", "hostCancel", "claim", "joinerView",
        "reveal", "ack", "joinerCancel"}

(* Whatever the relay makes of a call.                                     *)
LEMMA OutcomesTraced ==
  ASSUME NEW rel, RelayInv(rel), NEW call, call.op \in Ops,
         call.op = "create" => call.inv \in Run /\ IsGone(rel, call.inv),
         NEW out \in outcomes(rel, call)
  PROVE  Traced(rel, call, out)
<1>1. CASE call.op = "create"
  BY <1>1, CreateTraced DEF outcomes
<1>2. CASE call.op \in {"hostView", "hostNonce", "deliver", "hostCancel"}
  BY <1>2, HostTraced DEF outcomes
<1>3. CASE call.op = "claim"
  BY <1>3, ClaimTraced DEF outcomes
<1>4. CASE call.op \in {"joinerView", "reveal", "ack", "joinerCancel"}
  BY <1>4, JoinerTraced DEF outcomes
<1> QED BY <1>1, <1>2, <1>3, <1>4 DEF Ops

(* An empty relay is in order: at the start, and after a restart.          *)
LEMMA NoneKeeps ==
  /\ RelayInv(NoInvitations)
  /\ \A r \in Run : NoInvitations.invitations[r] = Gone
<1>1. IsInvitation(Gone) /\ Gone.state \notin OpenStates
  BY DEF IsInvitation, Fields, Gone, OpenStates
<1>2. /\ \A r \in Run : NoInvitations.invitations[r] = Gone
      /\ \A c \in Code : NoInvitations.byCode[c] = None
  BY DEF NoInvitations
<1>3. IsRelay(NoInvitations)
  <2>1. /\ NoInvitations = [invitations |-> NoInvitations.invitations,
                            byCode |-> NoInvitations.byCode]
        /\ NoInvitations.invitations = [r \in Run |-> NoInvitations.invitations[r]]
        /\ NoInvitations.byCode = [c \in Code |-> NoInvitations.byCode[c]]
    BY DEF NoInvitations
  <2> QED BY <1>1, <1>2, <2>1 DEF IsRelay
<1>4. CodesMatch(NoInvitations)
  BY <1>1, <1>2, RelayAssumption DEF CodesMatch
<1> QED BY <1>2, <1>3, <1>4 DEF RelayInv

(* So is a relay some of whose invitations have run out.                   *)
LEMMA SweepKeeps ==
  ASSUME NEW rel, RelayInv(rel)
  PROVE  /\ RelayInv(sweep(rel))
         /\ \A r \in Run : sweep(rel).invitations[r] \in {Gone, rel.invitations[r]}
<1>1. Late(rel) \in SUBSET Run
  BY DEF Late
<1> QED BY <1>1, RemoveKeeps DEF sweep

LEMMA LateKeeps ==
  ASSUME NEW rel, RelayInv(rel), NEW id \in Run
  PROVE  LET new == [rel EXCEPT !.invitations[id].late = TRUE] IN
         /\ RelayInv(new)
         /\ \A r \in Run : /\ new.invitations[r].state = rel.invitations[r].state
                           /\ new.invitations[r].token = rel.invitations[r].token
                           /\ new.invitations[r].ciphertext = rel.invitations[r].ciphertext
<1> DEFINE was == rel.invitations[id]
           it == [was EXCEPT !.late = TRUE]
           new == [rel EXCEPT !.invitations[id].late = TRUE]
<1>1. IsInvitation(was)
  BY DEF RelayInv, IsRelay
<1>2. /\ IsInvitation(it) /\ it.state = was.state /\ it.code = was.code
      /\ it.token = was.token /\ it.ciphertext = was.ciphertext
  BY <1>1 DEF IsInvitation, Fields
<1>3. new = [rel EXCEPT !.invitations[id] = it]
  BY DEF RelayInv, IsRelay
<1> HIDE DEF it
<1>4. new = [invitations |-> [rel.invitations EXCEPT ![id] = it], byCode |-> rel.byCode]
  BY <1>3 DEF RelayInv, IsRelay
<1>5. /\ new.invitations[id] = it /\ new.byCode = rel.byCode
      /\ \A r \in Run \ {id} : new.invitations[r] = rel.invitations[r]
      /\ new.invitations = [r \in Run |-> new.invitations[r]]
  BY <1>4 DEF RelayInv, IsRelay
<1>6. IsRelay(new)
  BY <1>2, <1>4, <1>5 DEF RelayInv, IsRelay
<1>7. CodesMatch(new)
  BY <1>2, <1>5 DEF RelayInv, CodesMatch
<1> QED BY <1>2, <1>5, <1>6, <1>7 DEF RelayInv

-----------------------------------------------------------------------------
(***************************************************************************)
(* The devices and the relay together.                                     *)
(***************************************************************************)

(* What is sealed names the invitation, its keys and the device it is for. *)
Confirmed(words, ciphertext) == <<ciphertext[1], ciphertext[3]>> \in words

SomeOpened == \E j \in Joiner : joiner[j].opened

HostFields == {"phase", "inv", "code", "sas", "run", "keys", "joiner", "nonce", "aborted",
               "pending", "runs", "open", "confirmed"}
JoinerFields == {"phase", "sas", "matched", "held", "aborted", "at", "ref", "id", "hostKey",
                 "pinned", "opened", "shown", "answer"}
IsHost(h) == h = [f \in HostFields |-> h[f]]

IsLoop(it) ==
  /\ it = [f \in {"at", "nonce", "answer"} |-> it[f]]
  /\ it.at \in {"off", "create", "pause", "hostView", "hostNonce"}
  /\ it.at = "pause" => it.answer = Waiting

(* What a joiner does follows from what it has been told.                  *)
JoinerOK(words, j, it) ==
  /\ it = [f \in JoinerFields |-> it[f]]
  /\ it.at \in {"off", "pause", "claim", "joinerView", "reveal", "ack"}
  /\ it.at = "pause" => it.answer = Waiting
  /\ it.at = "joinerView" /\ it.answer.is = "ok" /\ it.answer.state = "delivered"
       => Confirmed(words, it.answer.ciphertext)
  /\ it.opened => it.matched /\ it.at # "claim" /\ <<it.id, j>> \in words
  /\ it.at = "ack" => it.opened

(* A call on its way carries what its sender may send.                     *)
CallOK(call) ==
  /\ call.op \in Ops
  /\ call.op = "create" => call.inv \in Run /\ call = Call("create", call.inv, None)
  /\ call.op = "deliver" => Confirmed(host.confirmed, call.arg)
  /\ call.op = "ack" => SomeOpened

RelayPart ==
  /\ RelayInv(relay)
  /\ \A r \in Run : relay.invitations[r].state = "delivered"
                      => Confirmed(host.confirmed, relay.invitations[r].ciphertext)
  /\ \A r \in Run : relay.invitations[r].state = "completed" => SomeOpened

HostPart == IsHost(host) /\ host.runs \in Nat /\ (host.phase = "done" => SomeOpened)

LoopPart ==
  /\ loop = [r \in Run |-> loop[r]]
  /\ \A r \in Run :
       /\ IsLoop(loop[r])
       /\ loop[r].at = "hostView" /\ loop[r].answer.is = "ok" /\ loop[r].answer.state = "completed"
            => SomeOpened

SendPart ==
  /\ sending = [r \in Run |-> sending[r]]
  /\ \A r \in Run :
       /\ sending[r] = [f \in {"ciphertext", "answer"} |-> sending[r][f]]
       /\ Sends(r) => Confirmed(host.confirmed, sending[r].ciphertext)

JoinerPart ==
  /\ joiner = [j \in Joiner |-> joiner[j]]
  /\ \A j \in Joiner : JoinerOK(host.confirmed, j, joiner[j])

AdriftPart == \A call \in adrift : CallOK(call)

(* Each run makes its invitation at most once.                             *)
Creating(r) == loop[r].at = "create" /\ loop[r].answer = Waiting
CreateAdrift(r) == \E call \in adrift : call.op = "create" /\ call.inv = r
OncePart ==
  \A r \in Run :
    /\ Creating(r) \/ CreateAdrift(r) => IsGone(relay, r)
    /\ ~ (Creating(r) /\ CreateAdrift(r))
    /\ r > host.runs => IsGone(relay, r) /\ ~ Creating(r) /\ ~ CreateAdrift(r)

PairingInv ==
  RelayPart /\ HostPart /\ LoopPart /\ SendPart /\ JoinerPart /\ AdriftPart /\ OncePart

(* OneClaimant, of a step.                                                 *)
TokensKept ==
  \A r \in Run : relay.invitations[r].token # None
    => relay'.invitations[r].token \in {relay.invitations[r].token, None}

-----------------------------------------------------------------------------
LEMMA PairingInit == Init => PairingInv
<1> SUFFICES ASSUME Init PROVE PairingInv
  OBVIOUS
<1>1. RelayPart
  BY NoneKeeps DEF Init, RelayPart, Gone
<1>2. HostPart
  BY DEF Init, HostPart, IsHost, HostFields
<1>3. LoopPart
  BY DEF Init, LoopPart, IsLoop, Idle, Waiting
<1>4. SendPart
  BY DEF Init, SendPart, Sends, NotSent
<1>5. JoinerPart
  BY DEF Init, JoinerPart, JoinerOK, JoinerFields, Fresh
<1>6. AdriftPart
  BY DEF Init, AdriftPart
<1>7. OncePart
  BY DEF Init, OncePart, Creating, CreateAdrift, IsGone, NoInvitations, Gone, Idle
<1> QED BY <1>1, <1>2, <1>3, <1>4, <1>5, <1>6, <1>7 DEF PairingInv

-----------------------------------------------------------------------------
(* The relay serves a call: what it holds and what it answers has been     *)
(* confirmed, or opened, by then.                                          *)
LEMMA Served ==
  ASSUME PairingInv, NEW call, CallOK(call),
         call.op = "create" => IsGone(relay, call.inv),
         NEW out \in outcomes(relay, call), relay' = out.relay,
         host' = host,
         \A j \in Joiner : joiner'[j].opened = joiner[j].opened
  PROVE  /\ RelayPart'
         /\ SomeOpened' <=> SomeOpened
         /\ TokensKept
         /\ \A r \in Run : IsGone(relay, r) /\ ~ (call.op = "create" /\ call.inv = r)
              => IsGone(relay', r)
         /\ out.answer.is # "waiting"
         /\ call.op = "joinerView" /\ out.answer.is = "ok" /\ out.answer.state = "delivered"
              => Confirmed(host.confirmed, out.answer.ciphertext)
         /\ call.op = "hostView" /\ out.answer.is = "ok" /\ out.answer.state = "completed"
              => SomeOpened
<1>1. RelayInv(relay)
  BY DEF PairingInv, RelayPart
<1>2. Traced(relay, call, out)
  BY <1>1, OutcomesTraced DEF CallOK
<1>3. SomeOpened' <=> SomeOpened
  BY DEF SomeOpened
<1>4. RelayPart'
  BY <1>2, <1>3 DEF PairingInv, RelayPart, Traced, CallOK
<1>5. call.op = "joinerView" /\ out.answer.is = "ok" /\ out.answer.state = "delivered"
        => Confirmed(host.confirmed, out.answer.ciphertext)
  BY <1>2 DEF PairingInv, RelayPart, Traced
<1>6. call.op = "hostView" /\ out.answer.is = "ok" /\ out.answer.state = "completed"
        => SomeOpened
  BY <1>2 DEF PairingInv, RelayPart, Traced
<1> QED BY <1>2, <1>3, <1>4, <1>5, <1>6 DEF Traced, TokensKept

(* What nobody touches stays in order while words and openings only grow.  *)
LEMMA Untouched ==
  ASSUME PairingInv, SomeOpened => SomeOpened', host.confirmed \subseteq host'.confirmed
  PROVE  /\ UNCHANGED relay => RelayPart'
         /\ UNCHANGED loop => LoopPart'
         /\ UNCHANGED sending => SendPart'
         /\ UNCHANGED joiner => JoinerPart'
         /\ \A call : CallOK(call) => CallOK(call)'
         /\ (\A call \in adrift' : call \in adrift \/ call.op \in {"hostCancel", "joinerCancel"})
              => AdriftPart'
<1>1. \A c : Confirmed(host.confirmed, c) => Confirmed(host'.confirmed, c)
  BY DEF Confirmed
<1>2. UNCHANGED relay => RelayPart'
  BY <1>1 DEF PairingInv, RelayPart
<1>3. UNCHANGED loop => LoopPart'
  BY DEF PairingInv, LoopPart
<1>4. UNCHANGED sending => SendPart'
  BY <1>1 DEF PairingInv, SendPart, Sends
<1>5. UNCHANGED joiner => JoinerPart'
  <2>1. \A j, it : JoinerOK(host.confirmed, j, it) => JoinerOK(host'.confirmed, j, it)
    BY <1>1 DEF JoinerOK
  <2> QED BY <2>1 DEF PairingInv, JoinerPart
<1>6. \A call : CallOK(call) => CallOK(call)'
  BY <1>1 DEF CallOK
<1>7. \A call : call.op \in {"hostCancel", "joinerCancel"} => CallOK(call)'
  BY DEF CallOK, Ops
<1>8. (\A call \in adrift' : call \in adrift \/ call.op \in {"hostCancel", "joinerCancel"})
        => AdriftPart'
  BY <1>6, <1>7 DEF PairingInv, AdriftPart
<1> QED BY <1>2, <1>3, <1>4, <1>5, <1>6, <1>8

-----------------------------------------------------------------------------
(* The network.                                                            *)
LEMMA ServeLoopKeeps ==
  ASSUME PairingInv, NEW r \in Run, ServeLoop(r)
  PROVE  PairingInv' /\ TokensKept
<1> DEFINE call == LoopCall(r)
<1>1. PICK out \in outcomes(relay, call) :
        relay' = out.relay /\ loop' = [loop EXCEPT ![r].answer = out.answer]
  BY DEF ServeLoop
<1>2. /\ call.op = loop[r].at /\ call.inv = r
      /\ loop[r].at \in {"create", "hostView", "hostNonce"} /\ loop[r].answer = Waiting
  BY DEF ServeLoop, LoopCalls, LoopCall, Call, PairingInv, LoopPart, IsLoop
<1>3. CallOK(call)
  BY <1>2 DEF CallOK, Ops, LoopCall, Call
<1>4. call.op = "create" => Creating(r) /\ IsGone(relay, call.inv)
  BY <1>2 DEF PairingInv, OncePart, Creating
<1>5. /\ host' = host /\ sending' = sending /\ joiner' = joiner /\ adrift' = adrift
  BY DEF ServeLoop
<1>6. /\ RelayPart' /\ TokensKept /\ (SomeOpened' <=> SomeOpened)
      /\ \A q \in Run : IsGone(relay, q) /\ ~ (call.op = "create" /\ call.inv = q)
           => IsGone(relay', q)
      /\ out.answer.is # "waiting"
      /\ call.op = "hostView" /\ out.answer.is = "ok" /\ out.answer.state = "completed"
           => SomeOpened
  BY <1>1, <1>3, <1>4, <1>5, Served
<1> HIDE DEF call
<1>7. HostPart' /\ SendPart' /\ JoinerPart' /\ AdriftPart'
  BY <1>5, <1>6, Untouched DEF PairingInv, HostPart
<1>8. /\ loop' = [q \in Run |-> loop'[q]]
      /\ \A q \in Run \ {r} : loop'[q] = loop[q]
      /\ loop'[r] = [at |-> loop[r].at, nonce |-> loop[r].nonce, answer |-> out.answer]
  BY <1>1 DEF PairingInv, LoopPart, IsLoop
<1>9. LoopPart'
  BY <1>2, <1>6, <1>8 DEF PairingInv, LoopPart, IsLoop
<1>10. out.answer # Waiting
  BY <1>6 DEF Waiting
<1>11. OncePart'
  <2> SUFFICES ASSUME NEW q \in Run
               PROVE  /\ Creating(q)' \/ CreateAdrift(q)' => IsGone(relay', q)
                      /\ ~ (Creating(q)' /\ CreateAdrift(q)')
                      /\ q > host'.runs => IsGone(relay', q) /\ ~ Creating(q)' /\ ~ CreateAdrift(q)'
    BY DEF OncePart
  <2>1. CreateAdrift(q)' <=> CreateAdrift(q)
    BY <1>5 DEF CreateAdrift
  <2>2. Creating(q)' <=> Creating(q) /\ q # r
    BY <1>8, <1>10 DEF Creating
  <2> QED BY <1>2, <1>4, <1>5, <1>6, <2>1, <2>2 DEF PairingInv, OncePart
<1> QED BY <1>6, <1>7, <1>9, <1>11 DEF PairingInv

LEMMA ServeSendKeeps ==
  ASSUME PairingInv, NEW r \in Run, ServeSend(r)
  PROVE  PairingInv' /\ TokensKept
<1> DEFINE call == SendCall(r)
<1>1. PICK out \in outcomes(relay, call) :
        relay' = out.relay /\ sending' = [sending EXCEPT ![r].answer = out.answer]
  BY DEF ServeSend
<1>2. call.op = "deliver" /\ call.arg = sending[r].ciphertext /\ Sends(r)
  BY DEF ServeSend, SendCall, Call
<1>3. CallOK(call)
  BY <1>2 DEF CallOK, Ops, PairingInv, SendPart
<1>4. host' = host /\ loop' = loop /\ joiner' = joiner /\ adrift' = adrift
  BY DEF ServeSend
<1>5. /\ RelayPart' /\ TokensKept /\ (SomeOpened' <=> SomeOpened)
      /\ \A q \in Run : IsGone(relay, q) /\ ~ (call.op = "create" /\ call.inv = q)
           => IsGone(relay', q)
  BY <1>1, <1>2, <1>3, <1>4, Served
<1> HIDE DEF call
<1>6. HostPart' /\ LoopPart' /\ JoinerPart' /\ AdriftPart'
  BY <1>4, <1>5, Untouched DEF PairingInv, HostPart
<1>7. /\ sending' = [q \in Run |-> sending'[q]]
      /\ \A q \in Run \ {r} : sending'[q] = sending[q]
      /\ sending'[r] = [ciphertext |-> sending[r].ciphertext, answer |-> out.answer]
  BY <1>1 DEF PairingInv, SendPart
<1>8. SendPart'
  BY <1>4, <1>7 DEF PairingInv, SendPart, Sends
<1>9. OncePart'
  BY <1>2, <1>4, <1>5 DEF PairingInv, OncePart, Creating, CreateAdrift
<1> QED BY <1>5, <1>6, <1>8, <1>9 DEF PairingInv

(* One joiner becomes what it may be, and the relay's holdings are kept.   *)
LEMMA JoinerBecomes ==
  ASSUME PairingInv, NEW j \in Joiner, NEW to, joiner' = [joiner EXCEPT ![j] = to],
         JoinerOK(host.confirmed, j, to), joiner[j].opened => to.opened
  PROVE  /\ SomeOpened => SomeOpened'
         /\ to.opened => SomeOpened'
         /\ host' = host => JoinerPart'
<1>1. /\ joiner' = [i \in Joiner |-> joiner'[i]]
      /\ \A i \in Joiner \ {j} : joiner'[i] = joiner[i]
      /\ joiner'[j] = to
  BY DEF PairingInv, JoinerPart
<1>2. SomeOpened => SomeOpened'
  BY <1>1 DEF SomeOpened
<1>3. to.opened => SomeOpened'
  BY <1>1 DEF SomeOpened
<1>4. host' = host => JoinerPart'
  BY <1>1 DEF PairingInv, JoinerPart
<1> QED BY <1>2, <1>3, <1>4

LEMMA ServeJoinerKeeps ==
  ASSUME PairingInv, NEW j \in Joiner, ServeJoiner(j)
  PROVE  PairingInv' /\ TokensKept
<1> DEFINE call == JoinerCall(j)
           it == joiner[j]
<1>1. PICK out \in outcomes(relay, call) :
        relay' = out.relay /\ joiner' = [joiner EXCEPT ![j].answer = out.answer]
  BY DEF ServeJoiner
<1>2. /\ call.op = it.at /\ it.at \in {"claim", "joinerView", "reveal", "ack"}
      /\ JoinerOK(host.confirmed, j, it)
  BY DEF ServeJoiner, JoinerCalls, JoinerCall, Call, PairingInv, JoinerPart, JoinerOK
<1>3. CallOK(call)
  BY <1>2 DEF CallOK, Ops, JoinerOK, SomeOpened
<1>4. host' = host /\ loop' = loop /\ sending' = sending /\ adrift' = adrift
  BY DEF ServeJoiner
<1> DEFINE to == [it EXCEPT !.answer = out.answer]
<1>5. joiner' = [joiner EXCEPT ![j] = to]
  BY <1>1 DEF PairingInv, JoinerPart
<1>6. /\ \A i \in Joiner \ {j} : joiner'[i] = joiner[i]
      /\ joiner'[j] = to
  BY <1>5 DEF PairingInv, JoinerPart
<1>7. /\ to.at = it.at /\ to.opened = it.opened /\ to.matched = it.matched
      /\ to.id = it.id /\ to.answer = out.answer
  BY <1>2 DEF JoinerOK
<1>8. /\ RelayPart' /\ TokensKept /\ (SomeOpened' <=> SomeOpened)
      /\ \A q \in Run : IsGone(relay, q) /\ ~ (call.op = "create" /\ call.inv = q)
           => IsGone(relay', q)
      /\ call.op = "joinerView" /\ out.answer.is = "ok" /\ out.answer.state = "delivered"
           => Confirmed(host.confirmed, out.answer.ciphertext)
  BY <1>1, <1>2, <1>3, <1>4, <1>6, <1>7, Served
<1> HIDE DEF call
<1>9. JoinerOK(host.confirmed, j, to)
  BY <1>2, <1>7, <1>8 DEF JoinerOK
<1> HIDE DEF to, it
<1>10. JoinerPart'
  BY <1>4, <1>5, <1>7, <1>9, JoinerBecomes DEF it
<1>11. HostPart' /\ LoopPart' /\ SendPart' /\ AdriftPart'
  BY <1>4, <1>8, Untouched DEF PairingInv, HostPart
<1>12. OncePart'
  BY <1>2, <1>4, <1>8 DEF PairingInv, OncePart, Creating, CreateAdrift
<1> QED BY <1>8, <1>10, <1>11, <1>12 DEF PairingInv

LEMMA ServeAdriftKeeps ==
  ASSUME PairingInv, ServeAdrift
  PROVE  PairingInv' /\ TokensKept
<1>0. PICK call \in adrift :
        /\ \E out \in outcomes(relay, call) : relay' = out.relay
        /\ adrift' = adrift \ {call}
  BY DEF ServeAdrift
<1>1. PICK out \in outcomes(relay, call) : relay' = out.relay /\ adrift' = adrift \ {call}
  BY <1>0
<1>2. CallOK(call)
  BY DEF PairingInv, AdriftPart
<1>3. host' = host /\ loop' = loop /\ sending' = sending /\ joiner' = joiner
  BY DEF ServeAdrift
<1>4. call.op = "create" => CreateAdrift(call.inv) /\ IsGone(relay, call.inv)
  BY <1>2 DEF PairingInv, OncePart, CreateAdrift, CallOK
<1>5. /\ RelayPart' /\ TokensKept /\ (SomeOpened' <=> SomeOpened)
      /\ \A q \in Run : IsGone(relay, q) /\ ~ (call.op = "create" /\ call.inv = q)
           => IsGone(relay', q)
  BY <1>1, <1>2, <1>3, <1>4, Served
<1>6. HostPart' /\ LoopPart' /\ SendPart' /\ JoinerPart' /\ AdriftPart'
  BY <1>1, <1>3, <1>5, Untouched DEF PairingInv, HostPart
<1>7. OncePart'
  <2> SUFFICES ASSUME NEW q \in Run
               PROVE  /\ Creating(q)' \/ CreateAdrift(q)' => IsGone(relay', q)
                      /\ ~ (Creating(q)' /\ CreateAdrift(q)')
                      /\ q > host'.runs => IsGone(relay', q) /\ ~ Creating(q)' /\ ~ CreateAdrift(q)'
    BY DEF OncePart
  <2>1. Creating(q)' <=> Creating(q)
    BY <1>3 DEF Creating
  <2>2. CreateAdrift(q)' => CreateAdrift(q)
    BY <1>1 DEF CreateAdrift
  <2>3. CASE call.op = "create" /\ call.inv = q
    <3>1. ~ CreateAdrift(q)'
      BY <1>1, <1>2, <2>3 DEF CreateAdrift, PairingInv, AdriftPart, CallOK
    <3> QED BY <1>3, <1>4, <2>1, <2>3, <3>1 DEF PairingInv, OncePart
  <2>4. CASE ~ (call.op = "create" /\ call.inv = q)
    BY <1>3, <1>5, <2>1, <2>2, <2>4 DEF PairingInv, OncePart
  <2> QED BY <2>3, <2>4
<1> QED BY <1>5, <1>6, <1>7 DEF PairingInv

-----------------------------------------------------------------------------
(* What a step that serves nothing may do to calls and to fields.          *)
QuietAdrift == \A call \in adrift' : call \in adrift \/ (call.op # "create" /\ CallOK(call))

QuietLoop ==
  /\ loop' = [r \in Run |-> loop'[r]]
  /\ \A r \in Run : \/ loop'[r] = loop[r]
                     \/ /\ IsLoop(loop'[r]) /\ loop'[r].at # "create"
                        /\ loop'[r].answer.is # "ok"

QuietSending ==
  /\ sending' = [r \in Run |-> sending'[r]]
  /\ \A r \in Run :
       /\ sending'[r] = [f \in {"ciphertext", "answer"} |-> sending'[r][f]]
       /\ sending'[r].ciphertext \in {sending[r].ciphertext, None}

SameWords(h, g) ==
  /\ IsHost(g) /\ g.runs = h.runs /\ g.confirmed = h.confirmed
  /\ g.phase = "done" => h.phase = "done" \/ SomeOpened

LEMMA Cancels ==
  /\ \A call : call.op \in {"hostCancel", "joinerCancel"} => call.op # "create" /\ CallOK(call)
  /\ \A id : \A call \in Deletes(id) : call.op = "hostCancel"
  /\ \A id, j : Call("joinerCancel", id, j).op = "joinerCancel"
BY DEF CallOK, Ops, Deletes, Call

(* The first device's own steps, and drops.                                *)
LEMMA HostMoves ==
  ASSUME PairingInv, UNCHANGED <<relay, joiner>>, SameWords(host, host'),
         QuietAdrift, QuietLoop, QuietSending
  PROVE  PairingInv' /\ TokensKept
<1>1. SomeOpened' <=> SomeOpened
  BY DEF SomeOpened
<1>2. host'.confirmed = host.confirmed /\ host'.runs = host.runs
  BY DEF SameWords
<1>3. /\ RelayPart' /\ JoinerPart'
      /\ \A call : CallOK(call) => CallOK(call)'
  BY <1>1, <1>2, Untouched
<1>4. HostPart'
  BY <1>1, <1>2 DEF PairingInv, HostPart, SameWords
<1>5. LoopPart'
  BY <1>1 DEF PairingInv, LoopPart, QuietLoop
<1>6. SendPart'
  BY <1>2 DEF PairingInv, SendPart, QuietSending, Sends
<1>7. AdriftPart'
  BY <1>3 DEF PairingInv, AdriftPart, QuietAdrift
<1>8. OncePart'
  <2>1. \A r \in Run : /\ Creating(r)' => Creating(r)
                       /\ CreateAdrift(r)' => CreateAdrift(r)
    BY DEF QuietLoop, QuietAdrift, Creating, CreateAdrift
  <2> QED BY <1>2, <2>1 DEF PairingInv, OncePart, IsGone
<1> QED BY <1>3, <1>4, <1>5, <1>6, <1>7, <1>8 DEF PairingInv, TokensKept

(* A new device's own steps, and a call of its that is refused.            *)
LEMMA JoinerMoves ==
  ASSUME PairingInv, NEW j \in Joiner, NEW to, joiner' = [joiner EXCEPT ![j] = to],
         JoinerOK(host.confirmed, j, to), joiner[j].opened => to.opened,
         QuietAdrift, UNCHANGED <<relay, host, loop, sending>>
  PROVE  PairingInv' /\ TokensKept
<1>1. (SomeOpened => SomeOpened') /\ JoinerPart'
  BY JoinerBecomes
<1>2. /\ RelayPart' /\ LoopPart' /\ SendPart'
      /\ \A call : CallOK(call) => CallOK(call)'
  BY <1>1, Untouched
<1>3. HostPart'
  BY <1>1 DEF PairingInv, HostPart
<1>4. AdriftPart'
  BY <1>2 DEF PairingInv, AdriftPart, QuietAdrift
<1>5. OncePart'
  <2>1. \A r \in Run : CreateAdrift(r)' => CreateAdrift(r)
    BY DEF QuietAdrift, CreateAdrift
  <2> QED BY <2>1 DEF PairingInv, OncePart, Creating
<1> QED BY <1>1, <1>2, <1>3, <1>4, <1>5 DEF PairingInv, TokensKept

(* Time, and a restart of the relay.                                       *)
LEMMA RelayMoves ==
  ASSUME PairingInv, RelayInv(relay'), UNCHANGED <<host, loop, sending, joiner, adrift>>,
         \A r \in Run :
           \/ relay'.invitations[r] = Gone
           \/ /\ relay'.invitations[r].state = relay.invitations[r].state
              /\ relay'.invitations[r].token = relay.invitations[r].token
              /\ relay'.invitations[r].ciphertext = relay.invitations[r].ciphertext
  PROVE  PairingInv' /\ TokensKept
<1>1. SomeOpened' <=> SomeOpened
  BY DEF SomeOpened
<1>2. HostPart' /\ LoopPart' /\ SendPart' /\ JoinerPart' /\ AdriftPart'
  BY <1>1, Untouched DEF PairingInv, HostPart
<1>3. Gone.state = "gone" /\ Gone.token = None
  BY DEF Gone
<1>4. RelayPart'
  BY <1>1, <1>3 DEF PairingInv, RelayPart
<1>5. OncePart'
  BY <1>3 DEF PairingInv, OncePart, Creating, CreateAdrift, IsGone
<1>6. TokensKept
  BY <1>3 DEF TokensKept
<1> QED BY <1>2, <1>4, <1>5, <1>6 DEF PairingInv

-----------------------------------------------------------------------------
(* The network, and the relay by itself.                                   *)
LEMMA StillLoop ==
  ASSUME PairingInv, UNCHANGED loop
  PROVE  QuietLoop
BY DEF PairingInv, LoopPart, QuietLoop

LEMMA StillSending ==
  ASSUME PairingInv, UNCHANGED sending
  PROVE  QuietSending
BY DEF PairingInv, SendPart, QuietSending

LEMMA StillHost ==
  ASSUME PairingInv, UNCHANGED host
  PROVE  SameWords(host, host')
BY DEF PairingInv, HostPart, SameWords

LEMMA DropLoopKeeps ==
  ASSUME PairingInv, NEW r \in Run, DropLoop(r)
  PROVE  PairingInv' /\ TokensKept
<1> DEFINE call == LoopCall(r)
<1>1. /\ loop' = [q \in Run |-> loop'[q]]
      /\ \A q \in Run \ {r} : loop'[q] = loop[q]
      /\ loop'[r] = [loop[r] EXCEPT !.answer = Dropped]
      /\ IsLoop(loop[r]) /\ loop[r].at \in {"create", "hostView", "hostNonce"}
  BY DEF DropLoop, LoopCalls, PairingInv, LoopPart, IsLoop
<1>2. IsLoop(loop'[r]) /\ loop'[r].answer = Dropped /\ loop'[r].at = loop[r].at
  BY <1>1 DEF IsLoop
<1>3. /\ Dropped.is = "dropped" /\ Waiting.is = "waiting"
  BY DEF Dropped, Waiting
<1>4. CallOK(call) /\ call.op = loop[r].at /\ call.inv = r
  BY <1>1 DEF CallOK, LoopCall, Call, Ops
<1>5. UNCHANGED <<relay, joiner, host, sending>>
  BY DEF DropLoop
<1>6. adrift' = adrift \/ (adrift' = adrift \cup {call} /\ loop[r].answer = Waiting)
  BY DEF DropLoop, MayComeLate
<1> HIDE DEF call
<1>7. SomeOpened' <=> SomeOpened
  BY <1>5 DEF SomeOpened
<1>8. /\ RelayPart' /\ SendPart' /\ JoinerPart' /\ HostPart'
      /\ \A c : CallOK(c) => CallOK(c)'
  BY <1>5, <1>7, Untouched DEF PairingInv, HostPart
<1>9. LoopPart'
  BY <1>1, <1>2, <1>3, <1>7 DEF PairingInv, LoopPart
<1>10. AdriftPart'
  BY <1>4, <1>6, <1>8 DEF PairingInv, AdriftPart
<1>11. OncePart'
  <2> SUFFICES ASSUME NEW q \in Run
               PROVE  /\ Creating(q)' \/ CreateAdrift(q)' => IsGone(relay', q)
                      /\ ~ (Creating(q)' /\ CreateAdrift(q)')
                      /\ q > host'.runs => IsGone(relay', q) /\ ~ Creating(q)' /\ ~ CreateAdrift(q)'
    BY DEF OncePart
  <2>1. Creating(q)' => Creating(q) /\ q # r
    BY <1>1, <1>2, <1>3 DEF Creating
  <2>2. CreateAdrift(q)' => CreateAdrift(q) \/ (q = r /\ Creating(q))
    BY <1>4, <1>6 DEF CreateAdrift, Creating
  <2> QED BY <1>5, <2>1, <2>2 DEF PairingInv, OncePart
<1> QED BY <1>5, <1>8, <1>9, <1>10, <1>11 DEF PairingInv, TokensKept

LEMMA DropSendKeeps ==
  ASSUME PairingInv, NEW r \in Run, DropSend(r)
  PROVE  PairingInv' /\ TokensKept
<1>1. CallOK(SendCall(r)) /\ SendCall(r).op = "deliver"
  BY DEF DropSend, PairingInv, SendPart, CallOK, SendCall, Call, Ops
<1>2. QuietAdrift
  BY <1>1 DEF DropSend, MayComeLate, QuietAdrift
<1>3. QuietSending
  BY DEF DropSend, PairingInv, SendPart, QuietSending
<1>4. UNCHANGED <<relay, joiner, host, loop>>
  BY DEF DropSend
<1> QED BY <1>2, <1>3, <1>4, HostMoves, StillHost, StillLoop

LEMMA DropJoinerKeeps ==
  ASSUME PairingInv, NEW j \in Joiner, DropJoiner(j) \/ Limit(j)
  PROVE  PairingInv' /\ TokensKept
<1> DEFINE it == joiner[j]
<1>1. PICK answer : /\ joiner' = [joiner EXCEPT ![j].answer = answer] /\ answer.is # "ok"
                    /\ it.at # "pause"
  BY DEF DropJoiner, Limit, Dropped, JoinerCalls
<1> DEFINE to == [it EXCEPT !.answer = answer]
<1>2. JoinerOK(host.confirmed, j, it)
  BY DEF PairingInv, JoinerPart
<1>3. joiner' = [joiner EXCEPT ![j] = to]
  BY <1>1 DEF PairingInv, JoinerPart
<1>4. JoinerOK(host.confirmed, j, to) /\ to.opened = it.opened
  BY <1>1, <1>2 DEF JoinerOK, JoinerFields
<1>5. JoinerCalls(j) => CallOK(JoinerCall(j)) /\ JoinerCall(j).op # "create"
  BY <1>2 DEF JoinerOK, JoinerCalls, JoinerCall, Call, CallOK, Ops, SomeOpened
<1>6. QuietAdrift
  BY <1>5 DEF DropJoiner, Limit, MayComeLate, QuietAdrift
<1>7. UNCHANGED <<relay, host, loop, sending>>
  BY DEF DropJoiner, Limit
<1> HIDE DEF to
<1> QED BY <1>3, <1>4, <1>6, <1>7, JoinerMoves

LEMMA DropAdriftKeeps ==
  ASSUME PairingInv, DropAdrift
  PROVE  PairingInv' /\ TokensKept
<1>1. QuietAdrift /\ UNCHANGED <<relay, joiner, host, loop, sending>>
  BY DEF DropAdrift, QuietAdrift
<1> QED BY <1>1, HostMoves, StillHost, StillLoop, StillSending

LEMMA RelayKeeps ==
  ASSUME PairingInv, (\E r \in Run : Expire(r)) \/ Sweep \/ RelayRestarts
  PROVE  PairingInv' /\ TokensKept
<1>0. RelayInv(relay)
  BY DEF PairingInv, RelayPart
<1>1. CASE \E r \in Run : Expire(r)
  BY <1>0, <1>1, LateKeeps, RelayMoves DEF Expire
<1>2. CASE Sweep
  BY <1>0, <1>2, SweepKeeps, RelayMoves DEF Sweep
<1>3. CASE RelayRestarts
  BY <1>3, NoneKeeps, RelayMoves DEF RelayRestarts
<1> QED BY <1>1, <1>2, <1>3

-----------------------------------------------------------------------------
(* The first device.                                                       *)
LEMMA HostForms ==
  ASSUME NEW h, IsHost(h)
  PROVE  /\ SameWords(h, h)
         /\ SameWords(h, forget(h))
         /\ \A r : SameWords(h, finally(h, r))
         /\ \A phase : phase # "done" => SameWords(h, settleFailure(h, phase))
<1>1. SameWords(h, h)
  BY DEF SameWords
<1>2. SameWords(h, forget(h))
  BY DEF SameWords, IsHost, HostFields, forget
<1>3. ASSUME NEW r PROVE SameWords(h, finally(h, r))
  <2>1. CASE h.run = r
    <3> DEFINE g == [h EXCEPT !.run = None]
    <3>1. SameWords(h, g)
      BY DEF SameWords, IsHost, HostFields
    <3>2. SameWords(g, forget(g))
      BY <3>1 DEF SameWords, IsHost, HostFields, forget
    <3> QED BY <2>1, <3>1, <3>2 DEF SameWords, finally
  <2>2. CASE h.run # r
    BY <1>1, <2>2 DEF finally
  <2> QED BY <2>1, <2>2
<1>4. ASSUME NEW phase, phase # "done" PROVE SameWords(h, settleFailure(h, phase))
  BY <1>4 DEF SameWords, IsHost, HostFields, settleFailure
<1> QED BY <1>1, <1>2, <1>3, <1>4

LEMMA SameTwice ==
  ASSUME NEW h, NEW g, NEW f, SameWords(h, g), SameWords(g, f)
  PROVE  SameWords(h, f)
BY DEF SameWords

LEMMA Failures ==
  ASSUME PairingInv
  PROVE  /\ SameWords(host, abandoned)
         /\ SameWords(host, cancelled)
         /\ \A call \in cancelDeletes : call.op = "hostCancel"
<1>0. IsHost(host)
  BY DEF PairingInv, HostPart
<1>1. SameWords(host, abandoned)
  <2> DEFINE g == settleFailure(host, "failed")
             f == [g EXCEPT !.run = None, !.aborted = @ \cup ({host.run} \ {None})]
  <2>1. SameWords(host, g)
    BY <1>0, HostForms
  <2>2. SameWords(g, f)
    BY <2>1 DEF SameWords, IsHost, HostFields
  <2>3. abandoned = forget(f)
    BY DEF abandoned
  <2> HIDE DEF f, g
  <2>4. SameWords(f, forget(f))
    BY <2>2, HostForms DEF SameWords
  <2> QED BY <2>1, <2>2, <2>3, <2>4, SameTwice
<1>2. SameWords(host, cancelled)
  <2>1. CASE host.run = None
    BY <1>0, <2>1, HostForms DEF cancelled
  <2>2. CASE host.run # None
    <3> DEFINE f == [host EXCEPT !.run = None, !.aborted = @ \cup {host.run},
                                 !.phase = IF settled THEN @ ELSE "cancelled"]
    <3>1. SameWords(host, f)
      BY <1>0 DEF SameWords, IsHost, HostFields
    <3>2. cancelled = forget(f)
      BY <2>2 DEF cancelled
    <3> HIDE DEF f
    <3>3. SameWords(f, forget(f))
      BY <3>1, HostForms DEF SameWords
    <3> QED BY <3>1, <3>2, <3>3, SameTwice
  <2> QED BY <2>1, <2>2
<1>3. \A call \in cancelDeletes : call.op = "hostCancel"
  BY Cancels DEF cancelDeletes
<1> QED BY <1>1, <1>2, <1>3

(* A run pauses, ends or makes another call.                               *)
LEMMA LoopForms ==
  ASSUME PairingInv, NEW r \in Run
  PROVE  /\ Pause(r) => QuietLoop
         /\ Off(r) => QuietLoop
         /\ \A it : loop' = [loop EXCEPT ![r] = it] /\ IsLoop(it) /\ it.at # "create"
                     /\ it.answer = Waiting => QuietLoop
<1>1. Waiting.is # "ok"
  BY DEF Waiting
<1>2. /\ loop = [q \in Run |-> loop[q]] /\ IsLoop(loop[r])
  BY DEF PairingInv, LoopPart
<1>3. ASSUME NEW it, loop' = [loop EXCEPT ![r] = it], IsLoop(it), it.at # "create",
             it.answer = Waiting
      PROVE  QuietLoop
  BY <1>1, <1>2, <1>3 DEF QuietLoop
<1>4. ASSUME NEW at \in {"pause", "off"},
             loop' = [loop EXCEPT ![r].at = at, ![r].answer = Waiting]
      PROVE  QuietLoop
  <2> DEFINE it == [loop[r] EXCEPT !.at = at, !.answer = Waiting]
  <2>1. loop' = [loop EXCEPT ![r] = it]
    BY <1>2, <1>4
  <2>2. IsLoop(it) /\ it.at # "create" /\ it.answer = Waiting
    BY <1>2 DEF IsLoop
  <2> HIDE DEF it
  <2> QED BY <1>3, <2>1, <2>2
<1> QED BY <1>3, <1>4 DEF Pause, Off

LEMMA FailsMoves ==
  ASSUME PairingInv, NEW r \in Run, NEW phase, phase # "done", Fails(r, phase)
  PROVE  SameWords(host, host') /\ QuietAdrift /\ QuietLoop
<1>0. IsHost(host)
  BY DEF PairingInv, HostPart
<1>1. QuietLoop
  BY LoopForms DEF Fails
<1>2. QuietAdrift
  BY DEF Fails, QuietAdrift
<1> DEFINE h == IF r \in host.aborted THEN host ELSE settleFailure(host, phase)
<1>3. SameWords(host, h)
  BY <1>0, HostForms
<1>4. host' = finally(h, r)
  BY DEF Fails
<1> HIDE DEF h
<1>5. SameWords(h, finally(h, r))
  BY <1>3, HostForms DEF SameWords
<1> QED BY <1>1, <1>2, <1>3, <1>4, <1>5, SameTwice

LEMMA PollFailsMoves ==
  ASSUME PairingInv, NEW r \in Run, PollFails(r)
  PROVE  SameWords(host, host') /\ QuietAdrift /\ QuietLoop
<1>1. CASE Fails(r, "cancelled")
  BY <1>1, FailsMoves
<1>2. CASE Fails(r, "expired")
  BY <1>2, FailsMoves
<1>3. CASE Fails(r, "failed")
  BY <1>3, FailsMoves
<1>4. CASE Pause(r) /\ UNCHANGED <<host, adrift>>
  BY <1>4, LoopForms, StillHost DEF QuietAdrift
<1> QED BY <1>1, <1>2, <1>3, <1>4 DEF PollFails

(* step(): what a run makes of the invitation's state.                     *)
LEMMA StepMoves ==
  ASSUME PairingInv, NEW r \in Run, loop[r].at = "hostView", loop[r].answer.is = "ok", step(r)
  PROVE  SameWords(host, host') /\ QuietAdrift /\ QuietLoop
<1> DEFINE view == loop[r].answer
           Still == Pause(r) /\ UNCHANGED <<host, adrift>>
<1>0. IsHost(host)
  BY DEF PairingInv, HostPart
<1>1. CASE Still
  BY <1>1, LoopForms, StillHost DEF QuietAdrift
<1>2. CASE Fails(r, "failed")
  BY <1>2, FailsMoves
<1>3. CASE StepClaimed(r, view) /\ ~ Still
  <2> DEFINE it == [at |-> "hostNonce", nonce |-> loop[r].nonce + 1, answer |-> Waiting]
  <2>1. /\ host' = [host EXCEPT !.joiner = view.joiner]
        /\ loop' = [loop EXCEPT ![r] = it]
        /\ UNCHANGED adrift
    BY <1>3 DEF StepClaimed, PairingInv, LoopPart
  <2>2. IsLoop(it) /\ it.at # "create" /\ it.answer = Waiting
    BY DEF IsLoop
  <2>3. QuietLoop
    <3> HIDE DEF it
    <3> QED BY <2>1, <2>2, LoopForms
  <2>4. SameWords(host, host')
    BY <1>0, <2>1 DEF SameWords, IsHost, HostFields
  <2> QED BY <2>1, <2>3, <2>4 DEF QuietAdrift
<1>4. CASE StepRevealed(r, view) /\ ~ Still /\ ~ Fails(r, "failed")
  <2> DEFINE sas == <<r, host.keys, host.joiner, host.nonce, view.joinerNonce>>
  <2>1. CASE /\ host' = [host EXCEPT !.phase = "compare", !.sas = sas]
             /\ Pause(r) /\ UNCHANGED adrift
    <3>1. SameWords(host, host')
      BY <1>0, <2>1 DEF SameWords, IsHost, HostFields
    <3> QED BY <2>1, <3>1, LoopForms DEF QuietAdrift
  <2>2. CASE host' = abandoned /\ adrift' = adrift \cup Deletes(host.inv) /\ Off(r)
    BY <2>2, Failures, Cancels, LoopForms DEF QuietAdrift
  <2> QED BY <1>4, <2>1, <2>2 DEF StepRevealed
<1>5. CASE StepDone(r) /\ view.state = "completed"
  <2> DEFINE h == [host EXCEPT !.phase = "done"]
  <2>1. SomeOpened
    BY <1>5 DEF PairingInv, LoopPart
  <2>2. SameWords(host, h)
    BY <1>0, <2>1 DEF SameWords, IsHost, HostFields
  <2>3. host' = finally(h, r) /\ Off(r) /\ UNCHANGED adrift
    BY <1>5 DEF StepDone
  <2> HIDE DEF h
  <2>4. SameWords(h, finally(h, r))
    BY <2>2, HostForms DEF SameWords
  <2> QED BY <2>2, <2>3, <2>4, SameTwice, LoopForms DEF QuietAdrift
<1> HIDE DEF Still
<1> QED BY <1>1, <1>2, <1>3, <1>4, <1>5 DEF step, Still

LEMMA HostRunsKeeps ==
  ASSUME PairingInv, NEW r \in Run, HostRuns(r)
  PROVE  PairingInv' /\ TokensKept
<1>0. IsHost(host)
  BY DEF PairingInv, HostPart
<1>1. CASE Created(r)
  <2>1. CASE Off(r) /\ UNCHANGED <<host, adrift>>
    BY <1>1, <2>1, LoopForms, StillHost, StillSending, HostMoves DEF Created, QuietAdrift
  <2>2. CASE /\ host' = [host EXCEPT !.inv = r, !.code = loop[r].answer.code, !.phase = "waiting"]
             /\ Pause(r) /\ UNCHANGED adrift
    <3>1. SameWords(host, host')
      BY <1>0, <2>2 DEF SameWords, IsHost, HostFields
    <3> QED BY <1>1, <2>2, <3>1, LoopForms, StillSending, HostMoves DEF Created, QuietAdrift
  <2>3. CASE Fails(r, "failed")
    BY <1>1, <2>3, FailsMoves, StillSending, HostMoves DEF Created
  <2> QED BY <1>1, <2>1, <2>2, <2>3 DEF Created
<1>2. CASE Poll(r)
  <2>1. CASE Fails(r, "cancelled")
    BY <1>2, <2>1, FailsMoves, StillSending, HostMoves DEF Poll
  <2>2. CASE loop' = [loop EXCEPT ![r].at = "hostView"] /\ UNCHANGED <<host, adrift>>
    <3> DEFINE it == [loop[r] EXCEPT !.at = "hostView"]
    <3>1. loop' = [loop EXCEPT ![r] = it]
      BY <2>2 DEF PairingInv, LoopPart
    <3>2. IsLoop(it) /\ it.at # "create" /\ it.answer = Waiting
      BY <1>2 DEF Poll, PairingInv, LoopPart, IsLoop
    <3> HIDE DEF it
    <3>3. QuietLoop
      BY <3>1, <3>2, LoopForms
    <3> QED BY <1>2, <2>2, <3>3, StillHost, StillSending, HostMoves DEF Poll, QuietAdrift
  <2> QED BY <1>2, <2>1, <2>2 DEF Poll
<1>3. CASE Viewed(r)
  BY <1>3, StepMoves, PollFailsMoves, StillSending, HostMoves DEF Viewed, Answered
<1>4. CASE NonceSent(r)
  <2>1. CASE /\ host' = [host EXCEPT !.nonce = <<r, loop[r].nonce>>, !.phase = "connecting"]
             /\ Pause(r) /\ UNCHANGED adrift
    <3>1. SameWords(host, host')
      BY <1>0, <2>1 DEF SameWords, IsHost, HostFields
    <3> QED BY <1>4, <2>1, <3>1, LoopForms, StillSending, HostMoves DEF NonceSent, QuietAdrift
  <2>2. CASE PollFails(r)
    BY <1>4, <2>2, PollFailsMoves, StillSending, HostMoves DEF NonceSent
  <2> QED BY <1>4, <2>1, <2>2 DEF NonceSent
<1>5. CASE Sent(r)
  <2>1. SameWords(host, host') /\ QuietAdrift
    BY <1>5, StillHost, Failures, Cancels DEF Sent, QuietAdrift
  <2>2. QuietSending
    BY <1>5 DEF Sent, PairingInv, SendPart, QuietSending, NotSent
  <2> QED BY <1>5, <2>1, <2>2, StillLoop, HostMoves DEF Sent
<1> QED BY <1>1, <1>2, <1>3, <1>4, <1>5 DEF HostRuns

(* A new run makes a new invitation.                                       *)
LEMMA BeginKeeps ==
  ASSUME PairingInv, NEW h, SameWords(host, h), Begin(h),
         UNCHANGED <<relay, sending, joiner, adrift>>
  PROVE  PairingInv' /\ TokensKept
<1> DEFINE n == host.runs + 1
<1>1. /\ IsHost(host') /\ host'.runs = n /\ host'.confirmed = host.confirmed
      /\ host'.phase = "creating"
  BY DEF Begin, newRun, SameWords, IsHost, HostFields
<1>2. /\ loop' = [loop EXCEPT ![n] = [Idle EXCEPT !.at = "create"]]
      /\ loop' = [q \in Run |-> loop'[q]]
      /\ \A q \in Run \ {n} : loop'[q] = loop[q]
  BY DEF Begin, SameWords, PairingInv, LoopPart
<1>3. n \in Run => IsLoop(loop'[n]) /\ loop'[n].at = "create"
  BY <1>2 DEF Idle, IsLoop, PairingInv, LoopPart
<1>4. host.runs \in Nat /\ Run \subseteq Nat
  BY FaultAssumption DEF PairingInv, HostPart
<1>5. SomeOpened' <=> SomeOpened
  BY DEF SomeOpened
<1>6. RelayPart' /\ SendPart' /\ JoinerPart' /\ AdriftPart'
  BY <1>1, <1>5, Untouched
<1>7. HostPart'
  BY <1>1, <1>4 DEF HostPart
<1>8. LoopPart'
  <2>1. \A q \in Run : loop'[q] = loop[q] \/ (IsLoop(loop'[q]) /\ loop'[q].at = "create")
    BY <1>2, <1>3
  <2> QED BY <1>2, <1>5, <2>1 DEF PairingInv, LoopPart
<1>9. OncePart'
  <2> SUFFICES ASSUME NEW q \in Run
               PROVE  /\ Creating(q)' \/ CreateAdrift(q)' => IsGone(relay', q)
                      /\ ~ (Creating(q)' /\ CreateAdrift(q)')
                      /\ q > host'.runs => IsGone(relay', q) /\ ~ Creating(q)' /\ ~ CreateAdrift(q)'
    BY DEF OncePart
  <2>1. CreateAdrift(q)' <=> CreateAdrift(q)
    BY DEF CreateAdrift
  <2>2. q # n => (Creating(q)' <=> Creating(q))
    BY <1>2 DEF Creating
  <2>3. q = n => q > host.runs
    BY <1>4
  <2>4. q > host'.runs => q > host.runs /\ q # n
    BY <1>1, <1>4
  <2> QED BY <2>1, <2>2, <2>3, <2>4 DEF PairingInv, OncePart
<1> QED BY <1>6, <1>7, <1>8, <1>9 DEF PairingInv, TokensKept

LEMMA StartKeeps ==
  ASSUME PairingInv, Start \/ StartGoesOn \/ CloseHost
  PROVE  PairingInv' /\ TokensKept
<1>0. IsHost(host)
  BY DEF PairingInv, HostPart
<1>1. CASE Begin(cancelled) /\ UNCHANGED <<relay, sending, joiner, adrift>>
  BY <1>1, BeginKeeps, Failures
<1>2. CASE /\ host' = [cancelled EXCEPT !.pending = @ \cup {host.inv}]
           /\ adrift' = adrift \cup cancelDeletes
           /\ UNCHANGED <<relay, loop, sending, joiner>>
  <2>1. SameWords(cancelled, host')
    BY <1>2, Failures DEF SameWords, IsHost, HostFields
  <2>2. SameWords(host, host')
    BY <2>1, Failures, SameTwice
  <2>3. QuietAdrift
    BY <1>2, Failures, Cancels DEF QuietAdrift
  <2> QED BY <1>2, <2>2, <2>3, StillLoop, StillSending, HostMoves
<1>3. CASE StartGoesOn
  <2>1. PICK id \in host.pending : Begin([host EXCEPT !.pending = @ \ {id}])
    BY <1>3 DEF StartGoesOn
  <2> DEFINE h == [host EXCEPT !.pending = @ \ {id}]
  <2>2. SameWords(host, h)
    BY <1>0 DEF SameWords, IsHost, HostFields
  <2> HIDE DEF h
  <2> QED BY <1>3, <2>1, <2>2, BeginKeeps DEF StartGoesOn, h
<1>4. CASE CloseHost
  <2>1. SameWords(cancelled, host')
    BY <1>4, Failures DEF CloseHost, SameWords, IsHost, HostFields
  <2>2. SameWords(host, host')
    BY <2>1, Failures, SameTwice
  <2>3. QuietAdrift
    BY <1>4, Failures, Cancels DEF CloseHost, QuietAdrift
  <2> QED BY <1>4, <2>2, <2>3, StillLoop, StillSending, HostMoves DEF CloseHost
<1> QED BY <1>1, <1>2, <1>3, <1>4 DEF Start

(* The owner's word is written down before the payload is sealed.          *)
LEMMA ConfirmKeeps ==
  ASSUME PairingInv, Confirm
  PROVE  PairingInv' /\ TokensKept
<1> DEFINE ciphertext == <<host.inv, host.keys, host.joiner>>
<1>1. /\ IsHost(host') /\ host'.runs = host.runs /\ host'.phase = "sending"
      /\ host'.confirmed = host.confirmed \cup {<<host.inv, host.joiner>>}
  BY DEF Confirm, PairingInv, HostPart, IsHost, HostFields
<1>2. Confirmed(host'.confirmed, ciphertext)
  BY <1>1 DEF Confirmed
<1>3. \A c : Confirmed(host.confirmed, c) => Confirmed(host'.confirmed, c)
  BY <1>1 DEF Confirmed
<1>4. /\ sending' = [r \in Run |-> sending'[r]]
      /\ \A r \in Run : sending'[r] = sending[r]
                         \/ sending'[r] = [ciphertext |-> ciphertext, answer |-> Waiting]
  BY DEF Confirm, PairingInv, SendPart
<1>5. UNCHANGED <<relay, loop, joiner, adrift>>
  BY DEF Confirm
<1> HIDE DEF ciphertext
<1>6. SomeOpened' <=> SomeOpened
  BY <1>5 DEF SomeOpened
<1>7. RelayPart' /\ LoopPart' /\ JoinerPart' /\ AdriftPart'
  BY <1>1, <1>5, <1>6, Untouched
<1>8. HostPart'
  BY <1>1 DEF PairingInv, HostPart
<1>9. SendPart'
  <2> SUFFICES ASSUME NEW r \in Run
               PROVE  /\ sending'[r] = [f \in {"ciphertext", "answer"} |-> sending'[r][f]]
                      /\ Sends(r)' => Confirmed(host'.confirmed, sending'[r].ciphertext)
    BY <1>4 DEF SendPart
  <2>1. CASE sending'[r] = sending[r]
    BY <1>3, <2>1 DEF PairingInv, SendPart, Sends
  <2>2. CASE sending'[r] = [ciphertext |-> ciphertext, answer |-> Waiting]
    BY <1>2, <2>2
  <2> QED BY <1>4, <2>1, <2>2
<1>10. OncePart'
  BY <1>1, <1>5 DEF PairingInv, OncePart, Creating, CreateAdrift
<1> QED BY <1>5, <1>7, <1>8, <1>9, <1>10 DEF PairingInv, TokensKept

-----------------------------------------------------------------------------
(* A new device: what its steps may make of it, once it has been told what *)
(* it was told.                                                            *)
Follows(j, to) ==
  /\ JoinerOK(host.confirmed, j, to)
  /\ joiner[j].opened => to.opened

LEMMA JoinerForms ==
  ASSUME NEW j, NEW it, JoinerOK(host.confirmed, j, it), joiner[j].opened => it.opened
  PROVE  /\ Follows(j, JoinerPauses(it))
         /\ Follows(j, JoinerOff(it))
         /\ \A phase : Follows(j, [JoinerOff(it) EXCEPT !.phase = phase])
<1>1. Waiting.is # "ok"
  BY DEF Waiting
<1>2. Follows(j, JoinerPauses(it))
  BY <1>1 DEF JoinerOK, JoinerFields, Follows, JoinerPauses
<1>3. Follows(j, JoinerOff(it))
  BY <1>1 DEF JoinerOK, JoinerFields, Follows, JoinerOff
<1>4. ASSUME NEW phase
      PROVE  Follows(j, [JoinerOff(it) EXCEPT !.phase = phase])
  BY <1>1 DEF JoinerOK, JoinerFields, Follows, JoinerOff
<1> QED
  BY <1>2, <1>3, <1>4

LEMMA BecomesKeeps ==
  ASSUME PairingInv, NEW j \in Joiner, NEW to, Follows(j, to), OnlyJoiner,
         (Becomes(j, to) /\ UNCHANGED adrift) \/ Releases(j, to)
  PROVE  PairingInv' /\ TokensKept
<1>1. UNCHANGED <<relay, host, loop, sending>>
  BY DEF OnlyJoiner
<1>2. CASE Becomes(j, to) /\ UNCHANGED adrift
  BY <1>1, <1>2, JoinerMoves DEF Becomes, Follows, QuietAdrift
<1>3. CASE Releases(j, to)
  <2> DEFINE it == [to EXCEPT !.held = FALSE]
  <2>1. JoinerOK(host.confirmed, j, it) /\ (joiner[j].opened => it.opened)
    BY DEF Follows, JoinerOK, JoinerFields
  <2>2. QuietAdrift
    BY <1>3, Cancels DEF Releases, QuietAdrift
  <2>3. joiner' = [joiner EXCEPT ![j] = it]
    BY <1>3 DEF Releases, Becomes
  <2> HIDE DEF it
  <2> QED BY <1>1, <2>1, <2>2, <2>3, JoinerMoves
<1> QED BY <1>2, <1>3

LEMMA JoinerFailsKeeps ==
  ASSUME PairingInv, NEW j \in Joiner, NEW phase, JoinerFails(j, phase), OnlyJoiner
  PROVE  PairingInv' /\ TokensKept
<1>1. JoinerOK(host.confirmed, j, joiner[j])
  BY DEF PairingInv, JoinerPart
<1>2. /\ Follows(j, JoinerOff(joiner[j]))
      /\ Follows(j, [JoinerOff(joiner[j]) EXCEPT !.phase = phase])
  BY <1>1, JoinerForms
<1> QED BY <1>2, BecomesKeeps DEF JoinerFails

LEMMA JoinerPollFailsKeeps ==
  ASSUME PairingInv, NEW j \in Joiner, JoinerPollFails(j), OnlyJoiner
  PROVE  PairingInv' /\ TokensKept
<1>1. JoinerOK(host.confirmed, j, joiner[j])
  BY DEF PairingInv, JoinerPart
<1>2. Follows(j, JoinerPauses(joiner[j]))
  BY <1>1, JoinerForms
<1>3. CASE \E phase : JoinerFails(j, phase)
  BY <1>3, JoinerFailsKeeps
<1>4. CASE Becomes(j, JoinerPauses(joiner[j])) /\ UNCHANGED adrift
  BY <1>2, <1>4, BecomesKeeps
<1> QED BY <1>3, <1>4 DEF JoinerPollFails

(* The relay's view: a payload is opened after a match, and opens only if  *)
(* it was sealed for this device.                                          *)
LEMMA JoinerStepKeeps ==
  ASSUME PairingInv, NEW j \in Joiner, joiner[j].at = "joinerView", joiner[j].answer.is = "ok",
         JoinerStep(j), OnlyJoiner
  PROVE  PairingInv' /\ TokensKept
<1> DEFINE view == joiner[j].answer
           pin == IF joiner[j].pinned = None THEN view.hostNonce ELSE joiner[j].pinned
           it == [joiner[j] EXCEPT !.pinned = pin]
<1>0. JoinerOK(host.confirmed, j, joiner[j])
  BY DEF PairingInv, JoinerPart
<1>1. /\ JoinerOK(host.confirmed, j, it)
      /\ it.opened = joiner[j].opened /\ it.matched = joiner[j].matched /\ it.id = joiner[j].id
  BY <1>0 DEF JoinerOK, JoinerFields
<1> HIDE DEF it
<1>2. CASE \E phase : JoinerFails(j, phase)
  BY <1>2, JoinerFailsKeeps
<1>3. CASE Becomes(j, Reveals(j, it)) /\ UNCHANGED adrift
  <2>1. Waiting.is # "ok"
    BY DEF Waiting
  <2>2. Follows(j, Reveals(j, it))
    BY <1>1, <2>1 DEF Follows, Reveals, JoinerOK, JoinerFields
  <2> QED BY <1>3, <2>2, BecomesKeeps
<1>4. CASE Becomes(j, JoinerPauses(it)) /\ UNCHANGED adrift
  <2>1. Follows(j, JoinerPauses(it))
    BY <1>1, JoinerForms
  <2> QED BY <1>4, <2>1, BecomesKeeps
<1>5. CASE /\ view.state = "delivered" /\ it.matched /\ opens(j, it, view.ciphertext)
           /\ Becomes(j, [it EXCEPT !.opened = TRUE, !.at = "ack", !.answer = Waiting])
           /\ UNCHANGED adrift
  <2> DEFINE to == [it EXCEPT !.opened = TRUE, !.at = "ack", !.answer = Waiting]
  <2>1. <<it.id, j>> \in host.confirmed
    BY <1>0, <1>5 DEF JoinerOK, Confirmed, opens
  <2>2. Follows(j, to)
    BY <1>1, <1>5, <2>1 DEF Follows, JoinerOK, JoinerFields
  <2> HIDE DEF to
  <2> QED BY <1>5, <2>2, BecomesKeeps DEF to
<1> QED BY <1>2, <1>3, <1>4, <1>5 DEF JoinerStep, it

LEMMA JoinerRunsKeeps ==
  ASSUME PairingInv, NEW j \in Joiner, JoinerRuns(j)
  PROVE  PairingInv' /\ TokensKept
<1> DEFINE it == joiner[j]
<1>0. JoinerOK(host.confirmed, j, it) /\ Waiting.is # "ok"
  BY DEF PairingInv, JoinerPart, Waiting
<1>1. CASE Claimed(j)
  <2>1. CASE JoinerFails(j, "failed")
    BY <1>1, <2>1, JoinerFailsKeeps DEF Claimed
  <2>2. CASE ~ JoinerFails(j, "failed")
    <3> DEFINE to == [JoinerPauses(it) EXCEPT !.phase = "waiting", !.held = TRUE,
                        !.id = it.answer.id, !.hostKey = it.answer.hostKey]
    <3>1. it.at = "claim" /\ ~ it.opened
      BY <1>0, <1>1 DEF Claimed, JoinerAnswered, JoinerOK
    <3>2. Follows(j, to)
      BY <1>0, <3>1 DEF Follows, JoinerOK, JoinerFields, JoinerPauses
    <3>3. Becomes(j, to) /\ UNCHANGED adrift /\ OnlyJoiner
      BY <1>1, <2>2 DEF Claimed
    <3> HIDE DEF to
    <3> QED BY <3>2, <3>3, BecomesKeeps
  <2> QED BY <2>1, <2>2
<1>2. CASE JoinerPoll(j)
  <2>1. CASE JoinerFails(j, "cancelled")
    BY <1>2, <2>1, JoinerFailsKeeps DEF JoinerPoll
  <2>2. CASE ~ JoinerFails(j, "cancelled")
    <3> DEFINE to == [it EXCEPT !.at = "joinerView"]
    <3>1. Follows(j, to)
      BY <1>0, <1>2 DEF JoinerPoll, Follows, JoinerOK, JoinerFields
    <3>2. Becomes(j, to) /\ UNCHANGED adrift /\ OnlyJoiner
      BY <1>2, <2>2 DEF JoinerPoll
    <3> HIDE DEF to
    <3> QED BY <3>1, <3>2, BecomesKeeps
  <2> QED BY <2>1, <2>2
<1>3. CASE JoinerViewed(j)
  BY <1>3, JoinerStepKeeps, JoinerPollFailsKeeps DEF JoinerViewed, JoinerAnswered
<1>4. CASE Revealed(j)
  <2>1. Follows(j, JoinerPauses(it))
    BY <1>0, JoinerForms
  <2> QED BY <1>4, <2>1, BecomesKeeps, JoinerPollFailsKeeps DEF Revealed
<1>5. CASE Acked(j)
  <2>1. Follows(j, [JoinerOff(it) EXCEPT !.phase = "received"])
    BY <1>0, JoinerForms
  <2> QED BY <1>5, <2>1, BecomesKeeps, JoinerPollFailsKeeps DEF Acked
<1> QED BY <1>1, <1>2, <1>3, <1>4, <1>5 DEF JoinerRuns

LEMMA JoinerOwnerKeeps ==
  ASSUME PairingInv, NEW j \in Joiner, JoinerOwner(j)
  PROVE  PairingInv' /\ TokensKept
<1> DEFINE it == joiner[j]
<1>0. JoinerOK(host.confirmed, j, it) /\ Waiting.is # "ok"
  BY DEF PairingInv, JoinerPart, Waiting
<1>1. ASSUME NEW ref, JoinerStart(j, ref) PROVE PairingInv' /\ TokensKept
  <2> DEFINE to == [Fresh EXCEPT !.phase = "claiming", !.at = "claim", !.ref = ref, !.shown = TRUE]
  <2>1. Follows(j, to)
    BY <1>0, <1>1 DEF JoinerStart, Fresh, Follows, JoinerOK, JoinerFields
  <2>2. Becomes(j, to) /\ UNCHANGED adrift /\ OnlyJoiner
    BY <1>1 DEF JoinerStart
  <2> HIDE DEF to
  <2> QED BY <2>1, <2>2, BecomesKeeps
<1>2. CASE JoinerMatch(j)
  <2> DEFINE to == [it EXCEPT !.matched = TRUE]
  <2>1. Follows(j, to)
    BY <1>0 DEF Follows, JoinerOK, JoinerFields
  <2>2. Becomes(j, to) /\ UNCHANGED adrift /\ OnlyJoiner
    BY <1>2 DEF JoinerMatch
  <2> HIDE DEF to
  <2> QED BY <2>1, <2>2, BecomesKeeps
<1>3. CASE JoinerMismatch(j)
  <2> DEFINE to == [it EXCEPT !.phase = "failed", !.aborted = TRUE]
  <2>1. Follows(j, to)
    BY <1>0 DEF Follows, JoinerOK, JoinerFields
  <2>2. Releases(j, to) /\ OnlyJoiner
    BY <1>3 DEF JoinerMismatch
  <2> HIDE DEF to
  <2> QED BY <2>1, <2>2, BecomesKeeps
<1>4. CASE CancelJoin(j)
  <2> DEFINE to == [it EXCEPT !.phase = "cancelled", !.aborted = TRUE, !.shown = FALSE]
  <2>1. Follows(j, to)
    BY <1>0 DEF Follows, JoinerOK, JoinerFields
  <2>2. Releases(j, to) /\ OnlyJoiner
    BY <1>4 DEF CancelJoin
  <2> HIDE DEF to
  <2> QED BY <2>1, <2>2, BecomesKeeps
<1> QED BY <1>1, <1>2, <1>3, <1>4 DEF JoinerOwner

-----------------------------------------------------------------------------
LEMMA PairingStep ==
  ASSUME PairingInv, [Next]_vars
  PROVE  PairingInv' /\ TokensKept
<1>1. CASE Owner
  BY <1>1, StartKeeps, ConfirmKeeps DEF Owner
<1>2. CASE StartGoesOn
  BY <1>2, StartKeeps
<1>3. CASE ServeAdrift \/ DropAdrift
  BY <1>3, ServeAdriftKeeps, DropAdriftKeeps
<1>4. CASE Sweep \/ RelayRestarts \/ (\E r \in Run : Expire(r))
  BY <1>4, RelayKeeps
<1>5. CASE \E r \in Run : HostRuns(r)
  BY <1>5, HostRunsKeeps
<1>6. CASE \E r \in Run : ServeLoop(r) \/ ServeSend(r)
  BY <1>6, ServeLoopKeeps, ServeSendKeeps
<1>7. CASE \E r \in Run : DropLoop(r) \/ DropSend(r)
  BY <1>7, DropLoopKeeps, DropSendKeeps
<1>8. CASE \E j \in Joiner : JoinerRuns(j) \/ JoinerOwner(j)
  BY <1>8, JoinerRunsKeeps, JoinerOwnerKeeps
<1>9. CASE \E j \in Joiner : ServeJoiner(j) \/ DropJoiner(j) \/ Limit(j)
  BY <1>9, ServeJoinerKeeps, DropJoinerKeeps
<1>10. CASE UNCHANGED vars
  <2>1. UNCHANGED <<relay, host, loop, sending, joiner, adrift>>
    BY <1>10 DEF vars
  <2>2. QuietAdrift
    BY <2>1 DEF QuietAdrift
  <2> QED BY <2>1, <2>2, HostMoves, StillHost, StillLoop, StillSending
<1> QED BY <1>1, <1>2, <1>3, <1>4, <1>5, <1>6, <1>7, <1>8, <1>9, <1>10 DEF Next

LEMMA PairingAlways == Spec => []PairingInv
<1>1. PairingInv /\ [Next]_vars => PairingInv'
  BY PairingStep
<1> QED BY PairingInit, <1>1, PTL DEF Spec

(* A code finds the invitation it was given to for as long as that is      *)
(* open, and nothing after, whatever has been lost, late or swept.         *)
THEOREM CodesFindTheirOwn == Spec => []CodesConsistent
<1>1. PairingInv => CodesConsistent
  <2> SUFFICES ASSUME PairingInv, NEW c \in Code, NEW r \in Run
               PROVE  relay.byCode[c] = r <=> r \in Open(relay) /\ relay.invitations[r].code = c
    BY DEF CodesConsistent
  <2>1. RelayInv(relay)
    BY DEF PairingInv, RelayPart
  <2> QED BY <2>1, OpenIs DEF RelayInv, CodesMatch
<1> QED BY <1>1, PairingAlways, PTL

(* An invitation's token is never another device's, not even after a late  *)
(* or a repeated claim, or a late create.                                  *)
THEOREM TokenIsTheFirstClaimants == Spec => OneClaimant
<1>1. PairingInv /\ [Next]_vars
        => [\A r \in Run : LET was == relay.invitations[r].token
                           IN was # None => relay'.invitations[r].token \in {was, None}]_vars
  <2> SUFFICES ASSUME PairingInv, [Next]_vars
               PROVE  \A r \in Run : LET was == relay.invitations[r].token
                                     IN was # None => relay'.invitations[r].token \in {was, None}
    OBVIOUS
  <2> QED BY PairingStep DEF TokensKept
<1> QED BY <1>1, PairingAlways, PTL DEF Spec, OneClaimant

(* No device opens the phrase before the owner has said "match" on both    *)
(* devices about this invitation and this device, however many devices     *)
(* claim, cancel and retry.                                                *)
THEOREM OpenedOnBothWords == Spec => []HandedOnBothWords
<1>1. PairingInv => HandedOnBothWords
  BY DEF PairingInv, JoinerPart, JoinerOK, HandedOnBothWords
<1> QED BY <1>1, PairingAlways, PTL

(* The first device's "done" is a phrase that was opened: an ack comes     *)
(* after opening, and a completed invitation after an ack.                 *)
THEOREM DoneIsOpened == Spec => []DoneMeansOpened
<1>1. PairingInv => DoneMeansOpened
  BY DEF PairingInv, HostPart, SomeOpened, DoneMeansOpened
<1> QED BY <1>1, PairingAlways, PTL
-----------------------------------------------------------------------------
(***************************************************************************)
(* The types, and the digits.  An invitation is made once and moves one    *)
(* way, so that a nonce that was taken for it stays its only one and the   *)
(* device that claimed it its only one, wherever they are read.            *)
(***************************************************************************)
NoncesOf(r) == {r} \X (1 .. MaxFaults + 1)

InvitationTyped(r, it) ==
  /\ it.code \in Code \cup {None}
  /\ it.token \in Joiner \cup {None}
  /\ it.joiner \in {it.token, None} /\ it.joinerNonce \in {it.token, None}
  /\ it.hostNonce \in NoncesOf(r) \cup {None}
  /\ it.state \in OpenStates => it.hostKey = r
  /\ it.state \in {"open", "claimed"} => it.hostNonce = None
  /\ it.state \in {"nonced", "revealed", "delivered"} => it.hostNonce # None

RelayTyped(rel) ==
  /\ \A r \in Run : InvitationTyped(r, rel.invitations[r])
  /\ \A c \in Code : rel.byCode[c] \in Run \cup {None}

(* A nonce on its way is its run's, a claim its device's.                  *)
CallTyped(call) ==
  /\ call.op = "hostNonce" => call.arg \in NoncesOf(call.inv)
  /\ call.op = "claim" => call.arg \in Joiner

(* Run r's invitation was made, and will never again be in these states:   *)
(* no call of the run makes it once more.                                  *)
Past(r, states) ==
  /\ r <= host.runs /\ ~ Creating(r) /\ ~ CreateAdrift(r)
  /\ relay.invitations[r].state \notin states
Spent(r) == Past(r, {"open"})
Taken(r) == Past(r, {"open", "claimed"})

(* Whoever reads the nonce of run r's invitation reads n.                  *)
Reads(it, r, n) ==
  it.id = r => /\ it.pinned \in {n, None}
               /\ it.at = "joinerView" /\ it.answer.is = "ok" => it.answer.hostNonce \in {n, None}
Agreed(r, n) ==
  /\ Taken(r) /\ relay.invitations[r].hostNonce \in {n, None}
  /\ \A j \in Joiner : Reads(joiner[j], r, n)

(* A device that was told it has claimed run r's invitation.               *)
Claims(it, r) == it.id = r \/ (it.at = "claim" /\ it.answer.is = "ok" /\ it.answer.id = r)
Holding(j, r) == Spent(r) /\ relay.invitations[r].token \in {j, None}
OnlyHolder(r, i) == Spent(r) /\ \A j \in Joiner : Claims(joiner[j], r) => j = i

Comparing(h) == h.phase \in {"compare", "sending"}

HostShape(h) ==
  /\ h.phase \in HostPhase /\ h.run \in 1 .. h.runs \cup {None}
  /\ h.nonce \in Nonces \cup {None}
  /\ Comparing(h) =>
       /\ h.sas = <<h.sas[1], h.sas[2], h.sas[3], h.sas[4], h.sas[5]>>
       /\ h.sas[1] \in Run /\ h.sas[3] = h.sas[5] /\ h.sas[4] \in Nonces /\ h.sas[5] \in Joiner

(* The nonce and the joiner the first device works with.                   *)
HostKnows ==
  /\ \A r \in Run : \A n \in NoncesOf(r) :
       host.nonce = n \/ (Comparing(host) /\ host.sas[4] = n) => Agreed(r, n)
  /\ \A r \in Run, i \in Joiner :
       Comparing(host) /\ host.sas[1] = r /\ host.sas[5] = i => OnlyHolder(r, i)

LoopShape(r, it) ==
  /\ it.at = "off" => it.answer = Waiting
  /\ it.nonce \in Nat /\ (it.at = "hostNonce" => it.nonce >= 1)
  /\ it.at = "hostView" /\ it.answer.is = "ok" => it.answer.joinerNonce \in Joiner \cup {None}

(* Every nonce but the last has cost a fault.                              *)
NonceCounted(r) ==
  /\ loop[r].nonce <= faults + 1
  /\ loop[r].at # "off" =>
       \/ loop[r].nonce <= faults
       \/ loop[r].at = "hostNonce" /\ loop[r].answer.is # "dropped"
       \/ /\ Taken(r)
          /\ loop[r].at = "hostView" /\ loop[r].answer.is = "ok" => loop[r].answer.state # "claimed"

LoopMade(r) ==
  /\ loop[r].at # "off" => r <= host.runs
  /\ \/ loop[r].at \in {"pause", "hostView", "hostNonce"}
     \/ loop[r].at = "create" /\ loop[r].answer.is = "ok"
     => ~ CreateAdrift(r)

LoopKnows(r) ==
  /\ \A n \in NoncesOf(r) :
       loop[r].at = "hostNonce" /\ loop[r].answer.is = "ok" /\ n = <<r, loop[r].nonce>>
         => Agreed(r, n)
  /\ \A i \in Joiner :
       loop[r].at = "hostView" /\ loop[r].answer.is = "ok" /\ loop[r].answer.joinerNonce = i
         => OnlyHolder(r, i)

LoopTyped(r) == LoopShape(r, loop[r]) /\ NonceCounted(r) /\ LoopMade(r) /\ LoopKnows(r)

JoinerShape(j, it) ==
  /\ it.phase \in JoinerPhase /\ it.id \in Run \cup {None}
  /\ it.id # None => it.hostKey = it.id
  /\ it.at \in {"pause", "joinerView", "reveal", "ack"} \/ it.opened => it.id # None
  /\ it.pinned # None => it.id # None /\ it.pinned \in NoncesOf(it.id)
  /\ it.sas # None => it.pinned # None /\ it.sas = <<it.id, it.id, j, it.pinned, j>>
  /\ it.at = "claim" => it.id = None /\ it.pinned = None /\ it.sas = None
  /\ it.at = "claim" /\ it.answer.is = "ok"
       => it.answer.id \in Run /\ it.answer.hostKey = it.answer.id
  /\ it.at = "joinerView" /\ it.answer.is = "ok"
       => /\ it.answer.hostNonce \in NoncesOf(it.id) \cup {None}
          /\ it.answer.state = "nonced" => it.answer.hostNonce # None

JoinersTyped ==
  /\ \A j \in Joiner : JoinerShape(j, joiner[j])
  /\ \A j \in Joiner, r \in Run : /\ Claims(joiner[j], r) => Holding(j, r)
                                  /\ ~ Reads(joiner[j], r, None) => Taken(r)

TypedPart ==
  /\ RelayTyped(relay)
  /\ HostShape(host) /\ HostKnows
  /\ \A r \in Run : LoopTyped(r)
  /\ JoinersTyped
  /\ \A call \in adrift : CallTyped(call)
  /\ faults \in 0 .. MaxFaults

TypedInv == PairingInv /\ TypedPart

-----------------------------------------------------------------------------
(* What a handler may make of an invitation: no state and no holder of its *)
(* past comes back.                                                        *)
Ahead(was, it) ==
  /\ was.state # "open" => it.state # "open" /\ it.token \in {was.token, None}
  /\ was.state \notin {"open", "claimed"}
       => it.state \notin {"open", "claimed"} /\ it.hostNonce \in {was.hostNonce, None}

Answers(rel, call, out) ==
  out.answer.is = "ok" =>
    /\ call.op = "hostView" =>
         /\ call.inv \in Run
         /\ out.answer.state = rel.invitations[call.inv].state
         /\ out.answer.joinerNonce = rel.invitations[call.inv].joinerNonce
    /\ call.op = "joinerView" =>
         /\ call.inv \in Run
         /\ out.answer.state = rel.invitations[call.inv].state
         /\ out.answer.hostNonce = rel.invitations[call.inv].hostNonce
    /\ call.op = "hostNonce" =>
         /\ call.inv \in Run
         /\ rel.invitations[call.inv].state = "claimed"
         /\ out.relay.invitations[call.inv].state = "nonced"
         /\ out.relay.invitations[call.inv].hostNonce = call.arg
    /\ call.op = "claim" =>
         /\ out.answer.id \in Run /\ out.answer.hostKey = out.answer.id
         /\ rel.invitations[out.answer.id].state = "open"
         /\ out.relay.invitations[out.answer.id].state = "claimed"
         /\ out.relay.invitations[out.answer.id].token = call.arg

OutTyped(rel, call, out) ==
  /\ RelayTyped(out.relay)
  /\ \A r \in Run : ~ (call.op = "create" /\ call.inv = r)
       => Ahead(rel.invitations[r], out.relay.invitations[r])
  /\ out.answer.is # "dropped"
  /\ Answers(rel, call, out)

LEMMA GoneTyped ==
  /\ \A r : InvitationTyped(r, Gone)
  /\ \A it : Ahead(it, Gone) /\ Ahead(it, it)
<1>1. /\ Gone.state = "gone" /\ Gone.code = None /\ Gone.token = None /\ Gone.joiner = None
      /\ Gone.hostNonce = None /\ Gone.joinerNonce = None
  BY DEF Gone
<1> QED BY <1>1 DEF InvitationTyped, Ahead, OpenStates

LEMMA RemoveTyped ==
  ASSUME NEW rel, RelayInv(rel), RelayTyped(rel), NEW ids \in SUBSET Run
  PROVE  /\ RelayTyped(remove(rel, ids))
         /\ \A r \in Run : Ahead(rel.invitations[r], remove(rel, ids).invitations[r])
<1>1. /\ \A r \in Run : remove(rel, ids).invitations[r] =
                          IF r \in ids THEN Gone ELSE rel.invitations[r]
  BY RemoveKeeps
<1>2. \A c \in Code : remove(rel, ids).byCode[c] \in Run \cup {None}
  BY DEF remove, RelayTyped
<1> QED BY <1>1, <1>2, GoneTyped DEF RelayTyped

LEMMA RefusedTyped ==
  ASSUME NEW rel, RelayInv(rel), RelayTyped(rel), NEW call, NEW ids \in SUBSET Run, NEW error,
         error \notin {"dropped", "ok"}
  PROVE  /\ OutTyped(rel, call, refused(rel, error))
         /\ OutTyped(rel, call, refused(remove(rel, ids), error))
<1>1. \A s : refused(s, error).relay = s /\ refused(s, error).answer.is = error
  BY DEF refused
<1> QED BY <1>1, RemoveTyped, GoneTyped DEF OutTyped, Answers

LEMMA LiveTyped ==
  ASSUME NEW rel, RelayInv(rel), RelayTyped(rel), NEW call, NEW id, NEW result,
         id \in Present(rel) /\ id \notin Late(rel) => OutTyped(rel, call, result)
  PROVE  OutTyped(rel, call, live(rel, id, result))
<1>1. id \in Late(rel) => {id} \in SUBSET Run
  BY DEF Late
<1>2. OutTyped(rel, call, refused(rel, "PairingNotFound"))
  BY RefusedTyped, {} \in SUBSET Run
<1>3. id \in Late(rel) => OutTyped(rel, call, refused(remove(rel, {id}), "PairingNotFound"))
  BY RefusedTyped, <1>1
<1> QED BY <1>2, <1>3 DEF live

LEMMA StateTyped ==
  ASSUME NEW rel, RelayInv(rel), RelayTyped(rel), NEW call, NEW id, NEW state, NEW result,
         rel.invitations[id].state = state => OutTyped(rel, call, result)
  PROVE  OutTyped(rel, call, requireState(rel, id, state, result))
<1>1. OutTyped(rel, call, refused(rel, "PairingState"))
  BY RefusedTyped, {} \in SUBSET Run
<1> QED BY <1>1 DEF requireState

LEMMA JoinedTyped ==
  ASSUME NEW rel, RelayInv(rel), RelayTyped(rel), NEW call, NEW id, NEW token, NEW result,
         id \in Present(rel) /\ rel.invitations[id].token = token => OutTyped(rel, call, result)
  PROVE  OutTyped(rel, call, joined(rel, id, token, result))
<1>1. OutTyped(rel, call, refused(rel, "PairingForbidden"))
  BY RefusedTyped, {} \in SUBSET Run
<1> QED BY <1>1, LiveTyped DEF joined

(* What moves an invitation on.                                            *)
LEMMA MoveTyped ==
  ASSUME NEW rel, RelayInv(rel), RelayTyped(rel), NEW call, NEW id \in Run, id \in Open(rel),
         NEW it, IsInvitation(it), it.state \in OpenStates, it.code = rel.invitations[id].code,
         InvitationTyped(id, it), Ahead(rel.invitations[id], it), NEW view, view.is # "dropped"
  PROVE  LET new == [rel EXCEPT !.invitations[id] = it]
         IN /\ new.invitations[id] = it
            /\ Answers(rel, call, answered(new, view)) => OutTyped(rel, call, answered(new, view))
<1> DEFINE new == [rel EXCEPT !.invitations[id] = it]
<1>1. /\ RelayInv(new) /\ new.invitations[id] = it
      /\ \A r \in Run \ {id} : new.invitations[r] = rel.invitations[r]
  BY MoveKeeps
<1>2. new.byCode = rel.byCode
  BY DEF RelayInv, IsRelay
<1>3. answered(new, view).relay = new /\ answered(new, view).answer = view
  BY DEF answered
<1> HIDE DEF new
<1>4. Answers(rel, call, answered(new, view)) => OutTyped(rel, call, answered(new, view))
  BY <1>1, <1>2, <1>3, GoneTyped DEF OutTyped, RelayTyped
<1> QED BY <1>1, <1>4 DEF new

(* What ends one.                                                          *)
LEMMA EndTyped ==
  ASSUME NEW rel, RelayInv(rel), RelayTyped(rel), NEW call, NEW id \in Run, id \in Present(rel),
         NEW state \in TERMINAL, call.op \notin {"joinerView", "hostView", "hostNonce", "claim"}
  PROVE  OutTyped(rel, call, answered(end(rel, id, state), NoContent))
<1> DEFINE new == end(rel, id, state)
           was == rel.invitations[id]
           it == [Gone EXCEPT !.state = state, !.code = was.code, !.late = was.late,
                              !.token = was.token]
<1>1. \A r \in Run \ {id} : new.invitations[r] = rel.invitations[r]
  BY EndKeeps
<1>2. new.invitations[id] = was \/ new.invitations[id] = it
  BY DEF end, RelayInv, IsRelay
<1>3. /\ it.state = state /\ it.code = was.code /\ it.token = was.token /\ it.joiner = None
      /\ it.hostNonce = None /\ it.joinerNonce = None
  BY DEF Gone
<1>4. InvitationTyped(id, was)
  BY DEF RelayTyped
<1>5. InvitationTyped(id, it) /\ Ahead(was, it)
  BY <1>3, <1>4 DEF InvitationTyped, Ahead, TERMINAL, OpenStates
<1>6. \A c \in Code : new.byCode[c] \in Run \cup {None}
  BY DEF end, RelayTyped, RelayInv, IsRelay
<1>7. /\ answered(new, NoContent).relay = new /\ answered(new, NoContent).answer.is = "ok"
  BY DEF answered, NoContent
<1> HIDE DEF new, it, was
<1>8. \A r \in Run : InvitationTyped(r, new.invitations[r])
                     /\ Ahead(rel.invitations[r], new.invitations[r])
  BY <1>1, <1>2, <1>4, <1>5, GoneTyped DEF RelayTyped, was
<1> QED BY <1>6, <1>7, <1>8 DEF OutTyped, Answers, RelayTyped, new

-----------------------------------------------------------------------------
LEMMA CreateTyped ==
  ASSUME NEW rel, RelayInv(rel), RelayTyped(rel), NEW call, call.op = "create", call.inv \in Run,
         NEW out \in create(rel, call.inv)
  PROVE  OutTyped(rel, call, out)
<1> DEFINE swept == sweep(rel)
           id == call.inv
<1>1. Late(rel) \in SUBSET Run
  BY DEF Late
<1>2. /\ RelayInv(swept) /\ RelayTyped(swept)
      /\ \A r \in Run : Ahead(rel.invitations[r], swept.invitations[r])
  BY <1>1, RemoveKeeps, RemoveTyped DEF sweep
<1>3. CASE out = refused(swept, "PairingLimit")
  BY <1>1, <1>3, RefusedTyped DEF sweep
<1>4. CASE out # refused(swept, "PairingLimit")
  <2>1. PICK code \in Code :
          out = answered([invitations |->
                                [swept.invitations EXCEPT ![id] = Invitation(id, code)],
                             byCode |-> [swept.byCode EXCEPT ![code] = id]],
                            [is |-> "ok", code |-> code])
    BY <1>4 DEF create
  <2> DEFINE it == Invitation(id, code)
             new == [invitations |-> [swept.invitations EXCEPT ![id] = it],
                     byCode |-> [swept.byCode EXCEPT ![code] = id]]
  <2>2. InvitationTyped(id, it)
    BY DEF Invitation, Gone, InvitationTyped, OpenStates
  <2>3. /\ new.invitations[id] = it
        /\ \A r \in Run \ {id} : new.invitations[r] = swept.invitations[r]
        /\ \A c \in Code : new.byCode[c] = IF c = code THEN id ELSE swept.byCode[c]
    BY <1>2 DEF RelayInv, IsRelay
  <2>4. out.relay = new /\ out.answer.is = "ok"
    BY <2>1 DEF answered
  <2> HIDE DEF new, it
  <2>5. RelayTyped(new)
    BY <1>2, <2>2, <2>3 DEF RelayTyped
  <2> QED BY <1>2, <2>3, <2>4, <2>5 DEF OutTyped, Answers
<1> QED BY <1>3, <1>4

LEMMA HostTypedOut ==
  ASSUME NEW rel, RelayInv(rel), RelayTyped(rel), NEW call, CallTyped(call)
  PROVE  /\ call.op = "hostView" => OutTyped(rel, call, hostView(rel, call.inv))
         /\ call.op = "hostNonce" => OutTyped(rel, call, hostNonce(rel, call.inv, call.arg))
         /\ call.op = "deliver" => OutTyped(rel, call, deliver(rel, call.inv, call.arg))
         /\ call.op = "hostCancel" => OutTyped(rel, call, hostCancel(rel, call.inv))
<1> DEFINE id == call.inv
           was == rel.invitations[id]
<1>0. /\ \A i \in Present(rel) : i \in Run
      /\ NoContent.is = "ok"
      /\ \A new, view : answered(new, view).relay = new /\ answered(new, view).answer = view
  BY DEF Present, NoContent, answered
<1>1. ASSUME call.op = "hostView" PROVE OutTyped(rel, call, hostView(rel, id))
  <2> DEFINE view == [is |-> "ok", state |-> was.state, joiner |-> was.joiner,
                      joinerNonce |-> was.joinerNonce]
  <2>1. ASSUME id \in Present(rel) PROVE OutTyped(rel, call, answered(rel, view))
    BY <1>0, <1>1, <2>1, GoneTyped DEF OutTyped, Answers
  <2> QED BY <2>1, LiveTyped DEF hostView
<1>2. ASSUME call.op = "hostNonce" PROVE OutTyped(rel, call, hostNonce(rel, id, call.arg))
  <2> DEFINE it == [was EXCEPT !.hostNonce = call.arg, !.state = "nonced"]
             new == [rel EXCEPT !.invitations[id].hostNonce = call.arg,
                                  !.invitations[id].state = "nonced"]
  <2>1. ASSUME id \in Present(rel), was.state = "claimed"
        PROVE  OutTyped(rel, call, answered(new, NoContent))
    <3>1. id \in Run /\ id \in Open(rel) /\ IsInvitation(was) /\ InvitationTyped(id, was)
      BY <1>0, <2>1 DEF RelayInv, IsRelay, Open, TERMINAL, RelayTyped
    <3>2. new = [rel EXCEPT !.invitations[id] = it]
      BY <3>1 DEF RelayInv, IsRelay
    <3>3. /\ IsInvitation(it) /\ it.state = "nonced" /\ it.code = was.code
          /\ it.token = was.token /\ it.joiner = was.joiner /\ it.joinerNonce = was.joinerNonce
          /\ it.hostNonce = call.arg /\ it.hostKey = was.hostKey
      BY <3>1 DEF IsInvitation, Fields, OpenStates
    <3> HIDE DEF it, new
    <3>4. call.arg \in NoncesOf(id) /\ call.arg # None
      BY <1>2, <3>1, NonceAssumption DEF CallTyped, NoncesOf, Nonces
    <3>5. InvitationTyped(id, it) /\ Ahead(was, it)
      BY <2>1, <3>1, <3>3, <3>4 DEF InvitationTyped, Ahead, OpenStates
    <3>6. new.invitations[id] = it => Answers(rel, call, answered(new, NoContent))
      BY <1>0, <1>2, <2>1, <3>1, <3>3 DEF Answers
    <3>7. it.state \in OpenStates /\ NoContent.is # "dropped"
      BY <1>0, <3>3 DEF OpenStates
    <3> QED BY <3>1, <3>2, <3>3, <3>5, <3>6, <3>7, MoveTyped
  <2> QED BY <2>1, LiveTyped, StateTyped DEF hostNonce
<1>3. ASSUME call.op = "deliver" PROVE OutTyped(rel, call, deliver(rel, id, call.arg))
  <2> DEFINE it == [was EXCEPT !.ciphertext = call.arg, !.state = "delivered"]
             new == [rel EXCEPT !.invitations[id].ciphertext = call.arg,
                                  !.invitations[id].state = "delivered"]
  <2>1. ASSUME id \in Present(rel), was.state = "revealed"
        PROVE  OutTyped(rel, call, answered(new, NoContent))
    <3>1. id \in Run /\ id \in Open(rel) /\ IsInvitation(was) /\ InvitationTyped(id, was)
      BY <1>0, <2>1 DEF RelayInv, IsRelay, Open, TERMINAL, RelayTyped
    <3>2. new = [rel EXCEPT !.invitations[id] = it]
      BY <3>1 DEF RelayInv, IsRelay
    <3>3. /\ IsInvitation(it) /\ it.state = "delivered" /\ it.code = was.code
          /\ it.token = was.token /\ it.joiner = was.joiner /\ it.joinerNonce = was.joinerNonce
          /\ it.hostNonce = was.hostNonce /\ it.hostKey = was.hostKey
      BY <3>1 DEF IsInvitation, Fields, OpenStates
    <3> HIDE DEF it, new
    <3>5. InvitationTyped(id, it) /\ Ahead(was, it)
      BY <2>1, <3>1, <3>3 DEF InvitationTyped, Ahead, OpenStates
    <3>6. new.invitations[id] = it => Answers(rel, call, answered(new, NoContent))
      BY <1>3 DEF Answers
    <3>7. it.state \in OpenStates /\ NoContent.is # "dropped"
      BY <1>0, <3>3 DEF OpenStates
    <3> QED BY <3>1, <3>2, <3>3, <3>5, <3>6, <3>7, MoveTyped
  <2> QED BY <2>1, LiveTyped, StateTyped DEF deliver
<1>4. ASSUME call.op = "hostCancel" PROVE OutTyped(rel, call, hostCancel(rel, id))
  <2>1. ASSUME id \in Present(rel)
        PROVE  OutTyped(rel, call, answered(end(rel, id, "cancelled"), NoContent))
    BY <1>0, <1>4, <2>1, EndTyped DEF TERMINAL
  <2> QED BY <2>1, LiveTyped DEF hostCancel
<1> QED BY <1>1, <1>2, <1>3, <1>4

LEMMA JoinerTypedOut ==
  ASSUME NEW rel, RelayInv(rel), RelayTyped(rel), NEW call
  PROVE  /\ call.op = "joinerView" => OutTyped(rel, call, joinerView(rel, call.inv, call.arg))
         /\ call.op = "reveal" => OutTyped(rel, call, reveal(rel, call.inv, call.arg))
         /\ call.op = "ack" => OutTyped(rel, call, ack(rel, call.inv, call.arg))
         /\ call.op = "joinerCancel" => OutTyped(rel, call, joinerCancel(rel, call.inv, call.arg))
<1> DEFINE id == call.inv
           was == rel.invitations[id]
<1>0. /\ \A i \in Present(rel) : i \in Run
      /\ NoContent.is = "ok"
      /\ \A new, view : answered(new, view).relay = new /\ answered(new, view).answer = view
  BY DEF Present, NoContent, answered
<1>1. ASSUME call.op = "joinerView" PROVE OutTyped(rel, call, joinerView(rel, id, call.arg))
  <2> DEFINE view == [is |-> "ok", state |-> was.state, hostNonce |-> was.hostNonce,
                      ciphertext |-> was.ciphertext]
  <2>1. ASSUME id \in Present(rel) PROVE OutTyped(rel, call, answered(rel, view))
    BY <1>0, <1>1, <2>1, GoneTyped DEF OutTyped, Answers
  <2> QED BY <2>1, JoinedTyped DEF joinerView
<1>2. ASSUME call.op = "reveal" PROVE OutTyped(rel, call, reveal(rel, id, call.arg))
  <2> DEFINE it == [was EXCEPT !.joinerNonce = call.arg, !.state = "revealed"]
             new == [rel EXCEPT !.invitations[id].joinerNonce = call.arg,
                                  !.invitations[id].state = "revealed"]
  <2>1. ASSUME id \in Present(rel), was.token = call.arg, was.state = "nonced"
        PROVE  OutTyped(rel, call, answered(new, NoContent))
    <3>1. id \in Run /\ id \in Open(rel) /\ IsInvitation(was) /\ InvitationTyped(id, was)
      BY <1>0, <2>1 DEF RelayInv, IsRelay, Open, TERMINAL, RelayTyped
    <3>2. new = [rel EXCEPT !.invitations[id] = it]
      BY <3>1 DEF RelayInv, IsRelay
    <3>3. /\ IsInvitation(it) /\ it.state = "revealed" /\ it.code = was.code
          /\ it.token = was.token /\ it.joiner = was.joiner /\ it.joinerNonce = was.token
          /\ it.hostNonce = was.hostNonce /\ it.hostKey = was.hostKey
      BY <2>1, <3>1 DEF IsInvitation, Fields, OpenStates
    <3> HIDE DEF it, new
    <3>5. InvitationTyped(id, it) /\ Ahead(was, it)
      BY <2>1, <3>1, <3>3 DEF InvitationTyped, Ahead, OpenStates
    <3>6. new.invitations[id] = it => Answers(rel, call, answered(new, NoContent))
      BY <1>2 DEF Answers
    <3>7. it.state \in OpenStates /\ NoContent.is # "dropped"
      BY <1>0, <3>3 DEF OpenStates
    <3> QED BY <3>1, <3>2, <3>3, <3>5, <3>6, <3>7, MoveTyped
  <2>2. ASSUME id \in Present(rel), was.token = call.arg
        PROVE  OutTyped(rel, call, requireState(rel, id, "nonced", answered(new, NoContent)))
    BY <2>1, <2>2, StateTyped
  <2> QED BY <2>2, JoinedTyped DEF reveal
<1>3. ASSUME call.op = "ack" PROVE OutTyped(rel, call, ack(rel, id, call.arg))
  <2> DEFINE out == answered(end(rel, id, "completed"), NoContent)
  <2>1. ASSUME id \in Present(rel) PROVE OutTyped(rel, call, out)
    BY <1>0, <1>3, <2>1, EndTyped DEF TERMINAL
  <2>2. ASSUME id \in Present(rel)
        PROVE  OutTyped(rel, call, requireState(rel, id, "delivered", out))
    BY <2>1, <2>2, StateTyped
  <2> QED BY <2>2, JoinedTyped DEF ack
<1>4. ASSUME call.op = "joinerCancel" PROVE OutTyped(rel, call, joinerCancel(rel, id, call.arg))
  <2>1. ASSUME id \in Present(rel)
        PROVE  OutTyped(rel, call, answered(end(rel, id, "cancelled"), NoContent))
    BY <1>0, <1>4, <2>1, EndTyped DEF TERMINAL
  <2> QED BY <2>1, JoinedTyped DEF joinerCancel
<1> QED BY <1>1, <1>2, <1>3, <1>4

LEMMA ClaimTyped ==
  ASSUME NEW rel, RelayInv(rel), RelayTyped(rel), NEW call, call.op = "claim",
         call.arg \in Joiner, NEW ref
  PROVE  OutTyped(rel, call, claim(rel, ref, call.arg))
<1> DEFINE j == call.arg
           id == lookup(rel, ref)
           was == rel.invitations[id]
           it == [was EXCEPT !.token = j, !.joiner = j, !.state = "claimed"]
           new == [rel EXCEPT !.invitations[id].token = j, !.invitations[id].joiner = j,
                                !.invitations[id].state = "claimed"]
           view == [is |-> "ok", id |-> id, hostKey |-> was.hostKey]
           result == CASE id \notin Open(rel) -> refused(rel, "PairingNotFound")
                       [] was.state # "open" -> refused(rel, "PairingClaimed")
                       [] OTHER -> answered(new, view)
<1>1. OutTyped(rel, call, refused(rel, "PairingNotFound"))
      /\ OutTyped(rel, call, refused(rel, "PairingClaimed"))
  BY RefusedTyped, {} \in SUBSET Run
<1>2. ASSUME id \in Open(rel), was.state = "open"
      PROVE  OutTyped(rel, call, answered(new, view))
  <2>1. id \in Run /\ IsInvitation(was) /\ InvitationTyped(id, was) /\ was.token = None
    BY <1>2 DEF RelayInv, IsRelay, IsInvitation, Open, Present, RelayTyped
  <2>2. new = [rel EXCEPT !.invitations[id] = it]
    BY <2>1 DEF RelayInv, IsRelay
  <2>3. /\ IsInvitation(it) /\ it.state = "claimed" /\ it.code = was.code
        /\ it.token = j /\ it.joiner = j /\ it.joinerNonce = was.joinerNonce
        /\ it.hostNonce = was.hostNonce /\ it.hostKey = was.hostKey
    BY <2>1 DEF IsInvitation, Fields, OpenStates
  <2>4. /\ view.is = "ok" /\ view.id = id /\ view.hostKey = was.hostKey
        /\ \A n : answered(n, view).relay = n /\ answered(n, view).answer = view
    BY DEF answered
  <2> HIDE DEF it, new, view
  <2>5. InvitationTyped(id, it) /\ Ahead(was, it)
    BY <1>2, <2>1, <2>3 DEF InvitationTyped, Ahead, OpenStates
  <2>6. was.hostKey = id
    BY <1>2, <2>1 DEF InvitationTyped, OpenStates
  <2>7. new.invitations[id] = it => Answers(rel, call, answered(new, view))
    BY <1>2, <2>1, <2>3, <2>4, <2>6 DEF Answers
  <2>8. it.state \in OpenStates /\ view.is # "dropped"
    BY <2>3, <2>4 DEF OpenStates
  <2> QED BY <1>2, <2>1, <2>2, <2>3, <2>5, <2>7, <2>8, MoveTyped
<1>3. OutTyped(rel, call, result)
  <2>1. CASE id \notin Open(rel)
    BY <1>1, <2>1
  <2>2. CASE id \in Open(rel) /\ was.state # "open"
    BY <1>1, <2>2
  <2>3. CASE id \in Open(rel) /\ was.state = "open"
    BY <1>2, <2>3
  <2> QED BY <2>1, <2>2, <2>3
<1> HIDE DEF result
<1>4. OutTyped(rel, call, live(rel, id, result))
  BY <1>3, LiveTyped
<1>5. claim(rel, ref, j) = IF id = None THEN refused(rel, "PairingNotFound")
                             ELSE live(rel, id, result)
  BY DEF claim, result
<1> QED BY <1>1, <1>4, <1>5

LEMMA OutcomesTyped ==
  ASSUME NEW rel, RelayInv(rel), RelayTyped(rel), NEW call, call.op \in Ops, CallTyped(call),
         call.op = "create" => call.inv \in Run,
         NEW out \in outcomes(rel, call)
  PROVE  OutTyped(rel, call, out)
<1>1. CASE call.op = "create"
  BY <1>1, CreateTyped DEF outcomes
<1>2. CASE call.op \in {"hostView", "hostNonce", "deliver", "hostCancel"}
  BY <1>2, HostTypedOut DEF outcomes
<1>3. CASE call.op = "claim"
  BY <1>3, ClaimTyped DEF outcomes, CallTyped
<1>4. CASE call.op \in {"joinerView", "reveal", "ack", "joinerCancel"}
  BY <1>4, JoinerTypedOut DEF outcomes
<1> QED BY <1>1, <1>2, <1>3, <1>4 DEF Ops

-----------------------------------------------------------------------------
(* What is past stays past, and with it whose the digits and the invitation *)
(* are.                                                                    *)
Onward ==
  \A r \in Run :
    /\ Spent(r) => Spent(r)'
    /\ Taken(r) => Taken(r)'
    /\ \A n : Agreed(r, n) => Agreed(r, n)'
    /\ \A i : OnlyHolder(r, i) => OnlyHolder(r, i)'
    /\ \A i : Holding(i, r) => Holding(i, r)'

Made(r) == r <= host.runs /\ ~ Creating(r) /\ ~ CreateAdrift(r)

RelayAhead == \A r \in Run : Made(r) => Ahead(relay.invitations[r], relay'.invitations[r])
CallsAhead == \A r \in Run : Made(r) => Made(r)'
JoinersAhead ==
  \A j \in Joiner, r \in Run :
    /\ Spent(r) /\ Claims(joiner'[j], r) => Claims(joiner[j], r)
    /\ \A n : /\ Taken(r) /\ relay.invitations[r].hostNonce \in {n, None} /\ Reads(joiner[j], r, n)
              => Reads(joiner'[j], r, n)

LEMMA Onwards ==
  ASSUME RelayAhead, CallsAhead, JoinersAhead
  PROVE  Onward
<1> SUFFICES ASSUME NEW r \in Run
             PROVE  /\ Spent(r) => Spent(r)'
                    /\ Taken(r) => Taken(r)'
                    /\ \A n : Agreed(r, n) => Agreed(r, n)'
                    /\ \A i : OnlyHolder(r, i) => OnlyHolder(r, i)'
                    /\ \A i : Holding(i, r) => Holding(i, r)'
  BY DEF Onward
<1>1. /\ Spent(r) <=> Made(r) /\ relay.invitations[r].state # "open"
      /\ Taken(r) <=> Made(r) /\ relay.invitations[r].state \notin {"open", "claimed"}
      /\ Spent(r)' <=> Made(r)' /\ relay'.invitations[r].state # "open"
      /\ Taken(r)' <=> Made(r)' /\ relay'.invitations[r].state \notin {"open", "claimed"}
  BY DEF Spent, Taken, Past, Made
<1>2. Spent(r) => Spent(r)' /\ relay'.invitations[r].token \in {relay.invitations[r].token, None}
  BY <1>1 DEF RelayAhead, CallsAhead, Ahead
<1>3. Taken(r) => /\ Taken(r)'
                  /\ relay'.invitations[r].hostNonce \in {relay.invitations[r].hostNonce, None}
  BY <1>1 DEF RelayAhead, CallsAhead, Ahead
<1>4. ASSUME NEW n, Agreed(r, n) PROVE Agreed(r, n)'
  BY <1>3, <1>4 DEF Agreed, JoinersAhead
<1>5. ASSUME NEW i, OnlyHolder(r, i) PROVE OnlyHolder(r, i)'
  BY <1>2, <1>5 DEF OnlyHolder, JoinersAhead
<1>6. ASSUME NEW i, Holding(i, r) PROVE Holding(i, r)'
  BY <1>2, <1>6 DEF Holding
<1> QED BY <1>2, <1>3, <1>4, <1>5, <1>6

LEMMA StillJoiners ==
  ASSUME UNCHANGED joiner
  PROVE  JoinersAhead
BY DEF JoinersAhead

LEMMA StillRelay ==
  ASSUME UNCHANGED relay
  PROVE  RelayAhead
BY GoneTyped DEF RelayAhead

LEMMA StillCalls ==
  ASSUME PairingInv, host'.runs = host.runs,
         \A r \in Run : /\ Creating(r)' => Creating(r)
                        /\ CreateAdrift(r)' => CreateAdrift(r) \/ Creating(r)
  PROVE  CallsAhead
BY DEF CallsAhead, Made

(* What nobody touches stays in order.                                     *)
LEMMA PartsKept ==
  ASSUME TypedInv, Onward, CallsAhead, faults' \in Nat, faults <= faults',
         host'.runs \in Nat, host.runs <= host'.runs
  PROVE  /\ UNCHANGED host => HostShape(host') /\ HostKnows'
         /\ \A r \in Run : loop'[r] = loop[r] => LoopTyped(r)'
         /\ UNCHANGED joiner => JoinersTyped'
<1>1. UNCHANGED host => HostShape(host') /\ HostKnows'
  <2> SUFFICES ASSUME UNCHANGED host PROVE HostShape(host') /\ HostKnows'
    OBVIOUS
  <2>1. \A r \in Run : \A n \in NoncesOf(r) :
          host'.nonce = n \/ (Comparing(host') /\ host'.sas[4] = n) => Agreed(r, n)'
    BY DEF TypedInv, TypedPart, HostKnows, Onward
  <2>2. \A r \in Run, i \in Joiner :
          Comparing(host') /\ host'.sas[1] = r /\ host'.sas[5] = i => OnlyHolder(r, i)'
    BY DEF TypedInv, TypedPart, HostKnows, Onward
  <2>3. HostShape(host')
    BY DEF TypedInv, TypedPart
  <2> QED BY <2>1, <2>2, <2>3 DEF HostKnows
<1>2. ASSUME NEW r \in Run, loop'[r] = loop[r] PROVE LoopTyped(r)'
  <2>0. LoopTyped(r) /\ r \in Nat /\ host.runs \in Nat /\ faults \in Nat /\ IsLoop(loop[r])
    BY FaultAssumption DEF TypedInv, TypedPart, PairingInv, HostPart, LoopPart
  <2>1. LoopShape(r, loop'[r])
    BY <1>2, <2>0 DEF LoopTyped
  <2>2. NonceCounted(r)'
    BY <1>2, <2>0 DEF LoopTyped, LoopShape, NonceCounted, Onward
  <2>3. LoopMade(r)'
    <3>1. Waiting.is # "ok"
      BY DEF Waiting
    <3>2. (\/ loop[r].at \in {"pause", "hostView", "hostNonce"}
           \/ loop[r].at = "create" /\ loop[r].answer.is = "ok") => Made(r)
      BY <2>0, <3>1 DEF LoopTyped, LoopMade, Made, Creating
    <3> QED BY <1>2, <2>0, <3>2 DEF CallsAhead, LoopMade, Made, LoopTyped
  <2>4. LoopKnows(r)'
    <3>1. \A n \in NoncesOf(r) :
            loop'[r].at = "hostNonce" /\ loop'[r].answer.is = "ok" /\ n = <<r, loop'[r].nonce>>
              => Agreed(r, n)'
      BY <1>2, <2>0 DEF LoopTyped, LoopKnows, Onward
    <3>2. \A i \in Joiner :
            loop'[r].at = "hostView" /\ loop'[r].answer.is = "ok" /\ loop'[r].answer.joinerNonce = i
              => OnlyHolder(r, i)'
      BY <1>2, <2>0 DEF LoopTyped, LoopKnows, Onward
    <3> QED BY <3>1, <3>2 DEF LoopKnows
  <2> QED BY <2>1, <2>2, <2>3, <2>4 DEF LoopTyped
<1>3. UNCHANGED joiner => JoinersTyped'
  <2> SUFFICES ASSUME UNCHANGED joiner PROVE JoinersTyped'
    OBVIOUS
  <2>1. \A j \in Joiner : JoinerShape(j, joiner'[j])
    BY DEF TypedInv, TypedPart, JoinersTyped
  <2>2. \A j \in Joiner, r \in Run : /\ Claims(joiner'[j], r) => Holding(j, r)'
                                     /\ ~ Reads(joiner'[j], r, None) => Taken(r)'
    BY DEF TypedInv, TypedPart, JoinersTyped, Onward
  <2> QED BY <2>1, <2>2 DEF JoinersTyped
<1> QED BY <1>1, <1>2, <1>3

-----------------------------------------------------------------------------
(* The relay serves a call.                                                *)
LEMMA ServedTyped ==
  ASSUME TypedInv, NEW call, CallOK(call), CallTyped(call),
         call.op = "create" => Creating(call.inv) \/ CreateAdrift(call.inv),
         NEW out \in outcomes(relay, call), relay' = out.relay
  PROVE  /\ RelayTyped(relay') /\ RelayAhead
         /\ out.answer.is # "dropped" /\ Answers(relay, call, out)
<1>1. RelayInv(relay) /\ RelayTyped(relay)
  BY DEF TypedInv, TypedPart, PairingInv, RelayPart
<1>2. OutTyped(relay, call, out)
  BY <1>1, OutcomesTyped DEF CallOK
<1> QED BY <1>2 DEF OutTyped, RelayAhead, Made

LEMMA Basics ==
  ASSUME TypedInv
  PROVE  /\ host.runs \in Nat /\ faults \in Nat /\ faults \in 0 .. MaxFaults /\ MaxFaults \in Nat
         /\ \A r \in Run : r \in Nat /\ IsLoop(loop[r]) /\ LoopTyped(r)
         /\ loop = [r \in Run |-> loop[r]]
         /\ RelayTyped(relay) /\ HostShape(host) /\ HostKnows /\ JoinersTyped
         /\ \A call \in adrift : CallOK(call) /\ CallTyped(call)
         /\ IsHost(host)
BY FaultAssumption DEF TypedInv, TypedPart, PairingInv, HostPart, LoopPart, AdriftPart

LEMMA ServeLoopTyped ==
  ASSUME TypedInv, NEW r \in Run, ServeLoop(r)
  PROVE  TypedPart'
<1> DEFINE call == LoopCall(r)
<1>1. PICK out \in outcomes(relay, call) :
        relay' = out.relay /\ loop' = [loop EXCEPT ![r].answer = out.answer]
  BY DEF ServeLoop
<1>2. /\ call.op = loop[r].at /\ call.inv = r
      /\ loop[r].at \in {"create", "hostView", "hostNonce"} /\ loop[r].answer = Waiting
  BY Basics DEF ServeLoop, LoopCalls, LoopCall, Call, IsLoop
<1>3. CallOK(call)
  BY <1>2 DEF CallOK, Ops, LoopCall, Call
<1>4. call.op = "create" => Creating(r)
  BY <1>2 DEF Creating
<1>5. call.op = "hostNonce" => /\ call.arg = <<r, loop[r].nonce>>
                               /\ call.arg \in NoncesOf(r)
  BY <1>2, Basics DEF LoopCall, Call, LoopTyped, LoopShape, NonceCounted, NoncesOf
<1>6. CallTyped(call)
  BY <1>2, <1>5 DEF CallTyped
<1>7. UNCHANGED <<host, sending, joiner, adrift, faults>>
  BY DEF ServeLoop
<1>8. /\ RelayTyped(relay') /\ RelayAhead
      /\ out.answer.is # "dropped" /\ Answers(relay, call, out)
  BY <1>1, <1>2, <1>3, <1>4, <1>6, ServedTyped
<1> HIDE DEF call
<1>9. /\ \A q \in Run \ {r} : loop'[q] = loop[q]
      /\ loop'[r] = [at |-> loop[r].at, nonce |-> loop[r].nonce, answer |-> out.answer]
  BY <1>1, Basics DEF IsLoop
<1>10. out.answer # Waiting
  <2>1. Traced(relay, call, out)
    BY <1>1, <1>2, <1>3, <1>4, OutcomesTraced
       DEF CallOK, TypedInv, PairingInv, RelayPart, OncePart
  <2> QED BY <2>1 DEF Traced, Waiting
<1>11. \A q \in Run : /\ Creating(q)' => Creating(q)
                      /\ CreateAdrift(q)' <=> CreateAdrift(q)
  BY <1>7, <1>9, <1>10 DEF Creating, CreateAdrift
<1>12. CallsAhead
  BY <1>7, <1>11, StillCalls DEF TypedInv
<1>13. Onward
  BY <1>7, <1>8, <1>12, StillJoiners, Onwards
<1>14. /\ HostShape(host') /\ HostKnows' /\ JoinersTyped'
       /\ \A q \in Run : q # r => LoopTyped(q)'
  BY <1>7, <1>9, <1>12, <1>13, Basics, PartsKept
<1>15. LoopTyped(r)'
  <2>0. LoopTyped(r) /\ host.runs \in Nat /\ faults \in Nat /\ r \in Nat
    BY Basics
  <2>1. LoopShape(r, loop'[r])
    <3>1. loop[r].at = "hostView" /\ out.answer.is = "ok"
            => out.answer.joinerNonce \in Joiner \cup {None}
      BY <1>2, <1>8, Basics DEF Answers, RelayTyped, InvitationTyped
    <3> QED BY <1>2, <1>9, <2>0, <3>1 DEF LoopTyped, LoopShape
  <2>2. NonceCounted(r)'
    <3>1. loop[r].at = "hostView" /\ out.answer.is = "ok" /\ Taken(r)
            => out.answer.state # "claimed"
      BY <1>2, <1>8 DEF Answers, Taken, Past
    <3>2. Taken(r) => Taken(r)'
      BY <1>13 DEF Onward
    <3> QED BY <1>2, <1>7, <1>8, <1>9, <2>0, <3>1, <3>2 DEF LoopTyped, NonceCounted
  <2>3. LoopMade(r)'
    <3>1. loop[r].at = "create" => ~ CreateAdrift(r)
      BY <1>2, <1>4 DEF TypedInv, PairingInv, OncePart
    <3> QED BY <1>2, <1>7, <1>9, <1>11, <2>0, <3>1 DEF LoopTyped, LoopMade
  <2>4. LoopKnows(r)'
    <3>1. ASSUME NEW n, loop[r].at = "hostNonce", out.answer.is = "ok", n = <<r, loop[r].nonce>>
          PROVE  Agreed(r, n)'
      <4>1. /\ relay.invitations[r].state = "claimed"
            /\ relay'.invitations[r].state = "nonced" /\ relay'.invitations[r].hostNonce = n
        BY <1>1, <1>2, <1>5, <1>8, <3>1 DEF Answers
      <4>2. Made(r)
        BY <1>2, <2>0, <3>1 DEF LoopTyped, LoopMade, Made, Creating
      <4>3. Taken(r)'
        BY <1>12, <4>1, <4>2 DEF CallsAhead, Made, Taken, Past
      <4>4. \A j \in Joiner : Reads(joiner'[j], r, n)
        <5>1. ~ Taken(r)
          BY <4>1 DEF Taken, Past
        <5>2. \A j \in Joiner : Reads(joiner[j], r, None)
          BY <5>1, Basics DEF JoinersTyped
        <5> QED BY <1>7, <5>2 DEF Reads
      <4> QED BY <4>1, <4>3, <4>4 DEF Agreed
    <3>2. ASSUME NEW i \in Joiner, loop[r].at = "hostView", out.answer.is = "ok",
                 out.answer.joinerNonce = i
          PROVE  OnlyHolder(r, i)'
      <4>1. relay.invitations[r].joinerNonce = i
        BY <1>2, <1>8, <3>2 DEF Answers
      <4>2. relay.invitations[r].token = i /\ i # None
        BY <4>1, Basics, RelayAssumption DEF RelayTyped, InvitationTyped
      <4>3. Made(r)
        BY <1>2, <2>0, <3>2 DEF LoopTyped, LoopMade, Made, Creating
      <4>4. relay.invitations[r].state # "open"
        BY <4>2 DEF TypedInv, PairingInv, RelayPart, RelayInv, IsRelay, IsInvitation
      <4>5. Spent(r)
        BY <4>3, <4>4 DEF Spent, Past, Made
      <4>6. \A j \in Joiner : Claims(joiner[j], r) => j = i
        BY <4>2, Basics, RelayAssumption DEF JoinersTyped, Holding
      <4> QED BY <1>13, <4>5, <4>6 DEF OnlyHolder, Onward
    <3> QED BY <1>9, <3>1, <3>2 DEF LoopKnows
  <2> QED BY <2>1, <2>2, <2>3, <2>4 DEF LoopTyped
<1>16. \A c \in adrift' : CallTyped(c)
  BY <1>7, Basics
<1> QED BY <1>7, <1>8, <1>14, <1>15, <1>16, Basics DEF TypedPart

(* A call served of which no device awaits the answer in these variables.  *)
LEMMA ServeSendTyped ==
  ASSUME TypedInv, NEW r \in Run, ServeSend(r)
  PROVE  TypedPart'
<1> DEFINE call == SendCall(r)
<1>1. PICK out \in outcomes(relay, call) : relay' = out.relay
  BY DEF ServeSend
<1>2. call.op = "deliver" /\ call.arg = sending[r].ciphertext /\ Sends(r)
  BY DEF ServeSend, SendCall, Call
<1>3. CallOK(call) /\ CallTyped(call)
  BY <1>2 DEF CallOK, CallTyped, Ops, TypedInv, PairingInv, SendPart
<1>4. UNCHANGED <<host, loop, joiner, adrift, faults>>
  BY DEF ServeSend
<1>5. RelayTyped(relay') /\ RelayAhead
  BY <1>1, <1>2, <1>3, ServedTyped
<1>6. CallsAhead
  BY <1>4, StillCalls DEF TypedInv, Creating, CreateAdrift
<1>7. Onward
  BY <1>4, <1>5, <1>6, StillJoiners, Onwards
<1>8. HostShape(host') /\ HostKnows' /\ JoinersTyped' /\ \A q \in Run : LoopTyped(q)'
  BY <1>4, <1>6, <1>7, Basics, PartsKept
<1> QED BY <1>4, <1>5, <1>8, Basics DEF TypedPart

LEMMA ServeAdriftTyped ==
  ASSUME TypedInv, ServeAdrift
  PROVE  TypedPart'
<1>0. PICK call \in adrift :
        /\ \E out \in outcomes(relay, call) : relay' = out.relay
        /\ adrift' = adrift \ {call}
  BY DEF ServeAdrift
<1>1. PICK out \in outcomes(relay, call) : relay' = out.relay
  BY <1>0
<1>2. CallOK(call) /\ CallTyped(call)
  BY Basics
<1>3. call.op = "create" => CreateAdrift(call.inv)
  BY DEF CreateAdrift
<1>4. UNCHANGED <<host, loop, sending, joiner, faults>>
  BY DEF ServeAdrift
<1>5. RelayTyped(relay') /\ RelayAhead
  BY <1>1, <1>2, <1>3, ServedTyped
<1>6. CallsAhead
  BY <1>0, <1>4, StillCalls DEF TypedInv, Creating, CreateAdrift
<1>7. Onward
  BY <1>4, <1>5, <1>6, StillJoiners, Onwards
<1>8. HostShape(host') /\ HostKnows' /\ JoinersTyped' /\ \A q \in Run : LoopTyped(q)'
  BY <1>4, <1>6, <1>7, Basics, PartsKept
<1> QED BY <1>0, <1>4, <1>5, <1>8, Basics DEF TypedPart

LEMMA ServeJoinerTyped ==
  ASSUME TypedInv, NEW j \in Joiner, ServeJoiner(j)
  PROVE  TypedPart'
<1> DEFINE call == JoinerCall(j)
           it == joiner[j]
<1>1. PICK out \in outcomes(relay, call) :
        relay' = out.relay /\ joiner' = [joiner EXCEPT ![j].answer = out.answer]
  BY DEF ServeJoiner
<1>2. /\ JoinerOK(host.confirmed, j, it) /\ joiner = [i \in Joiner |-> joiner[i]]
      /\ JoinerShape(j, it)
  BY Basics DEF TypedInv, PairingInv, JoinerPart, JoinersTyped
<1>3. /\ call.op = it.at /\ it.at \in {"claim", "joinerView", "reveal", "ack"}
      /\ call.arg = j /\ (it.at # "claim" => call.inv = it.id) /\ it.answer = Waiting
  BY <1>2 DEF ServeJoiner, JoinerCalls, JoinerCall, Call, JoinerOK
<1>4. CallOK(call) /\ CallTyped(call) /\ call.op # "create"
  BY <1>2, <1>3 DEF CallOK, CallTyped, Ops, JoinerOK, SomeOpened
<1>5. UNCHANGED <<host, loop, sending, adrift, faults>>
  BY DEF ServeJoiner
<1>6. /\ RelayTyped(relay') /\ RelayAhead
      /\ out.answer.is # "dropped" /\ Answers(relay, call, out)
  BY <1>1, <1>4, ServedTyped
<1> DEFINE to == [it EXCEPT !.answer = out.answer]
<1>7. /\ \A i \in Joiner \ {j} : joiner'[i] = joiner[i]
      /\ joiner'[j] = to
  BY <1>1, <1>2
<1>8. /\ to.at = it.at /\ to.opened = it.opened /\ to.id = it.id /\ to.answer = out.answer
      /\ to.hostKey = it.hostKey /\ to.pinned = it.pinned /\ to.sas = it.sas
      /\ to.phase = it.phase
  BY <1>2 DEF JoinerOK, JoinerFields
<1> HIDE DEF call, to, it
<1>9. CallsAhead
  BY <1>5, StillCalls DEF TypedInv, Creating, CreateAdrift
<1>10. JoinersAhead
  <2>1. ASSUME NEW r \in Run, Spent(r), Claims(to, r) PROVE Claims(it, r)
    <3>1. ~ (it.at = "claim" /\ out.answer.is = "ok" /\ out.answer.id = r)
      BY <1>3, <1>6, <2>1 DEF Answers, Spent, Past
    <3> QED BY <1>8, <2>1, <3>1 DEF Claims
  <2>2. ASSUME NEW r \in Run, NEW n, Reads(it, r, n), relay.invitations[r].hostNonce \in {n, None}
        PROVE  Reads(to, r, n)
    <3>1. it.id = r /\ it.at = "joinerView" /\ out.answer.is = "ok"
            => out.answer.hostNonce \in {n, None}
      BY <1>3, <1>6, <2>2 DEF Answers
    <3> QED BY <1>8, <2>2, <3>1 DEF Reads
  <2> QED BY <1>7, <2>1, <2>2 DEF JoinersAhead, it
<1>11. Onward
  BY <1>6, <1>9, <1>10, Onwards
<1>12. HostShape(host') /\ HostKnows' /\ \A q \in Run : LoopTyped(q)'
  BY <1>5, <1>9, <1>11, Basics, PartsKept
<1>13. JoinerShape(j, to)
  <2>1. it.at = "claim" /\ out.answer.is = "ok"
          => out.answer.id \in Run /\ out.answer.hostKey = out.answer.id
    BY <1>3, <1>6 DEF Answers
  <2>2. it.at = "joinerView" /\ out.answer.is = "ok"
          => /\ out.answer.hostNonce \in NoncesOf(it.id) \cup {None}
             /\ out.answer.state = "nonced" => out.answer.hostNonce # None
    BY <1>3, <1>6, Basics DEF Answers, RelayTyped, InvitationTyped
  <2> QED BY <1>2, <1>8, <2>1, <2>2 DEF JoinerShape
<1>14. ASSUME NEW r \in Run, Claims(to, r) PROVE Holding(j, r)'
  <2>1. CASE Claims(it, r)
    BY <1>11, <2>1, Basics DEF JoinersTyped, Onward, it
  <2>2. CASE ~ Claims(it, r)
    <3>1. it.at = "claim" /\ out.answer.is = "ok" /\ out.answer.id = r
      BY <1>8, <1>14, <2>2 DEF Claims
    <3>2. /\ relay.invitations[r].state = "open"
          /\ relay'.invitations[r].state = "claimed" /\ relay'.invitations[r].token = j
      BY <1>1, <1>3, <1>6, <3>1 DEF Answers
    <3>3. Made(r)
      <4>1. ~ IsGone(relay, r)
        BY <3>2 DEF IsGone
      <4> QED BY <4>1, Basics DEF TypedInv, PairingInv, OncePart, Made
    <3> QED BY <1>9, <3>2, <3>3 DEF CallsAhead, Made, Holding, Spent, Past
  <2> QED BY <2>1, <2>2
<1>15. ASSUME NEW r \in Run, ~ Reads(to, r, None) PROVE Taken(r)'
  <2>1. CASE ~ Reads(it, r, None)
    BY <1>11, <2>1, Basics DEF JoinersTyped, Onward, it
  <2>2. CASE Reads(it, r, None)
    <3>1. it.id = r /\ it.at = "joinerView" /\ out.answer.is = "ok" /\ out.answer.hostNonce # None
      BY <1>8, <1>15, <2>2 DEF Reads
    <3>2. relay.invitations[r].hostNonce # None
      BY <1>3, <1>6, <3>1 DEF Answers
    <3>3. relay.invitations[r].state \notin {"open", "claimed"}
      BY <3>2, Basics DEF RelayTyped, InvitationTyped
    <3>4. Spent(r)
      BY <3>1, Basics DEF JoinersTyped, Claims, Holding, it
    <3>5. Taken(r)
      BY <3>3, <3>4 DEF Spent, Taken, Past
    <3> QED BY <1>11, <3>5 DEF Onward
  <2> QED BY <2>1, <2>2
<1>16. JoinersTyped'
  <2>1. \A i \in Joiner : JoinerShape(i, joiner'[i])
    BY <1>7, <1>13, Basics DEF JoinersTyped
  <2>2. \A i \in Joiner, r \in Run : /\ Claims(joiner'[i], r) => Holding(i, r)'
                                     /\ ~ Reads(joiner'[i], r, None) => Taken(r)'
    BY <1>7, <1>11, <1>14, <1>15, Basics DEF JoinersTyped, Onward
  <2> QED BY <2>1, <2>2 DEF JoinersTyped
<1> QED BY <1>5, <1>6, <1>12, <1>16, Basics DEF TypedPart

-----------------------------------------------------------------------------
(* Calls go wrong, and time passes.                                        *)
LEMMA FaultCounts ==
  ASSUME TypedInv, Fault
  PROVE  faults' = faults + 1 /\ faults' \in 0 .. MaxFaults /\ faults' \in Nat /\ faults <= faults'
BY Basics DEF Fault

LEMMA DropLoopTyped ==
  ASSUME TypedInv, NEW r \in Run, DropLoop(r)
  PROVE  TypedPart'
<1> DEFINE call == LoopCall(r)
<1>1. /\ \A q \in Run \ {r} : loop'[q] = loop[q]
      /\ loop'[r] = [at |-> loop[r].at, nonce |-> loop[r].nonce, answer |-> Dropped]
      /\ loop[r].at \in {"create", "hostView", "hostNonce"}
  BY Basics DEF DropLoop, LoopCalls, IsLoop
<1>2. Dropped # Waiting /\ Dropped.is = "dropped"
  BY DEF Dropped, Waiting
<1>3. /\ call.op = loop[r].at /\ call.inv = r
      /\ call.op = "hostNonce" => call.arg = <<r, loop[r].nonce>> /\ call.arg \in NoncesOf(r)
  BY <1>1, Basics DEF LoopCall, Call, LoopTyped, LoopShape, NonceCounted, NoncesOf
<1>4. CallTyped(call)
  BY <1>1, <1>3 DEF CallTyped
<1>5. UNCHANGED <<relay, host, sending, joiner>> /\ Fault
  BY DEF DropLoop
<1>6. adrift' = adrift \/ (adrift' = adrift \cup {call} /\ loop[r].answer = Waiting)
  BY DEF DropLoop, MayComeLate
<1> HIDE DEF call
<1>7. \A q \in Run : /\ Creating(q)' => Creating(q)
                     /\ CreateAdrift(q)' => CreateAdrift(q) \/ Creating(q)
  BY <1>1, <1>2, <1>3, <1>6 DEF Creating, CreateAdrift
<1>8. CallsAhead
  BY <1>5, <1>7, StillCalls DEF TypedInv
<1>9. Onward
  BY <1>5, <1>8, StillRelay, StillJoiners, Onwards
<1>10. /\ HostShape(host') /\ HostKnows' /\ JoinersTyped'
       /\ \A q \in Run : q # r => LoopTyped(q)'
  BY <1>1, <1>5, <1>8, <1>9, Basics, FaultCounts, PartsKept
<1>11. LoopTyped(r)'
  <2>0. LoopTyped(r) /\ host.runs \in Nat /\ faults \in Nat
    BY Basics
  <2>1. LoopShape(r, loop'[r])
    BY <1>1, <1>2, <2>0 DEF LoopTyped, LoopShape
  <2>2. NonceCounted(r)'
    BY <1>1, <1>5, <2>0, FaultCounts DEF LoopTyped, LoopShape, NonceCounted
  <2>3. LoopMade(r)'
    <3>1. loop[r].at # "create" => ~ CreateAdrift(r)'
      BY <1>1, <1>7, <2>0 DEF LoopTyped, LoopMade, Creating
    <3> QED BY <1>1, <1>2, <1>5, <2>0, <3>1 DEF LoopTyped, LoopMade
  <2>4. LoopKnows(r)'
    BY <1>1, <1>2 DEF LoopKnows
  <2> QED BY <2>1, <2>2, <2>3, <2>4 DEF LoopTyped
<1>12. \A c \in adrift' : CallTyped(c)
  BY <1>4, <1>6, Basics
<1> QED BY <1>5, <1>10, <1>11, <1>12, Basics, FaultCounts DEF TypedPart

LEMMA DropSendTyped ==
  ASSUME TypedInv, DropAdrift \/ \E r \in Run : DropSend(r)
  PROVE  TypedPart'
<1>1. \A r : SendCall(r).op = "deliver"
  BY DEF SendCall, Call
<1>2. \A call \in adrift' : call \in adrift \/ call.op = "deliver"
  BY <1>1 DEF DropSend, DropAdrift, MayComeLate
<1>3. UNCHANGED <<relay, host, loop, joiner>> /\ Fault
  BY DEF DropSend, DropAdrift
<1>4. CallsAhead
  BY <1>2, <1>3, StillCalls DEF TypedInv, Creating, CreateAdrift
<1>5. Onward
  BY <1>3, <1>4, StillRelay, StillJoiners, Onwards
<1>6. HostShape(host') /\ HostKnows' /\ JoinersTyped' /\ \A q \in Run : LoopTyped(q)'
  BY <1>3, <1>4, <1>5, Basics, FaultCounts, PartsKept
<1>7. \A call \in adrift' : CallTyped(call)
  BY <1>2, Basics DEF CallTyped
<1> QED BY <1>3, <1>6, <1>7, Basics, FaultCounts DEF TypedPart

LEMMA RelayTypedKept ==
  ASSUME TypedInv, (\E r \in Run : Expire(r)) \/ Sweep \/ RelayRestarts
  PROVE  TypedPart'
<1>0. RelayInv(relay) /\ RelayTyped(relay)
  BY DEF TypedInv, TypedPart, PairingInv, RelayPart
<1>1. RelayTyped(relay') /\ \A r \in Run : Ahead(relay.invitations[r], relay'.invitations[r])
  <2>1. ASSUME NEW id \in Run, Expire(id)
        PROVE  /\ RelayTyped(relay')
               /\ \A r \in Run : Ahead(relay.invitations[r], relay'.invitations[r])
    <3> DEFINE was == relay.invitations[id]
               it == [was EXCEPT !.late = TRUE]
    <3>1. relay' = [relay EXCEPT !.invitations[id].late = TRUE]
      BY <2>1 DEF Expire
    <3>2. /\ \A r \in Run \ {id} : relay'.invitations[r] = relay.invitations[r]
          /\ relay'.invitations[id] = it /\ relay'.byCode = relay.byCode
      BY <1>0, <3>1 DEF RelayInv, IsRelay
    <3>3. /\ it.state = was.state /\ it.code = was.code /\ it.token = was.token
          /\ it.joiner = was.joiner /\ it.joinerNonce = was.joinerNonce
          /\ it.hostNonce = was.hostNonce /\ it.hostKey = was.hostKey
      BY <1>0 DEF RelayInv, IsRelay, IsInvitation, Fields
    <3> HIDE DEF it
    <3>4. Ahead(was, it) /\ (InvitationTyped(id, was) => InvitationTyped(id, it))
      BY <3>3 DEF Ahead, InvitationTyped
    <3> QED BY <1>0, <3>2, <3>4, GoneTyped DEF RelayTyped
  <2>2. CASE Sweep
    BY <1>0, <2>2, RemoveTyped DEF Sweep, sweep, Late
  <2>3. CASE RelayRestarts
    <3>1. \A c \in Code : NoInvitations.byCode[c] = None
      BY DEF NoInvitations
    <3> QED BY <2>3, <3>1, NoneKeeps, GoneTyped DEF RelayRestarts, RelayTyped
  <2> QED BY <2>1, <2>2, <2>3
<1>2. UNCHANGED <<host, loop, sending, joiner, adrift>>
  BY DEF Expire, Sweep, RelayRestarts
<1>3. faults' \in 0 .. MaxFaults /\ faults' \in Nat /\ faults <= faults'
  BY Basics, FaultCounts DEF Expire, Sweep, RelayRestarts
<1>4. CallsAhead
  BY <1>2, StillCalls DEF TypedInv, Creating, CreateAdrift
<1>5. Onward
  BY <1>1, <1>2, <1>4, StillJoiners, Onwards DEF RelayAhead
<1>6. HostShape(host') /\ HostKnows' /\ JoinersTyped' /\ \A q \in Run : LoopTyped(q)'
  BY <1>2, <1>3, <1>4, <1>5, Basics, PartsKept
<1> QED BY <1>1, <1>2, <1>3, <1>6, Basics DEF TypedPart

-----------------------------------------------------------------------------
(* A new device's own steps, and a call of its that is refused or lost:    *)
(* what it becomes, it has read or been told.                              *)
IsJoinerRecord(it) == it = [f \in JoinerFields |-> it[f]]
JoinerKept(j, to) ==
  /\ JoinerShape(j, to)
  /\ \A r \in Run : Claims(to, r) => Claims(joiner[j], r)
  /\ \A r \in Run : \A n : Reads(joiner[j], r, n) => Reads(to, r, n)

LEMMA JoinerMovesTyped ==
  ASSUME TypedInv, NEW j \in Joiner, NEW to, joiner' = [joiner EXCEPT ![j] = to],
         JoinerKept(j, to), UNCHANGED <<relay, host, loop, sending>>,
         \A call \in adrift' : call \in adrift \/ (call.op # "create" /\ CallTyped(call)),
         faults' \in 0 .. MaxFaults, faults <= faults'
  PROVE  TypedPart'
<1>1. /\ \A i \in Joiner \ {j} : joiner'[i] = joiner[i]
      /\ joiner'[j] = to
  BY DEF TypedInv, PairingInv, JoinerPart
<1>2. CallsAhead
  BY StillCalls DEF TypedInv, Creating, CreateAdrift
<1>3. JoinersAhead
  BY <1>1 DEF JoinersAhead, JoinerKept
<1>4. Onward
  BY <1>2, <1>3, StillRelay, Onwards
<1>5. faults' \in Nat
  OBVIOUS
<1>6. HostShape(host') /\ HostKnows' /\ \A q \in Run : LoopTyped(q)'
  BY <1>2, <1>4, <1>5, Basics, PartsKept
<1>7. JoinersTyped'
  <2>1. \A i \in Joiner : JoinerShape(i, joiner'[i])
    BY <1>1, Basics DEF JoinersTyped, JoinerKept
  <2>2. \A i \in Joiner, r \in Run : /\ Claims(joiner'[i], r) => Holding(i, r)'
                                     /\ ~ Reads(joiner'[i], r, None) => Taken(r)'
    BY <1>1, <1>4, Basics DEF JoinersTyped, JoinerKept, Onward
  <2> QED BY <2>1, <2>2 DEF JoinersTyped
<1>8. \A call \in adrift' : CallTyped(call)
  BY Basics
<1> QED BY <1>6, <1>7, <1>8, Basics DEF TypedPart

LEMMA JoinerBecomesTyped ==
  ASSUME TypedInv, NEW j \in Joiner, NEW to, IsJoinerRecord(to), JoinerKept(j, to), OnlyJoiner,
         (Becomes(j, to) /\ UNCHANGED adrift) \/ Releases(j, to)
  PROVE  TypedPart'
<1>1. UNCHANGED <<relay, host, loop, sending, faults>>
  BY DEF OnlyJoiner
<1>2. faults' \in 0 .. MaxFaults /\ faults <= faults'
  BY <1>1, Basics
<1>3. CASE Becomes(j, to) /\ UNCHANGED adrift
  BY <1>1, <1>2, <1>3, JoinerMovesTyped DEF Becomes
<1>4. CASE Releases(j, to)
  <2> DEFINE it == [to EXCEPT !.held = FALSE]
  <2>1. joiner' = [joiner EXCEPT ![j] = it]
    BY <1>4 DEF Releases, Becomes
  <2>2. /\ it.phase = to.phase /\ it.id = to.id /\ it.hostKey = to.hostKey /\ it.at = to.at
        /\ it.opened = to.opened /\ it.pinned = to.pinned /\ it.sas = to.sas
        /\ it.answer = to.answer
    BY DEF IsJoinerRecord, JoinerFields
  <2> HIDE DEF it
  <2>3. JoinerKept(j, it)
    BY <2>2 DEF JoinerKept, JoinerShape, Claims, Reads
  <2>4. \A call \in adrift' : call \in adrift \/ (call.op # "create" /\ CallTyped(call))
    BY <1>4 DEF Releases, Call, CallTyped
  <2> QED BY <1>1, <1>2, <2>1, <2>3, <2>4, JoinerMovesTyped
<1> QED BY <1>3, <1>4

LEMMA DropJoinerTyped ==
  ASSUME TypedInv, NEW j \in Joiner, DropJoiner(j) \/ Limit(j)
  PROVE  TypedPart'
<1> DEFINE it == joiner[j]
<1>1. PICK answer : /\ joiner' = [joiner EXCEPT ![j].answer = answer] /\ answer.is # "ok"
  BY DEF DropJoiner, Limit, Dropped
<1> DEFINE to == [it EXCEPT !.answer = answer]
<1>2. JoinerOK(host.confirmed, j, it) /\ JoinerShape(j, it)
  BY Basics DEF TypedInv, PairingInv, JoinerPart, JoinersTyped
<1>3. joiner' = [joiner EXCEPT ![j] = to]
  BY <1>1 DEF TypedInv, PairingInv, JoinerPart
<1>4. JoinerKept(j, to)
  BY <1>1, <1>2 DEF JoinerOK, JoinerFields, JoinerShape, JoinerKept, Claims, Reads
<1>5. JoinerCalls(j) => CallTyped(JoinerCall(j)) /\ JoinerCall(j).op # "create"
  BY <1>2 DEF JoinerOK, JoinerCalls, JoinerCall, Call, CallTyped
<1>6. \A call \in adrift' : call \in adrift \/ (call.op # "create" /\ CallTyped(call))
  BY <1>5 DEF DropJoiner, Limit, MayComeLate
<1>7. UNCHANGED <<relay, host, loop, sending>> /\ Fault
  BY DEF DropJoiner, Limit
<1> HIDE DEF to
<1> QED BY <1>3, <1>4, <1>6, <1>7, FaultCounts, JoinerMovesTyped

(* What a joiner may become when it pauses or stops, its pin taken from    *)
(* what it has read.                                                       *)
Pinning(j, it) ==
  \/ it = joiner[j]
  \/ /\ joiner[j].at = "joinerView" /\ joiner[j].answer.is = "ok"
     /\ it = [joiner[j] EXCEPT !.pinned =
                IF joiner[j].pinned = None THEN joiner[j].answer.hostNonce ELSE joiner[j].pinned]

LEMMA PinningKeeps ==
  ASSUME TypedInv, NEW j \in Joiner, NEW it, Pinning(j, it)
  PROVE  IsJoinerRecord(it) /\ JoinerKept(j, it)
<1>1. JoinerOK(host.confirmed, j, joiner[j]) /\ JoinerShape(j, joiner[j])
  BY Basics DEF TypedInv, PairingInv, JoinerPart, JoinersTyped
<1>2. CASE it = joiner[j]
  BY <1>1, <1>2 DEF IsJoinerRecord, JoinerOK, JoinerKept
<1>3. CASE it # joiner[j]
  <2>1. /\ joiner[j].at = "joinerView" /\ joiner[j].answer.is = "ok"
        /\ it = [joiner[j] EXCEPT !.pinned =
                IF joiner[j].pinned = None THEN joiner[j].answer.hostNonce ELSE joiner[j].pinned]
    BY <1>3 DEF Pinning
  <2>2. /\ it.phase = joiner[j].phase /\ it.id = joiner[j].id /\ it.hostKey = joiner[j].hostKey
        /\ it.at = joiner[j].at /\ it.opened = joiner[j].opened /\ it.sas = joiner[j].sas
        /\ it.answer = joiner[j].answer
        /\ it.pinned = IF joiner[j].pinned = None THEN joiner[j].answer.hostNonce
                       ELSE joiner[j].pinned
        /\ IsJoinerRecord(it)
    BY <1>1, <2>1 DEF JoinerOK, JoinerFields, IsJoinerRecord
  <2>3. JoinerShape(j, it)
    BY <1>1, <2>1, <2>2 DEF JoinerShape
  <2>4. \A r \in Run : Claims(it, r) => Claims(joiner[j], r)
    BY <2>2 DEF Claims
  <2>5. \A r \in Run : \A n : Reads(joiner[j], r, n) => Reads(it, r, n)
    BY <2>1, <2>2 DEF Reads
  <2> QED BY <2>2, <2>3, <2>4, <2>5 DEF JoinerKept
<1> QED BY <1>2, <1>3

LEMMA JoinerFormsTyped ==
  ASSUME NEW j, NEW it, IsJoinerRecord(it), JoinerKept(j, it),
         it.at \in {"pause", "claim", "joinerView", "reveal", "ack"}
  PROVE  /\ it.at # "claim" => IsJoinerRecord(JoinerPauses(it)) /\ JoinerKept(j, JoinerPauses(it))
         /\ IsJoinerRecord(JoinerOff(it)) /\ JoinerKept(j, JoinerOff(it))
         /\ \A phase \in JoinerPhase :
              LET to == [JoinerOff(it) EXCEPT !.phase = phase]
              IN IsJoinerRecord(to) /\ JoinerKept(j, to)
<1> DEFINE same(to) ==
      /\ to.id = it.id /\ to.hostKey = it.hostKey /\ to.opened = it.opened
      /\ to.pinned = it.pinned /\ to.sas = it.sas /\ to.answer = Waiting
      /\ to.phase \in JoinerPhase /\ (to.at = "off" \/ (to.at = "pause" /\ it.at # "claim"))
<1>1. ASSUME NEW to, same(to) PROVE JoinerKept(j, to)
  <2>1. JoinerShape(j, to)
    <3>1. Waiting.is # "ok"
      BY DEF Waiting
    <3> QED BY <1>1, <3>1 DEF JoinerKept, JoinerShape
  <2>2. \A r \in Run : Claims(to, r) => Claims(it, r)
    BY <1>1 DEF Claims
  <2>3. \A r \in Run : \A n : Reads(it, r, n) => Reads(to, r, n)
    BY <1>1 DEF Reads
  <2> QED BY <2>1, <2>2, <2>3 DEF JoinerKept
<1>2. it.phase \in JoinerPhase
  BY DEF JoinerKept, JoinerShape
<1>3. it.at # "claim" => IsJoinerRecord(JoinerPauses(it)) /\ same(JoinerPauses(it))
  BY <1>2 DEF IsJoinerRecord, JoinerFields, JoinerPauses
<1>4. IsJoinerRecord(JoinerOff(it)) /\ same(JoinerOff(it))
  BY <1>2 DEF IsJoinerRecord, JoinerFields, JoinerOff
<1>5. ASSUME NEW phase \in JoinerPhase
      PROVE  LET to == [JoinerOff(it) EXCEPT !.phase = phase]
             IN IsJoinerRecord(to) /\ same(to)
  BY DEF IsJoinerRecord, JoinerFields, JoinerOff
<1> HIDE DEF same
<1> QED BY <1>1, <1>3, <1>4, <1>5

-----------------------------------------------------------------------------
(* A new device's steps.                                                   *)
LEMMA JoinerFailsTyped ==
  ASSUME TypedInv, NEW j \in Joiner, NEW phase \in JoinerPhase, JoinerFails(j, phase), OnlyJoiner,
         joiner[j].at # "off"
  PROVE  TypedPart'
<1>1. /\ IsJoinerRecord(joiner[j]) /\ JoinerKept(j, joiner[j])
      /\ joiner[j].at \in {"pause", "claim", "joinerView", "reveal", "ack"}
  BY PinningKeeps DEF Pinning, TypedInv, PairingInv, JoinerPart, JoinerOK
<1> DEFINE to == [JoinerOff(joiner[j]) EXCEPT !.phase = phase]
<1>2. /\ IsJoinerRecord(JoinerOff(joiner[j])) /\ JoinerKept(j, JoinerOff(joiner[j]))
      /\ IsJoinerRecord(to) /\ JoinerKept(j, to)
  BY <1>1, JoinerFormsTyped
<1>3. CASE Becomes(j, JoinerOff(joiner[j])) /\ UNCHANGED adrift
  BY <1>2, <1>3, JoinerBecomesTyped
<1>4. CASE Releases(j, to)
  <2> HIDE DEF to
  <2> QED BY <1>2, <1>4, JoinerBecomesTyped
<1> QED BY <1>3, <1>4 DEF JoinerFails

LEMMA JoinerPollFailsTyped ==
  ASSUME TypedInv, NEW j \in Joiner, JoinerPollFails(j), OnlyJoiner,
         joiner[j].at \in {"joinerView", "reveal", "ack"}
  PROVE  TypedPart'
<1>1. CASE \E phase \in JoinerPhase : JoinerFails(j, phase)
  BY <1>1, JoinerFailsTyped
<1>2. CASE Becomes(j, JoinerPauses(joiner[j])) /\ UNCHANGED adrift
  <2>1. IsJoinerRecord(joiner[j]) /\ JoinerKept(j, joiner[j])
    BY PinningKeeps DEF Pinning
  <2>2. IsJoinerRecord(JoinerPauses(joiner[j])) /\ JoinerKept(j, JoinerPauses(joiner[j]))
    BY <2>1, JoinerFormsTyped
  <2> QED BY <1>2, <2>2, JoinerBecomesTyped
<1>3. {"cancelled", "expired", "failed"} \subseteq JoinerPhase
  BY DEF JoinerPhase
<1> QED BY <1>1, <1>2, <1>3 DEF JoinerPollFails

(* The relay's view: the nonce is pinned, and the digits come of the pin.  *)
LEMMA JoinerStepTyped ==
  ASSUME TypedInv, NEW j \in Joiner, joiner[j].at = "joinerView", joiner[j].answer.is = "ok",
         JoinerStep(j), OnlyJoiner
  PROVE  TypedPart'
<1> DEFINE view == joiner[j].answer
           pin == IF joiner[j].pinned = None THEN view.hostNonce ELSE joiner[j].pinned
           it == [joiner[j] EXCEPT !.pinned = pin]
<1>0. JoinerOK(host.confirmed, j, joiner[j]) /\ JoinerShape(j, joiner[j])
  BY Basics DEF TypedInv, PairingInv, JoinerPart, JoinersTyped
<1>1. /\ IsJoinerRecord(it) /\ JoinerKept(j, it) /\ it.at = "joinerView" /\ it.pinned = pin
      /\ it.id = joiner[j].id
  <2>1. Pinning(j, it)
    BY DEF Pinning
  <2>2. it.at = "joinerView" /\ it.pinned = pin /\ it.id = joiner[j].id
    BY <1>0 DEF JoinerOK, JoinerFields
  <2> QED BY <2>1, <2>2, PinningKeeps
<1>2. view.state = "nonced" /\ view.hostNonce = pin => pin # None
  BY <1>0 DEF JoinerShape
<1> HIDE DEF it
<1>3. CASE \E phase \in JoinerPhase : JoinerFails(j, phase)
  BY <1>3, JoinerFailsTyped
<1>4. CASE /\ view.state = "nonced" /\ view.hostNonce = pin
           /\ Becomes(j, Reveals(j, it)) /\ UNCHANGED adrift
  <2> DEFINE to == Reveals(j, it)
  <2>1. /\ to.id = it.id /\ to.hostKey = it.hostKey /\ to.opened = it.opened
        /\ to.pinned = it.pinned /\ to.answer = Waiting /\ to.at = "reveal"
        /\ to.sas = IF it.sas = None THEN <<it.id, it.hostKey, j, it.pinned, j>> ELSE it.sas
        /\ to.phase \in {"compare", it.phase}
        /\ IsJoinerRecord(to)
    BY <1>1 DEF IsJoinerRecord, JoinerFields, Reveals
  <2> HIDE DEF to
  <2>2. JoinerShape(j, it) /\ it.pinned # None /\ it.id # None
    BY <1>1, <1>2, <1>4 DEF JoinerKept, JoinerShape
  <2>3. JoinerShape(j, to)
    <3>1. to.sas = <<it.id, it.id, j, it.pinned, j>>
      BY <2>1, <2>2 DEF JoinerShape
    <3>2. to.phase \in JoinerPhase
      BY <2>1, <2>2 DEF JoinerShape, JoinerPhase
    <3> QED BY <2>1, <2>2, <3>1, <3>2 DEF JoinerShape
  <2>4. \A r \in Run : Claims(to, r) => Claims(it, r)
    BY <2>1 DEF Claims
  <2>5. \A r \in Run : \A n : Reads(it, r, n) => Reads(to, r, n)
    BY <2>1 DEF Reads
  <2>6. JoinerKept(j, to)
    BY <1>1, <2>3, <2>4, <2>5 DEF JoinerKept
  <2> QED BY <1>4, <2>1, <2>6, JoinerBecomesTyped DEF to
<1>5. CASE Becomes(j, JoinerPauses(it)) /\ UNCHANGED adrift
  <2>1. IsJoinerRecord(JoinerPauses(it)) /\ JoinerKept(j, JoinerPauses(it))
    BY <1>1, JoinerFormsTyped
  <2> QED BY <1>5, <2>1, JoinerBecomesTyped
<1>6. CASE /\ Becomes(j, [it EXCEPT !.opened = TRUE, !.at = "ack", !.answer = Waiting])
           /\ UNCHANGED adrift
  <2> DEFINE to == [it EXCEPT !.opened = TRUE, !.at = "ack", !.answer = Waiting]
  <2>1. /\ to.id = it.id /\ to.hostKey = it.hostKey /\ to.pinned = it.pinned
        /\ to.answer = Waiting /\ to.at = "ack" /\ to.sas = it.sas /\ to.phase = it.phase
        /\ IsJoinerRecord(to)
    BY <1>1 DEF IsJoinerRecord, JoinerFields
  <2> HIDE DEF to
  <2>2. JoinerShape(j, to)
    BY <1>1, <2>1 DEF JoinerKept, JoinerShape
  <2>3. \A r \in Run : Claims(to, r) => Claims(it, r)
    BY <2>1 DEF Claims
  <2>4. \A r \in Run : \A n : Reads(it, r, n) => Reads(to, r, n)
    BY <2>1 DEF Reads
  <2>5. JoinerKept(j, to)
    BY <1>1, <2>2, <2>3, <2>4 DEF JoinerKept
  <2> QED BY <1>6, <2>1, <2>5, JoinerBecomesTyped DEF to
<1>7. {"cancelled", "failed"} \subseteq JoinerPhase
  BY DEF JoinerPhase
<1> QED BY <1>3, <1>4, <1>5, <1>6, <1>7 DEF JoinerStep, it

LEMMA JoinerRunsTyped ==
  ASSUME TypedInv, NEW j \in Joiner, JoinerRuns(j)
  PROVE  TypedPart'
<1> DEFINE it == joiner[j]
<1>0. /\ IsJoinerRecord(it) /\ JoinerKept(j, it) /\ JoinerShape(j, it)
      /\ it.at = "pause" => it.answer = Waiting
  BY PinningKeeps DEF Pinning, JoinerKept, TypedInv, PairingInv, JoinerPart, JoinerOK
<1>1. {"cancelled", "failed", "received", "waiting"} \subseteq JoinerPhase /\ Waiting.is # "ok"
  BY DEF JoinerPhase, Waiting
<1>2. CASE Claimed(j)
  <2>1. CASE JoinerFails(j, "failed")
    BY <1>1, <1>2, <2>1, JoinerFailsTyped DEF Claimed, JoinerAnswered
  <2>2. CASE ~ JoinerFails(j, "failed")
    <3> DEFINE to == [JoinerPauses(it) EXCEPT !.phase = "waiting", !.held = TRUE,
                        !.id = it.answer.id, !.hostKey = it.answer.hostKey]
    <3>1. /\ it.at = "claim" /\ it.answer.is = "ok"
          /\ Becomes(j, to) /\ UNCHANGED adrift /\ OnlyJoiner
      BY <1>2, <2>2 DEF Claimed, JoinerAnswered
    <3>2. /\ to.id = it.answer.id /\ to.hostKey = it.answer.hostKey /\ to.opened = it.opened
          /\ to.pinned = it.pinned /\ to.sas = it.sas /\ to.phase = "waiting"
          /\ to.at = "pause" /\ to.answer = Waiting
          /\ IsJoinerRecord(to)
      BY <1>0 DEF IsJoinerRecord, JoinerFields, JoinerPauses
    <3> HIDE DEF to
    <3>3. JoinerShape(j, to)
      BY <1>0, <1>1, <3>1, <3>2, RelayAssumption DEF JoinerShape
    <3>4. \A r \in Run : Claims(to, r) => Claims(it, r)
      BY <1>1, <3>1, <3>2 DEF Claims
    <3>5. \A r \in Run : \A n : Reads(it, r, n) => Reads(to, r, n)
      BY <1>0, <3>1, <3>2 DEF Reads, JoinerShape
    <3>6. JoinerKept(j, to)
      BY <3>3, <3>4, <3>5 DEF JoinerKept
    <3> QED BY <3>1, <3>2, <3>6, JoinerBecomesTyped
  <2> QED BY <2>1, <2>2
<1>3. CASE JoinerPoll(j)
  <2>1. CASE JoinerFails(j, "cancelled")
    BY <1>1, <1>3, <2>1, JoinerFailsTyped DEF JoinerPoll
  <2>2. CASE ~ JoinerFails(j, "cancelled")
    <3> DEFINE to == [it EXCEPT !.at = "joinerView"]
    <3>1. it.at = "pause" /\ Becomes(j, to) /\ UNCHANGED adrift /\ OnlyJoiner
      BY <1>3, <2>2 DEF JoinerPoll
    <3>2. /\ to.id = it.id /\ to.hostKey = it.hostKey /\ to.opened = it.opened
          /\ to.pinned = it.pinned /\ to.sas = it.sas /\ to.phase = it.phase
          /\ to.at = "joinerView" /\ to.answer = Waiting
          /\ IsJoinerRecord(to)
      BY <1>0, <3>1 DEF IsJoinerRecord, JoinerFields
    <3> HIDE DEF to
    <3>3. JoinerShape(j, to)
      BY <1>0, <1>1, <3>1, <3>2 DEF JoinerShape
    <3>4. \A r \in Run : Claims(to, r) => Claims(it, r)
      BY <3>2 DEF Claims
    <3>5. \A r \in Run : \A n : Reads(it, r, n) => Reads(to, r, n)
      BY <1>1, <3>2 DEF Reads
    <3>6. JoinerKept(j, to)
      BY <3>3, <3>4, <3>5 DEF JoinerKept
    <3> QED BY <3>1, <3>2, <3>6, JoinerBecomesTyped
  <2> QED BY <2>1, <2>2
<1>4. CASE JoinerViewed(j)
  BY <1>4, JoinerStepTyped, JoinerPollFailsTyped DEF JoinerViewed, JoinerAnswered
<1>5. CASE Revealed(j)
  <2>1. it.at = "reveal" /\ OnlyJoiner
    BY <1>5 DEF Revealed, JoinerAnswered
  <2>2. IsJoinerRecord(JoinerPauses(it)) /\ JoinerKept(j, JoinerPauses(it))
    BY <1>0, <2>1, JoinerFormsTyped
  <2> QED BY <1>5, <2>1, <2>2, JoinerBecomesTyped, JoinerPollFailsTyped DEF Revealed
<1>6. CASE Acked(j)
  <2> DEFINE to == [JoinerOff(it) EXCEPT !.phase = "received"]
  <2>1. it.at = "ack" /\ OnlyJoiner
    BY <1>6 DEF Acked, JoinerAnswered
  <2>2. IsJoinerRecord(to) /\ JoinerKept(j, to)
    BY <1>0, <1>1, <2>1, JoinerFormsTyped
  <2>3. (Becomes(j, to) /\ UNCHANGED adrift) \/ JoinerPollFails(j)
    BY <1>6 DEF Acked
  <2> HIDE DEF to
  <2> QED BY <2>1, <2>2, <2>3, JoinerBecomesTyped, JoinerPollFailsTyped
<1> QED BY <1>2, <1>3, <1>4, <1>5, <1>6 DEF JoinerRuns

LEMMA JoinerOwnerTyped ==
  ASSUME TypedInv, NEW j \in Joiner, JoinerOwner(j)
  PROVE  TypedPart'
<1> DEFINE it == joiner[j]
           same(to) == /\ to.id = it.id /\ to.hostKey = it.hostKey /\ to.opened = it.opened
                       /\ to.pinned = it.pinned /\ to.sas = it.sas /\ to.answer = it.answer
                       /\ to.at = it.at /\ to.phase \in JoinerPhase
<1>0. /\ IsJoinerRecord(it) /\ JoinerKept(j, it) /\ JoinerShape(j, it)
  BY PinningKeeps DEF Pinning, JoinerKept
<1>1. {"claiming", "cancelled", "failed", it.phase} \subseteq JoinerPhase /\ Waiting.is # "ok"
  BY <1>0 DEF JoinerPhase, Waiting, JoinerShape
<1>2. ASSUME NEW to, same(to) PROVE JoinerKept(j, to)
  <2>1. JoinerShape(j, to)
    BY <1>0, <1>2 DEF JoinerShape
  <2> QED BY <1>0, <1>2, <2>1 DEF JoinerKept, Claims, Reads
<1>3. ASSUME NEW ref, JoinerStart(j, ref) PROVE TypedPart'
  <2> DEFINE to == [Fresh EXCEPT !.phase = "claiming", !.at = "claim", !.ref = ref, !.shown = TRUE]
  <2>1. /\ to.id = None /\ to.opened = FALSE /\ to.pinned = None /\ to.sas = None
        /\ to.answer = Waiting /\ to.at = "claim" /\ to.phase = "claiming"
        /\ IsJoinerRecord(to)
    BY DEF Fresh, IsJoinerRecord, JoinerFields
  <2>2. Becomes(j, to) /\ UNCHANGED adrift /\ OnlyJoiner
    BY <1>3 DEF JoinerStart
  <2> HIDE DEF to
  <2>3. JoinerKept(j, to)
    BY <1>1, <2>1, RelayAssumption DEF JoinerKept, JoinerShape, Claims, Reads
  <2> QED BY <2>1, <2>2, <2>3, JoinerBecomesTyped
<1>4. CASE JoinerMatch(j)
  <2> DEFINE to == [it EXCEPT !.matched = TRUE]
  <2>1. IsJoinerRecord(to) /\ same(to)
    BY <1>0, <1>1 DEF IsJoinerRecord, JoinerFields
  <2>2. Becomes(j, to) /\ UNCHANGED adrift /\ OnlyJoiner
    BY <1>4 DEF JoinerMatch
  <2> HIDE DEF to, same
  <2> QED BY <1>2, <2>1, <2>2, JoinerBecomesTyped
<1>5. CASE JoinerMismatch(j)
  <2> DEFINE to == [it EXCEPT !.phase = "failed", !.aborted = TRUE]
  <2>1. IsJoinerRecord(to) /\ same(to)
    BY <1>0, <1>1 DEF IsJoinerRecord, JoinerFields
  <2>2. Releases(j, to) /\ OnlyJoiner
    BY <1>5 DEF JoinerMismatch
  <2> HIDE DEF to, same
  <2> QED BY <1>2, <2>1, <2>2, JoinerBecomesTyped
<1>6. CASE CancelJoin(j)
  <2> DEFINE to == [it EXCEPT !.phase = "cancelled", !.aborted = TRUE, !.shown = FALSE]
  <2>1. IsJoinerRecord(to) /\ same(to)
    BY <1>0, <1>1 DEF IsJoinerRecord, JoinerFields
  <2>2. Releases(j, to) /\ OnlyJoiner
    BY <1>6 DEF CancelJoin
  <2> HIDE DEF to, same
  <2> QED BY <1>2, <2>1, <2>2, JoinerBecomesTyped
<1> QED BY <1>3, <1>4, <1>5, <1>6 DEF JoinerOwner

-----------------------------------------------------------------------------
(* The first device's steps.  Most of them only forget.                    *)
HostLess(h, g) ==
  /\ IsHost(g) /\ g.runs = h.runs /\ g.run \in {h.run, None} /\ g.phase \in HostPhase
  /\ g.nonce \in {h.nonce, None}
  /\ Comparing(g) => Comparing(h) /\ g.sas = h.sas

LEMMA HostLessKeeps ==
  ASSUME TypedInv, HostLess(host, host')
  PROVE  HostShape(host') /\ (Onward => HostKnows')
<1>1. HostShape(host) /\ HostKnows
  BY Basics
<1>2. HostShape(host')
  BY <1>1 DEF HostLess, HostShape
<1>3. ASSUME Onward PROVE HostKnows'
  <2>1. ASSUME NEW r \in Run, NEW n \in NoncesOf(r),
               host'.nonce = n \/ (Comparing(host') /\ host'.sas[4] = n)
        PROVE  Agreed(r, n)'
    <3>1. n # None
      BY NonceAssumption DEF NoncesOf, Nonces
    <3>2. host.nonce = n \/ (Comparing(host) /\ host.sas[4] = n)
      BY <2>1, <3>1 DEF HostLess
    <3> QED BY <1>1, <1>3, <3>2 DEF HostKnows, Onward
  <2>2. ASSUME NEW r \in Run, NEW i \in Joiner,
               Comparing(host') /\ host'.sas[1] = r /\ host'.sas[5] = i
        PROVE  OnlyHolder(r, i)'
    BY <1>1, <1>3, <2>2 DEF HostLess, HostKnows, Onward
  <2> QED BY <2>1, <2>2 DEF HostKnows
<1> QED BY <1>2, <1>3

LEMMA HostLessTwice ==
  ASSUME NEW h, NEW g, NEW f, HostLess(h, g), HostLess(g, f)
  PROVE  HostLess(h, f)
BY DEF HostLess

LEMMA HostLessForms ==
  ASSUME NEW h, IsHost(h), h.phase \in HostPhase
  PROVE  /\ HostLess(h, h)
         /\ HostLess(h, forget(h))
         /\ \A r : HostLess(h, finally(h, r))
         /\ \A phase \in HostPhase :
              ~ Comparing([phase |-> phase]) => HostLess(h, settleFailure(h, phase))
<1>1. HostLess(h, h)
  BY DEF HostLess
<1>2. HostLess(h, forget(h))
  BY DEF HostLess, IsHost, HostFields, forget, Comparing
<1>3. ASSUME NEW r PROVE HostLess(h, finally(h, r))
  <2>1. CASE h.run = r
    <3> DEFINE g == [h EXCEPT !.run = None]
    <3>1. HostLess(h, g)
      BY DEF HostLess, IsHost, HostFields, Comparing
    <3>2. HostLess(g, forget(g))
      BY <3>1 DEF HostLess, IsHost, HostFields, forget, Comparing
    <3>3. finally(h, r) = forget(g)
      BY <2>1 DEF finally
    <3> HIDE DEF g
    <3> QED BY <3>1, <3>2, <3>3, HostLessTwice
  <2>2. CASE h.run # r
    BY <1>1, <2>2 DEF finally
  <2> QED BY <2>1, <2>2
<1>4. ASSUME NEW phase \in HostPhase, ~ Comparing([phase |-> phase])
      PROVE  HostLess(h, settleFailure(h, phase))
  BY <1>4 DEF HostLess, IsHost, HostFields, settleFailure, Comparing
<1> QED BY <1>1, <1>2, <1>3, <1>4

LEMMA HostFailures ==
  ASSUME TypedInv
  PROVE  HostLess(host, abandoned) /\ HostLess(host, cancelled)
<1>0. IsHost(host) /\ host.phase \in HostPhase
  BY Basics DEF HostShape
<1>1. HostLess(host, abandoned)
  <2> DEFINE g == settleFailure(host, "failed")
             f == [g EXCEPT !.run = None, !.aborted = @ \cup ({host.run} \ {None})]
  <2>1. HostLess(host, g)
    BY <1>0, HostLessForms DEF HostPhase, Comparing
  <2>2. HostLess(g, f)
    BY <2>1 DEF HostLess, IsHost, HostFields, Comparing
  <2>3. abandoned = forget(f)
    BY DEF abandoned
  <2> HIDE DEF f, g
  <2>4. HostLess(f, forget(f))
    BY <2>2, HostLessForms DEF HostLess
  <2> QED BY <2>1, <2>2, <2>3, <2>4, HostLessTwice
<1>2. HostLess(host, cancelled)
  <2>1. CASE host.run = None
    BY <1>0, <2>1, HostLessForms DEF cancelled
  <2>2. CASE host.run # None
    <3> DEFINE f == [host EXCEPT !.run = None, !.aborted = @ \cup {host.run},
                                 !.phase = IF settled THEN @ ELSE "cancelled"]
    <3>1. HostLess(host, f)
      BY <1>0 DEF HostLess, IsHost, HostFields, Comparing, settled, HostPhase
    <3>2. cancelled = forget(f)
      BY <2>2 DEF cancelled
    <3> HIDE DEF f
    <3>3. HostLess(f, forget(f))
      BY <3>1, HostLessForms DEF HostLess
    <3> QED BY <3>1, <3>2, <3>3, HostLessTwice
  <2> QED BY <2>1, <2>2
<1> QED BY <1>1, <1>2

(* Deletes may be added to the calls on their way.                         *)
Deleting == \A call \in adrift' : call \in adrift \/ call.op = "hostCancel"

LEMMA HostOnward ==
  ASSUME TypedInv, UNCHANGED <<relay, joiner>>, host'.runs = host.runs, QuietLoop, Deleting
  PROVE  /\ CallsAhead /\ Onward
         /\ \A r : CreateAdrift(r)' => CreateAdrift(r)
<1>1. /\ \A r \in Run : Creating(r)' => Creating(r)
      /\ \A r : CreateAdrift(r)' => CreateAdrift(r)
  BY DEF QuietLoop, Deleting, Creating, CreateAdrift
<1>2. CallsAhead
  BY <1>1, StillCalls DEF TypedInv
<1> QED BY <1>1, <1>2, StillRelay, StillJoiners, Onwards

LEMMA HostMovesTyped ==
  ASSUME TypedInv, UNCHANGED <<relay, joiner, faults>>, host'.runs = host.runs, QuietLoop, Deleting,
         HostShape(host'), Onward => HostKnows',
         \A r \in Run : loop'[r] = loop[r] \/ LoopTyped(r)'
  PROVE  TypedPart'
<1>1. CallsAhead /\ Onward
  BY HostOnward
<1>2. faults' \in Nat /\ faults <= faults' /\ host'.runs \in Nat /\ host.runs <= host'.runs
  BY Basics
<1>3. JoinersTyped' /\ \A r \in Run : LoopTyped(r)'
  BY <1>1, <1>2, PartsKept
<1>4. \A call \in adrift' : CallTyped(call)
  BY Basics DEF Deleting, CallTyped
<1> QED BY <1>1, <1>3, <1>4, Basics DEF TypedPart

(* A run that pauses, polls or ends.                                       *)
Answerable(r) ==
  /\ loop[r].at # "off"
  /\ loop[r].at = "create" => loop[r].answer.is = "ok"
  /\ loop[r].at = "hostNonce" => loop[r].answer.is \in {"ok", "dropped"}

LEMMA RunRests ==
  ASSUME TypedInv, NEW r \in Run, Answerable(r)
  PROVE  /\ r <= host.runs /\ ~ CreateAdrift(r)
         /\ loop[r].nonce <= faults \/ Taken(r)
<1>1. LoopTyped(r) /\ IsLoop(loop[r]) /\ faults \in Nat
  BY Basics
<1>2. r <= host.runs /\ ~ CreateAdrift(r)
  BY <1>1 DEF LoopTyped, LoopMade, Answerable, IsLoop
<1>3. loop[r].nonce <= faults \/ Taken(r)
  <2>1. CASE loop[r].at = "hostNonce" /\ loop[r].answer.is = "ok"
    <3>1. <<r, loop[r].nonce>> \in NoncesOf(r)
      BY <1>1, <2>1, Basics DEF LoopTyped, LoopShape, NonceCounted, NoncesOf
    <3> QED BY <1>1, <2>1, <3>1 DEF LoopTyped, LoopKnows, Agreed
  <2>2. CASE ~ (loop[r].at = "hostNonce" /\ loop[r].answer.is = "ok")
    BY <1>1, <2>2 DEF LoopTyped, NonceCounted, Answerable
  <2> QED BY <2>1, <2>2
<1> QED BY <1>2, <1>3

LEMMA RunRestsTyped ==
  ASSUME TypedInv, UNCHANGED <<relay, joiner, faults>>, host'.runs = host.runs, Deleting,
         NEW r \in Run, NEW it, loop' = [loop EXCEPT ![r] = it], IsLoop(it),
         it.answer = Waiting, it.nonce = loop[r].nonce,
         it.at = "off" \/ (it.at \in {"pause", "hostView"} /\ Answerable(r))
  PROVE  QuietLoop /\ \A q \in Run : loop'[q] = loop[q] \/ LoopTyped(q)'
<1>1. Waiting.is \notin {"ok", "dropped"}
  BY DEF Waiting
<1>2. QuietLoop
  BY LoopForms DEF TypedInv
<1>3. Onward /\ \A q : CreateAdrift(q)' => CreateAdrift(q)
  BY <1>2, HostOnward
<1>4. loop'[r] = it /\ \A q \in Run \ {r} : loop'[q] = loop[q]
  BY Basics
<1>5. LoopTyped(r) /\ faults \in Nat
  BY Basics
<1>6. LoopShape(r, loop'[r])
  BY <1>1, <1>4, <1>5 DEF LoopTyped, LoopShape
<1>7. NonceCounted(r)'
  <2>1. it.at # "off" => loop[r].nonce <= faults \/ Taken(r)'
    BY <1>3, RunRests DEF Onward
  <2> QED BY <1>1, <1>4, <1>5, <2>1 DEF LoopTyped, NonceCounted
<1>8. LoopMade(r)'
  BY <1>1, <1>3, <1>4, RunRests DEF LoopMade
<1>9. LoopKnows(r)'
  BY <1>1, <1>4 DEF LoopKnows
<1> QED BY <1>2, <1>4, <1>6, <1>7, <1>8, <1>9 DEF LoopTyped

LEMMA PauseTyped ==
  ASSUME TypedInv, UNCHANGED <<relay, joiner, faults>>, host'.runs = host.runs, Deleting,
         NEW r \in Run, Off(r) \/ (Pause(r) /\ Answerable(r))
  PROVE  QuietLoop /\ \A q \in Run : loop'[q] = loop[q] \/ LoopTyped(q)'
<1>0. IsLoop(loop[r]) /\ loop = [q \in Run |-> loop[q]]
  BY Basics
<1>1. ASSUME NEW at \in {"off", "pause"}, at = "off" \/ Answerable(r),
             loop' = [loop EXCEPT ![r].at = at, ![r].answer = Waiting]
      PROVE  QuietLoop /\ \A q \in Run : loop'[q] = loop[q] \/ LoopTyped(q)'
  <2> DEFINE it == [loop[r] EXCEPT !.at = at, !.answer = Waiting]
  <2>1. loop' = [loop EXCEPT ![r] = it]
    BY <1>0, <1>1
  <2>2. IsLoop(it) /\ it.at = at /\ it.answer = Waiting /\ it.nonce = loop[r].nonce
    BY <1>0 DEF IsLoop
  <2> HIDE DEF it
  <2> QED BY <1>1, <2>1, <2>2, RunRestsTyped
<1> QED BY <1>1 DEF Off, Pause

-----------------------------------------------------------------------------
LEMMA FailsTyped ==
  ASSUME TypedInv, NEW r \in Run, NEW phase \in HostPhase, ~ Comparing([phase |-> phase]),
         Fails(r, phase), UNCHANGED <<relay, joiner, faults>>
  PROVE  TypedPart'
<1> DEFINE h == IF r \in host.aborted THEN host ELSE settleFailure(host, phase)
<1>1. HostLess(host, h)
  BY Basics, HostLessForms DEF HostShape
<1>2. host' = finally(h, r) /\ Off(r) /\ UNCHANGED adrift
  BY DEF Fails
<1> HIDE DEF h
<1>3. HostLess(h, finally(h, r))
  BY <1>1, HostLessForms DEF HostLess
<1>4. HostLess(host, host')
  BY <1>1, <1>2, <1>3, HostLessTwice
<1>5. Deleting /\ host'.runs = host.runs
  BY <1>2, <1>4 DEF Deleting, HostLess
<1> QED BY <1>2, <1>4, <1>5, HostLessKeeps, PauseTyped, HostMovesTyped

(* A run that goes on, its device's fields as they were.                   *)
LEMMA StillTyped ==
  ASSUME TypedInv, NEW r \in Run, Pause(r), Answerable(r),
         UNCHANGED <<relay, host, joiner, adrift, faults>>
  PROVE  TypedPart'
<1>1. HostLess(host, host')
  BY Basics, HostLessForms DEF HostShape
<1> QED BY <1>1, HostLessKeeps, PauseTyped, HostMovesTyped DEF Deleting

LEMMA PollFailsTyped ==
  ASSUME TypedInv, NEW r \in Run, PollFails(r), loop[r].at \in {"hostView", "hostNonce"},
         UNCHANGED <<relay, joiner, faults>>
  PROVE  TypedPart'
<1>1. /\ {"cancelled", "expired", "failed"} \subseteq HostPhase
      /\ \A phase \in {"cancelled", "expired", "failed"} : ~ Comparing([phase |-> phase])
  BY DEF HostPhase, Comparing
<1>2. CASE \E phase \in {"cancelled", "expired", "failed"} : Fails(r, phase)
  BY <1>1, <1>2, FailsTyped
<1>3. CASE loop[r].answer.is = "dropped" /\ Pause(r) /\ UNCHANGED <<host, adrift>>
  BY <1>3, StillTyped DEF Answerable
<1> QED BY <1>2, <1>3 DEF PollFails

(* A nonce is sent while its invitation waits for one.                     *)
LEMMA StepClaimedTyped ==
  ASSUME TypedInv, NEW r \in Run, loop[r].at = "hostView", loop[r].answer.is = "ok",
         loop[r].answer.state = "claimed", StepClaimed(r, loop[r].answer),
         UNCHANGED <<relay, joiner, faults>>
  PROVE  TypedPart'
<1> DEFINE it == [at |-> "hostNonce", nonce |-> loop[r].nonce + 1, answer |-> Waiting]
<1>1. CASE Pause(r) /\ UNCHANGED <<host, adrift>>
  BY <1>1, StillTyped DEF Answerable
<1>2. CASE /\ host' = [host EXCEPT !.joiner = loop[r].answer.joiner]
           /\ loop' = [loop EXCEPT ![r] = it] /\ UNCHANGED adrift
  <2>1. HostLess(host, host')
    BY <1>2, Basics DEF HostLess, HostShape, IsHost, HostFields, Comparing
  <2>2. Waiting.is \notin {"ok", "dropped"}
    BY DEF Waiting
  <2>3. IsLoop(it) /\ it.at = "hostNonce" /\ it.answer = Waiting /\ it.nonce = loop[r].nonce + 1
    BY DEF IsLoop
  <2> HIDE DEF it
  <2>4. QuietLoop
    BY <1>2, <2>3, LoopForms DEF TypedInv
  <2>5. Deleting /\ host'.runs = host.runs
    BY <1>2, <2>1 DEF Deleting, HostLess
  <2>6. \A q : CreateAdrift(q)' => CreateAdrift(q)
    BY <2>4, <2>5, HostOnward
  <2>7. loop'[r] = it /\ \A q \in Run \ {r} : loop'[q] = loop[q]
    BY <1>2, Basics
  <2>8. LoopTyped(r) /\ faults \in Nat
    BY Basics
  <2>9. r <= host.runs /\ ~ CreateAdrift(r)
    BY RunRests DEF Answerable
  <2>10. loop[r].nonce <= faults /\ loop[r].nonce \in Nat
    BY <2>8 DEF LoopTyped, LoopShape, NonceCounted
  <2>11. LoopShape(r, loop'[r]) /\ NonceCounted(r)'
    BY <2>2, <2>3, <2>7, <2>8, <2>10 DEF LoopShape, NonceCounted
  <2>12. LoopMade(r)' /\ LoopKnows(r)'
    BY <2>2, <2>3, <2>5, <2>6, <2>7, <2>9 DEF LoopMade, LoopKnows
  <2>13. LoopTyped(r)'
    BY <2>11, <2>12 DEF LoopTyped
  <2> QED BY <2>1, <2>4, <2>5, <2>7, <2>13, HostLessKeeps, HostMovesTyped
<1> QED BY <1>1, <1>2, Basics DEF StepClaimed

(* The digits are worked out of what was told by the commit's own joiner.  *)
LEMMA StepRevealedTyped ==
  ASSUME TypedInv, NEW r \in Run, loop[r].at = "hostView", loop[r].answer.is = "ok",
         StepRevealed(r, loop[r].answer), UNCHANGED <<relay, joiner, faults>>
  PROVE  TypedPart'
<1> DEFINE view == loop[r].answer
           sas == <<r, host.keys, host.joiner, host.nonce, view.joinerNonce>>
<1>0. LoopTyped(r) /\ HostShape(host) /\ HostKnows /\ IsHost(host) /\ Answerable(r)
  BY Basics DEF Answerable
<1>1. CASE Pause(r) /\ UNCHANGED <<host, adrift>>
  BY <1>0, <1>1, StillTyped
<1>2. CASE Fails(r, "failed")
  BY <1>2, FailsTyped DEF HostPhase, Comparing
<1>3. CASE host' = abandoned /\ adrift' = adrift \cup Deletes(host.inv) /\ Off(r)
  <2>1. HostLess(host, host')
    BY <1>3, HostFailures
  <2>2. Deleting /\ host'.runs = host.runs
    BY <1>3, <2>1, Cancels DEF Deleting, HostLess
  <2> QED BY <1>3, <2>1, <2>2, HostLessKeeps, PauseTyped, HostMovesTyped
<1>4. CASE /\ host.nonce # None /\ view.joinerNonce # None
           /\ pairingCommitMatches(host.joiner, view.joinerNonce)
           /\ host' = [host EXCEPT !.phase = "compare", !.sas = sas]
           /\ Pause(r) /\ UNCHANGED adrift
  <2>1. /\ host'.phase = "compare" /\ host'.run = host.run /\ host'.runs = host.runs
        /\ host'.nonce = host.nonce /\ host'.sas = sas
    BY <1>0, <1>4 DEF IsHost, HostFields
  <2>2. /\ sas = <<sas[1], sas[2], sas[3], sas[4], sas[5]>>
        /\ sas[1] = r /\ sas[3] = host.joiner /\ sas[4] = host.nonce /\ sas[5] = view.joinerNonce
    OBVIOUS
  <2>3. view.joinerNonce \in Joiner /\ host.nonce \in Nonces
    BY <1>0, <1>4 DEF LoopTyped, LoopShape, HostShape
  <2>4. host.joiner = view.joinerNonce
    BY <1>4 DEF pairingCommitMatches
  <2> HIDE DEF sas, view
  <2>5. HostShape(host')
    BY <1>0, <2>1, <2>2, <2>3, <2>4 DEF HostShape, HostPhase
  <2>6. ASSUME Onward PROVE HostKnows'
    <3>1. ASSUME NEW q \in Run, NEW n \in NoncesOf(q),
                 host'.nonce = n \/ (Comparing(host') /\ host'.sas[4] = n)
          PROVE  Agreed(q, n)'
      BY <1>0, <2>1, <2>2, <2>6, <3>1 DEF HostKnows, Onward
    <3>2. ASSUME NEW q \in Run, NEW i \in Joiner,
                 Comparing(host') /\ host'.sas[1] = q /\ host'.sas[5] = i
          PROVE  OnlyHolder(q, i)'
      <4>1. q = r /\ view.joinerNonce = i
        BY <2>1, <2>2, <3>2
      <4>2. OnlyHolder(r, i)
        BY <1>0, <4>1 DEF LoopTyped, LoopKnows, view
      <4> QED BY <2>6, <4>1, <4>2 DEF Onward
    <3> QED BY <3>1, <3>2 DEF HostKnows
  <2>7. Deleting
    BY <1>4 DEF Deleting
  <2> QED BY <1>0, <1>4, <2>1, <2>5, <2>6, <2>7, PauseTyped, HostMovesTyped
<1> QED BY <1>1, <1>2, <1>3, <1>4 DEF StepRevealed

LEMMA StepTyped ==
  ASSUME TypedInv, NEW r \in Run, loop[r].at = "hostView", loop[r].answer.is = "ok", step(r),
         UNCHANGED <<relay, joiner, faults>>
  PROVE  TypedPart'
<1>1. CASE Pause(r) /\ UNCHANGED <<host, adrift>>
  BY <1>1, StillTyped DEF Answerable
<1>2. CASE Fails(r, "failed")
  BY <1>2, FailsTyped DEF HostPhase, Comparing
<1>3. CASE StepDone(r)
  <2> DEFINE h == [host EXCEPT !.phase = "done"]
  <2>1. HostLess(host, h)
    BY Basics DEF HostLess, IsHost, HostFields, Comparing, HostPhase
  <2>2. host' = finally(h, r) /\ Off(r) /\ UNCHANGED adrift
    BY <1>3 DEF StepDone
  <2> HIDE DEF h
  <2>3. HostLess(h, finally(h, r))
    BY <2>1, HostLessForms DEF HostLess
  <2>4. HostLess(host, host')
    BY <2>1, <2>2, <2>3, HostLessTwice
  <2>5. Deleting /\ host'.runs = host.runs
    BY <2>2, <2>4 DEF Deleting, HostLess
  <2> QED BY <2>2, <2>4, <2>5, HostLessKeeps, PauseTyped, HostMovesTyped
<1>4. CASE loop[r].answer.state = "claimed" /\ StepClaimed(r, loop[r].answer)
  BY <1>4, StepClaimedTyped
<1>5. CASE StepRevealed(r, loop[r].answer)
  BY <1>5, StepRevealedTyped
<1> QED BY <1>1, <1>2, <1>3, <1>4, <1>5 DEF step

(* The relay has taken the nonce: the run's only one.                      *)
LEMMA NonceSentTyped ==
  ASSUME TypedInv, NEW r \in Run, NonceSent(r)
  PROVE  TypedPart'
<1>0. /\ loop[r].at = "hostNonce" /\ UNCHANGED <<relay, sending, joiner, faults>>
      /\ LoopTyped(r) /\ HostShape(host) /\ HostKnows /\ IsHost(host)
  BY Basics DEF NonceSent, Answered
<1> DEFINE nonce == <<r, loop[r].nonce>>
<1>1. CASE PollFails(r)
  BY <1>0, <1>1, PollFailsTyped
<1>2. CASE /\ loop[r].answer.is = "ok"
           /\ host' = [host EXCEPT !.nonce = nonce, !.phase = "connecting"]
           /\ Pause(r) /\ UNCHANGED adrift
  <2>1. /\ host'.phase = "connecting" /\ host'.run = host.run /\ host'.runs = host.runs
        /\ host'.nonce = nonce
    BY <1>0, <1>2 DEF IsHost, HostFields
  <2>2. nonce \in NoncesOf(r) /\ nonce \in Nonces
    BY <1>0, Basics DEF LoopTyped, LoopShape, NonceCounted, NoncesOf, Nonces
  <2>3. Agreed(r, nonce)
    BY <1>0, <1>2, <2>2 DEF LoopTyped, LoopKnows
  <2>4. ~ Comparing(host')
    BY <2>1 DEF Comparing
  <2>5. HostShape(host')
    BY <1>0, <2>1, <2>2, <2>4 DEF HostShape, HostPhase
  <2>6. \A q \in Run : nonce \in NoncesOf(q) => q = r
    BY DEF NoncesOf
  <2> HIDE DEF nonce
  <2>7. ASSUME Onward PROVE HostKnows'
    BY <2>1, <2>3, <2>4, <2>6, <2>7 DEF HostKnows, Onward
  <2>8. Deleting /\ Answerable(r)
    BY <1>0, <1>2 DEF Deleting, Answerable
  <2> QED BY <1>0, <1>2, <2>1, <2>5, <2>7, <2>8, PauseTyped, HostMovesTyped
<1> QED BY <1>1, <1>2 DEF NonceSent

LEMMA HostRunsTyped ==
  ASSUME TypedInv, NEW r \in Run, HostRuns(r)
  PROVE  TypedPart'
<1>0. /\ IsHost(host) /\ HostShape(host) /\ HostLess(host, host) /\ IsLoop(loop[r])
      /\ loop = [q \in Run |-> loop[q]]
  BY Basics, HostLessForms DEF HostShape
<1>1. CASE Created(r)
  <2>0. loop[r].at = "create" /\ UNCHANGED <<relay, sending, joiner, faults>>
    BY <1>1 DEF Created, Answered
  <2>1. CASE Off(r) /\ UNCHANGED <<host, adrift>>
    BY <1>0, <2>0, <2>1, HostLessKeeps, PauseTyped, HostMovesTyped DEF Deleting
  <2>2. CASE /\ loop[r].answer.is = "ok"
             /\ host' = [host EXCEPT !.inv = r, !.code = loop[r].answer.code, !.phase = "waiting"]
             /\ Pause(r) /\ UNCHANGED adrift
    <3>1. HostLess(host, host')
      BY <1>0, <2>2 DEF HostLess, IsHost, HostFields, Comparing, HostPhase
    <3>2. Deleting /\ Answerable(r) /\ host'.runs = host.runs
      BY <2>0, <2>2, <3>1 DEF Deleting, Answerable, HostLess
    <3> QED BY <2>0, <2>2, <3>1, <3>2, HostLessKeeps, PauseTyped, HostMovesTyped
  <2>3. CASE Fails(r, "failed")
    BY <2>0, <2>3, FailsTyped DEF HostPhase, Comparing
  <2> QED BY <1>1, <2>1, <2>2, <2>3 DEF Created
<1>2. CASE Poll(r)
  <2>0. /\ loop[r].at = "pause" /\ loop[r].answer = Waiting
        /\ UNCHANGED <<relay, sending, joiner, faults>>
    BY <1>0, <1>2 DEF Poll, IsLoop
  <2>1. CASE Fails(r, "cancelled")
    BY <2>0, <2>1, FailsTyped DEF HostPhase, Comparing
  <2>2. CASE loop' = [loop EXCEPT ![r].at = "hostView"] /\ UNCHANGED <<host, adrift>>
    <3> DEFINE it == [loop[r] EXCEPT !.at = "hostView"]
    <3>1. loop' = [loop EXCEPT ![r] = it]
      BY <1>0, <2>2
    <3>2. /\ IsLoop(it) /\ it.at = "hostView" /\ it.answer = Waiting /\ it.nonce = loop[r].nonce
      BY <1>0, <2>0 DEF IsLoop
    <3> HIDE DEF it
    <3>3. Deleting /\ Answerable(r)
      BY <2>0, <2>2 DEF Deleting, Answerable
    <3>4. QuietLoop /\ \A q \in Run : loop'[q] = loop[q] \/ LoopTyped(q)'
      BY <2>0, <2>2, <3>1, <3>2, <3>3, RunRestsTyped
    <3> QED BY <1>0, <2>0, <2>2, <3>3, <3>4, HostLessKeeps, HostMovesTyped
  <2> QED BY <1>2, <2>1, <2>2 DEF Poll
<1>3. CASE Viewed(r)
  BY <1>3, StepTyped, PollFailsTyped DEF Viewed, Answered
<1>4. CASE NonceSent(r)
  BY <1>4, NonceSentTyped
<1>5. CASE Sent(r)
  <2>1. HostLess(host, host') /\ Deleting
    BY <1>0, <1>5, HostFailures, Cancels DEF Sent, Deleting
  <2>2. host'.runs = host.runs
    BY <2>1 DEF HostLess
  <2>3. QuietLoop /\ \A q \in Run : loop'[q] = loop[q]
    BY <1>5, StillLoop DEF Sent, TypedInv
  <2> QED BY <1>5, <2>1, <2>2, <2>3, HostLessKeeps, HostMovesTyped DEF Sent
<1> QED BY <1>1, <1>2, <1>3, <1>4, <1>5 DEF HostRuns

(* A new run has its own invitation to make, and its own nonces.           *)
LEMMA BeginTyped ==
  ASSUME TypedInv, NEW h, HostLess(host, h), Begin(h),
         UNCHANGED <<relay, sending, joiner, adrift, faults>>
  PROVE  TypedPart'
<1> DEFINE n == host.runs + 1
<1>0. /\ host.runs \in Nat /\ faults \in Nat /\ HostShape(host) /\ HostKnows
      /\ \A r \in Run : r \in Nat
  BY Basics
<1>1. /\ host'.runs = n /\ host'.run = n /\ host'.phase = "creating"
      /\ host'.nonce \in {host.nonce, None}
  BY DEF Begin, newRun, HostLess, IsHost, HostFields
<1>2. /\ loop' = [loop EXCEPT ![n] = [Idle EXCEPT !.at = "create"]]
      /\ \A q \in Run \ {n} : loop'[q] = loop[q]
  BY Basics DEF Begin, HostLess
<1>3. n \in Run => loop'[n] = [at |-> "create", nonce |-> 0, answer |-> Waiting]
  BY <1>2, Basics DEF Idle
<1>4. ~ Comparing(host')
  BY <1>1 DEF Comparing
<1>5. HostShape(host')
  BY <1>0, <1>1, <1>4 DEF HostShape, HostPhase
<1>6. CallsAhead
  BY <1>0, <1>1, <1>2 DEF CallsAhead, Made, Creating, CreateAdrift
<1>7. Onward
  BY <1>6, StillRelay, StillJoiners, Onwards
<1>8. HostKnows'
  <2>1. \A q \in Run : \A m \in NoncesOf(q) : host'.nonce = m => host.nonce = m
    BY <1>1, NonceAssumption DEF NoncesOf, Nonces
  <2> QED BY <1>0, <1>4, <1>7, <2>1 DEF HostKnows, Onward
<1>9. JoinersTyped' /\ \A q \in Run : loop'[q] = loop[q] => LoopTyped(q)'
  BY <1>0, <1>1, <1>6, <1>7, PartsKept
<1>10. ASSUME NEW q \in Run, q = n PROVE LoopTyped(q)'
  <2>0. loop'[q] = [at |-> "create", nonce |-> 0, answer |-> Waiting] /\ q <= host'.runs
    BY <1>0, <1>1, <1>3, <1>10
  <2>1. Waiting.is # "ok"
    BY DEF Waiting
  <2> QED BY <1>0, <2>0, <2>1
          DEF LoopTyped, LoopShape, NonceCounted, LoopMade, LoopKnows
<1> HIDE DEF n
<1>11. \A q \in Run : LoopTyped(q)'
  BY <1>2, <1>9, <1>10
<1> QED BY <1>5, <1>8, <1>9, <1>11, Basics DEF TypedPart

LEMMA StartTyped ==
  ASSUME TypedInv, Start \/ StartGoesOn \/ CloseHost \/ Confirm
  PROVE  TypedPart'
<1>0. IsHost(host) /\ host.phase \in HostPhase /\ HostLess(host, cancelled)
  BY Basics, HostFailures DEF HostShape
<1>1. CASE Begin(cancelled) /\ UNCHANGED <<relay, sending, joiner, adrift, faults>>
  BY <1>0, <1>1, BeginTyped
<1>2. CASE /\ \/ host' = [cancelled EXCEPT !.pending = @ \cup {host.inv}]
              \/ host' = [cancelled EXCEPT !.open = FALSE]
           /\ adrift' = adrift \cup cancelDeletes /\ UNCHANGED <<relay, loop, joiner, faults>>
  <2>1. HostLess(cancelled, host')
    BY <1>0, <1>2 DEF HostLess, IsHost, HostFields, Comparing
  <2>2. HostLess(host, host')
    BY <1>0, <2>1, HostLessTwice
  <2>3. Deleting /\ host'.runs = host.runs
    BY <1>2, <2>2, Failures DEF Deleting, HostLess, TypedInv
  <2> QED BY <1>2, <2>2, <2>3, StillLoop, HostLessKeeps, HostMovesTyped DEF TypedInv
<1>3. CASE StartGoesOn
  <2>1. PICK id \in host.pending : Begin([host EXCEPT !.pending = @ \ {id}])
    BY <1>3 DEF StartGoesOn
  <2> DEFINE h == [host EXCEPT !.pending = @ \ {id}]
  <2>2. HostLess(host, h)
    BY <1>0 DEF HostLess, IsHost, HostFields, Comparing
  <2> HIDE DEF h
  <2> QED BY <1>3, <2>1, <2>2, BeginTyped DEF StartGoesOn, h
<1>4. CASE Confirm
  <2>1. HostLess(host, host')
    BY <1>0, <1>4 DEF Confirm, HostLess, IsHost, HostFields, HostPhase, Comparing
  <2>2. Deleting /\ host'.runs = host.runs
    BY <1>4, <2>1 DEF Confirm, Deleting, HostLess
  <2> QED BY <1>4, <2>1, <2>2, StillLoop, HostLessKeeps, HostMovesTyped DEF Confirm, TypedInv
<1> QED BY <1>1, <1>2, <1>3, <1>4 DEF Start, CloseHost

-----------------------------------------------------------------------------
LEMMA TypedInit == Init => TypedInv
<1> SUFFICES ASSUME Init PROVE TypedPart
  BY PairingInit DEF TypedInv
<1>1. /\ \A r \in Run : relay.invitations[r] = Gone /\ loop[r] = Idle
      /\ \A c \in Code : relay.byCode[c] = None
      /\ \A j \in Joiner : joiner[j] = Fresh
      /\ adrift = {} /\ faults = 0
  BY NoneKeeps DEF Init, NoInvitations
<1>2. /\ host.phase = "idle" /\ host.run = None /\ host.nonce = None
  BY DEF Init
<1>3. RelayTyped(relay)
  BY <1>1, GoneTyped DEF RelayTyped
<1>4. ~ Comparing(host)
  BY <1>2 DEF Comparing
<1>5. HostShape(host)
  BY <1>2, <1>4 DEF HostShape, HostPhase
<1>6. HostKnows
  BY <1>2, <1>4, NonceAssumption DEF HostKnows, NoncesOf, Nonces
<1>7. \A r \in Run : LoopTyped(r)
  BY <1>1 DEF Idle, LoopTyped, LoopShape, NonceCounted, LoopMade, LoopKnows
<1>8. JoinersTyped
  BY <1>1, RelayAssumption DEF Fresh, JoinersTyped, JoinerShape, JoinerPhase, Claims, Reads
<1>9. faults \in 0 .. MaxFaults
  BY <1>1, FaultAssumption
<1> QED BY <1>1, <1>3, <1>5, <1>6, <1>7, <1>8, <1>9 DEF TypedPart

LEMMA TypedStep ==
  ASSUME TypedInv, [Next]_vars
  PROVE  TypedInv'
<1>0. PairingInv'
  BY PairingStep DEF TypedInv
<1> SUFFICES TypedPart'
  BY <1>0 DEF TypedInv
<1>1. CASE Owner \/ StartGoesOn
  BY <1>1, StartTyped DEF Owner
<1>2. CASE ServeAdrift \/ DropAdrift
  BY <1>2, ServeAdriftTyped, DropSendTyped
<1>3. CASE Sweep \/ RelayRestarts \/ (\E r \in Run : Expire(r))
  BY <1>3, RelayTypedKept
<1>4. CASE \E r \in Run : HostRuns(r)
  BY <1>4, HostRunsTyped
<1>5. CASE \E r \in Run : ServeLoop(r) \/ ServeSend(r)
  BY <1>5, ServeLoopTyped, ServeSendTyped
<1>6. CASE \E r \in Run : DropLoop(r) \/ DropSend(r)
  BY <1>6, DropLoopTyped, DropSendTyped
<1>7. CASE \E j \in Joiner : JoinerRuns(j) \/ JoinerOwner(j)
  BY <1>7, JoinerRunsTyped, JoinerOwnerTyped
<1>8. CASE \E j \in Joiner : ServeJoiner(j) \/ DropJoiner(j) \/ Limit(j)
  BY <1>8, ServeJoinerTyped, DropJoinerTyped
<1>9. CASE UNCHANGED vars
  <2>1. UNCHANGED <<relay, host, loop, sending, joiner, adrift, faults>>
    BY <1>9 DEF vars
  <2>2. HostLess(host, host')
    BY <2>1, Basics, HostLessForms DEF HostShape
  <2>3. QuietLoop /\ Deleting
    BY <2>1, StillLoop DEF TypedInv, Deleting
  <2> QED BY <2>1, <2>2, <2>3, HostLessKeeps, HostMovesTyped
<1> QED BY <1>1, <1>2, <1>3, <1>4, <1>5, <1>6, <1>7, <1>8, <1>9 DEF Next

LEMMA TypedAlways == Spec => []TypedInv
<1>1. TypedInv /\ [Next]_vars => TypedInv'
  BY TypedStep
<1> QED BY TypedInit, <1>1, PTL DEF Spec

(* Every variable keeps its type.  That no run sends more than one nonce   *)
(* for each fault and one more, so that the nonces are those of the        *)
(* module, takes that the relay accepts one nonce for an invitation.       *)
THEOREM PairingTyped == Spec => []TypeOK
<1>1. TypedInv => TypeOK
  <2> SUFFICES ASSUME TypedInv PROVE TypeOK
    OBVIOUS
  <2>1. \A r \in Run : NoncesOf(r) \subseteq Nonces
    BY DEF NoncesOf, Nonces
  <2>2. ASSUME NEW r \in Run
        PROVE  LET it == relay.invitations[r]
               IN /\ it.state \in PairingState \cup {"gone"} /\ it.code \in Code \cup {None}
                  /\ it.token \in Joiner \cup {None} /\ it.joiner \in {it.token, None}
                  /\ it.hostNonce \in Nonces \cup {None} /\ it.joinerNonce \in {it.token, None}
    <3>1. IsInvitation(relay.invitations[r]) /\ InvitationTyped(r, relay.invitations[r])
      BY Basics DEF RelayTyped, TypedInv, PairingInv, RelayPart, RelayInv, IsRelay
    <3> QED BY <2>1, <3>1 DEF IsInvitation, InvitationTyped, PairingState, OpenStates
  <2>3. relay.byCode \in [Code -> Run \cup {None}]
    <3>1. relay.byCode = [c \in Code |-> relay.byCode[c]]
      BY DEF TypedInv, PairingInv, RelayPart, RelayInv, IsRelay
    <3> QED BY <3>1, Basics DEF RelayTyped
  <2>4. host.phase \in HostPhase /\ host.run \in 0 .. host.runs \cup {None}
    BY Basics DEF HostShape
  <2>5. ASSUME NEW r \in Run
        PROVE  /\ loop[r].at \in {"off", "create", "pause", "hostView", "hostNonce"}
               /\ loop[r].nonce \in 0 .. MaxFaults + 1
               /\ loop[r].at = "off" => loop[r].answer = Waiting
    <3>1. LoopTyped(r) /\ IsLoop(loop[r]) /\ faults \in 0 .. MaxFaults /\ MaxFaults \in Nat
      BY Basics
    <3> QED BY <3>1 DEF IsLoop, LoopTyped, LoopShape, NonceCounted
  <2>6. ASSUME NEW j \in Joiner
        PROVE  /\ joiner[j].phase \in JoinerPhase
               /\ joiner[j].at \in {"off", "pause", "claim", "joinerView", "reveal", "ack"}
               /\ joiner[j].pinned \in Nonces \cup {None}
               /\ joiner[j].opened => joiner[j].id \in Run
    <3>1. JoinerShape(j, joiner[j]) /\ JoinerOK(host.confirmed, j, joiner[j])
      BY Basics DEF JoinersTyped, TypedInv, PairingInv, JoinerPart
    <3> QED BY <2>1, <3>1 DEF JoinerShape, JoinerOK
  <2> QED BY <2>2, <2>3, <2>4, <2>5, <2>6, Basics DEF TypeOK
<1> QED BY <1>1, TypedAlways, PTL

(* Two honest screens that compare digits for one invitation show the same *)
(* ones: the joiner's pin is the nonce the relay took, of those a run has  *)
(* sent, and the device that has claimed is the one whose commit was       *)
(* opened.                                                                 *)
THEOREM DigitsTheSame == Spec => []DigitsAgree
<1>1. TypedInv => DigitsAgree
  <2> SUFFICES ASSUME TypedInv, Comparing(host), OfOneRun(host.sas), NEW j \in Joiner,
                      joiner[j].sas # None, joiner[j].id = host.sas[1]
               PROVE  joiner[j].sas = host.sas
    BY DEF DigitsAgree, Comparing
  <2> DEFINE r == host.sas[1]
             n == host.sas[4]
             i == host.sas[5]
  <2>1. /\ host.sas = <<r, host.sas[2], host.sas[3], n, i>>
        /\ r \in Run /\ host.sas[3] = i /\ n \in Nonces /\ i \in Joiner
    BY Basics DEF HostShape
  <2>2. host.sas[2] = r /\ n[1] = r
    BY DEF OfOneRun
  <2>3. n \in NoncesOf(r)
    BY <2>1, <2>2 DEF Nonces, NoncesOf
  <2>4. Agreed(r, n) /\ OnlyHolder(r, i)
    BY <2>1, <2>3, Basics DEF HostKnows
  <2>5. /\ joiner[j].pinned # None
        /\ joiner[j].sas = <<r, r, j, joiner[j].pinned, j>>
    BY Basics DEF JoinersTyped, JoinerShape
  <2>6. j = i
    BY <2>4 DEF OnlyHolder, Claims
  <2>7. joiner[j].pinned = n
    BY <2>4, <2>5 DEF Agreed, Reads
  <2> HIDE DEF r, n, i
  <2> QED BY <2>1, <2>2, <2>5, <2>6, <2>7
<1> QED BY <1>1, TypedAlways, PTL
=============================================================================
