-------------------------- MODULE DeviceEntryProofs --------------------------
(***************************************************************************)
(* The proofs about DeviceEntry.                                           *)
(*                                                                         *)
(* Base says the types, what the flow's fields owe to each other, which of *)
(* six kinds of job is under way and how far it has got, and that the view *)
(* the app was given suits the store.  Every step is of one of the kinds   *)
(* of Kind, and Base is inductive.  On top of it stand the invariants of   *)
(* the theorems: JoinsInv, LockInv, ClearFree, and Screened, Covered,      *)
(* HeldBefore and Seen for the phrase that is on screen before it is used. *)
(***************************************************************************)
EXTENDS DeviceEntry, TLAPS

-----------------------------------------------------------------------------
(* Types.                                                                  *)
Ciphered(n) == [of : Phrase \cup {CHECK_VALUE, Unreadable}, code : Codes, salt : 1 .. n]
Identities(n) == Phrase \cup Ciphered(n) \cup {None}
IsArea(a, n) ==
  /\ a = [name \in Name |-> a[name]]
  /\ a[Identity] \in Identities(n)
  /\ a[SALT_ENTRY] \in 1 .. n \cup {None}
  /\ a[CHECK_ENTRY] \in Ciphered(n) \cup {None}
  /\ a[CODE_SHAPE_ENTRY] \in {DIGITS_6, None}
View(n) == {Plain} \cup [code : Codes, salt : 1 .. n]
Screens == {"closed", "unlock", "opened", "setup", "flow", "running", "failed"}
Screen(n) == {s \in [at : Screens, store : View(n)] : s.at \in {"closed", "unlock", "setup"} => s.store = Plain}
Words == Phrase \cup {None, Unreadable}
Addresses == Server \cup {None}
Asked == (Addresses \X Words) \cup {None}
Flows ==
  [step : Step, mode : {"new", "join"}, locked : BOOLEAN, words : Words, revealed : BOOLEAN,
   joinPhrase : Brought \cup {None}, joinServer : Addresses, invited : BOOLEAN, joiner : BOOLEAN,
   address : Addresses, status : {"idle", "checking", "found", "empty", "refused"},
   about : Asked, asked : Asked]
Records ==
  {NoRecord} \cup {New(step) : step \in {"phrase", "check", "server"}}
    \cup {Connect(server) : server \in Addresses} \cup {Join(server) : server \in Addresses}

WriteOK(w, n) ==
  \/ /\ w.area \in {"store", "staged"} /\ w.name \in Name /\ w.turn \in Nat
     /\ w = Put(w.turn, w.area, w.name, w.value)
     /\ w.name = Identity => w.value \in Identities(n)
     /\ w.name = SALT_ENTRY => w.value \in 1 .. n \cup {None}
     /\ w.name = CHECK_ENTRY => w.value \in Ciphered(n) \cup {None}
     /\ w.name = CODE_SHAPE_ENTRY => w.value \in {DIGITS_6, None}
  \/ \E r \in Records : w = WriteRecord(r)

SimpleTaps == {"resume", "begin", "back", "written", "checked", "finish", "join", "replace"}
Taps == SimpleTaps \cup {"none", "unlock", "reset", "enable", "change", "disable"}

JobType ==
  /\ job = [writes |-> job.writes, does |-> job.does, from |-> job.from, app |-> job.app, flow |-> job.flow]
  /\ \A w \in job.writes : WriteOK(w, salts)
  /\ job.does \in Taps
  /\ IsArea(job.from, salts) /\ job.app \in Screen(salts) /\ job.flow \in Flows
  /\ job.writes = {} => job = Idle

PastType ==
  /\ past = [minted |-> past.minted, revealed |-> past.revealed, vouched |-> past.vouched,
             torn |-> past.torn, kills |-> past.kills, fresh |-> past.fresh]
  /\ past.minted \subseteq Minted /\ past.kills \in 0 .. MaxKills

Typed ==
  /\ salts \in 0 .. MaxSalts
  /\ IsArea(store, salts) /\ IsArea(staged, salts)
  /\ device \in [required : BOOLEAN, fixed : Addresses]
  /\ record \in Records
  /\ app \in Screen(salts)
  /\ flow \in Flows
  /\ JobType
  /\ PastType

-----------------------------------------------------------------------------
(* The flow.                                                               *)
JoinSteps == {"join-method", "join-phrase", "join-server", "join-scan", "join-code", "join-compare",
              "join-received"}
NewSteps == {"phrase", "check", "server"}
Asking(f) == \/ f.step \in {"server", "join-server"}
             \/ f.step = "create-code" /\ f.mode = "join" /\ ~f.invited
FlowOK(f) ==
  /\ Asking(f) => /\ f.asked # None => f.asked = asking(f)
                  /\ f.status \in {"found", "empty"} => f.about = asking(f)
  /\ f.joiner => f.step = "join-compare"
  /\ f.step = "join-received" => f.invited
  /\ f.invited => f.joinPhrase # None
  /\ f.step \in JoinSteps => f.mode = "join"
  /\ f.step \in NewSteps \cup {"welcome"} => f.mode = "new"
  /\ f.step = "join-server" \/ (f.step = "create-code" /\ f.mode = "join") => f.joinPhrase # None

FlowsOK == FlowOK(flow) /\ FlowOK(job.flow)

Vouched(f) ==
  /\ f.status = "found" => f.about \in past.vouched
  /\ f.step = "join-received" \/ (f.step = "create-code" /\ f.mode = "join")
       => <<f.joinServer, f.joinPhrase>> \in past.vouched

-----------------------------------------------------------------------------
(* Jobs.                                                                   *)
Follows(plan, writes, from, area, aside) ==
  /\ writes \subseteq plan
  /\ \A x \in writes, y \in plan : x.turn < y.turn => y \in writes
  /\ \A y \in plan : y.area = "store" =>
       area[y.name] = IF y \in writes THEN from[y.name] ELSE y.value
  /\ \A name \in Name : (\A y \in plan : y.area = "store" => y.name # name) => area[name] = from[name]
  /\ \A y \in plan :
       /\ y.area = "staged" /\ y \notin writes
       /\ \A z \in plan : z.area = "staged" /\ z.name = y.name /\ z.turn > y.turn => z \in writes
       => aside[y.name] = y.value
OnTheWay(plan) == Follows(plan, job.writes, job.from, store, staged)

LockPlan(goal, order, drops) ==
  {Drop(1, "staged", name) : name \in Name} \cup staging(goal) \cup promoteStaged(goal, order) \cup drops

FinalDrops == {Drop(12, "store", CODE_SHAPE_ENTRY), Drop(13, "store", SALT_ENTRY), Drop(14, "store", CHECK_ENTRY)}

Salt == 1 .. MaxSalts
Enabling ==
  /\ job.does = "enable" /\ ~hasVerifier(job.from) /\ salts \in Salt
  /\ app.store = Plain /\ app.at \in {"setup", "flow", "running"}
  /\ \E code \in Six :
       /\ OnTheWay(LockPlan(generated(job.from[Identity], code, salts), "verifier-first", {}))
       /\ job.app = Closed \/ job.app.store = [code |-> code, salt |-> salts]
  /\ job.app.at \in {"closed", "flow", "running", "failed"}
  /\ job.app.at = "running" => job.from[Identity] \in Phrase

Unlocked(area, p) ==
  \E code \in Codes : opens(area, code) /\ area[Identity] = sealed(p, code, area[SALT_ENTRY])

Changing ==
  /\ job.does = "change" /\ app.at = "running" /\ job.app = Closed /\ salts \in Salt
  /\ \E code \in Six, p \in Phrase :
       /\ Unlocked(job.from, p)
       /\ OnTheWay(LockPlan(generated(p, code, salts), "ordinary-first", {}))

Disabling ==
  /\ job.does = "disable" /\ app.at = "running" /\ job.app = Closed /\ ~device.required
  /\ \E p \in Phrase :
       /\ Unlocked(job.from, p)
       /\ OnTheWay(LockPlan([Nothing EXCEPT ![Identity] = p], "ordinary-first", FinalDrops))

Erasing ==
  /\ job.does = "reset" /\ app.at = "unlock" /\ job.app = Closed
  /\ WriteRecord(NoRecord) \in job.writes
  /\ \A w \in job.writes :
       w = WriteRecord(NoRecord) \/ \E name \in Name, area \in {"store", "staged"} : w = Drop(1, area, name)
  /\ \A name \in Name :
       store[name] # None => store[name] = job.from[name] /\ Drop(1, "store", name) \in job.writes

Unlocking ==
  /\ job.does = "unlock" /\ app.at = "unlock" /\ store = job.from /\ hasVerifier(store)
  /\ \/ /\ job.writes = {Put(1, "store", CODE_SHAPE_ENTRY, DIGITS_6)}
        /\ job.app.at = "opened" /\ job.app.store # Plain
        /\ store[CHECK_ENTRY].code \in Six
     \/ job.writes = {Put(1, "store", SALT_ENTRY, salts)} /\ store[SALT_ENTRY] = None /\ job.app = app

Simple ==
  /\ job.does \in SimpleTaps
  /\ \A w \in job.writes :
       \/ \E r \in Records : w = WriteRecord(r)
       \/ app.at \in {"flow", "running"} /\ \E p \in Phrase : w = set(app.store, p)
  /\ \A v, w \in job.writes : v.area = "store" /\ w.area = "store" => v = w
  /\ job.app.at \in {"closed", "flow", "running", "failed"}
  /\ job.app.at # "closed" => job.app.store = app.store
  /\ job.app.at = "flow" => app.at \in {"closed", "opened", "flow"}
  /\ job.app.at = "running" =>
       /\ app.at = "flow"
       /\ get(app.store) \in Phrase \/ \E p \in Phrase : set(app.store, p) \in job.writes

JobOK == Writing => Enabling \/ Changing \/ Disabling \/ Erasing \/ Unlocking \/ Simple

(* The view the app was given.                                             *)
Suits(view, area) ==
  IF view = Plain THEN ~hasVerifier(area)
  ELSE opens(area, view.code) /\ area[SALT_ENTRY] = view.salt
ViewGood(view) == Suits(view, store)
LockJob == job.does \in {"enable", "change", "disable"}
ViewOK ==
  /\ app.at \in {"opened", "flow", "running", "setup"} /\ ~LockJob => ViewGood(app.store)
  /\ job.app.at \in {"opened", "flow", "running", "setup"} /\ ~LockJob => ViewGood(job.app.store)
  /\ app.at = "unlock" /\ ~Writing => hasVerifier(store)
  /\ app.at = "running" /\ ~Writing => get(app.store) \in Phrase
  /\ app.at \in {"setup", "closed", "unlock"} => app.store = Plain
  /\ app.at = "opened" => app.store # Plain
  /\ app.at = "flow" => (flow.locked <=> app.store # Plain)
  /\ job.app.at = "flow" => (job.flow.locked <=> job.app.store # Plain)

-----------------------------------------------------------------------------
(* The lock.                                                               *)
ReservedTrue(area, erased) ==
  /\ ~hasVerifier(area) /\ ~erased => area[Identity] \in Phrase \cup {None}
  /\ hasVerifier(area) /\ getCodeShape(area) = "digits-6" => area[CHECK_ENTRY].code \in Six
Sealing == \A w \in job.writes : w.area # "record" /\ w.name = Identity => w.value \notin Phrase
-----------------------------------------------------------------------------
(* Joins.                                                                  *)
JoinsInv ==
  \A w \in job.writes : w.area = "record" /\ w.value.kind = "join" =>
    \E p \in Phrase :
      /\ <<w.value.server, p>> \in past.vouched
      /\ \/ set(app.store, p) \in job.writes
         \/ get(app.store) = p /\ \A x \in job.writes : x.area # "store"

-----------------------------------------------------------------------------
(* A step of the flow alone.                                               *)
FlowMove ==
  /\ app.at = "flow"
  /\ flow'.locked = flow.locked
  /\ flow'.step \in NewSteps => flow'.step = flow.step /\ flow'.words = flow.words
  /\ flow'.step = "phrase" /\ flow'.revealed => flow.revealed \/ flow.words \in past'.revealed
  /\ past' = [past EXCEPT !.revealed = past'.revealed, !.vouched = past'.vouched]
  /\ past.revealed \subseteq past'.revealed /\ past.vouched \subseteq past'.vouched
  /\ UNCHANGED <<store, staged, salts, device, record, app, job>>

Moves == FlowMove /\ flow' \in Flows /\ FlowOK(flow') /\ Vouched(flow)'
FlowInv == PastType /\ flow \in Flows /\ FlowOK(flow) /\ Vouched(flow) /\ device \in [required : BOOLEAN, fixed : Addresses]

(* Dropping a question changes no other field.                             *)
LEMMA Unasked ==
  ASSUME NEW f \in Flows
  PROVE  /\ unasked(f) \in Flows
         /\ unasked(f).asked = None /\ unasked(f).status = "idle"
         /\ \A field \in {"step", "mode", "locked", "words", "revealed", "joinPhrase", "joinServer", "invited",
                         "joiner", "address"} : unasked(f)[field] = f[field]
<1>1. unasked(f) \in Flows  BY DEF Flows, unasked, Asked
<1> QED  BY <1>1 DEF Flows, unasked

(* What a server is asked about: an address and words.                     *)
LEMMA AskingTyped == ASSUME NEW f \in Flows PROVE asking(f) \in Asked
  BY DEF Flows, asking, Asked, Words, Brought

(* Asking a server leaves the flow's fields in their types.                *)
LEMMA CheckTyped == ASSUME NEW f \in Flows PROVE checkServer(f) \in Flows
<1>1. asking(f) \in Asked  BY AskingTyped
<1>2. unasked(f) \in Flows  BY Unasked
<1> QED  BY <1>1, <1>2 DEF Flows, checkServer

(* Asking a server records the question about what is entered, and changes *)
(* no field but the question, the answer and the status.                   *)
LEMMA CheckAsks ==
  ASSUME NEW f \in Flows
  PROVE  /\ checkServer(f).asked = asking(checkServer(f)) /\ checkServer(f).status = "checking"
         /\ \A field \in {"step", "mode", "locked", "words", "revealed", "joinPhrase", "joinServer", "invited", "joiner", "address"} :
              checkServer(f)[field] = f[field]
<1>1. asking(f) \in Asked  BY AskingTyped
<1> QED  BY <1>1 DEF Flows, checkServer, asking, unasked

(* Taps that only turn the page.                                           *)
LEMMA Turning ==
  ASSUME FlowInv, NEW to \in Flows, FlowOK(to), Turns(to), app.at = "flow", to.locked = flow.locked,
         to.step \in NewSteps => to.step = flow.step /\ to.words = flow.words,
         to.step = "phrase" /\ to.revealed => flow.revealed,
         to.status = "found" => to.about \in past.vouched,
         to.step = "join-received" \/ (to.step = "create-code" /\ to.mode = "join")
            => <<to.joinServer, to.joinPhrase>> \in past.vouched
  PROVE  Moves
<1>1. flow' = to /\ past' = past  BY DEF Turns, OnlyScreen
<1>2. FlowMove  BY <1>1 DEF FlowMove, Turns, OnlyScreen, FlowInv, PastType, NewSteps
<1>3. Vouched(flow)'  BY <1>1 DEF Vouched
<1> QED  BY <1>1, <1>2, <1>3 DEF Moves

(* Taps that change the step alone.                                        *)
LEMMA Going ==
  ASSUME FlowInv, NEW step \in Step, Goes(step), app.at = "flow", FlowOK([flow EXCEPT !.step = step]),
           step \notin NewSteps,
         step = "join-received" \/ (step = "create-code" /\ flow.mode = "join") => <<flow.joinServer,
                                                            flow.joinPhrase>> \in past.vouched
  PROVE  Moves
<1> DEFINE to == [flow EXCEPT !.step = step]
<1>1. to \in Flows /\ to.step = step /\ to.locked = flow.locked /\ to.status = flow.status /\ to.about = flow.about
      /\ to.mode = flow.mode /\ to.joinServer = flow.joinServer /\ to.joinPhrase = flow.joinPhrase
  BY DEF FlowInv, Flows
<1>2. flow.status = "found" => flow.about \in past.vouched  BY DEF FlowInv, Vouched
<1> HIDE DEF to
<1>3. Turns(to)  BY DEF Goes, to
<1>4. FlowOK(to)  BY DEF to
<1> QED  BY <1>1, <1>2, <1>3, <1>4, Turning DEF NewSteps

(* Taps that show a server screen and ask the server again.                *)
LEMMA CheckingMoves ==
  ASSUME FlowInv, NEW f \in Flows, FlowOK(f), f.locked = flow.locked, app.at = "flow", Turns(checkServer(f)),
         f.step \in {"server", "join-server"}, f.step = "server" => flow.step = "server" /\ f.words = flow.words
  PROVE  Moves
<1> DEFINE to == checkServer(f)
<1>1. to \in Flows /\ to.step = f.step /\ to.words = f.words /\ to.locked = f.locked /\ to.status = "checking"
      /\ to.mode = f.mode /\ to.joiner = f.joiner /\ to.invited = f.invited /\ to.joinPhrase = f.joinPhrase
      /\ to.asked = asking(to)
  BY CheckTyped, CheckAsks
<1> HIDE DEF to
<1>2. FlowOK(to)
  BY <1>1 DEF FlowOK, Asking, NewSteps, JoinSteps
<1>3. Turns(to)  BY DEF to
<1>4. to.step \in {"server", "join-server"} /\ to.locked = flow.locked
      /\ (to.step = "server" => flow.step = "server" /\ to.words = flow.words)
  BY <1>1
<1>5. to.step \in NewSteps => to.step = flow.step /\ to.words = flow.words
  BY <1>4 DEF NewSteps
<1> QED  BY <1>1, <1>2, <1>3, <1>4, <1>5, Turning

(* The server screen of a join, whose address is fixed by the build or     *)
(* entered.                                                                *)
LEMMA ShowsJoinServer ==
  ASSUME FlowInv, NEW f \in Flows, f.mode = "join", ~f.joiner, ~f.invited, f.joinPhrase # None,
         f.locked = flow.locked, app.at = "flow", Turns(showJoinServer(f))
  PROVE  Moves
<1>1. CASE device.fixed = None
  <2> DEFINE u == unasked(f)
             to == [u EXCEPT !.step = "join-server"]
  <2>0. /\ u \in Flows /\ u.asked = None /\ u.status = "idle" /\ u.locked = f.locked /\ u.mode = f.mode
        /\ u.joiner = f.joiner /\ u.invited = f.invited /\ u.joinPhrase = f.joinPhrase
    BY Unasked
  <2> HIDE DEF u
  <2>1. to \in Flows /\ to.step = "join-server" /\ to.locked = f.locked /\ to.status = "idle"
        /\ to.mode = f.mode /\ to.joiner = f.joiner /\ to.invited = f.invited /\ to.joinPhrase = f.joinPhrase
        /\ to.asked = None
    BY <2>0 DEF Flows, Step
  <2>3. Turns(to)  BY <1>1 DEF showJoinServer, u
  <2> HIDE DEF to
  <2>4. FlowOK(to)  BY <2>1 DEF FlowOK, Asking, NewSteps, JoinSteps
  <2> QED  BY <2>1, <2>3, <2>4, Turning DEF NewSteps
<1>2. CASE device.fixed # None
  <2> DEFINE g == [f EXCEPT !.step = "join-server", !.address = device.fixed]
  <2>1. g \in Flows /\ g.step = "join-server" /\ g.locked = f.locked
        /\ g.mode = f.mode /\ g.joiner = f.joiner /\ g.invited = f.invited /\ g.joinPhrase = f.joinPhrase
    BY <1>2 DEF FlowInv, Addresses, Flows, Step
  <2>3. Turns(checkServer(g))  BY <1>2 DEF showJoinServer
  <2> HIDE DEF g
  <2> DEFINE to == checkServer(g)
  <2>4. to \in Flows /\ to.step = g.step /\ to.words = g.words /\ to.locked = g.locked /\ to.status = "checking"
        /\ to.mode = g.mode /\ to.joiner = g.joiner /\ to.invited = g.invited /\ to.joinPhrase = g.joinPhrase
        /\ to.asked = asking(to)
    BY <2>1, CheckTyped, CheckAsks
  <2> HIDE DEF to
  <2>5. FlowOK(to)  BY <2>1, <2>4 DEF FlowOK, Asking, NewSteps, JoinSteps
  <2>6. Turns(to)  BY <2>3 DEF to
  <2> QED  BY <2>1, <2>4, <2>5, <2>6, Turning DEF NewSteps
<1> QED  BY <1>1, <1>2

(* An address entered or asked about again.                                *)
LEMMA AddressMoves ==
  ASSUME FlowInv, (\E server \in Server : SetAddress(server)) \/ CheckServer
  PROVE  Moves
<1>1. ASSUME NEW server \in Server, SetAddress(server) PROVE Moves
  <2> DEFINE u == unasked(flow)
             to == [u EXCEPT !.address = server]
  <2>0. /\ u \in Flows /\ u.asked = None /\ u.status = "idle" /\ u.locked = flow.locked /\ u.mode = flow.mode
        /\ u.joiner = flow.joiner /\ u.invited = flow.invited /\ u.joinPhrase = flow.joinPhrase
        /\ u.step = flow.step /\ u.words = flow.words /\ u.revealed = flow.revealed
    BY Unasked DEF FlowInv
  <2> HIDE DEF u
  <2>1. to \in Flows /\ to.step = flow.step /\ to.locked = flow.locked /\ to.status = "idle" /\ to.words = flow.words
        /\ to.mode = flow.mode /\ to.joiner = flow.joiner /\ to.invited = flow.invited /\ to.joinPhrase = flow.joinPhrase
        /\ to.asked = None /\ to.revealed = flow.revealed
    BY <2>0 DEF Flows, Addresses
  <2>2. Turns(to) /\ app.at = "flow" /\ flow.step \in {"server", "join-server"}
    BY <1>1 DEF SetAddress, OnServer, On, u
  <2> HIDE DEF to
  <2>3. FlowOK(to)  BY <2>1, <2>2 DEF FlowInv, FlowOK, Asking, NewSteps, JoinSteps
  <2> QED  BY <2>1, <2>2, <2>3, Turning DEF NewSteps
<1>2. CASE CheckServer
  BY <1>2, CheckingMoves DEF CheckServer, OnServer, On, FlowInv
<1> QED  BY <1>1, <1>2

(* A late answer: it is kept with the question it answers.                 *)
LEMMA AnswerMoves ==
  ASSUME FlowInv, NEW status \in {"found", "empty", "refused"}, ServerAnswers(status)
  PROVE  Moves
<1> DEFINE to == [flow EXCEPT !.asked = None, !.status = status, !.about = flow.asked]
<1>1. to \in Flows /\ to.step = flow.step /\ to.locked = flow.locked /\ to.status = status /\ to.words = flow.words
      /\ to.mode = flow.mode /\ to.joiner = flow.joiner /\ to.invited = flow.invited /\ to.joinPhrase = flow.joinPhrase
      /\ to.asked = None /\ to.about = flow.asked /\ to.revealed = flow.revealed /\ asking(to) = asking(flow)
      /\ to.joinServer = flow.joinServer
  BY DEF FlowInv, Flows, asking, Asked
<1>2. flow' = to /\ app.at = "flow" /\ flow.asked # None
      /\ past' = (IF status = "found" THEN [past EXCEPT !.vouched = @ \cup {flow.asked}] ELSE past)
  BY DEF ServerAnswers
<1> HIDE DEF to
<1>3. FlowOK(to)  BY <1>1, <1>2 DEF FlowInv, FlowOK, Asking, NewSteps, JoinSteps
<1>4. past' = [past EXCEPT !.revealed = past'.revealed, !.vouched = past'.vouched]
      /\ past.revealed \subseteq past'.revealed /\ past.vouched \subseteq past'.vouched
      /\ (status = "found" => flow.asked \in past'.vouched)
  BY <1>2 DEF FlowInv, PastType
<1>5. FlowMove  BY <1>1, <1>2, <1>4 DEF FlowMove, ServerAnswers
<1>6. Vouched(flow)'  BY <1>1, <1>2, <1>4 DEF FlowInv, Vouched
<1> QED  BY <1>1, <1>2, <1>3, <1>5, <1>6 DEF Moves

(* The phrase uncovered, and counted among the revealed ones.              *)
LEMMA RevealMoves ==
  ASSUME FlowInv, Reveal PROVE Moves
<1> DEFINE to == [flow EXCEPT !.revealed = TRUE]
<1>1. to \in Flows /\ to.step = flow.step /\ to.locked = flow.locked /\ to.words = flow.words
      /\ to.mode = flow.mode /\ to.status = flow.status /\ to.about = flow.about
  BY DEF FlowInv, Flows
<1>2. flow' = to /\ app.at = "flow" /\ flow.step = "phrase" /\ past' = [past EXCEPT !.revealed = @ \cup {flow.words}]
  BY DEF Reveal, On
<1>3. FlowOK(to)  BY <1>2 DEF FlowInv, FlowOK, Asking, NewSteps, JoinSteps, Flows
<1> HIDE DEF to
<1>4. past' = [past EXCEPT !.revealed = past'.revealed, !.vouched = past'.vouched]
      /\ past.revealed \subseteq past'.revealed /\ past.vouched = past'.vouched /\ flow.words \in past'.revealed
  BY <1>2 DEF FlowInv, PastType
<1>5. FlowMove  BY <1>1, <1>2, <1>4 DEF FlowMove, Reveal
<1>6. Vouched(flow)'  BY <1>1, <1>2, <1>4 DEF FlowInv, Vouched
<1> QED  BY <1>1, <1>2, <1>3, <1>5, <1>6 DEF Moves

(* The taps of a join that ask for nothing.                                *)
LEMMA JoinMoves ==
  ASSUME FlowInv,
         ChooseJoin \/ JoinByPhrase \/ JoinByInvitation \/ EnterCodeManually \/ StartJoiner
  PROVE  Moves
<1> DEFINE Is(to) == /\ to \in Flows /\ FlowOK(to) /\ Turns(to) /\ to.locked = flow.locked
                     /\ to.step \in JoinSteps \ {"join-received"} /\ to.status = flow.status /\ to.about = flow.about
<1>0. flow \in Flows /\ FlowOK(flow)  BY DEF FlowInv
<1>1. ASSUME NEW to, Is(to), app.at = "flow" PROVE Moves
  BY <1>1, Turning DEF FlowInv, Vouched, JoinSteps, NewSteps
<1>2. CASE ChooseJoin
  <2>1. Is([flow EXCEPT !.mode = "join", !.step = "join-method"])
    BY <1>0, <1>2 DEF ChooseJoin, On, Flows, FlowOK, Asking, NewSteps, JoinSteps, Step
  <2> QED  BY <2>1, <1>1, <1>2 DEF ChooseJoin, On
<1>3. CASE JoinByPhrase
  <2>1. Is([flow EXCEPT !.step = "join-phrase"])
    BY <1>0, <1>3 DEF JoinByPhrase, On, Goes, Flows, FlowOK, Asking, NewSteps, JoinSteps, Step
  <2> QED  BY <2>1, <1>1, <1>3 DEF JoinByPhrase, On
<1>4. CASE JoinByInvitation
  <2>1. PICK step \in {"join-scan", "join-code"} : Goes(step)  BY <1>4 DEF JoinByInvitation
  <2>2. Is([flow EXCEPT !.step = step])
    BY <2>1, <1>0, <1>4 DEF JoinByInvitation, On, Goes, Flows, FlowOK, Asking, NewSteps, JoinSteps, Step
  <2> QED  BY <2>2, <1>1, <1>4 DEF JoinByInvitation, On
<1>5. CASE EnterCodeManually
  <2>1. Is([flow EXCEPT !.step = "join-code"])
    BY <1>0, <1>5 DEF EnterCodeManually, On, Goes, Flows, FlowOK, Asking, NewSteps, JoinSteps, Step
  <2> QED  BY <2>1, <1>1, <1>5 DEF EnterCodeManually, On
<1>6. CASE StartJoiner
  <2>1. Is([flow EXCEPT !.joiner = TRUE, !.step = "join-compare"])
    BY <1>0, <1>6 DEF StartJoiner, On, Flows, FlowOK, Asking, NewSteps, JoinSteps, Step
  <2> QED  BY <2>1, <1>1, <1>6 DEF StartJoiner, On
<1> QED  BY <1>2, <1>3, <1>4, <1>5, <1>6

(* A phrase entered: the answer about the last one is dropped with it.     *)
LEMMA PhraseNextMoves ==
  ASSUME FlowInv, NEW phrase \in Brought, PhraseNext(phrase) PROVE Moves
<1> DEFINE f == [flow EXCEPT !.joinPhrase = phrase, !.invited = FALSE]
<1>0. flow \in Flows /\ FlowOK(flow)  BY DEF FlowInv
<1>1. f \in Flows /\ f.locked = flow.locked /\ f.joinPhrase = phrase /\ ~f.invited /\ f.mode = flow.mode
      /\ f.joiner = flow.joiner
  BY <1>0 DEF Flows
<1>2. Turns(showJoinServer(f)) /\ app.at = "flow" /\ flow.step = "join-phrase"  BY DEF PhraseNext, On
<1>3. phrase # None  BY LockAssumption DEF Brought
<1>4. flow.mode = "join" /\ ~flow.joiner  BY <1>0, <1>2 DEF FlowOK, JoinSteps
<1> HIDE DEF f
<1> QED  BY ShowsJoinServer, <1>1, <1>2, <1>3, <1>4

(* What the inviting device names, with its vault vouched for.             *)
LEMMA PayloadMoves ==
  ASSUME FlowInv, NEW phrase \in Brought, NEW server \in Server, PayloadArrives(phrase, server) PROVE Moves
<1> DEFINE at == IF device.fixed = None THEN server ELSE device.fixed
           to == [flow EXCEPT !.joinPhrase = phrase, !.joinServer = at, !.invited = TRUE,
                              !.joiner = FALSE, !.step = "join-received"]
<1>0. flow \in Flows /\ FlowOK(flow) /\ at \in Addresses  BY DEF FlowInv, Addresses
<1>1. flow' = to /\ app.at = "flow" /\ flow.joiner /\ past' = [past EXCEPT !.vouched = @ \cup {<<at, phrase>>}]
  BY DEF PayloadArrives
<1>2. phrase # None /\ flow.mode = "join"  BY <1>0, <1>1, LockAssumption DEF Brought, FlowOK, JoinSteps
<1>3. to \in Flows /\ to.locked = flow.locked /\ to.step = "join-received" /\ to.joinServer = at /\ to.joinPhrase = phrase
      /\ to.status = flow.status /\ to.about = flow.about /\ to.invited /\ ~to.joiner /\ to.mode = flow.mode
  BY <1>0 DEF Flows, Step
<1> HIDE DEF to, at
<1>4. FlowOK(to)  BY <1>2, <1>3 DEF FlowOK, Asking, NewSteps, JoinSteps
<1>5. past' = [past EXCEPT !.revealed = past'.revealed, !.vouched = past'.vouched]
      /\ past.revealed \subseteq past'.revealed /\ past.vouched \subseteq past'.vouched /\ <<at,
                                                                                           phrase>> \in past'.vouched
  BY <1>1 DEF FlowInv, PastType
<1>6. FlowMove  BY <1>1, <1>3, <1>5 DEF FlowMove, PayloadArrives, NewSteps
<1>7. Vouched(flow)'  BY <1>1, <1>3, <1>5 DEF FlowInv, Vouched
<1> QED  BY <1>1, <1>3, <1>4, <1>6, <1>7 DEF Moves

(* Back, from every screen but the check of the phrase.                    *)
LEMMA BackMoves ==
  ASSUME FlowInv, Back, ~On("check") PROVE Moves
<1>0. flow \in Flows /\ FlowOK(flow) /\ Vouched(flow)  BY DEF FlowInv
<1>1. CASE On("create-code") /\ ~flow.locked
     /\ Goes(IF flow.mode # "join" THEN "welcome"
             ELSE IF flow.joinPhrase # None /\ flow.invited THEN "join-received" ELSE "join-server")
  <2>1. CASE flow.mode # "join"
    BY <1>0, <1>1, <2>1, Going DEF On, Flows, FlowOK, Asking, NewSteps, JoinSteps, Step
  <2>2. CASE flow.mode = "join" /\ flow.invited
    <3>1. FlowOK([flow EXCEPT !.step = "join-received"]) /\ Goes("join-received")
      BY <1>0, <1>1, <2>2 DEF On, Flows, FlowOK, Asking, NewSteps, JoinSteps
    <3> QED  BY <1>0, <1>1, <2>2, <3>1, Going DEF On, NewSteps, Step, Vouched
  <2>3. CASE flow.mode = "join" /\ ~flow.invited
    <3>1. FlowOK([flow EXCEPT !.step = "join-server"]) /\ Goes("join-server")
      BY <1>0, <1>1, <2>3 DEF On, Flows, FlowOK, Asking, NewSteps, JoinSteps, asking
    <3> QED  BY <1>0, <1>1, <2>3, <3>1, Going DEF On, NewSteps, Step
  <2> QED  BY <2>1, <2>2, <2>3
<1>2. CASE On("phrase") /\ Goes("welcome")
  BY <1>0, <1>2, Going DEF On, Flows, FlowOK, Asking, NewSteps, JoinSteps, Step
<1>3. CASE On("join-method") /\ Turns([flow EXCEPT !.mode = "new", !.step = "welcome"])
  <2> DEFINE to == [flow EXCEPT !.mode = "new", !.step = "welcome"]
  <2>1. to \in Flows /\ FlowOK(to) /\ to.step = "welcome" /\ to.locked = flow.locked /\ to.status = flow.status /\ to.about = flow.about
    BY <1>0, <1>3 DEF On, Flows, FlowOK, Asking, NewSteps, JoinSteps, Step
  <2> QED  BY <1>0, <1>3, <2>1, Turning DEF On, NewSteps, Vouched
<1>4. CASE \E step \in {"join-phrase", "join-scan"} : On(step) /\ Goes("join-method")
  BY <1>0, <1>4, Going DEF On, Flows, FlowOK, Asking, NewSteps, JoinSteps, Step
<1>5. CASE On("join-server") /\ Goes("join-phrase")
  BY <1>0, <1>5, Going DEF On, Flows, FlowOK, Asking, NewSteps, JoinSteps, Step
<1>6. CASE On("join-code") /\ \E step \in {"join-scan", "join-method"} : Goes(step)
  BY <1>0, <1>6, Going DEF On, Flows, FlowOK, Asking, NewSteps, JoinSteps, Step
<1>7. CASE On("join-compare") /\ Turns([flow EXCEPT !.joiner = FALSE, !.step = "join-method"])
  <2> DEFINE to == [flow EXCEPT !.joiner = FALSE, !.step = "join-method"]
  <2>1. to \in Flows /\ FlowOK(to) /\ to.step = "join-method" /\ to.locked = flow.locked /\ to.status = flow.status /\ to.about = flow.about
    BY <1>0, <1>7 DEF On, Flows, FlowOK, Asking, NewSteps, JoinSteps, Step
  <2> QED  BY <1>0, <1>7, <2>1, Turning DEF On, NewSteps, Vouched
<1> QED  BY <1>1, <1>2, <1>3, <1>4, <1>5, <1>6, <1>7 DEF Back

-----------------------------------------------------------------------------
(* The kinds of step.                                                      *)
Starts(name, writes, a, f) ==
  /\ ~Writing
  /\ job' = [writes |-> writes, does |-> name, from |-> store, app |-> a, flow |-> f]
  /\ UNCHANGED <<store, staged, device, record, app, flow>>

Unlockable == (app.at = "closed" /\ ~hasVerifier(store)) \/ app.at = "opened"

FirstRuns ==
  /\ Unlockable /\ get(app.store) = None /\ record' = NoRecord
  /\ app' = InFlow(app.store) /\ flow' = [NoFlow EXCEPT !.locked = (app.at = "opened")]
Readies ==
  /\ Unlockable /\ get(app.store) # None
  /\ get(app.store) \in Phrase => record.kind # "new"
  /\ app' = Ready(app.store, get(app.store)) /\ UNCHANGED <<flow, record>>
AsksSetup ==
  /\ app.at = "closed" /\ ~hasVerifier(store) /\ record.kind # "new"
  /\ app' = [at |-> "setup", store |-> Plain] /\ UNCHANGED <<flow, record>>
AsksCode ==
  /\ app.at = "closed" /\ hasVerifier(store)
  /\ app' = [at |-> "unlock", store |-> Plain] /\ UNCHANGED <<flow, record>>
Opens ==
  /\ app.at = "unlock" /\ \E code \in Codes : opens(store, code) /\ app' = [at |-> "opened", store |-> Locked(code)]
  /\ UNCHANGED <<flow, record>>
Gate ==
  /\ ~Writing /\ UNCHANGED <<store, staged, salts, device, job, past>>
  /\ FirstRuns \/ Readies \/ AsksSetup \/ AsksCode \/ Opens

Resumes ==
  /\ Unlockable /\ record.kind = "new" /\ get(app.store) # None
  /\ app.at = "opened" => get(app.store) \in Phrase
  /\ Starts("resume", {WriteRecord(New(record.step))}, InFlow(app.store),
            shows(record.step, [NoFlow EXCEPT !.locked = (app.at = "opened"), !.words = get(app.store)]))
  /\ UNCHANGED <<salts, past>>

Draws(p) ==
  /\ get(app.store) = None /\ p \in Minted \ past.minted
  /\ past' = [past EXCEPT !.minted = @ \cup {p}]
  /\ Starts("begin", {set(app.store, p), WriteRecord(New("phrase"))}, InFlow(app.store),
            showPhrase([flow EXCEPT !.words = p]))
Redraws ==
  /\ get(app.store) # None /\ UNCHANGED past
  /\ Starts("begin", {WriteRecord(New("phrase"))}, InFlow(app.store),
            showPhrase([flow EXCEPT !.words = get(app.store)]))
Begins ==
  /\ app.at = "flow" /\ flow.step \in {"welcome", "create-code"} /\ flow.locked /\ flow.mode = "new"
  /\ (\E p \in Minted : Draws(p)) \/ Redraws
  /\ UNCHANGED salts

TurnsFrom(name, from, to) ==
  /\ app.at = "flow" /\ flow.step = from
  /\ Starts(name, {WriteRecord(New(to))}, InFlow(app.store), shows(to, flow))
  /\ UNCHANGED <<salts, past>>
Pages ==
  \/ TurnsFrom("back", "check", "phrase")
  \/ TurnsFrom("written", "phrase", "check") /\ flow.revealed
  \/ TurnsFrom("checked", "check", "server")

Finishes ==
  /\ app.at = "flow" /\ flow.step = "server" /\ UNCHANGED <<salts, past>>
  /\ \E to \in {Connect(flow.address), NoRecord} :
       Starts("finish", {WriteRecord(to)}, Ready(app.store, get(app.store)), NoFlow)
Joins ==
  /\ app.at = "flow" /\ flow.locked /\ flow.mode = "join" /\ UNCHANGED <<salts, past>>
  /\ \E p \in Brought, server \in Addresses :
       /\ <<server, p>> \in past.vouched
       /\ Starts("join", {set(app.store, p), WriteRecord(Join(server))}, Ready(app.store, p), NoFlow)
Replaces ==
  /\ app.at = "running" /\ UNCHANGED <<salts, past>>
  /\ \E p \in Brought : Starts("replace", {set(app.store, p)}, Closed, NoFlow)

Enables ==
  /\ DrawsSalt /\ UNCHANGED past
  /\ \E code \in Six :
       \/ app.at = "setup" /\ Starts("enable", enableDeviceLock(code),
                                     Ready([code |-> code, salt |-> salts + 1], store[Identity]), flow)
       \/ app.at = "flow" /\ flow.step = "create-code" /\ ~flow.locked
          /\ Starts("enable", enableDeviceLock(code), InFlow([code |-> code, salt |-> salts + 1]),
                    [flow EXCEPT !.locked = TRUE])
       \/ app.at = "running" /\ ~hasVerifier(store) /\ Starts("enable", enableDeviceLock(code), Closed, NoFlow)
Changes ==
  /\ app.at = "running" /\ DrawsSalt /\ UNCHANGED past /\ hasVerifier(store)
  /\ \E code \in Codes : opens(store, code)
  /\ \E code \in Six : Starts("change", changeUnlockCode(code), Closed, NoFlow)
Disables ==
  /\ app.at = "running" /\ UNCHANGED <<salts, past>> /\ hasVerifier(store) /\ ~device.required
  /\ \E code \in Codes : opens(store, code)
  /\ Starts("disable", disableDeviceLock, Closed, NoFlow)
Erases ==
  /\ app.at = "unlock" /\ UNCHANGED <<salts, past>>
  /\ Starts("reset", resetDeviceKeyStore \cup {WriteRecord(NoRecord)}, Closed, NoFlow)
MarksShape ==
  /\ UNCHANGED salts
  /\ \E code \in Six :
       /\ opens(store, code)
       /\ Starts("unlock", {Put(1, "store", CODE_SHAPE_ENTRY, DIGITS_6)}, [at |-> "opened", store |-> Locked(code)], flow)
FillsSalt ==
  /\ store[SALT_ENTRY] = None /\ DrawsSalt
  /\ Starts("unlock", {Put(1, "store", SALT_ENTRY, salts + 1)}, app, flow)
Unlocks == app.at = "unlock" /\ UNCHANGED past /\ (MarksShape \/ FillsSalt)

Adopts ==
  /\ app.at = "running" /\ ~Writing /\ record.kind \in {"connect", "join"} /\ record' = NoRecord
  /\ UNCHANGED <<store, staged, salts, device, app, flow, job, past>>

SimpleTap == Resumes \/ Begins \/ Pages \/ Finishes \/ Joins \/ Replaces
LockTap == Enables \/ Changes \/ Disables

-----------------------------------------------------------------------------
(* get() returns null exactly when there is no entry, and a phrase only    *)
(* when the entry is that phrase as the view would have written it.        *)
LEMMA GetOf ==
  ASSUME NEW view, Typed
  PROVE  /\ get(view) \in Words
         /\ get(view) = None <=> store[Identity] = None
         /\ \A p \in Phrase : get(view) = p => store[Identity] = (IF view = Plain THEN p ELSE sealed(p, view.code, view.salt))
<1>1. None \notin Phrase /\ Unreadable # None /\ Unreadable \notin Phrase
  BY LockAssumption
<1> DEFINE Is(p) == store[Identity] = (IF view = Plain THEN p ELSE sealed(p, view.code, view.salt))
<1>2. CASE store[Identity] = None
  BY <1>1, <1>2 DEF get, Words
<1>3. CASE store[Identity] # None /\ \E p \in Phrase : Is(p)
  <2> DEFINE c == CHOOSE p \in Phrase : Is(p)
  <2>1. c \in Phrase /\ Is(c)  BY <1>3
  <2>2. get(view) = c  BY <1>3 DEF get
  <2> QED  BY <2>1, <2>2, <1>1, <1>3 DEF Words
<1>4. CASE store[Identity] # None /\ ~\E p \in Phrase : Is(p)
  <2>1. get(view) = Unreadable  BY <1>4 DEF get
  <2> QED  BY <2>1, <1>1, <1>4 DEF Words
<1> QED  BY <1>2, <1>3, <1>4

(* A ciphertext has its type, and is neither null nor a phrase.            *)
LEMMA SealedTyped ==
  ASSUME NEW n \in 0 .. MaxSalts, NEW value \in Phrase \cup {CHECK_VALUE, Unreadable}, NEW code \in Codes,
           NEW salt \in 1 .. n
  PROVE  /\ sealed(value, code, salt) \in Ciphered(n)
         /\ sealed(value, code, salt) # None /\ sealed(value, code, salt) \notin Phrase
<1>1. MaxSalts \in Nat /\ salt \in 1 .. MaxSalts  BY LockAssumption
<1>2. sealed(value, code, salt) \in Ciphertext  BY <1>1 DEF sealed, Ciphertext
<1>3. sealed(value, code, salt) \in Ciphered(n)  BY DEF sealed, Ciphered
<1> QED  BY <1>2, <1>3, LockAssumption

(* get() reads what the view would have written.                           *)
LEMMA GetIs ==
  ASSUME Typed, NEW view \in View(salts), NEW p \in Phrase,
         store[Identity] = IF view = Plain THEN p ELSE sealed(p, view.code, view.salt)
  PROVE  get(view) = p
<1> DEFINE Is(q) == store[Identity] = (IF view = Plain THEN q ELSE sealed(q, view.code, view.salt))
<1>1. \A q \in Phrase : Is(q) => q = p
  BY DEF sealed
<1>2. Is(p)  OBVIOUS
<1>3. store[Identity] # None
  <2>1. CASE view = Plain  BY <2>1, LockAssumption
  <2>2. CASE view # Plain  BY <2>2, SealedTyped DEF View, Typed
  <2> QED  BY <2>1, <2>2
<1> HIDE DEF Is
<1>4. (CHOOSE q \in Phrase : Is(q)) = p  BY <1>1, <1>2
<1>5. get(view) = CHOOSE q \in Phrase : Is(q)  BY <1>2, <1>3 DEF get, Is
<1> QED  BY <1>4, <1>5

-----------------------------------------------------------------------------
(* Which kind each action is.                                              *)
LEMMA BootKind == ASSUME Typed, Boot PROVE Gate \/ Resumes
<1>1. app.at = "closed" /\ app.store = Plain /\ ~Writing  BY DEF Boot, Typed, Screen
<1>2. get(Plain) = None <=> store[Identity] = None  BY GetOf
<1>3. CASE hasVerifier(store)
  BY <1>1, <1>3 DEF Boot, Gate, AsksCode
<1>4. CASE ~hasVerifier(store) /\ store[Identity] = None
  BY <1>1, <1>2, <1>4 DEF Boot, Gate, FirstRuns, FirstRun, Unlockable
<1>5. CASE ~hasVerifier(store) /\ store[Identity] # None /\ record.kind = "new"
  BY <1>1, <1>2, <1>5 DEF Boot, Resumes, Resume, Shows, Does, Starts, Unlockable
<1>6. CASE ~hasVerifier(store) /\ store[Identity] # None /\ record.kind # "new"
  BY <1>1, <1>2, <1>6 DEF Boot, Gate, AsksSetup, Readies, Unlockable
<1> QED  BY <1>3, <1>4, <1>5, <1>6

(* The gate past the unlock screen.                                        *)
LEMMA OpenedKind == ASSUME Typed, Opened PROVE Gate \/ Resumes
<1>1. app.at = "opened" /\ ~Writing  BY DEF Opened
<1>2. get(app.store) \in Words  BY GetOf
<1>3. Unreadable # None /\ Unreadable \notin Phrase  BY LockAssumption
<1>4. CASE get(app.store) = None
  BY <1>1, <1>4 DEF Opened, Gate, FirstRuns, FirstRun, Unlockable
<1>5. CASE get(app.store) # None /\ get(app.store) # Unreadable /\ record.kind = "new"
  BY <1>1, <1>2, <1>5 DEF Opened, Resumes, Resume, Shows, Does, Starts, Unlockable, Words
<1>6. CASE get(app.store) # None /\ ~(get(app.store) # Unreadable /\ record.kind = "new")
  BY <1>1, <1>3, <1>6 DEF Opened, Gate, Readies, Unlockable
<1> QED  BY <1>4, <1>5, <1>6

(* The unlock screen's answer.                                             *)
LEMMA UnlockKind ==
  ASSUME Typed, NEW code \in Codes, Unlock(code) PROVE Gate \/ Unlocks \/ UNCHANGED vars
<1>0. app.at = "unlock" /\ ~Writing /\ (opens(store, code) => store[SALT_ENTRY] # None)
  BY DEF Unlock, opens
<1>1. CASE opens(store, code) /\ code \in Six /\ getCodeShape(store) = "legacy"
  <2>1. unlockWrites(code) = {Put(1, "store", CODE_SHAPE_ENTRY, DIGITS_6)}
    BY <1>1 DEF unlockWrites, isUnlockCodeValid
  <2> QED  BY <2>1, <1>0, <1>1 DEF Unlock, Does, Unlocks, MarksShape, Starts
<1>2. CASE opens(store, code) /\ ~(code \in Six /\ getCodeShape(store) = "legacy")
  <2>1. unlockWrites(code) = {}
    BY <1>0, <1>2 DEF unlockWrites, saltWrites, isUnlockCodeValid
  <2> QED  BY <2>1, <1>0, <1>2 DEF Unlock, Does, Gate, Opens
<1>3. CASE ~opens(store, code) /\ store[SALT_ENTRY] = None
  <2>1. unlockWrites(code) = {Put(1, "store", SALT_ENTRY, salts + 1)}
    BY <1>3 DEF unlockWrites, saltWrites
  <2> QED  BY <2>1, <1>0, <1>3 DEF Unlock, Does, Unlocks, FillsSalt, Starts
<1>4. CASE ~opens(store, code) /\ store[SALT_ENTRY] # None
  <2>1. unlockWrites(code) = {}
    BY <1>4 DEF unlockWrites, saltWrites
  <2> QED  BY <2>1, <1>0, <1>4 DEF Unlock, Does, vars
<1> QED  BY <1>0, <1>1, <1>2, <1>3, <1>4

(* The erase.                                                              *)
LEMMA EraseKind == ASSUME Erase PROVE Erases
<1>1. resetDeviceKeyStore \cup {WriteRecord(NoRecord)} # {}  OBVIOUS
<1> QED  BY <1>1 DEF Erase, Erases, Does, Starts, OnlyScreen

(* Every plan of the lock has something to write.                          *)
LEMMA PlansWrite ==
  ASSUME NEW code PROVE enableDeviceLock(code) # {} /\ changeUnlockCode(code) # {} /\ disableDeviceLock # {}
<1>1. ASSUME NEW phrase, NEW order PROVE promoteStaged(generation(phrase, code), order) # {}
  <2> DEFINE next == generation(phrase, code)
  <2>1. next[CODE_SHAPE_ENTRY] = DIGITS_6
    BY DEF generation, generated, Name, RESERVED, CODE_SHAPE_ENTRY, SALT_ENTRY, CHECK_ENTRY, Identity
  <2>2. CODE_SHAPE_ENTRY \in Held(next)
    BY <2>1, LockAssumption DEF Held, Name, RESERVED
  <2> QED  BY <2>2 DEF promoteStaged, Promoted
<1> QED  BY <1>1 DEF enableDeviceLock, changeUnlockCode, disableDeviceLock

(* A lock set from the setup gate, the first run or the settings.          *)
LEMMA SetupKind ==
  ASSUME NEW code \in Codes, SetupLock(code) \/ CreateCode(code) \/ LockDevice(code) PROVE Enables
<1>0. enableDeviceLock(code) # {}  BY PlansWrite
<1>1. CASE SetupLock(code)
  BY <1>0, <1>1 DEF SetupLock, Enables, Does, Starts, isUnlockCodeValid
<1>2. CASE CreateCode(code)
  BY <1>0, <1>2 DEF CreateCode, Enables, Does, Starts, isUnlockCodeValid, On
<1>3. CASE LockDevice(code)
  BY <1>0, <1>3 DEF LockDevice, Enables, Does, Starts, isUnlockCodeValid, Running
<1> QED  BY <1>1, <1>2, <1>3

(* The Security page, and sync taking over the record.                     *)
LEMMA SettingsKind ==
  ASSUME NEW code \in Codes, NEW newCode \in Six
  PROVE  /\ ChangeCode(code, newCode) => Changes
         /\ RemoveLock(code) => Disables
         /\ EntryAdopted => Adopts
<1>0. changeUnlockCode(newCode) # {} /\ disableDeviceLock # {}  BY PlansWrite
<1>1. ChangeCode(code, newCode) => Changes
  BY <1>0 DEF ChangeCode, Changes, Does, Starts, Running
<1>2. RemoveLock(code) => Disables
  BY <1>0 DEF RemoveLock, Disables, Does, Starts, Running, OnlyScreen
<1>3. EntryAdopted => Adopts
  BY DEF EntryAdopted, Adopts, Running
<1> QED  BY <1>1, <1>2, <1>3

(* Another phrase put in the place of the device's.                        *)
LEMMA ReplaceKind == ASSUME NEW phrase \in Brought, ReplaceIdentity(phrase) PROVE Replaces
  BY DEF ReplaceIdentity, Replaces, Does, Starts, Running, OnlyScreen

(* A page of the new vault turned.                                         *)
LEMMA RecordsKind ==
  ASSUME (Back /\ On("check")) \/ WrittenDown \/ CheckNext PROVE Pages
<1>1. CASE Back /\ On("check")
  BY <1>1 DEF Back, On, Goes, Turns, Shows, Does, Starts, Pages, TurnsFrom, OnlyScreen
<1>2. CASE WrittenDown
  BY <1>2 DEF WrittenDown, On, Shows, Does, Starts, Pages, TurnsFrom, OnlyScreen
<1>3. CASE CheckNext
  BY <1>3 DEF CheckNext, On, Shows, Does, Starts, Pages, TurnsFrom, OnlyScreen
<1> QED  BY <1>1, <1>2, <1>3

(* The last page of the new vault.                                         *)
LEMMA FinishKind == ASSUME NEW withServer \in BOOLEAN, Finish(withServer) PROVE Finishes
  BY DEF Finish, On, Does, Starts, Finishes, OnlyScreen

(* A new vault begun, with a phrase drawn or the one there is.             *)
LEMMA BeginKind ==
  ASSUME Typed, FlowOK(flow), (ChooseNew /\ flow.locked) \/ (CodeCreated /\ flow.mode # "join")
  PROVE  Begins
<1>1. app.at = "flow" /\ ~Writing /\ flow.step \in {"welcome", "create-code"} /\ flow.locked /\ beginPhrase(app.store)
      /\ UNCHANGED <<store, staged, salts, device, record>>
  BY DEF ChooseNew, CodeCreated, On
<1>2. flow.mode = "new"
  BY <1>1 DEF FlowOK, Typed, Flows, NewSteps, ChooseNew, CodeCreated, On
<1>3. CASE get(app.store) = None
  <2>1. PICK p \in Minted \ past.minted :
         /\ past' = [past EXCEPT !.minted = @ \cup {p}]
         /\ Shows("begin", {set(app.store, p)}, "phrase", app.store, [flow EXCEPT !.words = p])
    BY <1>1, <1>3 DEF beginPhrase
  <2>2. {set(app.store, p)} \cup {WriteRecord(New("phrase"))} = {set(app.store, p), WriteRecord(New("phrase"))}
    OBVIOUS
  <2>3. Draws(p)
    BY <1>1, <1>3, <2>1, <2>2 DEF Draws, Shows, Does, Starts, shows
  <2> QED  BY <1>1, <1>2, <2>3 DEF Begins
<1>4. CASE get(app.store) # None
  BY <1>1, <1>2, <1>4 DEF beginPhrase, Shows, Does, Starts, shows, Begins, Redraws
<1> QED  BY <1>3, <1>4

(* The code is made next, or the phrase is joined with.                    *)
LEMMA ToCodeKind ==
  ASSUME FlowInv, NEW f \in Flows, app.at = "flow", ~Writing, f.locked = flow.locked, flow.mode = "join",
           f.mode = "join",
         ~f.joiner, f.joinPhrase # None,
         <<f.joinServer, f.joinPhrase>> \in past.vouched, f.status = "found" => f.about \in past.vouched,
         ~f.invited => /\ f.asked # None => f.asked = asking(f)
                       /\ f.status \in {"found", "empty"} => f.about = asking(f),
         toCode(f), OnlyScreen
  PROVE  Joins \/ Moves
<1>1. CASE f.locked
  <2>1. f.joinPhrase \in Brought /\ f.joinServer \in Addresses  BY DEF Flows
  <2> QED  BY <1>1, <2>1 DEF toCode, completeJoin, Joins, Does, Starts, OnlyScreen
<1>2. CASE ~f.locked
  <2> DEFINE to == [f EXCEPT !.step = "create-code"]
  <2>1. to \in Flows /\ to.step = "create-code" /\ to.mode = "join" /\ to.locked = f.locked /\ ~to.joiner
        /\ to.joinPhrase = f.joinPhrase /\ to.joinServer = f.joinServer /\ to.invited = f.invited
        /\ to.status = f.status /\ to.about = f.about /\ to.asked = f.asked /\ asking(to) = asking(f)
    BY DEF Flows, Step, asking
  <2>2. Turns(to)  BY <1>2 DEF toCode, Turns
  <2> HIDE DEF to
  <2>3. FlowOK(to)  BY <2>1 DEF FlowOK, Asking, JoinSteps, NewSteps
  <2> QED  BY <2>1, <2>2, <2>3, Turning DEF NewSteps
<1> QED  BY <1>1, <1>2

(* A join completed, or its code still to be created.                      *)
LEMMA JoinKind ==
  ASSUME FlowInv, ServerNext \/ ReceivedNext \/ (CodeCreated /\ flow.mode = "join") PROVE Joins \/ Moves
<1>0. flow \in Flows /\ FlowOK(flow) /\ Vouched(flow)  BY DEF FlowInv
<1>1. CASE ServerNext
  <2> DEFINE f == [flow EXCEPT !.joinServer = flow.address]
  <2>1. app.at = "flow" /\ ~Writing /\ flow.step = "join-server" /\ flow.status = "found" /\ toCode(f) /\ OnlyScreen
    BY <1>1 DEF ServerNext, On
  <2>2. f \in Flows /\ f.locked = flow.locked /\ f.mode = flow.mode /\ f.joiner = flow.joiner /\ f.joinPhrase = flow.joinPhrase
        /\ f.joinServer = flow.address /\ f.status = flow.status /\ f.about = flow.about /\ f.asked = flow.asked
        /\ asking(f) = asking(flow)
    BY <1>0 DEF Flows, asking
  <2>3. flow.mode = "join" /\ ~flow.joiner /\ flow.joinPhrase # None /\ flow.about = asking(flow)
        /\ (flow.asked # None => flow.asked = asking(flow))
    BY <1>0, <2>1 DEF FlowOK, Asking, JoinSteps
  <2>4. asking(flow) \in past.vouched /\ asking(flow) = <<flow.address, flow.joinPhrase>>
    BY <1>0, <2>1, <2>3 DEF Vouched, asking
  <2> HIDE DEF f
  <2> QED  BY <2>1, <2>2, <2>3, <2>4, ToCodeKind
<1>2. CASE ReceivedNext
  <2>1. app.at = "flow" /\ ~Writing /\ flow.step = "join-received" /\ toCode(flow) /\ OnlyScreen
    BY <1>2 DEF ReceivedNext, On
  <2>2. flow.mode = "join" /\ ~flow.joiner /\ flow.invited /\ flow.joinPhrase # None
    BY <1>0, <2>1 DEF FlowOK, JoinSteps
  <2>3. <<flow.joinServer,
           flow.joinPhrase>> \in past.vouched /\ (flow.status = "found" => flow.about \in past.vouched)
    BY <1>0, <2>1 DEF Vouched
  <2> QED  BY <1>0, <2>1, <2>2, <2>3, ToCodeKind
<1>3. CASE CodeCreated /\ flow.mode = "join"
  <2>1. app.at = "flow" /\ ~Writing /\ flow.step = "create-code" /\ flow.locked /\ completeJoin(flow)
        /\ UNCHANGED <<store, staged, salts, device, record, past>>
        /\ flow.mode = "join"
    BY <1>3 DEF CodeCreated, On
  <2>2. flow.joinPhrase # None  BY <1>0, <1>3, <2>1 DEF FlowOK
  <2>3. <<flow.joinServer, flow.joinPhrase>> \in past.vouched  BY <1>0, <1>3, <2>1 DEF Vouched
  <2>4. flow.joinPhrase \in Brought /\ flow.joinServer \in Addresses  BY <1>0, <2>2 DEF Flows
  <2> QED  BY <2>1, <2>3, <2>4 DEF completeJoin, Joins, Does, Starts
<1> QED  BY <1>1, <1>2, <1>3

(* A new vault chosen before there is a code.                              *)
LEMMA ChooseNewMoves == ASSUME FlowInv, ChooseNew, ~flow.locked PROVE Moves
<1> DEFINE to == [flow EXCEPT !.step = "create-code"]
<1>0. flow \in Flows /\ FlowOK(flow) /\ Vouched(flow)  BY DEF FlowInv
<1>1. flow' = to /\ Turns(to) /\ app.at = "flow" /\ flow.step = "welcome"
  BY DEF ChooseNew, On, Turns, OnlyScreen
<1>2. to \in Flows /\ FlowOK(to) /\ to.step = "create-code" /\ to.mode = "new" /\ to.locked = flow.locked
      /\ to.status = flow.status /\ to.about = flow.about
  BY <1>0, <1>1 DEF Flows, FlowOK, Asking, JoinSteps, NewSteps, Step
<1> HIDE DEF to
<1> QED  BY <1>0, <1>1, <1>2, Turning DEF NewSteps, Vouched

Tap == SimpleTap \/ LockTap \/ Erases \/ Unlocks
Kind == Moves \/ Gate \/ Tap \/ Adopts \/ Write \/ Kill \/ CloseApp \/ UNCHANGED vars

(* Every step is of one of the kinds.                                      *)
LEMMA StepKinds ==
  ASSUME Typed, FlowOK(flow), Vouched(flow), [Next]_vars PROVE Kind
<1>0. FlowInv  BY DEF FlowInv, Typed
<1>1. CASE Gates
  <2>1. CASE Boot  BY <2>1, BootKind DEF Kind, Tap, SimpleTap
  <2>2. CASE Opened  BY <2>2, OpenedKind DEF Kind, Tap, SimpleTap
  <2>3. CASE Erase  BY <2>3, EraseKind DEF Kind, Tap
  <2>4. CASE \E code \in Codes : Unlock(code)  BY <2>4, UnlockKind DEF Kind, Tap
  <2>5. CASE \E code \in Codes : SetupLock(code)  BY <2>5, SetupKind DEF Kind, Tap, LockTap
  <2> QED  BY <1>1, <2>1, <2>2, <2>3, <2>4, <2>5 DEF Gates
<1>2. CASE NewVault
  <2>1. CASE ChooseNew
    BY <1>0, <2>1, ChooseNewMoves, BeginKind DEF Kind, Tap, SimpleTap
  <2>2. CASE CodeCreated
    BY <1>0, <2>2, BeginKind, JoinKind DEF Kind, Tap, SimpleTap
  <2>3. CASE Back
    BY <1>0, <2>3, BackMoves, RecordsKind DEF Kind, Tap, SimpleTap
  <2>4. CASE Reveal  BY <1>0, <2>4, RevealMoves DEF Kind
  <2>5. CASE WrittenDown \/ CheckNext
    BY <2>5, RecordsKind DEF Kind, Tap, SimpleTap
  <2>6. CASE CheckServer \/ \E server \in Server : SetAddress(server)
    BY <1>0, <2>6, AddressMoves DEF Kind
  <2>7. CASE \E code \in Six : CreateCode(code)
    BY <2>7, SetupKind DEF Kind, Tap, LockTap, Codes
  <2>8. CASE \E status \in {"found", "empty", "refused"} : ServerAnswers(status)
    BY <1>0, <2>8, AnswerMoves DEF Kind
  <2>9. CASE \E withServer \in BOOLEAN : Finish(withServer)
    BY <2>9, FinishKind DEF Kind, Tap, SimpleTap
  <2> QED  BY <1>2, <2>1, <2>2, <2>3, <2>4, <2>5, <2>6, <2>7, <2>8, <2>9 DEF NewVault
<1>3. CASE Joining
  <2>1. CASE ChooseJoin \/ JoinByPhrase \/ JoinByInvitation \/ EnterCodeManually \/ StartJoiner
    BY <1>0, <2>1, JoinMoves DEF Kind
  <2>2. CASE ServerNext \/ ReceivedNext  BY <1>0, <2>2, JoinKind DEF Kind, Tap, SimpleTap
  <2>3. CASE \E phrase \in Brought : PhraseNext(phrase) \/ \E server \in Server : PayloadArrives(phrase, server)
    BY <1>0, <2>3, PhraseNextMoves, PayloadMoves DEF Kind
  <2> QED  BY <1>3, <2>1, <2>2, <2>3 DEF Joining
<1>4. CASE Settings
  <2>1. CASE EntryAdopted  BY <2>1 DEF Kind, EntryAdopted, Adopts, Running
  <2>2. CASE \E code \in Codes : \E newCode \in Six : ChangeCode(code, newCode)
    BY <2>2, SettingsKind DEF Kind, Tap, LockTap
  <2>3. CASE \E code \in Codes : LockDevice(code)  BY <2>3, SetupKind DEF Kind, Tap, LockTap
  <2>4. CASE \E code \in Codes : RemoveLock(code)
    <3>1. disableDeviceLock # {}  BY PlansWrite
    <3> QED  BY <2>4, <3>1 DEF RemoveLock, Disables, Does, Starts, Running, OnlyScreen, Kind, Tap, LockTap
  <2>5. CASE \E phrase \in Brought : ReplaceIdentity(phrase)
    BY <2>5, ReplaceKind DEF Kind, Tap, SimpleTap
  <2> QED  BY <1>4, <2>1, <2>2, <2>3, <2>4, <2>5 DEF Settings
<1>5. CASE Write \/ Kill \/ CloseApp \/ UNCHANGED vars
  BY <1>5 DEF Kind
<1> QED  BY <1>1, <1>2, <1>3, <1>4, <1>5 DEF Next

-----------------------------------------------------------------------------
(* Flows that a gate or a tap puts on screen.                              *)
Welcome(l, w) == [NoFlow EXCEPT !.locked = l, !.words = w]

(* The flow a first run or a resume starts from.                           *)
LEMMA NewFlow ==
  ASSUME NEW l \in BOOLEAN, NEW w \in Words
  PROVE  /\ Welcome(l, w) \in Flows /\ FlowOK(Welcome(l, w)) /\ Vouched(Welcome(l, w))
         /\ Welcome(l, w).mode = "new" /\ Welcome(l, w).status = "idle" /\ Welcome(l, w).step = "welcome"
         /\ Welcome(l, w).locked = l /\ Welcome(l, w).words = w
<1> DEFINE f == Welcome(l, w)
<1>1. f \in Flows
  BY DEF NoFlow, Flows, Words, Addresses, Asked, Step, Welcome
<1>2. /\ f.mode = "new" /\ f.status = "idle" /\ f.step = "welcome" /\ f.locked = l /\ f.words = w
      /\ ~f.joiner /\ ~f.invited
  BY DEF NoFlow, Welcome
<1> HIDE DEF f
<1>3. FlowOK(f) /\ Vouched(f)
  BY <1>1, <1>2 DEF FlowOK, Vouched, JoinSteps, NewSteps, Asking
<1> QED  BY <1>1, <1>2, <1>3 DEF f

(* A first run starts with no words.                                       *)
LEMMA PlainWelcome == ASSUME NEW l \in BOOLEAN PROVE Welcome(l, None) = [NoFlow EXCEPT !.locked = l]
<1>1. /\ DOMAIN NoFlow = {"step", "mode", "locked", "words", "revealed", "joinPhrase", "joinServer",
                        "invited", "joiner", "address", "status", "about", "asked"}
      /\ NoFlow = [field \in DOMAIN NoFlow |-> NoFlow[field]]
      /\ NoFlow["words"] = None
  BY DEF NoFlow
<1> QED  BY <1>1 DEF Welcome

(* The flow of an app without one.                                         *)
LEMMA NoFlowOK == NoFlow \in Flows /\ FlowOK(NoFlow) /\ NoFlow.step = "welcome" /\ Vouched(NoFlow)
  BY DEF NoFlow, Flows, Words, Addresses, Asked, Step, FlowOK, Vouched, JoinSteps, NewSteps, Asking

(* A screen of the new vault keeps the flow's invariant and its words.     *)
LEMMA ShowsOK ==
  ASSUME NEW f \in Flows, FlowOK(f), f.mode = "new", NEW step \in NewSteps,
         device \in [required : BOOLEAN, fixed : Addresses], f.status = "found" => f.about \in past.vouched
  PROVE  LET g == shows(step, f)
         IN /\ g \in Flows /\ FlowOK(g) /\ Vouched(g) /\ g.step = step /\ g.words = f.words /\ g.locked = f.locked
            /\ g.mode = "new" /\ (step = "phrase" => ~g.revealed)
<1> DEFINE Good(g) == /\ g \in Flows /\ g.step = step /\ g.words = f.words /\ g.locked = f.locked
                      /\ g.mode = "new" /\ (step = "phrase" => ~g.revealed) /\ ~g.joiner
                      /\ (g.step = "server" /\ g.asked # None => g.asked = asking(g))
                      /\ (g.step = "server" => g.status \notin {"found", "empty"})
                      /\ g.invited = f.invited /\ g.joinPhrase = f.joinPhrase
                      /\ (g.status = "found" => g.about \in past.vouched)
<1>0. ~f.joiner /\ f.joiner \in BOOLEAN  BY DEF FlowOK, JoinSteps, Flows
<1>1. ASSUME NEW g, Good(g), g = shows(step, f)
      PROVE /\ g \in Flows /\ FlowOK(g) /\ Vouched(g) /\ g.step = step /\ g.words = f.words /\ g.locked = f.locked
            /\ g.mode = "new" /\ (step = "phrase" => ~g.revealed)
  BY <1>1 DEF FlowOK, Vouched, JoinSteps, NewSteps, Asking
<1>2. CASE step = "phrase"
  <2>1. Good(showPhrase(f))  BY <1>0, <1>2 DEF showPhrase, Flows, Step
  <2> QED  BY <2>1, <1>1, <1>2 DEF shows
<1>3. CASE step = "check"
  <2>1. Good(showCheck(f))  BY <1>0, <1>3 DEF showCheck, Flows, Step
  <2> QED  BY <2>1, <1>1, <1>3 DEF shows
<1>4. CASE step = "server"
  <2> DEFINE u == unasked(f)
             shown == [u EXCEPT !.step = "server", !.address = device.fixed]
  <2>0. /\ u \in Flows /\ u.asked = None /\ u.status = "idle" /\ u.locked = f.locked /\ u.mode = f.mode
        /\ u.joiner = f.joiner /\ u.invited = f.invited /\ u.joinPhrase = f.joinPhrase /\ u.words = f.words
    BY Unasked
  <2> HIDE DEF u
  <2>1. Good(shown)
    BY <1>0, <1>4, <2>0 DEF Flows, Step
  <2>2. Good(checkServer(shown))
    <3>1. shown \in Flows  BY <2>1
    <3> HIDE DEF shown
    <3> QED  BY <1>4, <2>1, <3>1, CheckTyped, CheckAsks
  <2>3. showServer(f) = IF device.fixed = None THEN shown ELSE checkServer(shown)
    BY DEF showServer, u
  <2> HIDE DEF shown
  <2>4. Good(showServer(f))  BY <2>1, <2>2, <2>3
  <2> QED  BY <2>4, <1>1, <1>4 DEF shows
<1> QED  BY <1>2, <1>3, <1>4 DEF NewSteps

(* The views, and the entries that are written through them.               *)
LEMMA ViewGrows ==
  ASSUME NEW n \in Nat, NEW m \in Nat, n <= m
  PROVE  /\ View(n) \subseteq View(m) /\ Ciphered(n) \subseteq Ciphered(m) /\ Identities(n) \subseteq Identities(m)
         /\ Screen(n) \subseteq Screen(m)
         /\ \A a : IsArea(a, n) => IsArea(a, m)
         /\ \A w : WriteOK(w, n) => WriteOK(w, m)
<1>1. 1 .. n \subseteq 1 .. m  OBVIOUS
<1>2. Ciphered(n) \subseteq Ciphered(m)  BY <1>1 DEF Ciphered
<1>3. View(n) \subseteq View(m)  BY <1>1 DEF View
<1>4. Identities(n) \subseteq Identities(m)  BY <1>2 DEF Identities
<1>5. Screen(n) \subseteq Screen(m)  BY <1>3 DEF Screen
<1>6. \A a : IsArea(a, n) => IsArea(a, m)  BY <1>1, <1>2, <1>4 DEF IsArea
<1>7. \A w : WriteOK(w, n) => WriteOK(w, m)  BY <1>1, <1>2, <1>4 DEF WriteOK
<1> QED  BY <1>2, <1>3, <1>4, <1>5, <1>6, <1>7

(* What set() writes has the type of a write.                              *)
LEMMA SetOK ==
  ASSUME NEW n \in 0 .. MaxSalts, NEW view \in View(n), NEW p \in Phrase PROVE WriteOK(set(view, p), n)
<1>1. CASE view = Plain
  BY <1>1 DEF set, WriteOK, Put, Name, RESERVED, Identity, Identities, SALT_ENTRY, CHECK_ENTRY, CODE_SHAPE_ENTRY
<1>2. CASE view # Plain
  <2>1. sealed(p, view.code, view.salt) \in Ciphered(n)
    BY <1>2, SealedTyped DEF View
  <2> QED
    BY <1>2, <2>1 DEF set, WriteOK, Put, Name, RESERVED, Identity, Identities, SALT_ENTRY, CHECK_ENTRY,
             CODE_SHAPE_ENTRY
<1> QED  BY <1>1, <1>2

(* A record has the type of a write.                                       *)
LEMMA RecordOK == ASSUME NEW r \in Records, NEW n PROVE WriteOK(WriteRecord(r), n)
  BY DEF WriteOK

(* The closed app and the plain store, whatever the salts.                 *)
LEMMA ClosedOK == \A n \in Nat : Closed \in Screen(n) /\ Plain \in View(n)
  BY DEF Closed, Screen, Screens, View

-----------------------------------------------------------------------------
(* Plans of the lock: what is known while one is under way, for any plan.  *)
PlanOK(plan) ==
  /\ \A y \in plan : y.area \in {"store", "staged"} /\ y.name \in Name /\ y.turn \in Nat
  /\ \A y, z \in plan : y.area = "store" /\ z.area = "store" /\ y.name = z.name => y = z
  /\ \A y, z \in plan :
       y.area = "staged" /\ z.area = "staged" /\ y.name = z.name /\ y.turn = z.turn => y = z

(* The next write keeps to the plan.                                       *)
LEMMA FollowOn ==
  ASSUME NEW plan, PlanOK(plan), NEW writes, NEW from, NEW area, NEW aside,
         Follows(plan, writes, from, area, aside), NEW w \in writes, \A other \in writes : w.turn <= other.turn,
         area = [name \in Name |-> area[name]], aside = [name \in Name |-> aside[name]],
         NEW area2, NEW aside2,
         \/ w.area = "store" /\ area2 = [area EXCEPT ![w.name] = w.value] /\ aside2 = aside
         \/ w.area = "staged" /\ aside2 = [aside EXCEPT ![w.name] = w.value] /\ area2 = area
  PROVE  Follows(plan, writes \ {w}, from, area2, aside2)
<1> DEFINE rest == writes \ {w}
<1>0. w \in plan /\ w.name \in Name /\ w.turn \in Nat /\ w.area \in {"store", "staged"}
  BY DEF Follows, PlanOK
<1>1. rest \subseteq plan  BY DEF Follows
<1>2. \A x \in rest, y \in plan : x.turn < y.turn => y \in rest
  <2> SUFFICES ASSUME NEW x \in rest, NEW y \in plan, x.turn < y.turn PROVE y \in rest
    OBVIOUS
  <2>1. y \in writes  BY DEF Follows
  <2>2. x.turn \in Nat /\ y.turn \in Nat /\ w.turn <= x.turn  BY <1>1 DEF PlanOK
  <2> QED  BY <2>1, <2>2, <1>0
<1>3. ASSUME NEW y \in plan, y.area = "store"
      PROVE  area2[y.name] = IF y \in rest THEN from[y.name] ELSE y.value
  <2>1. area[y.name] = IF y \in writes THEN from[y.name] ELSE y.value  BY <1>3 DEF Follows
  <2>2. y.name \in Name  BY DEF PlanOK
  <2>3. CASE y = w
    BY <2>2, <2>3, <1>3, <1>0
  <2>4. CASE y # w
    <3>1. w.area = "store" => w.name # y.name  BY <1>0, <1>3, <2>4 DEF PlanOK
    <3>2. area2[y.name] = area[y.name]  BY <3>1, <2>2, <1>0
    <3> QED  BY <3>2, <2>1, <2>4
  <2> QED  BY <2>3, <2>4
<1>4. ASSUME NEW name \in Name, \A y \in plan : y.area = "store" => y.name # name
      PROVE  area2[name] = from[name]
  BY <1>4, <1>0 DEF Follows
<1>5. ASSUME NEW y \in plan, y.area = "staged", y \notin rest,
             \A z \in plan : z.area = "staged" /\ z.name = y.name /\ z.turn > y.turn => z \in rest
      PROVE  aside2[y.name] = y.value
  <2>1. y.name \in Name /\ y.turn \in Nat  BY DEF PlanOK
  <2>2. CASE y = w
    BY <2>1, <2>2, <1>5, <1>0
  <2>3. CASE y # w
    <3>1. y \notin writes  BY <2>3, <1>5
    <3>2. aside[y.name] = y.value  BY <3>1, <1>5 DEF Follows
    <3>3. ~(w.turn < y.turn)  BY <3>1 DEF Follows
    <3>4. ASSUME w.area = "staged", w.name = y.name PROVE FALSE
      <4>1. w.turn # y.turn  BY <3>4, <1>0, <1>5, <2>3 DEF PlanOK
      <4>2. w.turn > y.turn  BY <4>1, <3>3, <1>0, <2>1
      <4> QED  BY <4>2, <3>4, <1>0, <1>5
    <3> QED  BY <3>2, <3>4, <1>0, <2>1
  <2> QED  BY <2>2, <2>3
<1> QED  BY <1>1, <1>2, <1>3, <1>4, <1>5 DEF Follows

(* A plan of the lock starts with what is left of an earlier one.          *)
LEMMA FollowFrom ==
  ASSUME NEW goal, NEW order, NEW drops, NEW area, NEW aside,
         aside = [name \in Name |-> aside[name]],
         \A y \in drops : y.turn \in Nat /\ y.turn > 1,
         NEW writes,
         writes = {Drop(1, "staged", name) : name \in {n \in Name : aside[n] # None}}
                     \cup staging(goal) \cup promoteStaged(goal, order) \cup drops
  PROVE  Follows(LockPlan(goal, order, drops), writes, area, area, aside)
<1> DEFINE plan == LockPlan(goal, order, drops)
           later == staging(goal) \cup promoteStaged(goal, order) \cup drops
           clears == {Drop(1, "staged", name) : name \in Name}
           cleared == {Drop(1, "staged", name) : name \in {n \in Name : aside[n] # None}}
<1>1. plan = clears \cup later /\ writes = cleared \cup later /\ cleared \subseteq clears
  BY DEF LockPlan
<1>2. \A y \in clears : y.turn = 1 /\ y.area = "staged" /\ y.value = None /\ y.name \in Name
  BY DEF Drop, Put
<1>3. \A y \in later : y.turn \in Nat /\ y.turn > 1
  BY DEF staging, promoteStaged, Promoted, Unstaged, Drop, Put, StagingTurn, PromotionTurn
<1>4. \A y \in clears : y \notin cleared => aside[y.name] = None
  BY DEF Drop, Put
<1> HIDE DEF plan, later, clears, cleared
<1>5. writes \subseteq plan  BY <1>1
<1>6. \A x \in writes, y \in plan : x.turn < y.turn => y \in writes
  BY <1>1, <1>2, <1>3
<1>7. \A y \in plan : y.area = "store" => y \in writes  BY <1>1, <1>2
<1>8. \A y \in plan : y \notin writes => aside[y.name] = y.value
  BY <1>1, <1>2, <1>4
<1> QED  BY <1>5, <1>6, <1>7, <1>8 DEF Follows, plan

(* The names of the store are apart.                                       *)
LEMMA Names ==
  /\ Name = {"identity", "salt", "check", "shape"} /\ Identity = "identity" /\ SALT_ENTRY = "salt"
  /\ CHECK_ENTRY = "check" /\ CODE_SHAPE_ENTRY = "shape"
  BY DEF Name, RESERVED, Identity, SALT_ENTRY, CHECK_ENTRY, CODE_SHAPE_ENTRY

(* No operation on the lock has two writes for one name of the store, or   *)
(* writes to the record.                                                   *)
LEMMA LockPlanOK ==
  ASSUME NEW goal, NEW order, NEW drops,
         drops = {} \/ (drops = FinalDrops /\ \A name \in Name : goal[name] # None => name = Identity)
  PROVE  PlanOK(LockPlan(goal, order, drops))
<1> DEFINE clears == {Drop(1, "staged", name) : name \in Name}
           stages == staging(goal)
           puts == Promoted(goal, Held(goal), order)
           unstages == Unstaged(goal, 11)
<1>1. LockPlan(goal, order, drops) = clears \cup stages \cup puts \cup unstages \cup drops
  BY DEF LockPlan, promoteStaged
<1>2. \A y \in clears : y.turn = 1 /\ y.area = "staged" /\ y.name \in Name /\ y = Put(1, "staged", y.name, None)
  BY DEF Drop, Put
<1>3. \A y \in stages : y.turn = StagingTurn(y.name) /\ y.area = "staged" /\ y.name \in Held(goal)
                       /\ y = Put(StagingTurn(y.name), "staged", y.name, goal[y.name])
  BY DEF staging, Put
<1>4. \A y \in puts : y.area = "store" /\ y.name \in Held(goal) /\ y = Put(PromotionTurn(y.name, order), "store", y.name, goal[y.name])
                     /\ y.turn = PromotionTurn(y.name, order)
  BY DEF Promoted, Put
<1>5. \A y \in unstages : y.turn = 11 /\ y.area = "staged" /\ y.name \in Held(goal) /\ y = Put(11, "staged", y.name, None)
  BY DEF Unstaged, Drop, Put
<1>6. \A y \in drops : y.area = "store" /\ y.name \in RESERVED /\ y.turn \in Nat
  BY DEF FinalDrops, Drop, Put, RESERVED
<1>7. \A y, z \in drops : y.name = z.name => y = z
  BY Names DEF FinalDrops, Drop, Put
<1>8. drops # {} => Held(goal) \subseteq {Identity}
  BY DEF Held
<1>9. Identity \notin RESERVED /\ RESERVED \subseteq Name  BY Names DEF RESERVED
<1>10. Held(goal) \subseteq Name  BY DEF Held
<1>11. \A name : StagingTurn(name) \in 2 .. 5 /\ PromotionTurn(name, order) \in Nat
  BY DEF StagingTurn, PromotionTurn
<1> HIDE DEF clears, stages, puts, unstages
<1>12. \A y \in clears \cup stages \cup unstages \cup puts \cup drops : y.area \in {"store", "staged"} /\ y.name \in Name /\ y.turn \in Nat
  BY <1>2, <1>3, <1>4, <1>5, <1>6, <1>9, <1>10, <1>11
<1>13. \A y, z \in puts \cup drops : y.name = z.name => y = z
  BY <1>4, <1>6, <1>7, <1>8, <1>9
<1>14. \A y, z \in clears \cup stages \cup unstages : y.name = z.name /\ y.turn = z.turn => y = z
  BY <1>2, <1>3, <1>5, <1>11
<1>15. \A y \in puts \cup drops : y.area = "store"  BY <1>4, <1>6
<1>16. \A y \in clears \cup stages \cup unstages : y.area = "staged"  BY <1>2, <1>3, <1>5
<1> QED  BY <1>1, <1>12, <1>13, <1>14, <1>15, <1>16 DEF PlanOK

(* The generation under a code and a salt.                                 *)
LEMMA GeneratedIs ==
  ASSUME NEW phrase, NEW code, NEW salt
  PROVE  LET goal == generated(phrase, code, salt)
         IN /\ goal = [name \in Name |-> goal[name]]
            /\ goal[Identity] = IF phrase = None THEN None ELSE sealed(inside(phrase), code, salt)
            /\ goal[SALT_ENTRY] = salt /\ goal[CHECK_ENTRY] = sealed(CHECK_VALUE, code, salt)
            /\ goal[CODE_SHAPE_ENTRY] = DIGITS_6
  BY Names DEF generated

(* A generation holds every reserved entry, and no phrase in the clear.    *)
LEMMA GeneratedArea ==
  ASSUME NEW phrase, NEW code \in Codes, NEW n \in 1 .. MaxSalts
  PROVE  LET goal == generated(phrase, code, n)
         IN /\ IsArea(goal, n)
            /\ RESERVED \subseteq Held(goal)
            /\ goal[Identity] \notin Phrase /\ (phrase # None => Identity \in Held(goal))
            /\ Held(goal) \subseteq Name
<1> DEFINE goal == generated(phrase, code, n)
<1>1. MaxSalts \in Nat /\ n \in 0 .. MaxSalts /\ n \in 1 .. n /\ n # None /\ DIGITS_6 # None /\ None \notin Phrase
  BY LockAssumption
<1>2. inside(phrase) \in Phrase \cup {CHECK_VALUE, Unreadable}  BY DEF inside
<1>3. /\ sealed(inside(phrase), code, n) \in Ciphered(n) /\ sealed(inside(phrase), code, n) # None
      /\ sealed(inside(phrase), code, n) \notin Phrase
      /\ sealed(CHECK_VALUE, code, n) \in Ciphered(n) /\ sealed(CHECK_VALUE, code, n) # None
  BY <1>1, <1>2, SealedTyped
<1>4. /\ goal = [name \in Name |-> goal[name]]
      /\ goal[Identity] = IF phrase = None THEN None ELSE sealed(inside(phrase), code, n)
      /\ goal[SALT_ENTRY] = n /\ goal[CHECK_ENTRY] = sealed(CHECK_VALUE, code, n)
      /\ goal[CODE_SHAPE_ENTRY] = DIGITS_6
  BY GeneratedIs
<1> HIDE DEF goal
<1>5. IsArea(goal, n)  BY <1>1, <1>3, <1>4 DEF IsArea, Identities
<1>6. RESERVED \subseteq Held(goal) /\ Held(goal) \subseteq Name  BY <1>1, <1>3, <1>4 DEF RESERVED, Held, Name
<1>7. goal[Identity] \notin Phrase /\ (phrase # None => Identity \in Held(goal))
  BY <1>1, <1>3, <1>4 DEF Held, Name
<1> QED  BY <1>5, <1>6, <1>7 DEF goal

(* What a plan of the lock writes has its type.                            *)
LEMMA LockPlanTyped ==
  ASSUME NEW n \in Nat, NEW goal, IsArea(goal, n), NEW order, NEW drops \in {{}, FinalDrops}
  PROVE  \A w \in LockPlan(goal, order, drops) : WriteOK(w, n)
<1>1. \A name \in Name, turn \in Nat, area \in {"store", "staged"} :
        WriteOK(Put(turn, area, name, None), n) /\ WriteOK(Put(turn, area, name, goal[name]), n)
  BY Names DEF WriteOK, Put, IsArea, Identities
<1>2. \A name : StagingTurn(name) \in Nat /\ PromotionTurn(name, order) \in Nat
  BY DEF StagingTurn, PromotionTurn
<1>3. \A w \in drops : WriteOK(w, n)
  BY <1>1, Names DEF FinalDrops, Drop
<1>4. \A w \in promoteStaged(goal, order) : WriteOK(w, n)
  BY <1>1, <1>2 DEF promoteStaged, Promoted, Unstaged, Drop, Held
<1>5. \A w \in staging(goal) : WriteOK(w, n)
  BY <1>1, <1>2 DEF staging, Held
<1>6. \A name \in Name : WriteOK(Drop(1, "staged", name), n)
  BY <1>1 DEF Drop
<1> QED  BY <1>3, <1>4, <1>5, <1>6 DEF LockPlan

(* Promotions land in the order of their turns, and while some have and    *)
(* some have not, the staging area holds the whole generation.             *)
Awaits(writes, goal, order, name) == Put(PromotionTurn(name, order), "store", name, goal[name]) \in writes

(* While a promotion is under way each entry is the old or the new one,    *)
(* and the new ones have landed by turns.                                  *)
LEMMA PutsInOrder ==
  ASSUME NEW goal, NEW order, NEW drops, NEW writes, NEW from, NEW area, NEW aside,
         Follows(LockPlan(goal, order, drops), writes, from, area, aside), NEW name \in Held(goal)
  PROVE  /\ area[name] = IF Awaits(writes, goal, order, name) THEN from[name] ELSE goal[name]
         /\ \A other \in Held(goal) :
              /\ Awaits(writes, goal, order, name)
              /\ PromotionTurn(name, order) < PromotionTurn(other, order)
              => Awaits(writes, goal, order, other)
<1> DEFINE put(n) == Put(PromotionTurn(n, order), "store", n, goal[n])
           plan == LockPlan(goal, order, drops)
<1>1. \A n \in Held(goal) : put(n) \in plan
  BY DEF LockPlan, promoteStaged, Promoted
<1>2. \A n : /\ put(n).area = "store" /\ put(n).name = n /\ put(n).value = goal[n]
             /\ put(n).turn = PromotionTurn(n, order)
             /\ Awaits(writes, goal, order, n) <=> put(n) \in writes
  BY DEF Put, Awaits
<1>3. area[name] = IF Awaits(writes, goal, order, name) THEN from[name] ELSE goal[name]
  BY <1>1, <1>2 DEF Follows
<1>4. ASSUME NEW other \in Held(goal), put(name) \in writes,
         PromotionTurn(name, order) < PromotionTurn(other, order)
      PROVE  put(other) \in writes
  <2> HIDE DEF put, plan
  <2>1. put(name).turn < put(other).turn /\ put(other) \in plan  BY <1>1, <1>2, <1>4
  <2> QED  BY <2>1, <1>4 DEF Follows, plan
<1> QED  BY <1>2, <1>3, <1>4

(* While part of a generation has landed in the store, all of it is        *)
(* staged.                                                                 *)
LEMMA StagedMeanwhile ==
  ASSUME NEW goal, NEW order, NEW writes, NEW from, NEW area, NEW aside,
         Follows(LockPlan(goal, order, {}), writes, from, area, aside),
         NEW landed \in Held(goal), NEW waiting \in Held(goal),
         ~Awaits(writes, goal, order, landed), Awaits(writes, goal, order, waiting), NEW name \in Held(goal)
  PROVE  aside[name] = goal[name]
<1> DEFINE put(n) == Put(PromotionTurn(n, order), "store", n, goal[n])
           stage(n) == Put(StagingTurn(n), "staged", n, goal[n])
           drop(n) == Drop(11, "staged", n)
           plan == LockPlan(goal, order, {})
<1>0. \A n : /\ PromotionTurn(n, order) \in 6 .. 10 /\ StagingTurn(n) \in 2 .. 5
  BY DEF PromotionTurn, StagingTurn
<1>1. \A n \in Held(goal) : put(n) \in plan /\ stage(n) \in plan /\ drop(n) \in plan
  BY DEF LockPlan, promoteStaged, Promoted, Unstaged, staging
<1>2. \A n : /\ put(n).turn = PromotionTurn(n, order) /\ stage(n).turn = StagingTurn(n) /\ drop(n).turn = 11
             /\ stage(n).area = "staged" /\ stage(n).name = n /\ stage(n).value = goal[n]
  BY DEF Put, Drop
<1>3. \A z \in plan : z.area = "staged" /\ z.name = name /\ z.turn > StagingTurn(name) => z = drop(name)
  <2>1. \A z \in {Drop(1, "staged", n) : n \in Name} : z.turn = 1  BY DEF Drop, Put
  <2>2. \A z \in staging(goal) : z.turn = StagingTurn(z.name)  BY DEF staging, Put
  <2>3. \A z \in Promoted(goal, Held(goal), order) : z.area = "store"  BY DEF Promoted, Put
  <2>4. \A z \in Unstaged(goal, 11) : z = drop(z.name)  BY DEF Unstaged, Drop, Put
  <2> QED  BY <2>1, <2>2, <2>3, <2>4, <1>0 DEF LockPlan, promoteStaged
<1>4. put(landed) \notin writes /\ put(waiting) \in writes  BY DEF Awaits
<1> HIDE DEF put, stage, drop, plan
<1>5. stage(name) \notin writes
  <2>1. stage(name).turn < put(landed).turn  BY <1>0, <1>2
  <2> QED  BY <2>1, <1>1, <1>4 DEF Follows, plan
<1>6. drop(name) \in writes
  <2>1. put(waiting).turn < drop(name).turn  BY <1>0, <1>2
  <2> QED  BY <2>1, <1>1, <1>4 DEF Follows, plan
<1>7. \A z \in plan : z.area = "staged" /\ z.name = stage(name).name /\ z.turn > stage(name).turn => z \in writes
  BY <1>2, <1>3, <1>6
<1> QED  BY <1>1, <1>2, <1>5, <1>7 DEF Follows, plan

-----------------------------------------------------------------------------
(* What the real entries are at any point of an operation on the lock.     *)
Done(writes) == writes = {}
Reached(goal, area) == \A name \in Name : area[name] = goal[name]

(* The store while a lock is being set: without a verifier it is as it     *)
(* was; with one, the verifier is the new one and its salt is there.       *)
LEMMA EnableFacts ==
  ASSUME NEW from, ~hasVerifier(from), NEW code \in Six, NEW n \in Salt, NEW writes, NEW area, NEW aside,
         NEW goal, goal = generated(from[Identity], code, n),
         Follows(LockPlan(goal, "verifier-first", {}), writes, from, area, aside)
  PROVE  /\ ~hasVerifier(area) => area[Identity] = from[Identity]
         /\ hasVerifier(area) => area[CHECK_ENTRY] = goal[CHECK_ENTRY]
         /\ \/ area[Identity] = from[Identity]
            \/ area[Identity] = goal[Identity] /\ area[SALT_ENTRY] = n
         /\ Done(writes) => Reached(goal, area)
<1> DEFINE A(name) == Awaits(writes, goal, "verifier-first", name)
<1>1. /\ RESERVED \subseteq Held(goal) /\ (from[Identity] # None => Identity \in Held(goal)) /\ Held(goal) \subseteq Name
      /\ goal[SALT_ENTRY] = n /\ goal[CHECK_ENTRY] # None
  BY GeneratedArea, GeneratedIs, Names DEF Salt, Codes, Held, RESERVED
<1>2. \A name \in Held(goal) : area[name] = IF A(name) THEN from[name] ELSE goal[name]
  BY PutsInOrder
<1>3. \A name, other \in Held(goal) :
        A(name) /\ PromotionTurn(name, "verifier-first") < PromotionTurn(other, "verifier-first") => A(other)
  BY PutsInOrder
<1>4. Identity \notin Held(goal) => from[Identity] = None /\ goal[Identity] = None /\ area[Identity] = None
  <2> SUFFICES ASSUME Identity \notin Held(goal)
        PROVE from[Identity] = None /\ goal[Identity] = None /\ area[Identity] = None
    OBVIOUS
  <2>1. from[Identity] = None  BY <1>1
  <2>2. goal[Identity] = None  BY Names DEF Held
  <2>3. \A y \in LockPlan(goal, "verifier-first", {}) : y.area = "store" => y.name # Identity
    BY Names DEF LockPlan, staging, promoteStaged, Promoted, Unstaged, Drop, Put
  <2>4. area[Identity] = from[Identity]  BY <2>3, Names DEF Follows
  <2> QED  BY <2>1, <2>2, <2>4
<1>5. Done(writes) => \A name : ~A(name)  BY DEF Awaits, Done
<1> HIDE DEF A
<1>6. PromotionTurn(SALT_ENTRY, "verifier-first") = 7 /\ PromotionTurn(CHECK_ENTRY, "verifier-first") = 8
      /\ PromotionTurn(Identity, "verifier-first") = 10
  BY Names DEF PromotionTurn
<1>7. CASE Identity \in Held(goal)
  <2>1. A(CHECK_ENTRY) => A(Identity)  BY <1>1, <1>3, <1>6, <1>7 DEF RESERVED
  <2>2. A(SALT_ENTRY) => A(Identity)  BY <1>1, <1>3, <1>6, <1>7 DEF RESERVED
  <2>3. SALT_ENTRY \in Held(goal) /\ CHECK_ENTRY \in Held(goal) /\ CODE_SHAPE_ENTRY \in Held(goal)
    BY <1>1 DEF RESERVED
  <2>4. Done(writes) => Reached(goal, area)
    BY <1>2, <1>5, <1>7, <2>3 DEF Name, RESERVED, Reached
  <2> QED  BY <1>1, <1>2, <1>7, <2>1, <2>2, <2>3, <2>4 DEF hasVerifier
<1>8. CASE Identity \notin Held(goal)
  <2>3. SALT_ENTRY \in Held(goal) /\ CHECK_ENTRY \in Held(goal) /\ CODE_SHAPE_ENTRY \in Held(goal)
    BY <1>1 DEF RESERVED
  <2>4. Done(writes) => Reached(goal, area)
    BY <1>2, <1>4, <1>5, <1>8, <2>3 DEF Name, RESERVED, Reached
  <2> QED  BY <1>1, <1>2, <1>4, <1>8, <2>3, <2>4 DEF hasVerifier
<1> QED  BY <1>7, <1>8

(* The store while a code is being changed: the verifier and its marker    *)
(* are the old or the new ones, and so is the phrase.                      *)
LEMMA ChangeFacts ==
  ASSUME NEW from, hasVerifier(from), NEW p \in Phrase, NEW code \in Six, NEW n \in Salt, NEW writes,
           NEW area, NEW aside,
         NEW goal, goal = generated(p, code, n),
         Follows(LockPlan(goal, "ordinary-first", {}), writes, from, area, aside)
  PROVE  /\ hasVerifier(area)
         /\ \/ area[CHECK_ENTRY] = from[CHECK_ENTRY] /\ area[CODE_SHAPE_ENTRY] = from[CODE_SHAPE_ENTRY]
            \/ area[CHECK_ENTRY] = goal[CHECK_ENTRY]
         /\ \/ area[Identity] = from[Identity] /\ area[SALT_ENTRY] = from[SALT_ENTRY]
            \/ area[Identity] = goal[Identity] /\ n \in {area[SALT_ENTRY], aside[SALT_ENTRY]}
         /\ Done(writes) => Reached(goal, area)
<1> DEFINE A(name) == Awaits(writes, goal, "ordinary-first", name)
<1>0. p # None  BY LockAssumption
<1>1. /\ Held(goal) = Name /\ goal[SALT_ENTRY] = n /\ goal[CHECK_ENTRY] # None
  BY <1>0, GeneratedArea, GeneratedIs DEF Salt, Codes, Held, RESERVED, Name
<1>2. \A name \in Name : area[name] = IF A(name) THEN from[name] ELSE goal[name]
  BY <1>1, PutsInOrder
<1>3. \A name, other \in Name :
        A(name) /\ PromotionTurn(name, "ordinary-first") < PromotionTurn(other, "ordinary-first") => A(other)
  BY <1>1, PutsInOrder
<1>4. ~A(Identity) /\ A(SALT_ENTRY) => aside[SALT_ENTRY] = n
  <2>1. Identity \in Held(goal) /\ SALT_ENTRY \in Held(goal)  BY <1>1, Names
  <2> QED  BY <1>1, <2>1, StagedMeanwhile
<1>5. Done(writes) => \A name : ~A(name)  BY DEF Awaits, Done
<1>6. /\ PromotionTurn(SALT_ENTRY, "ordinary-first") = 7 /\ PromotionTurn(CHECK_ENTRY, "ordinary-first") = 8
      /\ PromotionTurn(Identity, "ordinary-first") = 6 /\ PromotionTurn(CODE_SHAPE_ENTRY, "ordinary-first") = 9
  BY Names DEF PromotionTurn
<1>7. Identity \in Name /\ SALT_ENTRY \in Name /\ CHECK_ENTRY \in Name /\ CODE_SHAPE_ENTRY \in Name
  BY Names
<1> HIDE DEF A
<1>8. (A(CHECK_ENTRY) => A(CODE_SHAPE_ENTRY)) /\ (A(Identity) => A(SALT_ENTRY))
  BY <1>3, <1>6, <1>7
<1> QED  BY <1>1, <1>2, <1>4, <1>5, <1>7, <1>8 DEF hasVerifier, Reached

(* The store while a lock is being removed: the phrase is in the clear     *)
(* before the verifier goes.                                               *)
LEMMA DisableFacts ==
  ASSUME NEW from, hasVerifier(from), NEW p \in Phrase, NEW writes, NEW area, NEW aside,
         Follows(LockPlan([Nothing EXCEPT ![Identity] = p], "ordinary-first", FinalDrops), writes, from, area, aside)
  PROVE  /\ ~hasVerifier(area) => area[Identity] = p
         /\ hasVerifier(area) => /\ area[CHECK_ENTRY] = from[CHECK_ENTRY]
                                 /\ area[CODE_SHAPE_ENTRY] \in {None, from[CODE_SHAPE_ENTRY]}
         /\ area[Identity] = p \/ (area[Identity] = from[Identity] /\ area[SALT_ENTRY] = from[SALT_ENTRY])
         /\ Done(writes) => area[Identity] = p /\ ~hasVerifier(area)
<1> DEFINE goal == [Nothing EXCEPT ![Identity] = p]
           plan == LockPlan(goal, "ordinary-first", FinalDrops)
           put == Put(6, "store", Identity, p)
           shape == Put(12, "store", CODE_SHAPE_ENTRY, None)
           salt == Put(13, "store", SALT_ENTRY, None)
           check == Put(14, "store", CHECK_ENTRY, None)
<1>0. p # None  BY LockAssumption
<1>1. goal[Identity] = p /\ Identity \in Held(goal)
  BY <1>0, Names DEF Nothing, Held
<1>2. PromotionTurn(Identity, "ordinary-first") = 6  BY Names DEF PromotionTurn
<1>3. put \in plan
  BY <1>1, <1>2 DEF LockPlan, promoteStaged, Promoted
<1>4. shape \in plan /\ salt \in plan /\ check \in plan
  BY DEF LockPlan, FinalDrops, Drop
<1>5. /\ put.area = "store" /\ put.name = Identity /\ put.turn = 6 /\ put.value = p
      /\ shape.area = "store" /\ shape.name = CODE_SHAPE_ENTRY /\ shape.turn = 12 /\ shape.value = None
      /\ salt.area = "store" /\ salt.name = SALT_ENTRY /\ salt.turn = 13 /\ salt.value = None
      /\ check.area = "store" /\ check.name = CHECK_ENTRY /\ check.turn = 14 /\ check.value = None
  BY DEF Put
<1> HIDE DEF put, shape, salt, check, plan
<1>60. \A y \in plan : y.area = "store" => area[y.name] = IF y \in writes THEN from[y.name] ELSE y.value
  BY DEF Follows, plan
<1>6. /\ area[Identity] = IF put \in writes THEN from[Identity] ELSE p
      /\ area[CODE_SHAPE_ENTRY] = IF shape \in writes THEN from[CODE_SHAPE_ENTRY] ELSE None
      /\ area[SALT_ENTRY] = IF salt \in writes THEN from[SALT_ENTRY] ELSE None
      /\ area[CHECK_ENTRY] = IF check \in writes THEN from[CHECK_ENTRY] ELSE None
  BY <1>3, <1>4, <1>5, <1>60
<1>7. (put \in writes => salt \in writes) /\ (put \in writes => check \in writes)
  <2>1. \A x \in writes, y \in plan : x.turn < y.turn => y \in writes  BY DEF Follows, plan
  <2> QED  BY <2>1, <1>3, <1>4, <1>5
<1>8. from[CHECK_ENTRY] # None  BY DEF hasVerifier
<1>9. Done(writes) => put \notin writes /\ check \notin writes  BY DEF Done
<1>10. ~hasVerifier(area) => area[Identity] = p
  BY <1>6, <1>7, <1>8 DEF hasVerifier
<1>11. hasVerifier(area) => /\ area[CHECK_ENTRY] = from[CHECK_ENTRY]
                           /\ area[CODE_SHAPE_ENTRY] \in {None, from[CODE_SHAPE_ENTRY]}
  BY <1>6 DEF hasVerifier
<1>12. area[Identity] = p \/ (area[Identity] = from[Identity] /\ area[SALT_ENTRY] = from[SALT_ENTRY])
  BY <1>6, <1>7
<1>13. Done(writes) => area[Identity] = p /\ ~hasVerifier(area)
  <2> SUFFICES ASSUME Done(writes) PROVE area[Identity] = p /\ area[CHECK_ENTRY] = None
    BY DEF hasVerifier
  <2>1. put \notin writes /\ check \notin writes  BY <1>9
  <2>2. area[Identity] = p  BY <2>1, <1>6
  <2>3. area[CHECK_ENTRY] = None  BY <2>1, <1>6
  <2> QED  BY <2>2, <2>3
<1> QED  BY <1>10, <1>11, <1>12, <1>13

-----------------------------------------------------------------------------
(* Types, the flow's fields and what was vouched for, along every step.    *)
Base == Typed /\ FlowsOK /\ JobOK /\ ViewOK /\ Vouched(flow) /\ Vouched(job.flow)
FlowGood(f) == f \in Flows /\ FlowOK(f) /\ Vouched(f)

(* A running app over a locked store holds its phrase under the view.      *)
LEMMA RunningLocked ==
  ASSUME Base, app.at = "running", ~Writing, hasVerifier(store)
  PROVE  \E p \in Phrase : Unlocked(store, p) /\ decrypted(store[Identity]) = p
<1>1. job = Idle  BY DEF Base, Typed, JobType, Writing
<1>2. ~LockJob  BY <1>1 DEF LockJob, Idle
<1>3. ViewGood(app.store) /\ get(app.store) \in Phrase  BY <1>2 DEF Base, ViewOK
<1>4. app.store # Plain  BY <1>3 DEF ViewGood, Suits
<1>5. app.store \in View(salts)  BY DEF Base, Typed, Screen
<1>6. app.store.code \in Codes  BY <1>4, <1>5 DEF View
<1> DEFINE p == get(app.store)
<1>7. store[Identity] = sealed(p, app.store.code, app.store.salt)  BY <1>3, <1>4, GetOf DEF Base
<1>8. opens(store, app.store.code) /\ store[SALT_ENTRY] = app.store.salt  BY <1>3, <1>4 DEF ViewGood, Suits
<1>9. decrypted(store[Identity]) = p
  <2>1. store[Identity] # None  BY <1>3, LockAssumption, GetOf DEF Base
  <2> QED  BY <2>1, <1>7 DEF decrypted, sealed
<1> HIDE DEF p
<1>10. p \in Phrase  BY <1>3 DEF p
<1> QED  BY <1>6, <1>7, <1>8, <1>9, <1>10 DEF Unlocked

(* A job keeps the types, if its writes and what it leads to have theirs.  *)
LEMMA TapTyped ==
  ASSUME Typed, NEW name \in Taps, NEW writes, writes # {}, NEW a, NEW f, Starts(name, writes, a, f),
         salts' \in 0 .. MaxSalts, salts <= salts', \A w \in writes : WriteOK(w, salts'),
         a \in Screen(salts'), f \in Flows, PastType'
  PROVE  Typed' /\ job'.flow = f
<1>1. salts \in Nat /\ salts' \in Nat  BY LockAssumption DEF Typed
<1>2. /\ IsArea(store, salts') /\ IsArea(staged, salts') /\ app \in Screen(salts')
  BY <1>1, ViewGrows DEF Typed
<1>3. /\ job'.writes = writes /\ job'.does = name /\ job'.from = store /\ job'.app = a /\ job'.flow = f
      /\ job' = [writes |-> job'.writes, does |-> job'.does, from |-> job'.from, app |-> job'.app, flow |-> job'.flow]
  BY DEF Starts
<1>4. JobType'  BY <1>2, <1>3 DEF JobType
<1>5. UNCHANGED <<store, staged, device, record, app, flow>>  BY DEF Starts
<1> QED  BY <1>2, <1>3, <1>4, <1>5 DEF Typed

(* The flow a restart resumes is at the record's screen, with the phrase   *)
(* the store holds.                                                        *)
LEMMA ResumeFlow ==
  ASSUME Base, NEW l \in BOOLEAN, record.kind = "new"
  PROVE  LET f == shows(record.step, [NoFlow EXCEPT !.locked = l, !.words = get(app.store)])
         IN FlowGood(f) /\ f.step = record.step /\ f.words = get(app.store) /\ f.locked = l /\ record = New(record.step)
            /\ record.step \in NewSteps /\ (record.step = "phrase" => ~f.revealed)
<1>1. record.step \in NewSteps /\ record = New(record.step)
  BY DEF Base, Typed, Records, NewSteps, NoRecord, New, Connect, Join
<1>2. get(app.store) \in Words  BY GetOf DEF Base
<1> DEFINE g == Welcome(l, get(app.store))
<1>3. g \in Flows /\ FlowOK(g) /\ g.mode = "new" /\ g.status = "idle" /\ g.locked = l /\ g.words = get(app.store)
  BY <1>2, NewFlow
<1> HIDE DEF g
<1>4. LET f == shows(record.step, g)
      IN FlowGood(f) /\ f.step = record.step /\ f.words = g.words /\ f.locked = g.locked /\ (record.step = "phrase" => ~f.revealed)
  BY <1>1, <1>3, ShowsOK DEF FlowGood, Base, Typed
<1> QED  BY <1>1, <1>3, <1>4 DEF g, Welcome

(* The flow at the phrase of a new vault.                                  *)
LEMMA BeginFlow ==
  ASSUME Base, flow.step \in {"welcome", "create-code"}, flow.mode = "new", NEW w \in Words
  PROVE  LET f == showPhrase([flow EXCEPT !.words = w])
         IN FlowGood(f) /\ f.step = "phrase" /\ f.words = w /\ f.locked = flow.locked /\ ~f.revealed
<1> DEFINE g == [flow EXCEPT !.words = w]
<1>0. flow \in Flows /\ FlowOK(flow) /\ Vouched(flow)  BY DEF Base, Typed, FlowsOK
<1>1. /\ g \in Flows /\ g.mode = "new" /\ g.status = flow.status /\ g.about = flow.about /\ g.locked = flow.locked
      /\ g.words = w /\ g.step = flow.step /\ g.joiner = flow.joiner /\ g.invited = flow.invited
      /\ g.joinPhrase = flow.joinPhrase
  BY <1>0 DEF Flows
<1>4. FlowOK(g)  BY <1>0, <1>1 DEF FlowOK, Asking, JoinSteps, NewSteps
<1>2. g.status = "found" => g.about \in past.vouched  BY <1>0, <1>1 DEF Vouched
<1> HIDE DEF g
<1>3. "phrase" \in NewSteps /\ shows("phrase", g) = showPhrase(g)  BY DEF NewSteps, shows
<1>5. LET f == shows("phrase", g)
      IN FlowGood(f) /\ f.step = "phrase" /\ f.words = w /\ f.locked = flow.locked /\ ~f.revealed
  BY <1>1, <1>2, <1>3, <1>4, ShowsOK DEF FlowGood, Base, Typed
<1> QED  BY <1>3, <1>5 DEF g

(* The flow at another page of the new vault.                              *)
LEMMA TurnFlow ==
  ASSUME Base, flow.step \in NewSteps, NEW to \in NewSteps
  PROVE  LET f == shows(to, flow)
         IN FlowGood(f) /\ f.step = to /\ f.words = flow.words /\ f.locked = flow.locked /\ (to = "phrase" => ~f.revealed)
<1>0. flow \in Flows /\ FlowOK(flow) /\ Vouched(flow)  BY DEF Base, Typed, FlowsOK
<1>1. flow.mode = "new"  BY <1>0 DEF FlowOK
<1>2. flow.status = "found" => flow.about \in past.vouched  BY <1>0 DEF Vouched
<1> QED  BY <1>0, <1>1, <1>2, ShowsOK DEF FlowGood, Base, Typed

(* The flow once there is a code.                                          *)
LEMMA EnableFlow ==
  ASSUME Base
  PROVE  FlowGood([flow EXCEPT !.locked = TRUE]) /\ [flow EXCEPT !.locked = TRUE].step = flow.step
         /\ [flow EXCEPT !.locked = TRUE].locked
<1> DEFINE g == [flow EXCEPT !.locked = TRUE]
<1>0. flow \in Flows /\ FlowOK(flow) /\ Vouched(flow)  BY DEF Base, Typed, FlowsOK
<1>1. /\ g \in Flows /\ g.mode = flow.mode /\ g.status = flow.status /\ g.about = flow.about /\ g.locked = TRUE
      /\ g.words = flow.words /\ g.step = flow.step /\ g.joiner = flow.joiner /\ g.invited = flow.invited
      /\ g.joinPhrase = flow.joinPhrase /\ g.asked = flow.asked /\ g.joinServer = flow.joinServer
      /\ asking(g) = asking(flow)
  BY <1>0 DEF Flows, asking
<1> HIDE DEF g
<1>2. FlowOK(g)  BY <1>0, <1>1 DEF FlowOK, Asking
<1>3. Vouched(g)  BY <1>0, <1>1 DEF Vouched
<1> QED  BY <1>1, <1>2, <1>3 DEF FlowGood, g

(* Screens that a tap leads to.                                            *)
LEMMA ScreensOK ==
  ASSUME Typed, NEW n \in Nat, salts <= n
  PROVE  /\ Closed \in Screen(n)
         /\ \A view \in View(n) : \A phrase : InFlow(view) \in Screen(n) /\ Ready(view, phrase) \in Screen(n)
         /\ app.store \in View(n) /\ app \in Screen(n)
         /\ \A code \in Codes, salt \in 1 .. n : [code |-> code, salt |-> salt] \in View(n)
<1>1. salts \in Nat  BY LockAssumption DEF Typed
<1>2. app \in Screen(n)  BY <1>1, ViewGrows DEF Typed
<1>3. app.store \in View(n)  BY <1>2 DEF Screen
<1>4. Closed \in Screen(n)  BY ClosedOK
<1>5. \A view \in View(n) : \A phrase : InFlow(view) \in Screen(n) /\ Ready(view, phrase) \in Screen(n)
  BY DEF InFlow, Ready, Screen, Screens
<1> QED  BY <1>2, <1>3, <1>4, <1>5 DEF View

(* After a tap: typed, and the flow it leads to is a good one.             *)
TapGood == Typed' /\ FlowsOK' /\ Vouched(flow)' /\ Vouched(job.flow)'

(* A job keeps the types and the flows, if what it leads to does.          *)
LEMMA TapIsGood ==
  ASSUME Base, NEW name \in Taps, NEW writes, writes # {}, NEW a, NEW f, Starts(name, writes, a, f),
         salts' \in 0 .. MaxSalts, salts <= salts', \A w \in writes : WriteOK(w, salts'),
         a \in Screen(salts'), FlowGood(f), PastType', past'.vouched = past.vouched
  PROVE  TapGood
<1>1. Typed' /\ job'.flow = f  BY TapTyped DEF Base, FlowGood
<1>2. flow' = flow  BY DEF Starts
<1>3. FlowsOK'  BY <1>1, <1>2 DEF FlowGood, FlowsOK, Base
<1>4. Vouched(flow)' /\ Vouched(job.flow)'
  BY <1>1, <1>2 DEF FlowGood, Base, Vouched
<1> QED  BY <1>1, <1>3, <1>4 DEF TapGood

(* How many salts have been drawn is a number.                             *)
LEMMA SaltsNat == ASSUME Typed
      PROVE salts \in Nat /\ salts \in 0 .. MaxSalts /\ MaxSalts \in Nat /\ salts <= salts
  BY LockAssumption DEF Typed

(* The taps that write a record or the identity keep types and flows.      *)
LEMMA SimpleTapGood == ASSUME Base, SimpleTap PROVE TapGood
<1>0. /\ Typed /\ salts \in Nat /\ salts \in 0 .. MaxSalts /\ salts <= salts /\ PastType
  BY SaltsNat DEF Base, Typed
<1>1. /\ Closed \in Screen(salts) /\ app.store \in View(salts)
      /\ \A phrase : InFlow(app.store) \in Screen(salts) /\ Ready(app.store, phrase) \in Screen(salts)
  BY <1>0, ScreensOK
<1>2. \A p \in Phrase : WriteOK(set(app.store, p), salts)  BY <1>0, <1>1, SetOK
<1>3. \A r \in Records : WriteOK(WriteRecord(r), salts)  BY RecordOK
<1>4. \A step \in NewSteps : New(step) \in Records  BY DEF NewSteps, Records
<1>5. FlowGood(NoFlow)  BY NoFlowOK DEF FlowGood
<1>6. flow \in Flows /\ flow.address \in Addresses /\ flow.words \in Words  BY <1>0 DEF Typed, Flows
<1>7. UNCHANGED past => PastType' /\ past'.vouched = past.vouched
  BY <1>0 DEF PastType
<1>8. UNCHANGED salts => salts' \in 0 .. MaxSalts /\ salts <= salts' /\ salts' = salts  BY <1>0
<1>9. CASE Resumes
  <2> DEFINE f == shows(record.step, [NoFlow EXCEPT !.locked = (app.at = "opened"), !.words = get(app.store)])
  <2>1. FlowGood(f) /\ record.step \in NewSteps
    BY <1>9, ResumeFlow DEF Resumes
  <2>2. Starts("resume", {WriteRecord(New(record.step))}, InFlow(app.store), f) /\ UNCHANGED <<salts, past>>
    BY <1>9 DEF Resumes
  <2> HIDE DEF f
  <2>3. \A w \in {WriteRecord(New(record.step))} : WriteOK(w, salts')  BY <2>1, <2>2, <1>3, <1>4
  <2> QED  BY <2>1, <2>2, <2>3, <1>1, <1>7, <1>8, TapIsGood DEF Taps, SimpleTaps
<1>10. CASE Begins
  <2>0. "phrase" \in NewSteps /\ \A p \in Minted : p \in Phrase /\ p \in Words
    BY EntryAssumption DEF NewSteps, Words
  <2>1. ASSUME NEW p \in Minted, Draws(p), UNCHANGED salts PROVE TapGood
    <3> DEFINE f == showPhrase([flow EXCEPT !.words = p])
               W == {set(app.store, p), WriteRecord(New("phrase"))}
    <3>1. FlowGood(f)  BY <1>10, <2>0, BeginFlow DEF Begins
    <3>2. Starts("begin", W, InFlow(app.store), f)  BY <2>1 DEF Draws
    <3>3. \A w \in W : WriteOK(w, salts')  BY <2>0, <2>1, <1>2, <1>3, <1>4
    <3>4. PastType' /\ past'.vouched = past.vouched
      BY <2>1, <1>0 DEF Draws, PastType
    <3> HIDE DEF f
    <3> QED  BY <3>1, <3>2, <3>3, <3>4, <2>1, <1>1, <1>8, TapIsGood DEF Taps, SimpleTaps
  <2>2. ASSUME Redraws, UNCHANGED salts PROVE TapGood
    <3> DEFINE f == showPhrase([flow EXCEPT !.words = get(app.store)])
               W == {WriteRecord(New("phrase"))}
    <3>0. get(app.store) \in Words  BY GetOf, <1>0
    <3>1. FlowGood(f)  BY <1>10, <3>0, BeginFlow DEF Begins
    <3>2. Starts("begin", W, InFlow(app.store), f)  BY <2>2 DEF Redraws
    <3>3. \A w \in W : WriteOK(w, salts')  BY <2>0, <2>2, <1>3, <1>4
    <3>4. PastType' /\ past'.vouched = past.vouched
      BY <2>2, <1>7 DEF Redraws
    <3> HIDE DEF f
    <3> QED  BY <3>1, <3>2, <3>3, <3>4, <2>2, <1>1, <1>8, TapIsGood DEF Taps, SimpleTaps
  <2> QED  BY <1>10, <2>1, <2>2 DEF Begins
<1>11. CASE Pages
  <2>1. ASSUME NEW name \in {"back", "written", "checked"}, NEW from \in NewSteps, NEW to \in NewSteps,
           TurnsFrom(name, from, to)
        PROVE  TapGood
    <3> DEFINE f == shows(to, flow)
    <3>1. FlowGood(f)  BY <2>1, TurnFlow DEF TurnsFrom
    <3>2. Starts(name, {WriteRecord(New(to))}, InFlow(app.store), f) /\ UNCHANGED <<salts, past>>
      BY <2>1 DEF TurnsFrom
    <3>3. \A w \in {WriteRecord(New(to))} : WriteOK(w, salts')  BY <2>1, <3>2, <1>3, <1>4
    <3> HIDE DEF f
    <3> QED  BY <3>1, <3>2, <3>3, <1>1, <1>7, <1>8, TapIsGood DEF Taps, SimpleTaps
  <2> QED  BY <1>11, <2>1 DEF Pages, NewSteps
<1>12. CASE Finishes
  <2>1. PICK to \in {Connect(flow.address), NoRecord} :
          Starts("finish", {WriteRecord(to)}, Ready(app.store, get(app.store)), NoFlow)
    BY <1>12 DEF Finishes
  <2>2. to \in Records  BY <1>6 DEF Records
  <2>3. UNCHANGED <<salts, past>>  BY <1>12 DEF Finishes
  <2>4. \A w \in {WriteRecord(to)} : WriteOK(w, salts')  BY <2>2, <2>3, <1>3
  <2> QED  BY <2>1, <2>3, <2>4, <1>1, <1>5, <1>7, <1>8, TapIsGood DEF Taps, SimpleTaps
<1>13. CASE Joins
  <2>1. PICK p \in Brought, server \in Addresses :
          Starts("join", {set(app.store, p), WriteRecord(Join(server))}, Ready(app.store, p), NoFlow)
    BY <1>13 DEF Joins
  <2>2. p \in Phrase /\ Join(server) \in Records  BY DEF Records, Brought
  <2>3. UNCHANGED <<salts, past>>  BY <1>13 DEF Joins
  <2>4. \A w \in {set(app.store, p), WriteRecord(Join(server))} : WriteOK(w, salts')  BY <2>2, <2>3, <1>2, <1>3
  <2> QED  BY <2>1, <2>3, <2>4, <1>1, <1>5, <1>7, <1>8, TapIsGood DEF Taps, SimpleTaps
<1>14. CASE Replaces
  <2>1. PICK p \in Brought : Starts("replace", {set(app.store, p)}, Closed, NoFlow)
    BY <1>14 DEF Replaces
  <2>2. UNCHANGED <<salts, past>> /\ p \in Phrase  BY <1>14 DEF Replaces, Brought
  <2>4. \A w \in {set(app.store, p)} : WriteOK(w, salts')  BY <2>2, <1>2
  <2> QED  BY <2>1, <2>2, <2>4, <1>1, <1>5, <1>7, <1>8, TapIsGood DEF Taps, SimpleTaps
<1> QED  BY <1>9, <1>10, <1>11, <1>12, <1>13, <1>14 DEF SimpleTap

(* The plans the lock starts with.                                         *)
LEMMA ClearStaging == clearStaging = {Drop(1, "staged", name) : name \in {n \in Name : staged[n] # None}}
  BY DEF clearStaging, Held

(* The operations on the lock keep types and flows.                        *)
LEMMA LockTapGood == ASSUME Base, LockTap PROVE TapGood
<1>0. /\ Typed /\ salts \in Nat /\ salts \in 0 .. MaxSalts /\ salts <= salts /\ PastType /\ MaxSalts \in Nat
  BY SaltsNat DEF Base, Typed
<1>1. UNCHANGED past => PastType' /\ past'.vouched = past.vouched
  BY <1>0 DEF PastType
<1>2. DrawsSalt => /\ salts' \in 1 .. MaxSalts /\ salts' \in Nat /\ salts <= salts' /\ salts' = salts + 1 /\ salts' \in 0 .. MaxSalts
                   /\ salts' \in 1 .. salts'
  BY <1>0 DEF DrawsSalt
<1>3. FlowGood(NoFlow) /\ FlowGood(flow) /\ FlowGood([flow EXCEPT !.locked = TRUE])
  BY NoFlowOK, EnableFlow DEF FlowGood, Base, Typed, FlowsOK
<1>4. ASSUME NEW phrase, NEW code \in Six, NEW order, DrawsSalt
      PROVE \A w \in clearStaging \cup staging(generation(phrase, code)) \cup promoteStaged(generation(phrase, code), order) :
              WriteOK(w, salts')
  <2>1. IsArea(generated(phrase, code, salts'), salts')  BY <1>2, <1>4, GeneratedArea DEF Codes
  <2>2. generation(phrase, code) = generated(phrase, code, salts')  BY <1>2, <1>4 DEF generation
  <2>3. \A w \in LockPlan(generated(phrase, code, salts'), order, {}) : WriteOK(w, salts')
    BY <2>1, <1>2, <1>4, LockPlanTyped
  <2> QED  BY <2>2, <2>3, ClearStaging DEF LockPlan
<1>5. CASE Enables
  <2>0. DrawsSalt /\ UNCHANGED past  BY <1>5 DEF Enables
  <2>1. \A code \in Six : (\A w \in enableDeviceLock(code) : WriteOK(w, salts')) /\ enableDeviceLock(code) # {}
    BY <1>4, <2>0, PlansWrite DEF enableDeviceLock
  <2>2. PICK code \in Six :
       \/ app.at = "setup" /\ Starts("enable", enableDeviceLock(code),
                                     Ready([code |-> code, salt |-> salts + 1], store[Identity]), flow)
       \/ app.at = "flow" /\ flow.step = "create-code" /\ ~flow.locked
          /\ Starts("enable", enableDeviceLock(code), InFlow([code |-> code, salt |-> salts + 1]),
                    [flow EXCEPT !.locked = TRUE])
       \/ app.at = "running" /\ ~hasVerifier(store) /\ Starts("enable", enableDeviceLock(code), Closed, NoFlow)
    BY <1>5 DEF Enables
  <2>3. [code |-> code, salt |-> salts + 1] \in View(salts')
    BY <1>0, <1>2, <2>0, ScreensOK DEF Codes
  <2>4. /\ Closed \in Screen(salts') /\ InFlow([code |-> code, salt |-> salts + 1]) \in Screen(salts')
        /\ Ready([code |-> code, salt |-> salts + 1], store[Identity]) \in Screen(salts')
    BY <1>0, <1>2, <2>0, <2>3, ScreensOK
  <2>5. \E a \in Screen(salts') : \E f \in {NoFlow, flow, [flow EXCEPT !.locked = TRUE]} : Starts("enable", enableDeviceLock(code), a, f)
    BY <2>2, <2>4
  <2>6. "enable" \in Taps  BY DEF Taps
  <2> QED  BY <2>0, <2>1, <2>5, <2>6, <1>1, <1>2, <1>3, TapIsGood
<1>6. CASE Changes
  <2>0. DrawsSalt /\ UNCHANGED past  BY <1>6 DEF Changes
  <2>1. PICK code \in Six : Starts("change", changeUnlockCode(code), Closed, NoFlow)  BY <1>6 DEF Changes
  <2>2. (\A w \in changeUnlockCode(code) : WriteOK(w, salts')) /\ changeUnlockCode(code) # {}
    BY <1>4, <2>0, PlansWrite DEF changeUnlockCode
  <2>3. Closed \in Screen(salts')  BY <1>2, <2>0, ClosedOK
  <2>4. "change" \in Taps  BY DEF Taps
  <2> QED  BY <2>0, <2>1, <2>2, <2>3, <2>4, <1>1, <1>2, <1>3, TapIsGood
<1>7. CASE Disables
  <2>0. UNCHANGED <<salts,
           past>> /\ Starts("disable", disableDeviceLock, Closed, NoFlow) /\ app.at = "running" /\ ~Writing /\ hasVerifier(store)
    BY <1>7 DEF Disables, Starts
  <2>1. PICK p \in Phrase : decrypted(store[Identity]) = p  BY <2>0, RunningLocked
  <2> DEFINE goal == [Nothing EXCEPT ![Identity] = p]
  <2>2. IsArea(goal, salts)  BY Names DEF Nothing, IsArea, Identities
  <2>3. \A w \in LockPlan(goal, "ordinary-first", FinalDrops) : WriteOK(w, salts)
    BY <2>2, <1>0, LockPlanTyped
  <2>4. disableDeviceLock \subseteq LockPlan(goal, "ordinary-first", FinalDrops)
    BY <2>1, ClearStaging DEF disableDeviceLock, LockPlan, FinalDrops
  <2>5. disableDeviceLock # {} /\ (\A w \in disableDeviceLock : WriteOK(w, salts'))
    BY <2>0, <2>3, <2>4, PlansWrite
  <2>6. "disable" \in Taps /\ Closed \in Screen(salts')  BY <2>0, <1>0, ClosedOK DEF Taps
  <2>7. salts' \in 0 .. MaxSalts /\ salts <= salts'  BY <2>0, <1>0
  <2> QED  BY <2>0, <2>5, <2>6, <2>7, <1>1, <1>3, TapIsGood
<1> QED  BY <1>5, <1>6, <1>7 DEF LockTap

(* The erase and the unlock keep types and flows.                          *)
LEMMA OtherTapGood == ASSUME Base, Erases \/ Unlocks PROVE TapGood
<1>0. /\ Typed /\ salts \in Nat /\ salts \in 0 .. MaxSalts /\ salts <= salts /\ PastType /\ MaxSalts \in Nat
  BY SaltsNat DEF Base, Typed
<1>1. UNCHANGED past => PastType' /\ past'.vouched = past.vouched
  BY <1>0 DEF PastType
<1>2. FlowGood(NoFlow) /\ FlowGood(flow)
  BY NoFlowOK DEF FlowGood, Base, Typed, FlowsOK
<1>3. "reset" \in Taps /\ "unlock" \in Taps  BY DEF Taps
<1>4. CASE Erases
  <2> DEFINE W == resetDeviceKeyStore \cup {WriteRecord(NoRecord)}
  <2>1. Starts("reset", W, Closed, NoFlow) /\ UNCHANGED <<salts, past>>  BY <1>4 DEF Erases
  <2>2. \A name \in Name, area \in {"store", "staged"} : WriteOK(Drop(1, area, name), salts)
    BY Names DEF WriteOK, Drop, Put, Identities
  <2>3. \A w \in W : WriteOK(w, salts')
    BY <2>1, <2>2, RecordOK DEF resetDeviceKeyStore, Held, Records
  <2>4. Closed \in Screen(salts') /\ W # {} /\ salts' \in 0 .. MaxSalts /\ salts <= salts'
    BY <2>1, <1>0, ClosedOK
  <2> HIDE DEF W
  <2> QED  BY <2>1, <2>3, <2>4, <1>1, <1>2, <1>3, TapIsGood
<1>5. CASE Unlocks /\ MarksShape
  <2>1. PICK code \in Six :
         /\ opens(store, code)
         /\ Starts("unlock", {Put(1, "store", CODE_SHAPE_ENTRY, DIGITS_6)}, [at |-> "opened", store |-> Locked(code)], flow)
    BY <1>5 DEF MarksShape
  <2>2. UNCHANGED <<salts, past>>  BY <1>5 DEF MarksShape, Unlocks
  <2>3. \A w \in {Put(1, "store", CODE_SHAPE_ENTRY, DIGITS_6)} : WriteOK(w, salts')
    BY Names DEF WriteOK, Put
  <2>4. store[SALT_ENTRY] \in 1 .. salts  BY <2>1, <1>0 DEF opens, Typed, IsArea
  <2>5. Locked(code) \in View(salts)  BY <2>4, <1>0, ScreensOK DEF Locked, Codes
  <2>6. [at |-> "opened", store |-> Locked(code)] \in Screen(salts')
    BY <2>2, <2>5 DEF Screen, Screens
  <2>7. salts' \in 0 .. MaxSalts /\ salts <= salts'  BY <2>2, <1>0
  <2> QED  BY <2>1, <2>2, <2>3, <2>6, <2>7, <1>1, <1>2, <1>3, TapIsGood
<1>6. CASE Unlocks /\ FillsSalt
  <2>1. /\ Starts("unlock", {Put(1, "store", SALT_ENTRY, salts + 1)}, app, flow)
        /\ salts' = salts + 1 /\ salts' \in 0 .. MaxSalts /\ salts <= salts' /\ salts' \in Nat /\ UNCHANGED past
    BY <1>0, <1>6 DEF FillsSalt, DrawsSalt, Unlocks
  <2>2. \A w \in {Put(1, "store", SALT_ENTRY, salts + 1)} : WriteOK(w, salts')
    BY <2>1, <1>0, Names DEF WriteOK, Put
  <2>3. app \in Screen(salts')  BY <2>1, <1>0, ScreensOK
  <2> QED  BY <2>1, <2>2, <2>3, <1>1, <1>2, <1>3, TapIsGood
<1> QED  BY <1>4, <1>5, <1>6 DEF Unlocks

(* One write of the job under way.                                         *)
LandsOn(w) ==
  \/ /\ w.area = "store" /\ w.name \in Name /\ store' = [store EXCEPT ![w.name] = w.value]
     /\ UNCHANGED <<staged, record>>
  \/ /\ w.area = "staged" /\ w.name \in Name /\ staged' = [staged EXCEPT ![w.name] = w.value]
     /\ UNCHANGED <<store, record>>
  \/ /\ w.area = "record" /\ w = WriteRecord(w.value) /\ w.value \in Records /\ record' = w.value
     /\ UNCHANGED <<store, staged>>
Writes(w) ==
  /\ w \in job.writes /\ WriteOK(w, salts) /\ LandsOn(w)
  /\ \A other \in job.writes : w.turn <= other.turn
  /\ IF job.writes \ {w} = {} THEN app' = job.app /\ flow' = job.flow /\ job' = Idle
     ELSE job' = [job EXCEPT !.writes = job.writes \ {w}] /\ UNCHANGED <<app, flow>>
  /\ UNCHANGED <<salts, device, past>>

(* A write is one of the job's, of the least turn, and lands where it      *)
(* says.                                                                   *)
LEMMA WriteIs == ASSUME Typed, Write PROVE Writing /\ \E w : Writes(w)
<1>1. PICK w \in Due :
       LET rest == job.writes \ {w}
       IN /\ Lands(w)
          /\ IF rest = {} THEN app' = job.app /\ flow' = job.flow /\ job' = Idle
             ELSE job' = [job EXCEPT !.writes = rest] /\ UNCHANGED <<app, flow>>
  BY DEF Write
<1>2. w \in job.writes /\ \A other \in job.writes : w.turn <= other.turn  BY DEF Due
<1>3. WriteOK(w, salts)  BY <1>2 DEF Typed, JobType
<1>4. CASE w.area = "store"
  <2>1. w.name \in Name  BY <1>3, <1>4 DEF WriteOK, WriteRecord, Put
  <2> QED  BY <1>1, <1>2, <1>3, <1>4, <2>1 DEF Writes, LandsOn, Lands, Write, Writing
<1>5. CASE w.area = "staged"
  <2>1. w.name \in Name  BY <1>3, <1>5 DEF WriteOK, WriteRecord, Put
  <2> QED  BY <1>1, <1>2, <1>3, <1>5, <2>1 DEF Writes, LandsOn, Lands, Write, Writing
<1>6. CASE w.area \notin {"store", "staged"}
  <2>1. PICK r \in Records : w = WriteRecord(r)  BY <1>3, <1>6 DEF WriteOK
  <2>2. w.area = "record" /\ w.value = r  BY <2>1 DEF WriteRecord, Put
  <2> QED  BY <1>1, <1>2, <1>3, <1>6, <2>1, <2>2 DEF Writes, LandsOn, Lands, Write, Writing
<1> QED  BY <1>4, <1>5, <1>6

(* No job, as a job.                                                       *)
LEMMA IdleTyped ==
  ASSUME NEW n \in Nat
  PROVE  Idle.writes = {} /\ Idle.does = "none" /\ IsArea(Idle.from, n) /\ Idle.app = Closed /\ Idle.flow = NoFlow
         /\ Idle = [writes |-> Idle.writes, does |-> Idle.does, from |-> Idle.from, app |-> Idle.app, flow |-> Idle.flow]
  BY DEF Idle, IsArea, Nothing, Identities, Name, RESERVED

(* A write keeps types and flows.                                          *)
LEMMA WriteGood == ASSUME Base, Write PROVE TapGood
<1>0. /\ Typed /\ salts \in Nat /\ PastType /\ FlowsOK /\ Vouched(flow) /\ Vouched(job.flow) /\ JobType
  BY SaltsNat DEF Base, Typed
<1>1. PICK w : Writes(w)  BY <1>0, WriteIs
<1>2. UNCHANGED <<salts, device, past>>  BY <1>1 DEF Writes
<1>3. IsArea(store, salts)' /\ IsArea(staged, salts)' /\ (record \in Records)'
  <2>0. IsArea(store, salts) /\ IsArea(staged, salts) /\ record \in Records  BY <1>0 DEF Typed
  <2>1. CASE w.area = "record"  BY <1>1, <1>2, <2>0, <2>1 DEF Writes, LandsOn, IsArea, Name
  <2>2. CASE w.area # "record"
    <3>1. /\ w.name \in Name
          /\ w.name = Identity => w.value \in Identities(salts)
          /\ w.name = SALT_ENTRY => w.value \in 1 .. salts \cup {None}
          /\ w.name = CHECK_ENTRY => w.value \in Ciphered(salts) \cup {None}
          /\ w.name = CODE_SHAPE_ENTRY => w.value \in {DIGITS_6, None}
      BY <1>1, <2>2 DEF Writes, WriteOK, WriteRecord, Put
    <3>2. ASSUME NEW area, IsArea(area, salts) PROVE IsArea([area EXCEPT ![w.name] = w.value], salts)
      BY <3>1, <3>2, Names DEF IsArea
    <3>3. /\ store' = store \/ store' = [store EXCEPT ![w.name] = w.value]
          /\ staged' = staged \/ staged' = [staged EXCEPT ![w.name] = w.value]
          /\ record' = record
      BY <1>1, <2>2 DEF Writes, LandsOn
    <3>4. IsArea(store', salts) /\ IsArea(staged', salts)  BY <2>0, <3>2, <3>3
    <3> QED  BY <2>0, <3>3, <3>4, <1>2
  <2> QED  BY <2>1, <2>2
<1>4. CASE job.writes \ {w} = {}
  <2>1. app' = job.app /\ flow' = job.flow /\ job' = Idle  BY <1>1, <1>4 DEF Writes
  <2>2. job.app \in Screen(salts) /\ job.flow \in Flows  BY <1>0 DEF JobType
  <2>3. JobType'
    <3>1. Closed \in Screen(salts) /\ NoFlow \in Flows  BY <1>0, ClosedOK, NoFlowOK
    <3>2. job' = [writes |-> job'.writes, does |-> job'.does, from |-> job'.from, app |-> job'.app, flow |-> job'.flow]
          /\ job'.writes = {} /\ job'.does = "none" /\ IsArea(job'.from, salts) /\ job'.app = Closed /\ job'.flow = NoFlow
      BY <2>1, <1>0, IdleTyped
    <3> QED  BY <2>1, <3>1, <3>2, <1>2 DEF JobType, Taps
  <2>4. Typed'  BY <1>0, <1>2, <1>3, <2>1, <2>2, <2>3 DEF Typed, PastType
  <2>5. FlowsOK' /\ Vouched(flow)' /\ Vouched(job.flow)'
    <3>1. FlowOK(NoFlow) /\ Vouched(NoFlow)  BY NoFlowOK
    <3>2. job'.flow = NoFlow  BY <2>1, <1>0, IdleTyped
    <3>3. FlowOK(job.flow) /\ Vouched(job.flow)  BY <1>0 DEF FlowsOK
    <3>4. Vouched(NoFlow)'  BY DEF Vouched, NoFlow
    <3> QED  BY <2>1, <3>1, <3>2, <3>3, <3>4, <1>2 DEF FlowsOK, Vouched
  <2> QED  BY <2>4, <2>5 DEF TapGood
<1>5. CASE job.writes \ {w} # {}
  <2>1. job' = [job EXCEPT !.writes = job.writes \ {w}] /\ UNCHANGED <<app, flow>>  BY <1>1, <1>5 DEF Writes
  <2>2. JobType'
    BY <1>0, <1>2, <1>5, <2>1 DEF JobType
  <2>3. Typed'  BY <1>0, <1>2, <1>3, <2>1, <2>2 DEF Typed, PastType
  <2>4. job'.flow = job.flow  BY <2>1, <1>0 DEF JobType
  <2> QED  BY <1>0, <1>2, <2>1, <2>3, <2>4 DEF TapGood, FlowsOK, Vouched
<1> QED  BY <1>4, <1>5

(* The app closed or killed: types and flows.                              *)
LEMMA StopGood == ASSUME Base, Kill \/ CloseApp PROVE TapGood
<1>0. /\ Typed /\ salts \in Nat /\ PastType /\ FlowsOK /\ Vouched(flow) /\ Vouched(job.flow) /\ JobType
  BY SaltsNat DEF Base, Typed
<1>1. app' = Closed /\ flow' = NoFlow /\ job' \in {job, Idle} /\ UNCHANGED <<store, staged, salts, device,
                                                                 record>>
      /\ (job' = Idle \/ job.writes = {})
  BY DEF Kill, CloseApp, Writing
<1>2. job' = Idle
  BY <1>0, <1>1 DEF JobType
<1>3. PastType'
  <2>1. CASE Kill
    <3>1. past'.kills = past.kills + 1 /\ past.kills < MaxKills /\ past'.minted = past.minted
          /\ past' = [minted |-> past'.minted, revealed |-> past'.revealed, vouched |-> past'.vouched,
                      torn |-> past'.torn, kills |-> past'.kills, fresh |-> past'.fresh]
      <4> DEFINE T == IF store = job.from /\ job.does # "reset" THEN past.torn ELSE past.torn \cup {job.does}
      <4>1. past' = [past EXCEPT !.kills = past.kills + 1, !.vouched = {}, !.torn = T]  BY <2>1 DEF Kill
      <4> HIDE DEF T
      <4> QED  BY <4>1, <2>1, <1>0 DEF Kill, PastType
    <3>2. past.kills \in 0 .. MaxKills /\ MaxKills \in Nat /\ past.minted \subseteq Minted
      BY <1>0, EntryAssumption DEF PastType
    <3> QED  BY <3>1, <3>2 DEF PastType
  <2>2. CASE CloseApp  BY <1>0, <2>2 DEF CloseApp, PastType
  <2> QED  BY <2>1, <2>2
<1>4. Closed \in Screen(salts) /\ NoFlow \in Flows /\ FlowOK(NoFlow) /\ Vouched(NoFlow)'
  BY <1>0, ClosedOK, NoFlowOK DEF Vouched, NoFlow
<1>5. job' = [writes |-> job'.writes, does |-> job'.does, from |-> job'.from, app |-> job'.app, flow |-> job'.flow]
      /\ job'.writes = {} /\ job'.does = "none" /\ IsArea(job'.from, salts) /\ job'.app = Closed /\ job'.flow = NoFlow
  BY <1>2, <1>0, IdleTyped
<1>6. JobType'  BY <1>1, <1>2, <1>4, <1>5 DEF JobType, Taps
<1> QED  BY <1>0, <1>1, <1>3, <1>4, <1>5, <1>6 DEF TapGood, Typed, FlowsOK, Vouched

(* The gates keep types and flows.                                         *)
LEMMA GateGood == ASSUME Base, Gate PROVE TapGood
<1>0. /\ Typed /\ salts \in Nat /\ PastType /\ FlowsOK /\ Vouched(flow) /\ Vouched(job.flow) /\ JobType
  BY SaltsNat DEF Base, Typed
<1>1. UNCHANGED <<store, staged, salts, device, job, past>>  BY DEF Gate
<1>2. /\ app.store \in View(salts)
      /\ \A view \in View(salts) : \A phrase : InFlow(view) \in Screen(salts) /\ Ready(view, phrase) \in Screen(salts)
      /\ \A code \in Codes, salt \in 1 .. salts : [code |-> code, salt |-> salt] \in View(salts)
  BY <1>0, ScreensOK
<1>3. app' \in Screen(salts) /\ FlowGood(flow') /\ record' \in Records
  <2>0. FlowGood(flow) /\ record \in Records  BY <1>0 DEF FlowGood, Typed, FlowsOK
  <2>1. CASE FirstRuns
    <3> DEFINE l == (app.at = "opened")
    <3>1. l \in BOOLEAN /\ None \in Words  BY DEF Words
    <3>2. FlowGood(Welcome(l, None))  BY <3>1, NewFlow DEF FlowGood
    <3>4. flow' = [NoFlow EXCEPT !.locked = l]  BY <2>1 DEF FirstRuns
    <3> HIDE DEF l
    <3>3. Welcome(l, None) = [NoFlow EXCEPT !.locked = l]  BY <3>1, PlainWelcome
    <3> QED  BY <2>1, <3>2, <3>3, <3>4, <1>2 DEF FirstRuns, Records
  <2>2. CASE Readies  BY <2>0, <2>2, <1>2 DEF Readies
  <2>3. CASE AsksSetup \/ AsksCode
    BY <2>0, <2>3 DEF AsksSetup, AsksCode, Screen, Screens, View
  <2>4. CASE Opens
    <3>1. PICK code \in Codes : opens(store, code) /\ app' = [at |-> "opened", store |-> Locked(code)]
      BY <2>4 DEF Opens
    <3>2. store[SALT_ENTRY] \in 1 .. salts  BY <3>1, <1>0 DEF opens, Typed, IsArea
    <3>3. Locked(code) \in View(salts)  BY <3>2, <1>2 DEF Locked
    <3> QED  BY <2>0, <2>4, <3>1, <3>3 DEF Opens, Screen, Screens
  <2> QED  BY <2>1, <2>2, <2>3, <2>4 DEF Gate
<1>4. JobType' /\ PastType'  BY <1>0, <1>1 DEF JobType, PastType
<1>5. Typed'  BY <1>0, <1>1, <1>3, <1>4 DEF Typed, FlowGood
<1> QED  BY <1>0, <1>1, <1>3, <1>5 DEF TapGood, FlowGood, FlowsOK, Vouched

(* Every kind of step keeps types and flows.                               *)
LEMMA KindGood == ASSUME Base, Kind PROVE TapGood
<1>0. /\ Typed /\ PastType /\ FlowsOK /\ Vouched(flow) /\ Vouched(job.flow) /\ JobType
  BY DEF Base, Typed
<1>1. CASE Moves
  <2>1. FlowMove /\ flow' \in Flows /\ FlowOK(flow') /\ Vouched(flow)'  BY <1>1 DEF Moves
  <2>2. UNCHANGED <<store, staged, salts, device, record, app, job>> /\ past.vouched \subseteq past'.vouched
        /\ past' = [past EXCEPT !.revealed = past'.revealed, !.vouched = past'.vouched]
    BY <2>1 DEF FlowMove
  <2>3. PastType'  BY <1>0, <2>2 DEF PastType
  <2>4. JobType'  BY <1>0, <2>2 DEF JobType
  <2>5. Vouched(job.flow)'  BY <1>0, <2>2 DEF Vouched
  <2>6. Typed'  BY <1>0, <2>1, <2>2, <2>3, <2>4 DEF Typed
  <2> QED  BY <1>0, <2>1, <2>2, <2>5, <2>6 DEF TapGood, FlowsOK
<1>2. CASE Gate  BY <1>2, GateGood
<1>3. CASE Tap  BY <1>3, SimpleTapGood, LockTapGood, OtherTapGood DEF Tap
<1>4. CASE Adopts \/ UNCHANGED vars
  <2>1. UNCHANGED <<store, staged, salts, device, app, flow, job, past>> /\ record' \in Records
    BY <1>0, <1>4 DEF Adopts, vars, Typed, Records
  <2>2. JobType' /\ PastType'  BY <1>0, <2>1 DEF JobType, PastType
  <2>3. Typed'  BY <1>0, <2>1, <2>2 DEF Typed
  <2> QED  BY <1>0, <2>1, <2>3 DEF TapGood, FlowsOK, Vouched
<1>5. CASE Write  BY <1>5, WriteGood
<1>6. CASE Kill \/ CloseApp  BY <1>6, StopGood
<1> QED  BY <1>1, <1>2, <1>3, <1>4, <1>5, <1>6 DEF Kind

-----------------------------------------------------------------------------
(* What a view reads of a value.                                           *)
Reads(view, value) ==
  IF value = None THEN None
  ELSE IF \E p \in Phrase : value = IF view = Plain THEN p ELSE sealed(p, view.code, view.salt)
       THEN CHOOSE p \in Phrase : value = IF view = Plain THEN p ELSE sealed(p, view.code, view.salt)
       ELSE Unreadable

(* get() is what the view reads of the identity.                           *)
LEMMA GetReads == ASSUME NEW view
      PROVE get(view) = Reads(view, store[Identity]) /\ get(view)' = Reads(view, store'[Identity])
  BY DEF get, Reads

(* A view reads what it wrote.                                             *)
LEMMA ReadsIs ==
  ASSUME NEW n \in 0 .. MaxSalts, NEW view \in View(n), NEW p \in Phrase
  PROVE  /\ Reads(view, IF view = Plain THEN p ELSE sealed(p, view.code, view.salt)) = p
         /\ Reads(view, set(view, p).value) = p
<1> DEFINE value == IF view = Plain THEN p ELSE sealed(p, view.code, view.salt)
           Is(q) == value = (IF view = Plain THEN q ELSE sealed(q, view.code, view.salt))
<1>1. \A q \in Phrase : Is(q) => q = p
  BY DEF sealed
<1>2. Is(p)  OBVIOUS
<1>3. value # None
  <2>1. CASE view = Plain  BY <2>1, LockAssumption
  <2>2. CASE view # Plain  BY <2>2, SealedTyped DEF View
  <2> QED  BY <2>1, <2>2
<1>4. set(view, p).value = value  BY DEF set, Put
<1>5. Reads(view, value) = IF \E q \in Phrase : Is(q) THEN CHOOSE q \in Phrase : Is(q) ELSE Unreadable
  BY <1>3 DEF Reads
<1> HIDE DEF Is, value
<1>6. (CHOOSE q \in Phrase : Is(q)) = p  BY <1>1, <1>2
<1>7. Reads(view, value) = p  BY <1>2, <1>5, <1>6
<1> QED  BY <1>4, <1>7 DEF value

(* A view suits a store for as long as the verifier and the salt are the   *)
(* same.                                                                   *)
LEMMA SuitsKept ==
  ASSUME NEW view, NEW area, NEW after, after[CHECK_ENTRY] = area[CHECK_ENTRY],
           after[SALT_ENTRY] = area[SALT_ENTRY]
  PROVE  Suits(view, after) <=> Suits(view, area)
  BY DEF Suits, hasVerifier, opens

(* Steps that touch neither the store nor a job.                           *)
LEMMA StillOK ==
  ASSUME Base, UNCHANGED <<store, staged, salts, device, app, job>>, flow'.locked = flow.locked
  PROVE  JobOK' /\ ViewOK'
<1>1. JobOK /\ ViewOK  BY DEF Base
<1>2. JobOK'
  BY <1>1 DEF JobOK, Enabling, Changing, Disabling, Erasing, Unlocking, Simple, OnTheWay, Writing, get
<1>3. ViewOK'
  BY <1>1 DEF ViewOK, ViewGood, LockJob, Writing, get
<1> QED  BY <1>2, <1>3

(* The app closed or killed: no job, no view.                              *)
LEMMA StopOK == ASSUME Base, Kill \/ CloseApp PROVE JobOK' /\ ViewOK'
<1>1. app' = Closed /\ job' \in {Idle, job} /\ (job' = Idle \/ job.writes = {})
  BY DEF Kill, CloseApp, Writing
<1>2. job' = Idle  BY <1>1 DEF Base, Typed, JobType
<1> QED  BY <1>1, <1>2 DEF JobOK, ViewOK, Idle, Writing, Closed

(* The given view, wherever a tap or a gate may hand it on.                *)
LEMMA AppView ==
  ASSUME Base, ~Writing, app.at \in {"opened", "flow", "running", "setup"} \/ Unlockable
  PROVE  /\ ViewGood(app.store)
         /\ app.store = Plain => ~hasVerifier(store)
         /\ app.store # Plain => hasVerifier(store)
         /\ job = Idle
<1>1. job = Idle /\ ~LockJob  BY DEF Base, Typed, JobType, Writing, LockJob, Idle
<1>2. ViewGood(app.store)
  <2>1. CASE app.at = "closed"
    BY <2>1 DEF Unlockable, Base, ViewOK, ViewGood, Suits
  <2>2. CASE app.at # "closed"
    BY <1>1, <2>2 DEF Unlockable, Base, ViewOK
  <2> QED  BY <2>1, <2>2
<1>3. app.store # Plain => hasVerifier(store)
  <2> SUFFICES ASSUME app.store # Plain PROVE hasVerifier(store)
    OBVIOUS
  <2>1. app.store \in [code : Codes, salt : 1 .. salts] /\ salts \in 0 .. MaxSalts
    BY DEF Base, Typed, Screen, View
  <2>2. store[CHECK_ENTRY] = sealed(CHECK_VALUE, app.store.code, app.store.salt)
    BY <1>2 DEF ViewGood, Suits, opens
  <2> QED  BY <2>1, <2>2, SealedTyped DEF hasVerifier
<1> QED  BY <1>1, <1>2, <1>3 DEF ViewGood, Suits

(* The gates give the app the view that suits the store.                   *)
LEMMA GateOK == ASSUME Base, Gate PROVE JobOK' /\ ViewOK'
<1>1. ~Writing /\ UNCHANGED <<store, staged, salts, device, job, past>>  BY DEF Gate
<1>2. job = Idle /\ ~Writing' /\ job'.app = Closed /\ Typed /\ (app.at \in {"closed", "unlock", "setup"} => app.store = Plain)
  BY <1>1 DEF Base, Typed, JobType, Writing, Idle, Screen
<1>3. JobOK'  BY <1>2 DEF JobOK
<1>4. ASSUME NEW at, NEW view, NEW l, app' = [at |-> at, store |-> view],
         at \in {"flow", "running", "failed", "setup", "opened"},
             Suits(view, store), at = "running" => get(view) \in Phrase,
             at = "setup" => view = Plain, at = "opened" => view # Plain,
             at = "flow" => (flow'.locked <=> view # Plain)
      PROVE  ViewOK'
  <2>1. at = "running" => get(app.store)' \in Phrase
    BY <1>1, <1>4 DEF get
  <2>2. app'.at = at /\ app'.store = view  BY <1>4
  <2>3. Suits(app'.store, store')  BY <1>1, <1>4
  <2>4. job'.app.at = "closed"  BY <1>2 DEF Closed
  <2> HIDE DEF Writing
  <2> QED  BY <1>4, <2>1, <2>2, <2>3, <2>4 DEF ViewOK, ViewGood
<1>5. Unlockable => /\ Suits(app.store, store) /\ (app.at = "opened" <=> app.store # Plain)
  <2> SUFFICES ASSUME Unlockable PROVE Suits(app.store, store) /\ (app.at = "opened" <=> app.store # Plain)
    OBVIOUS
  <2>1. Suits(app.store, store)  BY <1>1, AppView DEF ViewGood
  <2>2. app.at = "opened" => app.store # Plain  BY DEF Base, ViewOK
  <2> QED  BY <2>1, <2>2, <1>2 DEF Unlockable
<1> SUFFICES ViewOK'  BY <1>3
<1>6. CASE FirstRuns
  <2>1. app' = [at |-> "flow", store |-> app.store] /\ (flow'.locked <=> app.at = "opened") /\ Unlockable
    BY <1>6 DEF FirstRuns, InFlow, NoFlow
  <2> QED  BY <2>1, <1>5, <1>4
<1>7. CASE Readies
  <2>1. Unlockable /\ app' = Ready(app.store, get(app.store))  BY <1>7 DEF Readies
  <2> DEFINE at == IF get(app.store) \in Phrase THEN "running" ELSE "failed"
  <2>2. app' = [at |-> at, store |-> app.store]  BY <2>1 DEF Ready
  <2>3. at \in {"running", "failed"} /\ (at = "running" => get(app.store) \in Phrase)  OBVIOUS
  <2> HIDE DEF at
  <2> QED  BY <2>1, <2>2, <2>3, <1>5, <1>4
<1>8. CASE AsksSetup
  BY <1>8, <1>4 DEF AsksSetup, Suits
<1>9. CASE AsksCode
  BY <1>1, <1>2, <1>9 DEF AsksCode, ViewOK, Closed, hasVerifier
<1>10. CASE Opens
  <2>1. PICK code \in Codes : opens(store, code) /\ app' = [at |-> "opened", store |-> Locked(code)]
    BY <1>10 DEF Opens
  <2>2. Locked(code) # Plain /\ Suits(Locked(code), store)
    BY <2>1, LockAssumption DEF Locked, Plain, Suits
  <2> QED  BY <2>1, <2>2, <1>4
<1> QED  BY <1>6, <1>7, <1>8, <1>9, <1>10 DEF Gate

(* A tap whose writes leave the lock alone.                                *)
SimpleWrites(writes) ==
  /\ \A w \in writes :
       \/ \E r \in Records : w = WriteRecord(r)
       \/ app.at \in {"flow", "running"} /\ \E p \in Phrase : w = set(app.store, p)
  /\ \A v, w \in writes : v.area = "store" /\ w.area = "store" => v = w
HandsOn(writes, a, f) ==
  \/ a = Closed
  \/ a = InFlow(app.store) /\ app.at \in {"closed", "opened", "flow"} /\ (f.locked <=> app.store # Plain)
  \/ \E phrase :
       /\ a = Ready(app.store, phrase)
       /\ phrase \in Phrase => app.at = "flow" /\ (get(app.store) \in Phrase \/ set(app.store, phrase) \in writes)

(* A job of record and identity, as it starts.                             *)
LEMMA SimpleIs ==
  ASSUME Base, NEW name \in SimpleTaps, NEW writes, writes # {}, NEW a, NEW f, Starts(name, writes, a, f),
         app.at \in {"opened", "flow", "running"} \/ Unlockable, SimpleWrites(writes), HandsOn(writes, a, f)
  PROVE  JobOK' /\ ViewOK'
<1>1. /\ job'.writes = writes /\ job'.does = name /\ job'.from = store /\ job'.app = a /\ job'.flow = f
      /\ UNCHANGED <<store, staged, device, record, app, flow>> /\ ~Writing
  BY DEF Starts
<1>2. ViewGood(app.store) /\ job = Idle
  BY <1>1, AppView
<1>3. ~LockJob /\ ~LockJob'
  BY <1>1, <1>2 DEF LockJob, Idle, SimpleTaps
<1>4. get(app.store)' = get(app.store)  BY <1>1 DEF get
<1>5. Simple'
  <2>1. job'.app.at \in {"closed", "flow", "running", "failed"}  BY <1>1 DEF Closed, InFlow, Ready, HandsOn
  <2>2. job'.app.at # "closed" => job'.app.store = app'.store  BY <1>1 DEF Closed, InFlow, Ready, HandsOn
  <2>3. job'.app.at = "flow" => app'.at \in {"closed", "opened", "flow"}
    BY <1>1 DEF Closed, InFlow, Ready, HandsOn
  <2>4. job'.app.at = "running" => app'.at = "flow" /\ (get(app.store)' \in Phrase \/ \E p \in Phrase : set(app'.store, p) \in job'.writes)
    BY <1>1, <1>4 DEF Closed, InFlow, Ready, HandsOn
  <2>5. \A w \in job'.writes :
           \/ \E r \in Records : w = WriteRecord(r)
           \/ app'.at \in {"flow", "running"} /\ \E p \in Phrase : w = set(app'.store, p)
    BY <1>1 DEF SimpleWrites
  <2>6. \A v, w \in job'.writes : v.area = "store" /\ w.area = "store" => v = w  BY <1>1 DEF SimpleWrites
  <2> QED  BY <1>1, <2>1, <2>2, <2>3, <2>4, <2>5, <2>6 DEF Simple
<1>6. ViewOK'
  <2>1. Writing'  BY <1>1 DEF Writing
  <2>2. ViewOK  BY DEF Base
  <2>3. job'.app.at \in {"opened", "flow", "running", "setup"} => Suits(job'.app.store, store')
    BY <1>1, <1>2 DEF Closed, InFlow, Ready, ViewGood, HandsOn
  <2>4. job'.app.at = "flow" => (job'.flow.locked <=> job'.app.store # Plain)
    BY <1>1 DEF Closed, InFlow, Ready, HandsOn
  <2> HIDE DEF Writing
  <2> QED  BY <1>1, <1>2, <1>3, <2>1, <2>2, <2>3, <2>4 DEF ViewOK, ViewGood
<1> QED  BY <1>5, <1>6 DEF JobOK

(* The taps that write a record or the identity keep jobs and views.       *)
LEMMA SimpleTapOK == ASSUME Base, SimpleTap PROVE JobOK' /\ ViewOK'
<1>0. /\ Typed /\ ViewOK /\ (app.at \in {"closed", "unlock", "setup"} => app.store = Plain)
      /\ app.at = "flow" => (flow.locked <=> app.store # Plain)
  BY DEF Base, Typed, Screen, ViewOK
<1>1. \A p, r : set(app.store, p).area = "store" /\ WriteRecord(r).area = "record"
  BY DEF set, WriteRecord, Put
<1>2. \A step \in NewSteps : New(step) \in Records  BY DEF NewSteps, Records
<1>3. flow \in Flows /\ flow.address \in Addresses  BY <1>0 DEF Typed, Flows
<1>4. CASE Resumes
  <2> DEFINE f == shows(record.step, [NoFlow EXCEPT !.locked = (app.at = "opened"), !.words = get(app.store)])
             W == {WriteRecord(New(record.step))}
  <2>1. (f.locked <=> app.at = "opened") /\ record.step \in NewSteps
    BY <1>4, ResumeFlow DEF Resumes
  <2>2. Starts("resume", W, InFlow(app.store), f) /\ Unlockable
    BY <1>4 DEF Resumes
  <2> HIDE DEF f
  <2>3. HandsOn(W, InFlow(app.store), f)  BY <2>1, <2>2, <1>0 DEF Unlockable, ViewOK, HandsOn
  <2>4. SimpleWrites(W)  BY <2>1, <1>2 DEF SimpleWrites
  <2> QED  BY <2>2, <2>3, <2>4, SimpleIs DEF SimpleTaps, Unlockable
<1>5. CASE Begins
  <2>0. "phrase" \in NewSteps /\ \A p \in Minted : p \in Phrase /\ p \in Words
    BY EntryAssumption DEF NewSteps, Words
  <2>1. ASSUME NEW p \in Minted, Draws(p) PROVE JobOK' /\ ViewOK'
    <3> DEFINE f == showPhrase([flow EXCEPT !.words = p])
               W == {set(app.store, p), WriteRecord(New("phrase"))}
    <3>1. f.locked = flow.locked /\ app.at = "flow"  BY <1>5, <2>0, BeginFlow DEF Begins
    <3>2. Starts("begin", W, InFlow(app.store), f)  BY <2>1 DEF Draws
    <3>3. SimpleWrites(W)  BY <2>0, <3>1, <1>1, <1>2 DEF SimpleWrites
    <3> HIDE DEF f
    <3>4. HandsOn(W, InFlow(app.store), f)  BY <3>1, <1>0 DEF HandsOn
    <3> QED  BY <3>1, <3>2, <3>3, <3>4, SimpleIs DEF SimpleTaps
  <2>2. ASSUME Redraws PROVE JobOK' /\ ViewOK'
    <3> DEFINE f == showPhrase([flow EXCEPT !.words = get(app.store)])
               W == {WriteRecord(New("phrase"))}
    <3>0. get(app.store) \in Words  BY GetOf, <1>0
    <3>1. f.locked = flow.locked /\ app.at = "flow"  BY <1>5, <3>0, BeginFlow DEF Begins
    <3>2. Starts("begin", W, InFlow(app.store), f)  BY <2>2 DEF Redraws
    <3>3. SimpleWrites(W)  BY <2>0, <1>2 DEF SimpleWrites
    <3> HIDE DEF f
    <3>4. HandsOn(W, InFlow(app.store), f)  BY <3>1, <1>0 DEF HandsOn
    <3> QED  BY <3>1, <3>2, <3>3, <3>4, SimpleIs DEF SimpleTaps
  <2> QED  BY <1>5, <2>1, <2>2 DEF Begins
<1>6. CASE Pages
  <2>1. ASSUME NEW name \in {"back", "written", "checked"}, NEW from \in NewSteps, NEW to \in NewSteps,
           TurnsFrom(name, from, to)
        PROVE  JobOK' /\ ViewOK'
    <3> DEFINE f == shows(to, flow)
               W == {WriteRecord(New(to))}
    <3>1. f.locked = flow.locked /\ app.at = "flow"  BY <2>1, TurnFlow DEF TurnsFrom
    <3>2. Starts(name, W, InFlow(app.store), f)  BY <2>1 DEF TurnsFrom
    <3>3. SimpleWrites(W)  BY <1>2 DEF SimpleWrites
    <3> HIDE DEF f
    <3>4. HandsOn(W, InFlow(app.store), f)  BY <3>1, <1>0 DEF HandsOn
    <3>5. name \in SimpleTaps /\ W # {}  BY DEF SimpleTaps
    <3> QED  BY <3>1, <3>2, <3>3, <3>4, <3>5, SimpleIs
  <2> QED  BY <1>6, <2>1 DEF Pages, NewSteps
<1>7. CASE Finishes
  <2>1. PICK to \in {Connect(flow.address), NoRecord} :
          Starts("finish", {WriteRecord(to)}, Ready(app.store, get(app.store)), NoFlow)
    BY <1>7 DEF Finishes
  <2>2. to \in Records /\ app.at = "flow"  BY <1>3, <1>7 DEF Records, Finishes
  <2>3. SimpleWrites({WriteRecord(to)})  BY <2>2 DEF SimpleWrites
  <2>4. HandsOn({WriteRecord(to)}, Ready(app.store, get(app.store)), NoFlow)  BY <2>2 DEF HandsOn
  <2> QED  BY <2>1, <2>2, <2>3, <2>4, SimpleIs DEF SimpleTaps
<1>8. CASE Joins
  <2>1. PICK p \in Brought, server \in Addresses :
          Starts("join", {set(app.store, p), WriteRecord(Join(server))}, Ready(app.store, p), NoFlow)
    BY <1>8 DEF Joins
  <2> DEFINE W == {set(app.store, p), WriteRecord(Join(server))}
  <2>2. p \in Phrase /\ Join(server) \in Records /\ app.at = "flow"  BY <1>8 DEF Records, Brought, Joins
  <2>3. SimpleWrites(W)  BY <2>2, <1>1 DEF SimpleWrites
  <2>4. HandsOn(W, Ready(app.store, p), NoFlow)  BY <2>2 DEF HandsOn
  <2> QED  BY <2>1, <2>2, <2>3, <2>4, SimpleIs DEF SimpleTaps
<1>9. CASE Replaces
  <2>1. PICK p \in Brought : Starts("replace", {set(app.store, p)}, Closed, NoFlow)
    BY <1>9 DEF Replaces
  <2>2. p \in Phrase /\ app.at = "running"  BY <1>9 DEF Replaces, Brought
  <2>3. SimpleWrites({set(app.store, p)}) /\ HandsOn({set(app.store, p)}, Closed, NoFlow)
    BY <2>2 DEF SimpleWrites, HandsOn
  <2> QED  BY <2>1, <2>2, <2>3, SimpleIs DEF SimpleTaps
<1> QED  BY <1>4, <1>5, <1>6, <1>7, <1>8, <1>9 DEF SimpleTap

(* What a tap starts is up to date with the store it found.                *)
LEMMA LockTapOK == ASSUME Base, LockTap PROVE JobOK' /\ ViewOK'
<1>0. /\ Typed /\ ViewOK /\ salts \in Nat /\ IsArea(store, salts) /\ staged = [name \in Name |-> staged[name]]
      /\ app.at = "setup" => app.store = Plain
  BY SaltsNat DEF Base, Typed, IsArea, Screen
<1>1. ASSUME NEW name \in {"enable", "change", "disable"}, NEW writes, NEW a, NEW f, Starts(name, writes, a, f),
             a.at = "flow" => (f.locked <=> a.store # Plain)
      PROVE  /\ ViewOK' /\ job'.writes = writes /\ job'.does = name /\ job'.from = store /\ job'.app = a
             /\ UNCHANGED <<store, staged, device, app>>
  <2>1. /\ job'.writes = writes /\ job'.does = name /\ job'.from = store /\ job'.app = a /\ job'.flow = f
        /\ UNCHANGED <<store, staged, device, app, flow>>
    BY <1>1 DEF Starts
  <2>2. LockJob'  BY <2>1, <1>1 DEF LockJob
  <2>3. ~Writing /\ job = Idle
    <3>1. ~Writing  BY <1>1 DEF Starts
    <3> QED  BY <3>1 DEF Base, Typed, JobType, Writing
  <2>4. ~LockJob /\ job.app.at = "closed"  BY <2>3 DEF LockJob, Idle, Closed
  <2>5. get(app.store)' = get(app.store)  BY <2>1 DEF get
  <2>6. hasVerifier(store)' = hasVerifier(store)  BY <2>1 DEF hasVerifier
  <2> HIDE DEF Writing
  <2> QED  BY <1>0, <1>1, <2>1, <2>2, <2>3, <2>4, <2>5, <2>6 DEF ViewOK
<1>2. DrawsSalt => salts' = salts + 1 /\ salts' \in Salt  BY <1>0, LockAssumption DEF DrawsSalt, Salt
<1>3. ASSUME NEW goal, NEW order, NEW drops \in {{}, FinalDrops}, store' = store, staged' = staged,
         job'.from = store,
             job'.writes = clearStaging \cup staging(goal) \cup promoteStaged(goal, order) \cup drops
      PROVE  Follows(LockPlan(goal, order, drops), job'.writes, job'.from, store', staged')
  <2>1. \A y \in drops : y.turn \in Nat /\ y.turn > 1  BY DEF FinalDrops, Drop, Put
  <2>2. job'.writes = {Drop(1, "staged", name) : name \in {n \in Name : staged[n] # None}}
                     \cup staging(goal) \cup promoteStaged(goal, order) \cup drops
    BY <1>3, ClearStaging
  <2> QED  BY <1>0, <1>3, <2>1, <2>2, FollowFrom
<1>4. CASE Enables
  <2>0. DrawsSalt /\ salts' = salts + 1 /\ salts' \in Salt  BY <1>2, <1>4 DEF Enables
  <2>1. PICK code \in Six :
       \/ app.at = "setup" /\ Starts("enable", enableDeviceLock(code),
                                     Ready([code |-> code, salt |-> salts + 1], store[Identity]), flow)
       \/ app.at = "flow" /\ flow.step = "create-code" /\ ~flow.locked
          /\ Starts("enable", enableDeviceLock(code), InFlow([code |-> code, salt |-> salts + 1]),
                    [flow EXCEPT !.locked = TRUE])
       \/ app.at = "running" /\ ~hasVerifier(store) /\ Starts("enable", enableDeviceLock(code), Closed, NoFlow)
    BY <1>4 DEF Enables
  <2> DEFINE goal == generated(store[Identity], code, salts + 1)
             view == [code |-> code, salt |-> salts + 1]
  <2>2. PICK a, f : /\ Starts("enable", enableDeviceLock(code), a, f)
                    /\ a.at = "flow" => (f.locked <=> a.store # Plain)
                    /\ a = Closed \/ a.store = view
                    /\ a.at \in {"closed", "flow", "running", "failed"}
                    /\ a.at = "running" => store[Identity] \in Phrase
    <3>1. view # Plain  BY LockAssumption DEF Plain, Codes
    <3>2. [flow EXCEPT !.locked = TRUE].locked  BY EnableFlow
    <3>3. CASE app.at = "setup" /\ Starts("enable", enableDeviceLock(code), Ready(view, store[Identity]), flow)
      <4> DEFINE a == Ready(view, store[Identity])
      <4>1. a.store = view /\ a.at \in {"running", "failed"} /\ (a.at = "running" => store[Identity] \in Phrase)
        BY DEF Ready
      <4>2. a.at # "flow"  BY <4>1
      <4>3. Starts("enable", enableDeviceLock(code), a, flow)  BY <3>3
      <4> HIDE DEF a, view
      <4> QED  BY <4>1, <4>2, <4>3
    <3>4. CASE Starts("enable", enableDeviceLock(code), InFlow(view), [flow EXCEPT !.locked = TRUE])
      <4> DEFINE f == [flow EXCEPT !.locked = TRUE]
             a == InFlow(view)
      <4>1. f.locked  BY <3>2
      <4>2. Starts("enable", enableDeviceLock(code), a, f)  BY <3>4
      <4>3. a.at = "flow" /\ a.store = view  BY DEF InFlow
      <4> HIDE DEF f, a, view
      <4> QED  BY <3>1, <4>1, <4>2, <4>3
    <3>5. CASE Starts("enable", enableDeviceLock(code), Closed, NoFlow)
      BY <3>5 DEF Closed
    <3> QED  BY <2>1, <3>3, <3>4, <3>5
  <2>3. ~hasVerifier(store) /\ app.at \in {"setup", "flow", "running"} /\ app.store = Plain
    <3>1. ~Writing /\ app.at \in {"setup", "flow", "running"}  BY <2>1 DEF Starts
    <3>2. (app.store = Plain => ~hasVerifier(store)) /\ (app.store # Plain => hasVerifier(store))
      BY <3>1, AppView
    <3>3. app.at = "flow" => ~flow.locked  BY <2>1
    <3>4. app.at = "flow" => app.store = Plain  BY <3>3, <1>0 DEF ViewOK
    <3> QED  BY <2>1, <3>1, <3>2, <3>4, <1>0
  <2>4. /\ ViewOK' /\ job'.writes = enableDeviceLock(code) /\ job'.does = "enable" /\ job'.from = store /\ job'.app = a
        /\ UNCHANGED <<store, staged, device, app>>
    BY <2>2, <1>1
  <2> HIDE DEF view
  <2>5. enableDeviceLock(code) = clearStaging \cup staging(goal) \cup promoteStaged(goal, "verifier-first") \cup {}
    BY DEF enableDeviceLock, generation
  <2> HIDE DEF goal
  <2>6. Follows(LockPlan(goal, "verifier-first", {}), job'.writes, job'.from, store', staged')
    BY <1>3, <2>4, <2>5
  <2>7. Enabling'
    BY <2>0, <2>2, <2>3, <2>4, <2>6 DEF Enabling, OnTheWay, goal, view, hasVerifier
  <2> QED  BY <2>4, <2>7 DEF JobOK
<1>5. CASE Changes
  <2>0. DrawsSalt /\ salts' = salts + 1 /\ salts' \in Salt /\ app.at = "running" /\ hasVerifier(store)
    BY <1>2, <1>5 DEF Changes
  <2>1. PICK code \in Six : Starts("change", changeUnlockCode(code), Closed, NoFlow)  BY <1>5 DEF Changes
  <2>2. PICK p \in Phrase : Unlocked(store, p) /\ decrypted(store[Identity]) = p
    BY <2>0, <2>1, RunningLocked DEF Starts
  <2> DEFINE goal == generated(p, code, salts + 1)
  <2>3. changeUnlockCode(code) = clearStaging \cup staging(goal) \cup promoteStaged(goal, "ordinary-first") \cup {}
    BY <2>2 DEF changeUnlockCode, generation
  <2>4. /\ ViewOK' /\ job'.writes = changeUnlockCode(code) /\ job'.does = "change" /\ job'.from = store /\ job'.app = Closed
        /\ UNCHANGED <<store, staged, device, app>>
    BY <2>1, <1>1 DEF Closed
  <2> HIDE DEF goal
  <2>5. Follows(LockPlan(goal, "ordinary-first", {}), job'.writes, job'.from, store', staged')
    BY <1>3, <2>3, <2>4
  <2>6. Unlocked(job'.from, p)  BY <2>2, <2>4
  <2>7. Changing'
    BY <2>0, <2>4, <2>5, <2>6 DEF Changing, OnTheWay, goal
  <2> QED  BY <2>4, <2>7 DEF JobOK
<1>6. CASE Disables
  <2>0. UNCHANGED salts /\ app.at = "running" /\ hasVerifier(store) /\ ~device.required
        /\ Starts("disable", disableDeviceLock, Closed, NoFlow)
    BY <1>6 DEF Disables
  <2>2. PICK p \in Phrase : Unlocked(store, p) /\ decrypted(store[Identity]) = p
    BY <2>0, RunningLocked DEF Starts
  <2> DEFINE goal == [Nothing EXCEPT ![Identity] = p]
  <2>3. disableDeviceLock = clearStaging \cup staging(goal) \cup promoteStaged(goal, "ordinary-first") \cup FinalDrops
    BY <2>2 DEF disableDeviceLock, FinalDrops
  <2>4. /\ ViewOK' /\ job'.writes = disableDeviceLock /\ job'.does = "disable" /\ job'.from = store /\ job'.app = Closed
        /\ UNCHANGED <<store, staged, device, app>>
    BY <2>0, <1>1 DEF Closed
  <2> HIDE DEF goal
  <2>5. Follows(LockPlan(goal, "ordinary-first", FinalDrops), job'.writes, job'.from, store', staged')
    BY <1>3, <2>3, <2>4
  <2>6. Unlocked(job'.from, p)  BY <2>2, <2>4
  <2>7. Disabling'
    BY <2>0, <2>4, <2>5, <2>6 DEF Disabling, OnTheWay, goal
  <2> QED  BY <2>4, <2>7 DEF JobOK
<1> QED  BY <1>4, <1>5, <1>6 DEF LockTap

(* The erase and the unlock keep jobs and views.                           *)
LEMMA OtherTapOK == ASSUME Base, Erases \/ Unlocks PROVE JobOK' /\ ViewOK'
<1>0. /\ Typed /\ ViewOK /\ app.at = "unlock" /\ ~Writing /\ job = Idle /\ IsArea(store, salts)
  BY DEF Base, Typed, Erases, Unlocks, MarksShape, FillsSalt, Starts, Writing, JobType
<1>1. hasVerifier(store)  BY <1>0 DEF ViewOK
<1>2. ASSUME NEW name \in {"reset", "unlock"}, NEW writes, NEW a, NEW f, writes # {},
         Starts(name, writes, a, f),
             a.at = "opened" => Suits(a.store, store), a.at \notin {"flow", "running", "setup"}
      PROVE  /\ ViewOK' /\ job'.writes = writes /\ job'.does = name /\ job'.from = store /\ job'.app = a
             /\ UNCHANGED <<store, staged, device, app>>
  <2>1. /\ job'.writes = writes /\ job'.does = name /\ job'.from = store /\ job'.app = a /\ job'.flow = f
        /\ UNCHANGED <<store, staged, device, app, flow>>
    BY <1>2 DEF Starts
  <2>2. Writing'  BY <2>1, <1>2 DEF Writing
  <2> HIDE DEF Writing
  <2> QED  BY <1>0, <1>2, <2>1, <2>2 DEF ViewOK, ViewGood
<1>3. CASE Erases
  <2> DEFINE W == resetDeviceKeyStore \cup {WriteRecord(NoRecord)}
  <2>1. Starts("reset", W, Closed, NoFlow)  BY <1>3 DEF Erases
  <2>2. /\ ViewOK' /\ job'.writes = W /\ job'.does = "reset" /\ job'.from = store /\ job'.app = Closed
        /\ UNCHANGED <<store, staged, device, app>>
    <3>1. W # {}  OBVIOUS
    <3> HIDE DEF W
    <3> QED  BY <2>1, <3>1, <1>2 DEF Closed
  <2>3. \A w \in W : w = WriteRecord(NoRecord) \/ \E name \in Name,
                                                  area \in {"store", "staged"} : w = Drop(1, area, name)
    BY DEF resetDeviceKeyStore, Held
  <2>4. \A name \in Name : store[name] # None => Drop(1, "store", name) \in W
    BY DEF resetDeviceKeyStore, Held
  <2>5. WriteRecord(NoRecord) \in W  OBVIOUS
  <2> HIDE DEF W
  <2>6. Erasing'  BY <1>0, <2>2, <2>3, <2>4, <2>5 DEF Erasing
  <2> QED  BY <2>2, <2>6 DEF JobOK
<1>4. CASE Unlocks /\ MarksShape
  <2>1. PICK code \in Six :
         /\ opens(store, code)
         /\ Starts("unlock", {Put(1, "store", CODE_SHAPE_ENTRY, DIGITS_6)}, [at |-> "opened", store |-> Locked(code)], flow)
    BY <1>4 DEF MarksShape
  <2>2. Locked(code) # Plain /\ Suits(Locked(code), store)
    BY <2>1, LockAssumption DEF Locked, Plain, Suits, Codes
  <2>3. store[CHECK_ENTRY].code = code  BY <2>1 DEF opens, sealed
  <2>4. /\ ViewOK' /\ job'.writes = {Put(1, "store", CODE_SHAPE_ENTRY, DIGITS_6)} /\ job'.does = "unlock"
        /\ job'.from = store /\ job'.app = [at |-> "opened", store |-> Locked(code)]
        /\ UNCHANGED <<store, staged, device, app>>
    BY <2>1, <2>2, <1>2
  <2>5. Unlocking'  BY <1>0, <1>1, <2>2, <2>3, <2>4 DEF Unlocking, hasVerifier
  <2> QED  BY <2>4, <2>5 DEF JobOK
<1>5. CASE Unlocks /\ FillsSalt
  <2>1. /\ Starts("unlock", {Put(1, "store", SALT_ENTRY, salts + 1)}, app, flow) /\ salts' = salts + 1
        /\ store[SALT_ENTRY] = None
    BY <1>5 DEF FillsSalt, DrawsSalt
  <2>2. /\ ViewOK' /\ job'.writes = {Put(1, "store", SALT_ENTRY, salts + 1)} /\ job'.does = "unlock"
        /\ job'.from = store /\ job'.app = app /\ UNCHANGED <<store, staged, device, app>>
    BY <2>1, <1>0, <1>2
  <2>3. Unlocking'  BY <1>0, <1>1, <2>1, <2>2 DEF Unlocking, hasVerifier
  <2> QED  BY <2>2, <2>3 DEF JobOK
<1> QED  BY <1>3, <1>4, <1>5 DEF Unlocks

-----------------------------------------------------------------------------
(* A write that lands.                                                     *)
LEMMA PlanWrite ==
  ASSUME Base, NEW w, Writes(w), NEW plan, PlanOK(plan), OnTheWay(plan)
  PROVE  /\ Follows(plan, job.writes \ {w}, job.from, store', staged')
         /\ w.area \in {"store", "staged"}
<1>1. /\ w \in job.writes /\ \A other \in job.writes : w.turn <= other.turn /\ LandsOn(w)
  BY DEF Writes
<1>2. w.area \in {"store", "staged"}  BY <1>1 DEF OnTheWay, Follows, PlanOK
<1>3. store = [name \in Name |-> store[name]] /\ staged = [name \in Name |-> staged[name]]
  BY DEF Base, Typed, IsArea
<1>4. \/ w.area = "store" /\ store' = [store EXCEPT ![w.name] = w.value] /\ staged' = staged
      \/ w.area = "staged" /\ staged' = [staged EXCEPT ![w.name] = w.value] /\ store' = store
  BY <1>1, <1>2 DEF LandsOn
<1> QED  BY <1>1, <1>2, <1>3, <1>4, FollowOn DEF OnTheWay

(* The plans of the three operations on the lock.                          *)
LEMMA GoalsOK ==
  ASSUME NEW p \in Phrase \cup {None}, NEW phrase, NEW code, NEW n, NEW order
  PROVE  /\ PlanOK(LockPlan(generated(phrase, code, n), order, {}))
         /\ PlanOK(LockPlan([Nothing EXCEPT ![Identity] = p], order, FinalDrops))
<1>1. \A name \in Name : [Nothing EXCEPT ![Identity] = p][name] # None => name = Identity
  BY Names DEF Nothing
<1> QED  BY <1>1, LockPlanOK

(* More writes are to come.                                                *)
LEMMA WriteOn ==
  ASSUME Base, NEW w, Writes(w), job.writes \ {w} # {} PROVE JobOK' /\ ViewOK'
<1>1. /\ job' = [job EXCEPT !.writes = job.writes \ {w}] /\ UNCHANGED <<app, flow, salts, device, past>>
      /\ w \in job.writes /\ LandsOn(w) /\ \A other \in job.writes : w.turn <= other.turn
  BY DEF Writes
<1>2. /\ job'.writes = job.writes \ {w} /\ job'.does = job.does /\ job'.from = job.from
      /\ job'.app = job.app /\ job'.flow = job.flow
  BY <1>1 DEF Base, Typed, JobType
<1>3. Writing /\ Writing'  BY <1>1, <1>2 DEF Writing
<1>4. ViewOK /\ JobOK  BY DEF Base
<1>0. store = [name \in Name |-> store[name]] /\ app.store \in View(salts) /\ salts \in 0 .. MaxSalts
  BY DEF Base, Typed, IsArea, Screen
<1>5. LockJob => ViewOK'
  <2>1. LockJob' = LockJob  BY <1>2 DEF LockJob
  <2> HIDE DEF Writing
  <2> QED  BY <1>1, <1>2, <1>3, <1>4, <2>1 DEF ViewOK
<1>6. ~LockJob /\ store'[CHECK_ENTRY] = store[CHECK_ENTRY] /\ store'[SALT_ENTRY] = store[SALT_ENTRY] => ViewOK'
  <2> SUFFICES ASSUME ~LockJob, store'[CHECK_ENTRY] = store[CHECK_ENTRY],
           store'[SALT_ENTRY] = store[SALT_ENTRY] PROVE ViewOK'
    OBVIOUS
  <2>1. ~LockJob'  BY <1>2 DEF LockJob
  <2>2. \A view : Suits(view, store) => Suits(view, store')  BY SuitsKept
  <2> HIDE DEF Writing
  <2> QED  BY <1>1, <1>2, <1>3, <1>4, <2>1, <2>2 DEF ViewOK, ViewGood
<1>7. CASE Enabling
  <2>1. PICK code \in Six :
       /\ OnTheWay(LockPlan(generated(job.from[Identity], code, salts), "verifier-first", {}))
       /\ job.app = Closed \/ job.app.store = [code |-> code, salt |-> salts]
    BY <1>7 DEF Enabling
  <2> DEFINE plan == LockPlan(generated(job.from[Identity], code, salts), "verifier-first", {})
  <2>2. PlanOK(plan)  BY GoalsOK
  <2>3. OnTheWay(plan)'
    <3>1. Follows(plan, job.writes \ {w}, job.from, store', staged')  BY <2>1, <2>2, PlanWrite
    <3> QED  BY <3>1, <1>1, <1>2 DEF OnTheWay
  <2>4. LockJob  BY <1>7 DEF Enabling, LockJob
  <2>5. Enabling'
    <3>1. OnTheWay(LockPlan(generated(job.from[Identity], code, salts), "verifier-first", {}))'  BY <2>3
    <3>2. job'.app = Closed \/ job'.app.store = [code |-> code, salt |-> salts']  BY <2>1, <1>1, <1>2
    <3> QED  BY <3>1, <3>2, <1>1, <1>2, <1>7 DEF Enabling, hasVerifier
  <2> QED  BY <2>4, <2>5, <1>5 DEF JobOK
<1>8. CASE Changing
  <2>1. PICK code \in Six, p \in Phrase :
       /\ Unlocked(job.from, p)
       /\ OnTheWay(LockPlan(generated(p, code, salts), "ordinary-first", {}))
    BY <1>8 DEF Changing
  <2> DEFINE plan == LockPlan(generated(p, code, salts), "ordinary-first", {})
  <2>2. PlanOK(plan)  BY GoalsOK
  <2>3. OnTheWay(plan)'
    <3>1. Follows(plan, job.writes \ {w}, job.from, store', staged')  BY <2>1, <2>2, PlanWrite
    <3> QED  BY <3>1, <1>1, <1>2 DEF OnTheWay
  <2>4. LockJob  BY <1>8 DEF Changing, LockJob
  <2>5. Changing'
    <3>1. Unlocked(job'.from, p)  BY <2>1, <1>2
    <3> QED  BY <2>3, <3>1, <1>1, <1>2, <1>8 DEF Changing
  <2> QED  BY <2>4, <2>5, <1>5 DEF JobOK
<1>9. CASE Disabling
  <2>1. PICK p \in Phrase :
       /\ Unlocked(job.from, p)
       /\ OnTheWay(LockPlan([Nothing EXCEPT ![Identity] = p], "ordinary-first", FinalDrops))
    BY <1>9 DEF Disabling
  <2> DEFINE plan == LockPlan([Nothing EXCEPT ![Identity] = p], "ordinary-first", FinalDrops)
  <2>2. PlanOK(plan)  BY GoalsOK
  <2>3. OnTheWay(plan)'
    <3>1. Follows(plan, job.writes \ {w}, job.from, store', staged')  BY <2>1, <2>2, PlanWrite
    <3> QED  BY <3>1, <1>1, <1>2 DEF OnTheWay
  <2>4. LockJob  BY <1>9 DEF Disabling, LockJob
  <2>5. Disabling'
    <3>1. Unlocked(job'.from, p)  BY <2>1, <1>2
    <3> QED  BY <2>3, <3>1, <1>1, <1>2, <1>9 DEF Disabling
  <2> QED  BY <2>4, <2>5, <1>5 DEF JobOK
<1>10. CASE Erasing
  <2>0. ~LockJob  BY <1>10 DEF Erasing, LockJob
  <2>1. PICK name \in Name, area \in {"store", "staged"} : w = Drop(1, area, name)
    <3>1. w # WriteRecord(NoRecord)
      <4> SUFFICES ASSUME w = WriteRecord(NoRecord) PROVE FALSE
        OBVIOUS
      <4>1. PICK other \in job.writes : other # w  OBVIOUS
      <4>2. PICK name \in Name, area \in {"store", "staged"} : other = Drop(1, area, name)
        BY <1>10, <4>1 DEF Erasing
      <4>3. other.turn = 1 /\ w.turn = 2  BY <4>2 DEF Drop, Put, WriteRecord
      <4> QED  BY <1>1, <4>1, <4>3
    <3> QED  BY <3>1, <1>1, <1>10 DEF Erasing
  <2>2. w.area = area /\ w.name = name /\ w.value = None  BY <2>1 DEF Drop, Put
  <2>3. (area = "staged" /\ store' = store) \/ (area = "store" /\ store' = [store EXCEPT ![name] = None])
    BY <1>1, <2>1, <2>2 DEF LandsOn
  <2>4. WriteRecord(NoRecord) # w  BY <2>2 DEF WriteRecord, Put
  <2>5. \A n \in Name : n # name \/ area # "store" => Drop(1, "store", n) # w
    BY <2>1 DEF Drop, Put
  <2>6. Erasing'
    <3>1. WriteRecord(NoRecord) \in job'.writes  BY <1>10, <1>2, <2>4 DEF Erasing
    <3>2. \A v \in job'.writes :
            v = WriteRecord(NoRecord) \/ \E n \in Name, a \in {"store", "staged"} : v = Drop(1, a, n)
      BY <1>10, <1>2 DEF Erasing
    <3>3. \A n \in Name : store'[n] # None => store'[n] = job'.from[n] /\ Drop(1, "store", n) \in job'.writes
      <4> SUFFICES ASSUME NEW n \in Name, store'[n] # None
                   PROVE  store'[n] = job'.from[n] /\ Drop(1, "store", n) \in job'.writes
        OBVIOUS
      <4>1. store'[n] = store[n] /\ (n # name \/ area # "store")  BY <2>3, <1>0
      <4> QED  BY <4>1, <2>5, <1>10, <1>2 DEF Erasing
    <3> QED  BY <3>1, <3>2, <3>3, <1>1, <1>2, <1>10 DEF Erasing
  <2>7. ViewOK'
    <3>1. app.at = "unlock" /\ job.app.at = "closed"  BY <1>10 DEF Erasing, Closed
    <3> HIDE DEF Writing
    <3> QED  BY <3>1, <1>1, <1>2, <1>3, <1>4 DEF ViewOK
  <2> QED  BY <2>6, <2>7 DEF JobOK
<1>11. CASE Unlocking
  <2>1. \E v : job.writes = {v}  BY <1>11 DEF Unlocking
  <2> QED  BY <2>1, <1>1
<1>12. CASE Simple
  <2>0. ~LockJob  BY <1>12 DEF Simple, SimpleTaps, LockJob
  <2>1. \/ \E r \in Records : w = WriteRecord(r)
        \/ app.at \in {"flow", "running"} /\ \E p \in Phrase : w = set(app.store, p)
    BY <1>1, <1>12 DEF Simple
  <2>2. CASE \E r \in Records : w = WriteRecord(r)
    <3>1. store' = store  BY <1>1, <2>2 DEF LandsOn, WriteRecord, Put
    <3>2. get(app.store)' = get(app.store)  BY <3>1, <1>1 DEF get
    <3>3. \A p : set(app.store, p) # w  BY <2>2 DEF set, WriteRecord, Put
    <3>4. Simple'  BY <3>2, <3>3, <1>1, <1>2, <1>12 DEF Simple
    <3> QED  BY <3>1, <3>4, <2>0, <1>6 DEF JobOK
  <2>3. CASE \E p \in Phrase : w = set(app.store, p)
    <3>1. PICK p \in Phrase : w = set(app.store, p)  BY <2>3
    <3>2. store' = [store EXCEPT ![Identity] = w.value]  BY <1>1, <3>1 DEF LandsOn, set, Put
    <3>3. store'[CHECK_ENTRY] = store[CHECK_ENTRY] /\ store'[SALT_ENTRY] = store[SALT_ENTRY] /\ store'[Identity] = w.value
      BY <3>2, <1>0, Names
    <3>4. get(app.store)' = p
      <4>1. get(app.store)' = Reads(app.store, store'[Identity])
        BY <1>1 DEF get, Reads
      <4> QED  BY <4>1, <3>1, <3>3, <1>0, ReadsIs
    <3>5. Simple'  BY <3>4, <1>1, <1>2, <1>12 DEF Simple
    <3> QED  BY <3>3, <3>5, <2>0, <1>6 DEF JobOK
  <2> QED  BY <2>1, <2>2, <2>3
<1> QED  BY <1>3, <1>4, <1>7, <1>8, <1>9, <1>10, <1>11, <1>12 DEF JobOK

(* The last write: what the tap set off is there.                          *)
LEMMA WriteLast ==
  ASSUME Base, NEW w, Writes(w), job.writes \ {w} = {} PROVE JobOK' /\ ViewOK'
<1>1. /\ app' = job.app /\ flow' = job.flow /\ job' = Idle /\ UNCHANGED <<salts, device, past>>
      /\ w \in job.writes /\ LandsOn(w) /\ job.writes = {w}
  BY DEF Writes
<1>2. ~Writing' /\ job'.app.at = "closed" /\ Writing  BY <1>1 DEF Writing, Idle, Closed
<1>3. JobOK'  BY <1>2 DEF JobOK
<1>4. ViewOK /\ JobOK /\ Typed  BY DEF Base
<1>0. /\ store = [name \in Name |-> store[name]] /\ app.store \in View(salts) /\ salts \in 0 .. MaxSalts
      /\ job.app \in Screen(salts) /\ app \in Screen(salts)
  BY <1>4 DEF Typed, IsArea, Screen, JobType
<1> SUFFICES ViewOK'
  BY <1>3
<1>5. ASSUME job.app.at \in {"closed", "flow", "running", "failed", "opened"},
             job.app.at \in {"opened", "flow", "running"} => Suits(job.app.store, store'),
             job.app.at = "running" => \E p \in Phrase : Reads(job.app.store, store'[Identity]) = p,
             job.app.at = "opened" => job.app.store # Plain
      PROVE  ViewOK'
  <2>1. app'.at = "running" => get(app.store)' \in Phrase
    <3>1. get(app.store)' = Reads(app'.store, store'[Identity])  BY DEF get, Reads
    <3> QED  BY <3>1, <1>1, <1>5
  <2>2. app'.at \in {"closed", "setup", "unlock"} => app'.store = Plain  BY <1>0, <1>1 DEF Screen
  <2>3. app'.at = "flow" => (flow'.locked <=> app'.store # Plain)  BY <1>1, <1>4 DEF ViewOK
  <2> HIDE DEF Writing
  <2> QED  BY <1>1, <1>2, <1>5, <2>1, <2>2, <2>3 DEF ViewOK, ViewGood
<1>6. CASE job.app = Closed
  BY <1>5, <1>6 DEF Closed
<1>7. CASE Enabling /\ job.app # Closed
  <2>1. PICK code \in Six :
       /\ OnTheWay(LockPlan(generated(job.from[Identity], code, salts), "verifier-first", {}))
       /\ job.app = Closed \/ job.app.store = [code |-> code, salt |-> salts]
    BY <1>7 DEF Enabling
  <2> DEFINE goal == generated(job.from[Identity], code, salts)
             view == [code |-> code, salt |-> salts]
             rest == job.writes \ {w}
  <2>0. salts \in 1 .. MaxSalts /\ code \in Codes /\ salts \in 1 .. salts
    <3>1. job.app.store \in View(salts) /\ code # None  BY <1>0, LockAssumption DEF Screen, Codes
    <3>2. view # Plain  BY <3>1 DEF Plain
    <3>3. view.salt \in 1 .. salts  BY <2>1, <1>7, <3>1, <3>2 DEF View
    <3> QED  BY <3>3, <1>0, LockAssumption DEF Codes
  <2>2. Follows(LockPlan(goal, "verifier-first", {}), rest, job.from, store', staged') /\ rest = {}
    <3>1. PlanOK(LockPlan(goal, "verifier-first", {}))  BY GoalsOK
    <3>2. job.writes \ {w} = {}  BY <1>1
    <3> HIDE DEF goal
    <3>3. OnTheWay(LockPlan(goal, "verifier-first", {}))  BY <2>1 DEF goal
    <3>4. Follows(LockPlan(goal, "verifier-first", {}), rest, job.from, store', staged')
      BY <3>1, <3>3, PlanWrite
    <3> QED  BY <3>2, <3>4
  <2> HIDE DEF rest
  <2>3. ~hasVerifier(job.from)  BY <1>7 DEF Enabling
  <2>4. \A name \in Name : store'[name] = goal[name]
    <3>1. goal = generated(job.from[Identity], code, salts)  OBVIOUS
    <3> HIDE DEF goal
    <3>2. salts \in Salt  BY <2>0 DEF Salt
    <3>3. code \in Six /\ salts \in Salt /\ ~hasVerifier(job.from) /\ goal = generated(job.from[Identity], code, salts)
          /\ Follows(LockPlan(goal, "verifier-first", {}), rest, job.from, store', staged')
      BY <2>2, <2>3, <3>1, <3>2
    <3>4. Reached(goal, store')  BY <2>2, <3>3, EnableFacts DEF Done
    <3> QED  BY <3>4 DEF Reached
  <2>5. /\ goal[Identity] = IF job.from[Identity] = None THEN None ELSE sealed(inside(job.from[Identity]), code, salts)
        /\ goal[SALT_ENTRY] = salts /\ goal[CHECK_ENTRY] = sealed(CHECK_VALUE, code, salts)
    BY GeneratedIs
  <2> HIDE DEF goal
  <2>6. view # Plain /\ view.code = code /\ view.salt = salts /\ salts # None
    BY <2>0, LockAssumption DEF Plain, Codes
  <2>7. Suits(view, store')
    BY <2>4, <2>5, <2>6, Names DEF Suits, opens
  <2>8. job.app.at = "running" => \E p \in Phrase : Reads(view, store'[Identity]) = p
    <3> SUFFICES ASSUME job.app.at = "running" PROVE \E p \in Phrase : Reads(view, store'[Identity]) = p
      OBVIOUS
    <3>1. PICK p \in Phrase : p = job.from[Identity]  BY <1>7 DEF Enabling
    <3>2. store'[Identity] = sealed(p, code, salts)
      BY <3>1, <2>4, <2>5, Names, LockAssumption DEF inside
    <3>3. view \in View(salts)  BY <2>0 DEF View
    <3> HIDE DEF view
    <3>4. Reads(view, sealed(p, view.code, view.salt)) = p  BY <3>3, <2>6, <1>0, ReadsIs
    <3> QED  BY <3>2, <3>4, <2>6
  <2>9. job.app.at \in {"closed", "flow", "running", "failed"} /\ job.app.store = view
    BY <1>7, <2>1 DEF Enabling
  <2> HIDE DEF view
  <2> QED  BY <2>7, <2>8, <2>9, <1>5
<1>8. CASE Unlocking
  <2>1. CASE /\ job.writes = {Put(1, "store", CODE_SHAPE_ENTRY, DIGITS_6)}
             /\ job.app.at = "opened" /\ job.app.store # Plain
    <3>1. store' = [store EXCEPT ![CODE_SHAPE_ENTRY] = DIGITS_6]  BY <1>1, <2>1 DEF LandsOn, Put
    <3>2. store'[CHECK_ENTRY] = store[CHECK_ENTRY] /\ store'[SALT_ENTRY] = store[SALT_ENTRY]
      BY <3>1, <1>0, Names
    <3>3. ~LockJob  BY <1>8 DEF Unlocking, LockJob
    <3>4. Suits(job.app.store, store)  BY <2>1, <3>3, <1>4 DEF ViewOK, ViewGood
    <3>5. Suits(job.app.store, store')  BY <3>2, <3>4, SuitsKept
    <3> QED  BY <2>1, <3>5, <1>5
  <2>2. CASE job.writes = {Put(1, "store", SALT_ENTRY, salts)} /\ job.app = app
    <3>1. store' = [store EXCEPT ![SALT_ENTRY] = salts]  BY <1>1, <2>2 DEF LandsOn, Put
    <3>2. store'[CHECK_ENTRY] = store[CHECK_ENTRY]  BY <3>1, <1>0, Names
    <3>3. app'.at = "unlock" /\ hasVerifier(store') /\ app'.store = Plain
      BY <3>2, <2>2, <1>0, <1>1, <1>8 DEF Unlocking, hasVerifier, Screen
    <3> HIDE DEF Writing
    <3> QED  BY <3>3, <1>1, <1>2 DEF ViewOK
  <2> QED  BY <1>8, <2>1, <2>2 DEF Unlocking
<1>9. CASE Simple /\ job.app # Closed
  <2>0. ~LockJob  BY <1>9 DEF Simple, SimpleTaps, LockJob
  <2>1. job.app.at \in {"closed", "flow", "running", "failed"} /\ (job.app.at # "closed" => job.app.store = app.store)
    BY <1>9 DEF Simple
  <2>2. job.app.at \in {"flow", "running"} => Suits(job.app.store, store)
    BY <2>0, <1>4 DEF ViewOK, ViewGood
  <2>3. \/ \E r \in Records : w = WriteRecord(r)
        \/ app.at \in {"flow", "running"} /\ \E p \in Phrase : w = set(app.store, p)
    BY <1>1, <1>9 DEF Simple
  <2>4. CASE \E r \in Records : w = WriteRecord(r)
    <3>1. store' = store  BY <1>1, <2>4 DEF LandsOn, WriteRecord, Put
    <3>2. \A p : set(app.store, p) \notin job.writes  BY <1>1, <2>4 DEF set, WriteRecord, Put
    <3>3. job.app.at = "running" => get(app.store) \in Phrase
      BY <3>2, <1>9 DEF Simple
    <3>4. job.app.at = "running" => \E p \in Phrase : Reads(job.app.store, store'[Identity]) = p
      <4>1. get(app.store) = Reads(app.store, store'[Identity])  BY <3>1 DEF get, Reads
      <4> QED  BY <4>1, <3>3, <2>1
    <3> QED  BY <3>1, <3>4, <2>1, <2>2, <1>5
  <2>5. CASE \E p \in Phrase : w = set(app.store, p)
    <3>1. PICK p \in Phrase : w = set(app.store, p)  BY <2>5
    <3>2. store' = [store EXCEPT ![Identity] = w.value]  BY <1>1, <3>1 DEF LandsOn, set, Put
    <3>3. store'[CHECK_ENTRY] = store[CHECK_ENTRY] /\ store'[SALT_ENTRY] = store[SALT_ENTRY] /\ store'[Identity] = w.value
      BY <3>2, <1>0, Names
    <3>4. Reads(app.store, store'[Identity]) = p  BY <3>1, <3>3, <1>0, ReadsIs
    <3>5. Suits(job.app.store, store) => Suits(job.app.store, store')  BY <3>3, SuitsKept
    <3> QED  BY <3>4, <3>5, <2>1, <2>2, <1>5
  <2> QED  BY <2>3, <2>4, <2>5
<1>10. CASE Changing \/ Disabling \/ Erasing
  BY <1>6, <1>10 DEF Changing, Disabling, Erasing
<1> QED  BY <1>2, <1>4, <1>6, <1>7, <1>8, <1>9, <1>10 DEF JobOK

-----------------------------------------------------------------------------
(* Every kind of step keeps jobs and views.                                *)
LEMMA KindOK == ASSUME Base, Kind PROVE JobOK' /\ ViewOK'
<1>1. CASE Moves  BY <1>1, StillOK DEF Moves, FlowMove
<1>2. CASE Gate  BY <1>2, GateOK
<1>3. CASE Tap  BY <1>3, SimpleTapOK, LockTapOK, OtherTapOK DEF Tap
<1>4. CASE Adopts \/ UNCHANGED vars  BY <1>4, StillOK DEF Adopts, vars
<1>5. CASE Write
  <2>1. PICK w : Writes(w)  BY <1>5, WriteIs DEF Base
  <2> QED  BY <2>1, WriteOn, WriteLast
<1>6. CASE Kill \/ CloseApp  BY <1>6, StopOK
<1> QED  BY <1>1, <1>2, <1>3, <1>4, <1>5, <1>6 DEF Kind

(* Base is inductive, and every step from it is of a kind.                 *)
LEMMA BaseKept == ASSUME Base, [Next]_vars PROVE Base' /\ Kind
<1>1. Kind  BY StepKinds DEF Base, FlowsOK
<1>2. TapGood  BY <1>1, KindGood
<1>3. JobOK' /\ ViewOK'  BY <1>1, KindOK
<1> QED  BY <1>1, <1>2, <1>3 DEF Base, TapGood

(* Base holds at first.                                                    *)
LEMMA BaseInit == Init => Base
<1> SUFFICES ASSUME Init PROVE Base
  OBVIOUS
<1>1. job = Idle /\ app = Closed /\ flow = NoFlow /\ record = NoRecord /\ staged = Nothing /\ ~Writing
  BY DEF Init, Writing, Idle
<1>2. salts \in 0 .. MaxSalts /\ salts \in Nat
  BY LockAssumption DEF Init
<1>3. IsArea(Nothing, salts)  BY IdleTyped, <1>2 DEF Idle
<1>4. IsArea(store, salts)
  <2>0. Brought \subseteq Phrase  BY DEF Brought
  <2>1. CASE store = Nothing  BY <2>1, <1>3
  <2>2. CASE \E p \in Brought : store = Legacy(p, None, None, None)
    BY <2>0, <2>2, Names DEF Legacy, IsArea, Identities
  <2>3. CASE \E p \in Brought,
           c \in Codes : store = Legacy(sealed(p, c, 1), 1, sealed(CHECK_VALUE, c, 1), None) /\ salts = 1
    <3>1. PICK p \in Brought, c \in Codes : store = Legacy(sealed(p, c, 1), 1, sealed(CHECK_VALUE, c, 1), None)
      BY <2>3
    <3>2. sealed(p, c, 1) \in Ciphered(1) /\ sealed(CHECK_VALUE, c, 1) \in Ciphered(1)
      BY <2>0, <2>3, <1>2, SealedTyped
    <3> QED  BY <3>1, <3>2, <2>3, Names DEF Legacy, IsArea, Identities
  <2> QED  BY <2>1, <2>2, <2>3 DEF Init
<1>5. /\ Idle.writes = {} /\ Idle.does = "none" /\ Idle.app = Closed /\ Idle.flow = NoFlow
      /\ Idle = [writes |-> Idle.writes, does |-> Idle.does, from |-> Idle.from, app |-> Idle.app, flow |-> Idle.flow]
      /\ IsArea(Idle.from, salts)
  BY IdleTyped, <1>2
<1>6. Closed \in Screen(salts) /\ NoFlow \in Flows /\ FlowOK(NoFlow) /\ Vouched(NoFlow)
  BY <1>2, ClosedOK, NoFlowOK
<1>7. JobType  BY <1>1, <1>5, <1>6 DEF JobType, Taps
<1>8. PastType  BY EntryAssumption DEF Init, PastType
<1>9. Typed
  BY <1>1, <1>2, <1>3, <1>4, <1>6, <1>7, <1>8 DEF Typed, Init, Addresses, Records
<1>10. JobOK  BY <1>1 DEF JobOK
<1>11. ViewOK  BY <1>1, <1>5 DEF ViewOK, Closed
<1> QED  BY <1>1, <1>5, <1>6, <1>9, <1>10, <1>11 DEF Base, FlowsOK

(* Every variable keeps its type.                                          *)
LEMMA BaseTypes == Base => TypeOK
<1> SUFFICES ASSUME Base PROVE TypeOK
  OBVIOUS
<1>0. salts \in 0 .. MaxSalts /\ MaxSalts \in Nat  BY LockAssumption DEF Base, Typed
<1>1. Ciphered(salts) \subseteq Ciphertext
  BY <1>0 DEF Ciphered, Ciphertext
<1>2. \A area \in {store, staged} :
       /\ area[SALT_ENTRY] \in 1 .. salts \cup {None}
       /\ area[Identity] \in Phrase \cup Ciphertext \cup {None}
       /\ area[CHECK_ENTRY] \in Ciphertext \cup {None}
       /\ area[CODE_SHAPE_ENTRY] \in {DIGITS_6, None}
  BY <1>1 DEF Base, Typed, IsArea, Identities
<1>3. /\ record.kind \in {"none", "new", "connect", "join"}
      /\ record.server \in Server \cup {None} /\ record.step \in {"phrase", "check", "server", None}
  BY DEF Base, Typed, Records, NoRecord, New, Connect, Join, Addresses
<1>4. /\ app.at \in {"closed", "unlock", "opened", "setup", "flow", "running", "failed"}
      /\ app.store = Plain \/ app.store \in [code : Codes, salt : 1 .. salts]
  BY DEF Base, Typed, Screen, Screens, View
<1>5. flow.step \in Step /\ flow.joinPhrase \in Brought \cup {None} /\ past.kills \in 0 .. MaxKills
  BY DEF Base, Typed, Flows, PastType
<1> QED  BY <1>0, <1>2, <1>3, <1>4, <1>5 DEF TypeOK

(* Base always holds.                                                      *)
LEMMA BaseAlways == Spec => []Base
<1>1. Base /\ [Next]_vars => Base'  BY BaseKept
<1> QED  BY <1>1, BaseInit, PTL DEF Spec

(* Every variable of the device keeps its type: the two areas of the key   *)
(* store, the entry record, the flow's fields and the app's view            *)
(* (device-lock.ts, entry-flow.ts).                                        *)
THEOREM DeviceEntryTypeOK == Spec => []TypeOK
  BY BaseAlways, BaseTypes, PTL

(* The status line under an address is about that address and the phrase   *)
(* it would be used with, however late its answer came (EntryFlow's        *)
(* checkServer drops an answer to any but the last question).              *)
THEOREM DeviceEntryCheckedWhatIsEntered == Spec => []CheckedWhatIsEntered
<1>1. Base => CheckedWhatIsEntered
  BY DEF Base, FlowsOK, FlowOK, Asking, CheckedWhatIsEntered
<1> QED  BY <1>1, BaseAlways, PTL

-----------------------------------------------------------------------------
(* What a first download is owed to.                                       *)
LEMMA LockWrites ==
  ASSUME NEW code
  PROVE  \A w \in enableDeviceLock(code) \cup changeUnlockCode(code) \cup disableDeviceLock : w.area # "record"
  BY DEF enableDeviceLock, changeUnlockCode, disableDeviceLock, clearStaging, staging, promoteStaged, Promoted,
         Unstaged, Drop, Put

(* Only a join writes a record that owes a download.                       *)
LEMMA OtherTapsJoinNothing ==
  ASSUME Base, Tap, ~Joins, NEW w \in job'.writes, w.area = "record" PROVE w.value.kind # "join"
<1>1. ASSUME NEW name, NEW writes, NEW a, NEW f, Starts(name, writes, a, f)  PROVE job'.writes = writes
  BY <1>1 DEF Starts
<1>2. \A step : WriteRecord(New(step)).value.kind # "join"  BY DEF WriteRecord, Put, New
<1>3. \A p : set(app.store, p).area # "record"  BY DEF set, Put
<1>4. CASE Resumes
  <2>1. job'.writes = {WriteRecord(New(record.step))}  BY <1>4, <1>1 DEF Resumes
  <2> QED  BY <2>1, <1>2
<1>5. CASE Begins
  <2>1. \E p : job'.writes \subseteq {set(app.store, p), WriteRecord(New("phrase"))}
    BY <1>5, <1>1 DEF Begins, Draws, Redraws
  <2> QED  BY <2>1, <1>2, <1>3
<1>6. CASE Pages
  <2>1. \E to : job'.writes = {WriteRecord(New(to))}  BY <1>6, <1>1 DEF Pages, TurnsFrom
  <2> QED  BY <2>1, <1>2
<1>7. CASE Finishes
  <2>1. \E to \in {Connect(flow.address), NoRecord} : job'.writes = {WriteRecord(to)}
    BY <1>7, <1>1 DEF Finishes
  <2> QED  BY <2>1 DEF WriteRecord, Put, Connect, NoRecord
<1>8. CASE Replaces
  <2>1. \E p : job'.writes = {set(app.store, p)}  BY <1>8, <1>1 DEF Replaces
  <2> QED  BY <2>1, <1>3
<1>9. CASE LockTap
  <2>1. \E code : job'.writes \subseteq enableDeviceLock(code) \cup changeUnlockCode(code) \cup disableDeviceLock
    BY <1>9, <1>1 DEF LockTap, Enables, Changes, Disables
  <2> QED  BY <2>1, LockWrites
<1>10. CASE Erases
  <2>1. job'.writes = resetDeviceKeyStore \cup {WriteRecord(NoRecord)}  BY <1>10, <1>1 DEF Erases
  <2> QED  BY <2>1 DEF resetDeviceKeyStore, Drop, Put, WriteRecord, NoRecord
<1>11. CASE Unlocks
  <2>1. \E n, v : job'.writes = {Put(1, "store", n, v)}  BY <1>11, <1>1 DEF Unlocks, MarksShape, FillsSalt
  <2> QED  BY <2>1 DEF Put
<1> QED  BY <1>4, <1>5, <1>6, <1>7, <1>8, <1>9, <1>10, <1>11 DEF Tap, SimpleTap

(* Only an erase and the plain taps write the record.                      *)
LEMMA RecordJob ==
  ASSUME Base, NEW w \in job.writes, w.area = "record" PROVE Erasing \/ Simple
<1>1. JobOK /\ Writing  BY DEF Base, Writing
<1>2. ASSUME NEW plan, PlanOK(plan), OnTheWay(plan) PROVE FALSE
  BY <1>2 DEF PlanOK, OnTheWay, Follows
<1>3. ~Enabling  BY <1>2, GoalsOK DEF Enabling
<1>4. ~Changing  BY <1>2, GoalsOK DEF Changing
<1>5. ~Disabling  BY <1>2, GoalsOK DEF Disabling
<1>6. ~Unlocking  BY DEF Unlocking, Put
<1> QED  BY <1>1, <1>3, <1>4, <1>5, <1>6 DEF JobOK

(* Only a plain tap writes a record that owes a download.                  *)
LEMMA JoinJobSimple ==
  ASSUME Base, NEW w \in job.writes, w.area = "record", w.value.kind = "join" PROVE Simple
<1>1. ~Erasing  BY DEF Erasing, WriteRecord, NoRecord, Put, Drop
<1> QED  BY <1>1, RecordJob

(* A record that owes a download, along every step.                        *)
LEMMA JoinsKept == ASSUME Base, JoinsInv, Kind PROVE JoinsInv'
<1> SUFFICES ASSUME NEW v \in job'.writes, v.area = "record", v.value.kind = "join"
             PROVE  \E p \in Phrase :
                      /\ <<v.value.server, p>> \in past'.vouched
                      /\ \/ set(app'.store, p) \in job'.writes
                         \/ get(app.store)' = p /\ \A x \in job'.writes : x.area # "store"
  BY DEF JoinsInv
<1>1. CASE Moves
  <2>1. UNCHANGED <<store, app, job>> /\ past.vouched \subseteq past'.vouched  BY <1>1 DEF Moves, FlowMove
  <2>2. get(app.store)' = get(app.store)  BY <2>1 DEF get
  <2> QED  BY <2>1, <2>2 DEF JoinsInv
<1>2. CASE Gate \/ Adopts \/ Kill \/ CloseApp
  <2>1. job' \in {job, Idle} /\ (job' = Idle \/ job.writes = {})
    BY <1>2 DEF Gate, Adopts, Kill, CloseApp, Writing
  <2> QED  BY <2>1 DEF Idle
<1>3. CASE UNCHANGED vars
  <2>1. UNCHANGED <<store, app, job, past>>  BY <1>3 DEF vars
  <2>2. get(app.store)' = get(app.store)  BY <2>1 DEF get
  <2> QED  BY <2>1, <2>2 DEF JoinsInv
<1>4. CASE Tap /\ Joins
  <2>1. PICK p \in Brought, server \in Addresses :
          /\ <<server, p>> \in past.vouched
          /\ Starts("join", {set(app.store, p), WriteRecord(Join(server))}, Ready(app.store, p), NoFlow)
    BY <1>4 DEF Joins
  <2>2. job'.writes = {set(app.store, p), WriteRecord(Join(server))} /\ app' = app /\ past' = past
    BY <2>1, <1>4 DEF Starts, Joins
  <2>3. v = WriteRecord(Join(server))  BY <2>2 DEF set, Put
  <2>4. v.value.server = server  BY <2>3 DEF WriteRecord, Put, Join
  <2> QED  BY <2>1, <2>2, <2>4 DEF Brought
<1>5. CASE Tap /\ ~Joins
  BY <1>5, OtherTapsJoinNothing
<1>6. CASE Write
  <2>1. PICK w : Writes(w)  BY <1>6, WriteIs DEF Base
  <2>2. job'.writes = job.writes \ {w} /\ UNCHANGED <<app, past>>
    BY <2>1 DEF Writes, Idle, Base, Typed, JobType
  <2>3. Simple  BY <2>2, JoinJobSimple
  <2>4. PICK p \in Phrase :
          /\ <<v.value.server, p>> \in past.vouched
          /\ \/ set(app.store, p) \in job.writes
             \/ get(app.store) = p /\ \A x \in job.writes : x.area # "store"
    BY <2>2 DEF JoinsInv
  <2>5. CASE w = set(app.store, p)
    <3>1. \A x \in job'.writes : x.area # "store"  BY <2>1, <2>2, <2>3, <2>5 DEF Simple, Writes, set, Put
    <3>2. store' = [store EXCEPT ![Identity] = w.value]  BY <2>1, <2>5 DEF Writes, LandsOn, set, Put
    <3>3. store'[Identity] = set(app.store, p).value  BY <3>2, <2>5, Names DEF Base, Typed, IsArea
    <3>4. get(app.store)' = Reads(app.store, store'[Identity])  BY <2>2 DEF get, Reads
    <3>5. app.store \in View(salts) /\ salts \in 0 .. MaxSalts  BY DEF Base, Typed, Screen
    <3>6. get(app.store)' = p  BY <3>3, <3>4, <3>5, ReadsIs
    <3> QED  BY <3>1, <3>6, <2>2, <2>4
  <2>6. CASE set(app.store, p) \in job.writes /\ w # set(app.store, p)
    BY <2>2, <2>4, <2>6
  <2>7. CASE get(app.store) = p /\ \A x \in job.writes : x.area # "store"
    <3>1. store' = store  BY <2>1, <2>7 DEF Writes, LandsOn
    <3>2. get(app.store)' = get(app.store)  BY <3>1, <2>2 DEF get
    <3> QED  BY <3>2, <2>2, <2>4, <2>7
  <2> QED  BY <2>4, <2>5, <2>6, <2>7
<1> QED  BY <1>1, <1>2, <1>3, <1>4, <1>5, <1>6 DEF Kind

(* When such a record lands, the store already reads the phrase it owes    *)
(* the download under.                                                     *)
LEMMA JoinsStep ==
  ASSUME Base, JoinsInv, Kind, record'.kind = "join", record # record'
  PROVE  \E p \in Phrase : get(app.store) = p /\ <<record'.server, p>> \in past.vouched
<1>1. Write
  <2>1. NoRecord.kind # "join"  BY DEF NoRecord
  <2>2. CASE Tap
    BY <2>2 DEF Tap, SimpleTap, LockTap, Resumes, Begins, Draws, Redraws, Pages, TurnsFrom, Finishes, Joins,
             Replaces,
                Enables, Changes, Disables, Erases, Unlocks, MarksShape, FillsSalt, Starts
  <2>3. CASE Gate
    BY <2>1, <2>3 DEF Gate, FirstRuns, Readies, AsksSetup, AsksCode, Opens
  <2>4. CASE Moves \/ Adopts \/ Kill \/ CloseApp \/ UNCHANGED vars
    BY <2>1, <2>4 DEF Moves, FlowMove, Adopts, Kill, CloseApp, vars
  <2> QED  BY <2>2, <2>3, <2>4 DEF Kind
<1>2. PICK w : Writes(w)  BY <1>1, WriteIs DEF Base
<1>3. w.area = "record" /\ w = WriteRecord(w.value) /\ record' = w.value /\ w \in job.writes
      /\ \A other \in job.writes : w.turn <= other.turn
  BY <1>2 DEF Writes, LandsOn
<1>4. w.turn = 2  BY <1>3 DEF WriteRecord, Put
<1>5. \A p : set(app.store, p) \notin job.writes
  <2>1. \A p : set(app.store, p).turn = 1  BY DEF set, Put
  <2> QED  BY <2>1, <1>3, <1>4
<1> QED  BY <1>3, <1>5 DEF JoinsInv

(* A download is owed to a vault seen at that server under the phrase that *)
(* the device then holds, or that the inviting device named (EntryFlow's   *)
(* completeJoin: the phrase is written before the record).                 *)
THEOREM DeviceEntryJoinsWhatItChecked == Spec => JoinsWhatItChecked
<1>1. Init => JoinsInv  BY DEF Init, Idle, JoinsInv
<1>2. Base /\ JoinsInv /\ [Next]_vars => JoinsInv'  BY BaseKept, JoinsKept
<1>3. Base /\ JoinsInv /\ [Next]_vars =>
        [record'.kind = "join" /\ record # record'
           => \E p \in Phrase : get(app.store) = p /\ <<record'.server, p>> \in past.vouched]_vars
  BY BaseKept, JoinsStep
<1> QED  BY <1>1, <1>2, <1>3, BaseAlways, PTL DEF Spec, JoinsWhatItChecked

-----------------------------------------------------------------------------
(* The lock: what every store the app may be killed over still says.       *)
LockDoes == {"enable", "change", "disable", "reset"}
Recoverable(area, aside) ==
  \/ area[Identity] \in Phrase \cup {None}
  \/ \E p \in Phrase, code \in Codes,
           beside \in {area, aside} : area[Identity] = sealed(p, code, beside[SALT_ENTRY])
Safe(area, aside, torn, does) ==
  /\ ReservedTrue(area, "reset" \in torn \cup {does})
  /\ "reset" \notin torn \cup {does} => Recoverable(area, aside)
  /\ does \notin LockDoes /\ torn \cap LockDoes = {} => Readable(area)
Sound(area, torn) ==
  ReservedTrue(area, "reset" \in torn) /\ (torn \cap LockDoes = {} => Readable(area))
LockInv ==
  /\ Safe(store, staged, past.torn, job.does)
  /\ Writing => Sound(job.from, past.torn)

(* A write of the job under way, whatever it does.                         *)
LEMMA WriteLeaves ==
  ASSUME Base, NEW w, Writes(w)
  PROVE  /\ Writing /\ w \in job.writes /\ past' = past
         /\ job'.does = (IF Done(job.writes \ {w}) THEN "none" ELSE job.does)
         /\ Writing' => job'.from = job.from
<1>1. CASE job.writes \ {w} = {}
  BY <1>1 DEF Writes, Idle, Writing, Done
<1>2. CASE job.writes \ {w} # {}
  BY <1>2 DEF Writes, Writing, Done, Base, Typed, JobType
<1> QED  BY <1>1, <1>2

(* The store a write of enableDeviceLock leaves.                           *)
LEMMA EnablingAfter ==
  ASSUME Base, Enabling, NEW w, Writes(w)
  PROVE  \E code \in Six : \E goal :
           /\ goal = generated(job.from[Identity], code, salts)
           /\ ~hasVerifier(store') => store'[Identity] = job.from[Identity]
           /\ hasVerifier(store') => store'[CHECK_ENTRY] = goal[CHECK_ENTRY]
           /\ \/ store'[Identity] = job.from[Identity]
              \/ store'[Identity] = goal[Identity] /\ store'[SALT_ENTRY] = salts
           /\ Done(job.writes \ {w}) => Reached(goal, store')
<1>1. PICK code \in Six : OnTheWay(LockPlan(generated(job.from[Identity], code, salts), "verifier-first", {}))
  BY DEF Enabling
<1>2. PICK goal : goal = generated(job.from[Identity], code, salts)  OBVIOUS
<1>3. ~hasVerifier(job.from) /\ salts \in Salt  BY DEF Enabling
<1>4. PlanOK(LockPlan(goal, "verifier-first", {}))  BY <1>2, GoalsOK
<1>5. Follows(LockPlan(goal, "verifier-first", {}), job.writes \ {w}, job.from, store', staged')
  BY <1>1, <1>2, <1>4, PlanWrite
<1>6. /\ ~hasVerifier(store') => store'[Identity] = job.from[Identity]
      /\ hasVerifier(store') => store'[CHECK_ENTRY] = goal[CHECK_ENTRY]
      /\ \/ store'[Identity] = job.from[Identity]
         \/ store'[Identity] = goal[Identity] /\ store'[SALT_ENTRY] = salts
      /\ Done(job.writes \ {w}) => Reached(goal, store')
  BY <1>2, <1>3, <1>5, EnableFacts
<1> QED  BY <1>2, <1>6

(* The lock after a write of enableDeviceLock.                             *)
LEMMA EnablingLeaves ==
  ASSUME Base, LockInv, Enabling, NEW w, Writes(w)
  PROVE  Safe(store', staged', past.torn, job'.does)
<1>3. PICK rest : rest = job.writes \ {w}  OBVIOUS
<1>6. PICK code \in Six, goal \in {generated(job.from[Identity], c, salts) : c \in Six} :
      /\ goal = generated(job.from[Identity], code, salts)
      /\ ~hasVerifier(store') => store'[Identity] = job.from[Identity]
      /\ hasVerifier(store') => store'[CHECK_ENTRY] = goal[CHECK_ENTRY]
      /\ \/ store'[Identity] = job.from[Identity]
         \/ store'[Identity] = goal[Identity] /\ store'[SALT_ENTRY] = salts
      /\ Done(rest) => Reached(goal, store')
  BY <1>3, EnablingAfter
<1>4. salts \in Salt /\ job.does = "enable" /\ code \in Codes
  BY DEF Enabling, Codes
<1>7. /\ goal[Identity] = IF job.from[Identity] = None THEN None ELSE sealed(inside(job.from[Identity]), code, salts)
      /\ goal[SALT_ENTRY] = salts /\ goal[CHECK_ENTRY] = sealed(CHECK_VALUE, code, salts)
  BY <1>6, GeneratedIs
<1>8. /\ Sound(job.from, past.torn)
      /\ job'.does = (IF Done(rest) THEN "none" ELSE "enable")
  BY <1>3, <1>4, WriteLeaves DEF LockInv
<1>9. "reset" \notin past.torn => job.from[Identity] \in Phrase \cup {None}
  BY <1>8 DEF Sound, ReservedTrue, Enabling
<1>10. "reset" \in past.torn \cup {job'.does} <=> "reset" \in past.torn
  BY <1>8
<1>11. ReservedTrue(store', "reset" \in past.torn \cup {job'.does})
  <2>1. goal[CHECK_ENTRY].code \in Six  BY <1>7 DEF sealed
  <2> QED  BY <1>6, <1>9, <1>10, <2>1 DEF ReservedTrue
<1>12. "reset" \notin past.torn => goal[Identity] = None \/ \E p \in Phrase : goal[Identity] = sealed(p, code, salts)
  BY <1>7, <1>9 DEF inside
<1>13. "reset" \notin past.torn \cup {job'.does} => Recoverable(store', staged')
  BY <1>4, <1>6, <1>9, <1>10, <1>12 DEF Recoverable
<1>14. Done(rest) /\ past.torn \cap LockDoes = {} => Readable(store')
  <2> SUFFICES ASSUME Done(rest), past.torn \cap LockDoes = {} PROVE Readable(store')
    OBVIOUS
  <2>1. \A name \in Name : store'[name] = goal[name]  BY <1>6 DEF Reached
  <2>2. salts # None /\ salts \in 1 .. salts /\ salts \in 0 .. MaxSalts  BY <1>4, LockAssumption DEF Salt
  <2>3. sealed(CHECK_VALUE, code, salts) # None  BY <1>4, <2>2, SealedTyped
  <2>4. opens(store', code) /\ hasVerifier(store')
    BY <1>7, <2>1, <2>2, <2>3, Names DEF opens, hasVerifier
  <2>5. "reset" \notin past.torn  BY DEF LockDoes
  <2>6. decrypts(store', code)  BY <1>7, <1>12, <2>1, <2>5, Names DEF decrypts
  <2> QED  BY <1>4, <2>4, <2>6 DEF Readable
<1> QED  BY <1>8, <1>11, <1>13, <1>14 DEF Safe, LockDoes

(* Opened under a code: its verifier is there.                             *)
LEMMA UnlockedHasVerifier ==
  ASSUME Base, NEW p \in Phrase, Unlocked(job.from, p)
  PROVE  hasVerifier(job.from)
<1>1. PICK code \in Codes : opens(job.from, code)  BY DEF Unlocked
<1>2. job.from[SALT_ENTRY] \in 1 .. salts /\ salts \in 0 .. MaxSalts
  BY <1>1 DEF opens, Base, Typed, JobType, IsArea
<1> QED  BY <1>1, <1>2, SealedTyped DEF opens, hasVerifier

(* The store a write of changeUnlockCode leaves.                           *)
LEMMA ChangingAfter ==
  ASSUME Base, Changing, NEW w, Writes(w)
  PROVE  \E code \in Six, p \in Phrase :
           /\ Unlocked(job.from, p) /\ hasVerifier(job.from) /\ hasVerifier(store')
           /\ \/ store'[CHECK_ENTRY] = job.from[CHECK_ENTRY] /\ store'[CODE_SHAPE_ENTRY] = job.from[CODE_SHAPE_ENTRY]
              \/ store'[CHECK_ENTRY] = sealed(CHECK_VALUE, code, salts)
           /\ \/ store'[Identity] = job.from[Identity] /\ store'[SALT_ENTRY] = job.from[SALT_ENTRY]
              \/ /\ store'[Identity] = sealed(p, code, salts)
                 /\ salts \in {store'[SALT_ENTRY], staged'[SALT_ENTRY]}
           /\ Done(job.writes \ {w}) => Reached(generated(p, code, salts), store')
<1>1. PICK code \in Six, p \in Phrase :
        Unlocked(job.from, p) /\ OnTheWay(LockPlan(generated(p, code, salts), "ordinary-first", {}))
  BY DEF Changing
<1>2. PICK goal : goal = generated(p, code, salts)  OBVIOUS
<1>3. salts \in Salt  BY DEF Changing
<1>4. hasVerifier(job.from)  BY <1>1, UnlockedHasVerifier
<1>5. PlanOK(LockPlan(goal, "ordinary-first", {}))  BY <1>2, GoalsOK
<1>6. Follows(LockPlan(goal, "ordinary-first", {}), job.writes \ {w}, job.from, store', staged')
  BY <1>1, <1>2, <1>5, PlanWrite
<1>7. /\ hasVerifier(store')
      /\ \/ store'[CHECK_ENTRY] = job.from[CHECK_ENTRY] /\ store'[CODE_SHAPE_ENTRY] = job.from[CODE_SHAPE_ENTRY]
         \/ store'[CHECK_ENTRY] = goal[CHECK_ENTRY]
      /\ \/ store'[Identity] = job.from[Identity] /\ store'[SALT_ENTRY] = job.from[SALT_ENTRY]
         \/ store'[Identity] = goal[Identity] /\ salts \in {store'[SALT_ENTRY], staged'[SALT_ENTRY]}
      /\ Done(job.writes \ {w}) => Reached(goal, store')
  BY <1>2, <1>3, <1>4, <1>6, ChangeFacts
<1>8. goal[Identity] = sealed(p, code, salts) /\ goal[CHECK_ENTRY] = sealed(CHECK_VALUE, code, salts)
  BY <1>2, GeneratedIs, LockAssumption DEF inside
<1> QED  BY <1>1, <1>2, <1>4, <1>7, <1>8

(* The lock after a write of changeUnlockCode.                             *)
LEMMA ChangingLeaves ==
  ASSUME Base, LockInv, Changing, NEW w, Writes(w)
  PROVE  Safe(store', staged', past.torn, job'.does)
<1>3. PICK rest : rest = job.writes \ {w}  OBVIOUS
<1>1. PICK code \in Six, p \in Phrase :
        /\ Unlocked(job.from, p) /\ hasVerifier(job.from) /\ hasVerifier(store')
        /\ \/ store'[CHECK_ENTRY] = job.from[CHECK_ENTRY] /\ store'[CODE_SHAPE_ENTRY] = job.from[CODE_SHAPE_ENTRY]
           \/ store'[CHECK_ENTRY] = sealed(CHECK_VALUE, code, salts)
        /\ \/ store'[Identity] = job.from[Identity] /\ store'[SALT_ENTRY] = job.from[SALT_ENTRY]
           \/ store'[Identity] = sealed(p, code, salts) /\ salts \in {store'[SALT_ENTRY], staged'[SALT_ENTRY]}
        /\ Done(rest) => Reached(generated(p, code, salts), store')
  BY <1>3, ChangingAfter
<1>2. PICK goal : goal = generated(p, code, salts)  OBVIOUS
<1>4. salts \in Salt /\ job.does = "change" /\ code \in Codes  BY DEF Changing, Codes
<1>15. PICK old \in Codes : job.from[Identity] = sealed(p, old, job.from[SALT_ENTRY])
  BY <1>1 DEF Unlocked
<1>7. /\ goal[Identity] = sealed(p, code, salts)
      /\ goal[SALT_ENTRY] = salts /\ goal[CHECK_ENTRY] = sealed(CHECK_VALUE, code, salts)
  BY <1>2, GeneratedIs, LockAssumption DEF inside
<1>8. /\ Sound(job.from, past.torn)
      /\ job'.does = (IF Done(rest) THEN "none" ELSE "change")
  BY <1>3, <1>4, WriteLeaves DEF LockInv
<1>11. ReservedTrue(store', "reset" \in past.torn \cup {job'.does})
  <2>1. goal[CHECK_ENTRY].code \in Six  BY <1>7 DEF sealed
  <2>2. getCodeShape(job.from) = "digits-6" => job.from[CHECK_ENTRY].code \in Six
    BY <1>1, <1>8 DEF Sound, ReservedTrue
  <2> QED  BY <1>1, <1>7, <2>1, <2>2 DEF ReservedTrue, getCodeShape, hasVerifier
<1>13. Recoverable(store', staged')
  BY <1>1, <1>4, <1>15 DEF Recoverable
<1>14. Done(rest) => Readable(store')
  <2> SUFFICES ASSUME Done(rest) PROVE Readable(store')
    OBVIOUS
  <2>1. \A name \in Name : store'[name] = goal[name]  BY <1>1, <1>2 DEF Reached
  <2>2. salts # None  BY <1>4, LockAssumption DEF Salt
  <2>4. opens(store', code)
    BY <1>7, <2>1, <2>2, Names DEF opens
  <2>6. decrypts(store', code)  BY <1>7, <2>1, Names DEF decrypts
  <2> QED  BY <1>1, <1>4, <2>4, <2>6 DEF Readable
<1> QED  BY <1>8, <1>11, <1>13, <1>14 DEF Safe, LockDoes

(* The store a write of disableDeviceLock leaves.                          *)
LEMMA DisablingAfter ==
  ASSUME Base, Disabling, NEW w, Writes(w)
  PROVE  \E p \in Phrase :
           /\ Unlocked(job.from, p) /\ hasVerifier(job.from)
           /\ ~hasVerifier(store') => store'[Identity] = p
           /\ hasVerifier(store') => /\ store'[CHECK_ENTRY] = job.from[CHECK_ENTRY]
                                     /\ store'[CODE_SHAPE_ENTRY] \in {None, job.from[CODE_SHAPE_ENTRY]}
           /\ \/ store'[Identity] = p
              \/ store'[Identity] = job.from[Identity] /\ store'[SALT_ENTRY] = job.from[SALT_ENTRY]
           /\ Done(job.writes \ {w}) => store'[Identity] = p /\ ~hasVerifier(store')
<1>1. PICK p \in Phrase :
        /\ Unlocked(job.from, p)
        /\ OnTheWay(LockPlan([Nothing EXCEPT ![Identity] = p], "ordinary-first", FinalDrops))
  BY DEF Disabling
<1>2. hasVerifier(job.from)  BY <1>1, UnlockedHasVerifier
<1>3. PlanOK(LockPlan([Nothing EXCEPT ![Identity] = p], "ordinary-first", FinalDrops))  BY GoalsOK
<1>4. Follows(LockPlan([Nothing EXCEPT ![Identity] = p], "ordinary-first", FinalDrops), job.writes \ {w}, job.from, store', staged')
  BY <1>1, <1>3, PlanWrite
<1> QED  BY <1>1, <1>2, <1>4, DisableFacts

(* The lock after a write of disableDeviceLock.                            *)
LEMMA DisablingLeaves ==
  ASSUME Base, LockInv, Disabling, NEW w, Writes(w)
  PROVE  Safe(store', staged', past.torn, job'.does)
<1>3. PICK rest : rest = job.writes \ {w}  OBVIOUS
<1>4. job.does = "disable"  BY DEF Disabling
<1>6. PICK p \in Phrase :
        /\ Unlocked(job.from, p) /\ hasVerifier(job.from)
        /\ ~hasVerifier(store') => store'[Identity] = p
        /\ hasVerifier(store') => /\ store'[CHECK_ENTRY] = job.from[CHECK_ENTRY]
                                  /\ store'[CODE_SHAPE_ENTRY] \in {None, job.from[CODE_SHAPE_ENTRY]}
        /\ \/ store'[Identity] = p
           \/ store'[Identity] = job.from[Identity] /\ store'[SALT_ENTRY] = job.from[SALT_ENTRY]
        /\ Done(rest) => store'[Identity] = p /\ ~hasVerifier(store')
  BY <1>3, DisablingAfter
<1>15. PICK old \in Codes : job.from[Identity] = sealed(p, old, job.from[SALT_ENTRY])
  BY <1>6 DEF Unlocked
<1>8. /\ Sound(job.from, past.torn)
      /\ job'.does = (IF Done(rest) THEN "none" ELSE "disable")
  BY <1>3, <1>4, WriteLeaves DEF LockInv
<1>11. ReservedTrue(store', "reset" \in past.torn \cup {job'.does})
  <2>1. DIGITS_6 # None  BY LockAssumption
  <2>2. getCodeShape(job.from) = "digits-6" => job.from[CHECK_ENTRY].code \in Six
    BY <1>6, <1>8 DEF Sound, ReservedTrue
  <2>3. hasVerifier(store') /\ getCodeShape(store') = "digits-6" => getCodeShape(job.from) = "digits-6"
    BY <1>6, <2>1 DEF getCodeShape
  <2> QED  BY <1>6, <2>2, <2>3 DEF ReservedTrue
<1>13. Recoverable(store', staged')
  BY <1>6, <1>15 DEF Recoverable
<1>14. Done(rest) => Readable(store')
  BY <1>6 DEF Readable
<1> QED  BY <1>8, <1>11, <1>13, <1>14 DEF Safe, LockDoes

(* What stays as it was.                                                   *)
LEMMA SameEntries ==
  ASSUME NEW area, NEW aside, NEW after, NEW torn, NEW does, NEW did,
         Safe(area, aside, torn, did), did \notin LockDoes, does \notin LockDoes,
         after[Identity] = area[Identity], after[SALT_ENTRY] = area[SALT_ENTRY],
                  after[CHECK_ENTRY] = area[CHECK_ENTRY],
         after[CODE_SHAPE_ENTRY] = area[CODE_SHAPE_ENTRY]
           \/ (hasVerifier(area) /\ area[CHECK_ENTRY].code \in Six)
  PROVE  Safe(after, aside, torn, does)
<1>1. ("reset" \in torn \cup {does}) <=> ("reset" \in torn)  BY DEF LockDoes
<1>2. ("reset" \in torn \cup {did}) <=> ("reset" \in torn)  BY DEF LockDoes
<1>3. hasVerifier(after) <=> hasVerifier(area)  BY DEF hasVerifier
<1>4. ReservedTrue(after, "reset" \in torn \cup {does})
  BY <1>1, <1>2, <1>3 DEF Safe, ReservedTrue, getCodeShape
<1>5. "reset" \notin torn \cup {does} => Recoverable(after, aside)
  BY <1>1, <1>2 DEF Safe, Recoverable
<1>6. torn \cap LockDoes = {} => Readable(after)
  BY <1>3 DEF Safe, Readable, opens, decrypts
<1> QED  BY <1>4, <1>5, <1>6 DEF Safe

(* The lock after a write of an erase.                                     *)
LEMMA ErasingLeaves ==
  ASSUME Base, LockInv, Erasing, NEW w, Writes(w)
  PROVE  Safe(store', staged', past.torn, job'.does)
<1>1. /\ w \in job.writes /\ LandsOn(w) /\ \A other \in job.writes : w.turn <= other.turn
      /\ WriteRecord(NoRecord) \in job.writes /\ job.does = "reset"
  BY DEF Writes, Erasing
<1>2. /\ Sound(job.from, past.torn) /\ job'.does = (IF Done(job.writes \ {w}) THEN "none" ELSE "reset")
  BY <1>1, WriteLeaves DEF LockInv
<1>3. \A name \in Name :
        store[name] # None => store[name] = job.from[name] /\ Drop(1, "store", name) \in job.writes
  BY DEF Erasing
<1>4. CASE Done(job.writes \ {w})
  <2>1. w = WriteRecord(NoRecord) /\ job.writes = {w}  BY <1>1, <1>4 DEF Done
  <2>2. \A name \in Name : store[name] = None
    BY <1>3, <2>1 DEF WriteRecord, Put, Drop
  <2>3. store' = store  BY <1>1, <2>1 DEF LandsOn, WriteRecord, Put
  <2>4. store'[Identity] = None /\ ~hasVerifier(store')  BY <2>2, <2>3, Names DEF hasVerifier
  <2>5. ReservedTrue(store', "reset" \in past.torn \cup {job'.does})  BY <2>4 DEF ReservedTrue
  <2> QED  BY <2>4, <2>5 DEF Safe, Recoverable, Readable
<1>5. CASE ~Done(job.writes \ {w})
  <2>1. job'.does = "reset"  BY <1>2, <1>5
  <2>2. \A name \in Name : store'[name] \in {None, job.from[name]}
    <3>1. PICK other \in job.writes : other # w  BY <1>5 DEF Done
    <3>2. \A v \in job.writes : v = WriteRecord(NoRecord) \/ \E name \in Name,
                                                             area \in {"store", "staged"} : v = Drop(1, area, name)
      BY DEF Erasing
    <3>3. \A v \in job.writes : v = WriteRecord(NoRecord) \/ v.value = None  BY <3>2 DEF Drop, Put
    <3>4. store' = store \/ (w.area = "store" /\ store' = [store EXCEPT ![w.name] = w.value])
      BY <1>1 DEF LandsOn
    <3>5. w.area = "store" => w.value = None  BY <1>1, <3>3 DEF WriteRecord, Put
    <3>6. store = [name \in Name |-> store[name]]  BY DEF Base, Typed, IsArea
    <3> QED  BY <1>3, <3>4, <3>5, <3>6
  <2>3. hasVerifier(store') /\ getCodeShape(store') = "digits-6" => store'[CHECK_ENTRY].code \in Six
    <3> SUFFICES ASSUME hasVerifier(store'), getCodeShape(store') = "digits-6"
          PROVE store'[CHECK_ENTRY].code \in Six
      OBVIOUS
    <3>1. store'[CHECK_ENTRY] = job.from[CHECK_ENTRY]  BY <2>2, Names DEF hasVerifier
    <3>2. store'[CODE_SHAPE_ENTRY] = DIGITS_6  BY DEF getCodeShape
    <3>3. job.from[CODE_SHAPE_ENTRY] = DIGITS_6  BY <2>2, <3>2, Names, LockAssumption
    <3>4. getCodeShape(job.from) = "digits-6" /\ hasVerifier(job.from)
      BY <3>1, <3>3 DEF getCodeShape, hasVerifier
    <3> QED  BY <3>1, <3>4, <1>2 DEF Sound, ReservedTrue
  <2> QED  BY <2>1, <2>3 DEF Safe, ReservedTrue, LockDoes
<1> QED  BY <1>4, <1>5

(* The lock after a write of the unlock screen.                            *)
LEMMA UnlockingLeaves ==
  ASSUME Base, LockInv, Unlocking, NEW w, Writes(w)
  PROVE  Safe(store', staged', past.torn, job'.does)
<1>1. /\ w \in job.writes /\ LandsOn(w) /\ job.does = "unlock" /\ hasVerifier(store)
  BY DEF Writes, Unlocking
<1>2. job'.does \in {"none", "unlock"} /\ Safe(store, staged, past.torn, "unlock")
  BY <1>1, WriteLeaves DEF LockInv
<1>3. job'.does \notin LockDoes /\ "unlock" \notin LockDoes  BY <1>2 DEF LockDoes
<1>4. store = [name \in Name |-> store[name]] /\ IsArea(store, salts)  BY DEF Base, Typed, IsArea
<1>5. CASE job.writes = {Put(1, "store", CODE_SHAPE_ENTRY, DIGITS_6)} /\ store[CHECK_ENTRY].code \in Six
  <2>1. store' = [store EXCEPT ![CODE_SHAPE_ENTRY] = DIGITS_6] /\ staged' = staged
    BY <1>1, <1>5 DEF LandsOn, Put
  <2>2. /\ store'[Identity] = store[Identity] /\ store'[SALT_ENTRY] = store[SALT_ENTRY]
        /\ store'[CHECK_ENTRY] = store[CHECK_ENTRY]
    BY <2>1, <1>4, Names
  <2> QED  BY <2>1, <2>2, <1>1, <1>2, <1>3, <1>5, SameEntries
<1>6. CASE job.writes = {Put(1, "store", SALT_ENTRY, salts)} /\ store[SALT_ENTRY] = None
  <2>1. store' = [store EXCEPT ![SALT_ENTRY] = salts] /\ staged' = staged  BY <1>1, <1>6 DEF LandsOn, Put
  <2>2. /\ store'[Identity] = store[Identity] /\ store'[CODE_SHAPE_ENTRY] = store[CODE_SHAPE_ENTRY]
        /\ store'[CHECK_ENTRY] = store[CHECK_ENTRY]
    BY <2>1, <1>4, Names
  <2>3. ("reset" \in past.torn \cup {job'.does}) <=> ("reset" \in past.torn \cup {"unlock"})  BY <1>2
  <2>4. ReservedTrue(store', "reset" \in past.torn \cup {job'.does})
    BY <2>2, <2>3, <1>2 DEF Safe, ReservedTrue, getCodeShape, hasVerifier
  <2>5. ~Readable(store)
    BY <1>1, <1>6 DEF Readable, opens
  <2>6. ASSUME NEW p \in Phrase, NEW code \in Codes, store[Identity] = sealed(p, code, store[SALT_ENTRY])
        PROVE  store[Identity] \in Phrase \cup {None}
    <3>1. CASE store[Identity] \in Ciphered(salts)
      <4>1. None \in 1 .. salts  BY <1>6, <2>6, <3>1 DEF Ciphered, sealed
      <4>2. salts \in 0 .. MaxSalts /\ MaxSalts \in Nat  BY SaltsNat DEF Base
      <4> QED  BY <4>1, <4>2, LockAssumption
    <3> QED  BY <3>1, <1>4 DEF IsArea, Identities
  <2>7. "reset" \notin past.torn => Recoverable(store', staged')
    <3>1. "reset" \notin past.torn => Recoverable(store, staged)  BY <1>2 DEF Safe
    <3> QED  BY <2>1, <2>2, <2>6, <3>1 DEF Recoverable
  <2> QED  BY <2>3, <2>4, <2>5, <2>7, <1>2, <1>3 DEF Safe
<1> QED  BY <1>5, <1>6 DEF Unlocking

(* The lock after a record or an identity is written.                      *)
LEMMA SimpleLeaves ==
  ASSUME Base, LockInv, Simple, NEW w, Writes(w)
  PROVE  Safe(store', staged', past.torn, job'.does)
<1>1. /\ w \in job.writes /\ LandsOn(w) /\ job.does \in SimpleTaps
      /\ \/ \E r \in Records : w = WriteRecord(r)
         \/ app.at \in {"flow", "running"} /\ \E p \in Phrase : w = set(app.store, p)
  BY DEF Writes, Simple
<1>2. job'.does \in {"none", job.does} /\ Safe(store, staged, past.torn, job.does)
  BY <1>1, WriteLeaves DEF LockInv
<1>3. job'.does \notin LockDoes /\ job.does \notin LockDoes /\ ~LockJob
  BY <1>1, <1>2 DEF LockDoes, SimpleTaps, LockJob
<1>4. store = [name \in Name |-> store[name]]  BY DEF Base, Typed, IsArea
<1>5. CASE \E r \in Records : w = WriteRecord(r)
  <2>1. store' = store /\ staged' = staged  BY <1>1, <1>5 DEF LandsOn, WriteRecord, Put
  <2> QED  BY <2>1, <1>2, <1>3, SameEntries
<1>6. CASE app.at \in {"flow", "running"} /\ \E p \in Phrase : w = set(app.store, p)
  <2>1. PICK p \in Phrase : w = set(app.store, p)  BY <1>6
  <2>2. store' = [store EXCEPT ![Identity] = w.value] /\ staged' = staged
        /\ w.value = (IF app.store = Plain THEN p ELSE sealed(p, app.store.code, app.store.salt))
    BY <1>1, <2>1 DEF LandsOn, set, Put
  <2>3. /\ store'[SALT_ENTRY] = store[SALT_ENTRY] /\ store'[CODE_SHAPE_ENTRY] = store[CODE_SHAPE_ENTRY]
        /\ store'[CHECK_ENTRY] = store[CHECK_ENTRY] /\ store'[Identity] = w.value
    BY <2>2, <1>4, Names
  <2>4. Suits(app.store, store)  BY <1>3, <1>6 DEF Base, ViewOK, ViewGood
  <2>5. /\ ReservedTrue(store', "reset" \in past.torn \cup {job'.does})
        /\ Recoverable(store', staged') /\ Readable(store')
    <3>0. hasVerifier(store) /\ getCodeShape(store) = "digits-6" => store[CHECK_ENTRY].code \in Six
      BY <1>2 DEF Safe, ReservedTrue
    <3>1. hasVerifier(store') /\ getCodeShape(store') = "digits-6" => store'[CHECK_ENTRY].code \in Six
      BY <2>3, <3>0 DEF hasVerifier, getCodeShape
    <3>2. CASE app.store = Plain
      <4>1. ~hasVerifier(store') /\ store'[Identity] = p  BY <2>2, <2>3, <2>4, <3>2 DEF Suits, hasVerifier
      <4> QED  BY <4>1 DEF ReservedTrue, Recoverable, Readable
    <3>3. CASE app.store # Plain
      <4>1. app.store \in [code : Codes, salt : 1 .. salts] /\ salts \in 0 .. MaxSalts
        BY <3>3 DEF Base, Typed, Screen, View
      <4>2. opens(store', app.store.code) /\ store'[SALT_ENTRY] = app.store.salt
        BY <2>3, <2>4, <3>3 DEF Suits, opens
      <4>3. hasVerifier(store')  BY <4>1, <4>2, SealedTyped DEF opens, hasVerifier
      <4>4. store'[Identity] = sealed(p, app.store.code, store'[SALT_ENTRY])  BY <2>2, <2>3, <3>3, <4>2
      <4>5. app.store.code \in Codes  BY <4>1
      <4>6. Recoverable(store', staged')  BY <4>4, <4>5 DEF Recoverable
      <4>7. Readable(store')  BY <4>2, <4>3, <4>4, <4>5 DEF Readable, decrypts
      <4> QED  BY <3>1, <4>3, <4>6, <4>7 DEF ReservedTrue
    <3> QED  BY <3>2, <3>3
  <2> QED  BY <2>5, <1>3 DEF Safe
<1> QED  BY <1>1, <1>5, <1>6

(* The lock after any write.                                               *)
LEMMA LockWrite == ASSUME Base, LockInv, Write PROVE LockInv'
<1>1. PICK w : Writes(w)  BY WriteIs DEF Base
<1>2. Writing /\ past' = past /\ (Writing' => job'.from = job.from)  BY <1>1, WriteLeaves
<1>3. Safe(store', staged', past.torn, job'.does)
  BY <1>1, <1>2, EnablingLeaves, ChangingLeaves, DisablingLeaves, ErasingLeaves, UnlockingLeaves, SimpleLeaves
     DEF Base, JobOK
<1>4. Writing' => Sound(job'.from, past'.torn)  BY <1>2 DEF LockInv
<1> QED  BY <1>2, <1>3, <1>4 DEF LockInv

(* A tap finds the store between two taps.                                 *)
LEMMA LockTapped ==
  ASSUME Base, LockInv, NEW name \in Taps, NEW writes, NEW a, NEW f, Starts(name, writes, a, f),
         past'.torn = past.torn
  PROVE  LockInv'
<1>1. /\ ~Writing /\ UNCHANGED <<store, staged>> /\ job'.from = store /\ job'.does = name
  BY DEF Starts
<1>2. job.does = "none"  BY <1>1 DEF Base, Typed, JobType, Writing, Idle
<1>3. /\ ReservedTrue(store, "reset" \in past.torn \cup {"none"})
      /\ "reset" \notin past.torn \cup {"none"} => Recoverable(store, staged)
      /\ past.torn \cap LockDoes = {} => Readable(store)
  BY <1>2 DEF LockInv, Safe, LockDoes
<1>4. ReservedTrue(store, "reset" \in past.torn) /\ ReservedTrue(store, "reset" \in past.torn \cup {name})
  BY <1>3 DEF ReservedTrue
<1> QED  BY <1>1, <1>3, <1>4 DEF LockInv, Safe, Sound

(* Every tap starts a job.                                                 *)
LEMMA TapStarts ==
  ASSUME Tap
  PROVE  \E name \in Taps : \E writes, a, f : Starts(name, writes, a, f)
<1>1. CASE Resumes  BY <1>1 DEF Resumes, Taps, SimpleTaps
<1>2. CASE Begins  BY <1>2 DEF Begins, Draws, Redraws, Taps, SimpleTaps
<1>3. CASE Pages  BY <1>3 DEF Pages, TurnsFrom, Taps, SimpleTaps
<1>4. CASE Finishes  BY <1>4 DEF Finishes, Taps, SimpleTaps
<1>5. CASE Joins  BY <1>5 DEF Joins, Taps, SimpleTaps
<1>6. CASE Replaces  BY <1>6 DEF Replaces, Taps, SimpleTaps
<1>7. CASE Enables  BY <1>7 DEF Enables, Taps
<1>8. CASE Changes  BY <1>8 DEF Changes, Taps
<1>9. CASE Disables  BY <1>9 DEF Disables, Taps
<1>10. CASE Erases  BY <1>10 DEF Erases, Taps
<1>11. CASE Unlocks  BY <1>11 DEF Unlocks, MarksShape, FillsSalt, Taps
<1> QED  BY <1>1, <1>2, <1>3, <1>4, <1>5, <1>6, <1>7, <1>8, <1>9, <1>10, <1>11 DEF Tap, SimpleTap, LockTap

(* What a tap adds to the past: at most a phrase drawn.                    *)
LEMMA TapPast ==
  ASSUME Typed, Tap
  PROVE  /\ past'.torn = past.torn /\ past'.fresh = past.fresh /\ past'.revealed = past.revealed
         /\ past' = past \/ (Begins /\ \E p \in Minted : Draws(p))
<1>1. CASE Begins /\ \E p \in Minted : Draws(p)
  BY <1>1 DEF Draws, Typed, PastType
<1>2. CASE ~(Begins /\ \E p \in Minted : Draws(p))
  <2>1. past' = past
    BY <1>2 DEF Tap, SimpleTap, LockTap, Resumes, Begins, Redraws, Pages, TurnsFrom, Finishes, Joins, Replaces,
                Enables, Changes, Disables, Erases, Unlocks, MarksShape, FillsSalt
  <2> QED  BY <2>1
<1> QED  BY <1>1, <1>2

(* The lock once the app is closed or killed.                              *)
LEMMA LockStops == ASSUME Base, LockInv, Kill \/ CloseApp PROVE LockInv'
<1>1. /\ app' = Closed /\ UNCHANGED <<store, staged>> /\ job' \in {Idle, job} /\ (job' = Idle \/ ~Writing)
  BY DEF Kill, CloseApp
<1>2. job' = Idle  BY <1>1 DEF Base, Typed, JobType, Writing
<1>3. ~Writing' /\ job'.does = "none"  BY <1>2 DEF Writing, Idle
<1>4. CASE CloseApp
  <2>1. past'.torn = past.torn /\ job = Idle
    BY <1>4, <1>2 DEF CloseApp, Base, Typed, PastType, JobType, Writing
  <2> QED  BY <1>1, <1>2, <1>3, <2>1 DEF LockInv
<1>5. CASE Kill
  <2>1. Writing /\ past'.torn = IF store = job.from /\ job.does # "reset" THEN past.torn ELSE past.torn \cup {job.does}
    BY <1>5 DEF Kill, Base, Typed, PastType
  <2>2. Safe(store, staged, past.torn, job.does) /\ Sound(job.from, past.torn)  BY <2>1 DEF LockInv
  <2>3. CASE store = job.from /\ job.does # "reset"
    <3>1. past'.torn = past.torn /\ past.torn \cup {"none"} = past.torn \cup {"none"}  BY <2>1, <2>3
    <3>2. ("reset" \in past.torn \cup {"none"}) <=> ("reset" \in past.torn \cup {job.does})  BY <2>3
    <3>3. ReservedTrue(store, "reset" \in past.torn \cup {"none"})  BY <2>2, <3>2 DEF Safe, ReservedTrue
    <3>4. "reset" \notin past.torn \cup {"none"} => Recoverable(store, staged)  BY <2>2, <3>2 DEF Safe
    <3>5. past.torn \cap LockDoes = {} => Readable(store)  BY <2>2, <2>3 DEF Sound
    <3> QED  BY <1>1, <1>3, <3>1, <3>3, <3>4, <3>5 DEF LockInv, Safe
  <2>4. CASE past'.torn = past.torn \cup {job.does}
    <3>2. ("reset" \in past'.torn \cup {"none"}) <=> ("reset" \in past.torn \cup {job.does})  BY <2>4
    <3>3. ReservedTrue(store, "reset" \in past'.torn \cup {"none"})  BY <2>2, <3>2 DEF Safe, ReservedTrue
    <3>4. "reset" \notin past'.torn \cup {"none"} => Recoverable(store, staged)  BY <2>2, <3>2 DEF Safe
    <3>5. past'.torn \cap LockDoes = {} => Readable(store)  BY <2>2, <2>4 DEF Safe
    <3> QED  BY <1>1, <1>3, <3>3, <3>4, <3>5 DEF LockInv, Safe
  <2> QED  BY <2>1, <2>3, <2>4
<1> QED  BY <1>4, <1>5

(* The lock along every step.                                              *)
LEMMA LockKeeps == ASSUME Base, LockInv, Kind PROVE LockInv'
<1>1. CASE Moves \/ Gate \/ Adopts \/ UNCHANGED vars
  <2>1. UNCHANGED <<store, staged, job>>
    BY <1>1 DEF Moves, FlowMove, Gate, Adopts, vars
  <2>2. past'.torn = past.torn
    BY <1>1 DEF Moves, FlowMove, Gate, Adopts, vars, Base, Typed, PastType
  <2> QED  BY <2>1, <2>2 DEF LockInv, Writing
<1>2. CASE Tap
  <2>1. past'.torn = past.torn  BY <1>2, TapPast DEF Base
  <2> QED  BY <1>2, <2>1, TapStarts, LockTapped
<1>3. CASE Write  BY <1>3, LockWrite
<1>4. CASE Kill \/ CloseApp  BY <1>4, LockStops
<1> QED  BY <1>1, <1>2, <1>3, <1>4 DEF Kind

(* The lock at first.                                                      *)
LEMMA LockInit == Init => LockInv
<1> SUFFICES ASSUME Init PROVE LockInv
  OBVIOUS
<1>1. job.does = "none" /\ ~Writing /\ past.torn = {}  BY DEF Init, Idle, Writing
<1>2. Brought \subseteq Phrase /\ None \notin Phrase  BY LockAssumption DEF Brought
<1>3. CASE store[Identity] \in Phrase \cup {None} /\ ~hasVerifier(store)
  BY <1>1, <1>3 DEF LockInv, Safe, ReservedTrue, Recoverable, Readable
<1>4. CASE \E p \in Brought,
         c \in Codes : store = Legacy(sealed(p, c, 1), 1, sealed(CHECK_VALUE, c, 1), None) /\ salts = 1
  <2>1. PICK p \in Phrase, c \in Codes : store = Legacy(sealed(p, c, 1), 1, sealed(CHECK_VALUE, c, 1), None)
    BY <1>2, <1>4
  <2>2. /\ store[Identity] = sealed(p, c, 1) /\ store[SALT_ENTRY] = 1 /\ store[CHECK_ENTRY] = sealed(CHECK_VALUE, c, 1)
        /\ store[CODE_SHAPE_ENTRY] = None
    BY <2>1, Names DEF Legacy
  <2>3. 1 \in 1 .. 1 /\ 1 \in 0 .. MaxSalts /\ 1 # None /\ DIGITS_6 # None  BY LockAssumption
  <2>4. sealed(CHECK_VALUE, c, 1) # None  BY <2>3, SealedTyped
  <2>5. hasVerifier(store) /\ getCodeShape(store) = "legacy" /\ opens(store, c)
    BY <2>2, <2>3, <2>4 DEF hasVerifier, getCodeShape, opens
  <2>6. decrypts(store, c) /\ Recoverable(store, staged)  BY <2>2 DEF decrypts, Recoverable
  <2>7. Readable(store)  BY <2>5, <2>6 DEF Readable
  <2>8. ReservedTrue(store, "reset" \in past.torn \cup {job.does})  BY <2>5 DEF ReservedTrue
  <2> QED  BY <1>1, <2>6, <2>7, <2>8 DEF LockInv, Safe
<1>5. CASE store = Nothing \/ \E p \in Brought : store = Legacy(p, None, None, None)
  <2>1. store[Identity] \in Phrase \cup {None} /\ ~hasVerifier(store)
    BY <1>2, <1>5, Names DEF Nothing, Legacy, hasVerifier
  <2> QED  BY <2>1, <1>3
<1> QED  BY <1>4, <1>5 DEF Init

(* What is said of the lock always holds.                                  *)
LEMMA LockAlways == Spec => []LockInv
<1>1. Base /\ LockInv /\ [Next]_vars => LockInv'  BY BaseKept, LockKeeps
<1> QED  BY <1>1, LockInit, BaseAlways, PTL DEF Spec

(* What the reserved entries say of the store is so between any two        *)
(* writes: without a verifier it holds no ciphertext, unless it is being   *)
(* erased, and the marker never says six digits of a longer code           *)
(* (device-lock.ts: promoteStaged's order, and the drops of                *)
(* disableDeviceLock).                                                     *)
THEOREM DeviceEntryReservedEntriesTrue == Spec => []ReservedEntriesTrue
<1>1. LockInv => ReservedEntriesTrue  BY DEF LockInv, Safe, ReservedTrue, ReservedEntriesTrue
<1> QED  BY <1>1, LockAlways, PTL

(* Between two taps some code opens the device and reads its phrase, or it *)
(* needs none, also after an operation that was cut short before it        *)
(* touched a real entry (device-lock.ts: nothing is promoted before all of *)
(* it is staged).                                                          *)
THEOREM DeviceEntryLockKept == Spec => []LockKept
<1>1. Base /\ LockInv => LockKept
  <2> SUFFICES ASSUME Base, LockInv, ~Writing, past.torn \cap LockDoes = {} PROVE Readable(store)
    BY DEF LockKept, LockDoes
  <2>1. job.does = "none"  BY DEF Base, Typed, JobType, Writing, Idle
  <2> QED  BY <2>1 DEF LockInv, Safe, LockDoes
<1> QED  BY <1>1, BaseAlways, LockAlways, PTL

(* However an operation on the lock was cut short, the phrase and the salt *)
(* it is sealed under are on the device, in the store or the staging area  *)
(* (device-lock.ts: the staging area is cleared last).                     *)
THEOREM DeviceEntryPhraseRecoverable == Spec => []PhraseRecoverable
<1>1. LockInv => PhraseRecoverable
  <2> SUFFICES ASSUME LockInv, store[Identity] # None, "reset" \notin past.torn \cup {job.does}
               PROVE  \E p \in Phrase, area \in {store, staged} :
                         \/ area[Identity] = p
                         \/ \E code \in Codes, beside \in {store, staged} :
                              area[Identity] = sealed(p, code, beside[SALT_ENTRY])
    BY DEF PhraseRecoverable
  <2>1. Recoverable(store, staged)  BY DEF LockInv, Safe
  <2> QED  BY <2>1 DEF Recoverable
<1> QED  BY <1>1, LockAlways, PTL

-----------------------------------------------------------------------------
(* No phrase in the clear where the lock is required.                      *)
LEMMA SetSeals ==
  ASSUME Base, app.store # Plain, NEW p \in Phrase
  PROVE  set(app.store, p).value \notin Phrase
<1>1. app.store \in [code : Codes, salt : 1 .. salts] /\ salts \in 0 .. MaxSalts
  BY DEF Base, Typed, Screen, View
<1>2. set(app.store, p).value = sealed(p, app.store.code, app.store.salt)  BY DEF set, Put
<1> QED  BY <1>1, <1>2, SealedTyped

(* A generation is written sealed, in the staging area too.                *)
LEMMA GenerationSeals ==
  ASSUME Base, DrawsSalt, NEW code \in Six, NEW w \in enableDeviceLock(code) \cup changeUnlockCode(code),
           w.name = Identity
  PROVE  w.value \notin Phrase
<1>1. salts + 1 \in 1 .. MaxSalts  BY SaltsNat DEF Base, DrawsSalt
<1>2. code \in Codes /\ None \notin Phrase  BY LockAssumption DEF Codes
<1>3. ASSUME NEW phrase, NEW order,
             w \in clearStaging \cup staging(generation(phrase, code)) \cup promoteStaged(generation(phrase, code), order)
      PROVE  w.value \notin Phrase
  <2>1. generation(phrase, code)[Identity] \notin Phrase  BY <1>1, <1>2, GeneratedArea DEF generation
  <2> DEFINE goal == generation(phrase, code)
  <2> HIDE DEF goal
  <2>2. \A x \in clearStaging \cup staging(goal) \cup promoteStaged(goal, order) : x.value \in {None, goal[x.name]}
    BY DEF clearStaging, staging, promoteStaged, Promoted, Unstaged, Drop, Put
  <2>3. w.value \in {None, goal[w.name]}  BY <1>3, <2>2 DEF goal
  <2> QED  BY <1>2, <2>1, <2>3 DEF goal
<1> QED  BY <1>3 DEF enableDeviceLock, changeUnlockCode

ClearFree ==
  /\ store[Identity] \notin Phrase /\ staged[Identity] \notin Phrase
  /\ Sealing
  /\ app.at = "running" => app.store # Plain
  /\ job.app.at = "running" => job.app.store # Plain

(* What a plain view reads is at rest in the clear.                        *)
LEMMA PlainReadsNothing ==
  ASSUME Base, store[Identity] \notin Phrase, get(app.store) \in Phrase PROVE app.store # Plain
  BY GetOf DEF Base

(* On a build that requires the lock, no tap asks for a phrase in the      *)
(* clear.                                                                  *)
LEMMA ClearFreeTap ==
  ASSUME Base, ClearFree, device.required, Tap
  PROVE  ClearFree'
<1>0. PICK name \in Taps : \E writes, a, f : Starts(name, writes, a, f)  BY TapStarts
<1>1. PICK writes, a, f : Starts(name, writes, a, f)  BY <1>0
<1>2. UNCHANGED <<store, staged, app>> /\ job'.writes = writes /\ job'.app = a  BY <1>1 DEF Starts
<1>3. \A n, ws, b, g : Starts(n, ws, b, g) => writes = ws /\ a = b  BY <1>1 DEF Starts
<1>4. app.at = "flow" /\ flow.locked => app.store # Plain  BY DEF Base, ViewOK
<1>5. \A view, phrase : InFlow(view).at # "running" /\ Ready(view, phrase).store = view
  BY DEF InFlow, Ready
<1>6. Closed.at # "running" /\ (app.at = "running" => app.store # Plain)  BY DEF Closed, ClearFree
<1>7. \A r : WriteRecord(r).area = "record"  BY DEF WriteRecord, Put
<1>8. app.store # Plain => \A p \in Phrase : set(app.store, p).value \notin Phrase  BY SetSeals
<1>9. Brought \subseteq Phrase /\ Minted \subseteq Phrase /\ None \notin Phrase
  BY EntryAssumption, LockAssumption DEF Brought
<1> SUFFICES /\ \A w \in writes : w.area # "record" /\ w.name = Identity => w.value \notin Phrase
             /\ a.at = "running" => a.store # Plain
  BY <1>2 DEF ClearFree, Sealing
<1>10. CASE Resumes
  <2>1. writes = {WriteRecord(New(record.step))} /\ a = InFlow(app.store)  BY <1>3, <1>10 DEF Resumes
  <2> QED  BY <2>1, <1>5, <1>7
<1>11. CASE Begins
  <2>1. (\E p \in Minted : writes = {set(app.store, p), WriteRecord(New("phrase"))}) \/ writes = {WriteRecord(New("phrase"))}
    BY <1>3, <1>11 DEF Begins, Draws, Redraws
  <2>2. a = InFlow(app.store) /\ app.store # Plain  BY <1>3, <1>4, <1>11 DEF Begins, Draws, Redraws
  <2> QED  BY <2>1, <2>2, <1>5, <1>7, <1>8, <1>9
<1>12. CASE Pages
  <2>1. (\E to : writes = {WriteRecord(New(to))}) /\ a = InFlow(app.store)  BY <1>3, <1>12 DEF Pages, TurnsFrom
  <2> QED  BY <2>1, <1>5, <1>7
<1>13. CASE Finishes
  <2>1. (\E to : writes = {WriteRecord(to)}) /\ a = Ready(app.store, get(app.store))
    BY <1>3, <1>13 DEF Finishes
  <2>2. a.at = "running" => get(app.store) \in Phrase  BY <2>1 DEF Ready
  <2> QED  BY <2>1, <2>2, <1>5, <1>7, PlainReadsNothing DEF ClearFree
<1>14. CASE Joins
  <2>1. /\ \E p \in Brought : \E to : writes = {set(app.store, p), WriteRecord(to)} /\ a = Ready(app.store, p)
        /\ app.store # Plain
    BY <1>3, <1>4, <1>14 DEF Joins
  <2> QED  BY <2>1, <1>5, <1>7, <1>8, <1>9
<1>15. CASE Replaces
  <2>1. (\E p \in Brought : writes = {set(app.store, p)}) /\ a = Closed /\ app.store # Plain
    BY <1>3, <1>6, <1>15 DEF Replaces
  <2> QED  BY <2>1, <1>6, <1>8, <1>9
<1>16. CASE Enables
  <2>1. PICK code \in Six :
          /\ writes = enableDeviceLock(code)
          /\ a.at = "running" => a.store = [code |-> code, salt |-> salts + 1]
    BY <1>3, <1>16 DEF Enables, Ready, InFlow, Closed
  <2>2. [code |-> code, salt |-> salts + 1] # Plain  BY LockAssumption DEF Plain, Codes
  <2> QED  BY <2>1, <2>2, <1>16, GenerationSeals DEF Enables
<1>17. CASE Changes
  <2>1. PICK code \in Six : writes = changeUnlockCode(code) /\ a = Closed  BY <1>3, <1>17 DEF Changes
  <2> QED  BY <2>1, <1>6, <1>17, GenerationSeals DEF Changes
<1>18. CASE Disables  BY <1>18 DEF Disables
<1>19. CASE Erases
  <2>1. writes = resetDeviceKeyStore \cup {WriteRecord(NoRecord)} /\ a = Closed  BY <1>3, <1>19 DEF Erases
  <2>2. \A w \in resetDeviceKeyStore : w.value = None  BY DEF resetDeviceKeyStore, Drop, Put
  <2>3. \A w \in writes : w = WriteRecord(NoRecord) \/ w.value = None  BY <2>1, <2>2
  <2>4. a.at # "running"  BY <2>1, <1>6
  <2> QED  BY <2>3, <2>4, <1>7, <1>9
<1>20. CASE Unlocks
  <2>1. (\E v : writes = {Put(1, "store", CODE_SHAPE_ENTRY, v)} \/ writes = {Put(1, "store", SALT_ENTRY, v)})
        /\ a.at # "running"
    <3>1. CASE MarksShape
      <4>1. PICK code \in Six :
              Starts("unlock", {Put(1, "store", CODE_SHAPE_ENTRY, DIGITS_6)}, [at |-> "opened", store |-> Locked(code)], flow)
        BY <3>1 DEF MarksShape
      <4> QED  BY <4>1, <1>3
    <3>2. CASE FillsSalt  BY <1>3, <1>20, <3>2 DEF Unlocks, FillsSalt
    <3> QED  BY <1>20, <3>1, <3>2 DEF Unlocks
  <2>2. \A v : Put(1, "store", CODE_SHAPE_ENTRY, v).name # Identity /\ Put(1, "store", SALT_ENTRY, v).name # Identity
    BY Names DEF Put
  <2>3. \A w \in writes : w.name # Identity  BY <2>1, <2>2
  <2> QED  BY <2>1, <2>3
<1> QED
  BY <1>10, <1>11, <1>12, <1>13, <1>14, <1>15, <1>16, <1>17, <1>18, <1>19, <1>20 DEF Tap, SimpleTap, LockTap

(* No phrase in the clear, along every step.                               *)
LEMMA ClearFreeKept ==
  ASSUME Base, Kind, device.required /\ past.fresh => ClearFree
  PROVE  (device.required /\ past.fresh => ClearFree)'
<1>1. device' = device /\ past'.fresh = past.fresh
  <2>1. CASE Tap
    <3>1. past'.fresh = past.fresh  BY <2>1, TapPast DEF Base
    <3>2. \E name \in Taps : \E writes, a, f : Starts(name, writes, a, f)  BY <2>1, TapStarts
    <3> QED  BY <3>1, <3>2 DEF Starts
  <2>2. CASE Write
    <3>1. PICK w : Writes(w)  BY <2>2, WriteIs DEF Base
    <3> QED  BY <3>1 DEF Writes
  <2>3. CASE Moves \/ Gate \/ Adopts \/ Kill \/ CloseApp \/ UNCHANGED vars
    BY <2>3 DEF Moves, FlowMove, Gate, Adopts, Kill, CloseApp, vars, Base, Typed, PastType
  <2> QED  BY <2>1, <2>2, <2>3 DEF Kind
<1> SUFFICES ASSUME device.required, past.fresh, ClearFree PROVE ClearFree'
  BY <1>1
<1>2. CASE Moves \/ Adopts \/ UNCHANGED vars
  <2>1. UNCHANGED <<store, staged, app, job>>  BY <1>2 DEF Moves, FlowMove, Adopts, vars
  <2> QED  BY <2>1 DEF ClearFree, Sealing
<1>3. CASE Gate
  <2>1. UNCHANGED <<store, staged, job>>  BY <1>3 DEF Gate
  <2>2. app'.at = "running" => get(app.store) \in Phrase /\ app'.store = app.store
    BY <1>3 DEF Gate, FirstRuns, Readies, AsksSetup, AsksCode, Opens, Ready, InFlow
  <2>3. app'.at = "running" => app'.store # Plain  BY <2>2, PlainReadsNothing DEF ClearFree
  <2> QED  BY <2>1, <2>3 DEF ClearFree, Sealing
<1>4. CASE Tap  BY <1>4, ClearFreeTap
<1>5. CASE Write
  <2>1. PICK w : Writes(w)  BY <1>5, WriteIs DEF Base
  <2>2. w \in job.writes /\ LandsOn(w)  BY <2>1 DEF Writes
  <2>3. store'[Identity] \notin Phrase /\ staged'[Identity] \notin Phrase
    <3>1. store = [name \in Name |-> store[name]] /\ staged = [name \in Name |-> staged[name]]
      BY DEF Base, Typed, IsArea
    <3>2. w.area # "record" /\ w.name = Identity => w.value \notin Phrase  BY <2>2 DEF ClearFree, Sealing
    <3>3. store' = store \/ (w.area = "store" /\ store' = [store EXCEPT ![w.name] = w.value])
      BY <2>2 DEF LandsOn
    <3>4. staged' = staged \/ (w.area = "staged" /\ staged' = [staged EXCEPT ![w.name] = w.value])
      BY <2>2 DEF LandsOn
    <3> QED  BY <3>1, <3>2, <3>3, <3>4, Names DEF ClearFree
  <2>4. CASE job.writes \ {w} = {}
    BY <2>1, <2>3, <2>4 DEF Writes, ClearFree, Sealing, Idle, Closed
  <2>5. CASE job.writes \ {w} # {}
    <3>1. job'.writes \subseteq job.writes /\ job'.app = job.app /\ app' = app
      BY <2>1, <2>5 DEF Writes, Base, Typed, JobType
    <3> QED  BY <3>1, <2>3 DEF ClearFree, Sealing
  <2> QED  BY <2>4, <2>5
<1>6. CASE Kill \/ CloseApp
  <2>1. app' = Closed /\ UNCHANGED <<store, staged>> /\ job' \in {Idle, job}  BY <1>6 DEF Kill, CloseApp
  <2> QED  BY <2>1 DEF ClearFree, Sealing, Idle, Closed
<1> QED  BY <1>2, <1>3, <1>4, <1>5, <1>6 DEF Kind

(* On a build that requires the lock, a device set up by the first run     *)
(* never holds a phrase in the clear, not even in the staging area         *)
(* (EntryFlow makes or takes a phrase only into a locked store, and the    *)
(* lock cannot be removed).                                                *)
THEOREM DeviceEntryPhraseNeverInClear == Spec => []PhraseNeverInClear
<1> DEFINE Inv == device.required /\ past.fresh => ClearFree
<1>1. Init => Inv
  <2> SUFFICES ASSUME Init, past.fresh PROVE ClearFree
    OBVIOUS
  <2>1. store = Nothing /\ staged = Nothing  BY DEF Init
  <2>2. Nothing[Identity] = None /\ None \notin Phrase  BY Names, LockAssumption DEF Nothing
  <2> QED  BY <2>1, <2>2 DEF Init, ClearFree, Sealing, Idle, Closed
<1>2. Base /\ Inv /\ [Next]_vars => Inv'  BY BaseKept, ClearFreeKept
<1>3. Inv => PhraseNeverInClear  BY DEF ClearFree, PhraseNeverInClear
<1> QED  BY <1>1, <1>2, <1>3, BaseAlways, PTL DEF Spec
-----------------------------------------------------------------------------
(* The new vault's screens and the entry record.                           *)
(* What is on screen is what the record says, or what a record still to    *)
(* be written says; the app runs, or asks for a lock, with no new vault    *)
(* begun and not finished.                                                 *)
RecordWrite(w) == w.area = "record"
Screened ==
  /\ \A v, w \in job.writes : RecordWrite(v) /\ RecordWrite(w) => v = w
  /\ app.at = "flow" /\ flow.step \in NewSteps => record = New(flow.step)
  /\ job.app.at = "flow" /\ job.flow.step \in NewSteps => WriteRecord(New(job.flow.step)) \in job.writes
  /\ app.at \in {"setup", "running"} => record.kind # "new" /\ \A w \in job.writes : ~RecordWrite(w)
  /\ job.app.at = "running" =>
       \/ \E w \in job.writes : RecordWrite(w) /\ w.value.kind # "new"
       \/ record.kind # "new" /\ \A w \in job.writes : ~RecordWrite(w)
  /\ job.does = "begin" => app.at = "flow"

(* Under a lock the first run finds no phrase in the clear.                *)
Covered ==
  /\ app.at = "flow" /\ app.store # Plain => store[Identity] \notin Phrase
  /\ job.app.at = "flow" /\ job.app.store # Plain /\ ~LockJob => store[Identity] \notin Phrase

(* The phrase an area holds: in the clear, or under the code its verifier  *)
(* was made with.  While the lock is being set, changed or removed it is   *)
(* the phrase the store held before.                                       *)
Holds(area, p) ==
  \/ area[Identity] = p
  \/ \E code \in Codes, salt \in Salt :
       area[Identity] = sealed(p, code, salt) /\ area[CHECK_ENTRY] = sealed(CHECK_VALUE, code, salt)
InPlay(p) == Holds(IF LockJob THEN job.from ELSE store, p) \/ set(app.store, p) \in job.writes

HeldBefore ==
  /\ job.does = "enable" => IsArea(job.from, salts - 1)
  /\ LockJob => \A p \in Phrase : Holds(store, p) \/ get(app.store) = p => Holds(job.from, p)

(* A phrase made here is begun with until the record says it was seen.     *)
Accounted(p) == p \in past.revealed \/ "begin" \in past.torn
Beginning == job.does = "begin" /\ job.from[Identity] = None /\ WriteRecord(New("phrase")) \in job.writes
Replaced(p) ==
  \E w \in job.writes : w.area = "store" /\ w.name = Identity /\ set(app.store, p) \notin job.writes
Begun ==
  \A p \in past.minted : InPlay(p) =>
    /\ Accounted(p) \/ record = New("phrase") \/ Beginning
    /\ \A w \in job.writes : RecordWrite(w) /\ w.value # New("phrase") => Accounted(p) \/ Replaced(p)

Shown(a, f) ==
  a.at = "flow" /\ f.step \in NewSteps =>
    /\ \A p \in Phrase : InPlay(p) => f.words = p
    /\ f.step = "phrase" /\ f.revealed => f.words \in past.revealed

SeenInv == Screened /\ Covered /\ HeldBefore /\ Begun /\ Shown(app, flow) /\ Shown(job.app, job.flow)

-----------------------------------------------------------------------------
(* What a view reads and what an area holds.                               *)
LEMMA SealedParts ==
  ASSUME NEW p, NEW c, NEW n, NEW q, NEW d, NEW m, sealed(p, c, n) = sealed(q, d, m)
  PROVE  p = q /\ c = d /\ n = m
  BY DEF sealed

(* A ciphertext is neither null nor a phrase.                              *)
LEMMA SealedApart ==
  ASSUME NEW p \in Phrase \cup {CHECK_VALUE, Unreadable}, NEW code \in Codes, NEW salt \in Salt
  PROVE  sealed(p, code, salt) # None /\ sealed(p, code, salt) \notin Phrase
<1>1. MaxSalts \in 0 .. MaxSalts  BY LockAssumption
<1> QED  BY <1>1, SealedTyped DEF Salt

(* Two phrases written under one view are told apart.                      *)
LEMMA SetSame ==
  ASSUME NEW view, NEW p, NEW q, set(view, p) = set(view, q) PROVE p = q
<1>1. set(view, p).value = set(view, q).value  OBVIOUS
<1> QED  BY <1>1 DEF set, Put, sealed

(* A view reads a phrase only of what it would have written.               *)
LEMMA ReadsForm ==
  ASSUME NEW view, NEW value, NEW p \in Phrase, Reads(view, value) = p
  PROVE  value = IF view = Plain THEN p ELSE sealed(p, view.code, view.salt)
<1> DEFINE Is(q) == value = (IF view = Plain THEN q ELSE sealed(q, view.code, view.salt))
<1>1. None \notin Phrase /\ Unreadable \notin Phrase  BY LockAssumption
<1>2. value # None /\ \E q \in Phrase : Is(q)  BY <1>1 DEF Reads
<1>3. Reads(view, value) = CHOOSE q \in Phrase : Is(q)  BY <1>2 DEF Reads
<1> HIDE DEF Is
<1>4. Is(p)  BY <1>2, <1>3
<1> QED  BY <1>4 DEF Is

(* A salt that has been drawn is one of the device's.                      *)
LEMMA SaltIn == ASSUME Typed, NEW salt \in 1 .. salts PROVE salt \in Salt
<1>1. salts \in Nat /\ salts \in 0 .. MaxSalts /\ MaxSalts \in Nat  BY SaltsNat
<1> QED  BY <1>1 DEF Salt

(* What a view of a store it suits reads, the store holds, and the other   *)
(* way round when a locked view finds nothing in the clear.                *)
LEMMA ViewHolds ==
  ASSUME Typed, NEW view \in View(salts), ViewGood(view), NEW p \in Phrase, get(view) = p
  PROVE  Holds(store, p)
<1>1. store[Identity] = IF view = Plain THEN p ELSE sealed(p, view.code, view.salt)  BY GetOf
<1>2. CASE view = Plain  BY <1>1, <1>2 DEF Holds
<1>3. CASE view # Plain
  <2>1. view.code \in Codes /\ view.salt \in Salt  BY <1>3, SaltIn DEF View
  <2>2. store[CHECK_ENTRY] = sealed(CHECK_VALUE, view.code, view.salt)  BY <1>3 DEF ViewGood, Suits, opens
  <2> QED  BY <1>1, <1>3, <2>1, <2>2 DEF Holds
<1> QED  BY <1>2, <1>3

(* A view that suits the store reads the phrase it holds.                  *)
LEMMA HoldsView ==
  ASSUME Typed, NEW view \in View(salts), ViewGood(view), NEW p \in Phrase, Holds(store, p),
         view = Plain \/ store[Identity] \notin Phrase
  PROVE  get(view) = p
<1>1. CASE store[Identity] = p
  BY <1>1, GetIs
<1>2. CASE store[Identity] # p
  <2>1. PICK code \in Codes, salt \in Salt :
          store[Identity] = sealed(p, code, salt) /\ store[CHECK_ENTRY] = sealed(CHECK_VALUE, code, salt)
    BY <1>2 DEF Holds
  <2>2. store[CHECK_ENTRY] # None  BY <2>1, SealedApart
  <2>3. view # Plain /\ store[CHECK_ENTRY] = sealed(CHECK_VALUE, view.code, view.salt)
    BY <2>2 DEF ViewGood, Suits, opens, hasVerifier
  <2>4. sealed(CHECK_VALUE, code, salt) = sealed(CHECK_VALUE, view.code, view.salt)  BY <2>1, <2>3
  <2>5. code = view.code /\ salt = view.salt  BY <2>4, SealedParts
  <2> QED  BY <2>1, <2>3, <2>5, GetIs
<1> QED  BY <1>1, <1>2

(* A store that a code opens holds the phrase it opens to.                 *)
LEMMA UnlockedHolds ==
  ASSUME Base, NEW p \in Phrase, Unlocked(job.from, p)
  PROVE  /\ Holds(job.from, p)
         /\ \E code \in Codes, salt \in Salt : job.from[Identity] = sealed(p, code, salt)
<1>1. PICK code \in Codes : opens(job.from, code) /\ job.from[Identity] = sealed(p, code, job.from[SALT_ENTRY])
  BY DEF Unlocked
<1>2. job.from[SALT_ENTRY] \in 1 .. salts  BY <1>1 DEF opens, Base, Typed, JobType, IsArea
<1>3. job.from[SALT_ENTRY] \in Salt  BY <1>2, SaltIn DEF Base
<1> QED  BY <1>1, <1>3 DEF Holds, opens

(* A write of an operation on the lock leaves in the store no phrase that  *)
(* was not there.                                                          *)
LEMMA HeldAfter ==
  ASSUME Base, HeldBefore, LockJob, NEW w, Writes(w), NEW p \in Phrase,
         Holds(store', p) \/ Reads(app.store, store'[Identity]) = p
  PROVE  Holds(job.from, p)
<1>0. Typed /\ app.store \in View(salts) /\ IsArea(job.from, salts)  BY DEF Base, Typed, Screen, JobType
<1>1. CASE Enabling
  <2>1. PICK code \in Six : \E goal :
           /\ goal = generated(job.from[Identity], code, salts)
           /\ ~hasVerifier(store') => store'[Identity] = job.from[Identity]
           /\ hasVerifier(store') => store'[CHECK_ENTRY] = goal[CHECK_ENTRY]
           /\ \/ store'[Identity] = job.from[Identity]
              \/ store'[Identity] = goal[Identity] /\ store'[SALT_ENTRY] = salts
    BY <1>1, EnablingAfter
  <2>2. code \in Codes /\ salts \in Salt /\ app.store = Plain /\ IsArea(job.from, salts - 1)
    BY <1>1 DEF Enabling, Codes, HeldBefore
  <2>3. /\ \/ store'[Identity] = job.from[Identity]
           \/ store'[Identity] = IF job.from[Identity] = None THEN None
                                 ELSE sealed(inside(job.from[Identity]), code, salts)
        /\ hasVerifier(store') => store'[CHECK_ENTRY] = sealed(CHECK_VALUE, code, salts)
    BY <2>1, GeneratedIs
  <2>4. Holds(store', p)
    BY <2>2, ReadsForm DEF Holds
  <2>5. CASE store'[Identity] = p
    <3>1. inside(job.from[Identity]) \in Phrase \cup {CHECK_VALUE, Unreadable}  BY DEF inside
    <3>2. sealed(inside(job.from[Identity]), code, salts) \notin Phrase  BY <2>2, <3>1, SealedApart
    <3>3. store'[Identity] = job.from[Identity]  BY <2>3, <2>5, <3>2, LockAssumption
    <3> QED  BY <2>5, <3>3 DEF Holds
  <2>6. CASE store'[Identity] # p
    <3>1. PICK c \in Codes, n \in Salt :
            store'[Identity] = sealed(p, c, n) /\ store'[CHECK_ENTRY] = sealed(CHECK_VALUE, c, n)
      BY <2>4, <2>6 DEF Holds
    <3>2. hasVerifier(store')  BY <3>1, SealedApart DEF hasVerifier
    <3>3. c = code /\ n = salts  BY <2>3, <3>1, <3>2, SealedParts
    <3>4. sealed(p, code, salts) # None /\ sealed(p, code, salts) \notin Phrase  BY <2>2, SealedApart
    <3>5. job.from[Identity] # sealed(p, code, salts)
      <4>1. job.from[Identity] \in Identities(salts - 1)  BY <2>2 DEF IsArea
      <4>2. sealed(p, code, salts) \notin Ciphered(salts - 1)
        <5>1. sealed(p, code, salts).salt = salts  BY DEF sealed
        <5>2. salts \in Nat  BY <1>0, SaltsNat
        <5>3. \A x \in Ciphered(salts - 1) : x.salt \in 1 .. (salts - 1)  BY DEF Ciphered
        <5> QED  BY <5>1, <5>2, <5>3
      <4> QED  BY <3>4, <4>1, <4>2 DEF Identities
    <3>6. sealed(p, code, salts) = sealed(inside(job.from[Identity]), code, salts)
      BY <2>3, <3>1, <3>3, <3>4, <3>5
    <3>7. p = inside(job.from[Identity])  BY <3>6, SealedParts
    <3>8. job.from[Identity] = p  BY <3>7, LockAssumption DEF inside
    <3> QED  BY <3>8 DEF Holds
  <2> QED  BY <2>5, <2>6
<1>2. ASSUME NEW q \in Phrase, Unlocked(job.from, q),
             store'[Identity] = q \/ \E c \in Codes, n \in Salt : store'[Identity] = sealed(q, c, n)
      PROVE  Holds(job.from, p)
  <2>1. \A c \in Codes, n \in Salt : sealed(p, c, n) \notin Phrase /\ sealed(q, c, n) \notin Phrase
    BY SealedApart
  <2>2. store'[Identity] = p \/ \E c \in Codes, n \in Salt : store'[Identity] = sealed(p, c, n)
    <3>1. CASE Holds(store', p)  BY <3>1 DEF Holds
    <3>2. CASE Reads(app.store, store'[Identity]) = p
      <4>1. store'[Identity] = IF app.store = Plain THEN p ELSE sealed(p, app.store.code, app.store.salt)
        BY <3>2, ReadsForm
      <4>2. app.store # Plain => app.store.code \in Codes /\ app.store.salt \in Salt  BY <1>0, SaltIn DEF View
      <4> QED  BY <4>1, <4>2
    <3> QED  BY <3>1, <3>2
  <2>3. q = p  BY <1>2, <2>1, <2>2, SealedParts
  <2> QED  BY <1>2, <2>3, UnlockedHolds
<1>3. CASE Changing
  <2>1. PICK code \in Six, q \in Phrase :
           /\ Unlocked(job.from, q)
           /\ store'[Identity] = job.from[Identity] \/ store'[Identity] = sealed(q, code, salts)
    BY <1>3, ChangingAfter
  <2>2. code \in Codes /\ salts \in Salt  BY <1>3 DEF Changing, Codes
  <2> QED  BY <1>2, <2>1, <2>2, UnlockedHolds
<1>4. CASE Disabling
  <2>1. PICK q \in Phrase : Unlocked(job.from, q) /\ store'[Identity] \in {q, job.from[Identity]}
    BY <1>4, DisablingAfter
  <2> QED  BY <1>2, <2>1, UnlockedHolds
<1>5. Enabling \/ Changing \/ Disabling
  BY DEF Base, JobOK, Writes, Writing, LockJob, Erasing, Unlocking, Simple, SimpleTaps
<1> QED  BY <1>1, <1>3, <1>4, <1>5

(* Any other write adds no phrase to the store but the one it writes.      *)
LEMMA HoldsAfter ==
  ASSUME Base, ~LockJob, NEW w, Writes(w), NEW p \in Phrase, Holds(store', p)
  PROVE  Holds(store, p) \/ w = set(app.store, p)
<1>0. /\ LandsOn(w) /\ w \in job.writes /\ (Erasing \/ Unlocking \/ Simple)
      /\ store = [name \in Name |-> store[name]] /\ Typed /\ app.store \in View(salts)
  BY DEF Base, JobOK, Writes, Writing, LockJob, Enabling, Changing, Disabling, Typed, IsArea, Screen
<1>1. CASE store' = store  BY <1>1
<1>2. CASE w.area = "store" /\ w.name \in Name /\ store' = [store EXCEPT ![w.name] = w.value]
  <2>1. \A name \in Name : store'[name] = IF name = w.name THEN w.value ELSE store[name]  BY <1>0, <1>2
  <2>2. store'[Identity] = p \/ \E c \in Codes, n \in Salt :
           store'[Identity] = sealed(p, c, n) /\ store'[CHECK_ENTRY] = sealed(CHECK_VALUE, c, n)
    BY DEF Holds
  <2>3. CASE Erasing
    <3>1. w.value = None  BY <1>0, <1>2, <2>3 DEF Erasing, Drop, Put, WriteRecord
    <3>2. \A c \in Codes, n \in Salt : sealed(p, c, n) # None /\ sealed(CHECK_VALUE, c, n) # None
      BY SealedApart
    <3>3. \A name \in {Identity, CHECK_ENTRY} : store'[name] # None => store'[name] = store[name]
      BY <2>1, <3>1, Names
    <3>4. p # None  BY LockAssumption
    <3> QED  BY <2>2, <3>2, <3>3, <3>4 DEF Holds
  <2>4. CASE Unlocking
    <3>1. w.name # Identity /\ w.name # CHECK_ENTRY  BY <1>0, <2>4, Names DEF Unlocking, Put
    <3>2. store'[Identity] = store[Identity] /\ store'[CHECK_ENTRY] = store[CHECK_ENTRY]  BY <2>1, <3>1, Names
    <3> QED  BY <2>2, <3>2 DEF Holds
  <2>5. CASE Simple
    <3>1. PICK q \in Phrase : w = set(app.store, q)  BY <1>0, <1>2, <2>5 DEF Simple, WriteRecord, Put
    <3>2. store'[Identity] = IF app.store = Plain THEN q ELSE sealed(q, app.store.code, app.store.salt)
      BY <2>1, <3>1, Names DEF set, Put
    <3>3. app.store # Plain => app.store.code \in Codes /\ app.store.salt \in Salt  BY <1>0, SaltIn DEF View
    <3>4. \A c \in Codes, n \in Salt : sealed(p, c, n) \notin Phrase /\ sealed(q, c, n) \notin Phrase
      BY SealedApart
    <3>5. p = q  BY <2>2, <3>2, <3>3, <3>4, SealedParts
    <3> QED  BY <3>1, <3>5
  <2> QED  BY <1>0, <2>3, <2>4, <2>5
<1> QED  BY <1>0, <1>1, <1>2 DEF LandsOn

-----------------------------------------------------------------------------
(* A write, as the app and the job go on from it.                          *)
LEMMA WriteGoes ==
  ASSUME Base, NEW w, Writes(w)
  PROVE  /\ w \in job.writes /\ past' = past /\ salts' = salts /\ device' = device
         /\ \/ /\ job.writes = {w} /\ app' = job.app /\ flow' = job.flow /\ job' = Idle /\ ~LockJob'
               /\ job'.writes = {} /\ job'.app = Closed /\ job'.does = "none"
            \/ /\ job'.writes = job.writes \ {w} /\ job'.writes # {} /\ UNCHANGED <<app, flow>>
               /\ job'.does = job.does /\ job'.from = job.from /\ job'.app = job.app /\ job'.flow = job.flow
               /\ (LockJob' <=> LockJob)
<1>1. w \in job.writes /\ UNCHANGED <<salts, device, past>>  BY DEF Writes
<1>2. CASE job.writes \ {w} = {}
  <2>1. app' = job.app /\ flow' = job.flow /\ job' = Idle  BY <1>2 DEF Writes
  <2> QED  BY <1>1, <1>2, <2>1 DEF Idle, LockJob
<1>3. CASE job.writes \ {w} # {}
  <2>1. job' = [job EXCEPT !.writes = job.writes \ {w}] /\ UNCHANGED <<app, flow>>  BY <1>3 DEF Writes
  <2>2. /\ job'.writes = job.writes \ {w} /\ job'.does = job.does /\ job'.from = job.from
        /\ job'.app = job.app /\ job'.flow = job.flow
    BY <2>1 DEF Base, Typed, JobType
  <2> QED  BY <1>1, <1>3, <2>1, <2>2 DEF LockJob
<1> QED  BY <1>2, <1>3

(* Between two taps there is no job.                                       *)
LEMMA IdleJob == ASSUME Base, ~Writing PROVE job = Idle /\ job.does = "none" /\ job.app = Closed /\ ~LockJob
  BY DEF Base, Typed, JobType, Writing, Idle, LockJob

(* The app closed or killed, and what is left.                             *)
LEMMA StopsIdle ==
  ASSUME Base, Kill \/ CloseApp
  PROVE  /\ app' = Closed /\ job' = Idle /\ UNCHANGED <<store, staged, salts, device, record>> /\ ~LockJob'
         /\ job'.app = Closed /\ job'.writes = {} /\ job'.does = "none"
         /\ past'.minted = past.minted /\ past'.revealed = past.revealed
<1>1. /\ app' = Closed /\ job' \in {Idle, job} /\ (job' = Idle \/ ~Writing)
      /\ UNCHANGED <<store, staged, salts, device, record>>
  BY DEF Kill, CloseApp
<1>2. job' = Idle  BY <1>1, IdleJob
<1>3. past'.minted = past.minted /\ past'.revealed = past.revealed
  BY DEF Kill, CloseApp, Base, Typed, PastType
<1> QED  BY <1>1, <1>2, <1>3 DEF Idle, LockJob

(* A tap's job, and what it leaves alone.                                  *)
LEMMA StartsJob ==
  ASSUME Base, NEW name, NEW writes, NEW a, NEW f, Starts(name, writes, a, f)
  PROVE  /\ ~Writing /\ job = Idle /\ ~LockJob /\ job.app = Closed /\ job.does = "none"
         /\ job'.writes = writes /\ job'.does = name /\ job'.from = store /\ job'.app = a /\ job'.flow = f
         /\ UNCHANGED <<store, staged, device, record, app, flow>>
<1>1. ~Writing  BY DEF Starts
<1> QED  BY <1>1, IdleJob DEF Starts

-----------------------------------------------------------------------------
(* HeldBefore along every step.                                            *)
LEMMA OtherTapStarts ==
  ASSUME SimpleTap \/ Erases \/ Unlocks
  PROVE  \E name \in SimpleTaps \cup {"reset", "unlock"} : \E writes, a, f : Starts(name, writes, a, f)
<1>1. CASE Resumes  BY <1>1 DEF Resumes, SimpleTaps
<1>2. CASE Begins  BY <1>2 DEF Begins, Draws, Redraws, SimpleTaps
<1>3. CASE Pages  BY <1>3 DEF Pages, TurnsFrom, SimpleTaps
<1>4. CASE Finishes  BY <1>4 DEF Finishes, SimpleTaps
<1>5. CASE Joins  BY <1>5 DEF Joins, SimpleTaps
<1>6. CASE Replaces  BY <1>6 DEF Replaces, SimpleTaps
<1>7. CASE Erases  BY <1>7 DEF Erases
<1>8. CASE Unlocks  BY <1>8 DEF Unlocks, MarksShape, FillsSalt
<1> QED  BY <1>1, <1>2, <1>3, <1>4, <1>5, <1>6, <1>7, <1>8 DEF SimpleTap

(* HeldBefore along every step.                                            *)
LEMMA HeldKept == ASSUME Base, HeldBefore, Kind PROVE HeldBefore'
<1>1. CASE Moves \/ Adopts \/ UNCHANGED vars
  <2>1. UNCHANGED <<store, app, job, salts>>  BY <1>1 DEF Moves, FlowMove, Adopts, vars
  <2>2. get(app.store)' = get(app.store) /\ LockJob' = LockJob /\ \A p : Holds(store, p)' = Holds(store, p)
    BY <2>1 DEF get, LockJob, Holds
  <2> QED  BY <2>1, <2>2 DEF HeldBefore
<1>2. CASE Gate
  <2>1. ~Writing /\ job' = job  BY <1>2 DEF Gate
  <2>2. job'.does = "none"  BY <2>1, IdleJob
  <2> QED  BY <2>2 DEF HeldBefore, LockJob
<1>3. CASE Kill \/ CloseApp
  BY <1>3, StopsIdle DEF HeldBefore
<1>4. CASE Tap /\ ~LockTap
  <2>0. \E name \in SimpleTaps \cup {"reset", "unlock"} : \E writes, a, f : Starts(name, writes, a, f)
    BY <1>4, OtherTapStarts DEF Tap
  <2>1. job'.does \notin {"enable", "change", "disable"}
    BY <2>0 DEF SimpleTaps, Starts
  <2> QED  BY <2>1 DEF HeldBefore, LockJob
<1>5. CASE LockTap
  <2>1. PICK name : \E writes, a, f : Starts(name, writes, a, f)
    BY <1>5 DEF LockTap, Enables, Changes, Disables
  <2>2. PICK writes, a, f : Starts(name, writes, a, f)  BY <2>1
  <2>3. ~Writing /\ job'.from = store /\ store' = store /\ app' = app  BY <2>2, StartsJob
  <2>4. app.at \in {"setup", "flow", "running"}  BY <1>5 DEF LockTap, Enables, Changes, Disables
  <2>5. Typed /\ app.store \in View(salts) /\ ViewGood(app.store)
    BY <2>3, <2>4, AppView DEF Base, Typed, Screen
  <2>6. \A p \in Phrase : get(app.store) = p => Holds(store, p)  BY <2>5, ViewHolds
  <2>7. get(app.store)' = get(app.store)  BY <2>3 DEF get
  <2>8. job'.does = "enable" => IsArea(job'.from, salts' - 1)
    <3> SUFFICES ASSUME job'.does = "enable" PROVE IsArea(job'.from, salts' - 1)
      OBVIOUS
    <3>1. Enables  BY <1>5 DEF LockTap, Changes, Disables, Starts
    <3>2. salts' - 1 = salts  BY <2>5, <3>1, SaltsNat DEF Enables, DrawsSalt
    <3> QED  BY <2>3, <2>5, <3>2 DEF Typed
  <2> QED  BY <2>3, <2>6, <2>7, <2>8 DEF HeldBefore, Holds
<1>6. CASE Write
  <2>1. PICK w : Writes(w)  BY <1>6, WriteIs DEF Base
  <2>2. CASE ~LockJob'
    BY <2>2 DEF HeldBefore, LockJob
  <2>3. CASE LockJob'
    <3>1. LockJob /\ UNCHANGED app /\ job'.from = job.from /\ job'.does = job.does /\ salts' = salts
      BY <2>1, <2>3, WriteGoes
    <3>2. get(app.store)' = Reads(app.store, store'[Identity])  BY <3>1 DEF get, Reads
    <3>3. \A p \in Phrase : Holds(store', p) \/ get(app.store)' = p => Holds(job.from, p)
      BY <2>1, <3>1, <3>2, HeldAfter
    <3> QED  BY <3>1, <3>3 DEF HeldBefore, Holds
  <2> QED  BY <2>2, <2>3
<1> QED  BY <1>1, <1>2, <1>3, <1>4, <1>5, <1>6 DEF Kind, Tap

-----------------------------------------------------------------------------
(* What each kind of tap asks for.                                         *)

(* The flow knows whether the store it was given is locked.                *)
LEMMA FlowLocked == ASSUME Base, app.at = "flow" PROVE flow.locked <=> app.store # Plain
  BY DEF Base, ViewOK

(* A restart: the screen its record names, with the phrase the store holds.*)
LEMMA ResumesJob ==
  ASSUME Base, Resumes
  PROVE  /\ job'.writes = {WriteRecord(New(record.step))} /\ job'.does = "resume" /\ job'.app = InFlow(app.store)
         /\ job'.flow.step = record.step /\ job'.flow.words = get(app.store) /\ record = New(record.step)
         /\ record.step \in NewSteps /\ (record.step = "phrase" => ~job'.flow.revealed) /\ past' = past
         /\ app.at \in {"closed", "opened"}
<1>1. app.at \in {"closed", "opened"}  BY DEF Resumes, Unlockable
<1> DEFINE l == app.at = "opened"
           f == shows(record.step, [NoFlow EXCEPT !.locked = l, !.words = get(app.store)])
<1>2. Starts("resume", {WriteRecord(New(record.step))}, InFlow(app.store), f) /\ record.kind = "new" /\ past' = past
  BY DEF Resumes
<1>3. f.step = record.step /\ f.words = get(app.store) /\ record = New(record.step) /\ record.step \in NewSteps
      /\ (record.step = "phrase" => ~f.revealed)
  <2> HIDE DEF l
  <2>1. l \in BOOLEAN  BY DEF l
  <2> QED  BY <1>2, <2>1, ResumeFlow
<1> HIDE DEF f
<1> QED  BY <1>1, <1>2, <1>3, StartsJob

(* A new vault begun: a phrase that is there, or one drawn.                *)
LEMMA BeginsJob ==
  ASSUME Base, Begins
  PROVE  /\ app.at = "flow" /\ flow.step \notin NewSteps /\ app.store # Plain
         /\ job'.does = "begin" /\ job'.app = InFlow(app.store) /\ job'.flow.step = "phrase" /\ ~job'.flow.revealed
         /\ \/ /\ past' = past /\ job'.writes = {WriteRecord(New("phrase"))}
               /\ job'.flow.words = get(app.store)
            \/ /\ store[Identity] = None
               /\ \E p \in Minted :
                    /\ past'.minted = past.minted \cup {p} /\ job'.flow.words = p
                    /\ job'.writes = {set(app.store, p), WriteRecord(New("phrase"))}
<1>1. app.at = "flow" /\ flow.locked /\ flow.step \in {"welcome", "create-code"} /\ flow.mode = "new"
  BY DEF Begins
<1>2. app.store # Plain  BY <1>1, FlowLocked
<1>3. flow.step \notin NewSteps  BY <1>1 DEF NewSteps
<1>4. ASSUME NEW words \in Words
      PROVE  LET f == showPhrase([flow EXCEPT !.words = words])
             IN f.step = "phrase" /\ f.words = words /\ ~f.revealed
  BY <1>1, BeginFlow
<1>5. CASE Redraws
  <2> DEFINE f == showPhrase([flow EXCEPT !.words = get(app.store)])
  <2>1. Starts("begin", {WriteRecord(New("phrase"))}, InFlow(app.store), f) /\ past' = past  BY <1>5 DEF Redraws
  <2>2. get(app.store) \in Words  BY GetOf DEF Base
  <2>3. f.step = "phrase" /\ f.words = get(app.store) /\ ~f.revealed  BY <2>2, <1>4
  <2> HIDE DEF f
  <2> QED  BY <1>1, <1>2, <1>3, <2>1, <2>3, StartsJob
<1>6. CASE \E p \in Minted : Draws(p)
  <2>1. PICK p \in Minted : Draws(p)  BY <1>6
  <2> DEFINE f == showPhrase([flow EXCEPT !.words = p])
  <2>2. Starts("begin", {set(app.store, p), WriteRecord(New("phrase"))}, InFlow(app.store), f)
        /\ past' = [past EXCEPT !.minted = @ \cup {p}] /\ get(app.store) = None
    BY <2>1 DEF Draws
  <2>3. p \in Words  BY EntryAssumption DEF Words
  <2>4. f.step = "phrase" /\ f.words = p /\ ~f.revealed  BY <2>3, <1>4
  <2>5. store[Identity] = None  BY <2>2, GetOf DEF Base
  <2>6. past'.minted = past.minted \cup {p}  BY <2>2 DEF Base, Typed, PastType
  <2> HIDE DEF f
  <2> QED  BY <1>1, <1>2, <1>3, <2>2, <2>4, <2>5, <2>6, StartsJob
<1> QED  BY <1>5, <1>6 DEF Begins

(* A page of the new vault: its record, and nothing else.                  *)
LEMMA RecordsJob ==
  ASSUME Base, Pages
  PROVE  /\ app.at = "flow" /\ flow.step \in NewSteps /\ past' = past /\ job'.app = InFlow(app.store)
         /\ job'.does # "begin" /\ job'.flow.words = flow.words /\ job'.flow.step \in NewSteps
         /\ job'.writes = {WriteRecord(New(job'.flow.step))}
         /\ job'.flow.step = "phrase" => ~job'.flow.revealed
         /\ \/ job'.flow.step = "phrase"
            \/ flow.step = "phrase" /\ flow.revealed
            \/ flow.step = "check"
<1>1. ASSUME NEW name \in {"back", "written", "checked"}, NEW from \in NewSteps, NEW to \in NewSteps,
         TurnsFrom(name, from, to)
      PROVE  /\ app.at = "flow" /\ flow.step = from /\ past' = past /\ job'.app = InFlow(app.store)
             /\ job'.does # "begin" /\ job'.flow.words = flow.words /\ job'.flow.step = to
             /\ job'.writes = {WriteRecord(New(to))} /\ (to = "phrase" => ~job'.flow.revealed)
  <2> DEFINE f == shows(to, flow)
  <2>1. app.at = "flow" /\ flow.step = from /\ past' = past
        /\ Starts(name, {WriteRecord(New(to))}, InFlow(app.store), f)
    BY <1>1 DEF TurnsFrom
  <2>2. f.step = to /\ f.words = flow.words /\ (to = "phrase" => ~f.revealed)  BY <2>1, TurnFlow
  <2> HIDE DEF f
  <2> QED  BY <2>1, <2>2, StartsJob
<1>2. CASE TurnsFrom("back", "check", "phrase")  BY <1>1, <1>2 DEF NewSteps
<1>3. CASE TurnsFrom("written", "phrase", "check") /\ flow.revealed  BY <1>1, <1>3 DEF NewSteps
<1>4. CASE TurnsFrom("checked", "check", "server")  BY <1>1, <1>4 DEF NewSteps
<1> QED  BY <1>2, <1>3, <1>4 DEF Pages

(* The last page: a record that is no new vault's.                         *)
LEMMA FinishesJob ==
  ASSUME Base, Finishes
  PROVE  /\ app.at = "flow" /\ flow.step = "server" /\ past' = past /\ job'.does # "begin" /\ job'.app.at # "flow"
         /\ \E to : to.kind # "new" /\ job'.writes = {WriteRecord(to)}
<1>1. PICK to \in {Connect(flow.address), NoRecord} :
        Starts("finish", {WriteRecord(to)}, Ready(app.store, get(app.store)), NoFlow)
  BY DEF Finishes
<1>2. to.kind # "new"  BY <1>1 DEF Connect, NoRecord
<1>3. Ready(app.store, get(app.store)).at # "flow"  BY DEF Ready
<1> QED  BY <1>1, <1>2, <1>3, StartsJob DEF Finishes

(* A join: the phrase, then the record.                                    *)
LEMMA JoinsJob ==
  ASSUME Base, Joins
  PROVE  /\ app.at = "flow" /\ flow.step \notin NewSteps /\ past' = past /\ job'.does # "begin" /\ job'.app.at # "flow"
         /\ \E p \in Brought : \E to : to.kind = "join" /\ job'.writes = {set(app.store, p), WriteRecord(to)}
<1>1. PICK p \in Brought, server \in Addresses :
        Starts("join", {set(app.store, p), WriteRecord(Join(server))}, Ready(app.store, p), NoFlow)
  BY DEF Joins
<1>2. Join(server).kind = "join"  BY DEF Join
<1>3. Ready(app.store, p).at # "flow"  BY DEF Ready
<1>4. flow.mode = "join" /\ app.at = "flow" /\ past' = past  BY DEF Joins
<1>5. flow.step \notin NewSteps  BY <1>4 DEF Base, FlowsOK, FlowOK
<1> QED  BY <1>1, <1>2, <1>3, <1>4, <1>5, StartsJob

(* The phrase replaced.                                                    *)
LEMMA ReplacesJob ==
  ASSUME Base, Replaces
  PROVE  /\ app.at = "running" /\ past' = past /\ job'.does # "begin" /\ job'.app = Closed
         /\ \E p \in Brought : job'.writes = {set(app.store, p)}
  BY StartsJob DEF Replaces

(* The erase.                                                              *)
LEMMA ErasesJob ==
  ASSUME Base, Erases
  PROVE  /\ app.at = "unlock" /\ past' = past /\ job'.does = "reset" /\ job'.app = Closed
         /\ job'.writes = resetDeviceKeyStore \cup {WriteRecord(NoRecord)}
  BY StartsJob DEF Erases

(* The unlock screen writes no identity.                                   *)
LEMMA UnlocksJob ==
  ASSUME Base, Unlocks
  PROVE  /\ app.at = "unlock" /\ past' = past /\ job'.does = "unlock" /\ job'.app.at \in {"unlock", "opened"}
         /\ \A w \in job'.writes : w.area = "store" /\ w.name # Identity
<1>1. app.at = "unlock" /\ past' = past /\ (MarksShape \/ FillsSalt)  BY DEF Unlocks
<1>2. \A v : /\ Put(1, "store", CODE_SHAPE_ENTRY, v).area = "store" /\ Put(1, "store", CODE_SHAPE_ENTRY, v).name # Identity
             /\ Put(1, "store", SALT_ENTRY, v).area = "store" /\ Put(1, "store", SALT_ENTRY, v).name # Identity
  BY Names DEF Put
<1>3. CASE MarksShape
  <2>1. PICK code \in Six :
          Starts("unlock", {Put(1, "store", CODE_SHAPE_ENTRY, DIGITS_6)}, [at |-> "opened", store |-> Locked(code)], flow)
    BY <1>3 DEF MarksShape
  <2> QED  BY <1>1, <1>2, <2>1, StartsJob
<1>4. CASE FillsSalt  BY <1>1, <1>2, <1>4, StartsJob DEF FillsSalt
<1> QED  BY <1>1, <1>3, <1>4

(* An operation on the lock writes no record, and nothing to the store at  *)
(* once.                                                                   *)
LEMMA LockWritesLater ==
  ASSUME NEW code
  PROVE  \A w \in enableDeviceLock(code) \cup changeUnlockCode(code) \cup disableDeviceLock :
           w.area # "record" /\ ~(w.area = "store" /\ w.turn = 1)
<1>1. \A next, order : \A w \in promoteStaged(next, order) : w.area # "record" /\ ~(w.area = "store" /\ w.turn = 1)
  BY DEF promoteStaged, Promoted, PromotionTurn, Unstaged, Drop, Put
<1>2. \A next : \A w \in clearStaging \cup staging(next) : w.area = "staged"
  BY DEF clearStaging, staging, Drop, Put
<1>3. \A w \in FinalDrops : w.area # "record" /\ w.turn # 1  BY DEF FinalDrops, Drop, Put
<1> QED  BY <1>1, <1>2, <1>3 DEF enableDeviceLock, changeUnlockCode, disableDeviceLock, FinalDrops

(* An operation on the lock writes nothing set() does.                     *)
LEMMA LocksJob ==
  ASSUME Base, LockTap
  PROVE  /\ past' = past /\ job'.does \in {"enable", "change", "disable"}
         /\ \A w \in job'.writes : w.area # "record" /\ \A p : w # set(app.store, p)
         /\ job'.app.at = "flow" => job'.flow.step \notin NewSteps
         /\ job'.app.at = "running" => app.at = "setup"
<1>1. \A p : set(app.store, p).area = "store" /\ set(app.store, p).turn = 1  BY DEF set, Put
<1>2. Closed.at = "closed" /\ \A view, phrase : InFlow(view).at = "flow" /\ Ready(view, phrase).at # "flow"
  BY DEF Closed, InFlow, Ready
<1>3. CASE Enables
  <2>1. PICK code \in Six : \E a, f :
          /\ Starts("enable", enableDeviceLock(code), a, f)
          /\ a.at = "flow" => f.step \notin NewSteps
          /\ a.at = "running" => app.at = "setup"
    <3>1. PICK code \in Six :
       \/ app.at = "setup" /\ Starts("enable", enableDeviceLock(code),
                                     Ready([code |-> code, salt |-> salts + 1], store[Identity]), flow)
       \/ app.at = "flow" /\ flow.step = "create-code" /\ ~flow.locked
          /\ Starts("enable", enableDeviceLock(code), InFlow([code |-> code, salt |-> salts + 1]),
                    [flow EXCEPT !.locked = TRUE])
       \/ app.at = "running" /\ ~hasVerifier(store) /\ Starts("enable", enableDeviceLock(code), Closed, NoFlow)
      BY <1>3 DEF Enables
    <3>2. [flow EXCEPT !.locked = TRUE].step = flow.step  BY EnableFlow
    <3>3. CASE app.at = "setup" /\ Starts("enable", enableDeviceLock(code),
                                     Ready([code |-> code, salt |-> salts + 1], store[Identity]), flow)
      BY <1>2, <3>3
    <3>4. CASE flow.step = "create-code" /\ Starts("enable", enableDeviceLock(code),
                 InFlow([code |-> code, salt |-> salts + 1]), [flow EXCEPT !.locked = TRUE])
      <4> DEFINE f == [flow EXCEPT !.locked = TRUE]
                 a == InFlow([code |-> code, salt |-> salts + 1])
      <4>1. Starts("enable", enableDeviceLock(code), a, f) /\ f.step \notin NewSteps /\ a.at = "flow"
        BY <1>2, <3>2, <3>4 DEF NewSteps
      <4> HIDE DEF f, a
      <4> QED  BY <4>1
    <3>5. CASE Starts("enable", enableDeviceLock(code), Closed, NoFlow)
      BY <1>2, <3>5
    <3> QED  BY <3>1, <3>3, <3>4, <3>5
  <2>2. PICK a, f :
          /\ Starts("enable", enableDeviceLock(code), a, f)
          /\ a.at = "flow" => f.step \notin NewSteps
          /\ a.at = "running" => app.at = "setup"
    BY <2>1
  <2>3. job'.writes = enableDeviceLock(code) /\ job'.does = "enable" /\ job'.app = a /\ job'.flow = f
    BY <2>2, StartsJob
  <2> QED  BY <1>1, <1>3, <2>2, <2>3, LockWritesLater DEF Enables
<1>4. CASE Changes
  <2>1. PICK code \in Six : Starts("change", changeUnlockCode(code), Closed, NoFlow) /\ past' = past
    BY <1>4 DEF Changes
  <2>2. job'.writes = changeUnlockCode(code) /\ job'.does = "change" /\ job'.app = Closed  BY <2>1, StartsJob
  <2> QED  BY <1>1, <1>2, <2>1, <2>2, LockWritesLater
<1>5. CASE Disables
  <2>1. Starts("disable", disableDeviceLock, Closed, NoFlow) /\ past' = past  BY <1>5 DEF Disables
  <2>2. job'.writes = disableDeviceLock /\ job'.does = "disable" /\ job'.app = Closed  BY <2>1, StartsJob
  <2> QED  BY <1>1, <1>2, <2>1, <2>2, LockWritesLater
<1> QED  BY <1>3, <1>4, <1>5 DEF LockTap

-----------------------------------------------------------------------------
(* Covered along every step.                                               *)
LEMMA CoveredKept == ASSUME Base, Covered, Kind PROVE Covered'
<1>0. None \notin Phrase /\ Typed  BY LockAssumption DEF Base
<1>1. CASE Moves \/ Adopts \/ UNCHANGED vars
  <2>1. UNCHANGED <<store, app, job>>  BY <1>1 DEF Moves, FlowMove, Adopts, vars
  <2> QED  BY <2>1 DEF Covered, LockJob
<1>2. CASE Gate
  <2>1. ~Writing /\ job' = job /\ store' = store  BY <1>2 DEF Gate
  <2>2. job'.app.at # "flow"  BY <2>1, IdleJob DEF Closed
  <2>3. app'.at = "flow" => get(app.store) = None
    BY <1>2 DEF Gate, FirstRuns, Readies, AsksSetup, AsksCode, Opens, Ready
  <2>4. app'.at = "flow" => store[Identity] = None  BY <1>0, <2>3, GetOf
  <2> QED  BY <1>0, <2>1, <2>2, <2>4 DEF Covered
<1>3. CASE Kill \/ CloseApp
  BY <1>3, StopsIdle DEF Covered, Closed
<1>4. CASE Tap
  <2>1. PICK name \in Taps : \E writes, a, f : Starts(name, writes, a, f)  BY <1>4, TapStarts
  <2>2. PICK writes, a, f : Starts(name, writes, a, f)  BY <2>1
  <2>3. /\ store' = store /\ app' = app /\ job'.app = a /\ job'.does = name  BY <2>2, StartsJob
  <2> SUFFICES ASSUME job'.app.at = "flow", job'.app.store # Plain, ~LockJob'
        PROVE store[Identity] \notin Phrase
    BY <2>3 DEF Covered
  <2>4. ~LockTap
    <3>1. LockTap => job'.does \in {"enable", "change", "disable"}
      BY StartsJob DEF LockTap, Enables, Changes, Disables
    <3> QED  BY <3>1 DEF LockJob
  <2>5. CASE Resumes
    <3>1. /\ job'.app = InFlow(app.store) /\ Unlockable /\ (app.at = "opened" => get(app.store) \in Phrase)
      BY <2>5 DEF Resumes, Starts
    <3>2. app.store # Plain  BY <3>1 DEF InFlow
    <3>3. app.at = "opened"  BY <3>1, <3>2 DEF Unlockable, Base, ViewOK
    <3>4. app.store \in View(salts)  BY DEF Base, Typed, Screen
    <3>5. app.store.code \in Codes /\ app.store.salt \in Salt  BY <1>0, <3>2, <3>4, SaltIn DEF View
    <3>6. store[Identity] = sealed(get(app.store), app.store.code, app.store.salt)
      BY <1>0, <3>1, <3>2, <3>3, GetOf
    <3> QED  BY <3>1, <3>3, <3>5, <3>6, SealedApart
  <2>6. CASE Begins \/ Pages
    <3>1. app.at = "flow" /\ job'.app = InFlow(app.store)
      BY <2>6, StartsJob DEF Begins, Draws, Redraws, Pages, TurnsFrom
    <3> QED  BY <3>1 DEF Covered, InFlow
  <2>7. CASE Finishes \/ Joins \/ Replaces \/ Erases \/ Unlocks
    <3>1. CASE Unlocks
      <4>1. app.at = "unlock" /\ (MarksShape \/ FillsSalt)  BY <3>1 DEF Unlocks
      <4>2. CASE MarksShape  BY <4>2 DEF MarksShape, Starts
      <4>3. CASE FillsSalt  BY <4>1, <4>3 DEF FillsSalt, Starts
      <4> QED  BY <4>1, <4>2, <4>3
    <3>2. CASE ~Unlocks
      BY <2>7, <3>2, FinishesJob, JoinsJob, ReplacesJob, ErasesJob DEF Closed
    <3> QED  BY <3>1, <3>2
  <2> QED  BY <1>4, <2>4, <2>5, <2>6, <2>7 DEF Tap, SimpleTap
<1>5. CASE Write
  <2>1. PICK w : Writes(w)  BY <1>5, WriteIs DEF Base
  <2>2. CASE LockJob
    <3>1. Enabling \/ app.at = "running"
      BY <2>1, <2>2 DEF Base, JobOK, Writes, Writing, LockJob, Erasing, Unlocking, Simple, SimpleTaps,
               Changing, Disabling
    <3>2. CASE LockJob'
      <4>1. app' = app  BY <2>1, <3>2, WriteGoes
      <4>2. app.at = "flow" => app.store = Plain  BY <3>1 DEF Enabling
      <4> QED  BY <3>2, <4>1, <4>2 DEF Covered
    <3>3. CASE ~LockJob'
      <4>1. app' = job.app /\ job'.app = Closed /\ job.writes = {w}  BY <2>1, <2>2, <3>3, WriteGoes
      <4>2. CASE Enabling
        <5>1. PICK code \in Six : \E goal :
                 /\ goal = generated(job.from[Identity], code, salts)
                 /\ Done(job.writes \ {w}) => Reached(goal, store')
          BY <2>1, <4>2, EnablingAfter
        <5>2. Done(job.writes \ {w})  BY <4>1 DEF Done
        <5>3. code \in Codes /\ salts \in 1 .. MaxSalts  BY <4>2 DEF Enabling, Codes, Salt
        <5>4. store'[Identity] = generated(job.from[Identity], code, salts)[Identity]
          BY <5>1, <5>2, Names DEF Reached
        <5>5. store'[Identity] \notin Phrase  BY <5>3, <5>4, GeneratedArea
        <5> QED  BY <4>1, <5>5 DEF Covered, Closed
      <4>3. CASE ~Enabling
        <5>1. job.app.at = "closed"
          BY <2>1, <2>2, <4>3 DEF Base, JobOK, Writes, Writing, LockJob, Erasing, Unlocking, Simple, SimpleTaps,
                                  Changing, Disabling, Closed
        <5> QED  BY <4>1, <5>1 DEF Covered, Closed
      <4> QED  BY <4>2, <4>3
    <3> QED  BY <3>2, <3>3
  <2>3. CASE ~LockJob
    <3>0. ~LockJob' /\ LandsOn(w) /\ w \in job.writes  BY <2>1, <2>3, WriteGoes DEF Writes
    <3>1. Erasing \/ Unlocking \/ Simple
      BY <2>1, <2>3 DEF Base, JobOK, Writes, Writing, LockJob, Enabling, Changing, Disabling
    <3>2. CASE Simple
      <4>1. \A view : view \in {app.store, job.app.store} /\ job.app.at # "closed" => view = app.store
        BY <3>2 DEF Simple
      <4>2. (app.store # Plain /\ store[Identity] \notin Phrase) => store'[Identity] \notin Phrase
        <5>1. \A name \in Name : store'[name] = store[name] \/ (w.area = "store" /\ store'[name] = w.value)
          BY <3>0 DEF LandsOn, Base, Typed, IsArea
        <5>2. app.store # Plain /\ w.area = "store" => w.value \notin Phrase
          BY <3>0, <3>2, SetSeals DEF Simple, WriteRecord, Put
        <5> QED  BY <5>1, <5>2, Names
      <4> QED  BY <2>1, <2>3, <3>0, <3>2, <4>2, WriteGoes DEF Covered, Closed, Simple
    <3>3. CASE Erasing \/ Unlocking
      <4>1. app.at = "unlock" /\ job.app.at # "flow"  BY <3>3 DEF Erasing, Unlocking, Closed
      <4>2. app'.at # "flow" /\ job'.app.at # "flow"  BY <2>1, <4>1, WriteGoes DEF Closed
      <4> QED  BY <4>2 DEF Covered
    <3> QED  BY <3>1, <3>2, <3>3
  <2> QED  BY <2>2, <2>3
<1> QED  BY <1>1, <1>2, <1>3, <1>4, <1>5 DEF Kind

-----------------------------------------------------------------------------
(* Screened along every step.                                              *)
LEMMA RecordWrites ==
  /\ \A to : RecordWrite(WriteRecord(to)) /\ WriteRecord(to).value = to /\ WriteRecord(to).turn = 2
  /\ \A view, p : ~RecordWrite(set(view, p)) /\ set(view, p).turn = 1
  /\ \A step : New(step).kind = "new"
  BY DEF RecordWrite, WriteRecord, set, Put, New

(* Screened after a tap.                                                   *)
LEMMA ScreenedTap == ASSUME Base, Screened, Tap PROVE Screened'
<1>1. PICK name : \E writes, a, f : Starts(name, writes, a, f)  BY TapStarts
<1>2. UNCHANGED <<record, app, flow>> /\ ~Writing /\ job = Idle  BY <1>1, StartsJob
<1> SUFFICES /\ \A v, w \in job'.writes : RecordWrite(v) /\ RecordWrite(w) => v = w
             /\ job'.app.at = "flow" /\ job'.flow.step \in NewSteps => WriteRecord(New(job'.flow.step)) \in job'.writes
             /\ app.at \in {"setup", "running"} => \A w \in job'.writes : ~RecordWrite(w)
             /\ job'.app.at = "running" =>
                  \/ \E w \in job'.writes : RecordWrite(w) /\ w.value.kind # "new"
                  \/ record.kind # "new" /\ \A w \in job'.writes : ~RecordWrite(w)
             /\ job'.does = "begin" => app.at = "flow"
  BY <1>2 DEF Screened
<1>3. \A view : InFlow(view).at = "flow"  BY DEF InFlow
<1>4. CASE Resumes  BY <1>3, <1>4, ResumesJob, RecordWrites
<1>5. CASE Begins  BY <1>3, <1>5, BeginsJob, RecordWrites
<1>6. CASE Pages  BY <1>3, <1>6, RecordsJob, RecordWrites
<1>7. CASE Finishes
  <2>1. PICK to : to.kind # "new" /\ job'.writes = {WriteRecord(to)}  BY <1>7, FinishesJob
  <2> QED  BY <1>7, <2>1, FinishesJob, RecordWrites
<1>8. CASE Joins
  <2>1. PICK p, to : to.kind = "join" /\ job'.writes = {set(app.store, p), WriteRecord(to)}  BY <1>8, JoinsJob
  <2> QED  BY <1>8, <2>1, JoinsJob, RecordWrites
<1>9. CASE Replaces
  <2>1. PICK p : job'.writes = {set(app.store, p)}  BY <1>9, ReplacesJob
  <2> QED  BY <1>9, <2>1, ReplacesJob, RecordWrites DEF Closed
<1>10. CASE LockTap
  <2>1. \A w \in job'.writes : ~RecordWrite(w)  BY <1>10, LocksJob DEF RecordWrite
  <2>2. app.at = "setup" => record.kind # "new"  BY DEF Screened
  <2> QED  BY <1>10, <2>1, <2>2, LocksJob
<1>11. CASE Erases
  <2>1. \A w \in resetDeviceKeyStore : ~RecordWrite(w)  BY DEF resetDeviceKeyStore, Drop, Put, RecordWrite
  <2> QED  BY <1>11, <2>1, ErasesJob, RecordWrites DEF Closed
<1>12. CASE Unlocks
  <2>1. \A w \in job'.writes : ~RecordWrite(w)  BY <1>12, UnlocksJob DEF RecordWrite
  <2> QED  BY <1>12, <2>1, UnlocksJob
<1> QED  BY <1>4, <1>5, <1>6, <1>7, <1>8, <1>9, <1>10, <1>11, <1>12 DEF Tap, SimpleTap

(* Screened after a write.                                                 *)
LEMMA ScreenedWrite == ASSUME Base, Screened, Write PROVE Screened'
<1>1. PICK w : Writes(w)  BY WriteIs DEF Base
<1>2. record' = IF RecordWrite(w) THEN w.value ELSE record  BY <1>1 DEF Writes, LandsOn, RecordWrite
<1>3. WriteOK(w, salts) /\ \A other \in job.writes : w.turn <= other.turn  BY <1>1 DEF Writes
<1>4. CASE job.writes = {w} /\ app' = job.app /\ flow' = job.flow /\ job'.writes = {} /\ job'.app = Closed /\ job'.does = "none"
  <2>1. job.app.at = "setup" => FALSE
    BY <1>1 DEF Base, JobOK, Writes, Writing, Enabling, Changing, Disabling, Erasing, Unlocking, Simple, Closed,
                ViewOK, Typed, Screen
  <2>2. job.app.at = "running" => record'.kind # "new"  BY <1>2, <1>4 DEF Screened
  <2>3. job.app.at = "flow" /\ job.flow.step \in NewSteps => record' = New(job.flow.step)
    BY <1>2, <1>4, RecordWrites DEF Screened
  <2> QED  BY <1>4, <2>1, <2>2, <2>3 DEF Screened, Closed
<1>5. CASE /\ job'.writes = job.writes \ {w} /\ job'.writes # {} /\ UNCHANGED <<app, flow>>
           /\ job'.does = job.does /\ job'.app = job.app /\ job'.flow = job.flow
  <2>1. CASE ~RecordWrite(w)
    <3>1. record' = record  BY <1>2, <2>1
    <3>2. \A v : RecordWrite(v) => (v \in job'.writes <=> v \in job.writes)  BY <1>5, <2>1
    <3>3. \A step : RecordWrite(WriteRecord(New(step)))  BY RecordWrites
    <3> QED  BY <1>5, <3>1, <3>2, <3>3 DEF Screened
  <2>2. CASE RecordWrite(w)
    <3>1. PICK v \in job'.writes : v \in job.writes /\ v # w  BY <1>5
    <3>2. ~RecordWrite(v)  BY <1>1, <2>2, <3>1 DEF Screened, Writes
    <3>3. w.turn = 2  BY <1>3, <2>2, RecordWrites DEF WriteOK, RecordWrite
    <3>4. v.turn # 0 /\ v.turn # 1  BY <1>3, <3>1, <3>3
    <3>5. FALSE
      <4>1. Erasing \/ Simple
        BY <1>1, <2>2, RecordJob DEF Writes, RecordWrite
      <4>2. CASE Erasing  BY <3>1, <3>2, <3>4, <4>2, RecordWrites DEF Erasing, Drop, Put
      <4>3. CASE Simple  BY <3>1, <3>2, <3>4, <4>3, RecordWrites DEF Simple
      <4> QED  BY <4>1, <4>2, <4>3
    <3> QED  BY <3>5
  <2> QED  BY <2>1, <2>2
<1> QED  BY <1>1, <1>4, <1>5, WriteGoes

(* Screened along every step.                                              *)
LEMMA ScreenedKept == ASSUME Base, Screened, Kind PROVE Screened'
<1>1. CASE Moves
  <2>1. /\ app.at = "flow" /\ UNCHANGED <<record, app, job>>
        /\ flow'.step \in NewSteps => flow'.step = flow.step
    BY <1>1 DEF Moves, FlowMove
  <2> QED  BY <2>1 DEF Screened
<1>2. CASE Adopts
  <2>1. UNCHANGED <<app, flow, job>> /\ app.at = "running" /\ record'.kind # "new" /\ ~Writing
    BY <1>2 DEF Adopts, NoRecord
  <2>2. job.app.at = "closed"  BY <2>1, IdleJob DEF Closed
  <2> QED  BY <2>1, <2>2 DEF Screened
<1>3. CASE UNCHANGED vars
  BY <1>3 DEF vars, Screened
<1>4. CASE Gate
  <2>1. ~Writing /\ job' = job /\ job.writes = {} /\ job.app.at = "closed" /\ job.does = "none"
    BY <1>4, IdleJob DEF Gate, Idle, Closed
  <2>2. app'.at = "flow" => flow'.step \notin NewSteps
    BY <1>4 DEF Gate, FirstRuns, Readies, AsksSetup, AsksCode, Opens, Ready, NoFlow, NewSteps
  <2>3. app'.at \in {"setup", "running"} => record'.kind # "new"
    BY <1>4 DEF Gate, FirstRuns, Readies, AsksSetup, AsksCode, Opens, Ready, InFlow
  <2> QED  BY <2>1, <2>2, <2>3 DEF Screened
<1>5. CASE Kill \/ CloseApp
  BY <1>5, StopsIdle DEF Screened, Closed
<1> QED  BY <1>1, <1>2, <1>3, <1>4, <1>5, ScreenedTap, ScreenedWrite DEF Kind

-----------------------------------------------------------------------------
(* Which phrases are in play along every step.                             *)
Seen == Begun /\ Shown(app, flow) /\ Shown(job.app, job.flow)

(* Between two taps, the phrase in play is the one the store holds.        *)
LEMMA IdleInPlay ==
  ASSUME Base, ~Writing, NEW p PROVE InPlay(p) <=> Holds(store, p)
<1>1. job.writes = {} /\ ~LockJob  BY IdleJob DEF Idle
<1> QED  BY <1>1 DEF InPlay

(* A write brings no phrase into play.                                     *)
LEMMA WriteInPlay ==
  ASSUME Base, HeldBefore, NEW w, Writes(w), NEW p \in Phrase, InPlay(p)' PROVE InPlay(p)
<1>1. ASSUME Holds(store', p) PROVE InPlay(p)
  <2>1. CASE LockJob  BY <1>1, <2>1, HeldAfter DEF InPlay
  <2>2. CASE ~LockJob  BY <1>1, <2>2, HoldsAfter DEF InPlay, Writes
  <2> QED  BY <2>1, <2>2
<1>2. CASE job'.writes = {} /\ ~LockJob'
  <2>1. Holds(store', p)  BY <1>2 DEF InPlay, Holds
  <2> QED  BY <1>1, <2>1
<1>3. CASE job'.writes = job.writes \ {w} /\ app' = app /\ job'.from = job.from /\ (LockJob' <=> LockJob)
  <2>1. set(app.store, p)' = set(app.store, p)  BY <1>3 DEF set
  <2>2. CASE set(app.store, p)' \in job'.writes  BY <1>3, <2>1, <2>2 DEF InPlay
  <2>3. CASE LockJob /\ Holds(job.from, p)  BY <2>3 DEF InPlay
  <2>4. CASE ~LockJob /\ Holds(store', p)  BY <1>1, <2>4
  <2> QED  BY <1>3, <2>2, <2>3, <2>4 DEF InPlay, Holds
<1> QED  BY <1>2, <1>3, WriteGoes

(* What is in play once the app is closed or killed was before.            *)
LEMMA StopInPlay ==
  ASSUME Base, HeldBefore, Kill \/ CloseApp, NEW p \in Phrase, InPlay(p)'
  PROVE  Holds(store, p) /\ InPlay(p)
<1>1. store' = store /\ job'.writes = {} /\ ~LockJob'  BY StopsIdle
<1>2. Holds(store, p)  BY <1>1 DEF InPlay, Holds
<1> QED  BY <1>2 DEF InPlay, HeldBefore

(* After a tap, the phrase in play is the one the store holds or the one   *)
(* the tap writes.                                                         *)
LEMMA TapInPlay ==
  ASSUME Base, Tap, NEW p \in Phrase, InPlay(p)'
  PROVE  ~Writing /\ (Holds(store, p) \/ set(app.store, p) \in job'.writes)
<1>1. PICK name \in Taps : \E writes, a, f : Starts(name, writes, a, f)  BY TapStarts
<1>2. ~Writing /\ store' = store /\ app' = app /\ job'.from = store  BY <1>1, StartsJob
<1>3. set(app.store, p)' = set(app.store, p)  BY <1>2 DEF set
<1> QED  BY <1>2, <1>3 DEF InPlay, Holds

-----------------------------------------------------------------------------
(* Seen along every step.                                                  *)
LEMMA SeenMoves == ASSUME Base, Seen, Moves PROVE Seen'
<1>1. /\ app.at = "flow" /\ UNCHANGED <<store, record, app, job>>
      /\ flow'.step \in NewSteps => flow'.step = flow.step /\ flow'.words = flow.words
      /\ flow'.step = "phrase" /\ flow'.revealed => flow.revealed \/ flow.words \in past'.revealed
      /\ past.revealed \subseteq past'.revealed
      /\ past'.minted = past.minted /\ past'.torn = past.torn
  BY DEF Moves, FlowMove, Base, Typed, PastType
<1>2. \A p : InPlay(p)' = InPlay(p)
  BY <1>1 DEF InPlay, LockJob, Holds, set
<1>3. Begun'
  BY <1>1, <1>2 DEF Seen, Begun, Accounted, Beginning, Replaced, RecordWrite, set
<1>4. Shown(app, flow)'
  BY <1>1, <1>2 DEF Seen, Shown, NewSteps
<1>5. Shown(job.app, job.flow)'
  BY <1>1, <1>2 DEF Seen, Shown
<1> QED  BY <1>3, <1>4, <1>5 DEF Seen

(* The gates, and sync taking over the record.                             *)
LEMMA SeenGate == ASSUME Base, Seen, Gate \/ Adopts PROVE Seen'
<1>1. ~Writing /\ UNCHANGED <<store, job, past>>  BY DEF Gate, Adopts
<1>2. /\ job.writes = {} /\ job'.app.at = "closed" /\ job.does = "none" /\ ~LockJob /\ ~LockJob' /\ job'.writes = {}
  BY <1>1, IdleJob DEF Idle, Closed, LockJob
<1>3. \A p : (InPlay(p)' <=> Holds(store, p)) /\ (InPlay(p) <=> Holds(store, p))
  BY <1>1, <1>2 DEF InPlay, Holds
<1>4. record' = record \/ (\A p \in Phrase : ~Holds(store, p)) \/ record # New("phrase")
  <2>1. CASE Adopts  BY <2>1 DEF Adopts, New
  <2>2. CASE Gate
    <3>1. CASE FirstRuns
      <4>1. store[Identity] = None  BY <3>1, GetOf DEF FirstRuns, Base
      <4>2. \A p \in Phrase : ~Holds(store, p)
        BY <4>1, SealedApart, LockAssumption DEF Holds
      <4> QED  BY <4>2
    <3>2. CASE Readies \/ AsksSetup \/ AsksCode \/ Opens
      BY <3>2 DEF Readies, AsksSetup, AsksCode, Opens
    <3> QED  BY <2>2, <3>1, <3>2 DEF Gate
  <2> QED  BY <2>1, <2>2
<1>5. past.minted \subseteq Phrase  BY EntryAssumption DEF Base, Typed, PastType
<1>6. Begun'
  BY <1>1, <1>2, <1>3, <1>4, <1>5 DEF Seen, Begun, Accounted, Beginning
<1>7. app'.at = "flow" => flow'.step \notin NewSteps \/ (app' = app /\ flow' = flow)
  BY DEF Gate, Adopts, FirstRuns, Readies, AsksSetup, AsksCode, Opens, Ready, NoFlow, NewSteps
<1>8. Shown(app, flow)'  BY <1>1, <1>3, <1>7 DEF Seen, Shown
<1>9. Shown(job.app, job.flow)'  BY <1>2 DEF Shown
<1> QED  BY <1>6, <1>8, <1>9 DEF Seen

(* The app closed or killed.                                               *)
LEMMA SeenStops == ASSUME Base, Seen, HeldBefore, Kill \/ CloseApp PROVE Seen'
<1>1. /\ app' = Closed /\ UNCHANGED <<store,
                          record>> /\ job'.app = Closed /\ job'.writes = {} /\ job'.does = "none"
      /\ past'.minted = past.minted /\ past'.revealed = past.revealed
  BY StopsIdle
<1>2. /\ past.torn \subseteq past'.torn
      /\ job.does = "begin" /\ store # job.from /\ Kill => "begin" \in past'.torn
  <2>0. PastType  BY DEF Base, Typed
  <2>1. CASE CloseApp
    <3>1. past'.torn = past.torn /\ ~Writing  BY <2>0, <2>1 DEF CloseApp, PastType
    <3> QED  BY <2>1, <3>1 DEF CloseApp, Kill
  <2>2. CASE Kill
    <3>1. past'.torn = IF store = job.from /\ job.does # "reset" THEN past.torn ELSE past.torn \cup {job.does}
      BY <2>0, <2>2 DEF Kill, PastType
    <3> QED  BY <3>1
  <2> QED  BY <2>1, <2>2
<1>3. past.minted \subseteq Phrase  BY EntryAssumption DEF Base, Typed, PastType
<1>4. ASSUME NEW p \in past.minted, InPlay(p)'
      PROVE  p \in past'.revealed \/ "begin" \in past'.torn \/ record' = New("phrase")
  <2>1. p \in Phrase /\ Holds(store, p) /\ InPlay(p)  BY <1>3, <1>4, StopInPlay
  <2>2. Accounted(p) \/ record = New("phrase") \/ Beginning  BY <2>1 DEF Seen, Begun
  <2>3. CASE Beginning
    <3>1. store[Identity] # None  BY <2>1, SealedApart, LockAssumption DEF Holds
    <3>2. store # job.from /\ job.does = "begin"  BY <2>3, <3>1 DEF Beginning
    <3>3. Writing  BY <2>3 DEF Beginning, Writing
    <3>4. Kill  BY <3>3 DEF CloseApp
    <3> QED  BY <1>2, <3>2, <3>4
  <2>4. CASE Accounted(p)  BY <1>1, <1>2, <2>4 DEF Accounted
  <2> QED  BY <1>1, <2>2, <2>3, <2>4
<1>5. Begun'  BY <1>1, <1>4 DEF Begun, Accounted
<1> QED  BY <1>1, <1>5 DEF Seen, Shown, Closed

(* Begun after a tap that makes no phrase.                                 *)
LEMMA BegunTap ==
  ASSUME Base, Begun, Tap, past' = past,
         \A p \in past.minted : set(app.store, p) \notin job'.writes,
         \A w \in job'.writes : RecordWrite(w) /\ w.value # New("phrase") =>
           \/ record # New("phrase")
           \/ \A p \in Phrase : Holds(store, p) => p \in past.revealed
           \/ \A p \in Phrase : Holds(store, p) =>
                \E x \in job'.writes : x.area = "store" /\ x.name = Identity
  PROVE  Begun'
<1>1. PICK name \in Taps : \E writes, a, f : Starts(name, writes, a, f)  BY TapStarts
<1>2. UNCHANGED <<store, record, app>> /\ ~Writing /\ job.does = "none"  BY <1>1, StartsJob
<1>3. past.minted \subseteq Phrase  BY EntryAssumption DEF Base, Typed, PastType
<1> SUFFICES ASSUME NEW p \in past.minted, InPlay(p)'
             PROVE  /\ Accounted(p) \/ record = New("phrase")
                    /\ \A w \in job'.writes : RecordWrite(w) /\ w.value # New("phrase") => Accounted(p) \/ Replaced(p)'
  BY <1>2 DEF Begun, Accounted
<1>4. p \in Phrase /\ Holds(store, p)  BY <1>3, TapInPlay
<1>5. InPlay(p)  BY <1>2, <1>4, IdleInPlay
<1>6. Accounted(p) \/ record = New("phrase")  BY <1>2, <1>5 DEF Begun, Beginning
<1>7. set(app.store, p)' \notin job'.writes  BY <1>2 DEF set
<1>8. ASSUME NEW w \in job'.writes, RecordWrite(w), w.value # New("phrase")
      PROVE  Accounted(p) \/ Replaced(p)'
  <2>1. CASE record # New("phrase")  BY <1>6, <2>1
  <2>2. CASE \A q \in Phrase : Holds(store, q) => q \in past.revealed  BY <1>4, <2>2 DEF Accounted
  <2>3. CASE \A q \in Phrase : Holds(store, q) => \E x \in job'.writes : x.area = "store" /\ x.name = Identity
    BY <1>4, <1>7, <2>3 DEF Replaced
  <2> QED  BY <1>8, <2>1, <2>2, <2>3
<1> QED  BY <1>6, <1>8

(* Begun after any tap.                                                    *)
LEMMA BegunTapKind == ASSUME Base, Seen, Screened, Tap PROVE Begun'
<1>0. Begun /\ (app.at = "flow" => Shown(app, flow))  BY DEF Seen
<1>1. PICK name \in Taps : \E writes, a, f : Starts(name, writes, a, f)  BY TapStarts
<1>2. UNCHANGED <<store, record, app>> /\ ~Writing /\ job.does = "none"  BY <1>1, StartsJob
<1>3. past.minted \subseteq Phrase /\ past.minted \subseteq Minted  BY EntryAssumption DEF Base, Typed, PastType
<1>4. \A step : New(step) = New("phrase") <=> step = "phrase"  BY DEF New
<1>5. \A to, p : WriteRecord(to) # set(app.store, p)  BY DEF WriteRecord, set, Put
<1>6. \A p \in Phrase : InPlay(p) <=> Holds(store, p)  BY <1>2, IdleInPlay
<1>7. \A p, q : set(app.store, p) = set(app.store, q) => p = q  BY SetSame
<1>8. CASE Resumes
  BY <1>0, <1>4, <1>5, <1>8, ResumesJob, RecordWrites, BegunTap
<1>9. CASE Begins
  <2>1. CASE past' = past /\ job'.writes = {WriteRecord(New("phrase"))}
    BY <1>0, <1>5, <2>1, RecordWrites, BegunTap
  <2>2. CASE store[Identity] = None /\ \E p \in Minted :
               /\ past'.minted = past.minted \cup {p}
               /\ job'.writes = {set(app.store, p), WriteRecord(New("phrase"))}
    <3>1. job'.does = "begin" /\ job'.from = store  BY <1>1, <1>9, BeginsJob, StartsJob
    <3>2. WriteRecord(New("phrase")) \in job'.writes  BY <2>2
    <3>3. Beginning'  BY <2>2, <3>1, <3>2 DEF Beginning
    <3>4. \A w \in job'.writes : RecordWrite(w) => w.value = New("phrase")  BY <2>2, RecordWrites
    <3> QED  BY <3>3, <3>4 DEF Begun, RecordWrite
  <2> QED  BY <1>9, <2>1, <2>2, BeginsJob
<1>10. CASE Pages
  <2>1. job'.writes = {WriteRecord(New(job'.flow.step))} /\ past' = past /\ app.at = "flow" /\ flow.step \in NewSteps
    BY <1>10, RecordsJob
  <2>2. record = New(flow.step)  BY <2>1 DEF Screened
  <2>3. CASE job'.flow.step = "phrase"
    BY <1>0, <1>5, <2>1, <2>3, RecordWrites, BegunTap
  <2>4. CASE flow.step = "phrase" /\ flow.revealed
    <3>1. \A p \in Phrase : Holds(store, p) => p \in past.revealed
      BY <1>6, <2>1, <2>4 DEF Seen, Shown
    <3> QED  BY <1>0, <1>5, <2>1, <3>1, BegunTap
  <2>5. CASE flow.step = "check"
    <3>1. record # New("phrase")  BY <1>4, <2>2, <2>5
    <3> QED  BY <1>0, <1>5, <2>1, <3>1, BegunTap
  <2> QED  BY <1>10, <2>3, <2>4, <2>5, RecordsJob
<1>11. CASE Finishes
  <2>1. PICK to : job'.writes = {WriteRecord(to)}  BY <1>11, FinishesJob
  <2>2. past' = past /\ app.at = "flow" /\ flow.step = "server"  BY <1>11, FinishesJob
  <2>3. record # New("phrase")  BY <1>4, <2>2 DEF Screened, NewSteps
  <2> QED  BY <1>0, <1>5, <2>1, <2>2, <2>3, BegunTap
<1>12. CASE Joins
  <2>1. PICK p \in Brought : \E to : job'.writes = {set(app.store, p), WriteRecord(to)}  BY <1>12, JoinsJob
  <2>2. past' = past  BY <1>12, JoinsJob
  <2>3. set(app.store, p).area = "store" /\ set(app.store, p).name = Identity  BY DEF set, Put
  <2>4. \A q \in past.minted : set(app.store, q) \notin job'.writes  BY <1>3, <1>5, <1>7, <2>1 DEF Brought
  <2>5. set(app.store, p) \in job'.writes  BY <2>1
  <2> QED  BY <1>0, <2>2, <2>3, <2>4, <2>5, BegunTap
<1>13. CASE Replaces
  <2>1. PICK p \in Brought : job'.writes = {set(app.store, p)}  BY <1>13, ReplacesJob
  <2>2. past' = past  BY <1>13, ReplacesJob
  <2>3. \A q \in past.minted : set(app.store, q) \notin job'.writes  BY <1>3, <1>7, <2>1 DEF Brought
  <2> QED  BY <1>0, <2>1, <2>2, <2>3, RecordWrites, BegunTap
<1>14. CASE LockTap
  <2>1. past' = past /\ \A w \in job'.writes : ~RecordWrite(w) /\ \A p : w # set(app.store, p)
    BY <1>14, LocksJob DEF RecordWrite
  <2> QED  BY <1>0, <2>1, BegunTap
<1>15. CASE Erases
  <2>1. past' = past /\ job'.writes = resetDeviceKeyStore \cup {WriteRecord(NoRecord)}  BY <1>15, ErasesJob
  <2>2. \A w \in resetDeviceKeyStore : w.value = None /\ ~RecordWrite(w)
    BY DEF resetDeviceKeyStore, Drop, Put, RecordWrite
  <2>3. \A q \in Phrase : set(app.store, q).value # None
    <3>1. app.store # Plain => app.store.code \in Codes /\ app.store.salt \in Salt
      BY SaltIn DEF Base, Typed, Screen, View
    <3> QED  BY <3>1, SealedApart, LockAssumption DEF set, Put
  <2>4. \A q \in past.minted : set(app.store, q) \notin job'.writes  BY <1>3, <1>5, <2>1, <2>2, <2>3
  <2>5. \A p \in Phrase : Holds(store, p) => Drop(1, "store", Identity) \in job'.writes
    <3>1. ASSUME NEW p \in Phrase, Holds(store, p) PROVE store[Identity] # None
      BY <3>1, SealedApart, LockAssumption DEF Holds
    <3> QED  BY <2>1, <3>1, Names DEF resetDeviceKeyStore, Held
  <2>6. Drop(1, "store", Identity).area = "store" /\ Drop(1, "store", Identity).name = Identity
    BY DEF Drop, Put
  <2> QED  BY <1>0, <2>1, <2>4, <2>5, <2>6, BegunTap
<1>16. CASE Unlocks
  <2>1. past' = past /\ \A w \in job'.writes : w.area = "store" /\ w.name # Identity  BY <1>16, UnlocksJob
  <2>2. \A p : set(app.store, p).name = Identity  BY DEF set, Put
  <2> QED  BY <1>0, <2>1, <2>2, BegunTap DEF RecordWrite
<1> QED  BY <1>8, <1>9, <1>10, <1>11, <1>12, <1>13, <1>14, <1>15, <1>16 DEF Tap, SimpleTap

(* What the screens show after a tap.                                      *)
LEMMA TapRevealed == ASSUME Base, Tap PROVE past'.revealed = past.revealed
<1>1. Begins => past'.revealed = past.revealed
  BY DEF Begins, Draws, Redraws, Base, Typed, PastType
<1> QED  BY <1>1, ResumesJob, RecordsJob, FinishesJob, JoinsJob, ReplacesJob, LocksJob, ErasesJob, UnlocksJob
         DEF Tap, SimpleTap

(* The app reads the phrase the store holds, where nothing covers it.      *)
LEMMA HeldRead ==
  ASSUME Base, ViewGood(app.store), app.store = Plain \/ store[Identity] \notin Phrase,
         NEW p \in Phrase, Holds(store, p)
  PROVE  get(app.store) = p
  BY HoldsView DEF Base, Typed, Screen

(* The screen that is up stays true to what is in play.                    *)
LEMMA ShownTapApp == ASSUME Base, Seen, Tap PROVE Shown(app, flow)'
<1>1. PICK name \in Taps : \E writes, a, f : Starts(name, writes, a, f)  BY TapStarts
<1>2. UNCHANGED <<store, record, app, flow>> /\ ~Writing  BY <1>1, StartsJob
<1> SUFFICES ASSUME app.at = "flow", flow.step \in NewSteps
             PROVE  /\ \A p \in Phrase : InPlay(p)' => flow.words = p
                    /\ flow.step = "phrase" /\ flow.revealed => flow.words \in past.revealed
  BY <1>2, TapRevealed DEF Shown
<1>3. \A p \in Phrase : set(app.store, p) \notin job'.writes
  <2>1. CASE Pages  BY <2>1, RecordsJob, RecordWrites
  <2>2. CASE Finishes
    <3>1. PICK to : job'.writes = {WriteRecord(to)}  BY <2>2, FinishesJob
    <3> QED  BY <3>1, RecordWrites
  <2>3. CASE LockTap  BY <2>3, LocksJob
  <2>4. ~Resumes /\ ~Begins /\ ~Joins /\ ~Replaces /\ ~Erases /\ ~Unlocks
    BY ResumesJob, BeginsJob, JoinsJob, ReplacesJob, ErasesJob, UnlocksJob
  <2> QED  BY <2>1, <2>2, <2>3, <2>4 DEF Tap, SimpleTap
<1>4. \A p \in Phrase : InPlay(p)' => InPlay(p)  BY <1>2, <1>3, TapInPlay, IdleInPlay
<1> QED  BY <1>4 DEF Seen, Shown

(* So is the screen the tap leads to.                                      *)
LEMMA ShownTapJob == ASSUME Base, Seen, Covered, Tap PROVE Shown(job.app, job.flow)'
<1>1. PICK name \in Taps : \E writes, a, f : Starts(name, writes, a, f)  BY TapStarts
<1>2. UNCHANGED <<store, record, app, flow>> /\ ~Writing /\ ~LockJob  BY <1>1, StartsJob
<1> SUFFICES ASSUME job'.app.at = "flow", job'.flow.step \in NewSteps
             PROVE  /\ \A p \in Phrase : InPlay(p)' => job'.flow.words = p
                    /\ job'.flow.step = "phrase" /\ job'.flow.revealed => job'.flow.words \in past.revealed
  BY TapRevealed DEF Shown
<1>3. CASE Resumes
  <2>1. ViewGood(app.store) /\ (app.store = Plain \/ store[Identity] \notin Phrase)
    <3>1. CASE app.at = "closed"
      BY <1>2, <1>3, <3>1 DEF Resumes, Unlockable, Base, ViewOK, ViewGood, Suits
    <3>2. CASE app.at = "opened"
      <4>1. ViewGood(app.store) /\ app.store # Plain  BY <1>2, <3>2 DEF Base, ViewOK
      <4>2. get(app.store) \in Phrase  BY <1>3, <3>2 DEF Resumes
      <4>3. app.store.code \in Codes /\ app.store.salt \in Salt  BY <4>1, SaltIn DEF Base, Typed, Screen, View
      <4>4. store[Identity] = sealed(get(app.store), app.store.code, app.store.salt)
        BY <4>1, <4>2, GetOf DEF Base
      <4> QED  BY <4>1, <4>2, <4>3, <4>4, SealedApart
    <3> QED  BY <1>3, <3>1, <3>2, ResumesJob
  <2>2. \A p \in Phrase : set(app.store, p) \notin job'.writes  BY <1>3, ResumesJob, RecordWrites
  <2>3. \A p \in Phrase : InPlay(p)' => get(app.store) = p  BY <2>1, <2>2, TapInPlay, HeldRead
  <2> QED  BY <1>3, <2>3, ResumesJob
<1>4. CASE Begins
  <2>1. /\ app.at = "flow" /\ app.store # Plain /\ job'.flow.step = "phrase" /\ ~job'.flow.revealed
    BY <1>4, BeginsJob
  <2>2. CASE job'.writes = {WriteRecord(New("phrase"))} /\ job'.flow.words = get(app.store)
    <3>1. ViewGood(app.store) /\ store[Identity] \notin Phrase  BY <1>2, <2>1 DEF Base, ViewOK, Covered
    <3>2. \A p \in Phrase : set(app.store, p) \notin job'.writes  BY <2>2, RecordWrites
    <3> QED  BY <2>1, <2>2, <3>1, <3>2, TapInPlay, HeldRead
  <2>3. CASE store[Identity] = None /\ \E q \in Minted :
               job'.flow.words = q /\ job'.writes = {set(app.store, q), WriteRecord(New("phrase"))}
    <3>1. \A p \in Phrase : ~Holds(store, p)  BY <2>3, SealedApart, LockAssumption DEF Holds
    <3>2. \A p \in Phrase : set(app.store, p) \in job'.writes => job'.flow.words = p
      BY <2>3, RecordWrites, SetSame
    <3> QED  BY <2>1, <3>1, <3>2, TapInPlay
  <2> QED  BY <1>4, <2>2, <2>3, BeginsJob
<1>5. CASE Pages
  <2>1. app.at = "flow" /\ flow.step \in NewSteps /\ job'.flow.words = flow.words
        /\ (job'.flow.step = "phrase" => ~job'.flow.revealed)
    BY <1>5, RecordsJob
  <2>2. \A p \in Phrase : set(app.store, p) \notin job'.writes  BY <1>5, RecordsJob, RecordWrites
  <2>3. \A p \in Phrase : InPlay(p)' => InPlay(p)  BY <1>2, <2>2, TapInPlay, IdleInPlay
  <2>4. \A p \in Phrase : InPlay(p) => flow.words = p  BY <2>1 DEF Seen, Shown
  <2> QED  BY <2>1, <2>3, <2>4
<1>6. CASE LockTap  BY <1>6, LocksJob
<1>7. CASE Finishes \/ Joins \/ Replaces \/ Erases \/ Unlocks
  BY <1>7, FinishesJob, JoinsJob, ReplacesJob, ErasesJob, UnlocksJob DEF Closed
<1> QED  BY <1>3, <1>4, <1>5, <1>6, <1>7 DEF Tap, SimpleTap

(* After a tap.                                                            *)
LEMMA SeenTap == ASSUME Base, Seen, Screened, Covered, Tap PROVE Seen'
  BY BegunTapKind, ShownTapApp, ShownTapJob DEF Seen

(* What the screens show after a write.                                    *)
LEMMA HoldsWritten ==
  ASSUME Base, ~LockJob, NEW w, Writes(w), w.area = "store", w.name = Identity,
         NEW p \in Phrase, Holds(store', p)
  PROVE  w = set(app.store, p)
<1>0. /\ w \in job.writes /\ (Erasing \/ Unlocking \/ Simple) /\ store' = [store EXCEPT ![Identity] = w.value]
      /\ store = [name \in Name |-> store[name]] /\ Typed /\ app.store \in View(salts)
  BY DEF Base, JobOK, Writes, Writing, LandsOn, LockJob, Enabling, Changing, Disabling, Typed, IsArea, Screen
<1>1. store'[Identity] = w.value  BY <1>0, Names
<1>2. w.value = p \/ \E c \in Codes, n \in Salt : w.value = sealed(p, c, n)  BY <1>1 DEF Holds
<1>3. CASE Erasing
  <2>1. w.value = None  BY <1>0, <1>3 DEF Erasing, Drop, Put, WriteRecord
  <2> QED  BY <1>2, <2>1, SealedApart, LockAssumption
<1>4. CASE Unlocking
  BY <1>0, <1>4, Names DEF Unlocking, Put
<1>5. CASE Simple
  <2>1. PICK q \in Phrase : w = set(app.store, q)  BY <1>0, <1>5 DEF Simple, WriteRecord, Put
  <2>2. w.value = IF app.store = Plain THEN q ELSE sealed(q, app.store.code, app.store.salt)
    BY <2>1 DEF set, Put
  <2>3. app.store # Plain => app.store.code \in Codes /\ app.store.salt \in Salt  BY <1>0, SaltIn DEF View
  <2>4. \A c \in Codes, n \in Salt : sealed(p, c, n) \notin Phrase /\ sealed(q, c, n) \notin Phrase
    BY SealedApart
  <2>5. p = q  BY <1>2, <2>2, <2>3, <2>4, SealedParts
  <2> QED  BY <2>1, <2>5
<1> QED  BY <1>0, <1>3, <1>4, <1>5

(* The record is written when the identity has been.                       *)
LEMMA ReplacedFirst ==
  ASSUME Base, NEW w, Writes(w), RecordWrite(w), NEW p PROVE ~Replaced(p)
<1>1. (Erasing \/ Simple) /\ w \in job.writes /\ WriteOK(w, salts) /\ \A x \in job.writes : w.turn <= x.turn
  BY RecordJob DEF Writes, RecordWrite
<1>2. w.turn = 2  BY <1>1, RecordWrites DEF WriteOK, RecordWrite
<1>3. ASSUME NEW x \in job.writes, x.area = "store" PROVE x.turn = 1
  <2>1. CASE Erasing  BY <1>3, <2>1 DEF Erasing, Drop, Put, WriteRecord
  <2>2. CASE Simple  BY <1>3, <2>2, RecordWrites DEF Simple, RecordWrite
  <2> QED  BY <1>1, <2>1, <2>2
<1> QED  BY <1>1, <1>2, <1>3 DEF Replaced

(* Begun after a write.                                                    *)
LEMMA BegunWrite == ASSUME Base, HeldBefore, Begun, NEW w, Writes(w) PROVE Begun'
<1>1. w \in job.writes /\ past' = past  BY WriteGoes
<1>2. record' = IF RecordWrite(w) THEN w.value ELSE record  BY DEF Writes, LandsOn, RecordWrite
<1>3. job'.writes \subseteq job.writes \ {w} /\ (job'.writes # {} => job'.writes = job.writes \ {w})
  BY WriteGoes
<1>4. past.minted \subseteq Phrase  BY EntryAssumption DEF Base, Typed, PastType
<1> SUFFICES ASSUME NEW p \in past.minted, InPlay(p)'
             PROVE  /\ Accounted(p) \/ record' = New("phrase") \/ Beginning'
                    /\ \A v \in job'.writes : RecordWrite(v) /\ v.value # New("phrase") => Accounted(p) \/ Replaced(p)'
  BY <1>1 DEF Begun, Accounted
<1>5. p \in Phrase /\ InPlay(p)  BY <1>4, WriteInPlay
<1>6. Accounted(p) \/ record = New("phrase") \/ Beginning  BY <1>5 DEF Begun
<1>7. \A v \in job.writes : RecordWrite(v) /\ v.value # New("phrase") => Accounted(p) \/ Replaced(p)
  BY <1>5 DEF Begun
<1>8. Accounted(p) \/ record' = New("phrase") \/ Beginning'
  <2>1. CASE RecordWrite(w)
    <3>1. ~Replaced(p)  BY <2>1, ReplacedFirst
    <3> QED  BY <1>1, <1>2, <1>7, <2>1, <3>1
  <2>2. CASE ~RecordWrite(w) /\ Beginning
    <3>1. WriteRecord(New("phrase")) \in job.writes \ {w}  BY <2>2, RecordWrites DEF Beginning
    <3>2. job'.writes = job.writes \ {w} /\ job'.does = job.does /\ job'.from = job.from
      BY <3>1, WriteGoes
    <3> QED  BY <2>2, <3>1, <3>2 DEF Beginning
  <2> QED  BY <1>2, <1>6, <2>1, <2>2
<1>9. ASSUME NEW v \in job'.writes, RecordWrite(v), v.value # New("phrase")
      PROVE  Accounted(p) \/ Replaced(p)'
  <2>1. CASE Accounted(p)  BY <2>1
  <2>2. CASE ~Accounted(p)
    <3>1. v \in job.writes /\ job'.writes = job.writes \ {w} /\ app' = app /\ ~LockJob /\ ~LockJob'
      <4>1. v \in job.writes /\ job'.writes # {}  BY <1>3, <1>9
      <4>2. Erasing \/ Simple  BY <1>9, <4>1, RecordJob DEF RecordWrite
      <4>3. ~LockJob  BY <4>2 DEF Erasing, Simple, LockJob, SimpleTaps
      <4> QED  BY <4>1, <4>3, WriteGoes
    <3>2. Replaced(p)  BY <1>7, <1>9, <2>2, <3>1
    <3>3. PICK x \in job.writes : x.area = "store" /\ x.name = Identity /\ set(app.store, p) \notin job.writes
      BY <3>2 DEF Replaced
    <3>4. set(app.store, p)' = set(app.store, p)  BY <3>1 DEF set
    <3>5. Holds(store', p)  BY <3>1, <3>3, <3>4 DEF InPlay, Holds
    <3>6. x # w  BY <1>5, <3>1, <3>3, <3>5, HoldsWritten
    <3> QED  BY <3>1, <3>3, <3>4, <3>6 DEF Replaced
  <2> QED  BY <2>1, <2>2
<1> QED  BY <1>8, <1>9

(* After a write.                                                          *)
LEMMA SeenWrite == ASSUME Base, Seen, HeldBefore, Write PROVE Seen'
<1>1. PICK w : Writes(w)  BY WriteIs DEF Base
<1>2. past' = past /\ \A p \in Phrase : InPlay(p)' => InPlay(p)  BY <1>1, WriteGoes, WriteInPlay
<1>3. Begun'  BY <1>1, BegunWrite DEF Seen
<1>4. CASE app' = job.app /\ flow' = job.flow /\ job'.app = Closed
  BY <1>2, <1>3, <1>4 DEF Seen, Shown, Closed
<1>5. CASE UNCHANGED <<app, flow>> /\ job'.app = job.app /\ job'.flow = job.flow
  BY <1>2, <1>3, <1>5 DEF Seen, Shown
<1> QED  BY <1>1, <1>4, <1>5, WriteGoes

(* A stutter.                                                              *)
LEMMA SeenStutters == ASSUME Seen, UNCHANGED vars PROVE Seen'
<1>1. UNCHANGED <<store, record, app, flow, job, past>>  BY DEF vars
<1>2. \A p : /\ InPlay(p)' = InPlay(p) /\ Accounted(p)' = Accounted(p) /\ Replaced(p)' = Replaced(p)
  BY <1>1 DEF InPlay, LockJob, Holds, set, Accounted, Replaced
<1>3. Begun'  BY <1>1, <1>2 DEF Seen, Begun, Beginning, RecordWrite
<1>4. Shown(app, flow)' /\ Shown(job.app, job.flow)'  BY <1>1, <1>2 DEF Seen, Shown
<1> QED  BY <1>3, <1>4 DEF Seen

(* Along every step.                                                       *)
LEMMA SeenKept == ASSUME Base, Screened, Covered, HeldBefore, Seen, Kind PROVE Seen'
  BY SeenMoves, SeenGate, SeenTap, SeenWrite, SeenStops, SeenStutters DEF Kind

(* At first: nothing is begun, shown or under way.                         *)
LEMMA SeenInit == ASSUME Init PROVE Screened /\ Covered /\ HeldBefore /\ Seen
<1>1. /\ job.writes = {} /\ job.does = "none" /\ app.at = "closed" /\ job.app.at = "closed" /\ past.minted = {}
  BY DEF Init, Idle, Closed
<1> QED  BY <1>1 DEF Screened, Covered, HeldBefore, LockJob, Seen, Begun, Shown

(* What the app runs on is in play.                                        *)
LEMMA RunningInPlay ==
  ASSUME Base, HeldBefore, app.at = "running", get(app.store) \in Phrase
  PROVE  InPlay(get(app.store))
<1>1. CASE LockJob  BY <1>1 DEF HeldBefore, InPlay
<1>2. CASE ~LockJob
  <2>1. ViewGood(app.store) /\ Typed /\ app.store \in View(salts)  BY <1>2 DEF Base, ViewOK, Typed, Screen
  <2>2. Holds(store, get(app.store))  BY <2>1, ViewHolds
  <2> QED  BY <1>2, <2>2 DEF InPlay
<1> QED  BY <1>1, <1>2

(* The app never runs on a phrase made here that was never on screen,      *)
(* unless it was killed between that phrase's write and the record's       *)
(* (entry-flow.ts: beginPhrase's order of writes, the resume from the      *)
(* record, and every screen of the new vault written before it is shown).  *)
THEOREM DeviceEntryPhraseSeen == Spec => []PhraseSeen
<1> DEFINE Inv == Screened /\ Covered /\ HeldBefore /\ Seen
<1>1. Init => Inv  BY SeenInit
<1>2. Base /\ Inv /\ [Next]_vars => Inv'
  <2> SUFFICES ASSUME Base, Inv, [Next]_vars PROVE Inv'
    OBVIOUS
  <2>1. Kind  BY BaseKept
  <2> QED  BY <2>1, ScreenedKept, CoveredKept, HeldKept, SeenKept
<1>3. Base /\ Inv => PhraseSeen
  <2> SUFFICES ASSUME Base, Inv, app.at = "running", get(app.store) \in past.minted
               PROVE  get(app.store) \in past.revealed \/ "begin" \in past.torn
    BY DEF PhraseSeen
  <2>1. get(app.store) \in Phrase  BY EntryAssumption DEF Base, Typed, PastType
  <2>2. InPlay(get(app.store))  BY <2>1, RunningInPlay
  <2>3. Accounted(get(app.store)) \/ record = New("phrase") \/ Beginning  BY <2>2 DEF Seen, Begun
  <2>4. record.kind # "new" /\ ~Beginning  BY DEF Screened, Beginning
  <2>5. record # New("phrase")  BY <2>4, RecordWrites
  <2> QED  BY <2>3, <2>4, <2>5 DEF Accounted
<1> QED  BY <1>1, <1>2, <1>3, BaseAlways, PTL DEF Spec
=============================================================================
