---------------------------- MODULE DeviceEntry ----------------------------
(***************************************************************************)
(* What happens on a device before the app exists, and what the app may do *)
(* to the lock later: resolveDeviceEntry, the first run's EntryFlow, the   *)
(* unlock and setup gates, and the Security page, over the key store of    *)
(* DeviceLock and the entry record, with the app killed at any write.      *)
(*                                                                         *)
(* Web Storage answers at once, so what a tap sets off runs to its end     *)
(* before another tap: a tap is a job, writes still to land and what the   *)
(* app is then.  Servers and the device that invites do answer later.      *)
(* Records are written beside the key store, in the same storage.          *)
(***************************************************************************)
EXTENDS DeviceLock

CONSTANTS Server,      \* addresses
          Minted,      \* the phrases generateMnemonic draws
          MaxKills     \* how often the app is killed while it writes

Brought == Phrase \ Minted  \* phrases of vaults other devices made

ASSUME EntryAssumption == Minted \subseteq Phrase /\ None \notin Server /\ MaxKills \in Nat

VARIABLES
  device,   \* the build: requireLock, and the server that serves it or None
  record,   \* the entry record
  app,      \* what is on screen, and the store the app was given
  flow,     \* EntryFlow's fields
  job,      \* the writes under way and what they lead to
  past      \* what has happened, for the properties

vars == <<store, staged, salts, device, record, app, flow, job, past>>

(* The store is Plain, or the view a code opens with the salt it found.    *)
Plain == [code |-> None, salt |-> 0]
Locked(code) == [code |-> code, salt |-> store[SALT_ENTRY]]
Closed == [at |-> "closed", store |-> Plain]
NoFlow == [step |-> "welcome", mode |-> "new", locked |-> FALSE, words |-> None, revealed |-> FALSE,
           joinPhrase |-> None, joinServer |-> None, invited |-> FALSE, joiner |-> FALSE,
           address |-> None, status |-> "idle", about |-> None, asked |-> None]
Idle == [writes |-> {}, does |-> "none", from |-> Nothing, app |-> Closed, flow |-> NoFlow]

NoRecord == [kind |-> "none", step |-> None, server |-> None]
New(step) == [kind |-> "new", step |-> step, server |-> None]
Connect(server) == [kind |-> "connect", step |-> None, server |-> server]
Join(server) == [kind |-> "join", step |-> None, server |-> server]

(* What the given store says the identity is; ciphertext, or what does not *)
(* decrypt, is no phrase.                                                  *)
get(view) ==
  IF store[Identity] = None THEN None
  ELSE IF \E p \in Phrase : store[Identity] = IF view = Plain THEN p ELSE sealed(p, view.code, view.salt)
       THEN CHOOSE p \in Phrase : store[Identity] = IF view = Plain THEN p ELSE sealed(p, view.code, view.salt)
       ELSE Unreadable

set(view, phrase) ==
  Put(1, "store", Identity, IF view = Plain THEN phrase ELSE sealed(phrase, view.code, view.salt))

Legacy(identity, salt, check, shape) ==
  [name \in Name |-> CASE name = Identity -> identity [] name = SALT_ENTRY -> salt
                       [] name = CHECK_ENTRY -> check [] OTHER -> shape]

(* A new device; one from before locks were required; one locked under the *)
(* old rule, its code of whatever length.                                  *)
Init ==
  /\ device \in [required : BOOLEAN, fixed : Server \cup {None}]
  /\ \/ store = Nothing /\ salts = 0
     \/ \E p \in Brought : store = Legacy(p, None, None, None) /\ salts = 0
     \/ \E p \in Brought, c \in Codes :
          store = Legacy(sealed(p, c, 1), 1, sealed(CHECK_VALUE, c, 1), None) /\ salts = 1
  /\ staged = Nothing
  /\ record = NoRecord
  /\ app = Closed
  /\ flow = NoFlow
  /\ job = Idle
  /\ past = [minted |-> {}, revealed |-> {}, vouched |-> {}, torn |-> {}, kills |-> 0,
             fresh |-> store = Nothing]

-----------------------------------------------------------------------------
(* Jobs.                                                                   *)

Writing == job.writes # {}

(* What a tap sets off: its writes, then what is on screen.                *)
Does(name, writes, nextApp, nextFlow) ==
  IF writes = {} THEN app' = nextApp /\ flow' = nextFlow /\ UNCHANGED job
  ELSE /\ job' = [writes |-> writes, does |-> name, from |-> store, app |-> nextApp, flow |-> nextFlow]
       /\ UNCHANGED <<app, flow>>

Lands(write) ==
  CASE write.area = "store" ->
         store' = [store EXCEPT ![write.name] = write.value] /\ UNCHANGED <<staged, record>>
    [] write.area = "staged" ->
         staged' = [staged EXCEPT ![write.name] = write.value] /\ UNCHANGED <<store, record>>
    [] OTHER -> record' = write.value /\ UNCHANGED <<store, staged>>

(* The writes whose turn it is.                                            *)
Due == {write \in job.writes : \A other \in job.writes : write.turn <= other.turn}

Write ==
  /\ \E write \in Due :
       LET rest == job.writes \ {write}
       IN /\ Lands(write)
          /\ IF rest = {} THEN app' = job.app /\ flow' = job.flow /\ job' = Idle
             ELSE job' = [job EXCEPT !.writes = rest] /\ UNCHANGED <<app, flow>>
  /\ UNCHANGED <<salts, device, past>>

(* The app is killed between two writes: what is torn is an operation that *)
(* had touched a real entry, or an erase.                                  *)
Kill ==
  /\ Writing /\ past.kills < MaxKills
  /\ past' = [past EXCEPT !.kills = @ + 1, !.vouched = {},
                          !.torn = IF store = job.from /\ job.does # "reset" THEN @ ELSE @ \cup {job.does}]
  /\ app' = Closed /\ flow' = NoFlow /\ job' = Idle
  /\ UNCHANGED <<store, staged, salts, device, record>>

CloseApp ==
  /\ ~Writing /\ app.at # "closed"
  /\ app' = Closed /\ flow' = NoFlow /\ past' = [past EXCEPT !.vouched = {}]
  /\ UNCHANGED <<store, staged, salts, device, record, job>>

OnlyScreen == UNCHANGED <<store, staged, salts, device, record, past>>
DrawsSalt == salts < MaxSalts /\ salts' = salts + 1

-----------------------------------------------------------------------------
(* Before the app: resolveDeviceEntry.                                     *)

(* loadKeyring ends it, and takes only a phrase.                           *)
Ready(view, phrase) == [at |-> IF phrase \in Phrase THEN "running" ELSE "failed", store |-> view]
InFlow(view) == [at |-> "flow", store |-> view]

WriteRecord(to) == Put(2, "record", None, to)

asking(f) == <<f.address, IF f.mode = "join" THEN f.joinPhrase ELSE f.words>>
unasked(f) == [f EXCEPT !.asked = None, !.status = "idle", !.about = None]
checkServer(f) == [unasked(f) EXCEPT !.status = "checking", !.asked = asking(f)]

showPhrase(f) == [f EXCEPT !.step = "phrase", !.revealed = FALSE]
showCheck(f) == [f EXCEPT !.step = "check"]
showServer(f) ==
  LET shown == [unasked(f) EXCEPT !.step = "server", !.address = device.fixed]
  IN IF device.fixed = None THEN shown ELSE checkServer(shown)

shows(step, f) ==
  CASE step = "phrase" -> showPhrase(f) [] step = "check" -> showCheck(f) [] OTHER -> showServer(f)

(* A screen of the new vault is up once its record is written.             *)
Shows(name, writes, step, view, f) ==
  Does(name, writes \cup {WriteRecord(New(step))}, InFlow(view), shows(step, f))

Resume(view, locked) ==
  Shows("resume", {}, record.step, view, [NoFlow EXCEPT !.locked = locked, !.words = get(view)])

FirstRun(view, locked) ==
  /\ record' = NoRecord
  /\ app' = InFlow(view) /\ flow' = [NoFlow EXCEPT !.locked = locked]
  /\ UNCHANGED job

(* decideEntry.                                                            *)
Boot ==
  /\ app.at = "closed" /\ ~Writing
  /\ \/ hasVerifier(store) /\ app' = [at |-> "unlock", store |-> Plain] /\ UNCHANGED <<flow, job, record>>
     \/ ~hasVerifier(store) /\ store[Identity] = None /\ FirstRun(Plain, FALSE)
     \/ ~hasVerifier(store) /\ store[Identity] # None
        /\ IF record.kind = "new" THEN Resume(Plain, FALSE) /\ UNCHANGED record
           ELSE /\ app' = IF device.required THEN [at |-> "setup", store |-> Plain]
                          ELSE Ready(Plain, get(Plain))
                /\ UNCHANGED <<flow, job, record>>
  /\ UNCHANGED <<store, staged, salts, device, past>>

(* The unlock gate's answer, then decideAfterUnlock.                       *)
Unlock(code) ==
  /\ app.at = "unlock" /\ ~Writing
  /\ Does("unlock", unlockWrites(code),
          IF opens(store, code) THEN [at |-> "opened", store |-> Locked(code)] ELSE app, flow)
  /\ IF store[SALT_ENTRY] = None THEN DrawsSalt ELSE UNCHANGED salts
  /\ UNCHANGED <<store, staged, device, record, past>>

(* A form that would forget how far a new vault had got.                   *)
Opened_boots ==
  /\ app.at = "opened" /\ ~Writing
  /\ IF get(app.store) = None THEN FirstRun(app.store, TRUE)
     ELSE app' = Ready(app.store, get(app.store)) /\ UNCHANGED <<flow, job, record>>
  /\ UNCHANGED <<store, staged, salts, device, past>>
Opened ==
  /\ app.at = "opened" /\ ~Writing
  /\ IF get(app.store) = None THEN FirstRun(app.store, TRUE)
     ELSE /\ IF get(app.store) # Unreadable /\ record.kind = "new" THEN Resume(app.store, TRUE)
             ELSE app' = Ready(app.store, get(app.store)) /\ UNCHANGED <<flow, job>>
          /\ UNCHANGED record
  /\ UNCHANGED <<store, staged, salts, device, past>>

(* "Erase and connect again"; the page is loaded anew.                     *)
Erase ==
  /\ app.at = "unlock" /\ ~Writing
  /\ Does("reset", resetDeviceKeyStore \cup {WriteRecord(NoRecord)}, Closed, NoFlow)
  /\ OnlyScreen

(* The setup gate of a device from before locks were required.             *)
SetupLock(code) ==
  /\ app.at = "setup" /\ ~Writing /\ isUnlockCodeValid(code) /\ DrawsSalt
  /\ Does("enable", enableDeviceLock(code),
          Ready([code |-> code, salt |-> salts + 1], store[Identity]), flow)
  /\ UNCHANGED <<store, staged, device, record, past>>

-----------------------------------------------------------------------------
(* The first run.                                                          *)

On(step) == app.at = "flow" /\ ~Writing /\ flow.step = step
Turns(to) == flow' = to /\ UNCHANGED <<app, job>> /\ OnlyScreen
Goes(step) == Turns([flow EXCEPT !.step = step])

(* A new vault's phrase is made, written, and only then shown.             *)
beginPhrase(view) ==
  IF get(view) = None
  THEN \E p \in Minted \ past.minted :
         /\ past' = [past EXCEPT !.minted = @ \cup {p}]
         /\ Shows("begin", {set(view, p)}, "phrase", view, [flow EXCEPT !.words = p])
  ELSE Shows("begin", {}, "phrase", view, [flow EXCEPT !.words = get(view)]) /\ UNCHANGED past

(* The phrase brought here becomes the device's, then the record says what *)
(* the app still owes: the first download.                                 *)
completeJoin(f) ==
  Does("join", {set(app.store, f.joinPhrase), WriteRecord(Join(f.joinServer))},
       Ready(app.store, f.joinPhrase), NoFlow)

toCode(f) ==
  IF f.locked THEN completeJoin(f)
  ELSE flow' = [f EXCEPT !.step = "create-code"] /\ UNCHANGED <<app, job>>

(* A form that would make the phrase before there is a code.               *)
ChooseNew_noCode ==
  On("welcome") /\ beginPhrase(app.store) /\ UNCHANGED <<store, staged, salts, device, record>>
ChooseNew ==
  /\ On("welcome")
  /\ IF flow.locked THEN beginPhrase(app.store)
     ELSE flow' = [flow EXCEPT !.step = "create-code"] /\ UNCHANGED <<app, job, past>>
  /\ UNCHANGED <<store, staged, salts, device, record>>

ChooseJoin == On("welcome") /\ Turns([flow EXCEPT !.mode = "join", !.step = "join-method"])

CreateCode(code) ==
  /\ On("create-code") /\ ~flow.locked /\ isUnlockCodeValid(code) /\ DrawsSalt
  /\ Does("enable", enableDeviceLock(code), InFlow([code |-> code, salt |-> salts + 1]),
          [flow EXCEPT !.locked = TRUE])
  /\ UNCHANGED <<store, staged, device, record, past>>

CodeCreated ==
  /\ On("create-code") /\ flow.locked
  /\ IF flow.mode = "join" THEN completeJoin(flow) /\ UNCHANGED past ELSE beginPhrase(app.store)
  /\ UNCHANGED <<store, staged, salts, device, record>>

Back ==
  \/ On("create-code") /\ ~flow.locked
     /\ Goes(IF flow.mode # "join" THEN "welcome"
             ELSE IF flow.joinPhrase # None /\ flow.invited THEN "join-received" ELSE "join-server")
  \/ On("phrase") /\ Goes("welcome")
  \/ On("check") /\ Shows("back", {}, "phrase", app.store, flow) /\ OnlyScreen
  \/ On("join-method") /\ Turns([flow EXCEPT !.mode = "new", !.step = "welcome"])
  \/ \E step \in {"join-phrase", "join-scan"} : On(step) /\ Goes("join-method")
  \/ On("join-server") /\ Goes("join-phrase")
  \/ On("join-code") /\ \E step \in {"join-scan", "join-method"} : Goes(step)
  \/ On("join-compare") /\ Turns([flow EXCEPT !.joiner = FALSE, !.step = "join-method"])

Reveal ==
  /\ On("phrase") /\ ~flow.revealed /\ flow' = [flow EXCEPT !.revealed = TRUE]
  /\ past' = [past EXCEPT !.revealed = @ \cup {flow.words}]
  /\ UNCHANGED <<store, staged, salts, device, record, app, job>>

WrittenDown ==
  On("phrase") /\ flow.revealed /\ Shows("written", {}, "check", app.store, flow) /\ OnlyScreen

(* checkNext with every word right, or skipCheck.                          *)
CheckNext == On("check") /\ Shows("checked", {}, "server", app.store, flow) /\ OnlyScreen

OnServer == On("server") \/ On("join-server")

SetAddress(server) ==
  /\ OnServer /\ device.fixed = None
  /\ Turns([unasked(flow) EXCEPT !.address = server])

CheckServer ==
  /\ OnServer /\ flow.address # None /\ flow.status \in {"idle", "refused", "empty"}
  /\ Turns(checkServer(flow))

(* Whoever is asked answers when they like; only the last question counts. *)
ServerAnswers(status) ==
  /\ app.at = "flow" /\ flow.asked # None
  /\ flow' = [flow EXCEPT !.asked = None, !.status = status, !.about = flow.asked]
  /\ past' = IF status = "found" THEN [past EXCEPT !.vouched = @ \cup {flow.asked}] ELSE past
  /\ UNCHANGED <<store, staged, salts, device, record, app, job>>

Finish(withServer) ==
  /\ On("server")
  /\ IF withServer THEN flow.status \in {"found", "empty"} ELSE device.fixed = None
  /\ Does("finish", {WriteRecord(IF withServer THEN Connect(flow.address) ELSE NoRecord)},
          Ready(app.store, get(app.store)), NoFlow)
  /\ OnlyScreen

JoinByPhrase == On("join-method") /\ Goes("join-phrase")

(* A form that would keep the answer across Back and Next.                 *)
showJoinServer_keeps(f) == [f EXCEPT !.step = "join-server"]
showJoinServer(f) ==
  IF device.fixed = None THEN [unasked(f) EXCEPT !.step = "join-server"]
  ELSE checkServer([f EXCEPT !.step = "join-server", !.address = device.fixed])

PhraseNext(phrase) ==
  /\ On("join-phrase")
  /\ Turns(showJoinServer([flow EXCEPT !.joinPhrase = phrase, !.invited = FALSE]))

(* A form that would go on with a server that holds no vault.              *)
ServerNext_empty ==
  /\ On("join-server") /\ flow.status \in {"found", "empty"}
  /\ toCode([flow EXCEPT !.joinServer = flow.address]) /\ OnlyScreen
ServerNext ==
  /\ On("join-server") /\ flow.status = "found"
  /\ toCode([flow EXCEPT !.joinServer = flow.address]) /\ OnlyScreen

JoinByInvitation == On("join-method") /\ \E step \in {"join-scan", "join-code"} : Goes(step)
EnterCodeManually == On("join-scan") /\ Goes("join-code")

(* scanned and inviteNext.                                                 *)
StartJoiner ==
  /\ On("join-scan") \/ On("join-code")
  /\ Turns([flow EXCEPT !.joiner = TRUE, !.step = "join-compare"])

PayloadArrives(phrase, server) ==
  /\ app.at = "flow" /\ ~Writing /\ flow.joiner
  /\ LET at == IF device.fixed = None THEN server ELSE device.fixed
     IN /\ flow' = [flow EXCEPT !.joinPhrase = phrase, !.joinServer = at, !.invited = TRUE,
                                !.joiner = FALSE, !.step = "join-received"]
        /\ past' = [past EXCEPT !.vouched = @ \cup {<<at, phrase>>}]
  /\ UNCHANGED <<store, staged, salts, device, record, app, job>>

ReceivedNext == On("join-received") /\ toCode(flow) /\ OnlyScreen

-----------------------------------------------------------------------------
(* The app, as far as the store and the record go.                         *)

Running == app.at = "running" /\ ~Writing

(* Sync has taken over what the record said.                               *)
EntryAdopted ==
  /\ Running /\ record.kind \in {"connect", "join"} /\ record' = NoRecord
  /\ UNCHANGED <<store, staged, salts, device, app, flow, job, past>>

(* Settings, Security; each ends in a reload.                              *)
ChangeCode(code, newCode) ==
  /\ Running /\ hasVerifier(store) /\ opens(store, code) /\ isUnlockCodeValid(newCode) /\ DrawsSalt
  /\ Does("change", changeUnlockCode(newCode), Closed, NoFlow)
  /\ UNCHANGED <<store, staged, device, record, past>>

LockDevice(code) ==
  /\ Running /\ ~hasVerifier(store) /\ isUnlockCodeValid(code) /\ DrawsSalt
  /\ Does("enable", enableDeviceLock(code), Closed, NoFlow)
  /\ UNCHANGED <<store, staged, device, record, past>>

RemoveLock(code) ==
  /\ Running /\ hasVerifier(store) /\ opens(store, code) /\ ~device.required
  /\ Does("disable", disableDeviceLock, Closed, NoFlow)
  /\ OnlyScreen

ReplaceIdentity(phrase) ==
  /\ Running /\ phrase # get(app.store)
  /\ Does("replace", {set(app.store, phrase)}, Closed, NoFlow)
  /\ OnlyScreen

-----------------------------------------------------------------------------
Gates ==
  \/ Boot \/ Opened \/ Erase
  \/ \E code \in Codes : Unlock(code) \/ SetupLock(code)

NewVault ==
  \/ ChooseNew \/ CodeCreated \/ Back \/ Reveal \/ WrittenDown \/ CheckNext \/ CheckServer
  \/ \E code \in Six : CreateCode(code)
  \/ \E server \in Server : SetAddress(server)
  \/ \E status \in {"found", "empty", "refused"} : ServerAnswers(status)
  \/ \E withServer \in BOOLEAN : Finish(withServer)

Joining ==
  \/ ChooseJoin \/ JoinByPhrase \/ ServerNext \/ JoinByInvitation \/ EnterCodeManually
  \/ StartJoiner \/ ReceivedNext
  \/ \E phrase \in Brought : PhraseNext(phrase) \/ \E server \in Server : PayloadArrives(phrase, server)

Settings ==
  \/ EntryAdopted
  \/ \E code \in Codes : \E newCode \in Six : ChangeCode(code, newCode)
  \/ \E code \in Codes : LockDevice(code) \/ RemoveLock(code)
  \/ \E phrase \in Brought : ReplaceIdentity(phrase)

Next == Write \/ Kill \/ CloseApp \/ Gates \/ NewVault \/ Joining \/ Settings

Spec == Init /\ [][Next]_vars
-----------------------------------------------------------------------------
Step == {"welcome", "create-code", "phrase", "check", "server", "join-method", "join-phrase",
         "join-server", "join-scan", "join-code", "join-compare", "join-received"}

(* Every variable keeps its type.                                          *)
TypeOK ==
  /\ \A area \in {store, staged} :
       /\ area[SALT_ENTRY] \in 1 .. salts \cup {None}
       /\ area[Identity] \in Phrase \cup Ciphertext \cup {None}
       /\ area[CHECK_ENTRY] \in Ciphertext \cup {None}
       /\ area[CODE_SHAPE_ENTRY] \in {DIGITS_6, None}
  /\ salts \in 0 .. MaxSalts
  /\ record.kind \in {"none", "new", "connect", "join"}
  /\ record.server \in Server \cup {None} /\ record.step \in {"phrase", "check", "server", None}
  /\ app.at \in {"closed", "unlock", "opened", "setup", "flow", "running", "failed"}
  /\ app.store = Plain \/ app.store \in [code : Codes, salt : 1 .. salts]
  /\ flow.step \in Step /\ flow.joinPhrase \in Brought \cup {None}
  /\ past.kills \in 0 .. MaxKills

(* What the reserved entries say of a store is so between any two writes:  *)
(* one without a verifier holds no ciphertext (promoteStaged's verifier    *)
(* first; only an erase passes through that), and the marker never says    *)
(* six digits of a lock under a longer code.                               *)
ReservedEntriesTrue ==
  /\ ~hasVerifier(store) /\ "reset" \notin past.torn \cup {job.does}
       => store[Identity] \in Phrase \cup {None}
  /\ hasVerifier(store) /\ getCodeShape(store) = "digits-6" => store[CHECK_ENTRY].code \in Six

(* On a build that requires the lock, a device set up by the first run     *)
(* never holds a phrase in the clear, not even in the staging area.        *)
PhraseNeverInClear ==
  device.required /\ past.fresh
    => store[Identity] \notin Phrase /\ staged[Identity] \notin Phrase

(* Some code opens the device and reads its phrase, or it needs none.      *)
Readable(area) ==
  IF hasVerifier(area) THEN \E code \in Codes : opens(area, code) /\ decrypts(area, code)
  ELSE area[Identity] \in Phrase \cup {None}

(* Between two taps the device is readable, also after an operation on the *)
(* lock that was cut short before it touched a real entry.                 *)
LockKept ==
  ~Writing /\ past.torn \cap {"enable", "change", "disable", "reset"} = {} => Readable(store)

(* However an operation on the lock was cut short, the device still holds  *)
(* its phrase and the salt of the key it is sealed under, if it is.        *)
PhraseRecoverable ==
  store[Identity] # None /\ "reset" \notin past.torn \cup {job.does}
    => \E p \in Phrase, area \in {store, staged} :
         \/ area[Identity] = p
         \/ \E code \in Codes, beside \in {store, staged} :
              area[Identity] = sealed(p, code, beside[SALT_ENTRY])

(* The status line under an address is about that address and the phrase   *)
(* it would be used with, however late its answer came.                    *)
CheckedWhatIsEntered ==
  flow.step \in {"server", "join-server"} /\ flow.status \in {"found", "empty"}
    => flow.about = asking(flow)

(* The first download is owed to a vault that was seen there under the     *)
(* phrase the device then holds, or that the inviting device named.        *)
JoinsWhatItChecked ==
  [][record'.kind = "join" /\ record # record'
       => \E p \in Phrase : get(app.store) = p /\ <<record'.server, p>> \in past.vouched]_vars

(* The app never runs on a phrase made here that was never on screen,      *)
(* unless it was killed between that phrase's write and the record's.      *)
PhraseSeen ==
  app.at = "running" /\ get(app.store) \in past.minted
    => get(app.store) \in past.revealed \/ "begin" \in past.torn

(* What entry-flow.ts says of the order of writes: a restart resumes at    *)
(* the screen the person had not finished rather than skipping past it.    *)
ResumesUnfinished ==
  app.at = "running" /\ get(app.store) \in past.minted => get(app.store) \in past.revealed

(* What device-lock.ts says of a promotion: nothing after it needs to run  *)
(* for the device to still be readable.                                    *)
AlwaysReadable == "reset" \notin past.torn \cup {job.does} => Readable(store)
=============================================================================
