-------------------------- MODULE SyncSessionProofs -------------------------
(***************************************************************************)
(* What holds of SyncSession for any addresses, any entry record and any   *)
(* number of rounds, saves and boots.  Operators on the extension's state  *)
(* first, then one step per action.                                        *)
(***************************************************************************)
EXTENDS SyncSession, FiniteSetTheorems, TLAPS

(* A round that starts leaves the remote and the hooks alone. *)
LEMMA RunRound ==
  ASSUME NEW e \in Extension, Free(e) # {}
  PROVE  runRound(e) \in Extension /\ runRound(e).engine = e.engine
<1>1. PICK s \in Slot : s = (CHOOSE t \in Free(e) : TRUE)
  BY DEF Free
<1> QED
  BY <1>1 DEF runRound, Extension

(* sync() keeps the type of the extension's state, and its remote. *)
LEMMA SyncTyped ==
  ASSUME NEW e \in Extension, Free(e) # {}
  PROVE  sync(e) \in Extension /\ sync(e).engine = e.engine
  BY RunRound DEF sync

(* So does what follows a download's own round. *)
LEMMA RoundOver ==
  ASSUME NEW e \in Extension
  PROVE  roundOver(e) \in Extension /\ roundOver(e).engine = e.engine
  BY DEF roundOver, Extension, NotWaiting

(* And the own round itself, run or refused. *)
LEMMA OwnRound ==
  ASSUME NEW e \in Extension, Free(e) # {}
  PROVE  ownRound(e) \in Extension /\ ownRound(e).engine = e.engine
<1>1. sync(e) \in Extension /\ sync(e).engine = e.engine
  BY SyncTyped
<1> DEFINE r == sync(e)
           w == [r EXCEPT !.waits = [at |-> "own", on |-> r.round]]
<1>2. w \in Extension /\ w.engine = r.engine
  BY <1>1 DEF Extension
<1> QED
  BY <1>1, <1>2, RoundOver DEF ownRound

(* downloadVault() keeps the remote it finds. *)
LEMMA DownloadTyped ==
  ASSUME NEW e \in Extension, Free(e) # {}
  PROVE  downloadVault(e) \in Extension /\ downloadVault(e).engine = e.engine
<1> DEFINE r == [e EXCEPT !.download = "running"]
           w == [r EXCEPT !.waits = [at |-> "earlier", on |-> r.round]]
<1>1. r \in Extension /\ r.engine = e.engine /\ Free(r) # {}
  BY DEF Extension, Free
<1>2. w \in Extension /\ w.engine = r.engine
  BY <1>1 DEF Extension
<1>3. firstRound(r) \in Extension /\ firstRound(r).engine = r.engine
  BY <1>1, <1>2, OwnRound DEF firstRound
<1>4. [e EXCEPT !.download = "waiting"] \in Extension
  BY DEF Extension
<1>5. [e EXCEPT !.download = "waiting"].engine = e.engine
  BY DEF Extension
<1> QED
  BY <1>1, <1>3, <1>4, <1>5 DEF downloadVault

(* A round that settles frees its slot, whoever goes on then. *)
LEMMA SettledTyped ==
  ASSUME NEW e \in Extension, NEW s \in Slot
  PROVE  settled(e, s) \in Extension /\ settled(e, s).engine = e.engine
<1> DEFINE r == [e EXCEPT !.rounds[s] = "free",
                          !.round = IF @ = s THEN None ELSE @]
<1>1. r \in Extension /\ r.engine = e.engine
  BY DEF Extension
<1>2. s \in Free(r)
  BY DEF Extension, Free
<1>3. ownRound(r) \in Extension /\ ownRound(r).engine = r.engine
  BY <1>1, <1>2, OwnRound
<1>4. roundOver(r) \in Extension /\ roundOver(r).engine = r.engine
  BY <1>1, RoundOver
<1> QED
  BY <1>1, <1>3, <1>4 DEF settled

(* A rebuilt remote is one the address names, or none. *)
LEMMA RebuiltTyped ==
  ASSUME NEW e \in Extension, Free(e) # {}, NEW url \in Address
  PROVE  rebuilt(e, url) \in Extension
<1> DEFINE b == [e EXCEPT !.engine = url, !.owed = TRUE]
<1>1. [e EXCEPT !.engine = None, !.owed = FALSE] \in Extension
  BY DEF Extension
<1>2. CASE url # NoServer
  <2>1. b \in Extension
    BY <1>2 DEF Extension, Address
  <2>2. Free(b) # {}
    BY DEF Extension, Free
  <2>3. downloadVault(b) \in Extension /\ sync(b) \in Extension
    BY <2>1, <2>2, DownloadTyped, SyncTyped
  <2> QED
    BY <1>1, <2>3 DEF rebuilt
<1> QED
  BY <1>1, <1>2 DEF rebuilt

(* applyConfig keeps types, and does nothing once the plugin is stopping. *)
LEMMA ApplyTyped ==
  ASSUME TypeOK, NEW url \in Address, applyConfig(url)
  PROVE  /\ lastServerUrl' \in Address \cup {None}
         /\ armed' \in BOOLEAN
         /\ ext' \in Extension
         /\ phase # "up" => UNCHANGED <<lastServerUrl, armed, ext>>
<1>1. CASE phase # "up"
  BY <1>1 DEF applyConfig, TypeOK
<1>2. CASE phase = "up"
  <2>1. ext \in Extension /\ Free(ext) # {}
    BY <1>2 DEF applyConfig, TypeOK
  <2>2. rebuilt(ext, url) \in Extension
    BY <2>1, RebuiltTyped
  <2> QED
    BY <1>2, <2>1, <2>2 DEF applyConfig
<1> QED
  BY <1>1, <1>2

(* The failures and ends of a first download keep the remote. *)
LEMMA DownloadEnds ==
  ASSUME NEW e \in Extension
  PROVE  /\ failInitialDownload(e) \in Extension
         /\ failInitialDownload(e).engine = e.engine
         /\ bringUpFailed(e) \in Extension
         /\ bringUpFailed(e).engine = e.engine
         /\ Completed(e) \in Extension /\ Completed(e).engine = e.engine
         /\ NotFinished(e) \in Extension /\ NotFinished(e).engine = e.engine
<1> DEFINE f == [e EXCEPT !.status = "error", !.overwritten = @ \/ Running(e) # {}]
<1>1. f \in Extension /\ f.engine = e.engine
  BY DEF Extension
<1>2. \A x \in Extension : /\ [x EXCEPT !.download = "failed"] \in Extension
                           /\ [x EXCEPT !.download = "failed"].engine = x.engine
  BY DEF Extension
<1>3. \A x \in Extension : /\ failInitialDownload(x) \in Extension
                           /\ failInitialDownload(x).engine = x.engine
  BY <1>2 DEF failInitialDownload
<1>4. bringUpFailed(e) = failInitialDownload(f)
  BY DEF bringUpFailed
<1>5. Completed(e) \in Extension /\ Completed(e).engine = e.engine
  BY DEF Completed, NotWaiting, Extension
<1>6. NotFinished(e) \in Extension /\ NotFinished(e).engine = e.engine
  BY DEF NotFinished, NotWaiting, Extension
<1> QED
  BY <1>1, <1>3, <1>4, <1>5, <1>6
-----------------------------------------------------------------------------
(***************************************************************************)
(* The inductive invariant: with StoppedStaysDown, that the bring-up has   *)
(* settled by then, so that nothing is left that could apply a config.     *)
(***************************************************************************)
Down == StoppedStaysDown /\ (phase = "stopped" => bringUp.at = "settled")

SessionInv == TypeOK /\ Down

(* A session starts with everything off and of its type. *)
LEMMA FreshTyped ==
  ASSUME NEW kind \in {"none", "connect", "join"}
  PROVE  FreshExtension(kind) \in Extension
  BY DEF FreshExtension, Extension, NotWaiting

(* So does the bring-up. *)
LEMMA FreshBringUp ==
  [at |-> "ready", read |-> None]
    \in [at : {"ready", "read", "answered", "adopting", "settled"},
         read : Address \cup {None}]
  OBVIOUS

(* Init establishes the invariant. *)
LEMMA InitSession == Init => SessionInv
<1> SUFFICES ASSUME Init PROVE SessionInv
  OBVIOUS
<1>1. ext \in Extension
  BY FreshTyped, SessionAssumption DEF Init
<1>2. saves \in 0..MaxSaves /\ boots \in 0..MaxBoots
  BY SessionAssumption DEF Init
<1> QED
  BY <1>1, <1>2, FreshBringUp, SessionAssumption
  DEF Init, SessionInv, TypeOK, Down, StoppedStaysDown

(* The steps of startSync preserve it. *)
LEMMA BringUpStep == SessionInv /\ BringUp => SessionInv'
<1> SUFFICES ASSUME SessionInv, BringUp PROVE SessionInv'
  OBVIOUS
<1> USE DEF SessionInv
<1>e. ext \in Extension
  BY DEF TypeOK
<1>1. CASE Ready
  <2>1. ext' \in Extension /\ ext'.engine = ext.engine
    BY <1>1, <1>e, DownloadEnds DEF Ready
  <2>2. TypeOK'
    BY <1>1, <2>1 DEF Ready, Settle, TypeOK
  <2> QED
    BY <1>1, <2>1, <2>2 DEF Ready, Down, StoppedStaysDown
<1>2. CASE Read
  BY <1>2 DEF Read, TypeOK, Down, StoppedStaysDown
<1>3. CASE Answered
  <2>1. phase # "stopped" /\ phase' = phase
    BY <1>3 DEF Answered, Down
  <2>2. /\ ext' \in Extension /\ armed' \in BOOLEAN
        /\ lastServerUrl' \in Address \cup {None}
    <3>1. CASE UNCHANGED <<lastServerUrl, armed>> /\ ext' = failInitialDownload(ext)
      BY <3>1, <1>e, DownloadEnds DEF TypeOK
    <3>2. CASE UNCHANGED <<lastServerUrl, armed, ext>>
      BY <3>2 DEF TypeOK
    <3>3. ASSUME NEW url \in Address, applyConfig(url)
          PROVE  <2>2!1 /\ <2>2!2
      BY <3>3, ApplyTyped
    <3>4. bringUp.read # None => bringUp.read \in Address
      BY DEF TypeOK
    <3>5. EntryUrl \in Address
      BY SessionAssumption DEF Address
    <3> QED
      BY <1>3, <3>1, <3>2, <3>3, <3>4, <3>5 DEF Answered
  <2>3. bringUp' \in [at : {"ready", "read", "answered", "adopting", "settled"},
                      read : Address \cup {None}]
    BY <1>3 DEF Answered, Settle, TypeOK
  <2>4. entry' \in {"none", "connect", "join"}
    BY <1>3 DEF Answered, TypeOK
  <2> QED
    BY <1>3, <2>1, <2>2, <2>3, <2>4 DEF Answered, TypeOK, Down, StoppedStaysDown
<1>4. CASE Adopt
  <2>1. phase # "stopped" /\ phase' = phase
    BY <1>4 DEF Adopt, Down
  <2>2. EntryUrl \in Address
    BY SessionAssumption DEF Address
  <2>3. /\ ext' \in Extension /\ armed' \in BOOLEAN
        /\ lastServerUrl' \in Address \cup {None}
    <3>1. CASE ext' = bringUpFailed(ext) /\ UNCHANGED <<lastServerUrl, armed>>
      BY <3>1, <1>e, DownloadEnds DEF TypeOK
    <3>2. CASE written(EntryUrl)
      BY <3>2, <2>2, ApplyTyped DEF written
    <3> QED
      BY <1>4, <3>1, <3>2 DEF Adopt
  <2>4. cfg' \in Address /\ entry' \in {"none", "connect", "join"}
        /\ bootConfigPending' \in BOOLEAN
    BY <1>4, <2>2 DEF Adopt, written, TypeOK
  <2> QED
    BY <1>4, <2>1, <2>3, <2>4 DEF Adopt, Settle, TypeOK, Down, StoppedStaysDown
<1> QED
  BY <1>1, <1>2, <1>3, <1>4 DEF BringUp

(* Rounds, and what starts them, preserve it. *)
LEMMA RoundStep ==
  ASSUME SessionInv,
         \/ \E s \in Slot : RoundEnds(s) \/ RoundSettles(s)
         \/ TimerTick \/ Visible
  PROVE  SessionInv'
<1> USE DEF SessionInv
<1>e. ext \in Extension
  BY DEF TypeOK
<1>1. ext' \in Extension /\ ext'.engine = ext.engine
  <2>1. ASSUME NEW s \in Slot, RoundEnds(s) PROVE <1>1!1 /\ <1>1!2
    <3>1. over(ext, s, "idle") \in Extension /\ over(ext, s, "idle").engine = ext.engine
      BY <1>e DEF over, Extension
    <3>2. failed(ext, s) \in Extension /\ failed(ext, s).engine = ext.engine
      BY <1>e DEF failed, over, Extension
    <3> QED
      BY <2>1, <3>1, <3>2 DEF RoundEnds
  <2>2. ASSUME NEW s \in Slot, RoundSettles(s) PROVE <1>1!1 /\ <1>1!2
    BY <2>2, <1>e, SettledTyped DEF RoundSettles
  <2>3. CASE TimerTick \/ Visible
    BY <2>3, <1>e, SyncTyped DEF TimerTick, Visible
  <2> QED
    BY <2>1, <2>2, <2>3
<1>2. cfg' \in Address /\ landed' \in BOOLEAN
  BY SessionAssumption DEF RoundEnds, RoundSettles, TimerTick, Visible, TypeOK
<1>3. UNCHANGED sessionVars
  BY DEF RoundEnds, RoundSettles, TimerTick, Visible
<1> QED
  BY <1>1, <1>2, <1>3 DEF sessionVars, TypeOK, Down, StoppedStaysDown

(* The end of a first download and a retry preserve it. *)
LEMMA DownloadStep == SessionInv /\ (FinishReads \/ FinishWrites \/ Retry) => SessionInv'
<1> SUFFICES ASSUME SessionInv, FinishReads \/ FinishWrites \/ Retry
             PROVE  SessionInv'
  OBVIOUS
<1> USE DEF SessionInv
<1>e. ext \in Extension
  BY DEF TypeOK
<1>1. CASE FinishReads
  <2>1. /\ [ext EXCEPT !.waits.at = "write"] \in Extension
        /\ [ext EXCEPT !.waits.at = "write"].engine = ext.engine
    BY <1>e DEF Extension
  <2>2. ext' \in Extension /\ ext'.engine = ext.engine
    BY <1>1, <2>1, <1>e, DownloadEnds DEF FinishReads
  <2>3. entry' \in {"none", "connect", "join"}
    BY <1>1 DEF FinishReads, TypeOK
  <2> QED
    BY <1>1, <2>2, <2>3 DEF FinishReads, TypeOK, Down, StoppedStaysDown
<1>2. CASE FinishWrites
  <2>1. EntryUrl \in Address
    BY SessionAssumption DEF Address
  <2>2. Free(ext) # {} => rebuilt(ext, EntryUrl) \in Extension
    BY <1>e, <2>1, RebuiltTyped
  <2>3. ext' \in Extension
    BY <1>2, <1>e, <2>2, DownloadEnds DEF FinishWrites
  <2>4. phase # "up" => ext'.engine = ext.engine /\ UNCHANGED <<lastServerUrl, armed>>
    BY <1>2, <1>e, DownloadEnds DEF FinishWrites
  <2>5. /\ cfg' \in Address /\ entry' \in {"none", "connect", "join"}
        /\ bootConfigPending' \in BOOLEAN /\ armed' \in BOOLEAN
        /\ lastServerUrl' \in Address \cup {None}
    BY <1>2, <2>1 DEF FinishWrites, TypeOK
  <2> QED
    BY <1>2, <2>3, <2>4, <2>5 DEF FinishWrites, TypeOK, Down, StoppedStaysDown
<1>3. CASE Retry
  <2>1. ext' \in Extension /\ ext'.engine = ext.engine
    BY <1>3, <1>e, DownloadTyped DEF Retry
  <2>2. /\ lastServerUrl' \in Address \cup {None} /\ bootConfigPending' \in BOOLEAN
        /\ bringUp' \in [at : {"ready", "read", "answered", "adopting", "settled"},
                         read : Address \cup {None}]
    BY <1>3, FreshBringUp DEF Retry, TypeOK
  <2> QED
    BY <1>3, <2>1, <2>2 DEF Retry, TypeOK, Down, StoppedStaysDown
<1> QED
  BY <1>1, <1>2, <1>3

(* Saves, the end of a session and the next one preserve it. *)
LEMMA SessionStep ==
  ASSUME SessionInv,
         \/ \E url \in Address : Save(url)
         \/ SaveNotifies \/ StopBegins \/ StopEnds \/ Reboot
  PROVE  SessionInv'
<1> USE DEF SessionInv
<1>e. ext \in Extension
  BY DEF TypeOK
<1>1. ASSUME NEW url \in Address, Save(url) PROVE SessionInv'
  BY <1>1, SessionAssumption DEF Save, TypeOK, Down, StoppedStaysDown
<1>2. CASE SaveNotifies
  <2>1. cfg \in Address /\ applyConfig(cfg)
    BY <1>2 DEF SaveNotifies, written, TypeOK
  <2>2. /\ lastServerUrl' \in Address \cup {None}
        /\ armed' \in BOOLEAN
        /\ ext' \in Extension
        /\ phase # "up" => UNCHANGED <<lastServerUrl, armed, ext>>
    BY <2>1, ApplyTyped
  <2> QED
    BY <1>2, <2>2 DEF SaveNotifies, written, TypeOK, Down, StoppedStaysDown
<1>3. CASE StopBegins
  BY <1>3 DEF StopBegins, TypeOK, Down, StoppedStaysDown
<1>4. CASE StopEnds
  <2>1. ext' \in Extension /\ ext'.engine = None
    BY <1>4, <1>e DEF StopEnds, Extension
  <2> QED
    BY <1>4, <2>1 DEF StopEnds, TypeOK, Down, StoppedStaysDown
<1>5. CASE Reboot
  <2>1. FreshExtension(entry) \in Extension
    BY FreshTyped DEF TypeOK
  <2>2. boots' \in 0..MaxBoots
    BY <1>5, SessionAssumption DEF Reboot, TypeOK
  <2> QED
    BY <1>5, <2>1, <2>2, FreshBringUp DEF Reboot, TypeOK, Down, StoppedStaysDown
<1> QED
  BY <1>1, <1>2, <1>3, <1>4, <1>5

(* The invariant holds of every reachable state. *)
LEMMA SessionInvariant == Spec => []SessionInv
<1>1. SessionInv /\ UNCHANGED vars => SessionInv'
  BY DEF SessionInv, TypeOK, Down, StoppedStaysDown, vars
<1>2. SessionInv /\ [Next]_vars => SessionInv'
  BY <1>1, BringUpStep, RoundStep, DownloadStep, SessionStep DEF Next
<1> QED
  BY InitSession, <1>2, PTL DEF Spec

(* Every variable keeps its type, whatever the addresses and bounds. *)
THEOREM SessionTypeCorrect == Spec => []TypeOK
<1>1. SessionInv => TypeOK
  BY DEF SessionInv
<1> QED
  BY SessionInvariant, <1>1, PTL

(* Once stop() has answered, no save, round or download under way builds a
   remote or arms the timer again. *)
THEOREM StoppedForGood == Spec => []StoppedStaysDown
<1>1. SessionInv => StoppedStaysDown
  BY DEF SessionInv, Down
<1> QED
  BY SessionInvariant, <1>1, PTL
-----------------------------------------------------------------------------
(***************************************************************************)
(* That the latest save is the one applied.  Three facts make it           *)
(* inductive: a device that is joining is held, so nobody saves; what the  *)
(* boot has read is current unless a save has told it otherwise; and the   *)
(* remote is the one the settings name, or the one the join runs on.       *)
(***************************************************************************)
Held(e) == e.hooks /\ e.download \notin {"none", "done"}

JoinHeld == entry = "join" => Held(ext) /\ ~saving

ReadIsCurrent ==
  (/\ bringUp.at = "answered" /\ bringUp.read # None
   /\ bootConfigPending /\ ~saving) => bringUp.read = cfg

RunsOn == IF entry = "join" /\ cfg = NoServer THEN EntryUrl ELSE cfg

RemoteIsCurrent ==
  phase = "up" /\ ~saving /\ lastServerUrl # None => lastServerUrl = RunsOn

ConfigInv == JoinHeld /\ ReadIsCurrent /\ RemoteIsCurrent

(* No operator of the extension lets a held download go, but its end. *)
LEMMA StaysHeld ==
  ASSUME NEW e \in Extension, Held(e)
  PROVE  /\ Held(sync(e)) /\ Held(failInitialDownload(e)) /\ Held(bringUpFailed(e))
         /\ Held(NotFinished(e)) /\ Held(downloadVault(e))
         /\ \A s \in Slot : Held(settled(e, s)) /\ Held(failed(e, s))
         /\ \A url \in Address : Held(rebuilt(e, url))
<1>1. ASSUME NEW x \in Extension, Held(x)
      PROVE  /\ Held(sync(x)) /\ Held(roundOver(x)) /\ Held(ownRound(x))
             /\ Held(firstRound(x))
  <2>1. Held(sync(x))
    BY <1>1 DEF Held, sync, runRound, Extension
  <2>2. Held(roundOver(x))
    BY <1>1 DEF Held, roundOver, Extension
  <2>3. Held(ownRound(x))
    BY <1>1, <2>1, <2>2 DEF Held, ownRound, sync, runRound, Extension
  <2>4. Held(firstRound(x))
    BY <1>1, <2>3 DEF Held, firstRound, Extension
  <2> QED
    BY <2>1, <2>2, <2>3, <2>4
<1>2. ASSUME NEW x \in Extension, Held(x)
      PROVE  Held(downloadVault(x))
  <2> DEFINE r == [x EXCEPT !.download = "running"]
  <2>1. r \in Extension /\ Held(r)
    BY <1>2 DEF Extension, Held
  <2>2. Held([x EXCEPT !.download = "waiting"])
    BY <1>2 DEF Extension, Held
  <2> QED
    BY <1>2, <2>1, <2>2, <1>1 DEF downloadVault
<1>3. Held(failInitialDownload(e)) /\ Held(bringUpFailed(e)) /\ Held(NotFinished(e))
  BY DEF Held, failInitialDownload, bringUpFailed, NotFinished, Extension
<1>4. ASSUME NEW s \in Slot PROVE Held(settled(e, s)) /\ Held(failed(e, s))
  <2> DEFINE r == [e EXCEPT !.rounds[s] = "free",
                            !.round = IF @ = s THEN None ELSE @]
  <2>1. r \in Extension /\ Held(r)
    BY DEF Extension, Held
  <2>2. Held(failed(e, s))
    BY DEF failed, over, Held, Extension
  <2> QED
    BY <2>1, <2>2, <1>1 DEF settled
<1>5. ASSUME NEW url \in Address PROVE Held(rebuilt(e, url))
  <2> DEFINE b == [e EXCEPT !.engine = url, !.owed = TRUE]
  <2>1. Held([e EXCEPT !.engine = None, !.owed = FALSE])
    BY DEF Held, Extension
  <2>2. CASE url # NoServer
    <3>1. b \in Extension /\ Held(b)
      BY <2>2 DEF Extension, Held, Address
    <3> QED
      BY <2>1, <3>1, <1>1, <1>2 DEF rebuilt
  <2> QED
    BY <2>1, <2>2 DEF rebuilt
<1> QED
  BY <1>1, <1>2, <1>3, <1>4, <1>5

(* applyConfig holds a held download and puts the remote on the address. *)
LEMMA ApplyHolds ==
  ASSUME TypeOK, NEW url \in Address, applyConfig(url)
  PROVE  /\ Held(ext) => Held(ext')
         /\ phase = "up" => lastServerUrl' = url
  BY StaysHeld DEF applyConfig, TypeOK

(* Init establishes it: nothing is read or applied yet. *)
LEMMA InitConfig == Init => ConfigInv
<1>1. Held(FreshExtension("join"))
  BY DEF Held, FreshExtension
<1> QED
  BY <1>1 DEF Init, ConfigInv, JoinHeld, ReadIsCurrent, RemoteIsCurrent

(* Every step preserves it, if rounds bring no other settings. *)
LEMMA NextConfig ==
  ASSUME Brought = {}, SessionInv, ConfigInv, Next
  PROVE  ConfigInv'
<1>t. TypeOK /\ ext \in Extension
  BY DEF SessionInv, TypeOK
<1>u. EntryUrl \in Address /\ None \notin Address /\ EntryUrl # NoServer
  BY SessionAssumption DEF Address
<1> USE DEF ConfigInv
<1>1. CASE Ready
  <2>1. Held(ext) => Held(ext')
    BY <1>1, <1>t, StaysHeld DEF Ready
  <2> QED
    BY <1>1, <1>t, <2>1 DEF Ready, Settle, JoinHeld, ReadIsCurrent, RemoteIsCurrent, RunsOn, TypeOK
<1>2. CASE Read
  BY <1>2 DEF Read, JoinHeld, ReadIsCurrent, RemoteIsCurrent, RunsOn
<1>3. CASE Answered
  <2>1. entry' = "join" <=> entry = "join"
    BY <1>3 DEF Answered
  <2>2. ASSUME NEW url \in Address, applyConfig(url)
        PROVE  Held(ext) => Held(ext')
    BY <2>2, <1>t, ApplyHolds
  <2>3. Held(ext) => Held(failInitialDownload(ext))
    BY <1>t, StaysHeld
  <2>4. bringUp.read # None => bringUp.read \in Address
    BY <1>t DEF TypeOK
  <2>5. Held(ext) => Held(ext')
    BY <1>3, <2>2, <2>3, <2>4, <1>u DEF Answered
  <2>6. ReadIsCurrent'
    BY <1>3, <1>t DEF Answered, Settle, ReadIsCurrent, TypeOK
  <2>7. RemoteIsCurrent'
    <3>1. CASE UNCHANGED lastServerUrl
      BY <1>3, <2>1, <3>1 DEF Answered, RemoteIsCurrent, RunsOn
    <3>2. CASE ~UNCHANGED lastServerUrl
      <4> DEFINE adopted == IF entry = "join" /\ bringUp.read = NoServer
                            THEN EntryUrl ELSE bringUp.read
      <4>1. bootConfigPending /\ bringUp.read # None /\ applyConfig(adopted)
        BY <1>3, <3>2 DEF Answered
      <4>2. adopted \in Address
        BY <4>1, <2>4, <1>u
      <4>3. phase = "up" => lastServerUrl' = adopted
        BY <4>1, <4>2, <1>t, ApplyHolds
      <4>4. ~saving => bringUp.read = cfg
        BY <1>3, <4>1 DEF Answered, ReadIsCurrent
      <4> QED
        BY <1>3, <2>1, <4>3, <4>4 DEF Answered, RemoteIsCurrent, RunsOn
    <3> QED
      BY <3>1, <3>2
  <2>8. JoinHeld'
    BY <1>3, <2>1, <2>5 DEF Answered, JoinHeld
  <2> QED
    BY <2>6, <2>7, <2>8
<1>4. CASE Adopt
  <2>1. CASE ext' = bringUpFailed(ext) /\ UNCHANGED <<cfg, entry, lastServerUrl>>
    BY <1>4, <2>1, <1>t, StaysHeld
    DEF Adopt, Settle, JoinHeld, ReadIsCurrent, RemoteIsCurrent, RunsOn
  <2>2. CASE cfg' = EntryUrl /\ entry' = "none" /\ written(EntryUrl)
    <3>1. phase = "up" => lastServerUrl' = EntryUrl
      BY <2>2, <1>t, <1>u, ApplyHolds DEF written
    <3> QED
      BY <1>4, <2>2, <3>1
      DEF Adopt, Settle, JoinHeld, ReadIsCurrent, RemoteIsCurrent, RunsOn
  <2> QED
    BY <1>4, <2>1, <2>2 DEF Adopt
<1>5. ASSUME NEW s \in Slot, RoundEnds(s) \/ RoundSettles(s) PROVE ConfigInv'
  <2>1. UNCHANGED sessionVars /\ UNCHANGED cfg
    BY <1>5 DEF RoundEnds, RoundSettles
  <2>2. Held(ext) => Held(over(ext, s, "idle"))
    BY <1>t DEF over, Held, Extension
  <2>3. Held(ext) => Held(ext')
    BY <1>5, <2>2, <1>t, StaysHeld DEF RoundEnds, RoundSettles
  <2> QED
    BY <2>1, <2>3 DEF sessionVars, JoinHeld, ReadIsCurrent, RemoteIsCurrent, RunsOn
<1>6. CASE TimerTick \/ Visible
  <2>1. UNCHANGED sessionVars /\ UNCHANGED cfg /\ ext' = sync(ext)
    BY <1>6 DEF TimerTick, Visible
  <2>2. Held(ext) => Held(ext')
    BY <2>1, <1>t, StaysHeld
  <2> QED
    BY <2>1, <2>2 DEF sessionVars, JoinHeld, ReadIsCurrent, RemoteIsCurrent, RunsOn
<1>7. CASE FinishReads
  <2>1. entry' = "join" => entry = "join" /\ (Held(ext) => Held(ext'))
    <3>1. Held(ext) => Held([ext EXCEPT !.waits.at = "write"])
      BY <1>t DEF Held, Extension
    <3> QED
      BY <1>7, <3>1, <1>t, StaysHeld DEF FinishReads
  <2>2. RunsOn' = RunsOn
    BY <1>7 DEF FinishReads, RunsOn
  <2> QED
    BY <1>7, <2>1, <2>2 DEF FinishReads, JoinHeld, ReadIsCurrent, RemoteIsCurrent
<1>8. CASE FinishWrites
  <2>1. CASE ext' = NotFinished(ext) /\ UNCHANGED <<cfg, entry, bootConfigPending, lastServerUrl>>
    BY <1>8, <2>1, <1>t, StaysHeld
    DEF FinishWrites, JoinHeld, ReadIsCurrent, RemoteIsCurrent, RunsOn
  <2>2. CASE /\ cfg' = EntryUrl /\ entry' = "none" /\ bootConfigPending' = FALSE
             /\ phase = "up" => lastServerUrl' = EntryUrl
    BY <1>8, <2>2 DEF FinishWrites, JoinHeld, ReadIsCurrent, RemoteIsCurrent, RunsOn
  <2> QED
    BY <1>8, <2>1, <2>2 DEF FinishWrites
<1>9. CASE Retry
  BY <1>9, <1>t, StaysHeld DEF Retry, JoinHeld, ReadIsCurrent, RemoteIsCurrent, RunsOn
<1>10. ASSUME NEW url \in Address, Save(url) PROVE ConfigInv'
  BY <1>10 DEF Save, JoinHeld, Held, ReadIsCurrent, RemoteIsCurrent
<1>11. CASE SaveNotifies
  <2>1. cfg \in Address /\ applyConfig(cfg) /\ bootConfigPending' = FALSE
    BY <1>11, <1>t DEF SaveNotifies, written, TypeOK
  <2>2. phase = "up" => lastServerUrl' = cfg
    BY <2>1, <1>t, ApplyHolds
  <2> QED
    BY <1>11, <2>1, <2>2 DEF SaveNotifies, JoinHeld, ReadIsCurrent, RemoteIsCurrent, RunsOn
<1>12. CASE StopBegins \/ StopEnds
  <2>1. Held(ext) => Held(ext')
    BY <1>12, <1>t DEF StopBegins, StopEnds, Held, Extension
  <2> QED
    BY <1>12, <2>1 DEF StopBegins, StopEnds, JoinHeld, ReadIsCurrent, RemoteIsCurrent
<1>13. CASE Reboot
  <2>1. Held(FreshExtension("join"))
    BY DEF Held, FreshExtension
  <2> QED
    BY <1>13, <2>1 DEF Reboot, JoinHeld, ReadIsCurrent, RemoteIsCurrent
<1> QED
  BY <1>1, <1>2, <1>3, <1>4, <1>5, <1>6, <1>7, <1>8, <1>9, <1>10, <1>11, <1>12, <1>13
  DEF Next, BringUp

(* Whatever the boot read and whenever a save landed, the remote ends up on
   the address the settings name (TH-24-01). *)
THEOREM LatestConfigWins ==
  ASSUME Brought = {}
  PROVE  Spec => []LatestConfigApplied
<1>1. ConfigInv /\ UNCHANGED vars => ConfigInv'
  BY DEF ConfigInv, JoinHeld, Held, ReadIsCurrent, RemoteIsCurrent, RunsOn, vars
<1>2. SessionInv /\ ConfigInv /\ [Next]_vars => ConfigInv'
  BY <1>1, NextConfig
<1>3. ConfigInv => LatestConfigApplied
  BY DEF ConfigInv, RemoteIsCurrent, RunsOn, LatestConfigApplied
<1> QED
  BY InitConfig, SessionInvariant, <1>2, <1>3, PTL DEF Spec
-----------------------------------------------------------------------------
(***************************************************************************)
(* That rounds run one at a time: a running round is the one in            *)
(* this.round and the status says so, unless a failed bring-up has         *)
(* overwritten what the status said of it.                                 *)
(***************************************************************************)
Solo(e) == ~e.overwritten => \A s \in Slot : e.rounds[s] = "running" =>
                             e.round = s /\ e.status = "syncing"

SoloInv == Solo(ext)

(* No operator of the extension starts a second round. *)
LEMMA StaysSolo ==
  ASSUME NEW e \in Extension, Solo(e), Free(e) # {}
  PROVE  /\ Solo(sync(e)) /\ Solo(downloadVault(e))
         /\ \A url \in Address : Solo(rebuilt(e, url))
<1>1. ASSUME NEW x \in Extension, Solo(x), Free(x) # {}
      PROVE  Solo(sync(x))
  <2>1. PICK s \in Free(x) : runRound(x) = [x EXCEPT !.status = "syncing",
                 !.round = s, !.rounds[s] = "running", !.owed = FALSE]
    BY <1>1 DEF runRound
  <2>2. CASE x.status # "syncing"
    <3>1. ~x.overwritten => \A t \in Slot : x.rounds[t] # "running"
      BY <1>1, <2>2 DEF Solo
    <3> QED
      BY <1>1, <2>1, <2>2, <3>1 DEF sync, Solo, Extension, Free
  <2> QED
    BY <1>1, <2>2 DEF sync
<1>2. ASSUME NEW x \in Extension, Solo(x), Free(x) # {}
      PROVE  Solo(downloadVault(x))
  <2> DEFINE r == [x EXCEPT !.download = "running"]
             w == [sync(r) EXCEPT !.waits = [at |-> "own", on |-> sync(r).round]]
  <2>1. r \in Extension /\ Solo(r) /\ Free(r) # {}
    BY <1>2 DEF Extension, Solo, Free
  <2>2. sync(r) \in Extension /\ Solo(sync(r))
    BY <2>1, <1>1, SyncTyped
  <2>3. Solo(w)
    BY <2>2 DEF Solo, Extension
  <2>4. Solo(roundOver(r))
    BY <2>1 DEF Solo, Extension, roundOver
  <2>5. Solo(ownRound(r))
    BY <2>3, <2>4 DEF ownRound
  <2>6. Solo([r EXCEPT !.waits = [at |-> "earlier", on |-> r.round]])
    BY <2>1 DEF Solo, Extension
  <2>7. Solo([x EXCEPT !.download = "waiting"])
    BY <1>2 DEF Solo, Extension
  <2> QED
    BY <1>2, <2>5, <2>6, <2>7 DEF downloadVault, firstRound
<1>3. ASSUME NEW url \in Address PROVE Solo(rebuilt(e, url))
  <2> DEFINE b == [e EXCEPT !.engine = url, !.owed = TRUE]
  <2>1. Solo([e EXCEPT !.engine = None, !.owed = FALSE])
    BY DEF Solo, Extension
  <2>2. CASE url # NoServer
    <3>1. b \in Extension /\ Solo(b) /\ Free(b) # {}
      BY <2>2 DEF Extension, Solo, Free, Address
    <3> QED
      BY <2>1, <3>1, <1>1, <1>2 DEF rebuilt
  <2> QED
    BY <2>1, <2>2 DEF rebuilt
<1> QED
  BY <1>1, <1>2, <1>3

(* A round that settles was over: whoever goes on may run the next one. *)
LEMMA SettlesSolo ==
  ASSUME NEW e \in Extension, Solo(e), NEW s \in Slot, e.rounds[s] = "refreshing"
  PROVE  Solo(settled(e, s))
<1> DEFINE r == [e EXCEPT !.rounds[s] = "free",
                          !.round = IF @ = s THEN None ELSE @]
<1>1. r \in Extension /\ Solo(r) /\ Free(r) # {}
  BY DEF Extension, Solo, Free
<1>2. sync(r) \in Extension /\ Solo(sync(r))
  BY <1>1, StaysSolo, SyncTyped
<1>3. Solo([sync(r) EXCEPT !.waits = [at |-> "own", on |-> sync(r).round]])
  BY <1>2 DEF Solo, Extension
<1>4. Solo(roundOver(r))
  BY <1>1 DEF Solo, Extension, roundOver
<1>5. Solo(ownRound(r))
  BY <1>3, <1>4 DEF ownRound
<1> QED
  BY <1>1, <1>4, <1>5 DEF settled

(* A round that is over leaves the others as they were; when it was the only
   one running, nothing is overwritten any more. *)
LEMMA OverSolo ==
  ASSUME NEW e \in Extension, Solo(e), NEW s \in Slot, e.rounds[s] = "running",
         NEW status \in {"idle", "error"}
  PROVE  Solo(over(e, s, status))
<1> DEFINE r == over(e, s, status)
<1>1. /\ r.overwritten = (e.overwritten /\ Running(e) # {s})
      /\ \A t \in Slot : r.rounds[t] = "running" <=> t # s /\ e.rounds[t] = "running"
  BY DEF over, Extension
<1> HIDE DEF r
<1>2. CASE ~e.overwritten
  <2>1. \A t \in Slot : e.rounds[t] = "running" => t = s
    BY <1>2 DEF Solo
  <2> QED
    BY <1>1, <2>1 DEF Solo, r
<1>3. CASE Running(e) = {s}
  <2>1. \A t \in Slot : e.rounds[t] = "running" => t = s
    BY <1>3 DEF Running
  <2> QED
    BY <1>1, <2>1 DEF Solo, r
<1>4. CASE e.overwritten /\ Running(e) # {s}
  BY <1>1, <1>4 DEF Solo, r
<1> QED
  BY <1>2, <1>3, <1>4

(* A bring-up that fails says so of any round that runs. *)
LEMMA FailureSolo ==
  ASSUME NEW e \in Extension, Solo(e)
  PROVE  Solo(bringUpFailed(e)) /\ Solo(failInitialDownload(e))
<1> DEFINE f == [e EXCEPT !.status = "error", !.overwritten = @ \/ Running(e) # {}]
<1>1. f \in Extension
  BY DEF Extension
<1>2. Solo(f)
  BY DEF Solo, Running, Extension
<1>3. \A x \in Extension : Solo(x) => Solo(failInitialDownload(x))
  BY DEF Solo, Extension, failInitialDownload
<1> QED
  BY <1>1, <1>2, <1>3 DEF bringUpFailed

(* Init establishes it: no round has started. *)
LEMMA InitSolo == Init => SoloInv
  BY DEF Init, SoloInv, Solo, FreshExtension

(* Every step preserves it. *)
LEMMA NextSolo ==
  ASSUME SessionInv, SoloInv, Next
  PROVE  SoloInv'
<1> SUFFICES Solo(ext')
  BY DEF SoloInv
<1>s. Solo(ext)
  BY DEF SoloInv
<1>t. TypeOK /\ ext \in Extension
  BY DEF SessionInv, TypeOK
<1>u. EntryUrl \in Address /\ \A url \in Address : applyConfig(url) => Solo(ext')
  BY <1>t, <1>s, StaysSolo, SessionAssumption DEF applyConfig, Address
<1>f. Solo(NotFinished(ext)) /\ Solo(Completed(ext))
  BY <1>t, <1>s DEF Solo, Extension, NotFinished, Completed
<1>1. CASE Ready \/ Read
  BY <1>1, <1>s, <1>t, FailureSolo DEF Ready, Read
<1>2. CASE Answered
  <2>1. bringUp.read # None => bringUp.read \in Address
    BY <1>t DEF TypeOK
  <2> QED
    BY <1>2, <1>s, <1>t, <1>u, <2>1, FailureSolo DEF Answered
<1>3. CASE Adopt
  BY <1>3, <1>s, <1>t, <1>u, FailureSolo DEF Adopt, written
<1>4. ASSUME NEW s \in Slot, RoundEnds(s) \/ RoundSettles(s) PROVE Solo(ext')
  BY <1>4, <1>s, <1>t, SettlesSolo, OverSolo DEF RoundEnds, RoundSettles, failed
<1>5. CASE TimerTick \/ Visible
  BY <1>5, <1>s, <1>t, StaysSolo DEF TimerTick, Visible
<1>6. CASE FinishReads
  <2>1. Solo([ext EXCEPT !.waits.at = "write"])
    BY <1>t, <1>s DEF Solo, Extension
  <2> QED
    BY <1>6, <1>f, <2>1 DEF FinishReads
<1>7. CASE FinishWrites
  <2>1. Free(ext) # {} => Solo(Completed(rebuilt(ext, EntryUrl)))
    <3>1. Free(ext) # {} => rebuilt(ext, EntryUrl) \in Extension
                            /\ Solo(rebuilt(ext, EntryUrl))
      BY <1>t, <1>s, <1>u, StaysSolo, RebuiltTyped
    <3> QED
      BY <3>1 DEF Solo, Extension, Completed
  <2> QED
    BY <1>7, <1>f, <2>1 DEF FinishWrites
<1>8. CASE Retry
  BY <1>8, <1>s, <1>t, StaysSolo DEF Retry
<1>9. ASSUME NEW url \in Address, Save(url) PROVE Solo(ext')
  BY <1>9, <1>s DEF Save, Solo
<1>10. CASE SaveNotifies
  BY <1>10, <1>t, <1>u DEF SaveNotifies, written, TypeOK
<1>11. CASE StopBegins \/ StopEnds
  <2>1. Solo([ext EXCEPT !.engine = None, !.owed = FALSE])
    BY <1>t, <1>s DEF Solo, Extension
  <2> QED
    BY <1>11, <1>s, <2>1 DEF StopBegins, StopEnds, Solo
<1>12. CASE Reboot
  BY <1>12 DEF Reboot, FreshExtension, Solo
<1> QED
  BY <1>1, <1>2, <1>3, <1>4, <1>5, <1>6, <1>7, <1>8, <1>9, <1>10, <1>11, <1>12
  DEF Next, BringUp

(* sync() never runs two rounds at once, whatever fails and whenever settings
   are saved, but over a round whose status a failed bring-up has overwritten;
   once no round runs any more, that is made good. *)
THEOREM OneRoundAtATime == Spec => []OneRound
<1>1. SoloInv /\ UNCHANGED vars => SoloInv'
  BY DEF SoloInv, Solo, vars
<1>2. SessionInv /\ SoloInv /\ [Next]_vars => SoloInv'
  BY <1>1, NextSolo
<1>3. SoloInv => OneRound
  <2> SUFFICES ASSUME SoloInv, ~ext.overwritten PROVE Cardinality(Running(ext)) <= 1
    BY DEF OneRound
  <2>1. Running(ext) \subseteq {ext.round}
    BY DEF SoloInv, Solo, Running
  <2>2. IsFiniteSet({ext.round}) /\ Cardinality({ext.round}) = 1
    BY FS_Singleton
  <2>3. Cardinality(Running(ext)) <= 1
    BY <2>1, <2>2, FS_Subset
  <2> QED
    BY <2>3
<1> QED
  BY InitSolo, SessionInvariant, <1>2, <1>3, PTL DEF Spec
=============================================================================
