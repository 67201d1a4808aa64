---------------------------- MODULE SyncSession -----------------------------
(***************************************************************************)
(* When sync rounds run on one device (plugins/sync): SyncPlugin brings    *)
(* the remote up at boot and after every save of its settings; the         *)
(* SyncExtension runs rounds on it one at a time, and runs the first       *)
(* download of a device that joins a vault, behind which the app is held.  *)
(*                                                                         *)
(* What a round does is SyncEngine's; here it starts, succeeds or fails    *)
(* (status is set), refreshes what is pending, and settles.  JavaScript    *)
(* runs to the next await: each action is the code between two awaits that *)
(* a timer, a user or an answer can get in between.  applyConfig has no    *)
(* await, so the chain it is queued on never holds more than one.          *)
(***************************************************************************)
EXTENDS Naturals, FiniteSets

CONSTANTS
  Url,          \* addresses of sync servers
  NoServer,     \* the empty serverUrl
  None,         \* null
  EntryKinds,   \* what the entry screens may leave: "none", "connect", "join"
  EntryUrl,     \* the address in that record
  HasIdentity,  \* whether the keyring is there
  AutoSync,     \* whether autoSyncSeconds > 0
  Brought,      \* the addresses a round may bring in the synced settings
  MayFail,      \* which operations may fail
  Slot,         \* bound: rounds not settled at one time
  MaxSaves,     \* bound: saves of the sync settings
  MaxBoots      \* bound: times the app is started again

Address == Url \cup {NoServer}

ASSUME SessionAssumption ==
  /\ NoServer \notin Url /\ None \notin Address \cup Slot
  /\ EntryKinds \subseteq {"none", "connect", "join"} /\ EntryUrl \in Url
  /\ HasIdentity \in BOOLEAN /\ AutoSync \in BOOLEAN
  /\ EntryKinds \subseteq {"none"} \/ HasIdentity
  /\ Brought \subseteq Address
  /\ MayFail \subseteq {"ready", "read", "write", "round"}
  /\ IsFiniteSet(Slot) /\ Cardinality(Slot) >= 2
  /\ MaxSaves \in Nat /\ MaxBoots \in Nat

VARIABLES
  cfg,          \* serverUrl in the settings file
  entry,        \* the kind of the entry record
  (* SyncPlugin *)
  phase,        \* "up", "stopping" (stopping is set) or "stopped"
  prepared,     \* RepositoryExtension.preparation: "unknown", "ok", "failed"
  bringUp,      \* where startSync is, and the serverUrl it read
  bootConfigPending, lastServerUrl,
  armed,        \* whether the timer and the visibility listener are set
  saving,       \* whether a save has landed whose watchers have not been told
  (* SyncExtension: engine, status, this.round, the rounds not settled, the
     initial download and where downloadVault waits.  Properties only: no
     round has run on this engine yet (owed), and a failed bring-up has set the
     status while a round ran that is not over yet (overwritten). *)
  ext,
  (* Properties only, and bounds. *)
  landed, saves, boots

vars == <<cfg, entry, phase, prepared, bringUp, bootConfigPending,
          lastServerUrl, armed, saving, ext, landed, saves, boots>>

NotWaiting == [at |-> "none", on |-> None]

(* start(): expectInitialDownload on a device that is joining. *)
FreshExtension(kind) ==
  [engine |-> None, status |-> "idle", round |-> None,
   rounds |-> [s \in Slot |-> "free"], owed |-> FALSE, overwritten |-> FALSE,
   hooks |-> kind = "join",
   download |-> IF kind = "join" THEN "waiting" ELSE "none",
   waits |-> NotWaiting]

Init ==
  /\ cfg \in Address /\ entry \in EntryKinds
  /\ phase = "up" /\ prepared = "unknown"
  /\ bringUp = [at |-> "ready", read |-> None]
  /\ bootConfigPending = TRUE /\ lastServerUrl = None
  /\ armed = FALSE /\ saving = FALSE
  /\ ext = FreshExtension(entry)
  /\ landed = FALSE /\ saves = 0 /\ boots = 0

(***************************************************************************)
(* SyncExtension, as functions of its state e.                             *)
(***************************************************************************)
Free(e) == {s \in Slot : e.rounds[s] = "free"}
Running(e) == {s \in Slot : e.rounds[s] = "running"}

runRound(e) ==
  LET s == CHOOSE s \in Free(e) : TRUE
  IN  [e EXCEPT !.status = "syncing", !.round = s,
                !.rounds[s] = "running", !.owed = FALSE]

(* Mutant for OneRound: sync() that does not look at the status. *)
sync_unguarded(e) == IF e.engine = None THEN e ELSE runRound(e)

sync(e) == IF e.engine = None \/ e.status = "syncing" THEN e ELSE runRound(e)

failInitialDownload(e) ==
  IF e.hooks THEN [e EXCEPT !.download = "failed"] ELSE e

(* downloadVault after its own round: failed, or on to hooks.finish(). *)
roundOver(e) ==
  IF e.status = "error"
  THEN [e EXCEPT !.download = "failed", !.waits = NotWaiting]
  ELSE [e EXCEPT !.waits = [at |-> "finish", on |-> None]]

(* await this.sync({ full: true }), which returns at once if it may not run. *)
ownRound(e) ==
  LET r == sync(e)
  IN  IF r = e THEN roundOver(e)
      ELSE [r EXCEPT !.waits = [at |-> "own", on |-> r.round]]

firstRound(e) ==
  IF e.round # None THEN [e EXCEPT !.waits = [at |-> "earlier", on |-> e.round]]
  ELSE ownRound(e)

(* Mutant for DownloadSettles: running is set before the engine is looked at. *)
downloadVault_runningFirst(e) ==
  IF ~e.hooks \/ e.download \in {"running", "done"} THEN e
  ELSE IF e.engine = None THEN [e EXCEPT !.download = "running"]
  ELSE firstRound([e EXCEPT !.download = "running"])

downloadVault(e) ==
  IF ~e.hooks \/ e.download \in {"running", "done"} THEN e
  ELSE IF e.engine = None THEN [e EXCEPT !.download = "waiting"]
  ELSE firstRound([e EXCEPT !.download = "running"])

owesInitialDownload(e) == e.hooks /\ e.download # "done"

(* A round's promise settles, and whoever awaits it goes on. *)
settled(e, s) ==
  LET r == [e EXCEPT !.rounds[s] = "free", !.round = IF @ = s THEN None ELSE @]
  IN  IF e.waits.on # s THEN r
      ELSE IF e.waits.at = "earlier" THEN ownRound(r) ELSE roundOver(r)

(***************************************************************************)
(* SyncPlugin.                                                             *)
(***************************************************************************)
(* Mutant for TypeOK: an engine is built whatever the address is. *)
rebuilt_anyAddress(e, url) ==
  LET b == [e EXCEPT !.engine = url, !.owed = TRUE]
  IN  IF owesInitialDownload(b) THEN downloadVault(b) ELSE sync(b)

(* The engine a new address gets, and what is started on it at once. *)
rebuilt(e, url) ==
  LET b == [e EXCEPT !.engine = url, !.owed = TRUE]
  IN  IF url = NoServer \/ ~HasIdentity
      THEN [e EXCEPT !.engine = None, !.owed = FALSE]
      ELSE IF owesInitialDownload(b) THEN downloadVault(b) ELSE sync(b)

(* Mutant for StoppedStaysDown: no look at `stopping`. *)
applyConfig_always(url) ==
  /\ Free(ext) # {}
  /\ lastServerUrl' = url /\ armed' = TRUE
  /\ ext' = IF url = lastServerUrl THEN ext ELSE rebuilt(ext, url)

applyConfig(url) ==
  IF phase # "up" THEN UNCHANGED <<lastServerUrl, armed, ext>>
  ELSE /\ Free(ext) # {}      \* bound
       /\ lastServerUrl' = url /\ armed' = TRUE
       /\ ext' = IF url = lastServerUrl THEN ext ELSE rebuilt(ext, url)

(* Mutant for LatestConfigApplied: the boot is not told of the save. *)
written_bootUnaware(url) == applyConfig(url) /\ UNCHANGED bootConfigPending

(* The watcher that configure() registers. *)
written(url) == applyConfig(url) /\ bootConfigPending' = FALSE

(* Whatever the status says, also that a round is running. *)
bringUpFailed(e) ==
  failInitialDownload([e EXCEPT !.status = "error",
                                !.overwritten = @ \/ Running(e) # {}])

Settle == bringUp' = [at |-> "settled", read |-> None]

(* await repository.ready(), whose answer is kept for the whole session. *)
Ready ==
  /\ bringUp.at = "ready"
  /\ prepared' \in IF prepared # "unknown" THEN {prepared}
                   ELSE {"ok"} \cup (IF "ready" \in MayFail THEN {"failed"} ELSE {})
  /\ IF prepared' = "failed"
     THEN Settle /\ ext' = bringUpFailed(ext)
     ELSE /\ UNCHANGED ext
          /\ IF phase # "up" THEN Settle ELSE bringUp' = [bringUp EXCEPT !.at = "read"]
  /\ UNCHANGED <<cfg, entry, phase, bootConfigPending, lastServerUrl, armed,
                 saving, landed, saves, boots>>

(* await config.tryRead(), which answers null when the file cannot be read. *)
Read ==
  /\ bringUp.at = "read"
  /\ \E url \in {cfg} \cup (IF "read" \in MayFail THEN {None} ELSE {}) :
       bringUp' = [at |-> "answered", read |-> url]
  /\ UNCHANGED <<cfg, entry, phase, prepared, bootConfigPending,
                 lastServerUrl, armed, saving, ext, landed, saves, boots>>

(* Back from tryRead: nothing to do, or adoptEntryServer and applyConfig. *)
Answered ==
  /\ bringUp.at = "answered"
  /\ LET url == bringUp.read
         adopted == IF entry = "join" /\ url = NoServer THEN EntryUrl ELSE url
     IN  \/ /\ phase # "up" \/ url = None
            /\ Settle
            /\ ext' = IF phase = "up" THEN failInitialDownload(ext) ELSE ext
            /\ UNCHANGED <<entry, lastServerUrl, armed>>
         \/ /\ phase = "up" /\ url = NoServer /\ entry = "connect"
            /\ bringUp' = [bringUp EXCEPT !.at = "adopting"]
            /\ UNCHANGED <<entry, lastServerUrl, armed, ext>>
         \/ /\ phase = "up" /\ url # None
            /\ ~(url = NoServer /\ entry = "connect")
            /\ Settle
            /\ entry' = IF entry = "connect" THEN "none" ELSE entry
            /\ IF bootConfigPending THEN applyConfig(adopted)
               ELSE UNCHANGED <<lastServerUrl, armed, ext>>
  /\ UNCHANGED <<cfg, phase, prepared, bootConfigPending, saving, landed, saves, boots>>

(* adoptEntryServer writes the address of a new vault into the settings. *)
Adopt ==
  /\ bringUp.at = "adopting"
  /\ Settle
  /\ \/ /\ cfg' = EntryUrl /\ entry' = "none"
        /\ written(EntryUrl)
     \/ /\ "write" \in MayFail
        /\ ext' = bringUpFailed(ext)
        /\ UNCHANGED <<cfg, entry, bootConfigPending, lastServerUrl, armed>>
  /\ UNCHANGED <<phase, prepared, saving, landed, saves, boots>>

BringUp == Ready \/ Read \/ Answered \/ Adopt

(***************************************************************************)
(* Rounds.                                                                 *)
(***************************************************************************)
sessionVars == <<entry, phase, prepared, bringUp, bootConfigPending,
                 lastServerUrl, armed, saving, saves, boots>>

(* engine.sync() has answered for round s. *)
over(e, s, status) ==
  [e EXCEPT !.rounds[s] = "refreshing", !.status = status,
            !.overwritten = @ /\ Running(e) # {s}]

(* Mutant for EveryRemoteIsSynced: the status stays "syncing" after a failure. *)
failed_stuck(e, s) == over(e, s, e.status)

failed(e, s) == over(e, s, "error")

(* engine.sync() answers; the vault it brought may hold other settings. *)
RoundEnds(s) ==
  /\ ext.rounds[s] = "running"
  /\ \/ /\ ext' = over(ext, s, "idle")
        /\ landed' = TRUE
        /\ cfg' \in {cfg} \cup Brought
     \/ /\ "round" \in MayFail
        /\ ext' = failed(ext, s)
        /\ UNCHANGED <<cfg, landed>>
  /\ UNCHANGED sessionVars

(* refreshPending() answers, in the round's finally. *)
RoundSettles(s) ==
  /\ ext.rounds[s] = "refreshing"
  /\ ext' = settled(ext, s)
  /\ UNCHANGED <<cfg, landed, sessionVars>>

(* The interval's sync(). *)
TimerTick ==
  /\ armed /\ AutoSync /\ Free(ext) # {}
  /\ ext.engine # None /\ ext.status # "syncing"
  /\ ext' = sync(ext)
  /\ UNCHANGED <<cfg, landed, sessionVars>>

(* The sync() of the app coming to the foreground. *)
Visible ==
  /\ armed /\ Free(ext) # {}
  /\ ext' = sync(ext)
  /\ UNCHANGED <<cfg, landed, sessionVars>>

(***************************************************************************)
(* The first download.                                                     *)
(***************************************************************************)
Completed(e) ==
  [e EXCEPT !.hooks = FALSE, !.download = "done", !.waits = NotWaiting]
NotFinished(e) == [e EXCEPT !.download = "failed", !.waits = NotWaiting]

(* finishJoin: read the settings that came with the vault. *)
FinishReads ==
  /\ ext.waits.at = "finish"
  /\ \/ /\ cfg = NoServer
        /\ ext' = [ext EXCEPT !.waits.at = "write"]
        /\ UNCHANGED entry
     \/ /\ cfg # NoServer
        /\ ext' = Completed(ext) /\ entry' = "none"
     \/ /\ "read" \in MayFail
        /\ ext' = NotFinished(ext)
        /\ UNCHANGED entry
  /\ UNCHANGED <<cfg, phase, prepared, bringUp, bootConfigPending,
                 lastServerUrl, armed, saving, landed, saves, boots>>

(* finishJoin: they name no server, so write the one the join used. *)
FinishWrites ==
  /\ ext.waits.at = "write"
  /\ \/ /\ cfg' = EntryUrl /\ entry' = "none"
        /\ bootConfigPending' = FALSE
        /\ IF phase # "up"
           THEN ext' = Completed(ext) /\ UNCHANGED <<lastServerUrl, armed>>
           ELSE /\ Free(ext) # {}      \* bound
                /\ lastServerUrl' = EntryUrl /\ armed' = TRUE
                /\ ext' = Completed(IF lastServerUrl = EntryUrl THEN ext
                                    ELSE rebuilt(ext, EntryUrl))
     \/ /\ "write" \in MayFail
        /\ ext' = NotFinished(ext)
        /\ UNCHANGED <<cfg, entry, bootConfigPending, lastServerUrl, armed>>
  /\ UNCHANGED <<phase, prepared, bringUp, saving, landed, saves, boots>>

(* "Try again": download again, after bringUpAgain if there is no remote. *)
Retry ==
  /\ ext.download = "failed" /\ Free(ext) # {}
  /\ ext' = downloadVault(ext)
  /\ IF ext.engine = None /\ phase = "up"
     THEN /\ lastServerUrl' = None /\ bootConfigPending' = TRUE
          /\ bringUp' = [at |-> "ready", read |-> None]
     ELSE UNCHANGED <<lastServerUrl, bootConfigPending, bringUp>>
  /\ UNCHANGED <<cfg, entry, phase, prepared, armed, saving, landed, saves, boots>>

(***************************************************************************)
(* The user's saves, the end of a session and the next one.                *)
(***************************************************************************)
(* The app is not held, and the settings screen saves one change at a time. *)
Save(url) ==
  /\ phase = "up" /\ ext.download \in {"none", "done"} /\ ~saving
  /\ saves < MaxSaves
  /\ cfg' = url /\ saving' = TRUE /\ saves' = saves + 1
  /\ UNCHANGED <<entry, phase, prepared, bringUp, bootConfigPending,
                 lastServerUrl, armed, ext, landed, boots>>

(* notifyWritten: read the settings again and tell the watcher. *)
SaveNotifies ==
  /\ saving
  /\ saving' = FALSE
  /\ written(cfg)
  /\ UNCHANGED <<cfg, entry, phase, prepared, bringUp, landed, saves, boots>>

StopBegins ==
  /\ phase = "up"
  /\ phase' = "stopping"
  /\ UNCHANGED <<cfg, entry, prepared, bringUp, bootConfigPending,
                 lastServerUrl, armed, saving, ext, landed, saves, boots>>

(* The bring-up has settled. *)
StopEnds ==
  /\ phase = "stopping" /\ bringUp.at = "settled"
  /\ phase' = "stopped"
  /\ ext' = [ext EXCEPT !.engine = None, !.owed = FALSE]
  /\ lastServerUrl' = None /\ armed' = FALSE
  /\ UNCHANGED <<cfg, entry, prepared, bringUp, bootConfigPending, saving,
                 landed, saves, boots>>

(* The process ends, stopped or not, and the app is started again. *)
Reboot ==
  /\ boots < MaxBoots
  /\ boots' = boots + 1
  /\ phase' = "up" /\ prepared' = "unknown"
  /\ bringUp' = [at |-> "ready", read |-> None]
  /\ bootConfigPending' = TRUE /\ lastServerUrl' = None
  /\ armed' = FALSE /\ saving' = FALSE
  /\ ext' = FreshExtension(entry)
  /\ UNCHANGED <<cfg, entry, landed, saves>>

Next ==
  \/ BringUp
  \/ \E s \in Slot : RoundEnds(s) \/ RoundSettles(s)
  \/ TimerTick \/ Visible
  \/ FinishReads \/ FinishWrites \/ Retry
  \/ \E url \in Address : Save(url)
  \/ SaveNotifies
  \/ StopBegins \/ StopEnds \/ Reboot

Spec == Init /\ [][Next]_vars

(* What was asked of the disk or the network is answered, and the interval
   fires.  Users, the foreground and the end of a session owe nothing. *)
Fairness ==
  /\ WF_vars(BringUp) /\ WF_vars(SaveNotifies)
  /\ \A s \in Slot : WF_vars(RoundEnds(s)) /\ WF_vars(RoundSettles(s))
  /\ WF_vars(FinishReads \/ FinishWrites)
  /\ WF_vars(TimerTick) /\ WF_vars(StopEnds)

FairSpec == Spec /\ Fairness
-----------------------------------------------------------------------------
Extension ==
  [engine : Url \cup {None}, status : {"idle", "syncing", "error"},
   round : Slot \cup {None},
   rounds : [Slot -> {"free", "running", "refreshing"}],
   owed : BOOLEAN, overwritten : BOOLEAN, hooks : BOOLEAN,
   download : {"none", "waiting", "running", "done", "failed"},
   waits : [at : {"none", "earlier", "own", "finish", "write"},
            on : Slot \cup {None}]]

(* Every variable keeps its type. *)
TypeOK ==
  /\ cfg \in Address /\ entry \in {"none", "connect", "join"}
  /\ phase \in {"up", "stopping", "stopped"}
  /\ prepared \in {"unknown", "ok", "failed"}
  /\ bringUp \in [at : {"ready", "read", "answered", "adopting", "settled"},
                  read : Address \cup {None}]
  /\ bootConfigPending \in BOOLEAN /\ lastServerUrl \in Address \cup {None}
  /\ armed \in BOOLEAN /\ saving \in BOOLEAN /\ landed \in BOOLEAN
  /\ ext \in Extension
  /\ saves \in 0..MaxSaves /\ boots \in 0..MaxBoots

(* sync() no-ops while a round is running: two rounds are never in
   engine.sync() at one time, whichever of the boot, a save, the timer, the
   foreground and the first download starts them.  The one exception is a round
   that runs while the bring-up fails: the failure sets the status to "error"
   over it, and until no round runs any more the next sync() is let through
   (RoundsNeverOverlap). *)
OneRound == ~ext.overwritten => Cardinality(Running(ext)) <= 1

(* Without the exception: "sync() self-guards against overlap". *)
RoundsNeverOverlap == Cardinality(Running(ext)) <= 1

(* A save that lands while the boot still reads the settings is not undone by
   what the boot read (TH-24-01): once everything has settled, the remote is
   the one the settings name.  (Settings that a round brings are not watched:
   this is about what the device itself writes, and Brought is empty.) *)
LatestConfigApplied ==
  (/\ phase = "up" /\ bringUp.at = "settled" /\ ~saving
   /\ lastServerUrl # None /\ entry # "join") => lastServerUrl = cfg

(* After stop() nothing builds a remote or arms the timer again, although a
   save, a round or a first download may still be under way. *)
StoppedStaysDown ==
  phase = "stopped" => ext.engine = None /\ ~armed /\ lastServerUrl = None

(* The download screen never hangs: a first download that is waiting or
   running ends as done or failed, unless the app is stopped. *)
DownloadSettles ==
  ext.download \in {"waiting", "running"}
    ~> ext.download \in {"done", "failed"} \/ phase # "up"

(* Every remote that is built gets a round, as long as it is there: applyConfig
   syncs "once right away" because what was edited before this remote existed
   reached no watcher. *)
EveryRemoteIsSynced == ext.owed ~> ~ext.owed

(* The first download is done, its screen opened and the join's record cleared,
   only after some round has succeeded. *)
DownloadLanded ==
  ext.download = "done" => landed

(* No round reads or writes the repository before its own bring-up (the store
   migration, the seed) has been done. *)
RepositoryFirst ==
  (\E s \in Slot : ext.rounds[s] = "running") => prepared = "ok"
=============================================================================
