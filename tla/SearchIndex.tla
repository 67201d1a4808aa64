---------------------------- MODULE SearchIndex ----------------------------
(***************************************************************************)
(* The search index kept level with the vault: IndexQueue, which takes up  *)
(* the changes the vault's watcher reports, the Indexer, whose walk and    *)
(* whose work on single paths run side by side over one database, and the  *)
(* SearchPlugin that brings them up, rebuilds the index and takes it down. *)
(*                                                                         *)
(* A file is its stamp (what head() answers) and its content, a row the    *)
(* stamp and the content it was written from.  Every await of the indexer  *)
(* is a step: the vault, the other job and the plugin act between them.    *)
(* One query runs at a time (pglite-index.ts), so each is atomic.          *)
(***************************************************************************)
EXTENDS Integers, FiniteSets

CONSTANTS File, Folder, Inside,  \* paths; one folder and the files in it
          Masks,                 \* what `exclude` may leave out
          Batch,                 \* files between two checkpoints
          MaxWrites,             \* how often the vault changes
          MaxEvents,             \* failures, saves, rebuilds, new formats, stops and kills
          None

Under(path) == IF path = Folder THEN Inside ELSE {path}

ASSUME IndexAssumption ==
  /\ IsFiniteSet(File) /\ Folder \notin File /\ Inside \subseteq File
  /\ {} \in Masks /\ Masks \subseteq SUBSET File
  /\ Batch \in Nat \ {0}
  /\ MaxWrites \in Nat /\ MaxEvents \in Nat

ASSUME NoneAssumption ==
  /\ None \notin File \cup {Folder} \cup Nat
  /\ None \notin [at : Nat, says : Nat \cup File \cup {None}]
  /\ \A paths \in SUBSET File : None # paths

VARIABLES
  vault,   \* what is at each path
  row,     \* the document table
  cursor,  \* SCAN_CURSOR_KEY of index_meta: what the walk had left, or None
  saved,   \* `exclude` in the config file
  app,     \* SearchPlugin and SearchExtension
  queue,   \* what IndexQueue has recorded
  drain,   \* the drain's pass and the paths it has taken
  walk,    \* the walk's own variables, and the rebuilds that wait for it
  job,     \* where the walk and the drain are in indexFile() and around it
  past     \* what has happened, for the bounds and the properties

vars == <<vault, row, cursor, saved, app, queue, drain, walk, job, past>>

NewSession == [boot |-> "none", stop |-> "none", stopping |-> FALSE, settled |-> FALSE, asked |-> 0,
               applied |-> FALSE, setting |-> {}, captured |-> {}, rule |-> {},
               db |-> FALSE, indexer |-> FALSE, watching |-> FALSE]
NoQueue == [toIndex |-> {}, toRemove |-> {}, timer |-> FALSE]
NoDrain == [pass |-> "index", todo |-> {}]
NoWalk == [left |-> None, visited |-> {}, since |-> 0, cancelled |-> FALSE, waiting |-> 0]
NoJob == [at |-> "none", path |-> None, stat |-> None, was |-> None, says |-> None]

Init ==
  /\ \E there \in SUBSET File : vault = [f \in File |-> IF f \in there THEN [at |-> 0, says |-> f] ELSE None]
  /\ row = [f \in File |-> None]
  /\ cursor = None
  /\ saved = {}
  /\ app = NewSession
  /\ queue = NoQueue
  /\ drain = NoDrain
  /\ walk = NoWalk
  /\ job = [w \in {"walk", "drain"} |-> NoJob]
  /\ past = [writes |-> 0, events |-> 0, calm |-> FALSE, drained |-> {}, met |-> {}, crossed |-> {}]

AnEvent == [past EXCEPT !.events = @ + 1]
MayHappen == past.events < MaxEvents
At(w, place) == job[w].at = place
Goes(w, changed) == job' = [job EXCEPT ![w] = changed]

-----------------------------------------------------------------------------
(* The vault, as everyone else changes it; the watcher tells the queue.    *)

(* Mutant for TypeOK: 'deleted' falls through to the case after it.        *)
push_fallsThrough(staged, unstaged) ==
  queue' = IF ~app.watching THEN queue
           ELSE [toIndex  |-> queue.toIndex \cup staged \cup unstaged,
                 toRemove |-> queue.toRemove \ (staged \cup unstaged),
                 timer    |-> TRUE]

(* push(): the last change on a path decides which side it lands on, and   *)
(* the timer starts over.                                                  *)
push(staged, unstaged) ==
  queue' = IF ~app.watching THEN queue
           ELSE [toIndex  |-> (queue.toIndex \ unstaged) \cup staged,
                 toRemove |-> (queue.toRemove \ staged) \cup unstaged,
                 timer    |-> TRUE]

Changes(content, staged, unstaged) ==
  /\ past.writes < MaxWrites
  /\ vault' = content
  /\ past' = [past EXCEPT !.writes = @ + 1, !.calm = FALSE]
  /\ push(staged, unstaged)
  /\ UNCHANGED <<row, cursor, saved, app, drain, walk, job>>

stamp == past.writes + 1

(* With a content of its own, or with the one the file began with.         *)
Write ==
  \E f \in File :
    \E c \in {stamp, f} :
      Changes([vault EXCEPT ![f] = [at |-> stamp, says |-> c]], {f}, {})

Delete ==
  \E path \in File \cup {Folder} :
    /\ \E f \in Under(path) : vault[f] # None
    /\ Changes([f \in File |-> IF f \in Under(path) THEN None ELSE vault[f]], {}, {path})

(* The vault's view copies and deletes: the copy is a new file.            *)
Rename ==
  \E from, to \in File :
    /\ from # to
    /\ vault[from] # None
    /\ Changes([vault EXCEPT ![from] = None, ![to] = [vault[from] EXCEPT !.at = stamp]], {to}, {from})

-----------------------------------------------------------------------------
(* indexFile(), by the walk or by the drain.                               *)

(* The file is done with: the walk counts it and saves its cursor when a   *)
(* batch is full, the drain goes to the next path.                         *)
After(w) ==
  /\ Goes(w, [NoJob EXCEPT !.at = "next"])
  /\ IF w = "drain" THEN UNCHANGED <<walk, cursor>>
     ELSE LET full == walk.since + 1 >= Batch IN
          /\ walk' = [walk EXCEPT !.since = IF full THEN 0 ELSE @ + 1]
          /\ cursor' = IF full THEN walk.left ELSE cursor

(* past.drained: what the drain has brought up to date and no walk has     *)
(* touched since.  past.met: what both jobs have held at one time.         *)
Drained(w, paths) ==
  past' = IF w = "walk" \/ ~app.watching THEN past ELSE [past EXCEPT !.drained = @ \cup (paths \ past.met)]

WalkTouches(paths) ==
  past' = [past EXCEPT !.drained = @ \ paths, !.met = @ \cup (paths \cap Under(job["drain"].path))]

(* An error: the walk falls back to the file's metadata, the drain drops   *)
(* the path.                                                               *)
Throws(w, spent) ==
  /\ past' = [spent EXCEPT !.calm = FALSE, !.drained = @ \ {job[w].path}]
  /\ IF w = "walk" /\ ~At(w, "metadata")
     THEN Goes(w, [job[w] EXCEPT !.at = "metadata", !.stat = None, !.was = None]) /\ UNCHANGED <<walk, cursor>>
     ELSE After(w)

Head(w) ==
  LET path == job[w].path IN
  /\ At(w, "head") \/ At(w, "metadata")
  /\ \/ /\ vault[path] = None
        /\ Throws(w, past)
     \/ /\ vault[path] # None
        /\ Goes(w, [job[w] EXCEPT !.at = IF At(w, "head") THEN "state" ELSE "write", !.stat = vault[path].at])
        /\ UNCHANGED <<walk, cursor, past>>
  /\ UNCHANGED <<vault, row, saved, app, queue, drain>>

(* Nothing to read if the stamp is the row's and the row was read from a   *)
(* content, unless the caller says the file has changed.                   *)
State(w) ==
  LET was == row[job[w].path] IN
  /\ At(w, "state")
  /\ IF w = "walk" /\ was # None /\ was.at = job[w].stat /\ was.says # None
     THEN After(w)
     ELSE Goes(w, [job[w] EXCEPT !.at = "read", !.was = was]) /\ UNCHANGED <<walk, cursor>>
  /\ UNCHANGED <<vault, row, saved, app, queue, drain, past>>

Read(w) ==
  LET file == vault[job[w].path] IN
  /\ At(w, "read")
  /\ \/ file = None /\ Throws(w, past)
     \/ file # None /\ MayHappen /\ Throws(w, AnEvent)
     \/ /\ file # None
        /\ Goes(w, [job[w] EXCEPT
             !.at = IF job[w].was # None /\ job[w].was.says = file.says THEN "touch" ELSE "write",
             !.was = None, !.says = file.says])
        /\ UNCHANGED <<walk, cursor, past>>
  /\ UNCHANGED <<vault, row, saved, app, queue, drain>>

(* The UPDATE of an unchanged content touches the row that is there by     *)
(* now, if one is.                                                         *)
Store(w) ==
  LET path == job[w].path IN
  /\ At(w, "touch") \/ At(w, "write")
  /\ row' = [row EXCEPT ![path] =
       IF At(w, "write") THEN [at |-> job[w].stat, says |-> job[w].says]
       ELSE IF @ = None THEN None ELSE [@ EXCEPT !.at = job[w].stat]]
  /\ After(w)
  /\ Drained(w, {path})
  /\ UNCHANGED <<vault, saved, app, queue, drain>>

IndexFile == \E w \in {"walk", "drain"} : Head(w) \/ State(w) \/ Read(w) \/ Store(w)

-----------------------------------------------------------------------------
(* IndexQueue.                                                             *)

TimerFires ==
  /\ queue.timer
  /\ queue' = [queue EXCEPT !.timer = FALSE]
  /\ IF At("drain", "none")
     THEN Goes("drain", [NoJob EXCEPT !.at = "next"]) /\ drain' = NoDrain
     ELSE UNCHANGED <<job, drain>>
  /\ UNCHANGED <<vault, row, cursor, saved, app, walk, past>>

(* Mutant for DrainCatchesUp: the set is emptied when its paths are done.  *)
take_late(set, pass) ==
  /\ drain' = [pass |-> pass, todo |-> queue[set]]
  /\ queue' = IF set = "toIndex" THEN [queue EXCEPT !.toRemove = {}] ELSE [queue EXCEPT !.toIndex = {}]
  /\ UNCHANGED job

(* take(): what comes from now on is for a later pass.                     *)
take(set, pass) ==
  /\ drain' = [pass |-> pass, todo |-> queue[set]]
  /\ queue' = [queue EXCEPT ![set] = {}]
  /\ UNCHANGED job

(* run(): the removals, then the rest, until neither set holds a path.      *)
(* past.crossed: what is indexed while the removal of a folder above it    *)
(* waits for the pass after.                                               *)
DrainNext ==
  /\ At("drain", "next")
  /\ \/ \E path \in drain.todo :
          /\ drain' = [drain EXCEPT !.todo = @ \ {path}]
          /\ Goes("drain", [NoJob EXCEPT !.path = path, !.at = IF drain.pass = "remove" THEN "remove" ELSE "exists"])
          /\ past' = [past EXCEPT !.met = @ \cup (Under(path) \cap {job["walk"].path})]
          /\ UNCHANGED queue
     \/ /\ drain.todo = {}
        /\ \/ drain.pass = "remove"
           \/ queue.toRemove = {} /\ queue.toIndex # {}
        /\ take("toIndex", "index")
        /\ past' = [past EXCEPT !.crossed = @ \cup
                      (queue.toIndex \cap UNION {Under(path) : path \in queue.toRemove})]
     \/ /\ drain.todo = {} /\ drain.pass = "index" /\ queue.toRemove # {}
        /\ take("toRemove", "remove")
        /\ UNCHANGED past
     \/ /\ drain.todo = {} /\ drain.pass = "index"
        /\ queue.toIndex \cup queue.toRemove = {}
        /\ Goes("drain", NoJob)
        /\ UNCHANGED <<drain, queue, past>>
  /\ UNCHANGED <<vault, row, cursor, saved, app, walk>>

(* indexPath(): a path that is gone is removed, a path the masks leave out *)
(* is left as it is.                                                       *)
indexPath ==
  LET path == job["drain"].path IN
  /\ At("drain", "exists")
  /\ IF path \in app.rule THEN After("drain")
     ELSE /\ Goes("drain", [job["drain"] EXCEPT !.at = IF vault[path] = None THEN "remove" ELSE "head"])
          /\ UNCHANGED <<walk, cursor>>
  /\ UNCHANGED <<vault, row, saved, app, queue, drain, past>>

removePath ==
  LET gone == Under(job["drain"].path) IN
  /\ At("drain", "remove")
  /\ row' = [f \in File |-> IF f \in gone THEN None ELSE row[f]]
  /\ After("drain")
  /\ Drained("drain", gone \ app.rule)
  /\ UNCHANGED <<vault, saved, app, queue, drain>>

QueueQuiet == queue.toIndex \cup queue.toRemove = {} /\ At("drain", "none")

-----------------------------------------------------------------------------
(* The walk.                                                               *)

clear ==
  /\ At("walk", "clear")
  /\ row' = [f \in File |-> None]
  /\ cursor' = None
  /\ walk' = [walk EXCEPT !.cancelled = FALSE]
  /\ Goes("walk", [NoJob EXCEPT !.at = "begin"])
  /\ WalkTouches(File)
  /\ UNCHANGED <<vault, saved, app, queue, drain>>

(* runScan() picks up the cursor of the walk before, if that was cut off.  *)
(* past.calm: the vault is at rest since the walk began, and the walk goes *)
(* by the `exclude` that is saved; a cursor left under another one would   *)
(* skip what that one left out.                                            *)
WalkBegins ==
  /\ At("walk", "begin")
  /\ walk' = [walk EXCEPT !.left = cursor, !.visited = {}, !.since = 0]
  /\ Goes("walk", [NoJob EXCEPT !.at = "next"])
  /\ past' = [past EXCEPT !.calm = IF cursor = None THEN QueueQuiet /\ app.rule = saved ELSE @]
  /\ UNCHANGED <<vault, row, cursor, saved, app, queue, drain>>

(* A rebuild that was waiting takes the walk's place.                      *)
WalkEnds ==
  /\ walk' = [NoWalk EXCEPT !.waiting = IF walk.waiting > 0 THEN walk.waiting - 1 ELSE 0]
  /\ Goes("walk", [NoJob EXCEPT !.at = IF walk.waiting > 0 THEN "clear" ELSE "none"])

(* The names are listed once, with the first file.                         *)
Left == IF walk.left = None THEN {f \in File : vault[f] # None} ELSE walk.left

WalkNext ==
  /\ At("walk", "next")
  /\ ~walk.cancelled
  /\ \/ /\ Left = {}
        /\ walk' = [walk EXCEPT !.left = {}]
        /\ Goes("walk", [NoJob EXCEPT !.at = "sweep"])
        /\ UNCHANGED past
     \/ \E f \in Left \cap app.rule :
          /\ walk' = [walk EXCEPT !.left = Left \ {f}]
          /\ UNCHANGED <<job, past>>
     \/ \E f \in Left \ app.rule :
          /\ walk' = [walk EXCEPT !.left = Left \ {f}, !.visited = @ \cup {f}]
          /\ Goes("walk", [NoJob EXCEPT !.at = "head", !.path = f])
          /\ WalkTouches({f})
  /\ UNCHANGED <<vault, row, cursor, saved, app, queue, drain>>

WalkCancelled ==
  /\ At("walk", "next")
  /\ walk.cancelled
  /\ cursor' = walk.left
  /\ WalkEnds
  /\ UNCHANGED <<vault, row, saved, app, queue, drain, past>>

(* Mutant for WalkLevels: whatever this walk has not visited is stale.     *)
stale_unseen == {f \in File \ walk.visited : row[f] # None}

(* sweep(): existence is asked of rows the walk has not visited.           *)
stale == {f \in File \ walk.visited : row[f] # None /\ (f \in app.rule \/ vault[f] = None)}

Sweep ==
  /\ At("walk", "sweep")
  /\ walk' = [walk EXCEPT !.left = stale, !.visited = {}]
  /\ Goes("walk", [NoJob EXCEPT !.at = "drop"])
  /\ UNCHANGED <<vault, row, cursor, saved, app, queue, drain, past>>

DropStale ==
  /\ At("walk", "drop")
  /\ row' = [f \in File |-> IF f \in walk.left THEN None ELSE row[f]]
  /\ cursor' = None
  /\ WalkEnds
  /\ WalkTouches(walk.left)
  /\ UNCHANGED <<vault, saved, app, queue, drain>>

Walk == clear \/ WalkBegins \/ WalkNext \/ WalkCancelled \/ Sweep \/ DropStale

-----------------------------------------------------------------------------
(* SearchExtension.reindex(), asked by the button or by a save: it waits   *)
(* for the bring-up, cancels the walk there is and runs after it.          *)

reindex ==
  IF ~app.indexer THEN UNCHANGED <<walk, job>>
  ELSE /\ walk' = [walk EXCEPT !.cancelled = TRUE, !.waiting = IF At("walk", "none") THEN 0 ELSE @ + 1]
       /\ IF At("walk", "none") THEN Goes("walk", [NoJob EXCEPT !.at = "clear"]) ELSE UNCHANGED job

Request(changed) ==
  /\ app' = [changed EXCEPT !.asked = IF app.settled THEN @ ELSE @ + 1]
  /\ IF app.settled THEN reindex ELSE UNCHANGED <<walk, job>>

AskedGoesOn ==
  /\ app.settled
  /\ app.asked > 0
  /\ app' = [app EXCEPT !.asked = @ - 1]
  /\ reindex
  /\ UNCHANGED <<vault, row, cursor, saved, queue, drain, past>>

(* The button is inert while the index opens or a walk runs.               *)
Rebuild ==
  /\ MayHappen
  /\ app.indexer
  /\ At("walk", "none")
  /\ Request(app)
  /\ past' = AnEvent
  /\ UNCHANGED <<vault, row, cursor, saved, queue, drain>>

(* The settings section has written `exclude`: applySettings(), then a     *)
(* rebuild.  The indexer hears of it once the bring-up watches settings.   *)
SaveSettings ==
  \E mask \in Masks \ {app.setting} :
    /\ MayHappen
    /\ app.boot # "none"
    /\ saved' = mask
    /\ Request([app EXCEPT !.setting = mask, !.applied = TRUE, !.rule = IF app.watching THEN mask ELSE @])
    /\ past' = [AnEvent EXCEPT !.calm = FALSE, !.drained = {}]
    /\ UNCHANGED <<vault, row, cursor, queue, drain>>

-----------------------------------------------------------------------------
(* SearchPlugin: start(), bringUpIndex() and stop().                       *)

Start ==
  /\ app.boot = "none"
  /\ app' = [app EXCEPT !.boot = "config", !.stopping = FALSE]
  /\ UNCHANGED <<vault, row, cursor, saved, queue, drain, walk, job, past>>

Ended == [app EXCEPT !.boot = "done", !.settled = TRUE]

(* The file is not applied over a save that landed meanwhile.              *)
BootConfig ==
  LET setting == IF app.applied THEN app.setting ELSE saved IN
  /\ app.boot = "config"
  /\ app' = [IF app.stopping THEN Ended ELSE [app EXCEPT !.boot = "open"]
             EXCEPT !.setting = setting, !.captured = setting, !.applied = TRUE]
  /\ UNCHANGED <<vault, row, cursor, saved, queue, drain, walk, job, past>>

(* Three attempts; an index opened after a stop is closed again at once.   *)
BootOpens ==
  /\ app.boot = "open"
  /\ app' = IF app.stopping THEN Ended ELSE [app EXCEPT !.boot = "state", !.db = TRUE]
  /\ UNCHANGED <<vault, row, cursor, saved, queue, drain, walk, job, past>>

BootFails ==
  /\ app.boot = "open"
  /\ MayHappen
  /\ app' = Ended
  /\ past' = AnEvent
  /\ UNCHANGED <<vault, row, cursor, saved, queue, drain, walk, job>>

(* reconcileExtractors() throws away rows read under other formats; once   *)
(* readIndexState() has answered nothing is awaited any more: the indexer, *)
(* the queue, both watchers and the first walk.                            *)
BootEnds ==
  /\ app.boot = "state"
  /\ \/ UNCHANGED <<row, cursor, past>>
     \/ /\ MayHappen
        /\ row' = [f \in File |-> None]
        /\ cursor' = None
        /\ past' = AnEvent
  /\ IF app.stopping THEN app' = Ended /\ UNCHANGED <<walk, job>>
     ELSE /\ app' = [Ended EXCEPT !.indexer = TRUE, !.watching = TRUE, !.rule = app.captured, !.captured = {}]
          /\ walk' = NoWalk
          /\ Goes("walk", [NoJob EXCEPT !.at = "begin"])
  /\ UNCHANGED <<vault, saved, queue, drain>>

StopBegins ==
  /\ app.boot # "none" /\ app.stop = "none"
  /\ MayHappen
  /\ app' = [app EXCEPT !.stop = "bringUp", !.stopping = TRUE]
  /\ past' = AnEvent
  /\ UNCHANGED <<vault, row, cursor, saved, queue, drain, walk, job>>

(* The watchers go, the queue is disposed; a drain in flight goes on.      *)
StopTears ==
  /\ app.stop = "bringUp" /\ app.boot = "done"
  /\ app' = [app EXCEPT !.stop = "drain", !.watching = FALSE]
  /\ queue' = NoQueue
  /\ past' = [past EXCEPT !.drained = {}]
  /\ UNCHANGED <<vault, row, cursor, saved, drain, walk, job>>

(* Mutant for StopLeavesNothing: the drain in flight is not waited for.    *)
StopCancels_hasty ==
  /\ app.stop = "drain"
  /\ app' = [app EXCEPT !.stop = "walk", !.settled = TRUE, !.indexer = FALSE]
  /\ walk' = [walk EXCEPT !.cancelled = app.indexer]
  /\ UNCHANGED <<vault, row, cursor, saved, queue, drain, job, past>>

StopCancels ==
  /\ app.stop = "drain" /\ At("drain", "none")
  /\ app' = [app EXCEPT !.stop = "walk", !.settled = TRUE, !.indexer = FALSE]
  /\ walk' = [walk EXCEPT !.cancelled = app.indexer]
  /\ UNCHANGED <<vault, row, cursor, saved, queue, drain, job, past>>

StopCloses ==
  /\ app.stop = "walk" /\ At("walk", "none")
  /\ app' = [app EXCEPT !.stop = "none", !.boot = "none", !.db = FALSE]
  /\ UNCHANGED <<vault, row, cursor, saved, queue, drain, walk, job, past>>

Kill ==
  /\ app.boot # "none"
  /\ MayHappen
  /\ app' = NewSession
  /\ queue' = NoQueue
  /\ drain' = NoDrain
  /\ walk' = NoWalk
  /\ job' = [w \in DOMAIN job |-> NoJob]
  /\ past' = [AnEvent EXCEPT !.drained = {}]
  /\ UNCHANGED <<vault, row, cursor, saved>>

Lifecycle ==
  \/ Start \/ BootConfig \/ BootOpens \/ BootFails  \/ BootEnds
  \/ StopBegins \/ StopTears \/ StopCancels \/ StopCloses \/ Kill

Next ==
  \/ Write \/ Delete \/ Rename
  \/ TimerFires \/ DrainNext \/ indexPath \/ removePath
  \/ IndexFile \/ Walk
  \/ AskedGoesOn \/ Rebuild \/ SaveSettings
  \/ Lifecycle

Spec == Init /\ [][Next]_vars

-----------------------------------------------------------------------------
(* The properties.                                                         *)

Stamp == 0 .. MaxWrites
Entry == [at : Stamp, says : Stamp \cup File]

(* The types of the variables: no row with a content nobody wrote, no more *)
(* rebuilds waiting than were asked for, nothing taken that was not named. *)
TypeOK ==
  /\ vault \in [File -> Entry \cup {None}]
  /\ row \in [File -> [at : Stamp, says : Stamp \cup File \cup {None}] \cup {None}]
  /\ cursor \in (SUBSET File) \cup {None}
  /\ saved \in Masks
  /\ queue \in [toIndex : SUBSET File, toRemove : SUBSET (File \cup {Folder}), timer : BOOLEAN]
  /\ drain \in [pass : {"index", "remove"}, todo : SUBSET (File \cup {Folder})]
  /\ walk \in [left : (SUBSET File) \cup {None}, visited : SUBSET File, since : 0 .. Batch - 1,
               cancelled : BOOLEAN, waiting : 0 .. MaxEvents]
  /\ \A w \in DOMAIN job : job[w].path \in File \cup {Folder, None} /\ job[w].stat \in Stamp \cup {None}

(* Searching for a path finds what is there, and nothing if nothing is.    *)
Level(f) ==
  IF vault[f] = None \/ f \in app.rule THEN row[f] = None ELSE row[f] = vault[f]

Pending(f) ==
  LET named == queue.toIndex \cup queue.toRemove \cup drain.todo \cup {job["drain"].path} IN
  \E path \in named : path # None /\ f \in Under(path)

(* No walk and no drain works on an index that is not open, and a stop,    *)
(* whenever it came, leaves nothing open, nothing subscribed and nothing   *)
(* queued.                                                                 *)
StopLeavesNothing ==
  /\ \A w \in DOMAIN job : ~At(w, "none") => app.db
  /\ app.boot = "none" => ~app.db /\ ~app.watching /\ ~app.indexer /\ queue = NoQueue

(* A path the drain has done, and no walk has touched since, is level with *)
(* the vault or named in the queue again: a change that comes at any       *)
(* moment of a drain is taken by that drain or by the next.  But for what  *)
(* was put back in a folder while the drain removed something else.        *)
DrainCatchesUp ==
  app.watching => \A f \in past.drained \ (app.rule \cup past.crossed) : Level(f) \/ Pending(f)

(* The same of every path: "a file written again after being deleted       *)
(* exists" (index-queue.ts), also if it went with its folder.              *)
RewrittenIsFound ==
  app.watching => \A f \in past.drained \ app.rule : Level(f) \/ Pending(f)

(* A walk that ends, of one piece or resumed after stops and kills, and    *)
(* over a vault and a saved `exclude` that rested since its beginning,     *)
(* leaves level every path that walk and drain have never held at one      *)
(* time, whatever failures, cancelled walks and kills have left of the     *)
(* index before.                                                           *)
WalkLevels == [][DropStale /\ past.calm => \A f \in File \ past.met : Level(f)']_vars

(* The same of every path: one that both have held "only gets read twice,  *)
(* which is idempotent" (index-queue.ts), and nothing an interleaving did  *)
(* outlasts the next walk.                                                 *)
ReadTwiceIsHarmless == [][DropStale /\ past.calm => \A f \in File : Level(f)']_vars

(* What the settings hold is what the indexer goes by: a saved setting     *)
(* reaches the walk and the queue (search-plugin.ts).                      *)
SavedRuleInForce == app.indexer /\ app.watching => app.rule = app.setting
=============================================================================
