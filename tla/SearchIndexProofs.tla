-------------------------- MODULE SearchIndexProofs --------------------------
(***************************************************************************)
(* For any files, masks, batches, and however many changes and events: a   *)
(* stop leaves nothing at work, a drain forgets no change, and a walk over *)
(* a vault at rest leaves the index level with it.                         *)
(***************************************************************************)
EXTENDS SearchIndex, TLAPS

(* The places of the two jobs, and what each of them holds there.          *)
Worker == {"walk", "drain"}
Asking == {"state", "read", "touch", "write"}
WalkPlace == {"none", "clear", "begin", "next", "sweep", "drop", "head", "metadata"} \cup Asking
DrainPlace == {"none", "next", "exists", "remove", "head"} \cup Asking
Reading == {"head", "metadata"} \cup Asking

Row == [at : Stamp, says : Stamp \cup File \cup {None}]
App == [boot : {"none", "config", "open", "state", "done"}, stop : {"none", "bringUp", "drain", "walk"},
        stopping : BOOLEAN, settled : BOOLEAN, asked : Nat, applied : BOOLEAN,
        setting : Masks, captured : Masks, rule : Masks,
        db : BOOLEAN, indexer : BOOLEAN, watching : BOOLEAN]
Job == [at : WalkPlace \cup DrainPlace, path : File \cup {Folder, None}, stat : Stamp \cup {None},
        was : Row \cup {None}, says : Stamp \cup File \cup {None}]
Past == [writes : 0 .. MaxWrites, events : 0 .. MaxEvents, calm : BOOLEAN,
         drained : SUBSET File, met : SUBSET File, crossed : SUBSET File]

Types ==
  /\ vault \in [File -> Entry \cup {None}]
  /\ row \in [File -> Row \cup {None}]
  /\ cursor \in (SUBSET File) \cup {None}
  /\ saved \in Masks
  /\ app \in App
  /\ queue \in [toIndex : SUBSET File, toRemove : SUBSET (File \cup {Folder}), timer : BOOLEAN]
  /\ drain \in [pass : {"index", "remove"}, todo : SUBSET (File \cup {Folder})]
  /\ walk \in [left : (SUBSET File) \cup {None}, visited : SUBSET File, since : 0 .. Batch - 1,
               cancelled : BOOLEAN, waiting : Nat]
  /\ job \in [Worker -> Job]
  /\ past \in Past

Places ==
  /\ job["walk"].at \in WalkPlace /\ job["drain"].at \in DrainPlace
  /\ \A w \in Worker :
       /\ job[w].at \in Reading => job[w].path \in File
       /\ job[w].at \notin Reading \cup {"exists", "remove"} => job[w].path = None
       /\ job[w].at \in Asking => job[w].stat \in Stamp
  /\ job["drain"].at = "exists" => job["drain"].path \in File
  /\ job["drain"].at = "remove" => job["drain"].path # None
  /\ drain.pass = "index" => drain.todo \subseteq File
  /\ job["drain"].at = "none" => drain = NoDrain
  /\ job["walk"].at = "drop" => walk.left # None
  /\ job["walk"].at \in Reading => walk.left # None

Asked == app.asked + walk.waiting <= past.events

(* What is open and subscribed at each stage of the plugin's life.         *)
Stages ==
  /\ app.boot = "none" => app.stop = "none"
  /\ app.boot \in {"none", "config", "open"} => ~app.db
  /\ app.boot = "state" => app.db
  /\ app.boot # "done" => /\ ~app.watching /\ ~app.indexer
                          /\ job["walk"].at = "none" /\ job["drain"].at = "none"
  /\ ~app.watching => queue = NoQueue /\ past.drained = {}
  /\ app.watching \/ app.indexer \/ job["walk"].at # "none" \/ job["drain"].at # "none" => app.db
  /\ app.stop \in {"drain", "walk"} => app.boot = "done" /\ ~app.watching
  /\ app.stop = "walk" => job["drain"].at = "none" /\ ~app.indexer
  /\ app.stop # "none" => app.stopping

(* What both jobs hold is known to have met; the walk holds nothing that   *)
(* counts as drained.                                                      *)
Meetings ==
  /\ job["walk"].path # None /\ job["walk"].path \in Under(job["drain"].path) => job["walk"].path \in past.met
  /\ job["walk"].path \notin past.drained
  /\ past.drained \cap past.met = {}

(* What a job holds of its file is what the file was when its stamp was    *)
(* read, and so is a row that no two jobs have written.                    *)
Current(f, stat) == vault[f] # None /\ vault[f].at = stat
HoldsTruth(w) ==
  LET it == job[w] IN
  /\ it.at \in Asking => it.stat <= past.writes
  /\ it.at \in {"exists", "head", "metadata", "state", "read"} => it.says = None
  /\ it.at = "read" => it.path \in past.met \/ it.was = row[it.path]
  /\ it.at = "touch" => it.path \in past.met \/ (row[it.path] # None /\ row[it.path].says = it.says)
  /\ it.at \in {"touch", "write"} => (it.says # None /\ Current(it.path, it.stat) => it.says = vault[it.path].says)
  /\ it.at = "touch" => it.says # None
  /\ it.at = "write" /\ w = "drain" => it.says # None
RowsTrue ==
  \A f \in File :
    /\ vault[f] # None => vault[f].at <= past.writes
    /\ row[f] # None => row[f].at <= past.writes
    /\ row[f] # None /\ row[f].says # None /\ f \notin past.met /\ Current(f, row[f].at)
         => row[f].says = vault[f].says

(* What the queue knows of a file.                                         *)
Named(f) == \E path \in queue.toIndex \cup queue.toRemove : f \in Under(path)
Removed(f, paths) == \E path \in paths : f \in Under(path)
Removals ==
  app.watching => \A f \in File \ past.crossed :
    /\ Removed(f, queue.toRemove) => vault[f] = None \/ f \in queue.toIndex
    /\ drain.pass = "remove" /\ Removed(f, drain.todo) => vault[f] = None \/ Named(f)
    /\ job["drain"].at = "remove" /\ f \in Under(job["drain"].path) => vault[f] = None \/ Named(f)
DrainTrue ==
  app.watching /\ job["drain"].at \in Asking
    => Named(job["drain"].path) \/ Current(job["drain"].path, job["drain"].stat)

(* What a calm walk has behind it.                                         *)
Still == queue.toIndex = {} /\ queue.toRemove = {} /\ drain = NoDrain /\ job["drain"].path = None
Settled ==
  /\ app.applied => app.setting = saved
  /\ past.calm /\ app.boot \in {"open", "state"} => app.captured = saved
  /\ past.calm /\ (app.indexer \/ app.watching \/ job["walk"].at # "none") => app.rule = saved
Done(f) == vault[f] # None /\ f \notin saved => row[f] = vault[f]
Walking == job["walk"].at \notin {"none", "clear", "begin"}

(* Files that are left are there; the rest is done, in the saved cursor's  *)
(* view, in the walk's own, and at its end.                                *)
Behind(left) ==
  /\ \A f \in left : vault[f] # None
  /\ \A f \in File \ past.met : f \notin left \cup {job["walk"].path} => Done(f)
BehindCursor ==
  cursor # None => /\ \A f \in cursor : vault[f] # None
                   /\ \A f \in File \ past.met : f \notin cursor => Done(f)
BehindWalk ==
  /\ job["walk"].at \in {"next"} \cup Reading /\ walk.left # None => Behind(walk.left)
  /\ Walking => \A f \in walk.visited : vault[f] # None /\ f \notin saved
Looking ==
  LET it == job["walk"] IN
  /\ it.at # "metadata"
  /\ it.at = "write" => it.says # None
  /\ it.at \in Reading => vault[it.path] # None /\ it.path \notin saved
  /\ it.at \in Asking => Current(it.path, it.stat)
Sweeping ==
  /\ job["walk"].at \in {"sweep", "drop"} => \A f \in File \ past.met : Done(f)
  /\ job["walk"].at = "drop" =>
       \A f \in File \ past.met : (vault[f] = None \/ f \in saved) <=> (row[f] = None \/ f \in walk.left)
Calm == past.calm => Still /\ BehindCursor /\ BehindWalk /\ Looking /\ Sweeping

IndexInv ==
  /\ Types /\ Places /\ Asked /\ Stages /\ Meetings /\ RowsTrue /\ (\A w \in Worker : HoldsTruth(w))
  /\ Removals /\ DrainTrue /\ DrainCatchesUp /\ Settled /\ Calm
-----------------------------------------------------------------------------
LEMMA UnderFile == \A f \in File : Under(f) = {f} /\ Under(Folder) = Inside
BY IndexAssumption DEF Under

LEMMA UnderFiles == \A path \in File \cup {Folder} : Under(path) \in SUBSET File
BY IndexAssumption DEF Under

(* Nothing is under no path.                                               *)
LEMMA UnderNone == \A f \in File : f \notin Under(None)
BY NoneAssumption DEF Under

(* A file is pending in the queue, among the paths taken or in hand.       *)
LEMMA PendingIs ==
  ASSUME NEW f \in File
  PROVE  Pending(f) <=> \/ Named(f) \/ Removed(f, drain.todo) \/ f \in Under(job["drain"].path)
BY UnderNone DEF Pending, Named, Removed
LEMMA PendingNext ==
  ASSUME NEW f \in File
  PROVE  Pending(f)' <=> (\/ Named(f) \/ Removed(f, drain.todo) \/ f \in Under(job["drain"].path))'
BY UnderNone DEF Pending, Named, Removed

-----------------------------------------------------------------------------
(* The vault changes, and the watcher tells the queue which paths to read  *)
(* and which to remove.                                                    *)
LEMMA ChangeKeeps ==
  ASSUME IndexInv, NEW content \in [File -> Entry \cup {None}],
         NEW staged \in SUBSET File, NEW unstaged \in SUBSET (File \cup {Folder}),
         Changes(content, staged, unstaged),
         \A f \in File : \/ content[f] = vault[f]
                         \/ content[f] = None /\ \E path \in unstaged : f \in Under(path)
                         \/ content[f] # None /\ content[f].at = stamp /\ f \in staged,
         \A f \in File : (\E path \in unstaged : f \in Under(path)) => content[f] = None /\ f \notin staged
  PROVE  IndexInv'
<1> USE DEF IndexInv
<1>0. /\ vault' = content /\ past' = [past EXCEPT !.writes = @ + 1, !.calm = FALSE]
      /\ past.writes < MaxWrites /\ push(staged, unstaged)
      /\ UNCHANGED <<row, cursor, saved, app, drain, walk, job>>
  BY DEF Changes
<1>1. past' \in Past /\ past'.writes = past.writes + 1 /\ past'.calm = FALSE
      /\ past'.met = past.met /\ past'.drained = past.drained /\ past'.crossed = past.crossed
      /\ past'.events = past.events
  <2>1. past \in Past
    BY DEF Types
  <2>2. past.writes + 1 \in 0 .. MaxWrites
    BY <1>0, <2>1, IndexAssumption DEF Past
  <2> QED BY <1>0, <2>1, <2>2 DEF Past
<1>2. queue' \in [toIndex : SUBSET File, toRemove : SUBSET (File \cup {Folder}), timer : BOOLEAN]
      /\ (app.watching => queue'.toIndex = (queue.toIndex \ unstaged) \cup staged
                          /\ queue'.toRemove = (queue.toRemove \ staged) \cup unstaged)
      /\ (~app.watching => queue' = queue)
  BY <1>0 DEF Types, push
<1>3. Types'
  BY <1>0, <1>1, <1>2 DEF Types
<1>4. Places'
  BY <1>0 DEF Places
<1>5. Asked'
  BY <1>0, <1>1 DEF Asked
<1>6. Stages'
  BY <1>0, <1>1, <1>2 DEF Stages, NoQueue
<1>7. Meetings'
  BY <1>0, <1>1 DEF Meetings
<1>8. RowsTrue'
  BY <1>0, <1>1, <1>3, IndexAssumption DEF Types, RowsTrue, Past, Row, Stamp, Entry, Current, stamp
<1>9. \A w \in Worker : HoldsTruth(w)'
  <2> SUFFICES ASSUME NEW w \in Worker PROVE HoldsTruth(w)'
    OBVIOUS
  <2> QED BY <1>0, <1>1, <1>3 DEF HoldsTruth, Types, Places, Reading, Asking, Past, Stamp, Entry, Current, stamp, Worker
<1>10. Removals'
  BY <1>0, <1>1, <1>2, UnderFile, UnderFiles DEF Removals, Removed, Named, Types
<1>11. DrainTrue'
  BY <1>0, <1>1, <1>2, UnderFile, UnderFiles DEF DrainTrue, Places, Reading, Asking, Worker, Named, Types, Current
<1>12. DrainCatchesUp'
  <2> SUFFICES ASSUME app.watching, NEW f \in File, f \in past.drained \ (app.rule \cup past.crossed)
               PROVE  Level(f)' \/ Pending(f)'
    BY <1>0, <1>1 DEF DrainCatchesUp, Types, Past
  <2>1. Named(f) => Named(f)'
    BY <1>2, UnderFile DEF Named, Types
  <2>2. content[f] = vault[f] \/ Named(f)'
    BY <1>2, UnderFile DEF Named
  <2>3. Level(f) \/ Pending(f)
    BY DEF DrainCatchesUp
  <2>4. content[f] = vault[f] /\ Level(f) => Level(f)'
    BY <1>0 DEF Level
  <2> QED BY <1>0, <2>1, <2>2, <2>3, <2>4, PendingIs, PendingNext DEF Removed
<1>13. Settled' /\ Calm'
  BY <1>0, <1>1 DEF Settled, Calm
<1> QED BY <1>3, <1>4, <1>5, <1>6, <1>7, <1>8, <1>9, <1>10, <1>11, <1>12, <1>13

LEMMA WriteKeeps == IndexInv /\ Write => IndexInv'
<1> SUFFICES ASSUME IndexInv, NEW f \in File, NEW c \in {stamp, f},
                    Changes([vault EXCEPT ![f] = [at |-> stamp, says |-> c]], {f}, {})
             PROVE  IndexInv'
  BY DEF Write
<1> DEFINE content == [vault EXCEPT ![f] = [at |-> stamp, says |-> c]]
<1>1. past.writes + 1 \in Stamp /\ vault \in [File -> Entry \cup {None}]
  BY IndexAssumption DEF IndexInv, Types, Past, Stamp, Changes
<1>2. [at |-> stamp, says |-> c] \in Entry /\ [at |-> stamp, says |-> c] # None
  BY <1>1, NoneAssumption DEF Entry, Stamp, stamp
<1>3. content \in [File -> Entry \cup {None}]
  BY <1>1, <1>2
<1>4. /\ content[f].at = stamp /\ content[f] # None
      /\ \A g \in File \ {f} : content[g] = vault[g]
  BY <1>1, <1>2
<1>5. Changes(content, {f}, {}) /\ {f} \in SUBSET File /\ {} \in SUBSET (File \cup {Folder})
  OBVIOUS
<1> HIDE DEF content
<1> QED BY <1>3, <1>4, <1>5, ChangeKeeps

LEMMA DeleteKeeps == IndexInv /\ Delete => IndexInv'
<1> SUFFICES ASSUME IndexInv, NEW path \in File \cup {Folder},
                    Changes([f \in File |-> IF f \in Under(path) THEN None ELSE vault[f]], {}, {path})
             PROVE  IndexInv'
  BY DEF Delete
<1> DEFINE content == [f \in File |-> IF f \in Under(path) THEN None ELSE vault[f]]
<1>1. content \in [File -> Entry \cup {None}]
  BY DEF IndexInv, Types
<1>2. \A f \in File : content[f] = IF f \in Under(path) THEN None ELSE vault[f]
  OBVIOUS
<1> HIDE DEF content
<1>3. {path} \in SUBSET (File \cup {Folder}) /\ {} \in SUBSET File
  OBVIOUS
<1> QED BY <1>1, <1>2, <1>3, ChangeKeeps DEF content

LEMMA RenameKeeps == IndexInv /\ Rename => IndexInv'
<1> SUFFICES ASSUME IndexInv, NEW from \in File, NEW to \in File, from # to, vault[from] # None,
                    Changes([vault EXCEPT ![from] = None, ![to] = [vault[from] EXCEPT !.at = stamp]],
                            {to}, {from})
             PROVE  IndexInv'
  BY DEF Rename
<1> DEFINE copy == [vault[from] EXCEPT !.at = stamp]
           content == [vault EXCEPT ![from] = None, ![to] = copy]
<1>1. past.writes + 1 \in Stamp /\ vault \in [File -> Entry \cup {None}] /\ vault[from] \in Entry
  BY IndexAssumption DEF IndexInv, Types, Past, Stamp, Changes
<1>2. copy \in Entry /\ copy # None /\ copy.at = stamp
  BY <1>1, NoneAssumption DEF Entry, Stamp, stamp
<1> HIDE DEF copy
<1>3. content \in [File -> Entry \cup {None}]
  BY <1>1, <1>2
<1>4. /\ content[from] = None /\ content[to] = copy
      /\ \A g \in File \ {from, to} : content[g] = vault[g]
  BY <1>1, <1>2
<1>5. Changes(content, {to}, {from})
  BY DEF copy
<1> HIDE DEF content
<1>6. {to} \in SUBSET File /\ {from} \in SUBSET (File \cup {Folder})
  OBVIOUS
<1> QED BY <1>2, <1>3, <1>4, <1>5, <1>6, UnderFile, ChangeKeeps

-----------------------------------------------------------------------------
(* A job goes from one place to another.                                   *)
LEMMA GoesTo ==
  ASSUME Types, NEW w \in Worker, NEW it \in Job, Goes(w, it)
  PROVE  /\ job' \in [Worker -> Job] /\ job'[w] = it
         /\ \A v \in Worker \ {w} : job'[v] = job[v]
BY DEF Types, Goes

(* A job is done with its file.                                            *)
LEMMA AfterLeaves ==
  ASSUME Types, NEW w \in Worker, After(w)
  PROVE  /\ job' \in [Worker -> Job] /\ job'[w].at = "next" /\ job'[w].path = None
         /\ \A v \in Worker \ {w} : job'[v] = job[v]
         /\ walk' \in [left : (SUBSET File) \cup {None}, visited : SUBSET File, since : 0 .. Batch - 1,
                       cancelled : BOOLEAN, waiting : Nat]
         /\ walk'.left = walk.left /\ walk'.visited = walk.visited /\ walk'.waiting = walk.waiting
         /\ cursor' \in {cursor, walk.left}
         /\ w = "drain" => walk' = walk /\ cursor' = cursor
<1> DEFINE it == [NoJob EXCEPT !.at = "next"]
<1>1. Goes(w, it)
  BY DEF After
<1>2. it \in Job /\ it.at = "next" /\ it.path = None
  BY DEF NoJob, Job, WalkPlace
<1> HIDE DEF it
<1>3. /\ job' \in [Worker -> Job] /\ job'[w].at = "next" /\ job'[w].path = None
      /\ \A v \in Worker \ {w} : job'[v] = job[v]
  BY <1>1, <1>2, GoesTo
<1>4. CASE w = "drain"
  BY <1>3, <1>4 DEF After, Types
<1>5. CASE w = "walk"
  <2>1. walk.since \in 0 .. Batch - 1
    BY DEF Types
  <2>2. 0 \in 0 .. Batch - 1 /\ (~ (walk.since + 1 >= Batch) => walk.since + 1 \in 0 .. Batch - 1)
    BY <2>1, IndexAssumption
  <2>3. /\ walk' = [walk EXCEPT !.since = IF walk.since + 1 >= Batch THEN 0 ELSE @ + 1]
        /\ cursor' = IF walk.since + 1 >= Batch THEN walk.left ELSE cursor
    BY <1>5 DEF After
  <2> QED BY <1>3, <1>5, <2>2, <2>3 DEF Types
<1> QED BY <1>4, <1>5 DEF Worker

(* A job goes on with the file it has.                                     *)
LEMMA AdvanceKeeps ==
  ASSUME IndexInv, NEW w \in Worker, NEW it \in Job, Goes(w, it),
         job[w].at \in Reading \cup {"exists"}, it.path = job[w].path,
         \/ it.at \in Reading /\ (w = "drain" => it.at # "metadata")
         \/ it.at = "remove" /\ w = "drain" /\ vault[it.path] = None,
         UNCHANGED <<vault, row, cursor, saved, app, queue, drain, walk>>,
         past' \in Past, past'.calm => past.calm, past'.events >= past.events,
         past'.drained \subseteq past.drained,
         past'.writes = past.writes, past'.met = past.met, past'.crossed = past.crossed,
         it.at \in Asking => it.stat \in Stamp,
         HoldsTruth(w)',
         w = "drain" => DrainTrue',
         w = "walk" /\ past'.calm => Looking'
  PROVE  IndexInv'
<1> USE DEF IndexInv
<1>1. /\ job' \in [Worker -> Job] /\ job'[w] = it
      /\ \A v \in Worker \ {w} : job'[v] = job[v]
  BY GoesTo
<1>2. job[w].path \in File
  BY DEF Places, Worker, Reading, Asking, WalkPlace
<1>3. Types'
  BY <1>1 DEF Types
<1>4. Places'
  BY <1>1, <1>2, NoneAssumption DEF Places, Reading, Asking, Worker, WalkPlace, DrainPlace
<1>5. Asked'
  BY DEF Asked, Types, App, Past
<1>6. Stages'
  BY <1>1, <1>2 DEF Stages, Reading, Asking, Worker
<1>7. Meetings'
  BY <1>1 DEF Meetings, Worker
<1>8. RowsTrue'
  BY DEF RowsTrue, Current
<1>9. \A v \in Worker : HoldsTruth(v)'
  BY <1>1 DEF HoldsTruth, Current
<1>10. Removals'
  BY <1>1, <1>2, UnderFile DEF Removals, Removed, Named, Worker, Reading, Asking
<1>11. DrainTrue'
  BY <1>1 DEF DrainTrue, Named, Current, Worker
<1>12. DrainCatchesUp'
  <2>1. \A f \in File : Pending(f)' <=> Pending(f)
    BY <1>1, PendingIs, PendingNext DEF Named, Removed, Worker
  <2> QED BY <2>1 DEF DrainCatchesUp, Level, Past
<1>13. Settled'
  BY <1>1, <1>6 DEF Settled, Worker, Stages, Reading, Asking
<1>14. Calm'
  <2> SUFFICES ASSUME past'.calm PROVE (Still /\ BehindCursor /\ BehindWalk /\ Looking /\ Sweeping)'
    BY DEF Calm
  <2>1. w = "walk"
    BY <1>2, NoneAssumption DEF Calm, Still, Worker
  <2>2. it.at \in Reading /\ job[w].at \in Reading
    BY <2>1 DEF Places, Reading, Asking, WalkPlace
  <2>3. Still'
    BY <1>1, <2>1 DEF Calm, Still, Worker
  <2>4. BehindCursor'
    BY DEF Calm, BehindCursor, Done
  <2>5. BehindWalk'
    BY <1>1, <2>1, <2>2 DEF Calm, BehindWalk, Behind, Done, Walking, Reading, Asking
  <2>6. Sweeping'
    BY <1>1, <2>1, <2>2 DEF Sweeping, Reading, Asking
  <2> QED BY <2>1, <2>3, <2>4, <2>5, <2>6
<1> QED BY <1>3, <1>4, <1>5, <1>6, <1>7, <1>8, <1>9, <1>10, <1>11, <1>12, <1>13, <1>14

(* A job is done with its file, or its folder, and has written no other    *)
(* row.                                                                    *)
LEMMA FinishKeeps ==
  ASSUME IndexInv, NEW w \in Worker, NEW path, path = job[w].path,
         job[w].at \in Reading \cup {"exists", "remove"}, After(w),
         UNCHANGED <<vault, saved, app, queue, drain>>,
         row' \in [File -> Row \cup {None}],
         \A f \in File : f \notin Under(path) => row'[f] = row[f],
         past' \in Past, past'.calm => past.calm, past'.events >= past.events,
         past'.writes = past.writes, past'.met = past.met, past'.crossed = past.crossed,
         past'.drained \subseteq past.drained \cup (Under(path) \ past.met),
         w = "walk" \/ ~app.watching => past'.drained \subseteq past.drained,
         RowsTrue',
         w = "drain" /\ app.watching =>
           \A f \in Under(path) \cap (past'.drained \ (app.rule \cup past.crossed)) :
             Level(f)' \/ Named(f),
         w = "walk" /\ past'.calm => path \in past.met \/ Done(path)'
  PROVE  IndexInv'
<1> USE DEF IndexInv
<1>1. /\ job' \in [Worker -> Job] /\ job'[w].at = "next" /\ job'[w].path = None
      /\ \A v \in Worker \ {w} : job'[v] = job[v]
      /\ walk' \in [left : (SUBSET File) \cup {None}, visited : SUBSET File, since : 0 .. Batch - 1,
                    cancelled : BOOLEAN, waiting : Nat]
      /\ walk'.left = walk.left /\ walk'.visited = walk.visited /\ walk'.waiting = walk.waiting
      /\ cursor' \in {cursor, walk.left}
      /\ w = "drain" => walk' = walk /\ cursor' = cursor
  BY AfterLeaves
<1>2. /\ job[w].path \in File \cup {Folder}
      /\ w = "walk" => job[w].path \in File /\ job[w].at \in Reading /\ walk.left # None
  BY DEF Types, Job, Places, Worker, Reading, Asking, WalkPlace
<1>3. Types'
  BY <1>1 DEF Types
<1>4. Places'
  BY <1>1 DEF Places, Reading, Asking, Worker, WalkPlace, DrainPlace, NoDrain
<1>5. Asked'
  BY <1>1 DEF Asked, Types, App, Past
<1>6. Stages'
  BY <1>1, <1>2 DEF Stages, Reading, Asking, Worker
<1>7. Meetings'
  <2>1. None \notin past'.drained
    BY NoneAssumption DEF Past
  <2>2. CASE w = "walk"
    BY <1>1, <2>1, <2>2 DEF Meetings, Worker
  <2>3. CASE w = "drain"
    <3>1. job'["walk"] = job["walk"] /\ job'["drain"].path = None
      BY <1>1, <2>3 DEF Worker
    <3>2. job["walk"].path # None => job["walk"].path \notin past'.drained
      BY <2>3 DEF Meetings
    <3>3. past'.drained \cap past.met = {}
      BY DEF Meetings
    <3>4. \A f : f \in Under(None) => f = None
      BY NoneAssumption DEF Under
    <3> QED BY <2>1, <3>1, <3>2, <3>3, <3>4 DEF Meetings
  <2> QED BY <2>2, <2>3 DEF Worker
<1>8. \A v \in Worker : HoldsTruth(v)'
  <2>1. HoldsTruth(w)'
    BY <1>1 DEF HoldsTruth, Asking
  <2>2. ASSUME NEW v \in Worker \ {w} PROVE HoldsTruth(v)'
    <3>1. job'[v] = job[v] /\ HoldsTruth(v)
      BY <1>1
    <3>2. CASE job[v].path \in File /\ job[v].path \notin Under(job[w].path)
      BY <3>1, <3>2 DEF HoldsTruth, Current
    <3>3. CASE job[v].path \in past.met
      BY <3>1, <3>3 DEF HoldsTruth, Current
    <3>4. CASE job[v].path \notin File
      BY <3>1, <3>4 DEF HoldsTruth, Places, Asking, Reading
    <3>5. job[v].path \in File /\ job[v].path \in Under(job[w].path) => job[v].path \in past.met
      BY <1>2, UnderFile, NoneAssumption DEF Meetings, Worker
    <3> QED BY <3>2, <3>3, <3>4, <3>5
  <2> QED BY <2>1, <2>2
<1>9. Removals'
  BY <1>1 DEF Removals, Removed, Named, Worker
<1>10. DrainTrue'
  BY <1>1 DEF DrainTrue, Named, Current, Worker, Asking
<1>11. DrainCatchesUp'
  <2> SUFFICES ASSUME app.watching, NEW f \in File, f \in past'.drained \ (app.rule \cup past.crossed)
               PROVE  Level(f)' \/ Pending(f)'
    BY DEF DrainCatchesUp, Past
  <2>1. CASE w = "walk"
    <3>1. f \in past.drained /\ f # job["walk"].path
      BY <2>1 DEF Meetings
    <3>2. row'[f] = row[f] /\ (Pending(f) => Pending(f)')
      BY <1>1, <1>2, <2>1, <3>1, UnderFile, PendingIs, PendingNext DEF Named, Removed, Worker
    <3> QED BY <3>1, <3>2 DEF DrainCatchesUp, Level
  <2>2. CASE w = "drain" /\ f \in Under(job[w].path)
    BY <2>2, PendingNext DEF Named
  <2>3. CASE w = "drain" /\ f \notin Under(job[w].path)
    <3>1. row'[f] = row[f] /\ (Pending(f) => Pending(f)')
      BY <2>3, PendingIs, PendingNext DEF Named, Removed
    <3> QED BY <2>3, <3>1 DEF DrainCatchesUp, Level
  <2> QED BY <2>1, <2>2, <2>3 DEF Worker
<1>12. Settled'
  BY <1>1, <1>2 DEF Settled, Worker, Reading, Asking, Stages
<1>13. Calm'
  <2> SUFFICES ASSUME past'.calm PROVE (Still /\ BehindCursor /\ BehindWalk /\ Looking /\ Sweeping)'
    BY DEF Calm
  <2> DEFINE p == job["walk"].path
  <2>1. w = "walk" /\ p \in File /\ job["walk"].at \in Reading /\ walk.left # None
    BY <1>2, NoneAssumption DEF Calm, Still, Worker
  <2>2. Still'
    BY <1>1, <2>1 DEF Calm, Still, Worker
  <2>3. \A f \in File \ past.met : Done(f) => Done(f)'
    BY <2>1, UnderFile DEF Done
  <2>4. Behind(walk.left)
    BY <2>1 DEF Calm, BehindWalk
  <2>5. \A f \in File \ past.met : f \notin walk.left => Done(f)'
    BY <2>1, <2>3, <2>4 DEF Behind
  <2>6. \A f \in walk.left : vault[f] # None
    BY <2>4 DEF Behind
  <2>7. BehindCursor'
    BY <1>1, <2>3, <2>5, <2>6 DEF Calm, BehindCursor
  <2>8. Behind(walk.left)'
    BY <1>1, <2>5, <2>6 DEF Behind
  <2>9. BehindWalk'
    BY <1>1, <2>1, <2>8 DEF Calm, BehindWalk, Behind, Walking, Reading, Asking
  <2>10. Looking' /\ Sweeping'
    BY <1>1, <2>1 DEF Looking, Sweeping, Reading, Asking
  <2> QED BY <2>2, <2>7, <2>9, <2>10
<1> QED BY <1>3, <1>4, <1>5, <1>6, <1>7, <1>8, <1>9, <1>10, <1>11, <1>12, <1>13

(* An error ends it, or leaves the walk with the file's metadata.          *)
LEMMA ThrowsKeeps ==
  ASSUME IndexInv, NEW w \in Worker, job[w].at \in {"head", "metadata", "read"},
         NEW spent, spent = past \/ (MayHappen /\ spent = AnEvent), Throws(w, spent),
         UNCHANGED <<vault, row, saved, app, queue, drain>>
  PROVE  IndexInv'
<1> USE DEF IndexInv
<1> DEFINE path == job[w].path
           it == [job[w] EXCEPT !.at = "metadata", !.stat = None, !.was = None]
<1>1. path \in File /\ job[w] \in Job
  BY DEF Types, Places, Reading, Asking
<1>2. past \in Past /\ past.events \in 0 .. MaxEvents
  BY DEF Types, Past
<1>3. spent \in Past /\ spent.writes = past.writes /\ spent.met = past.met /\ spent.crossed = past.crossed
      /\ spent.drained = past.drained /\ spent.events >= past.events
  <2>1. CASE spent = past
    BY <1>2, <2>1
  <2>2. CASE MayHappen /\ spent = AnEvent
    <3>1. past.events + 1 \in 0 .. MaxEvents
      BY <1>2, <2>2, IndexAssumption DEF MayHappen
    <3> QED BY <1>2, <2>2, <3>1 DEF AnEvent, Past
  <2> QED BY <2>1, <2>2
<1>4. past' = [spent EXCEPT !.calm = FALSE, !.drained = @ \ {path}]
  BY DEF Throws
<1>5. /\ past' \in Past /\ ~past'.calm /\ past'.events >= past.events
      /\ past'.drained = past.drained \ {path}
      /\ past'.writes = past.writes /\ past'.met = past.met /\ past'.crossed = past.crossed
  BY <1>3, <1>4 DEF Past
<1>6. CASE w = "walk" /\ job[w].at # "metadata"
  <2>1. Goes(w, it) /\ UNCHANGED <<walk, cursor>>
    BY <1>6 DEF Throws, At
  <2>2. it \in Job /\ it.at = "metadata" /\ it.path = path
    BY <1>1 DEF Job, WalkPlace
  <2> HIDE DEF it
  <2>3. job'[w] = it
    BY <2>1, <2>2, GoesTo
  <2>4. HoldsTruth(w)'
    <3>1. it.says = None
      BY <1>1 DEF it, HoldsTruth, Job
    <3> QED BY <2>2, <2>3, <3>1 DEF HoldsTruth, Asking
  <2> QED BY <1>5, <1>6, <2>1, <2>2, <2>4, AdvanceKeeps DEF Reading, Asking
<1>7. CASE ~(w = "walk" /\ job[w].at # "metadata")
  <2>1. After(w)
    BY <1>7 DEF Throws, At
  <2>2. Under(path) = {path}
    BY <1>1, UnderFile
  <2>3. RowsTrue'
    BY <1>5 DEF RowsTrue, Current
  <2>4. row' \in [File -> Row \cup {None}]
    BY DEF Types
  <2>5. /\ job[w].at \in Reading \cup {"exists", "remove"}
        /\ \A f \in Under(path) : f \notin past'.drained
        /\ \A f \in File : f \notin Under(path) => row'[f] = row[f]
        /\ past'.drained \subseteq past.drained
    BY <1>5, <2>2 DEF Reading, Asking
  <2> QED BY <1>5, <2>1, <2>3, <2>4, <2>5, FinishKeeps
<1> QED BY <1>6, <1>7

LEMMA HeadKeeps == \A w \in Worker : IndexInv /\ Head(w) => IndexInv'
<1> SUFFICES ASSUME NEW w \in Worker, IndexInv, Head(w) PROVE IndexInv'
  OBVIOUS
<1> USE DEF IndexInv
<1> DEFINE path == job[w].path
           it == [job[w] EXCEPT !.at = IF At(w, "head") THEN "state" ELSE "write",
                                !.stat = vault[path].at]
<1>1. job[w].at \in {"head", "metadata"} /\ UNCHANGED <<vault, row, saved, app, queue, drain>>
  BY DEF Head, At
<1>2. path \in File /\ job[w] \in Job
  BY <1>1 DEF Types, Places, Reading, Asking
<1>3. CASE vault[path] = None
  BY <1>1, <1>3, ThrowsKeeps DEF Head
<1>4. CASE vault[path] # None
  <2>1. Goes(w, it) /\ UNCHANGED <<walk, cursor, past>>
    BY <1>4 DEF Head
  <2>2. vault[path].at \in Stamp /\ vault[path].at <= past.writes
    BY <1>2, <1>4 DEF Types, Entry, RowsTrue
  <2>3. /\ it \in Job /\ it.path = path /\ it.stat = vault[path].at
        /\ it.at = IF job[w].at = "head" THEN "state" ELSE "write"
    BY <1>1, <1>2, <2>2 DEF Job, WalkPlace, Asking, At
  <2>4. job[w].at = "metadata" => w = "walk"
    BY DEF Places, Worker, DrainPlace, Asking
  <2> HIDE DEF it
  <2>5. job'[w] = it
    BY <2>1, <2>3, GoesTo
  <2>6. Current(path, it.stat)
    BY <1>4, <2>3 DEF Current
  <2>7. HoldsTruth(w)'
    <3>1. it.says = job[w].says /\ it.says = None
      BY <1>1, <1>2 DEF HoldsTruth, it, Job
    <3> QED BY <1>1, <2>1, <2>2, <2>3, <2>4, <2>5, <3>1 DEF HoldsTruth, Asking
  <2>8. w = "drain" => DrainTrue'
    BY <1>1, <2>3, <2>5, <2>6 DEF DrainTrue, Current
  <2>9. w = "walk" /\ past'.calm => Looking'
    BY <1>1, <2>1, <2>3, <2>5, <2>6 DEF Calm, Looking, Current, Reading, Asking
  <2>10. past \in Past
    BY DEF Types
  <2> QED BY <1>1, <2>1, <2>2, <2>3, <2>4, <2>7, <2>8, <2>9, <2>10, AdvanceKeeps DEF Reading, Asking, Past
<1> QED BY <1>3, <1>4

(* A file whose stamp is its row's is left; any other is read.             *)
LEMMA StateKeeps == \A w \in Worker : IndexInv /\ State(w) => IndexInv'
<1> SUFFICES ASSUME NEW w \in Worker, NEW path, path = job[w].path, IndexInv, State(w) PROVE IndexInv'
  OBVIOUS
<1> USE DEF IndexInv
<1> DEFINE was == row[path]
           it == [job[w] EXCEPT !.at = "read", !.was = was]
<1>1. job[w].at = "state" /\ UNCHANGED <<vault, row, saved, app, queue, drain, past>>
  BY DEF State, At
<1>2. path \in File /\ job[w] \in Job /\ was \in Row \cup {None} /\ past \in Past
      /\ job[w].stat \in Stamp
  BY <1>1 DEF Types, Places, Reading, Asking
<1>3. CASE w = "walk" /\ was # None /\ was.at = job[w].stat /\ was.says # None
  <2>1. After(w)
    BY <1>3 DEF State
  <2>2. past'.calm => path \in past.met \/ Done(path)'
    <3> SUFFICES ASSUME past.calm, path \notin past.met PROVE Done(path)
      BY <1>1 DEF Done
    <3>1. Current(path, was.at)
      BY <1>1, <1>3 DEF Calm, Looking, Asking
    <3>2. was.says = vault[path].says /\ was.at = vault[path].at
      BY <1>2, <1>3, <3>1 DEF RowsTrue, Current
    <3>3. vault[path] \in Entry
      BY <1>2, <3>1 DEF Types, Current
    <3> QED BY <1>2, <1>3, <3>2, <3>3 DEF Done, Row, Entry
  <2>3. RowsTrue'
    BY <1>1 DEF RowsTrue, Current
  <2>4. row' \in [File -> Row \cup {None}]
    BY <1>1 DEF Types
  <2>5. job[w].at \in Reading \cup {"exists", "remove"} /\ past'.events >= past.events
        /\ \A f \in File : f \notin Under(path) => row'[f] = row[f]
    BY <1>1, <1>2 DEF Reading, Asking, Past
  <2> QED BY <1>1, <1>2, <1>3, <2>1, <2>2, <2>3, <2>4, <2>5, FinishKeeps
<1>4. CASE ~(w = "walk" /\ was # None /\ was.at = job[w].stat /\ was.says # None)
  <2>1. Goes(w, it) /\ UNCHANGED <<walk, cursor>>
    BY <1>4 DEF State
  <2>2. /\ it \in Job /\ it.path = path /\ it.stat = job[w].stat /\ it.at = "read" /\ it.was = was
        /\ it.says = job[w].says
    BY <1>2 DEF Job, WalkPlace, Asking
  <2> HIDE DEF it
  <2>3. job'[w] = it
    BY <2>1, <2>2, GoesTo
  <2>4. HoldsTruth(w)'
    BY <1>1, <2>2, <2>3 DEF HoldsTruth, Asking
  <2>5. w = "drain" => DrainTrue'
    BY <1>1, <2>2, <2>3 DEF DrainTrue, Current, Asking, Named
  <2>6. w = "walk" /\ past'.calm => Looking'
    BY <1>1, <2>1, <2>2, <2>3 DEF Calm, Looking, Current, Reading, Asking
  <2>7. job[w].at \in Reading \cup {"exists"} /\ it.at \in Reading /\ past.events >= past.events
    BY <1>1, <1>2, <2>2 DEF Reading, Asking, Past
  <2> QED BY <1>1, <1>2, <2>1, <2>2, <2>4, <2>5, <2>6, <2>7, AdvanceKeeps
<1> QED BY <1>3, <1>4

(* What is read is the file as it is by now; its stamp may be older.       *)
LEMMA ReadKeeps == \A w \in Worker : IndexInv /\ Read(w) => IndexInv'
<1> SUFFICES ASSUME NEW w \in Worker, NEW path, path = job[w].path, IndexInv, Read(w) PROVE IndexInv'
  OBVIOUS
<1> USE DEF IndexInv
<1> DEFINE file == vault[path]
           place == IF job[w].was # None /\ job[w].was.says = file.says THEN "touch" ELSE "write"
           it == [job[w] EXCEPT !.at = place, !.was = None, !.says = file.says]
<1>1. job[w].at = "read" /\ UNCHANGED <<vault, row, saved, app, queue, drain>>
  BY DEF Read, At
<1>2. path \in File /\ job[w] \in Job /\ file \in Entry \cup {None} /\ past \in Past
      /\ job[w].stat \in Stamp
  BY <1>1 DEF Types, Places, Reading, Asking
<1>3. CASE Throws(w, past)
  BY <1>1, <1>3, ThrowsKeeps
<1>4. CASE MayHappen /\ Throws(w, AnEvent)
  BY <1>1, <1>4, ThrowsKeeps
<1>5. CASE file # None /\ Goes(w, it) /\ UNCHANGED <<walk, cursor, past>>
  <2>1. file.says \in Stamp \cup File /\ file.says # None
    BY <1>2, <1>5, NoneAssumption, IndexAssumption DEF Entry, Stamp
  <2>2. /\ it \in Job /\ it.path = path /\ it.stat = job[w].stat /\ it.at = place
        /\ it.says = file.says
    <3>1. it = [job[w] EXCEPT !.at = place, !.was = None, !.says = file.says] /\ place \in {"touch", "write"}
      OBVIOUS
    <3> HIDE DEF it, place, file
    <3> QED BY <1>2, <2>1, <3>1 DEF Job, WalkPlace, Asking
  <2> HIDE DEF it
  <2>3. job'[w] = it
    BY <1>5, <2>2, GoesTo
  <2>4. HoldsTruth(w)'
    <3>1. HoldsTruth(w)
      OBVIOUS
    <3>2. it.at = "touch" => path \in past.met \/ (row[path] # None /\ row[path].says = it.says)
      BY <1>1, <2>2, <3>1 DEF HoldsTruth
    <3>3. it.stat <= past.writes /\ it.at \in {"touch", "write"}
      BY <1>1, <2>2, <3>1 DEF HoldsTruth, Asking
    <3> QED BY <1>1, <1>5, <2>1, <2>2, <2>3, <3>2, <3>3 DEF HoldsTruth, Current
  <2>5. w = "drain" => DrainTrue'
    BY <1>1, <2>2, <2>3 DEF DrainTrue, Current, Asking, Named
  <2>6. w = "walk" /\ past'.calm => Looking'
    BY <1>1, <1>5, <2>1, <2>2, <2>3 DEF Calm, Looking, Current, Reading, Asking
  <2>7. /\ job[w].at \in Reading \cup {"exists"} /\ it.at \in Reading /\ past.events >= past.events
        /\ it.at # "metadata"
    BY <1>1, <1>2, <2>2 DEF Reading, Asking, Past
  <2> QED BY <1>1, <1>2, <1>5, <2>2, <2>4, <2>5, <2>6, <2>7, AdvanceKeeps
<1> QED BY <1>1, <1>3, <1>4, <1>5 DEF Read

(* What is stored is true of the file, if its stamp still is.              *)
LEMMA StoreKeeps == \A w \in Worker : IndexInv /\ Store(w) => IndexInv'
<1> SUFFICES ASSUME NEW w \in Worker, NEW path, path = job[w].path, IndexInv, Store(w) PROVE IndexInv'
  OBVIOUS
<1> USE DEF IndexInv
<1> DEFINE stat == job[w].stat
           says == job[w].says
<1>1. /\ job[w].at \in {"touch", "write"} /\ After(w) /\ Drained(w, {path})
      /\ UNCHANGED <<vault, saved, app, queue, drain>>
  BY DEF Store, At
<1>2. path \in File /\ job[w] \in Job /\ row \in [File -> Row \cup {None}] /\ past \in Past
      /\ stat \in Stamp
  BY <1>1 DEF Types, Places, Reading, Asking
<1>3. HoldsTruth(w) /\ stat <= past.writes
  BY <1>1 DEF HoldsTruth, Asking
<1>4. row' = [row EXCEPT ![path] =
        IF job[w].at = "write" THEN [at |-> stat, says |-> says]
        ELSE IF row[path] = None THEN None ELSE [row[path] EXCEPT !.at = stat]]
  BY DEF Store, At
<1>5. /\ row' \in [File -> Row \cup {None}]
      /\ \A f \in File \ {path} : row'[f] = row[f]
      /\ row'[path] # None => row'[path].at = stat
      /\ row'[path] # None /\ path \notin past.met => row'[path].says = says
      /\ job[w].at = "write" => row'[path] # None
      /\ row'[path] = None => path \in past.met
  <2>1. CASE job[w].at = "write"
    <3>1. [at |-> stat, says |-> says] \in Row /\ [at |-> stat, says |-> says] # None
      BY <1>2, NoneAssumption, IndexAssumption DEF Job, Row, Stamp
    <3> QED BY <1>2, <1>4, <2>1, <3>1
  <2>2. CASE job[w].at = "touch"
    <3>1. row[path] # None =>
            /\ [row[path] EXCEPT !.at = stat] \in Row /\ [row[path] EXCEPT !.at = stat] # None
            /\ [row[path] EXCEPT !.at = stat].at = stat
            /\ [row[path] EXCEPT !.at = stat].says = row[path].says
      BY <1>2, NoneAssumption, IndexAssumption DEF Row, Stamp
    <3>2. path \in past.met \/ (row[path] # None /\ row[path].says = says)
      BY <1>3, <2>2 DEF HoldsTruth
    <3> QED BY <1>2, <1>4, <2>2, <3>1, <3>2
  <2> QED BY <1>1, <2>1, <2>2
<1>6. says # None /\ Current(path, stat) => says = vault[path].says
  BY <1>1, <1>3 DEF HoldsTruth
<1>7. ASSUME path \notin past.met, says # None, Current(path, stat)
      PROVE  row'[path] = vault[path] /\ vault[path] # None
  <2>1. row'[path] \in Row /\ row'[path].at = stat /\ row'[path].says = says
    BY <1>2, <1>5, <1>7
  <2>2. vault[path] \in Entry /\ vault[path].at = stat /\ vault[path].says = says
    BY <1>2, <1>6, <1>7 DEF Current, Types
  <2> QED BY <1>7, <2>1, <2>2 DEF Row, Entry, Current
<1>8. past' = IF w = "walk" \/ ~app.watching THEN past
              ELSE [past EXCEPT !.drained = @ \cup ({path} \ past.met)]
  BY <1>1 DEF Drained
<1>9. /\ past' \in Past /\ past'.calm = past.calm /\ past'.events = past.events
      /\ past'.writes = past.writes /\ past'.met = past.met /\ past'.crossed = past.crossed
      /\ past'.drained = IF w = "walk" \/ ~app.watching THEN past.drained
                         ELSE past.drained \cup ({path} \ past.met)
  BY <1>2, <1>8 DEF Past
<1>10. RowsTrue'
  <2>1. ASSUME NEW f \in File \ {path}
        PROVE  /\ vault[f] # None => vault[f].at <= past.writes
               /\ row'[f] # None => row'[f].at <= past.writes
               /\ row'[f] # None /\ row'[f].says # None /\ f \notin past.met /\ Current(f, row'[f].at)
                    => row'[f].says = vault[f].says
    BY <1>5 DEF RowsTrue
  <2>2. /\ vault[path] # None => vault[path].at <= past.writes
        /\ row'[path] # None => row'[path].at <= past.writes
        /\ row'[path] # None /\ row'[path].says # None /\ path \notin past.met /\ Current(path, row'[path].at)
             => row'[path].says = vault[path].says
    BY <1>2, <1>3, <1>5, <1>6 DEF RowsTrue
  <2> QED BY <1>1, <1>9, <2>1, <2>2 DEF RowsTrue, Current
<1>11. Under(path) = {path}
  BY <1>2, UnderFile
<1>12. ASSUME w = "drain", app.watching, NEW f \in Under(path),
              f \in past'.drained \ (app.rule \cup past.crossed)
       PROVE  Level(f)' \/ Named(f)
  <2>1. f = path /\ f \notin past.met
    BY <1>9, <1>11, <1>12 DEF Meetings
  <2>2. says # None
    BY <1>1, <1>3, <1>12 DEF HoldsTruth
  <2>3. Named(path) \/ Current(path, stat)
    BY <1>1, <1>12 DEF DrainTrue, Asking
  <2> QED BY <1>1, <1>7, <1>12, <2>1, <2>2, <2>3 DEF Level
<1>13. w = "walk" /\ past'.calm => path \in past.met \/ Done(path)'
  <2> SUFFICES ASSUME w = "walk", past.calm, path \notin past.met PROVE Done(path)'
    BY <1>9
  <2>1. Looking
    BY DEF Calm
  <2>2. Current(path, stat) /\ says # None
    BY <1>1, <1>3, <2>1 DEF Looking, Asking, HoldsTruth
  <2> QED BY <1>1, <1>7, <2>2 DEF Done
<1>14. job[w].at \in Reading \cup {"exists", "remove"} /\ past'.events >= past.events
       /\ \A f \in File : f \notin Under(path) => row'[f] = row[f]
  BY <1>1, <1>2, <1>5, <1>9, <1>11 DEF Reading, Asking, Past
<1>15. /\ past'.drained \subseteq past.drained \cup (Under(path) \ past.met)
       /\ w = "walk" \/ ~app.watching => past'.drained \subseteq past.drained
  BY <1>9, <1>11
<1> QED BY <1>1, <1>5, <1>9, <1>10, <1>12, <1>13, <1>14, <1>15, FinishKeeps

(* A path the masks leave out is left, one that is gone is to be removed.  *)
LEMMA IndexPathKeeps == IndexInv /\ indexPath => IndexInv'
<1> SUFFICES ASSUME IndexInv, NEW path, path = job["drain"].path, indexPath PROVE IndexInv'
  OBVIOUS
<1> USE DEF IndexInv
<1> DEFINE it == [job["drain"] EXCEPT !.at = IF vault[path] = None THEN "remove" ELSE "head"]
<1>1. job["drain"].at = "exists" /\ UNCHANGED <<vault, row, saved, app, queue, drain, past>>
  BY DEF indexPath, At
<1>2. path \in File /\ job["drain"] \in Job /\ past \in Past /\ past.events >= past.events
      /\ job["drain"].says = None
  BY <1>1 DEF Places, Types, Worker, Past, HoldsTruth
<1>3. CASE path \in app.rule
  <2>1. After("drain")
    BY <1>3 DEF indexPath
  <2>2. RowsTrue'
    BY <1>1 DEF RowsTrue, Current
  <2>3. row' \in [File -> Row \cup {None}] /\ \A f \in File : f \notin Under(path) => row'[f] = row[f]
    BY <1>1 DEF Types
  <2>4. Under(path) = {path}
    BY <1>2, UnderFile
  <2>5. "drain" \in Worker /\ job["drain"].at \in Reading \cup {"exists", "remove"} /\ "drain" # "walk"
    BY <1>1 DEF Worker
  <2>6. \A f \in Under(path) : f \notin past'.drained \ (app.rule \cup past.crossed)
    BY <1>3, <2>4
  <2> QED BY <1>1, <1>2, <2>1, <2>2, <2>3, <2>5, <2>6, FinishKeeps
<1>4. CASE path \notin app.rule
  <2>1. Goes("drain", it) /\ UNCHANGED <<walk, cursor>>
    BY <1>4 DEF indexPath
  <2>2. /\ it \in Job /\ it.path = path /\ it.says = None
        /\ it.at = IF vault[path] = None THEN "remove" ELSE "head"
    BY <1>2 DEF Job, DrainPlace
  <2> HIDE DEF it
  <2>3. job'["drain"] = it /\ "drain" \in Worker
    BY <2>1, <2>2, GoesTo DEF Worker
  <2>4. HoldsTruth("drain")' /\ DrainTrue'
    BY <2>2, <2>3 DEF HoldsTruth, DrainTrue, Asking
  <2> QED BY <1>1, <1>2, <2>1, <2>2, <2>3, <2>4, AdvanceKeeps DEF Reading, Asking
<1> QED BY <1>3, <1>4

(* A removal removes what is gone, or named again.                         *)
LEMMA RemovePathKeeps == IndexInv /\ removePath => IndexInv'
<1> SUFFICES ASSUME IndexInv, NEW path, path = job["drain"].path, removePath PROVE IndexInv'
  OBVIOUS
<1> USE DEF IndexInv
<1>1. /\ job["drain"].at = "remove" /\ After("drain") /\ Drained("drain", Under(path) \ app.rule)
      /\ row' = [f \in File |-> IF f \in Under(path) THEN None ELSE row[f]]
      /\ UNCHANGED <<vault, saved, app, queue, drain>>
  BY DEF removePath, At
<1>2. path \in File \cup {Folder} /\ past \in Past /\ "drain" \in Worker
  BY <1>1 DEF Places, Types, Worker, Job
<1>3. Under(path) \in SUBSET File
  BY <1>2, UnderFiles
<1>4. past' = IF ~app.watching THEN past
              ELSE [past EXCEPT !.drained = @ \cup ((Under(path) \ app.rule) \ past.met)]
  BY <1>1 DEF Drained
<1>5. /\ past' \in Past /\ past'.calm = past.calm /\ past'.events = past.events
      /\ past'.writes = past.writes /\ past'.met = past.met /\ past'.crossed = past.crossed
      /\ past'.drained \subseteq past.drained \cup (Under(path) \ past.met)
      /\ ~app.watching => past'.drained \subseteq past.drained
      /\ past'.events >= past.events
  BY <1>2, <1>3, <1>4 DEF Past
<1>6. row' \in [File -> Row \cup {None}] /\ \A f \in File : f \notin Under(path) => row'[f] = row[f]
  BY <1>1 DEF Types
<1>7. RowsTrue'
  BY <1>1, <1>5 DEF RowsTrue, Current
<1>8. ASSUME app.watching, NEW f \in Under(path), f \in past'.drained \ (app.rule \cup past.crossed)
      PROVE  Level(f)' \/ Named(f)
  <2>1. f \in File /\ (vault[f] = None \/ Named(f))
    BY <1>1, <1>3, <1>8 DEF Removals
  <2>2. row'[f] = None
    BY <1>1, <2>1, <1>8
  <2> QED BY <1>1, <2>1, <2>2 DEF Level
<1>9. job["drain"].at \in Reading \cup {"exists", "remove"} /\ "drain" # "walk"
  BY <1>1
<1> QED BY <1>1, <1>2, <1>5, <1>6, <1>7, <1>8, <1>9, FinishKeeps

-----------------------------------------------------------------------------
(* The drain goes to its next path, or its next pass.                      *)
LEMMA DrainMoves ==
  ASSUME IndexInv, NEW it \in Job, Goes("drain", it),
         app.watching \/ job["drain"].at # "none",
         \/ it.at \in {"none", "next"} /\ it.path = None
         \/ it.at = "exists" /\ it.path \in File
         \/ it.at = "remove" /\ it.path \in File \cup {Folder},
         it.at = "exists" => it.says = None,
         UNCHANGED <<vault, row, cursor, saved, app, walk>>,
         queue' \in [toIndex : SUBSET File, toRemove : SUBSET (File \cup {Folder}), timer : BOOLEAN],
         ~app.watching => queue' = queue,
         drain' \in [pass : {"index", "remove"}, todo : SUBSET (File \cup {Folder})],
         drain'.pass = "index" => drain'.todo \subseteq File,
         it.at = "none" => drain' = NoDrain,
         past' \in Past, past'.calm = past.calm, past'.events = past.events, past'.writes = past.writes,
         past'.drained = past.drained, past.met \subseteq past'.met,
         past'.drained \cap past'.met = {},
         job["walk"].path # None /\ job["walk"].path \in Under(it.path) => job["walk"].path \in past'.met,
         Removals', DrainCatchesUp', past.calm => Still'
  PROVE  IndexInv'
<1> USE DEF IndexInv
<1>1. /\ job' \in [Worker -> Job] /\ job'["drain"] = it /\ job'["walk"] = job["walk"]
  BY GoesTo DEF Worker
<1>2. Types'
  BY <1>1 DEF Types
<1>3. Places'
  BY <1>1, NoneAssumption DEF Places, Reading, Asking, Worker, WalkPlace, DrainPlace
<1>4. Asked'
  BY DEF Asked
<1>5. Stages'
  BY <1>1 DEF Stages
<1>6. Meetings'
  BY <1>1 DEF Meetings
<1>7. RowsTrue'
  BY DEF RowsTrue, Current
<1>8. \A w \in Worker : HoldsTruth(w)'
  BY <1>1 DEF HoldsTruth, Current, Worker, Asking
<1>9. DrainTrue'
  BY <1>1 DEF DrainTrue, Asking
<1>10. Settled'
  BY <1>1 DEF Settled
<1>11. Calm'
  <2> SUFFICES ASSUME past.calm PROVE (Still /\ BehindCursor /\ BehindWalk /\ Looking /\ Sweeping)'
    BY DEF Calm
  <2>1. BehindCursor'
    BY DEF Calm, BehindCursor, Done
  <2>2. BehindWalk'
    BY <1>1 DEF Calm, BehindWalk, Behind, Done, Walking
  <2>3. Looking'
    BY <1>1 DEF Calm, Looking, Current
  <2>4. Sweeping'
    BY <1>1 DEF Calm, Sweeping, Done
  <2> QED BY <2>1, <2>2, <2>3, <2>4
<1> QED BY <1>2, <1>3, <1>4, <1>5, <1>6, <1>7, <1>8, <1>9, <1>10, <1>11

LEMMA TimerKeeps == IndexInv /\ TimerFires => IndexInv'
<1> SUFFICES ASSUME IndexInv, TimerFires PROVE IndexInv'
  OBVIOUS
<1> USE DEF IndexInv
<1>1. /\ queue.timer /\ queue' = [queue EXCEPT !.timer = FALSE]
      /\ UNCHANGED <<vault, row, cursor, saved, app, walk, past>>
  BY DEF TimerFires
<1>2. /\ queue' \in [toIndex : SUBSET File, toRemove : SUBSET (File \cup {Folder}), timer : BOOLEAN]
      /\ queue'.toIndex = queue.toIndex /\ queue'.toRemove = queue.toRemove
  BY <1>1 DEF Types
<1>3. app.watching
  BY <1>1 DEF Stages, NoQueue
<1>4. \A f \in File : Named(f)' <=> Named(f)
  BY <1>2 DEF Named
<1>5. CASE job["drain"].at = "none"
  <2> DEFINE it == [NoJob EXCEPT !.at = "next"]
  <2>1. Goes("drain", it) /\ drain' = NoDrain
    BY <1>5 DEF TimerFires, At
  <2>2. it \in Job /\ it.at = "next" /\ it.path = None /\ it.says = None
    BY DEF NoJob, Job, DrainPlace
  <2> HIDE DEF it
  <2>3. drain = NoDrain /\ job["drain"].path = None
    BY <1>5 DEF Places, Worker, Reading, Asking
  <2>4. job'["drain"] = it /\ job'["walk"] = job["walk"]
    BY <2>1, <2>2, GoesTo DEF Worker
  <2>5. Removals'
    BY <1>1, <1>2, <1>4, <2>1, <2>2, <2>3, <2>4 DEF Removals, Removed
  <2>6. DrainCatchesUp'
    <3>1. \A f \in File : Pending(f) => Pending(f)'
      BY <1>4, <2>1, <2>2, <2>3, <2>4, PendingIs, PendingNext DEF Removed
    <3>2. \A f \in File : Level(f)' <=> Level(f)
      BY <1>1 DEF Level
    <3> QED BY <1>1, <3>1, <3>2 DEF DrainCatchesUp, Types, Past
  <2>7. past.calm => Still'
    BY <1>2, <2>1, <2>2, <2>4 DEF Calm, Still
  <2>8. /\ drain' \in [pass : {"index", "remove"}, todo : SUBSET (File \cup {Folder})]
        /\ drain'.todo \subseteq File
    BY <2>1 DEF NoDrain
  <2>9. past' \in Past /\ past'.drained \cap past'.met = {}
    BY <1>1 DEF Types, Meetings
  <2>10. job["walk"].path # None => job["walk"].path \notin Under(it.path)
    BY <2>2, NoneAssumption DEF Under
  <2> QED BY <1>1, <1>2, <1>3, <2>1, <2>2, <2>5, <2>6, <2>7, <2>8, <2>9, <2>10, DrainMoves
<1>6. CASE job["drain"].at # "none"
  <2>1. UNCHANGED <<job, drain>>
    BY <1>6 DEF TimerFires, At
  <2>2. Types' /\ Places' /\ Asked' /\ Stages' /\ Meetings' /\ RowsTrue'
    BY <1>1, <1>2, <1>3, <2>1 DEF Types, Places, Asked, Stages, Meetings, RowsTrue, Current
  <2>3. \A w \in Worker : HoldsTruth(w)'
    BY <1>1, <2>1 DEF HoldsTruth, Current
  <2>4. Removals' /\ DrainTrue'
    BY <1>1, <1>2, <1>4, <2>1 DEF Removals, Removed, DrainTrue, Named, Current
  <2>5. DrainCatchesUp'
    <3>1. \A f \in File : Pending(f) => Pending(f)'
      BY <1>4, <2>1, PendingIs, PendingNext DEF Removed
    <3>2. \A f \in File : Level(f)' <=> Level(f)
      BY <1>1 DEF Level
    <3> QED BY <1>1, <3>1, <3>2 DEF DrainCatchesUp, Types, Past
  <2>6. Settled' /\ Calm'
    BY <1>1, <1>2, <2>1 DEF Settled, Calm, Still, BehindCursor, BehindWalk, Behind, Done, Walking, Looking,
                            Current, Sweeping
  <2> QED BY <2>2, <2>3, <2>4, <2>5, <2>6
<1> QED BY <1>5, <1>6

LEMMA DrainNextKeeps == IndexInv /\ DrainNext => IndexInv'
<1> SUFFICES ASSUME IndexInv, DrainNext PROVE IndexInv'
  OBVIOUS
<1> USE DEF IndexInv
<1>1. job["drain"].at = "next" /\ UNCHANGED <<vault, row, cursor, saved, app, walk>>
  BY DEF DrainNext, At
<1>2. /\ job["drain"].path = None
      /\ job["drain"] \in Job /\ "drain" \in Worker /\ past \in Past
      /\ drain \in [pass : {"index", "remove"}, todo : SUBSET (File \cup {Folder})]
      /\ queue \in [toIndex : SUBSET File, toRemove : SUBSET (File \cup {Folder}), timer : BOOLEAN]
  BY <1>1 DEF Places, Types, Worker, Reading, Asking
<1>3. past.drained \cap past.met = {} /\ job["walk"].path \notin past.drained
  BY DEF Meetings
<1>4. ~past.calm \/ Still
  BY DEF Calm
<1>5. \A f \in File : Level(f)' <=> Level(f)
  BY <1>1 DEF Level
<1>6. \A f \in File : f \notin Under(job["drain"].path)
  BY <1>1, UnderNone DEF Places, Worker, Reading, Asking
<1>7. ASSUME NEW path \in drain.todo,
             drain' = [drain EXCEPT !.todo = @ \ {path}],
             Goes("drain", [NoJob EXCEPT !.path = path,
                                         !.at = IF drain.pass = "remove" THEN "remove" ELSE "exists"]),
             past' = [past EXCEPT !.met = @ \cup (Under(path) \cap {job["walk"].path})],
             UNCHANGED queue
      PROVE  IndexInv'
  <2> DEFINE it == [NoJob EXCEPT !.path = path,
                                 !.at = IF drain.pass = "remove" THEN "remove" ELSE "exists"]
  <2>1. path \in File \cup {Folder} /\ (drain.pass = "index" => path \in File)
    BY <1>2 DEF Places
  <2>2. /\ it \in Job /\ it.path = path /\ it.says = None
        /\ it.at = IF drain.pass = "remove" THEN "remove" ELSE "exists"
    BY <2>1 DEF NoJob, Job, DrainPlace
  <2>3. Goes("drain", it)
    BY <1>7
  <2> HIDE DEF it
  <2>4. job'["drain"] = it /\ job'["walk"] = job["walk"]
    BY <1>2, <2>2, <2>3, GoesTo DEF Worker
  <2>5. Under(path) \in SUBSET File
    BY <2>1, UnderFiles
  <2>6. /\ drain' \in [pass : {"index", "remove"}, todo : SUBSET (File \cup {Folder})]
        /\ drain'.pass = drain.pass /\ drain'.todo = drain.todo \ {path}
    BY <1>2, <1>7
  <2>7. /\ past' \in Past /\ past'.calm = past.calm /\ past'.events = past.events
        /\ past'.writes = past.writes /\ past'.drained = past.drained /\ past'.crossed = past.crossed
        /\ past'.met = past.met \cup (Under(path) \cap {job["walk"].path})
    BY <1>2, <1>7, <2>5 DEF Past
  <2>8. Removals'
    BY <1>1, <1>7, <2>2, <2>4, <2>6, <2>7 DEF Removals, Removed, Named
  <2>9. DrainCatchesUp'
    <3>1. ASSUME NEW f \in File, Pending(f) PROVE Pending(f)'
      <4>1. Removed(f, drain.todo) => Removed(f, drain'.todo) \/ f \in Under(path)
        BY <2>6 DEF Removed
      <4> QED BY <1>6, <1>7, <2>2, <2>4, <3>1, <4>1, PendingIs, PendingNext DEF Named, Removed
    <3> QED BY <1>1, <1>2, <1>5, <2>7, <3>1 DEF DrainCatchesUp, Past
  <2>10. ~past.calm
    BY <1>4 DEF Still, NoDrain
  <2>11. past'.drained \cap past'.met = {} /\ past.met \subseteq past'.met
    BY <1>3, <2>7
  <2>12. job["walk"].path \in Under(it.path) => job["walk"].path \in past'.met
    BY <2>2, <2>7
  <2>13. drain'.pass = "index" => drain'.todo \subseteq File
    BY <2>6 DEF Places
  <2>14. \/ it.at = "exists" /\ it.path \in File
         \/ it.at = "remove" /\ it.path \in File \cup {Folder}
    BY <1>2, <2>1, <2>2
  <2>15. queue' \in [toIndex : SUBSET File, toRemove : SUBSET (File \cup {Folder}), timer : BOOLEAN]
    BY <1>2, <1>7
  <2> QED BY <1>1, <1>7, <2>2, <2>3, <2>6, <2>7, <2>8, <2>9, <2>10, <2>11, <2>12, <2>13, <2>14, <2>15, DrainMoves
<1>8. ASSUME drain.todo = {},
             drain.pass = "remove" \/ (queue.toRemove = {} /\ queue.toIndex # {}),
             take("toIndex", "index"),
             past' = [past EXCEPT !.crossed = @ \cup
                       (queue.toIndex \cap UNION {Under(path) : path \in queue.toRemove})]
      PROVE  IndexInv'
  <2>1. UNCHANGED job /\ drain' = [pass |-> "index", todo |-> queue.toIndex]
        /\ queue' = [queue EXCEPT !["toIndex"] = {}]
    BY <1>8 DEF take
  <2>2. Goes("drain", job["drain"])
    BY <2>1 DEF Goes, Types
  <2>3. /\ queue' \in [toIndex : SUBSET File, toRemove : SUBSET (File \cup {Folder}), timer : BOOLEAN]
        /\ queue'.toIndex = {} /\ queue'.toRemove = queue.toRemove /\ queue'.timer = queue.timer
    BY <1>2, <2>1
  <2>4. ~app.watching => queue' = queue
    BY <1>2, <2>3 DEF Stages, NoQueue
  <2>5. /\ past' \in Past /\ past'.calm = past.calm /\ past'.events = past.events
        /\ past'.writes = past.writes /\ past'.drained = past.drained /\ past'.met = past.met
        /\ past'.crossed = past.crossed \cup (queue.toIndex \cap UNION {Under(path) : path \in queue.toRemove})
    BY <1>2, <1>8 DEF Past
  <2>6. Removals'
    <3>1. \A f \in queue.toIndex : Removed(f, queue.toRemove) => f \in past'.crossed
      BY <2>5 DEF Removed
    <3> QED BY <1>1, <1>6, <2>1, <2>3, <2>5, <3>1 DEF Removals, Removed
  <2>7. DrainCatchesUp'
    <3>1. ASSUME NEW f \in File, Pending(f) PROVE Pending(f)'
      BY <1>8, <2>1, <2>3, <3>1, PendingIs, PendingNext DEF Named, Removed
    <3> QED BY <1>1, <1>2, <1>5, <2>5, <3>1 DEF DrainCatchesUp, Past
  <2>8. ~past.calm
    BY <1>4, <1>8 DEF Still, NoDrain
  <2>9. /\ job["drain"].path = None
        /\ job["walk"].path # None => job["walk"].path \notin Under(job["drain"].path)
    BY <1>1, NoneAssumption DEF Places, Worker, Reading, Asking, Under
  <2> QED BY <1>1, <1>2, <1>3, <2>1, <2>2, <2>3, <2>4, <2>5, <2>6, <2>7, <2>8, <2>9, DrainMoves
<1>9. ASSUME drain.todo = {}, drain.pass = "index", queue.toRemove # {}, take("toRemove", "remove"),
             UNCHANGED past
      PROVE  IndexInv'
  <2>1. UNCHANGED job /\ drain' = [pass |-> "remove", todo |-> queue.toRemove]
        /\ queue' = [queue EXCEPT !["toRemove"] = {}]
    BY <1>9 DEF take
  <2>2. Goes("drain", job["drain"])
    BY <2>1 DEF Goes, Types
  <2>3. /\ queue' \in [toIndex : SUBSET File, toRemove : SUBSET (File \cup {Folder}), timer : BOOLEAN]
        /\ queue'.toIndex = queue.toIndex /\ queue'.toRemove = {} /\ queue'.timer = queue.timer
    BY <1>2, <2>1
  <2>4. ~app.watching => queue' = queue
    BY <1>2, <2>3 DEF Stages, NoQueue
  <2>5. Removals'
    <3>1. \A f \in queue.toIndex \cap File : Named(f)'
      BY <2>3, UnderFile DEF Named
    <3> QED BY <1>1, <1>6, <1>9, <2>1, <2>3, <3>1 DEF Removals, Removed
  <2>6. DrainCatchesUp'
    <3>1. ASSUME NEW f \in File, Pending(f) PROVE Pending(f)'
      BY <1>9, <2>1, <2>3, <3>1, PendingIs, PendingNext DEF Named, Removed
    <3> QED BY <1>1, <1>2, <1>5, <1>9, <3>1 DEF DrainCatchesUp, Past
  <2>7. ~past.calm
    BY <1>4, <1>9 DEF Still
  <2>8. /\ job["drain"].path = None
        /\ job["walk"].path # None => job["walk"].path \notin Under(job["drain"].path)
    BY <1>1, NoneAssumption DEF Places, Worker, Reading, Asking, Under
  <2> QED BY <1>1, <1>2, <1>3, <1>9, <2>1, <2>2, <2>3, <2>4, <2>5, <2>6, <2>7, <2>8, DrainMoves
<1>10. ASSUME drain.todo = {}, drain.pass = "index", queue.toIndex \cup queue.toRemove = {},
              Goes("drain", NoJob), UNCHANGED <<drain, queue, past>>
       PROVE  IndexInv'
  <2>1. NoJob \in Job /\ NoJob.at = "none" /\ NoJob.path = None /\ NoJob.says = None
    BY DEF NoJob, Job, DrainPlace
  <2>2. job'["drain"] = NoJob /\ job'["walk"] = job["walk"]
    BY <1>2, <1>10, <2>1, GoesTo DEF Worker
  <2>3. drain = NoDrain
    BY <1>2, <1>10 DEF NoDrain
  <2>4. Removals'
    BY <1>1, <1>10, <2>1, <2>2 DEF Removals, Removed, Named
  <2>5. DrainCatchesUp'
    <3>1. \A f \in File : ~Pending(f)
      BY <1>6, <1>10, PendingIs DEF Named, Removed
    <3> QED BY <1>1, <1>2, <1>5, <1>10, <3>1 DEF DrainCatchesUp, Past
  <2>6. past.calm => Still'
    BY <1>4, <1>10, <2>1, <2>2 DEF Still
  <2>7. job["walk"].path # None => job["walk"].path \notin Under(NoJob.path)
    BY <2>1, NoneAssumption DEF Under
  <2> QED BY <1>1, <1>2, <1>3, <1>10, <2>1, <2>3, <2>4, <2>5, <2>6, <2>7, DrainMoves DEF NoDrain
<1> QED BY <1>7, <1>8, <1>9, <1>10 DEF DrainNext

-----------------------------------------------------------------------------
(* The walk goes from one place to another; it writes no row, and may      *)
(* remove those no drain has in hand but what is known to have met.        *)
LEMMA WalkMoves ==
  ASSUME IndexInv, NEW it \in Job, Goes("walk", it),
         job["walk"].at # "none" \/ app.indexer,
         \/ it.at \in {"none", "clear", "begin", "next", "sweep", "drop"} /\ it.path = None
         \/ it.at = "head" /\ it.path \in File /\ it.says = None,
         UNCHANGED <<vault, saved, app, queue, drain>>,
         row' \in [File -> Row \cup {None}],
         cursor' \in (SUBSET File) \cup {None},
         walk' \in [left : (SUBSET File) \cup {None}, visited : SUBSET File, since : 0 .. Batch - 1,
                    cancelled : BOOLEAN, waiting : Nat],
         it.at \in {"drop", "head"} => walk'.left # None,
         Asked', past' \in Past, past'.writes = past.writes, past'.crossed = past.crossed,
         past.met \subseteq past'.met, past'.drained \subseteq past.drained,
         past'.drained \cap past'.met = {}, it.path \notin past'.drained,
         it.path # None /\ it.path \in Under(job["drain"].path) => it.path \in past'.met,
         \A f \in File : \/ row'[f] = row[f]
                         \/ /\ row'[f] = None /\ f \notin past'.drained
                            /\ f \in past'.met \/ f \notin Under(job["drain"].path),
         Settled', Calm'
  PROVE  IndexInv'
<1> USE DEF IndexInv
<1>1. /\ job' \in [Worker -> Job] /\ job'["walk"] = it /\ job'["drain"] = job["drain"]
  BY GoesTo DEF Worker
<1>2. Types'
  BY <1>1 DEF Types
<1>3. Places'
  BY <1>1, NoneAssumption DEF Places, Reading, Asking, Worker, WalkPlace, DrainPlace
<1>4. Stages'
  <2>1. app.boot = "done" /\ app.db
    BY DEF Stages
  <2> QED BY <1>1, <2>1 DEF Stages
<1>5. Meetings'
  BY <1>1 DEF Meetings
<1>6. RowsTrue'
  BY DEF RowsTrue, Current
<1>7. \A w \in Worker : HoldsTruth(w)'
  <2>1. HoldsTruth("walk")'
    BY <1>1 DEF HoldsTruth, Asking
  <2>2. HoldsTruth("drain")'
    <3>1. HoldsTruth("drain")
      BY DEF Worker
    <3>2. CASE job["drain"].at \notin Asking
      BY <1>1, <3>1, <3>2 DEF HoldsTruth, Asking
    <3>3. CASE job["drain"].at \in Asking
      <4> DEFINE path == job["drain"].path
      <4>1. path \in File /\ Under(path) = {path}
        BY <3>3, UnderFile DEF Places, Worker, Reading
      <4>2. path \in past'.met \/ row'[path] = row[path]
        BY <4>1
      <4> QED BY <1>1, <3>1, <4>2 DEF HoldsTruth, Current
    <3> QED BY <3>2, <3>3
  <2> QED BY <2>1, <2>2 DEF Worker
<1>8. Removals' /\ DrainTrue'
  BY <1>1 DEF Removals, Removed, Named, DrainTrue, Current
<1>9. DrainCatchesUp'
  <2>1. \A f \in File : Pending(f)' <=> Pending(f)
    BY <1>1, PendingIs, PendingNext DEF Named, Removed
  <2>2. \A f \in past'.drained : f \in past.drained /\ f \in File /\ (Level(f)' <=> Level(f))
    BY DEF Level, Past
  <2> QED BY <2>1, <2>2 DEF DrainCatchesUp
<1> QED BY <1>2, <1>3, <1>4, <1>5, <1>6, <1>7, <1>8, <1>9

(* What the walk touches no longer counts as drained, and has met what     *)
(* the drain has in hand.                                                  *)
LEMMA Touching ==
  ASSUME IndexInv, NEW paths \in SUBSET File, WalkTouches(paths)
  PROVE  /\ past' \in Past /\ past'.writes = past.writes /\ past'.crossed = past.crossed
         /\ past'.calm = past.calm /\ past'.events = past.events
         /\ past'.drained = past.drained \ paths
         /\ past'.met = past.met \cup (paths \cap Under(job["drain"].path))
         /\ past.met \subseteq past'.met /\ past'.drained \subseteq past.drained
         /\ past'.drained \cap past'.met = {}
<1>1. past \in Past /\ past.drained \cap past.met = {}
  BY DEF IndexInv, Types, Meetings
<1> QED BY <1>1 DEF WalkTouches, Past

(* The walk makes way for the rebuild that waits.                          *)
LEMMA Ends ==
  ASSUME IndexInv, WalkEnds, UNCHANGED app, past'.events = past.events
  PROVE  \E it \in Job :
           /\ Goes("walk", it) /\ it.at \in {"none", "clear"} /\ it.path = None
           /\ walk' \in [left : (SUBSET File) \cup {None}, visited : SUBSET File, since : 0 .. Batch - 1,
                         cancelled : BOOLEAN, waiting : Nat]
           /\ walk'.visited = {}
           /\ Asked'
<1> DEFINE it == [NoJob EXCEPT !.at = IF walk.waiting > 0 THEN "clear" ELSE "none"]
           rest == IF walk.waiting > 0 THEN walk.waiting - 1 ELSE 0
<1>1. walk.waiting \in Nat /\ app.asked \in Nat /\ past.events \in Nat
  BY IndexAssumption DEF IndexInv, Types, App, Past
<1>2. rest \in Nat /\ rest <= walk.waiting
  BY <1>1
<1>3. walk' = [NoWalk EXCEPT !.waiting = rest] /\ Goes("walk", it)
  BY DEF WalkEnds
<1>4. it \in Job /\ it.at \in {"none", "clear"} /\ it.path = None
  BY DEF NoJob, Job, WalkPlace
<1> HIDE DEF it, rest
<1>5. 0 \in 0 .. Batch - 1
  BY IndexAssumption
<1>6. /\ walk' \in [left : (SUBSET File) \cup {None}, visited : SUBSET File, since : 0 .. Batch - 1,
                    cancelled : BOOLEAN, waiting : Nat]
      /\ walk'.visited = {} /\ walk'.waiting = rest
  BY <1>2, <1>3, <1>5 DEF NoWalk
<1>7. Asked'
  BY <1>1, <1>2, <1>6 DEF IndexInv, Asked
<1> QED BY <1>3, <1>4, <1>6, <1>7

LEMMA ClearKeeps == IndexInv /\ clear => IndexInv'
<1> SUFFICES ASSUME IndexInv, clear PROVE IndexInv'
  OBVIOUS
<1> USE DEF IndexInv
<1> DEFINE it == [NoJob EXCEPT !.at = "begin"]
<1>1. /\ job["walk"].at = "clear" /\ Goes("walk", it) /\ WalkTouches(File)
      /\ row' = [f \in File |-> None] /\ cursor' = None /\ walk' = [walk EXCEPT !.cancelled = FALSE]
      /\ UNCHANGED <<vault, saved, app, queue, drain>>
  BY DEF clear, At
<1>2. it \in Job /\ it.at = "begin" /\ it.path = None
  BY DEF NoJob, Job, WalkPlace
<1> HIDE DEF it
<1>3. /\ past' \in Past /\ past'.writes = past.writes /\ past'.crossed = past.crossed
      /\ past'.calm = past.calm /\ past'.events = past.events
      /\ past'.drained = past.drained \ File
      /\ past'.met = past.met \cup (File \cap Under(job["drain"].path))
      /\ past.met \subseteq past'.met /\ past'.drained \subseteq past.drained
      /\ past'.drained \cap past'.met = {}
  BY <1>1, Touching
<1>4. /\ walk' \in [left : (SUBSET File) \cup {None}, visited : SUBSET File, since : 0 .. Batch - 1,
                    cancelled : BOOLEAN, waiting : Nat]
      /\ walk'.waiting = walk.waiting
  BY <1>1 DEF Types
<1>5. job'["walk"] = it /\ job'["drain"] = job["drain"]
  BY <1>1, <1>2, GoesTo DEF Worker
<1>6. Settled'
  BY <1>1, <1>3, <1>5 DEF Settled
<1>7. Calm'
  BY <1>1, <1>2, <1>3, <1>5 DEF Calm, Still, BehindCursor, BehindWalk, Walking, Looking, Sweeping, Reading, Asking
<1>8. Asked'
  BY <1>1, <1>3, <1>4 DEF Asked
<1>9. past'.drained = {} /\ \A f \in File : row'[f] = None /\ (f \in past'.met \/ f \notin Under(job["drain"].path))
  BY <1>1, <1>3 DEF Past
<1>10. row' \in [File -> Row \cup {None}]
  BY <1>1
<1> QED BY <1>1, <1>2, <1>3, <1>4, <1>6, <1>7, <1>8, <1>9, <1>10, WalkMoves

LEMMA WalkBeginsKeeps == IndexInv /\ WalkBegins => IndexInv'
<1> SUFFICES ASSUME IndexInv, WalkBegins PROVE IndexInv'
  OBVIOUS
<1> USE DEF IndexInv
<1> DEFINE it == [NoJob EXCEPT !.at = "next"]
<1>1. /\ job["walk"].at = "begin" /\ Goes("walk", it)
      /\ walk' = [walk EXCEPT !.left = cursor, !.visited = {}, !.since = 0]
      /\ past' = [past EXCEPT !.calm = IF cursor = None THEN QueueQuiet /\ app.rule = saved ELSE @]
      /\ UNCHANGED <<vault, row, cursor, saved, app, queue, drain>>
  BY DEF WalkBegins, At
<1>2. it \in Job /\ it.at = "next" /\ it.path = None
  BY DEF NoJob, Job, WalkPlace
<1> HIDE DEF it
<1>3. /\ past' \in Past /\ past'.writes = past.writes /\ past'.crossed = past.crossed
      /\ past'.events = past.events /\ past'.drained = past.drained /\ past'.met = past.met
      /\ past'.calm = IF cursor = None THEN QueueQuiet /\ app.rule = saved ELSE past.calm
  <2>1. past \in Past /\ (QueueQuiet /\ app.rule = saved) \in BOOLEAN
    BY DEF Types, QueueQuiet, At
  <2> QED BY <1>1, <2>1 DEF Past
<1>4. /\ walk' \in [left : (SUBSET File) \cup {None}, visited : SUBSET File, since : 0 .. Batch - 1,
                    cancelled : BOOLEAN, waiting : Nat]
      /\ walk'.waiting = walk.waiting /\ walk'.left = cursor /\ walk'.visited = {}
  <2>1. 0 \in 0 .. Batch - 1
    BY IndexAssumption
  <2> QED BY <1>1, <2>1 DEF Types
<1>5. job'["walk"] = it /\ job'["drain"] = job["drain"]
  BY <1>1, <1>2, GoesTo DEF Worker
<1>6. Settled'
  BY <1>1, <1>3, <1>5 DEF Settled, Stages
<1>7. Calm'
  <2> SUFFICES ASSUME past'.calm PROVE (Still /\ BehindCursor /\ BehindWalk /\ Looking /\ Sweeping)'
    BY DEF Calm
  <2>1. Still'
    <3>1. CASE cursor = None
      <4>1. queue.toIndex \cup queue.toRemove = {} /\ job["drain"].at = "none"
        BY <1>3, <3>1 DEF QueueQuiet, At
      <4> QED BY <1>1, <1>5, <4>1 DEF Still, Places, Worker, Reading, Asking
    <3>2. CASE cursor # None
      BY <1>1, <1>3, <1>5, <3>2 DEF Calm, Still
    <3> QED BY <3>1, <3>2
  <2>2. BehindCursor
    BY <1>3 DEF Calm, BehindCursor
  <2>3. BehindCursor'
    BY <1>1, <1>3, <2>2 DEF BehindCursor, Done
  <2>4. BehindWalk'
    BY <1>1, <1>2, <1>3, <1>4, <1>5, <2>2 DEF BehindWalk, Behind, BehindCursor, Done, Walking
  <2>5. Looking' /\ Sweeping'
    BY <1>2, <1>5 DEF Looking, Sweeping, Reading, Asking
  <2> QED BY <2>1, <2>3, <2>4, <2>5
<1>8. Asked'
  BY <1>1, <1>3, <1>4 DEF Asked
<1>9. row' \in [File -> Row \cup {None}] /\ cursor' \in (SUBSET File) \cup {None}
      /\ past.drained \cap past.met = {} /\ None \notin past.drained
  BY <1>1, NoneAssumption DEF Types, Meetings, Past
<1> QED BY <1>1, <1>2, <1>3, <1>4, <1>6, <1>7, <1>8, <1>9, WalkMoves

LEMMA WalkNextKeeps == IndexInv /\ WalkNext => IndexInv'
<1> SUFFICES ASSUME IndexInv, WalkNext PROVE IndexInv'
  OBVIOUS
<1> USE DEF IndexInv
<1>1. job["walk"].at = "next" /\ UNCHANGED <<vault, row, cursor, saved, app, queue, drain>>
  BY DEF WalkNext, At
<1>2. /\ job["walk"].path = None /\ "walk" \in Worker /\ past \in Past /\ Left \in SUBSET File
      /\ walk \in [left : (SUBSET File) \cup {None}, visited : SUBSET File, since : 0 .. Batch - 1,
                   cancelled : BOOLEAN, waiting : Nat]
  BY <1>1 DEF Places, Types, Worker, Reading, Asking, Left
<1>3. row' \in [File -> Row \cup {None}] /\ cursor' \in (SUBSET File) \cup {None}
      /\ None \notin past.drained /\ past.drained \cap past.met = {}
  BY <1>1, NoneAssumption DEF Types, Meetings, Past
<1>4. ASSUME past.calm
      PROVE  /\ app.rule = saved
             /\ \A f \in Left : vault[f] # None
             /\ \A f \in File \ past.met : f \notin Left => Done(f)
             /\ \A f \in walk.visited : vault[f] # None /\ f \notin saved
  <2>1. Settled /\ BehindWalk
    BY <1>4 DEF Calm
  <2>2. app.rule = saved /\ \A f \in walk.visited : vault[f] # None /\ f \notin saved
    BY <1>1, <1>4, <2>1 DEF Settled, BehindWalk, Walking
  <2>3. CASE walk.left = None
    BY <2>2, <2>3 DEF Left, Done
  <2>4. CASE walk.left # None
    <3>1. Behind(walk.left)
      BY <1>1, <2>1, <2>4 DEF BehindWalk
    <3>2. \A f \in File : f # None
      BY NoneAssumption
    <3> QED BY <1>2, <2>2, <2>4, <3>1, <3>2 DEF Left, Behind
  <2> QED BY <2>3, <2>4
<1>5. \A left \in SUBSET File : left # None
  BY NoneAssumption
<1>6. ASSUME Left = {}, walk' = [walk EXCEPT !.left = {}], Goes("walk", [NoJob EXCEPT !.at = "sweep"]),
             UNCHANGED past
      PROVE  IndexInv'
  <2> DEFINE it == [NoJob EXCEPT !.at = "sweep"]
  <2>1. it \in Job /\ it.at = "sweep" /\ it.path = None
    BY DEF NoJob, Job, WalkPlace
  <2>2. Goes("walk", it)
    BY <1>6
  <2> HIDE DEF it
  <2>3. job'["walk"] = it /\ job'["drain"] = job["drain"]
    BY <2>1, <2>2, GoesTo DEF Worker
  <2>4. /\ walk' \in [left : (SUBSET File) \cup {None}, visited : SUBSET File, since : 0 .. Batch - 1,
                      cancelled : BOOLEAN, waiting : Nat]
        /\ walk'.waiting = walk.waiting /\ walk'.visited = walk.visited
    BY <1>2, <1>6
  <2>5. Settled' /\ Asked'
    BY <1>1, <1>6, <2>3, <2>4 DEF Settled, Asked
  <2>6. Calm'
    <3> SUFFICES ASSUME past.calm PROVE (Still /\ BehindCursor /\ BehindWalk /\ Looking /\ Sweeping)'
      BY <1>6 DEF Calm
    <3>1. Still' /\ BehindCursor'
      BY <1>1, <1>6, <2>3 DEF Calm, Still, BehindCursor, Done
    <3>2. Sweeping'
      BY <1>1, <1>4, <1>6, <2>1, <2>3 DEF Sweeping, Done
    <3>3. BehindWalk' /\ Looking'
      BY <1>1, <1>4, <1>6, <2>1, <2>3, <2>4 DEF BehindWalk, Looking, Reading, Asking
    <3> QED BY <3>1, <3>2, <3>3
  <2> QED BY <1>1, <1>2, <1>3, <1>6, <2>1, <2>2, <2>4, <2>5, <2>6, WalkMoves
<1>7. ASSUME NEW f \in Left, f \in app.rule, walk' = [walk EXCEPT !.left = Left \ {f}], UNCHANGED <<job, past>>
      PROVE  IndexInv'
  <2>1. Goes("walk", job["walk"]) /\ job["walk"] \in Job
    BY <1>7 DEF Goes, Types, Worker
  <2>2. /\ walk' \in [left : (SUBSET File) \cup {None}, visited : SUBSET File, since : 0 .. Batch - 1,
                      cancelled : BOOLEAN, waiting : Nat]
        /\ walk'.waiting = walk.waiting /\ walk'.visited = walk.visited /\ walk'.left = Left \ {f}
    BY <1>2, <1>7
  <2>3. Settled' /\ Asked'
    BY <1>1, <1>7, <2>2 DEF Settled, Asked
  <2>4. Calm'
    <3> SUFFICES ASSUME past.calm PROVE (Still /\ BehindCursor /\ BehindWalk /\ Looking /\ Sweeping)'
      BY <1>7 DEF Calm
    <3>1. Still' /\ BehindCursor'
      BY <1>1, <1>7 DEF Calm, Still, BehindCursor, Done
    <3>2. f \in saved
      BY <1>4, <1>7
    <3>3. Behind(walk.left)'
      BY <1>1, <1>4, <1>7, <2>2, <3>2 DEF Behind, Done
    <3>4. BehindWalk' /\ Looking' /\ Sweeping'
      BY <1>1, <1>4, <1>7, <2>2, <3>3 DEF BehindWalk, Looking, Sweeping, Reading, Asking
    <3> QED BY <3>1, <3>4
  <2> QED BY <1>1, <1>2, <1>3, <1>7, <2>1, <2>2, <2>3, <2>4, WalkMoves
<1>8. ASSUME NEW f \in Left, f \notin app.rule,
             walk' = [walk EXCEPT !.left = Left \ {f}, !.visited = @ \cup {f}],
             Goes("walk", [NoJob EXCEPT !.at = "head", !.path = f]), WalkTouches({f})
      PROVE  IndexInv'
  <2> DEFINE it == [NoJob EXCEPT !.at = "head", !.path = f]
  <2>1. it \in Job /\ it.at = "head" /\ it.path = f /\ it.says = None /\ f \in File
    BY <1>2 DEF NoJob, Job, WalkPlace
  <2>2. Goes("walk", it)
    BY <1>8
  <2> HIDE DEF it
  <2>3. job'["walk"] = it /\ job'["drain"] = job["drain"]
    BY <2>1, <2>2, GoesTo DEF Worker
  <2>4. /\ walk' \in [left : (SUBSET File) \cup {None}, visited : SUBSET File, since : 0 .. Batch - 1,
                      cancelled : BOOLEAN, waiting : Nat]
        /\ walk'.waiting = walk.waiting /\ walk'.visited = walk.visited \cup {f} /\ walk'.left = Left \ {f}
    BY <1>2, <1>8
  <2>5. /\ past' \in Past /\ past'.writes = past.writes /\ past'.crossed = past.crossed
        /\ past'.calm = past.calm /\ past'.events = past.events
        /\ past'.drained = past.drained \ {f}
        /\ past'.met = past.met \cup ({f} \cap Under(job["drain"].path))
        /\ past.met \subseteq past'.met /\ past'.drained \subseteq past.drained
        /\ past'.drained \cap past'.met = {}
    BY <1>8, <2>1, Touching
  <2>6. Settled' /\ Asked'
    BY <1>1, <2>3, <2>4, <2>5 DEF Settled, Asked
  <2>7. Calm'
    <3> SUFFICES ASSUME past.calm PROVE (Still /\ BehindCursor /\ BehindWalk /\ Looking /\ Sweeping)'
      BY <2>5 DEF Calm
    <3>1. Still' /\ BehindCursor'
      BY <1>1, <2>3, <2>5 DEF Calm, Still, BehindCursor, Done
    <3>2. vault[f] # None /\ f \notin saved
      BY <1>4, <1>8
    <3>3. Behind(walk.left)'
      BY <1>1, <1>4, <2>1, <2>3, <2>4, <2>5 DEF Behind, Done
    <3>4. BehindWalk'
      BY <1>1, <1>4, <2>4, <3>2, <3>3 DEF BehindWalk
    <3>5. Looking' /\ Sweeping'
      BY <1>1, <2>1, <2>3, <3>2 DEF Looking, Sweeping, Reading, Asking
    <3> QED BY <3>1, <3>4, <3>5
  <2>8. walk'.left # None
    BY <1>2, <1>5, <2>4
  <2>9. f \in Under(job["drain"].path) => f \in past'.met
    BY <2>5
  <2> QED BY <1>1, <1>2, <1>3, <2>1, <2>2, <2>4, <2>5, <2>6, <2>7, <2>8, <2>9, WalkMoves
<1> QED BY <1>6, <1>7, <1>8 DEF WalkNext

LEMMA WalkCancelledKeeps == IndexInv /\ WalkCancelled => IndexInv'
<1> SUFFICES ASSUME IndexInv, WalkCancelled PROVE IndexInv'
  OBVIOUS
<1> USE DEF IndexInv
<1>1. /\ job["walk"].at = "next" /\ cursor' = walk.left /\ WalkEnds
      /\ UNCHANGED <<vault, row, saved, app, queue, drain, past>>
  BY DEF WalkCancelled, At
<1>2. PICK it \in Job :
        /\ Goes("walk", it) /\ it.at \in {"none", "clear"} /\ it.path = None
        /\ walk' \in [left : (SUBSET File) \cup {None}, visited : SUBSET File, since : 0 .. Batch - 1,
                      cancelled : BOOLEAN, waiting : Nat]
        /\ walk'.visited = {}
        /\ Asked'
  BY <1>1, Ends
<1>3. job'["walk"] = it /\ job'["drain"] = job["drain"]
  BY <1>2, GoesTo DEF Worker
<1>4. Settled'
  BY <1>1, <1>3 DEF Settled
<1>5. Calm'
  <2> SUFFICES ASSUME past.calm PROVE (Still /\ BehindCursor /\ BehindWalk /\ Looking /\ Sweeping)'
    BY <1>1 DEF Calm
  <2>1. Still'
    BY <1>1, <1>3 DEF Calm, Still
  <2>2. walk.left # None => Behind(walk.left) /\ job["walk"].path = None
    BY <1>1 DEF Calm, BehindWalk, Places, Worker, Reading, Asking
  <2>3. BehindCursor'
    BY <1>1, <2>2, NoneAssumption DEF BehindCursor, Behind, Done
  <2>4. BehindWalk' /\ Looking' /\ Sweeping'
    BY <1>2, <1>3 DEF BehindWalk, Walking, Looking, Sweeping, Reading, Asking
  <2> QED BY <2>1, <2>3, <2>4
<1>6. /\ row' \in [File -> Row \cup {None}] /\ cursor' \in (SUBSET File) \cup {None} /\ past' \in Past
      /\ None \notin past.drained /\ past.drained \cap past.met = {}
  BY <1>1, NoneAssumption DEF Types, Meetings, Past
<1> QED BY <1>1, <1>2, <1>4, <1>5, <1>6, WalkMoves

LEMMA SweepKeeps == IndexInv /\ Sweep => IndexInv'
<1> SUFFICES ASSUME IndexInv, Sweep PROVE IndexInv'
  OBVIOUS
<1> USE DEF IndexInv
<1> DEFINE it == [NoJob EXCEPT !.at = "drop"]
<1>1. /\ job["walk"].at = "sweep" /\ Goes("walk", it) /\ walk' = [walk EXCEPT !.left = stale, !.visited = {}]
      /\ UNCHANGED <<vault, row, cursor, saved, app, queue, drain, past>>
  BY DEF Sweep, At
<1>2. it \in Job /\ it.at = "drop" /\ it.path = None
  BY DEF NoJob, Job, WalkPlace
<1> HIDE DEF it
<1>3. job'["walk"] = it /\ job'["drain"] = job["drain"]
  BY <1>1, <1>2, GoesTo DEF Worker
<1>4. stale \in SUBSET File /\ stale # None
  BY NoneAssumption DEF stale
<1>5. /\ walk' \in [left : (SUBSET File) \cup {None}, visited : SUBSET File, since : 0 .. Batch - 1,
                    cancelled : BOOLEAN, waiting : Nat]
      /\ walk'.waiting = walk.waiting /\ walk'.visited = {} /\ walk'.left = stale
  BY <1>1, <1>4 DEF Types
<1>6. Settled' /\ Asked'
  BY <1>1, <1>3, <1>5 DEF Settled, Asked
<1>7. Calm'
  <2> SUFFICES ASSUME past.calm PROVE (Still /\ BehindCursor /\ BehindWalk /\ Looking /\ Sweeping)'
    BY <1>1 DEF Calm
  <2>1. Still' /\ BehindCursor'
    BY <1>1, <1>3 DEF Calm, Still, BehindCursor, Done
  <2>2. BehindWalk' /\ Looking'
    BY <1>2, <1>3, <1>5 DEF BehindWalk, Looking, Reading, Asking
  <2>3. app.rule = saved
    BY <1>1 DEF Settled
  <2>4. /\ \A f \in File \ past.met : Done(f)
        /\ \A f \in walk.visited : vault[f] # None /\ f \notin saved
    BY <1>1 DEF Calm, Sweeping, BehindWalk, Walking
  <2>5. \A f \in File \ past.met : (vault[f] = None \/ f \in saved) <=> (row[f] = None \/ f \in stale)
    BY <2>3, <2>4 DEF stale, Done
  <2>6. Sweeping'
    BY <1>1, <1>2, <1>3, <1>5, <2>4, <2>5 DEF Sweeping, Done
  <2> QED BY <2>1, <2>2, <2>6
<1>8. /\ row' \in [File -> Row \cup {None}] /\ cursor' \in (SUBSET File) \cup {None} /\ past' \in Past
      /\ None \notin past.drained /\ past.drained \cap past.met = {}
  BY <1>1, NoneAssumption DEF Types, Meetings, Past
<1> QED BY <1>1, <1>2, <1>4, <1>5, <1>6, <1>7, <1>8, WalkMoves

LEMMA DropStaleKeeps == IndexInv /\ DropStale => IndexInv'
<1> SUFFICES ASSUME IndexInv, DropStale PROVE IndexInv'
  OBVIOUS
<1> USE DEF IndexInv
<1>1. /\ job["walk"].at = "drop" /\ cursor' = None /\ WalkEnds /\ WalkTouches(walk.left)
      /\ row' = [f \in File |-> IF f \in walk.left THEN None ELSE row[f]]
      /\ UNCHANGED <<vault, saved, app, queue, drain>>
  BY DEF DropStale, At
<1>2. walk.left \in SUBSET File
  BY <1>1 DEF Types, Places
<1>3. /\ past' \in Past /\ past'.writes = past.writes /\ past'.crossed = past.crossed
      /\ past'.calm = past.calm /\ past'.events = past.events
      /\ past'.drained = past.drained \ walk.left
      /\ past'.met = past.met \cup (walk.left \cap Under(job["drain"].path))
      /\ past.met \subseteq past'.met /\ past'.drained \subseteq past.drained
      /\ past'.drained \cap past'.met = {}
  BY <1>1, <1>2, Touching
<1>4. PICK it \in Job :
        /\ Goes("walk", it) /\ it.at \in {"none", "clear"} /\ it.path = None
        /\ walk' \in [left : (SUBSET File) \cup {None}, visited : SUBSET File, since : 0 .. Batch - 1,
                      cancelled : BOOLEAN, waiting : Nat]
        /\ walk'.visited = {}
        /\ Asked'
  BY <1>1, <1>3, Ends
<1>5. job'["walk"] = it /\ job'["drain"] = job["drain"]
  BY <1>4, GoesTo DEF Worker
<1>6. Settled'
  BY <1>1, <1>3, <1>5 DEF Settled
<1>7. Calm'
  BY <1>1, <1>3, <1>4, <1>5 DEF Calm, Still, BehindCursor, BehindWalk, Walking, Looking, Sweeping, Reading, Asking
<1>8. /\ row' \in [File -> Row \cup {None}]
      /\ \A f \in File : \/ row'[f] = row[f]
                         \/ /\ row'[f] = None /\ f \notin past'.drained
                            /\ f \in past'.met \/ f \notin Under(job["drain"].path)
  BY <1>1, <1>3 DEF Types
<1>9. None \notin past'.drained
  BY <1>3, NoneAssumption DEF Past
<1> QED BY <1>1, <1>3, <1>4, <1>6, <1>7, <1>8, <1>9, WalkMoves

-----------------------------------------------------------------------------
(* A rebuild is asked for: it takes the walk's place, or waits.            *)
LEMMA AsksKeeps ==
  ASSUME IndexInv,
         \/ UNCHANGED <<walk, job>> /\ app'.asked + walk.waiting <= past'.events
         \/ reindex /\ app'.asked + walk.waiting + 1 <= past'.events,
         UNCHANGED <<vault, row, cursor, queue, drain>>,
         app' \in App, app'.boot = app.boot, app'.stop = app.stop, app'.stopping = app.stopping,
         app'.db = app.db, app'.indexer = app.indexer, app'.watching = app.watching,
         saved' \in Masks, past' \in Past, past'.writes = past.writes, past'.met = past.met,
         past'.crossed = past.crossed, past'.drained \subseteq past.drained,
         app'.rule = app.rule \/ past'.drained = {},
         past'.calm => past.calm /\ saved' = saved /\ app'.rule = app.rule /\ app'.captured = app.captured,
         app'.applied => app'.setting = saved'
  PROVE  IndexInv'
<1> USE DEF IndexInv
<1>1. /\ job \in [Worker -> Job] /\ walk.waiting \in Nat /\ app'.asked \in Nat /\ past'.events \in Nat
      /\ walk \in [left : (SUBSET File) \cup {None}, visited : SUBSET File, since : 0 .. Batch - 1,
                   cancelled : BOOLEAN, waiting : Nat]
  BY IndexAssumption DEF Types, App, Past
<1>2. /\ walk' \in [left : (SUBSET File) \cup {None}, visited : SUBSET File, since : 0 .. Batch - 1,
                    cancelled : BOOLEAN, waiting : Nat]
      /\ walk'.left = walk.left /\ walk'.visited = walk.visited
      /\ app'.asked + walk'.waiting <= past'.events
  <2>1. CASE UNCHANGED <<walk, job>> /\ app'.asked + walk.waiting <= past'.events
    BY <1>1, <2>1
  <2>2. CASE reindex /\ app'.asked + walk.waiting + 1 <= past'.events /\ app.indexer
    <3> DEFINE rest == IF At("walk", "none") THEN 0 ELSE walk.waiting + 1
    <3>1. walk' = [walk EXCEPT !.cancelled = TRUE, !.waiting = rest]
      BY <2>2 DEF reindex
    <3>2. rest \in Nat /\ rest <= walk.waiting + 1
      BY <1>1
    <3> HIDE DEF rest
    <3>3. /\ walk' \in [left : (SUBSET File) \cup {None}, visited : SUBSET File, since : 0 .. Batch - 1,
                        cancelled : BOOLEAN, waiting : Nat]
          /\ walk'.left = walk.left /\ walk'.visited = walk.visited /\ walk'.waiting = rest
      BY <1>1, <3>1, <3>2
    <3> QED BY <1>1, <2>2, <3>2, <3>3
  <2>3. CASE reindex /\ app'.asked + walk.waiting + 1 <= past'.events /\ ~app.indexer
    BY <1>1, <2>3 DEF reindex
  <2> QED BY <2>1, <2>2, <2>3
<1>3. /\ job' \in [Worker -> Job] /\ job'["drain"] = job["drain"]
      /\ \/ job'["walk"] = job["walk"]
         \/ job["walk"].at = "none" /\ app.indexer /\ job'["walk"].at = "clear" /\ job'["walk"].path = None
  <2> DEFINE it == [NoJob EXCEPT !.at = "clear"]
  <2>1. it \in Job /\ it.at = "clear" /\ it.path = None
    BY DEF NoJob, Job, WalkPlace
  <2>2. UNCHANGED job \/ (app.indexer /\ job["walk"].at = "none" /\ Goes("walk", it))
    BY DEF reindex, At
  <2> HIDE DEF it
  <2> QED BY <1>1, <2>1, <2>2 DEF Goes, Worker
<1>4. job["walk"].at = "none" => job["walk"].path = None
  BY DEF Places, Worker, Reading, Asking
<1>5. Types' /\ Asked'
  <2>1. Types'
    BY <1>2, <1>3 DEF Types
  <2> QED BY <1>2, <2>1 DEF Asked
<1>6. Places'
  BY <1>2, <1>3, <1>4 DEF Places, Reading, Asking, Worker, WalkPlace
<1>7. Stages'
  BY <1>3 DEF Stages, Past
<1>8. Meetings'
  BY <1>3, <1>4, NoneAssumption DEF Meetings, Past
<1>9. RowsTrue'
  BY DEF RowsTrue, Current
<1>10. \A w \in Worker : HoldsTruth(w)'
  BY <1>3 DEF HoldsTruth, Current, Worker, Asking
<1>11. Removals' /\ DrainTrue'
  BY <1>3 DEF Removals, Removed, Named, DrainTrue, Current
<1>12. DrainCatchesUp'
  <2>1. \A f \in File : Pending(f)' <=> Pending(f)
    BY <1>3, PendingIs, PendingNext DEF Named, Removed
  <2>2. past'.drained # {} => \A f \in past'.drained : f \in past.drained /\ f \in File /\ (Level(f)' <=> Level(f))
    BY DEF Level, Past
  <2> QED BY <2>1, <2>2 DEF DrainCatchesUp
<1>13. Settled'
  BY <1>3 DEF Settled
<1>14. Calm'
  <2> SUFFICES ASSUME past'.calm PROVE (Still /\ BehindCursor /\ BehindWalk /\ Looking /\ Sweeping)'
    BY DEF Calm
  <2>1. Still' /\ BehindCursor'
    BY <1>3 DEF Calm, Still, BehindCursor, Done
  <2>2. BehindWalk' /\ Looking' /\ Sweeping'
    BY <1>2, <1>3 DEF Calm, BehindWalk, Behind, Done, Walking, Looking, Current, Sweeping, Reading, Asking
  <2> QED BY <2>1, <2>2
<1> QED BY <1>5, <1>6, <1>7, <1>8, <1>9, <1>10, <1>11, <1>12, <1>13, <1>14

(* An event is one more than there were, and no more than there may be.    *)
LEMMA Happens ==
  ASSUME past \in Past, MayHappen
  PROVE  /\ AnEvent \in Past /\ AnEvent.events = past.events + 1 /\ AnEvent.writes = past.writes
         /\ AnEvent.calm = past.calm /\ AnEvent.drained = past.drained
         /\ AnEvent.met = past.met /\ AnEvent.crossed = past.crossed
<1>1. past.events + 1 \in 0 .. MaxEvents
  BY IndexAssumption DEF MayHappen, Past
<1> QED BY <1>1 DEF AnEvent, Past

LEMMA AskedGoesOnKeeps == IndexInv /\ AskedGoesOn => IndexInv'
<1> SUFFICES ASSUME IndexInv, AskedGoesOn PROVE IndexInv'
  OBVIOUS
<1>1. /\ app.asked > 0 /\ app' = [app EXCEPT !.asked = @ - 1] /\ reindex
      /\ UNCHANGED <<vault, row, cursor, saved, queue, drain, past>>
  BY DEF AskedGoesOn
<1>2. /\ app \in App /\ past \in Past /\ saved \in Masks /\ walk.waiting \in Nat
      /\ app.asked + walk.waiting <= past.events /\ (app.applied => app.setting = saved)
  BY DEF IndexInv, Types, Asked, Settled
<1>3. /\ app' \in App /\ app'.boot = app.boot /\ app'.stop = app.stop /\ app'.stopping = app.stopping
      /\ app'.db = app.db /\ app'.indexer = app.indexer /\ app'.watching = app.watching
      /\ app'.rule = app.rule /\ app'.captured = app.captured /\ app'.setting = app.setting
      /\ app'.applied = app.applied /\ app'.asked = app.asked - 1
  BY <1>1, <1>2 DEF App
<1>4. app'.asked + walk.waiting + 1 <= past'.events
  BY <1>1, <1>2, <1>3, IndexAssumption DEF App, Past
<1> QED BY <1>1, <1>2, <1>3, <1>4, AsksKeeps

LEMMA RebuildKeeps == IndexInv /\ Rebuild => IndexInv'
<1> SUFFICES ASSUME IndexInv, Rebuild PROVE IndexInv'
  OBVIOUS
<1>1. /\ MayHappen /\ Request(app) /\ past' = AnEvent
      /\ UNCHANGED <<vault, row, cursor, saved, queue, drain>>
  BY DEF Rebuild
<1>2. /\ app \in App /\ past \in Past /\ saved \in Masks /\ walk.waiting \in Nat
      /\ app.asked + walk.waiting <= past.events /\ (app.applied => app.setting = saved)
      /\ past.drained \subseteq past.drained
  BY DEF IndexInv, Types, Asked, Settled
<1>3. /\ past' \in Past /\ past'.events = past.events + 1 /\ past'.writes = past.writes
      /\ past'.calm = past.calm /\ past'.drained = past.drained
      /\ past'.met = past.met /\ past'.crossed = past.crossed
  BY <1>1, <1>2, Happens
<1>4. /\ app' \in App /\ app'.boot = app.boot /\ app'.stop = app.stop /\ app'.stopping = app.stopping
      /\ app'.db = app.db /\ app'.indexer = app.indexer /\ app'.watching = app.watching
      /\ app'.rule = app.rule /\ app'.captured = app.captured /\ app'.setting = app.setting
      /\ app'.applied = app.applied /\ app'.asked = IF app.settled THEN app.asked ELSE app.asked + 1
  BY <1>1, <1>2 DEF Request, App
<1>5. CASE app.settled
  <2>1. reindex
    BY <1>1, <1>5 DEF Request
  <2>2. app'.asked + walk.waiting + 1 <= past'.events
    BY <1>2, <1>3, <1>4, <1>5, IndexAssumption DEF App, Past
  <2> QED BY <1>1, <1>2, <1>3, <1>4, <2>1, <2>2, AsksKeeps
<1>6. CASE ~app.settled
  <2>1. UNCHANGED <<walk, job>>
    BY <1>1, <1>6 DEF Request
  <2>2. app'.asked + walk.waiting <= past'.events
    BY <1>2, <1>3, <1>4, <1>6, IndexAssumption DEF App, Past
  <2> QED BY <1>1, <1>2, <1>3, <1>4, <2>1, <2>2, AsksKeeps
<1> QED BY <1>5, <1>6

LEMMA SaveSettingsKeeps == IndexInv /\ SaveSettings => IndexInv'
<1> SUFFICES ASSUME IndexInv, NEW mask \in Masks, MayHappen, saved' = mask,
                    Request([app EXCEPT !.setting = mask, !.applied = TRUE,
                                        !.rule = IF app.watching THEN mask ELSE @]),
                    past' = [AnEvent EXCEPT !.calm = FALSE, !.drained = {}],
                    UNCHANGED <<vault, row, cursor, queue, drain>>
             PROVE  IndexInv'
  BY DEF SaveSettings
<1> DEFINE rule == IF app.watching THEN mask ELSE app.rule
           changed == [app EXCEPT !.setting = mask, !.applied = TRUE, !.rule = rule]
<1>1. /\ app \in App /\ past \in Past /\ walk.waiting \in Nat /\ app.asked + walk.waiting <= past.events
  BY DEF IndexInv, Types, Asked
<1>2. /\ past' \in Past /\ past'.events = past.events + 1 /\ past'.writes = past.writes
      /\ past'.calm = FALSE /\ past'.drained = {}
      /\ past'.met = past.met /\ past'.crossed = past.crossed
  <2>1. past' = [AnEvent EXCEPT !.calm = FALSE, !.drained = {}]
    OBVIOUS
  <2> QED BY <1>1, <2>1, Happens DEF Past
<1>3. /\ changed \in App /\ changed.boot = app.boot /\ changed.stop = app.stop
      /\ changed.stopping = app.stopping /\ changed.db = app.db /\ changed.indexer = app.indexer
      /\ changed.watching = app.watching /\ changed.setting = mask /\ changed.asked = app.asked
  <2>1. rule \in Masks
    BY <1>1 DEF App
  <2> HIDE DEF rule
  <2> QED BY <1>1, <2>1 DEF App
<1>4. /\ app' = [changed EXCEPT !.asked = IF app.settled THEN changed.asked ELSE changed.asked + 1]
      /\ IF app.settled THEN reindex ELSE UNCHANGED <<walk, job>>
  BY DEF Request
<1> HIDE DEF changed
<1>5. /\ app' \in App /\ app'.boot = app.boot /\ app'.stop = app.stop /\ app'.stopping = app.stopping
      /\ app'.db = app.db /\ app'.indexer = app.indexer /\ app'.watching = app.watching
      /\ app'.setting = mask /\ app'.asked = IF app.settled THEN app.asked ELSE app.asked + 1
  BY <1>1, <1>3, <1>4 DEF App
<1>6. \/ UNCHANGED <<walk, job>> /\ app'.asked + walk.waiting <= past'.events
      \/ reindex /\ app'.asked + walk.waiting + 1 <= past'.events
  BY <1>1, <1>2, <1>4, <1>5, IndexAssumption DEF App, Past
<1>7. past'.drained \subseteq past.drained
  BY <1>2
<1> QED BY <1>1, <1>2, <1>5, <1>6, <1>7, AsksKeeps

-----------------------------------------------------------------------------
(* The plugin comes up and goes down; the jobs do nothing meanwhile.       *)
LEMMA SessionKeeps ==
  ASSUME IndexInv, app' \in App, UNCHANGED <<vault, row, cursor, saved, queue, drain, walk, job>>,
         app'.watching = app.watching, app'.rule = app.rule, app'.asked = app.asked,
         past' \in Past, past'.writes = past.writes, past'.met = past.met, past'.crossed = past.crossed,
         past'.drained = past.drained, past'.calm = past.calm, past'.events >= past.events,
         Stages', Settled'
  PROVE  IndexInv'
<1> USE DEF IndexInv
<1>1. Types' /\ Places'
  BY DEF Types, Places
<1>2. Asked'
  BY IndexAssumption DEF Asked, Types, App, Past
<1>3. Meetings' /\ RowsTrue' /\ DrainTrue'
  BY DEF Meetings, RowsTrue, DrainTrue, Current, Named
<1>4. \A w \in Worker : HoldsTruth(w)'
  BY DEF HoldsTruth, Current
<1>5. Removals'
  BY DEF Removals, Removed, Named
<1>6. DrainCatchesUp'
  BY DEF DrainCatchesUp, Level, Pending
<1>7. Calm'
  BY DEF Calm, Still, BehindCursor, BehindWalk, Behind, Done, Walking, Looking, Current, Sweeping
<1> QED BY <1>1, <1>2, <1>3, <1>4, <1>5, <1>6, <1>7

LEMMA BootKeeps == IndexInv /\ (Start \/ BootConfig \/ BootOpens \/ BootFails) => IndexInv'
<1> SUFFICES ASSUME IndexInv, Start \/ BootConfig \/ BootOpens \/ BootFails PROVE IndexInv'
  OBVIOUS
<1>1. /\ app \in App /\ past \in Past /\ saved \in Masks /\ Stages /\ Settled
      /\ past.events >= past.events
  BY DEF IndexInv, Types, Past
<1>2. CASE Start
  <2>1. /\ app.boot = "none" /\ app' = [app EXCEPT !.boot = "config", !.stopping = FALSE]
        /\ UNCHANGED <<vault, row, cursor, saved, queue, drain, walk, job, past>>
    BY <1>2 DEF Start
  <2>2. /\ app' \in App /\ app'.boot = "config" /\ app'.stop = app.stop
        /\ app'.asked = app.asked /\ app'.applied = app.applied /\ app'.setting = app.setting
        /\ app'.rule = app.rule /\ app'.db = app.db /\ app'.indexer = app.indexer
        /\ app'.watching = app.watching
    BY <1>1, <2>1 DEF App
  <2>3. Stages' /\ Settled'
    BY <1>1, <2>1, <2>2 DEF Stages, Settled
  <2> QED BY <1>1, <2>1, <2>2, <2>3, SessionKeeps
<1>3. CASE BootConfig
  <2> DEFINE setting == IF app.applied THEN app.setting ELSE saved
             place == IF app.stopping THEN "done" ELSE "open"
  <2>1. /\ app.boot = "config" /\ UNCHANGED <<vault, row, cursor, saved, queue, drain, walk, job, past>>
        /\ app' = [IF app.stopping THEN Ended ELSE [app EXCEPT !.boot = "open"]
                   EXCEPT !.setting = setting, !.captured = setting, !.applied = TRUE]
    BY <1>3 DEF BootConfig
  <2>2. setting = saved /\ setting \in Masks
    BY <1>1 DEF Settled
  <2> HIDE DEF setting
  <2>3. /\ app' \in App /\ app'.boot \in {"open", "done"} /\ app'.stop = app.stop
        /\ app'.stopping = app.stopping
        /\ app'.asked = app.asked /\ app'.setting = setting /\ app'.captured = setting
        /\ app'.rule = app.rule /\ app'.db = app.db /\ app'.indexer = app.indexer
        /\ app'.watching = app.watching
    <3>1. CASE app.stopping
      BY <1>1, <2>1, <2>2, <3>1 DEF App, Ended
    <3>2. CASE ~app.stopping
      BY <1>1, <2>1, <2>2, <3>2 DEF App
    <3> QED BY <3>1, <3>2
  <2>4. Stages' /\ Settled'
    BY <1>1, <2>1, <2>2, <2>3 DEF Stages, Settled
  <2> QED BY <1>1, <2>1, <2>3, <2>4, SessionKeeps
<1>4. CASE BootOpens
  <2>1. /\ app.boot = "open" /\ UNCHANGED <<vault, row, cursor, saved, queue, drain, walk, job, past>>
        /\ app' = IF app.stopping THEN Ended ELSE [app EXCEPT !.boot = "state", !.db = TRUE]
    BY <1>4 DEF BootOpens
  <2>2. /\ app' \in App /\ app'.stop = app.stop /\ app'.stopping = app.stopping
        /\ app'.asked = app.asked /\ app'.applied = app.applied /\ app'.setting = app.setting
        /\ app'.captured = app.captured /\ app'.rule = app.rule /\ app'.indexer = app.indexer
        /\ app'.watching = app.watching
        /\ \/ app'.boot = "done" /\ app'.db = app.db
           \/ app'.boot = "state" /\ app'.db = TRUE
    BY <1>1, <2>1 DEF App, Ended
  <2>3. Stages' /\ Settled'
    BY <1>1, <2>1, <2>2 DEF Stages, Settled
  <2> QED BY <1>1, <2>1, <2>2, <2>3, SessionKeeps
<1>5. CASE BootFails
  <2>1. /\ app.boot = "open" /\ UNCHANGED <<vault, row, cursor, saved, queue, drain, walk, job>>
        /\ MayHappen /\ app' = Ended /\ past' = AnEvent
    BY <1>5 DEF BootFails
  <2>2. /\ app' \in App /\ app'.stop = app.stop /\ app'.stopping = app.stopping
        /\ app'.asked = app.asked /\ app'.applied = app.applied /\ app'.setting = app.setting
        /\ app'.captured = app.captured /\ app'.rule = app.rule /\ app'.indexer = app.indexer
        /\ app'.watching = app.watching /\ app'.boot = "done" /\ app'.db = app.db
    BY <1>1, <2>1 DEF App, Ended
  <2>3. /\ past' \in Past /\ past'.events = past.events + 1 /\ past'.writes = past.writes
        /\ past'.calm = past.calm /\ past'.drained = past.drained
        /\ past'.met = past.met /\ past'.crossed = past.crossed
    BY <1>1, <2>1, Happens
  <2>4. Stages' /\ Settled'
    BY <1>1, <2>1, <2>2, <2>3 DEF Stages, Settled
  <2>5. past'.events >= past.events
    BY <1>1, <2>3 DEF Past
  <2> QED BY <1>1, <2>1, <2>2, <2>3, <2>4, <2>5, SessionKeeps
<1> QED BY <1>2, <1>3, <1>4, <1>5

LEMMA BootEndsKeeps == IndexInv /\ BootEnds => IndexInv'
<1> SUFFICES ASSUME IndexInv, BootEnds PROVE IndexInv'
  OBVIOUS
<1> USE DEF IndexInv
<1>1. /\ app.boot = "state" /\ UNCHANGED <<vault, saved, queue, drain>>
      /\ \/ UNCHANGED <<row, cursor, past>>
         \/ MayHappen /\ row' = [f \in File |-> None] /\ cursor' = None /\ past' = AnEvent
  BY DEF BootEnds
<1>2. /\ app \in App /\ past \in Past /\ app.db /\ ~app.watching /\ ~app.indexer
      /\ job["walk"].at = "none" /\ job["drain"].at = "none" /\ queue = NoQueue
      /\ past.drained = {} /\ drain = NoDrain /\ job["walk"].path = None /\ job["drain"].path = None
  BY <1>1 DEF Types, Stages, Places, Worker, Reading, Asking
<1>3. /\ past' \in Past /\ past'.events >= past.events /\ past'.writes = past.writes
      /\ past'.calm = past.calm /\ past'.drained = {}
      /\ past'.met = past.met /\ past'.crossed = past.crossed
  <2>1. CASE UNCHANGED <<row, cursor, past>>
    BY <1>2, <2>1 DEF Past
  <2>2. CASE MayHappen /\ past' = AnEvent
    <3>1. AnEvent.events >= past.events
      BY <1>2, <2>2, Happens DEF Past
    <3> QED BY <1>2, <2>2, <3>1, Happens
  <2> QED BY <1>1, <2>1, <2>2
<1>4. row' \in [File -> Row \cup {None}] /\ cursor' \in (SUBSET File) \cup {None}
      /\ \A f \in File : row'[f] = row[f] \/ row'[f] = None
  BY <1>1 DEF Types
<1>5. /\ app' \in App /\ app'.boot = "done" /\ app'.stop = app.stop /\ app'.stopping = app.stopping
      /\ app'.asked = app.asked /\ app'.applied = app.applied /\ app'.setting = app.setting
      /\ app'.db = app.db
      /\ app.stopping => ~app'.watching /\ ~app'.indexer /\ UNCHANGED <<walk, job>>
      /\ ~app.stopping => app'.rule = app.captured /\ walk' = NoWalk
                          /\ Goes("walk", [NoJob EXCEPT !.at = "begin"])
  <2>1. CASE app.stopping
    <3>1. app' = Ended /\ UNCHANGED <<walk, job>>
      BY <2>1 DEF BootEnds
    <3> QED BY <1>2, <2>1, <3>1 DEF Ended, App
  <2>2. CASE ~app.stopping
    <3>1. /\ app' = [Ended EXCEPT !.indexer = TRUE, !.watching = TRUE, !.rule = app.captured, !.captured = {}]
          /\ walk' = NoWalk /\ Goes("walk", [NoJob EXCEPT !.at = "begin"])
      BY <2>2 DEF BootEnds
    <3> QED BY <1>2, <2>2, <3>1, IndexAssumption DEF Ended, App
  <2> QED BY <2>1, <2>2
<1>6. /\ job' \in [Worker -> Job] /\ job'["drain"] = job["drain"]
      /\ job'["walk"].at \in {"none", "begin"} /\ job'["walk"].path = None
      /\ app.stopping => job'["walk"].at = "none"
  <2> DEFINE it == [NoJob EXCEPT !.at = "begin"]
  <2>1. it \in Job /\ it.at = "begin" /\ it.path = None /\ job \in [Worker -> Job]
    BY DEF NoJob, Job, WalkPlace, Types
  <2>2. CASE app.stopping
    BY <1>2, <1>5, <2>1, <2>2
  <2>3. CASE ~app.stopping
    <3>1. Goes("walk", it)
      BY <1>5, <2>3
    <3> HIDE DEF it
    <3> QED BY <2>1, <2>3, <3>1 DEF Goes, Worker
  <2> QED BY <2>2, <2>3
<1>7. /\ walk' \in [left : (SUBSET File) \cup {None}, visited : SUBSET File, since : 0 .. Batch - 1,
                    cancelled : BOOLEAN, waiting : Nat]
      /\ walk'.waiting \in {0, walk.waiting}
  <2>1. 0 \in 0 .. Batch - 1
    BY IndexAssumption
  <2>2. walk' = walk \/ walk' = NoWalk
    BY <1>5
  <2>3. CASE walk' = walk
    BY <2>3 DEF Types
  <2>4. CASE walk' = NoWalk
    BY <2>1, <2>4 DEF NoWalk
  <2> QED BY <2>2, <2>3, <2>4
<1>8. Types'
  BY <1>1, <1>3, <1>4, <1>5, <1>6, <1>7 DEF Types
<1>9. Places'
  BY <1>1, <1>2, <1>6 DEF Places, Reading, Asking, Worker, WalkPlace
<1>10. Asked'
  BY <1>2, <1>3, <1>5, <1>7, <1>8, IndexAssumption DEF Asked, Types, App, Past
<1>11. Stages'
  BY <1>1, <1>2, <1>3, <1>5, <1>6 DEF Stages
<1>12. Meetings'
  BY <1>3, <1>6 DEF Meetings
<1>13. RowsTrue'
  BY <1>1, <1>3, <1>4 DEF RowsTrue, Current
<1>14. \A w \in Worker : HoldsTruth(w)'
  BY <1>2, <1>6 DEF HoldsTruth, Worker, Asking
<1>15. Removals' /\ DrainTrue' /\ DrainCatchesUp'
  BY <1>1, <1>2, <1>3, <1>6 DEF Removals, Removed, DrainTrue, DrainCatchesUp, Asking, NoQueue, NoDrain
<1>16. Settled'
  BY <1>1, <1>3, <1>5, <1>6 DEF Settled
<1>17. Calm'
  <2> SUFFICES ASSUME past.calm PROVE (Still /\ BehindCursor /\ BehindWalk /\ Looking /\ Sweeping)'
    BY <1>3 DEF Calm
  <2>1. Still'
    BY <1>1, <1>2, <1>6 DEF Still, NoQueue
  <2>2. BehindCursor'
    BY <1>1, <1>3 DEF Calm, BehindCursor, Done
  <2>3. BehindWalk' /\ Looking' /\ Sweeping'
    BY <1>6 DEF BehindWalk, Walking, Looking, Sweeping, Reading, Asking
  <2> QED BY <2>1, <2>2, <2>3
<1> QED BY <1>8, <1>9, <1>10, <1>11, <1>12, <1>13, <1>14, <1>15, <1>16, <1>17

(* The indexer, the queue and the index go; what is at work goes on.       *)
LEMMA StopKeeps == IndexInv /\ (StopBegins \/ StopTears \/ StopCancels \/ StopCloses) => IndexInv'
<1> SUFFICES ASSUME IndexInv, StopBegins \/ StopTears \/ StopCancels \/ StopCloses PROVE IndexInv'
  OBVIOUS
<1>1. /\ app \in App /\ past \in Past /\ Stages /\ Settled /\ past.events >= past.events
  BY DEF IndexInv, Types, Past
<1>2. CASE StopBegins
  <2>1. /\ app.boot # "none" /\ app.stop = "none" /\ MayHappen
        /\ app' = [app EXCEPT !.stop = "bringUp", !.stopping = TRUE] /\ past' = AnEvent
        /\ UNCHANGED <<vault, row, cursor, saved, queue, drain, walk, job>>
    BY <1>2 DEF StopBegins
  <2>2. /\ app' \in App /\ app'.boot = app.boot /\ app'.stop = "bringUp" /\ app'.stopping
        /\ app'.asked = app.asked /\ app'.applied = app.applied /\ app'.setting = app.setting
        /\ app'.captured = app.captured /\ app'.rule = app.rule /\ app'.indexer = app.indexer
        /\ app'.watching = app.watching /\ app'.db = app.db
    BY <1>1, <2>1 DEF App
  <2>3. /\ past' \in Past /\ past'.events = past.events + 1 /\ past'.writes = past.writes
        /\ past'.calm = past.calm /\ past'.drained = past.drained
        /\ past'.met = past.met /\ past'.crossed = past.crossed
    BY <1>1, <2>1, Happens
  <2>4. Stages' /\ Settled'
    BY <1>1, <2>1, <2>2, <2>3 DEF Stages, Settled
  <2>5. past'.events >= past.events
    BY <1>1, <2>3 DEF Past
  <2> QED BY <2>1, <2>2, <2>3, <2>4, <2>5, SessionKeeps
<1>3. CASE StopTears
  <2> USE DEF IndexInv
  <2>1. /\ app.stop = "bringUp" /\ app.boot = "done"
        /\ app' = [app EXCEPT !.stop = "drain", !.watching = FALSE]
        /\ queue' = NoQueue /\ past' = [past EXCEPT !.drained = {}]
        /\ UNCHANGED <<vault, row, cursor, saved, drain, walk, job>>
    BY <1>3 DEF StopTears
  <2>2. /\ app' \in App /\ app'.boot = app.boot /\ app'.stop = "drain" /\ app'.stopping = app.stopping
        /\ app'.asked = app.asked /\ app'.applied = app.applied /\ app'.setting = app.setting
        /\ app'.captured = app.captured /\ app'.rule = app.rule /\ app'.indexer = app.indexer
        /\ app'.watching = FALSE /\ app'.db = app.db
    BY <1>1, <2>1 DEF App
  <2>3. /\ past' \in Past /\ past'.events = past.events /\ past'.writes = past.writes
        /\ past'.calm = past.calm /\ past'.drained = {}
        /\ past'.met = past.met /\ past'.crossed = past.crossed
    BY <1>1, <2>1 DEF Past
  <2>4. Types'
    BY <2>1, <2>2, <2>3 DEF Types, NoQueue
  <2>5. Places' /\ Asked' /\ Meetings' /\ RowsTrue'
    BY <2>1, <2>2, <2>3 DEF Places, Asked, Meetings, RowsTrue, Current
  <2>6. Stages' /\ Settled'
    BY <1>1, <2>1, <2>2, <2>3 DEF Stages, Settled
  <2>7. \A w \in Worker : HoldsTruth(w)'
    BY <2>1, <2>3 DEF HoldsTruth, Current
  <2>8. Removals' /\ DrainTrue' /\ DrainCatchesUp'
    BY <2>2 DEF Removals, DrainTrue, DrainCatchesUp
  <2>9. Calm'
    <3>1. past.calm => Still'
      BY <2>1 DEF Calm, Still, NoQueue
    <3> QED BY <2>1, <2>3, <3>1 DEF Calm, BehindCursor, BehindWalk, Behind, Done, Walking, Looking, Current, Sweeping
  <2> QED BY <2>4, <2>5, <2>6, <2>7, <2>8, <2>9
<1>4. CASE StopCancels
  <2> USE DEF IndexInv
  <2>1. /\ app.stop = "drain" /\ job["drain"].at = "none"
        /\ app' = [app EXCEPT !.stop = "walk", !.settled = TRUE, !.indexer = FALSE]
        /\ walk' = [walk EXCEPT !.cancelled = app.indexer]
        /\ UNCHANGED <<vault, row, cursor, saved, queue, drain, job, past>>
    BY <1>4 DEF StopCancels, At
  <2>2. /\ app' \in App /\ app'.boot = app.boot /\ app'.stop = "walk" /\ app'.stopping = app.stopping
        /\ app'.asked = app.asked /\ app'.applied = app.applied /\ app'.setting = app.setting
        /\ app'.captured = app.captured /\ app'.rule = app.rule /\ app'.indexer = FALSE
        /\ app'.watching = app.watching /\ app'.db = app.db
    BY <1>1, <2>1 DEF App
  <2>3. /\ walk' \in [left : (SUBSET File) \cup {None}, visited : SUBSET File, since : 0 .. Batch - 1,
                      cancelled : BOOLEAN, waiting : Nat]
        /\ walk'.waiting = walk.waiting /\ walk'.left = walk.left /\ walk'.visited = walk.visited
    BY <1>1, <2>1 DEF Types, App
  <2>4. Types'
    BY <2>1, <2>2, <2>3 DEF Types
  <2>5. Places' /\ Asked' /\ Meetings' /\ RowsTrue'
    BY <2>1, <2>2, <2>3 DEF Places, Asked, Meetings, RowsTrue, Current
  <2>6. Stages' /\ Settled'
    BY <1>1, <2>1, <2>2 DEF Stages, Settled
  <2>7. \A w \in Worker : HoldsTruth(w)'
    BY <2>1 DEF HoldsTruth, Current
  <2>8. Removals' /\ DrainTrue' /\ DrainCatchesUp'
    BY <2>1, <2>2 DEF Removals, Removed, Named, DrainTrue, DrainCatchesUp, Level, Pending, Current
  <2>9. Calm'
    BY <2>1, <2>3 DEF Calm, Still, BehindCursor, BehindWalk, Behind, Done, Walking, Looking, Current, Sweeping
  <2> QED BY <2>4, <2>5, <2>6, <2>7, <2>8, <2>9
<1>5. CASE StopCloses
  <2>1. /\ app.stop = "walk" /\ job["walk"].at = "none"
        /\ app' = [app EXCEPT !.stop = "none", !.boot = "none", !.db = FALSE]
        /\ UNCHANGED <<vault, row, cursor, saved, queue, drain, walk, job, past>>
    BY <1>5 DEF StopCloses, At
  <2>2. /\ app' \in App /\ app'.boot = "none" /\ app'.stop = "none" /\ app'.stopping = app.stopping
        /\ app'.asked = app.asked /\ app'.applied = app.applied /\ app'.setting = app.setting
        /\ app'.captured = app.captured /\ app'.rule = app.rule /\ app'.indexer = app.indexer
        /\ app'.watching = app.watching /\ app'.db = FALSE
    BY <1>1, <2>1 DEF App
  <2>3. Stages' /\ Settled'
    BY <1>1, <2>1, <2>2 DEF Stages, Settled
  <2> QED BY <1>1, <2>1, <2>2, <2>3, SessionKeeps
<1> QED BY <1>2, <1>3, <1>4, <1>5

(* A kill forgets the session; the rows and the cursor are as they were.   *)
LEMMA KillKeeps == IndexInv /\ Kill => IndexInv'
<1> SUFFICES ASSUME IndexInv, Kill PROVE IndexInv'
  OBVIOUS
<1> USE DEF IndexInv
<1>1. /\ MayHappen /\ app' = NewSession /\ queue' = NoQueue /\ drain' = NoDrain /\ walk' = NoWalk
      /\ past' = [AnEvent EXCEPT !.drained = {}] /\ UNCHANGED <<vault, row, cursor, saved>>
  BY DEF Kill
<1>2. past \in Past /\ DOMAIN job = Worker
  BY DEF Types
<1>3. job' = [w \in Worker |-> NoJob]
  BY <1>2 DEF Kill
<1>4. /\ past' \in Past /\ past'.events = past.events + 1 /\ past'.writes = past.writes
      /\ past'.calm = past.calm /\ past'.drained = {}
      /\ past'.met = past.met /\ past'.crossed = past.crossed
  BY <1>1, <1>2, Happens DEF Past
<1>5. NoJob \in Job /\ NoJob.at = "none" /\ NoJob.path = None
  BY DEF NoJob, Job, WalkPlace
<1>6. \A w \in Worker : job'[w].at = "none" /\ job'[w].path = None
  BY <1>3, <1>5
<1>7. job' \in [Worker -> Job] /\ "walk" \in Worker /\ "drain" \in Worker
  BY <1>3, <1>5 DEF Worker
<1>8. NewSession \in App /\ NewSession.asked = 0
  BY IndexAssumption DEF NewSession, App
<1>9. NoWalk.waiting = 0 /\ NoWalk \in [left : (SUBSET File) \cup {None}, visited : SUBSET File, since : 0 .. Batch - 1,
                                        cancelled : BOOLEAN, waiting : Nat]
  <2>1. 0 \in 0 .. Batch - 1
    BY IndexAssumption
  <2> QED BY <2>1 DEF NoWalk
<1>10. Types'
  BY <1>1, <1>4, <1>7, <1>8, <1>9 DEF Types, NoQueue, NoDrain
<1>11. Places'
  BY <1>1, <1>6, <1>7 DEF Places, Reading, Asking, WalkPlace, DrainPlace, NoDrain
<1>12. Asked'
  BY <1>1, <1>2, <1>4, <1>8, <1>9, IndexAssumption DEF Asked, Past
<1>13. Stages' /\ Settled'
  BY <1>1, <1>4, <1>6, <1>7 DEF Stages, Settled, NewSession
<1>14. Meetings' /\ RowsTrue'
  BY <1>1, <1>4, <1>6, <1>7 DEF Meetings, RowsTrue, Current
<1>15. \A w \in Worker : HoldsTruth(w)'
  BY <1>6 DEF HoldsTruth, Asking
<1>16. Removals' /\ DrainTrue' /\ DrainCatchesUp'
  BY <1>1 DEF Removals, DrainTrue, DrainCatchesUp, NewSession
<1>17. Calm'
  <2>1. past.calm => Still' /\ BehindCursor'
    BY <1>1, <1>4, <1>6, <1>7 DEF Calm, Still, BehindCursor, Done, NoQueue
  <2>2. BehindWalk' /\ Looking' /\ Sweeping'
    BY <1>6, <1>7 DEF BehindWalk, Walking, Looking, Sweeping, Reading, Asking
  <2> QED BY <1>4, <2>1, <2>2 DEF Calm
<1> QED BY <1>10, <1>11, <1>12, <1>13, <1>14, <1>15, <1>16, <1>17

-----------------------------------------------------------------------------
LEMMA IndexInit == Init => IndexInv
<1> SUFFICES ASSUME Init PROVE IndexInv
  OBVIOUS
<1>1. PICK there \in SUBSET File : vault = [f \in File |-> IF f \in there THEN [at |-> 0, says |-> f] ELSE None]
  BY DEF Init
<1>2. /\ row = [f \in File |-> None] /\ cursor = None /\ saved = {} /\ app = NewSession
      /\ queue = NoQueue /\ drain = NoDrain /\ walk = NoWalk /\ job = [w \in Worker |-> NoJob]
      /\ past = [writes |-> 0, events |-> 0, calm |-> FALSE, drained |-> {}, met |-> {}, crossed |-> {}]
  BY DEF Init, Worker
<1>3. vault \in [File -> Entry \cup {None}] /\ \A f \in File : vault[f] # None => vault[f].at = 0
  <2>1. 0 \in Stamp
    BY IndexAssumption DEF Stamp
  <2> QED BY <1>1, <2>1 DEF Entry
<1>4. NoJob \in Job /\ NoJob.at = "none" /\ NoJob.path = None
  BY DEF NoJob, Job, WalkPlace
<1>5. job \in [Worker -> Job] /\ \A w \in Worker : job[w].at = "none" /\ job[w].path = None
  BY <1>2, <1>4
<1>6. NewSession \in App /\ NewSession.asked = 0
  BY IndexAssumption DEF NewSession, App
<1>7. past \in Past
  BY <1>2, IndexAssumption DEF Past
<1>8. NoWalk.waiting = 0 /\ NoWalk \in [left : (SUBSET File) \cup {None}, visited : SUBSET File, since : 0 .. Batch - 1,
                                        cancelled : BOOLEAN, waiting : Nat]
  <2>1. 0 \in 0 .. Batch - 1
    BY IndexAssumption
  <2> QED BY <2>1 DEF NoWalk
<1>9. "walk" \in Worker /\ "drain" \in Worker
  BY DEF Worker
<1>10. Types
  BY <1>2, <1>3, <1>5, <1>6, <1>7, <1>8, IndexAssumption DEF Types, NoQueue, NoDrain
<1>11. Places
  BY <1>2, <1>5, <1>9 DEF Places, Reading, Asking, WalkPlace, DrainPlace, NoDrain
<1>12. Asked
  BY <1>2, <1>6, <1>8 DEF Asked
<1>13. Stages /\ Settled
  BY <1>2, <1>5, <1>9 DEF Stages, Settled, NewSession
<1>14. Meetings /\ RowsTrue
  BY <1>2, <1>3, <1>5, <1>9 DEF Meetings, RowsTrue
<1>15. \A w \in Worker : HoldsTruth(w)
  BY <1>5 DEF HoldsTruth, Asking
<1>16. Removals /\ DrainTrue /\ DrainCatchesUp /\ Calm
  BY <1>2 DEF Removals, DrainTrue, DrainCatchesUp, NewSession, Calm
<1> QED BY <1>10, <1>11, <1>12, <1>13, <1>14, <1>15, <1>16 DEF IndexInv

LEMMA IndexStep == IndexInv /\ [Next]_vars => IndexInv'
<1> SUFFICES ASSUME IndexInv, [Next]_vars PROVE IndexInv'
  OBVIOUS
<1>1. CASE Write \/ Delete \/ Rename
  BY <1>1, WriteKeeps, DeleteKeeps, RenameKeeps
<1>2. CASE TimerFires \/ DrainNext \/ indexPath \/ removePath
  BY <1>2, TimerKeeps, DrainNextKeeps, IndexPathKeeps, RemovePathKeeps
<1>3. CASE IndexFile
  BY <1>3, HeadKeeps, StateKeeps, ReadKeeps, StoreKeeps DEF IndexFile, Worker
<1>4. CASE Walk
  BY <1>4, ClearKeeps, WalkBeginsKeeps, WalkNextKeeps, WalkCancelledKeeps, SweepKeeps, DropStaleKeeps DEF Walk
<1>5. CASE AskedGoesOn \/ Rebuild \/ SaveSettings
  BY <1>5, AskedGoesOnKeeps, RebuildKeeps, SaveSettingsKeeps
<1>6. CASE Lifecycle
  BY <1>6, BootKeeps, BootEndsKeeps, StopKeeps, KillKeeps DEF Lifecycle
<1>7. CASE UNCHANGED vars
  <2> USE <1>7 DEF vars, IndexInv
  <2>1. Types' /\ Places' /\ Asked' /\ Stages' /\ Meetings' /\ RowsTrue'
    BY DEF Types, Places, Asked, Stages, Meetings, RowsTrue, Current
  <2>2. \A w \in Worker : HoldsTruth(w)'
    BY DEF HoldsTruth, Current
  <2>3. Removals' /\ DrainTrue' /\ DrainCatchesUp' /\ Settled'
    BY DEF Removals, Removed, Named, DrainTrue, Current, DrainCatchesUp, Level, Pending, Settled
  <2>4. Calm'
    BY DEF Calm, Still, BehindCursor, BehindWalk, Behind, Done, Walking, Looking, Current, Sweeping
  <2> QED BY <2>1, <2>2, <2>3, <2>4
<1> QED BY <1>1, <1>2, <1>3, <1>4, <1>5, <1>6, <1>7 DEF Next

LEMMA IndexAlways == Spec => []IndexInv
BY IndexInit, IndexStep, PTL DEF Spec

-----------------------------------------------------------------------------
(* Every variable keeps its type: no row holds a content nobody wrote, the *)
(* walk counts less than a batch, and no more rebuilds wait than were      *)
(* asked for.                                                              *)
THEOREM IndexTyped == Spec => []TypeOK
<1>1. IndexInv => TypeOK
  <2> SUFFICES ASSUME IndexInv PROVE TypeOK
    OBVIOUS
  <2>1. walk.waiting \in 0 .. MaxEvents
    BY IndexAssumption DEF IndexInv, Types, Asked, App, Past
  <2>2. walk \in [left : (SUBSET File) \cup {None}, visited : SUBSET File, since : 0 .. Batch - 1,
                  cancelled : BOOLEAN, waiting : 0 .. MaxEvents]
    BY <2>1 DEF IndexInv, Types
  <2>3. \A w \in DOMAIN job : job[w].path \in File \cup {Folder, None} /\ job[w].stat \in Stamp \cup {None}
    BY DEF IndexInv, Types, Job
  <2> QED BY <2>2, <2>3 DEF IndexInv, Types, TypeOK, Row
<1> QED BY <1>1, IndexAlways, PTL

(* Whenever a stop comes, in the middle of a bring-up, of a drain or of a  *)
(* walk, nothing works on an index that is not open, and once it is over   *)
(* nothing is open, subscribed or queued.                                  *)
THEOREM StopsClean == Spec => []StopLeavesNothing
<1>1. IndexInv => StopLeavesNothing
  <2> SUFFICES ASSUME IndexInv PROVE StopLeavesNothing
    OBVIOUS
  <2>1. \A w \in DOMAIN job : job[w].at # "none" => app.db
    BY DEF IndexInv, Types, Stages, Worker
  <2> QED BY <2>1 DEF IndexInv, Stages, StopLeavesNothing, At
<1> QED BY <1>1, IndexAlways, PTL

(* No change is forgotten: what the drain has done is level with the       *)
(* vault, or the queue names it again, whenever the change came.           *)
THEOREM NoChangeForgotten == Spec => []DrainCatchesUp
<1>1. IndexInv => DrainCatchesUp
  BY DEF IndexInv
<1> QED BY <1>1, IndexAlways, PTL

(* A walk over a vault at rest ends with an index level with the vault,    *)
(* whatever was in it before, and however often the walk was cut off.      *)
THEOREM WalkEndsLevel == Spec => WalkLevels
<1>1. IndexInv /\ DropStale /\ past.calm => \A f \in File \ past.met : Level(f)'
  <2> SUFFICES ASSUME IndexInv, DropStale, past.calm, NEW f \in File \ past.met PROVE Level(f)'
    OBVIOUS
  <2>1. /\ job["walk"].at = "drop" /\ UNCHANGED <<vault, app>>
        /\ row' = [g \in File |-> IF g \in walk.left THEN None ELSE row[g]]
    BY DEF DropStale, At
  <2>2. app.rule = saved
    BY <2>1 DEF IndexInv, Settled
  <2>3. /\ Done(f)
        /\ (vault[f] = None \/ f \in saved) <=> (row[f] = None \/ f \in walk.left)
    BY <2>1 DEF IndexInv, Calm, Sweeping
  <2> QED BY <2>1, <2>2, <2>3 DEF Level, Done
<1>2. IndexInv /\ [Next]_vars => [DropStale /\ past.calm => \A f \in File \ past.met : Level(f)']_vars
  BY <1>1
<1> QED BY <1>2, IndexAlways, PTL DEF Spec, WalkLevels
=============================================================================
