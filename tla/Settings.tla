------------------------------ MODULE Settings ------------------------------
(***************************************************************************)
(* Settings of one device: the files PluginConfig keeps (packages/config), *)
(* the forms that edit them and the set of pending changes one Save        *)
(* applies (plugins/settings).                                             *)
(*                                                                         *)
(* A section's settings are spread over two files that cannot be written   *)
(* together: a key annotated deviceLocal belongs to the device's file, any *)
(* other to the synced one.  Saving, a plugin's own write and the round    *)
(* that brings another device's file go on side by side; each action is    *)
(* one request to a file system, or what runs between two of them.         *)
(* A file that is absent or does not parse says nothing.                   *)
(***************************************************************************)
EXTENDS Naturals

CONSTANTS
  Section,    \* sections of the settings screen, each with its own files
  Key,        \* settings
  keysOf,     \* keysOf[s]: the settings of section s
  DeviceKey,  \* those annotated deviceLocal
  Value,      \* values of a setting
  Default,    \* the schema's default
  Unset,      \* stands for "the file does not say"
  None,
  MaxEdits,   \* bound: edits in the forms
  Shared,     \* bound: sections that plugins and rounds write
  MaxOthers,  \* bound: how often they do
  MaxFaults   \* bound: requests that fail

ASSUME SettingsAssumption ==
  /\ keysOf \in [Section -> SUBSET Key] /\ DeviceKey \subseteq Key
  /\ Default \in Value /\ Unset \notin Value /\ Shared \subseteq Section
  /\ MaxEdits \in Nat /\ MaxOthers \in Nat /\ MaxFaults \in Nat
  /\ None \notin Section
  /\ None \notin [values : [Key -> Value \cup {Unset}], keys : SUBSET Key]

VARIABLES
  files,      \* files[s]["device"] and files[s]["synced"]
  arriving,   \* what a renamed bucket brings, while reads are held for it
  page,       \* the form of each section, mounted for as long as the app runs
  staged,     \* the pending change of each section
  run,        \* saveAll: whether it is at work, the sections left, its failure
  writes,     \* where the write of a save and of a plugin are
  crossed,    \* sections two of whose writers have met (properties only)
  edits, others, faults

fileVars == <<files, arriving>>
formVars == <<page, staged>>
bounds == <<edits, others, faults>>
vars == <<fileVars, formVars, run, writes, crossed, bounds>>

Writer == {"save", "plugin"}
Says == [Key -> Value \cup {Unset}]
Nothing == [k \in Key |-> Unset]

(* { ...f, ...g } *)
Over(f, g) == [k \in Key |-> IF g[k] # Unset THEN g[k] ELSE f[k]]
Only(ks, f) == [k \in Key |-> IF k \in ks THEN f[k] ELSE Unset]
Defaulted(ks, f) == [k \in Key |-> IF k \in ks /\ f[k] = Unset THEN Default ELSE f[k]]

Split(s) == keysOf[s] \cap DeviceKey # {}
File(k) == IF k \in DeviceKey THEN "device" ELSE "synced"
OtherFile(k) == IF k \in DeviceKey THEN "synced" ELSE "device"
Owned(s, file) == {k \in keysOf[s] : File(k) = file}

(* The owner always wins; the other file answers for a key it lacks. *)
mergeConfig(fs) ==
  [k \in Key |->
    IF fs[File(k)][k] # Unset THEN fs[File(k)][k] ELSE fs[OtherFile(k)][k]]

(* Of a section with no setting of the device, only the synced file is read. *)
read(s) ==
  Defaulted(keysOf[s], IF Split(s) THEN mergeConfig(files[s]) ELSE files[s]["synced"])

Unshown == [at |-> "unshown", base |-> Nothing, local |-> Nothing, touched |-> {}]
NoRun == [on |-> FALSE, todo |-> {}, failed |-> None]
NoWrite == [at |-> "off", section |-> None, data |-> Nothing, keys |-> {},
            base |-> Nothing, before |-> Nothing, existing |-> Nothing]

(* Files of this version or of an earlier one: a setting that has changed sides
   since is still said by the file that owned it then.  Those of a renamed
   bucket are still to be moved. *)
InitWith(said, moved, pages) ==
  LET contents(s) == [f \in {"device", "synced"} |-> Only(keysOf[s], said[s][f])] IN
  /\ files = [s \in Section |->
       IF s \in moved THEN [f \in {"device", "synced"} |-> Nothing] ELSE contents(s)]
  /\ arriving = [s \in Section |-> IF s \in moved THEN contents(s) ELSE None]
  /\ page = pages
  /\ staged = [s \in Section |-> None]
  /\ run = NoRun
  /\ writes = [w \in Writer |-> NoWrite]
  /\ crossed = {}
  /\ edits = 0 /\ others = 0 /\ faults = 0

Init ==
  \E said \in [Section -> [{"device", "synced"} -> Says]], moved \in SUBSET Section :
    InitWith(said, moved, [s \in Section |-> Unshown])

Fault == faults < MaxFaults /\ faults' = faults + 1

(* The files of a renamed bucket are moved, or cannot be; then the hold ends. *)
HoldEnds(s) ==
  /\ arriving[s] # None
  /\ arriving' = [arriving EXCEPT ![s] = None]
  /\ \/ files' = [files EXCEPT ![s] = arriving[s]] /\ UNCHANGED faults
     \/ Fault /\ UNCHANGED files
  /\ UNCHANGED <<formVars, run, writes, crossed, edits, others>>

-----------------------------------------------------------------------------
(***************************************************************************)
(* The forms.                                                              *)
(***************************************************************************)
changedKeys(p) == {k \in Key : p.local[k] # p.base[k]}

(* What a form emits whenever what it shows or what it measures against
   changes, and what becomes of the section's pending change. *)
Stages(p) ==
  IF changedKeys(p) = {} THEN None ELSE [values |-> p.local, keys |-> changedKeys(p)]

(* The baseline arrives; fields already edited stay on top. *)
load(p, values) ==
  [p EXCEPT !.base = values, !.local = Over(values, Only(p.touched, p.local))]

Show(s) ==
  /\ page[s].at = "unshown"
  /\ page' = [page EXCEPT ![s].at = "loading"]
  /\ UNCHANGED <<fileVars, staged, run, writes, crossed, bounds>>

(* The section's settings are read, or the form starts from nothing. *)
Loaded(s) ==
  /\ page[s].at = "loading" /\ arriving[s] = None
  /\ \E values \in {read(s), Nothing} :
       /\ IF values = Nothing THEN Fault ELSE UNCHANGED faults
       /\ LET p == [load(page[s], values) EXCEPT !.at = "open"]
          IN /\ page' = [page EXCEPT ![s] = p]
             /\ staged' = [staged EXCEPT ![s] = Stages(p)]
  /\ UNCHANGED <<fileVars, run, writes, crossed, edits, others>>

Edit(s, k, v) ==
  /\ page[s].at # "unshown" /\ k \in keysOf[s] /\ page[s].local[k] # v
  /\ edits < MaxEdits /\ edits' = edits + 1
  /\ LET p == [page[s] EXCEPT !.local[k] = v, !.touched = @ \cup {k}]
     IN /\ page' = [page EXCEPT ![s] = p]
        /\ staged' = [staged EXCEPT ![s] = Stages(p)]
  /\ UNCHANGED <<fileVars, run, writes, crossed, others, faults>>

(* Disabled while a save runs. *)
revertAll ==
  /\ ~ run.on /\ \E s \in Section : staged[s] # None
  /\ page' = [s \in Section |->
       IF staged[s] # None THEN [page[s] EXCEPT !.local = page[s].base, !.touched = {}]
       ELSE page[s]]
  /\ staged' = [s \in Section |-> None]
  /\ UNCHANGED <<fileVars, run, writes, crossed, bounds>>

-----------------------------------------------------------------------------
(***************************************************************************)
(* saveAll: one section after another, stopped by the first that fails.    *)
(***************************************************************************)
saveAll ==
  /\ ~ run.on /\ \E s \in Section : staged[s] # None
  /\ run' = [on |-> TRUE, todo |-> {s \in Section : staged[s] # None}, failed |-> None]
  /\ UNCHANGED <<fileVars, formVars, writes, crossed, bounds>>

Begins(s) == IF Split(s) THEN "capture" ELSE "readSynced"

(* Two writers of one section have met. *)
Meets(s) ==
  crossed' = IF \E w \in Writer : writes[w].section = s
             THEN crossed \cup {s} ELSE crossed

(* The page's commit writes its whole draft as it is now. *)
commit(s) ==
  /\ run.on /\ writes["save"].at = "off" /\ s \in run.todo
  /\ run' = [run EXCEPT !.todo = @ \ {s}]
  /\ IF staged[s] = None THEN UNCHANGED <<writes, crossed>>
     ELSE /\ writes' = [writes EXCEPT !["save"] =
               [NoWrite EXCEPT !.at = Begins(s), !.section = s, !.data = staged[s].values,
                               !.keys = staged[s].keys, !.base = page[s].base]]
          /\ Meets(s)
  /\ UNCHANGED <<fileVars, formVars, bounds>>

(* The section that failed and those after it stay pending. *)
failed(w) ==
  IF w = "save"
  THEN run' = [on |-> FALSE, todo |-> {}, failed |-> writes[w].section] /\ UNCHANGED formVars
  ELSE UNCHANGED <<run, formVars>>

(* The baseline is what was written; the form stages what it shows beyond
   that, and then the section's pending change is cleared, whatever it is. *)
committed(w) ==
  LET s == writes[w].section
      p == load(page[s], writes[w].data)
  IN IF w = "save"
     THEN page' = [page EXCEPT ![s] = p] /\ staged' = [staged EXCEPT ![s] = None]
     ELSE UNCHANGED formVars

saved ==
  /\ run.on /\ run.todo = {} /\ writes["save"].at = "off"
  /\ run' = [run EXCEPT !.on = FALSE]
  /\ UNCHANGED <<fileVars, formVars, writes, crossed, bounds>>

-----------------------------------------------------------------------------
(***************************************************************************)
(* PluginConfig.write, one request at a time.                              *)
(***************************************************************************)
At(w, at) == writes[w].at = at /\ arriving[writes[w].section] = None
To(w, at) == writes' = [writes EXCEPT ![w].at = at]
Throws(w) == writes' = [writes EXCEPT ![w] = NoWrite] /\ failed(w)

capture(w) ==
  /\ At(w, "capture")
  /\ \/ /\ writes' = [writes EXCEPT ![w].at = "readDevice",
                                   ![w].before = files[writes[w].section]["device"]]
        /\ UNCHANGED <<formVars, run, faults>>
     \/ Fault /\ Throws(w)
  /\ UNCHANGED <<fileVars, crossed, edits, others>>

(* A form that would lay data over a file it could not read. *)
ReadFails_blank(w, at) ==
  /\ writes' = [writes EXCEPT ![w].at = at, ![w].existing = Nothing]
  /\ UNCHANGED <<formVars, run>>

(* What is on file must have been read before anything is laid over it. *)
ReadFails(w, at) ==
  IF at = "writeSynced" /\ Split(writes[w].section)
  THEN To(w, "restore") /\ UNCHANGED <<formVars, run>>
  ELSE Throws(w)

readExisting(w, file, from, to) ==
  /\ At(w, from)
  /\ \/ /\ writes' = [writes EXCEPT ![w].at = to,
                                   ![w].existing = files[writes[w].section][file]]
        /\ UNCHANGED <<formVars, run, faults>>
     \/ Fault /\ ReadFails(w, to)
  /\ UNCHANGED <<fileVars, crossed, edits, others>>

(* The keys the file owns: defaults, what is on file, what is written. *)
Lands(w, file) ==
  LET s == writes[w].section
      owned == Owned(s, file)
  IN files' = [files EXCEPT ![s][file] =
       Over(Defaulted(owned, writes[w].existing), Only(owned, writes[w].data))]

writeDevice(w) ==
  /\ At(w, "writeDevice")
  /\ \/ Lands(w, "device") /\ To(w, "readSynced") /\ UNCHANGED <<formVars, run, faults>>
     \/ Fault /\ Throws(w) /\ UNCHANGED files
  /\ UNCHANGED <<arriving, crossed, edits, others>>

(* A form that would leave the device's half where it is. *)
WriteFails_kept(w) == Throws(w)

WriteFails(w) ==
  IF Split(writes[w].section) THEN To(w, "restore") /\ UNCHANGED <<formVars, run>>
  ELSE Throws(w)

(* The synced file may be behind a server: it may be written and the answer lost. *)
writeSynced(w) ==
  /\ At(w, "writeSynced")
  /\ \/ Lands(w, "synced") /\ To(w, "notify") /\ UNCHANGED <<formVars, run, faults>>
     \/ Fault /\ WriteFails(w) /\ (Lands(w, "synced") \/ UNCHANGED files)
  /\ UNCHANGED <<arriving, crossed, edits, others>>

(* What failed is reported as the synced file's failure either way. *)
restore(w) ==
  /\ At(w, "restore")
  /\ \/ /\ files' = [files EXCEPT ![writes[w].section]["device"] = writes[w].before]
        /\ UNCHANGED faults
     \/ Fault /\ UNCHANGED files
  /\ Throws(w)
  /\ UNCHANGED <<arriving, crossed, edits, others>>

(* Watchers are told, unless the settings cannot be read again. *)
notifyWritten(w) ==
  /\ At(w, "notify")
  /\ writes' = [writes EXCEPT ![w] = NoWrite]
  /\ committed(w)
  /\ UNCHANGED <<fileVars, run, crossed, bounds>>

write(w) ==
  \/ capture(w)
  \/ readExisting(w, "device", "readDevice", "writeDevice") \/ writeDevice(w)
  \/ readExisting(w, "synced", "readSynced", "writeSynced") \/ writeSynced(w)
  \/ restore(w) \/ notifyWritten(w)

-----------------------------------------------------------------------------
(***************************************************************************)
(* Everybody else.                                                         *)
(***************************************************************************)
(* A plugin writes one setting of its own. *)
PluginWrites(s, k, v) ==
  /\ writes["plugin"].at = "off" /\ k \in keysOf[s] /\ s \in Shared
  /\ others < MaxOthers /\ others' = others + 1
  /\ writes' = [writes EXCEPT !["plugin"] =
       [NoWrite EXCEPT !.at = Begins(s), !.section = s, !.keys = {k},
                       !.data = [Nothing EXCEPT ![k] = v]]]
  /\ Meets(s)
  /\ UNCHANGED <<fileVars, formVars, run, edits, faults>>

(* A round takes over the synced file as another device has written it, maybe
   one of an earlier version that still keeps a setting there. *)
RoundBrings(s, k, v) ==
  /\ s \in Shared /\ arriving[s] = None /\ k \in keysOf[s] /\ files[s]["synced"][k] # v
  /\ others < MaxOthers /\ others' = others + 1
  /\ files' = [files EXCEPT ![s]["synced"][k] = v]
  /\ Meets(s)
  /\ UNCHANGED <<arriving, formVars, run, writes, edits, faults>>

Next ==
  \/ saveAll \/ saved \/ revertAll
  \/ \E s \in Section :
       \/ HoldEnds(s) \/ Show(s) \/ Loaded(s) \/ commit(s)
       \/ \E k \in Key, v \in Value :
            Edit(s, k, v) \/ PluginWrites(s, k, v) \/ RoundBrings(s, k, v)
  \/ \E w \in Writer : write(w)

Spec == Init /\ [][Next]_vars

-----------------------------------------------------------------------------
(***************************************************************************)
(* Properties.                                                             *)
(***************************************************************************)
Moved(s) == {k \in keysOf[s] : read(s)[k] # read(s)'[k]}
Steps(w) == writes[w] # writes'[w]

(* A setting that has changed sides: its own file does not say it yet. *)
Unmigrated(s, k) ==
  Split(s) /\ files[s][File(k)][k] = Unset /\ files[s][OtherFile(k)][k] # Unset

(* A write that has no value for it leaves the default in its own file, and
   putting that half back undoes it. *)
Forgets(w, s, k) ==
  /\ writes[w].data[k] = Unset
  /\ IF writes[w].at = "restore" THEN Unmigrated(s, k)' /\ read(s)[k] = Default
     ELSE Unmigrated(s, k) /\ read(s)'[k] = Default

(* A write moves no setting it was not told of, and a save none but those
   its list names: a file that could not be read is not replaced by
   defaults, a half that is put back is put back whole, a form that never
   saw a setting does not write it.  Excepted are sections two writers of
   which have met; settings that have moved since the form was loaded, for
   the form writes its whole draft (see SavesOnlyWhatItLists); and a setting
   that has changed sides, which a write without a value for it resets (see
   MovedKeyIsMigrated). *)
MovesOnlyWhatItLists ==
  [][\A w \in Writer : Steps(w) =>
       \A s \in Section \ crossed : \A k \in Moved(s) :
         /\ s = writes[w].section
         /\ \/ Forgets(w, s, k)
            \/ /\ writes[w].data[k] # Unset
               /\ \/ k \in writes[w].keys
                  \/ writes[w].base[k] #
                       (IF writes[w].at = "restore" THEN read(s)'[k] ELSE read(s)[k])]_vars

(* "A migration rather than a reset": a setting that has changed sides reads
   the same after a write that has no value for it. *)
MovedKeyIsMigrated ==
  [][\A w \in Writer : Steps(w) =>
       \A s \in Section \ crossed : \A k \in Moved(s) :
         Unmigrated(s, k) => writes[w].data[k] # Unset]_vars

(* What the list of changes shows is what Save changes, whatever came to
   the files while the form was on screen. *)
SavesOnlyWhatItLists ==
  [][Steps("save") =>
       \A s \in Section \ crossed : Moved(s) \subseteq writes["save"].keys]_vars

(* A change stays pending until it is on file, reverted or taken back: what
   a save has written reads as its list said, and a save that one request
   stops leaves its section pending and the device's half of it as it was.
   An edit that lands while its own section is being saved is the exception:
   it is cleared with it. *)
PendingUntilWritten ==
  [][\A s \in Section :
       LET w == writes["save"] IN
       /\ staged[s] # None /\ staged'[s] = None
            => \/ changedKeys(page'[s]) = {}
               \/ w.section = s /\ w.at = "notify" /\ page[s].local # w.data
       /\ w.section = s /\ w.at = "notify" /\ Steps("save") /\ s \notin crossed
            => \A k \in w.keys : read(s)'[k] = w.data[k]
       /\ run.failed # s /\ run'.failed = s
            => /\ staged'[s] = staged[s]
               /\ Split(s) /\ w.at # "capture" /\ s \notin crossed /\ faults' = 1
                    => files'[s]["device"] = w.before]_vars
=============================================================================
