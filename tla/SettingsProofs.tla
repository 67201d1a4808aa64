--------------------------- MODULE SettingsProofs ---------------------------
(***************************************************************************)
(* For any sections, settings, forms, writers and faults: a write moves    *)
(* nothing it was not told of, and a change stays pending until it is on   *)
(* file.                                                                   *)
(***************************************************************************)
EXTENDS Settings, TLAPS

-----------------------------------------------------------------------------
(***************************************************************************)
(* What is in the files, the forms and the writes.                         *)
(***************************************************************************)
FileName == {"device", "synced"}

(* Settings of section s, and its two files: either may say any of them.   *)
Of(s, v) == v \in Says /\ \A k \in Key \ keysOf[s] : v[k] = Unset
Contents(s, fs) ==
  /\ fs \in [FileName -> Says]
  /\ \A f \in FileName : Of(s, fs[f])

(* A file after data has been laid over what it said.                      *)
Laid(owned, says, data) == Over(Defaulted(owned, says), Only(owned, data))

(* What a reader is shown of a section with these files, and what they say *)
(* of a setting before the default.                                        *)
Shown(s, fs) == Defaulted(keysOf[s], IF Split(s) THEN mergeConfig(fs) ELSE fs["synced"])
Answer(s, fs, k) ==
  IF fs[File(k)][k] # Unset THEN fs[File(k)][k]
  ELSE IF Split(s) THEN fs[OtherFile(k)][k] ELSE Unset

FilesPart ==
  /\ files \in [Section -> [FileName -> Says]]
  /\ \A s \in Section : Contents(s, files[s])
  /\ arriving = [s \in Section |-> arriving[s]]
  /\ \A s \in Section : arriving[s] = None \/ Contents(s, arriving[s])
  /\ faults \in Nat

(* A form that has seen a setting shows one in its place.                  *)
FormFields == {"at", "base", "local", "touched"}
IsForm(s, p) ==
  /\ p = [f \in FormFields |-> p[f]]
  /\ Of(s, p.base) /\ Of(s, p.local) /\ p.touched \subseteq Key
  /\ \A k \in Key : p.base[k] # Unset => p.local[k] # Unset

(* What is pending is what the form shows, against what it measures.       *)
FormsPart ==
  /\ page = [s \in Section |-> page[s]] /\ staged = [s \in Section |-> staged[s]]
  /\ \A s \in Section :
       /\ IsForm(s, page[s])
       /\ staged[s] \in {None, [values |-> page[s].local, keys |-> changedKeys(page[s])]}

RunPart ==
  run = [on |-> run.on, todo |-> run.todo, failed |-> run.failed] /\ run.todo \subseteq Section

(* A write under way: its list names settings of its section that it has   *)
(* values for, and for any other it has none, or the form's own baseline.  *)
Fields == {"at", "section", "data", "keys", "base", "before", "existing"}
Halfway == {"readSynced", "writeSynced", "restore", "notify"}
IsWrite(it) ==
  LET s == it.section IN
  /\ it = [f \in Fields |-> it[f]]
  /\ s \in Section /\ it.at \in {"capture", "readDevice", "writeDevice"} \cup Halfway
  /\ Of(s, it.data) /\ it.base \in Says /\ it.keys \subseteq keysOf[s]
  /\ \A k \in it.keys : it.data[k] # Unset
  /\ \A k \in Key \ it.keys : it.data[k] \in {Unset, it.base[k]}
  /\ Of(s, it.before) /\ Of(s, it.existing)
  /\ it.at \in {"capture", "readDevice", "writeDevice", "restore"} => Split(s)
  /\ it.at = "restore" => faults > 0
  /\ it.at # Begins(s) => arriving[s] = None

(* What a write knows of its files while it has met no other writer.       *)
Undisturbed(it, fs) ==
  LET s == it.section IN
  /\ it.at \in {"readDevice", "writeDevice"} => fs["device"] = it.before
  /\ it.at = "writeDevice" => it.existing = fs["device"]
  /\ it.at \in Halfway /\ Split(s) => fs["device"] = Laid(Owned(s, "device"), it.before, it.data)
  /\ it.at = "writeSynced" => it.existing = fs["synced"]
  /\ it.at = "notify"
       => \A k \in Owned(s, "synced") : it.data[k] # Unset => fs["synced"][k] = it.data[k]

WritesPart ==
  /\ writes = [w \in Writer |-> writes[w]]
  /\ \A w \in Writer :
       \/ writes[w] = NoWrite
       \/ /\ IsWrite(writes[w])
          /\ writes[w].section \notin crossed
               => Undisturbed(writes[w], files[writes[w].section])

(* Two writers of one section have been seen to meet.                      *)
ApartPart ==
  \A s \in Section :
    writes["save"].section = s /\ writes["plugin"].section = s => s \in crossed

SettingsInv == FilesPart /\ FormsPart /\ RunPart /\ WritesPart /\ ApartPart

-----------------------------------------------------------------------------
(***************************************************************************)
(* What a reader is shown, and what is laid over a file.                   *)
(***************************************************************************)
LEMMA NothingSays == Nothing \in Says /\ \A s \in Section : Of(s, Nothing)
BY DEF Nothing, Says, Of

LEMMA OwnedIs ==
  ASSUME NEW s \in Section, NEW k \in Key
  PROVE  /\ \A f \in FileName : k \in Owned(s, f) <=> k \in keysOf[s] /\ File(k) = f
         /\ File(k) \in FileName /\ OtherFile(k) \in FileName /\ OtherFile(k) # File(k)
         /\ k \in keysOf[s] /\ ~ Split(s) => File(k) = "synced"
         /\ k \in Owned(s, "device") => Split(s)
         /\ keysOf[s] \subseteq Key
BY SettingsAssumption DEF Owned, File, OtherFile, FileName, Split

(* The file that owns a setting answers for it, then the other one, where  *)
(* it is read, and then the default.                                       *)
LEMMA ShownIs ==
  ASSUME NEW s \in Section, NEW fs, Contents(s, fs)
  PROVE  /\ \A k \in keysOf[s] :
              Shown(s, fs)[k] = IF Answer(s, fs, k) # Unset THEN Answer(s, fs, k) ELSE Default
         /\ \A k \in keysOf[s] : Shown(s, fs)[k] # Unset
         /\ Of(s, Shown(s, fs))
<1> DEFINE text == IF Split(s) THEN mergeConfig(fs) ELSE fs["synced"]
<1>1. \A k \in Key : mergeConfig(fs)[k] = IF fs[File(k)][k] # Unset THEN fs[File(k)][k]
                                          ELSE fs[OtherFile(k)][k]
  BY DEF mergeConfig
<1>2. \A k \in Key : /\ fs[File(k)][k] \in Value \cup {Unset}
                     /\ fs[OtherFile(k)][k] \in Value \cup {Unset}
                     /\ fs["synced"][k] \in Value \cup {Unset}
                     /\ k \notin keysOf[s] => /\ fs[File(k)][k] = Unset
                                              /\ fs[OtherFile(k)][k] = Unset
                                              /\ fs["synced"][k] = Unset
  BY OwnedIs DEF Contents, Of, Says, FileName
<1>3. \A k \in Key : k \in keysOf[s] => text[k] = Answer(s, fs, k)
  BY <1>1, OwnedIs DEF Answer
<1>4. \A k \in Key : /\ text[k] \in Value \cup {Unset}
                     /\ k \notin keysOf[s] => text[k] = Unset
  BY <1>1, <1>2
<1>5. \A k \in Key : Shown(s, fs)[k] = IF k \in keysOf[s] /\ text[k] = Unset
                                       THEN Default ELSE text[k]
  BY DEF Shown, Defaulted
<1>6. Shown(s, fs) = [k \in Key |-> Shown(s, fs)[k]]
  BY DEF Shown, Defaulted
<1>7. Default \in Value /\ Default # Unset /\ keysOf[s] \subseteq Key
  BY SettingsAssumption
<1> HIDE DEF text
<1>8. \A k \in Key : /\ Shown(s, fs)[k] \in Value \cup {Unset}
                     /\ k \notin keysOf[s] => Shown(s, fs)[k] = Unset
  BY <1>4, <1>5, <1>7
<1>9. Of(s, Shown(s, fs))
  BY <1>6, <1>8 DEF Of, Says
<1>10. \A k \in keysOf[s] :
         Shown(s, fs)[k] = IF Answer(s, fs, k) # Unset THEN Answer(s, fs, k) ELSE Default
  BY <1>3, <1>5, <1>7
<1> QED BY <1>5, <1>7, <1>9, <1>10

(* Laid over a file, data moves only what the file owns.                   *)
LEMMA LaidIs ==
  ASSUME NEW s \in Section, NEW file \in FileName, NEW says, Of(s, says), NEW data \in Says
  PROVE  LET new == Laid(Owned(s, file), says, data) IN
         /\ Of(s, new)
         /\ \A k \in Key \ Owned(s, file) : new[k] = says[k]
         /\ \A k \in Owned(s, file) :
              new[k] = IF data[k] # Unset THEN data[k]
                       ELSE IF says[k] # Unset THEN says[k] ELSE Default
<1> DEFINE owned == Owned(s, file)
           new == Laid(owned, says, data)
<1>1. \A k \in Key : Defaulted(owned, says)[k] =
                       IF k \in owned /\ says[k] = Unset THEN Default ELSE says[k]
  BY DEF Defaulted
<1>2. \A k \in Key : Only(owned, data)[k] = IF k \in owned THEN data[k] ELSE Unset
  BY DEF Only
<1>3. \A k \in Key : new[k] = IF Only(owned, data)[k] # Unset THEN Only(owned, data)[k]
                              ELSE Defaulted(owned, says)[k]
  BY DEF Laid, Over
<1>4. new = [k \in Key |-> new[k]]
  BY DEF Laid, Over
<1>5. \A k \in owned : k \in Key /\ k \in keysOf[s]
  BY SettingsAssumption DEF Owned
<1>6. /\ Default \in Value
      /\ \A k \in Key : says[k] \in Value \cup {Unset} /\ data[k] \in Value \cup {Unset}
  BY SettingsAssumption DEF Says, Of
<1>7. \A k \in Key : new[k] = IF k \in owned /\ data[k] # Unset THEN data[k]
                              ELSE IF k \in owned /\ says[k] = Unset THEN Default ELSE says[k]
  BY <1>1, <1>2, <1>3
<1> HIDE DEF new
<1>8. new \in Says
  BY <1>4, <1>6, <1>7 DEF Says
<1>9. \A k \in Key \ owned : new[k] = says[k]
  BY <1>7
<1>10. \A k \in owned : new[k] = IF data[k] # Unset THEN data[k]
                                 ELSE IF says[k] # Unset THEN says[k] ELSE Default
  BY <1>5, <1>7
<1>11. Of(s, new)
  BY <1>5, <1>8, <1>9 DEF Of
<1> QED BY <1>9, <1>10, <1>11 DEF new, owned

(* A form that loads a baseline.                                           *)
LEMMA LoadIs ==
  ASSUME NEW s \in Section, NEW p, IsForm(s, p), NEW values, Of(s, values)
  PROVE  /\ IsForm(s, load(p, values))
         /\ load(p, values).base = values
         /\ load(p, values).at = p.at
         /\ p.local = values => changedKeys(load(p, values)) = {}
<1> DEFINE q == load(p, values)
           kept == Only(p.touched, p.local)
<1>1. /\ q = [f \in FormFields |-> q[f]]
      /\ q.at = p.at /\ q.base = values /\ q.local = Over(values, kept) /\ q.touched = p.touched
  BY DEF load, IsForm, FormFields
<1>2. \A k \in Key : kept[k] = IF k \in p.touched THEN p.local[k] ELSE Unset
  BY DEF Only
<1>3. \A k \in Key : Over(values, kept)[k] = IF kept[k] # Unset THEN kept[k] ELSE values[k]
  BY DEF Over
<1>4. Over(values, kept) = [k \in Key |-> Over(values, kept)[k]]
  BY DEF Over
<1>5. \A k \in Key : values[k] \in Value \cup {Unset} /\ p.local[k] \in Value \cup {Unset}
  BY DEF IsForm, Of, Says
<1> HIDE DEF kept
<1>6. \A k \in Key : q.local[k] \in Value \cup {Unset} /\ (values[k] # Unset => q.local[k] # Unset)
  BY <1>1, <1>2, <1>3, <1>5
<1>7. \A k \in Key \ keysOf[s] : q.local[k] = Unset
  BY <1>1, <1>2, <1>3 DEF IsForm, Of
<1>8. q.local = [k \in Key |-> q.local[k]]
  BY <1>1, <1>4
<1> HIDE DEF q
<1>9. Of(s, q.local)
  BY <1>6, <1>7, <1>8 DEF Of, Says
<1>10. p.local = values => \A k \in Key : q.local[k] = q.base[k]
  BY <1>1, <1>2, <1>3
<1>11. IsForm(s, q)
  BY <1>1, <1>6, <1>9 DEF IsForm
<1>12. q.base = values /\ q.at = p.at
  BY <1>1
<1>13. p.local = values => changedKeys(q) = {}
  BY <1>10 DEF changedKeys
<1> QED BY <1>11, <1>12, <1>13 DEF q

(* What a form emits: nothing exactly when nothing has changed.            *)
LEMMA StagesIs ==
  ASSUME NEW s \in Section, NEW p, IsForm(s, p)
  PROVE  /\ Stages(p) \in {None, [values |-> p.local, keys |-> changedKeys(p)]}
         /\ Stages(p) = None => changedKeys(p) = {}
         /\ \A k \in changedKeys(p) : k \in keysOf[s] /\ p.local[k] # Unset
         /\ \A k \in Key \ changedKeys(p) : p.local[k] = p.base[k]
<1>1. [values |-> p.local, keys |-> changedKeys(p)] # None
  <2>1. p.local \in [Key -> Value \cup {Unset}] /\ changedKeys(p) \in SUBSET Key
    BY DEF IsForm, Of, Says, changedKeys
  <2> QED BY <2>1, SettingsAssumption
<1>2. \A k \in Key : p.local[k] # p.base[k] => k \in keysOf[s] /\ p.local[k] # Unset
  BY DEF IsForm, Of
<1> QED BY <1>1, <1>2 DEF Stages, changedKeys

-----------------------------------------------------------------------------
(***************************************************************************)
(* The beginning, and steps that leave a part alone.                       *)
(***************************************************************************)
LEMMA SettingsInit == Init => SettingsInv
<1> SUFFICES ASSUME Init PROVE SettingsInv
  OBVIOUS
<1>1. PICK said \in [Section -> [FileName -> Says]], moved \in SUBSET Section :
        InitWith(said, moved, [s \in Section |-> Unshown])
  BY DEF Init, FileName
<1> DEFINE contents(s) == [f \in FileName |-> Only(keysOf[s], said[s][f])]
           blank == [f \in FileName |-> Nothing]
<1>2. /\ files = [s \in Section |-> IF s \in moved THEN blank ELSE contents(s)]
      /\ arriving = [s \in Section |-> IF s \in moved THEN contents(s) ELSE None]
      /\ page = [s \in Section |-> Unshown] /\ staged = [s \in Section |-> None]
      /\ run = NoRun /\ writes = [w \in Writer |-> NoWrite] /\ faults = 0
  BY <1>1 DEF InitWith, FileName
<1>3. \A s \in Section : Contents(s, blank)
  BY NothingSays DEF Contents, Nothing
<1>4. \A s \in Section : Contents(s, contents(s))
  BY DEF Contents, Of, Only, Says
<1> HIDE DEF contents, blank
<1>5. FilesPart
  BY <1>2, <1>3, <1>4 DEF FilesPart, Contents
<1>6. \A s \in Section : IsForm(s, Unshown)
  BY NothingSays DEF IsForm, FormFields, Unshown, Nothing
<1>7. FormsPart
  BY <1>2, <1>6 DEF FormsPart
<1>8. RunPart
  BY <1>2 DEF RunPart, NoRun
<1>9. WritesPart
  BY <1>2 DEF WritesPart
<1>10. ApartPart
  BY <1>2, SettingsAssumption DEF ApartPart, Writer, NoWrite
<1> QED BY <1>5, <1>7, <1>8, <1>9, <1>10 DEF SettingsInv

LEMMA StillFiles ==
  ASSUME FilesPart, UNCHANGED fileVars, faults' \in Nat
  PROVE  FilesPart'
BY DEF FilesPart, fileVars, Contents

LEMMA StillForms == FormsPart /\ UNCHANGED formVars => FormsPart'
BY DEF FormsPart, formVars

(* A write stays one for as long as its section's hold and the count of    *)
(* faults only move forward.                                               *)
LEMMA StillWrite ==
  ASSUME NEW it, IsWrite(it), faults \in Nat, faults' \in Nat, faults' >= faults,
         arriving'[it.section] \in {arriving[it.section], None}
  PROVE  IsWrite(it)'
<1>1. it.at # Begins(it.section) => arriving'[it.section] = None
  BY DEF IsWrite
<1>2. it.at = "restore" => faults' > 0
  BY DEF IsWrite
<1> QED BY <1>1, <1>2 DEF IsWrite

LEMMA StillWrites ==
  ASSUME WritesPart, ApartPart, UNCHANGED <<writes, crossed, fileVars>>,
         faults \in Nat, faults' \in Nat, faults' >= faults
  PROVE  WritesPart' /\ ApartPart'
<1>1. WritesPart'
  <2> SUFFICES ASSUME NEW w \in Writer, writes[w] # NoWrite
               PROVE  /\ IsWrite(writes[w])'
                      /\ writes[w].section \notin crossed
                           => Undisturbed(writes[w], files[writes[w].section])
    BY DEF WritesPart, fileVars
  <2> DEFINE it == writes[w]
  <2>1. IsWrite(it) /\ it' = it /\ (it.section \notin crossed => Undisturbed(it, files[it.section]))
    BY DEF WritesPart
  <2>2. arriving' = arriving
    BY DEF fileVars
  <2> QED BY <2>1, <2>2, StillWrite
<1>2. ApartPart'
  BY DEF ApartPart
<1> QED BY <1>1, <1>2

(* The forms and the run may move; the files and the writes do not.        *)
LEMMA FaultIs ==
  ASSUME faults \in Nat
  PROVE  /\ Fault => faults' \in Nat /\ faults' > faults
         /\ UNCHANGED faults => faults' \in Nat /\ faults' >= faults
BY DEF Fault

LEMMA QuietKeeps ==
  ASSUME SettingsInv, UNCHANGED <<writes, crossed, fileVars>>, Fault \/ UNCHANGED faults,
         FormsPart', RunPart'
  PROVE  SettingsInv'
<1>1. faults \in Nat
  BY DEF SettingsInv, FilesPart
<1>2. faults' \in Nat /\ faults' >= faults
  BY <1>1, FaultIs
<1>3. FilesPart'
  BY <1>2, StillFiles DEF SettingsInv
<1>4. WritesPart' /\ ApartPart'
  BY <1>1, <1>2, StillWrites DEF SettingsInv
<1> QED BY <1>3, <1>4 DEF SettingsInv

-----------------------------------------------------------------------------
(***************************************************************************)
(* The forms, and saveAll.                                                 *)
(***************************************************************************)
(* One form moves, and what it emits is staged.                            *)
LEMMA FormMoves ==
  ASSUME SettingsInv, NEW s \in Section, NEW p, IsForm(s, p),
         page' = [page EXCEPT ![s] = p],
         staged' = [staged EXCEPT ![s] = Stages(p)] \/ staged' = [staged EXCEPT ![s] = None]
  PROVE  FormsPart'
<1>1. page'[s] = p /\ \A q \in Section \ {s} : page'[q] = page[q]
  BY DEF SettingsInv, FormsPart
<1>2. staged'[s] \in {None, Stages(p)} /\ \A q \in Section \ {s} : staged'[q] = staged[q]
  BY DEF SettingsInv, FormsPart
<1>3. staged'[s] \in {None, [values |-> p.local, keys |-> changedKeys(p)]}
  BY <1>2, StagesIs
<1>4. page' = [q \in Section |-> page'[q]] /\ staged' = [q \in Section |-> staged'[q]]
  BY DEF SettingsInv, FormsPart
<1>5. \A q \in Section :
        /\ IsForm(q, page'[q])
        /\ staged'[q] \in {None, [values |-> page'[q].local, keys |-> changedKeys(page'[q])]}
  BY <1>1, <1>2, <1>3 DEF SettingsInv, FormsPart
<1> QED BY <1>4, <1>5 DEF FormsPart

LEMMA LoadedMoves ==
  ASSUME SettingsInv, NEW s \in Section, Loaded(s)
  PROVE  \E p : /\ IsForm(s, p) /\ page' = [page EXCEPT ![s] = p]
                /\ staged' = [staged EXCEPT ![s] = Stages(p)]
<1>1. PICK values \in {read(s), Nothing} :
        LET p == [load(page[s], values) EXCEPT !.at = "open"]
        IN page' = [page EXCEPT ![s] = p] /\ staged' = [staged EXCEPT ![s] = Stages(p)]
  BY DEF Loaded
<1> DEFINE q == load(page[s], values)
           p == [q EXCEPT !.at = "open"]
<1>2. Of(s, values)
  <2>1. read(s) = Shown(s, files[s]) /\ Contents(s, files[s])
    BY DEF read, Shown, SettingsInv, FilesPart
  <2> QED BY <2>1, ShownIs, NothingSays
<1>3. IsForm(s, q)
  BY <1>2, LoadIs DEF SettingsInv, FormsPart
<1>4. p = [f \in FormFields |-> p[f]] /\ p.base = q.base /\ p.local = q.local /\ p.touched = q.touched
  <2> HIDE DEF q
  <2> QED BY <1>3 DEF IsForm, FormFields
<1>5. IsForm(s, p)
  <2> HIDE DEF p, q
  <2> QED BY <1>3, <1>4 DEF IsForm
<1> QED BY <1>1, <1>5

LEMMA EditMoves ==
  ASSUME SettingsInv, NEW s \in Section, NEW k \in Key, NEW v \in Value, Edit(s, k, v)
  PROVE  \E p : /\ IsForm(s, p) /\ page' = [page EXCEPT ![s] = p]
                /\ staged' = [staged EXCEPT ![s] = Stages(p)]
<1> DEFINE q == page[s]
           p == [q EXCEPT !.local[k] = v, !.touched = @ \cup {k}]
<1>1. page' = [page EXCEPT ![s] = p] /\ staged' = [staged EXCEPT ![s] = Stages(p)] /\ k \in keysOf[s]
  BY DEF Edit
<1>2. IsForm(s, q)
  BY DEF SettingsInv, FormsPart
<1>3. /\ p = [f \in FormFields |-> p[f]]
      /\ p.base = q.base /\ p.local = [q.local EXCEPT ![k] = v] /\ p.touched = q.touched \cup {k}
  <2> HIDE DEF q
  <2> QED BY <1>2 DEF IsForm, FormFields
<1> HIDE DEF p, q
<1>4. p.local \in Says /\ \A n \in Key : p.local[n] = IF n = k THEN v ELSE q.local[n]
  BY <1>2, <1>3 DEF IsForm, Of, Says
<1>5. v # Unset
  BY SettingsAssumption
<1>6. IsForm(s, p)
  BY <1>1, <1>2, <1>3, <1>4, <1>5 DEF IsForm, Of
<1> QED BY <1>1, <1>6

LEMMA ShowKeeps ==
  ASSUME SettingsInv, NEW s \in Section, Show(s)
  PROVE  SettingsInv'
<1> DEFINE q == page[s]
           p == [q EXCEPT !.at = "loading"]
<1>1. IsForm(s, q) /\ page' = [page EXCEPT ![s] = p] /\ staged' = staged
  BY DEF SettingsInv, FormsPart, Show
<1>2. p = [f \in FormFields |-> p[f]] /\ p.base = q.base /\ p.local = q.local /\ p.touched = q.touched
  <2> HIDE DEF q
  <2> QED BY <1>1 DEF IsForm, FormFields
<1>3. IsForm(s, p) /\ changedKeys(p) = changedKeys(q)
  <2> HIDE DEF p, q
  <2> QED BY <1>1, <1>2 DEF IsForm, changedKeys
<1>4. page'[s] = p /\ \A r \in Section \ {s} : page'[r] = page[r]
  BY <1>1 DEF SettingsInv, FormsPart
<1>5. page' = [r \in Section |-> page'[r]]
  BY <1>1 DEF SettingsInv, FormsPart
<1>6. [values |-> p.local, keys |-> changedKeys(p)] = [values |-> q.local, keys |-> changedKeys(q)]
  BY <1>2, <1>3
<1> HIDE DEF p
<1>7. FormsPart'
  BY <1>1, <1>3, <1>4, <1>5, <1>6 DEF SettingsInv, FormsPart
<1>8. RunPart' /\ UNCHANGED <<writes, crossed, fileVars>> /\ UNCHANGED faults
  BY DEF Show, SettingsInv, RunPart, bounds
<1> QED BY <1>7, <1>8, QuietKeeps

LEMMA RevertIs ==
  ASSUME SettingsInv, revertAll, NEW s \in Section
  PROVE  /\ IsForm(s, page'[s]) /\ staged'[s] = None
         /\ staged[s] # None => changedKeys(page'[s]) = {}
<1> DEFINE q == page[s]
           p == [q EXCEPT !.local = q.base, !.touched = {}]
<1>1. IsForm(s, q)
  BY DEF SettingsInv, FormsPart
<1>2. page'[s] = (IF staged[s] # None THEN p ELSE q) /\ staged'[s] = None
  BY DEF revertAll
<1>3. p = [f \in FormFields |-> p[f]] /\ p.base = q.base /\ p.local = q.base /\ p.touched = {}
  <2> HIDE DEF q
  <2> QED BY <1>1 DEF IsForm, FormFields
<1> HIDE DEF p, q
<1>4. IsForm(s, p) /\ changedKeys(p) = {}
  BY <1>1, <1>3 DEF IsForm, changedKeys
<1> QED BY <1>1, <1>2, <1>4

(* The forms and the run.                                                  *)
LEMMA FormsKeep ==
  ASSUME SettingsInv,
         \/ saveAll \/ saved \/ revertAll
         \/ \E s \in Section : \/ Show(s) \/ Loaded(s)
                               \/ \E k \in Key, v \in Value : Edit(s, k, v)
  PROVE  SettingsInv'
<1>1. ASSUME saveAll \/ saved PROVE SettingsInv'
  <2>1. FormsPart' /\ UNCHANGED <<writes, crossed, fileVars>> /\ UNCHANGED faults
    BY <1>1, StillForms DEF saveAll, saved, SettingsInv, bounds
  <2>2. RunPart'
    BY <1>1 DEF saveAll, saved, RunPart, SettingsInv
  <2> QED BY <2>1, <2>2, QuietKeeps
<1>2. CASE revertAll
  <2>1. FormsPart'
    <3>1. page' = [s \in Section |-> page'[s]] /\ staged' = [s \in Section |-> staged'[s]]
      BY <1>2 DEF revertAll
    <3>2. \A s \in Section : IsForm(s, page'[s]) /\ staged'[s] = None
      BY <1>2, RevertIs
    <3> QED BY <3>1, <3>2 DEF FormsPart
  <2>2. RunPart' /\ UNCHANGED <<writes, crossed, fileVars>> /\ UNCHANGED faults
    BY <1>2 DEF revertAll, SettingsInv, RunPart, bounds
  <2> QED BY <2>1, <2>2, QuietKeeps
<1>3. ASSUME NEW s \in Section, Loaded(s) PROVE SettingsInv'
  <2>1. FormsPart'
    BY <1>3, LoadedMoves, FormMoves
  <2>2. RunPart' /\ UNCHANGED <<writes, crossed, fileVars>>
    BY <1>3 DEF Loaded, SettingsInv, RunPart
  <2>3. Fault \/ UNCHANGED faults
    BY <1>3 DEF Loaded
  <2> QED BY <2>1, <2>2, <2>3, QuietKeeps
<1>4. ASSUME NEW s \in Section, NEW k \in Key, NEW v \in Value, Edit(s, k, v) PROVE SettingsInv'
  <2>1. FormsPart'
    BY <1>4, EditMoves, FormMoves
  <2>2. RunPart' /\ UNCHANGED <<writes, crossed, fileVars>> /\ UNCHANGED faults
    BY <1>4 DEF Edit, SettingsInv, RunPart
  <2> QED BY <2>1, <2>2, QuietKeeps
<1>5. ASSUME NEW s \in Section, Show(s) PROVE SettingsInv'
  BY <1>5, ShowKeeps
<1> QED BY <1>1, <1>2, <1>3, <1>4, <1>5

-----------------------------------------------------------------------------
(***************************************************************************)
(* Writes that begin, go on and end; files that others bring.              *)
(***************************************************************************)
(* What another writer knows is not touched by a writer it has not met.    *)
LEMMA WriterMoves ==
  ASSUME SettingsInv, NEW w \in Writer, writes[w] # NoWrite, NEW it,
         writes' = [writes EXCEPT ![w] = it],
         \/ it = NoWrite
         \/ /\ IsWrite(it)' /\ it.section = writes[w].section
            /\ it.section \notin crossed => Undisturbed(it, files'[it.section]),
         crossed' = crossed, arriving' = arriving, Fault \/ UNCHANGED faults,
         files' = [s \in Section |-> files'[s]],
         Contents(writes[w].section, files'[writes[w].section]),
         \A s \in Section : s # writes[w].section => files'[s] = files[s]
  PROVE  FilesPart' /\ WritesPart' /\ ApartPart'
<1>1. faults \in Nat /\ faults' \in Nat /\ faults' >= faults
  BY FaultIs DEF SettingsInv, FilesPart
<1>2. writes'[w] = it /\ \A q \in Writer : q # w => writes'[q] = writes[q]
  BY DEF SettingsInv, WritesPart
<1>3. writes' = [q \in Writer |-> writes'[q]]
  BY DEF SettingsInv, WritesPart
<1>4. IsWrite(writes[w]) /\ writes[w].section \in Section
  BY DEF SettingsInv, WritesPart, IsWrite
<1>5. \A s \in Section : Contents(s, files'[s])
  BY <1>4 DEF SettingsInv, FilesPart
<1>6. FilesPart'
  <2>1. files' \in [Section -> [FileName -> Says]]
    BY <1>5 DEF Contents
  <2> QED BY <1>1, <1>5, <2>1 DEF SettingsInv, FilesPart, Contents
<1>7. \A q \in Writer : q # w /\ writes[q] # NoWrite =>
        /\ IsWrite(writes[q])'
        /\ writes[q].section \notin crossed
             => Undisturbed(writes[q], files'[writes[q].section])
  <2> SUFFICES ASSUME NEW q \in Writer, q # w, writes[q] # NoWrite
               PROVE  /\ IsWrite(writes[q])'
                      /\ writes[q].section \notin crossed
                           => Undisturbed(writes[q], files'[writes[q].section])
    OBVIOUS
  <2> DEFINE him == writes[q]
  <2>1. /\ IsWrite(him) /\ him' = him /\ him.section \in Section
        /\ him.section \notin crossed => Undisturbed(him, files[him.section])
    BY <1>2 DEF SettingsInv, WritesPart, IsWrite
  <2>2. IsWrite(him)'
    BY <1>1, <2>1, StillWrite
  <2>3. him.section \notin crossed => him.section # writes[w].section
    BY <1>4, <2>1 DEF SettingsInv, ApartPart, Writer
  <2> QED BY <2>1, <2>2, <2>3
<1>8. WritesPart'
  <2> SUFFICES ASSUME NEW q \in Writer, writes'[q] # NoWrite
               PROVE  /\ IsWrite(writes[q])'
                      /\ writes'[q].section \notin crossed'
                           => Undisturbed(writes'[q], files'[writes'[q].section])
    BY <1>3 DEF WritesPart
  <2>1. CASE q = w
    <3>1. IsWrite(it)' /\ (it.section \notin crossed => Undisturbed(it, files'[it.section]))
      BY <1>2, <2>1
    <3>2. (writes[q])' = it
      BY <1>2, <2>1
    <3> QED BY <3>1, <3>2
  <2>2. CASE q # w
    BY <1>2, <1>7, <2>2
  <2> QED BY <2>1, <2>2
<1>9. ApartPart'
  <2>1. \A q \in Writer, s \in Section : writes'[q].section = s => writes[q].section = s
    BY <1>2, SettingsAssumption DEF NoWrite
  <2> QED BY <2>1 DEF ApartPart, SettingsInv, Writer
<1> QED BY <1>6, <1>8, <1>9

(* A write begins: whoever it meets is noted.                              *)
LEMMA WriteBegins ==
  ASSUME SettingsInv, NEW w \in Writer, writes[w].at = "off", NEW s \in Section,
         NEW it, it = [f \in Fields |-> it[f]],
         it.at = Begins(s), it.section = s, it.before = Nothing, it.existing = Nothing,
         Of(s, it.data), it.base \in Says, it.keys \subseteq keysOf[s],
         \A k \in it.keys : it.data[k] # Unset,
         \A k \in Key \ it.keys : it.data[k] \in {Unset, it.base[k]},
         writes' = [writes EXCEPT ![w] = it], Meets(s), UNCHANGED <<fileVars, faults>>
  PROVE  FilesPart' /\ WritesPart' /\ ApartPart'
<1>1. writes[w] = NoWrite
  BY DEF SettingsInv, WritesPart, IsWrite, Halfway
<1>2. IsWrite(it)
  <2>1. /\ it.at \in {"capture", "readDevice", "writeDevice"} \cup Halfway
        /\ it.at \in {"capture", "readDevice", "writeDevice", "restore"} => Split(s)
        /\ it.at \notin {"writeDevice", "writeSynced", "restore"}
    BY DEF Begins, Halfway
  <2>2. Of(s, Nothing)
    BY NothingSays
  <2> QED BY <2>1, <2>2 DEF IsWrite
<1>3. Undisturbed(it, files[s])
  BY DEF Begins, Undisturbed, Halfway
<1>4. writes'[w] = it /\ \A q \in Writer : q # w => writes'[q] = writes[q]
  BY DEF SettingsInv, WritesPart
<1>5. writes' = [q \in Writer |-> writes'[q]]
  BY DEF SettingsInv, WritesPart
<1>6. files' = files /\ arriving' = arriving /\ faults' = faults /\ faults \in Nat
  BY DEF fileVars, SettingsInv, FilesPart
<1>7. FilesPart'
  BY <1>6, StillFiles DEF SettingsInv
<1>8. crossed \subseteq crossed' /\ \A q \in Writer : writes[q].section = s => s \in crossed'
  BY DEF Meets
<1>9. WritesPart'
  <2> SUFFICES ASSUME NEW q \in Writer, writes'[q] # NoWrite
               PROVE  /\ IsWrite(writes[q])'
                      /\ writes'[q].section \notin crossed'
                           => Undisturbed(writes'[q], files'[writes'[q].section])
    BY <1>5 DEF WritesPart
  <2> DEFINE new == (writes[q])'
  <2>1. IsWrite(new) /\ (new.section \notin crossed => Undisturbed(new, files[new.section]))
    BY <1>2, <1>3, <1>4 DEF SettingsInv, WritesPart
  <2>2. IsWrite(writes[q])'
    BY <1>6, <2>1 DEF IsWrite
  <2> QED BY <1>6, <1>8, <2>1, <2>2
<1>10. ApartPart'
  <2> SUFFICES ASSUME NEW t \in Section, writes'["save"].section = t, writes'["plugin"].section = t
               PROVE  t \in crossed'
    BY DEF ApartPart
  <2>1. CASE t = s
    BY <1>4, <1>8, <2>1 DEF Writer
  <2>2. CASE t # s
    BY <1>4, <1>8, <2>2 DEF Writer, SettingsInv, ApartPart
  <2> QED BY <2>1, <2>2
<1> QED BY <1>7, <1>9, <1>10

LEMMA CommitKeeps ==
  ASSUME SettingsInv, NEW s \in Section, commit(s)
  PROVE  SettingsInv'
<1>1. FormsPart' /\ UNCHANGED <<fileVars, faults>>
  BY StillForms DEF commit, SettingsInv, bounds
<1>2. RunPart'
  BY DEF commit, SettingsInv, RunPart
<1>3. CASE staged[s] = None
  <2>1. UNCHANGED <<writes, crossed, fileVars>> /\ UNCHANGED faults
    BY <1>1, <1>3 DEF commit
  <2> QED BY <1>1, <1>2, <2>1, QuietKeeps
<1>4. CASE staged[s] # None
  <2> DEFINE p == page[s]
             values == staged[s].values
             keys == staged[s].keys
             it == [NoWrite EXCEPT !.at = Begins(s), !.section = s, !.data = values,
                                   !.keys = keys, !.base = p.base]
  <2>1. IsForm(s, p) /\ values = p.local /\ keys = changedKeys(p)
    <3>1. IsForm(s, p) /\ staged[s] = [values |-> p.local, keys |-> changedKeys(p)]
      BY <1>4 DEF SettingsInv, FormsPart
    <3> QED BY <3>1
  <2>2. /\ it = [f \in Fields |-> it[f]] /\ it.at = Begins(s) /\ it.section = s
        /\ it.before = Nothing /\ it.existing = Nothing
        /\ it.data = values /\ it.keys = keys /\ it.base = p.base
    <3> HIDE DEF p, values, keys
    <3> QED BY DEF NoWrite, Fields
  <2>3. writes["save"].at = "off" /\ writes' = [writes EXCEPT !["save"] = it] /\ Meets(s)
    BY <1>4 DEF commit
  <2> HIDE DEF it, p, values, keys
  <2>4. /\ Of(s, it.data) /\ it.base \in Says /\ it.keys \subseteq keysOf[s]
        /\ \A k \in it.keys : it.data[k] # Unset
        /\ \A k \in Key \ it.keys : it.data[k] \in {Unset, it.base[k]}
    <3>1. /\ \A k \in keys : k \in keysOf[s] /\ p.local[k] # Unset
          /\ \A k \in Key \ keys : p.local[k] = p.base[k]
      BY <2>1, StagesIs
    <3>2. Of(s, p.local) /\ p.base \in Says
      BY <2>1 DEF IsForm, Of
    <3> QED BY <2>1, <2>2, <3>1, <3>2
  <2>5. FilesPart' /\ WritesPart' /\ ApartPart'
    BY <1>1, <2>2, <2>3, <2>4, WriteBegins DEF Writer
  <2> QED BY <1>1, <1>2, <2>5 DEF SettingsInv
<1> QED BY <1>3, <1>4

LEMMA PluginWritesKeeps ==
  ASSUME SettingsInv, NEW s \in Section, NEW k \in Key, NEW v \in Value, PluginWrites(s, k, v)
  PROVE  SettingsInv'
<1> DEFINE it == [NoWrite EXCEPT !.at = Begins(s), !.section = s, !.keys = {k},
                                 !.data = [Nothing EXCEPT ![k] = v]]
<1>1. /\ k \in keysOf[s] /\ writes["plugin"].at = "off" /\ Meets(s)
      /\ writes' = [writes EXCEPT !["plugin"] = it]
      /\ UNCHANGED <<fileVars, faults>> /\ UNCHANGED formVars /\ run' = run
  BY DEF PluginWrites
<1>2. /\ it = [f \in Fields |-> it[f]] /\ it.at = Begins(s) /\ it.section = s
      /\ it.before = Nothing /\ it.existing = Nothing
      /\ it.data = [Nothing EXCEPT ![k] = v] /\ it.keys = {k} /\ it.base = Nothing
  BY DEF NoWrite, Fields
<1> HIDE DEF it
<1>3. it.data \in Says /\ \A n \in Key : it.data[n] = IF n = k THEN v ELSE Unset
  BY <1>2 DEF Nothing, Says
<1>4. /\ Of(s, it.data) /\ it.base \in Says /\ it.keys \subseteq keysOf[s]
      /\ \A n \in it.keys : it.data[n] # Unset
      /\ \A n \in Key \ it.keys : it.data[n] \in {Unset, it.base[n]}
  BY <1>1, <1>2, <1>3, NothingSays, SettingsAssumption DEF Of
<1>5. FilesPart' /\ WritesPart' /\ ApartPart'
  BY <1>1, <1>2, <1>4, WriteBegins DEF Writer
<1>6. FormsPart' /\ RunPart'
  BY <1>1, StillForms DEF SettingsInv, RunPart
<1> QED BY <1>5, <1>6 DEF SettingsInv

(* The hold ends before a write of its section has looked at any file.     *)
LEMMA HoldEndsKeeps ==
  ASSUME SettingsInv, NEW s \in Section, HoldEnds(s)
  PROVE  SettingsInv'
<1>1. /\ arriving[s] # None /\ arriving' = [arriving EXCEPT ![s] = None]
      /\ UNCHANGED <<formVars, run, writes, crossed>>
      /\ Fault \/ UNCHANGED faults
      /\ files' \in {files, [files EXCEPT ![s] = arriving[s]]}
  BY DEF HoldEnds
<1>2. faults \in Nat /\ faults' \in Nat /\ faults' >= faults
  BY <1>1, FaultIs DEF SettingsInv, FilesPart
<1>3. arriving'[s] = None /\ \A r \in Section \ {s} : arriving'[r] = arriving[r]
  BY <1>1 DEF SettingsInv, FilesPart
<1>4. Contents(s, files'[s]) /\ \A r \in Section \ {s} : files'[r] = files[r]
  BY <1>1 DEF SettingsInv, FilesPart
<1>5. \A r \in Section : Contents(r, files'[r])
  BY <1>4 DEF SettingsInv, FilesPart
<1>6. FilesPart'
  <2>1. files' = [r \in Section |-> files'[r]] /\ arriving' = [r \in Section |-> arriving'[r]]
    BY <1>1 DEF SettingsInv, FilesPart
  <2>2. files' \in [Section -> [FileName -> Says]]
    BY <1>5, <2>1 DEF Contents
  <2>3. \A r \in Section : arriving'[r] = None \/ Contents(r, arriving'[r])
    BY <1>3 DEF SettingsInv, FilesPart
  <2> QED BY <1>2, <1>5, <2>1, <2>2, <2>3 DEF FilesPart
<1>7. WritesPart'
  <2> SUFFICES ASSUME NEW w \in Writer, writes[w] # NoWrite
               PROVE  /\ IsWrite(writes[w])'
                      /\ writes[w].section \notin crossed
                           => Undisturbed(writes[w], files'[writes[w].section])
    BY <1>1 DEF WritesPart, SettingsInv
  <2> DEFINE it == writes[w]
  <2>1. /\ IsWrite(it) /\ it' = it /\ it.section \in Section
        /\ it.section \notin crossed => Undisturbed(it, files[it.section])
    BY <1>1 DEF SettingsInv, WritesPart, IsWrite
  <2>2. IsWrite(it)'
    <3>1. arriving'[it.section] \in {arriving[it.section], None}
      BY <1>3, <2>1
    <3> QED BY <1>2, <2>1, <3>1, StillWrite
  <2>3. ASSUME it.section = s, it.section \notin crossed PROVE Undisturbed(it, files'[s])
    <3>1. it.at = Begins(s)
      BY <1>1, <2>1, <2>3 DEF IsWrite
    <3> QED BY <2>3, <3>1 DEF Begins, Undisturbed, Halfway
  <2> QED BY <1>4, <2>1, <2>2, <2>3
<1>8. ApartPart' /\ FormsPart' /\ RunPart'
  BY <1>1, StillForms DEF SettingsInv, ApartPart, RunPart
<1> QED BY <1>6, <1>7, <1>8 DEF SettingsInv

(* Another device's file comes: a write of its section is crossed.         *)
LEMMA RoundBringsKeeps ==
  ASSUME SettingsInv, NEW s \in Section, NEW k \in Key, NEW v \in Value, RoundBrings(s, k, v)
  PROVE  SettingsInv'
<1>1. /\ k \in keysOf[s] /\ files' = [files EXCEPT ![s]["synced"][k] = v] /\ Meets(s)
      /\ UNCHANGED <<arriving, formVars, run, writes, faults>>
  BY DEF RoundBrings
<1> DEFINE fs == [files[s] EXCEPT !["synced"][k] = v]
<1>2. files'[s] = fs /\ \A r \in Section \ {s} : files'[r] = files[r]
  BY <1>1 DEF SettingsInv, FilesPart
<1>3. Contents(s, files[s])
  BY DEF SettingsInv, FilesPart
<1>4. Contents(s, fs)
  <2>1. fs["synced"] = [files[s]["synced"] EXCEPT ![k] = v] /\ fs["device"] = files[s]["device"]
        /\ fs = [f \in FileName |-> fs[f]]
    BY <1>3 DEF Contents, FileName
  <2>2. fs["synced"] \in Says
        /\ \A n \in Key : fs["synced"][n] = IF n = k THEN v ELSE files[s]["synced"][n]
    BY <1>3, <2>1 DEF Contents, Of, Says, FileName
  <2> HIDE DEF fs
  <2> QED BY <1>1, <1>3, <2>1, <2>2 DEF Contents, Of, FileName
<1> HIDE DEF fs
<1>5. FilesPart'
  <2>1. files' = [r \in Section |-> files'[r]]
    BY <1>1 DEF SettingsInv, FilesPart
  <2>2. \A r \in Section : Contents(r, files'[r])
    BY <1>2, <1>4 DEF SettingsInv, FilesPart
  <2>3. files' \in [Section -> [FileName -> Says]]
    BY <2>1, <2>2 DEF Contents
  <2>4. arriving' = arriving /\ faults' = faults
    BY <1>1
  <2> QED BY <2>2, <2>3, <2>4 DEF SettingsInv, FilesPart
<1>6. crossed \subseteq crossed' /\ \A q \in Writer : writes[q].section = s => s \in crossed'
  BY <1>1 DEF Meets
<1>7. WritesPart'
  <2> SUFFICES ASSUME NEW w \in Writer, writes[w] # NoWrite
               PROVE  /\ IsWrite(writes[w])'
                      /\ writes[w].section \notin crossed'
                           => Undisturbed(writes[w], files'[writes[w].section])
    BY <1>1 DEF WritesPart, SettingsInv
  <2> DEFINE it == writes[w]
  <2>1. /\ IsWrite(it) /\ it' = it /\ it.section \in Section
        /\ it.section \notin crossed => Undisturbed(it, files[it.section])
    BY <1>1 DEF SettingsInv, WritesPart, IsWrite
  <2>2. IsWrite(it)'
    BY <1>1, <2>1 DEF IsWrite
  <2>3. it.section \notin crossed' => it.section # s /\ it.section \notin crossed
    BY <1>6
  <2> QED BY <1>2, <2>1, <2>2, <2>3
<1>8. ApartPart' /\ FormsPart' /\ RunPart'
  BY <1>1, <1>6, StillForms DEF SettingsInv, ApartPart, RunPart
<1> QED BY <1>5, <1>7, <1>8 DEF SettingsInv

-----------------------------------------------------------------------------
(***************************************************************************)
(* A write, request by request.                                            *)
(***************************************************************************)
LEMMA Underway ==
  ASSUME SettingsInv, NEW w \in Writer, writes[w].at # "off"
  PROVE  /\ writes[w] # NoWrite /\ IsWrite(writes[w])
         /\ writes[w].section \notin crossed => Undisturbed(writes[w], files[writes[w].section])
         /\ Contents(writes[w].section, files[writes[w].section])
         /\ files = [s \in Section |-> files[s]]
         /\ writes = [q \in Writer |-> writes[q]]
         /\ writes[w] = [f \in Fields |-> writes[w][f]]
         /\ writes[w].section \in Section
<1>1. writes[w] # NoWrite
  BY DEF NoWrite
<1>2. /\ IsWrite(writes[w]) /\ writes = [q \in Writer |-> writes[q]]
      /\ writes[w].section \notin crossed => Undisturbed(writes[w], files[writes[w].section])
  BY <1>1 DEF SettingsInv, WritesPart
<1>3. writes[w] = [f \in Fields |-> writes[w][f]] /\ writes[w].section \in Section
  BY <1>2 DEF IsWrite
<1>4. /\ \A s \in Section : Contents(s, files[s])
      /\ files = [s \in Section |-> files[s]]
  BY DEF SettingsInv, FilesPart
<1> QED BY <1>1, <1>2, <1>3, <1>4

(* A file of a section is replaced.                                        *)
Replaced(s, file, text) == files' = [files EXCEPT ![s][file] = text]

LEMMA FileReplaced ==
  ASSUME SettingsInv, NEW s \in Section, NEW file \in FileName, NEW text, Of(s, text),
         Replaced(s, file, text)
  PROVE  /\ files' = [r \in Section |-> files'[r]] /\ Contents(s, files'[s])
         /\ \A r \in Section : r # s => files'[r] = files[r]
         /\ files'[s][file] = text
         /\ \A f \in FileName : f # file => files'[s][f] = files[s][f]
<1> DEFINE fs == [files[s] EXCEPT ![file] = text]
<1>1. /\ files' = [r \in Section |-> files'[r]] /\ files'[s] = fs
      /\ \A r \in Section : r # s => files'[r] = files[r]
  BY DEF Replaced, SettingsInv, FilesPart
<1>2. Contents(s, files[s])
  BY DEF SettingsInv, FilesPart
<1>3. fs[file] = text /\ fs = [f \in FileName |-> fs[f]]
      /\ \A f \in FileName : f # file => fs[f] = files[s][f]
  BY <1>2 DEF Contents
<1> HIDE DEF fs
<1>4. Contents(s, fs)
  BY <1>2, <1>3 DEF Contents, Of
<1> QED BY <1>1, <1>3, <1>4

(* Data is laid over a file.                                               *)
LEMMA LandsIs ==
  ASSUME SettingsInv, NEW w \in Writer, writes[w].at # "off", NEW file \in FileName, Lands(w, file)
  PROVE  LET it == writes[w]
             s == it.section IN
         /\ files' = [r \in Section |-> files'[r]] /\ Contents(s, files'[s])
         /\ \A r \in Section : r # s => files'[r] = files[r]
         /\ files'[s][file] = Laid(Owned(s, file), it.existing, it.data)
         /\ \A f \in FileName : f # file => files'[s][f] = files[s][f]
<1> DEFINE it == writes[w]
           s == it.section
           text == Laid(Owned(s, file), it.existing, it.data)
<1>1. s \in Section /\ Of(s, it.existing) /\ it.data \in Says
  BY Underway DEF IsWrite, Of
<1>2. Of(s, text)
  BY <1>1, LaidIs
<1>3. Replaced(s, file, text)
  BY DEF Lands, Laid, Replaced
<1> HIDE DEF text, s
<1>4. /\ files' = [r \in Section |-> files'[r]] /\ Contents(s, files'[s])
      /\ \A r \in Section : r # s => files'[r] = files[r]
      /\ files'[s][file] = text
      /\ \A f \in FileName : f # file => files'[s][f] = files[s][f]
  BY <1>1, <1>2, <1>3, FileReplaced
<1> QED BY <1>4 DEF text, s

LEMMA FilesStay ==
  ASSUME SettingsInv, NEW s \in Section, UNCHANGED files
  PROVE  /\ files' = [r \in Section |-> files'[r]] /\ Contents(s, files'[s])
         /\ \A r \in Section : r # s => files'[r] = files[r]
         /\ \A f \in FileName : files'[s][f] = files[s][f]
BY DEF SettingsInv, FilesPart

(* A request fails for good: only the run hears of it.                     *)
LEMMA ThrowsIs ==
  ASSUME SettingsInv, NEW w \in Writer, writes[w].at # "off", Throws(w)
  PROVE  /\ writes' = [writes EXCEPT ![w] = NoWrite]
         /\ FormsPart' /\ RunPart' /\ UNCHANGED formVars
         /\ w # "save" => run' = run
         /\ run' # run => run'.failed = writes[w].section
<1>1. UNCHANGED formVars
  BY DEF Throws, failed
<1>2. RunPart'
  BY DEF Throws, failed, SettingsInv, RunPart
<1> QED BY <1>1, <1>2, StillForms DEF Throws, failed, SettingsInv

LEMMA GoesOnQuietly ==
  ASSUME SettingsInv, UNCHANGED <<formVars, run>>
  PROVE  FormsPart' /\ RunPart'
BY StillForms DEF SettingsInv, RunPart

(* The write ends.                                                         *)
LEMMA WriterEnds ==
  ASSUME SettingsInv, NEW w \in Writer, writes[w].at # "off",
         writes' = [writes EXCEPT ![w] = NoWrite],
         crossed' = crossed, arriving' = arriving, Fault \/ UNCHANGED faults,
         files' = [s \in Section |-> files'[s]],
         Contents(writes[w].section, files'[writes[w].section]),
         \A s \in Section : s # writes[w].section => files'[s] = files[s],
         FormsPart', RunPart'
  PROVE  SettingsInv'
<1>1. writes[w] # NoWrite
  BY Underway
<1>2. FilesPart' /\ WritesPart' /\ ApartPart'
  BY <1>1, WriterMoves
<1> QED BY <1>2 DEF SettingsInv

(* It goes on: its place, what it has put aside and what it has read move. *)
GoesOn(w, at, before, existing) ==
  \/ /\ writes' = [writes EXCEPT ![w].at = at, ![w].existing = existing]
     /\ before = writes[w].before
  \/ /\ writes' = [writes EXCEPT ![w].at = at, ![w].before = before]
     /\ existing = writes[w].existing
  \/ /\ writes' = [writes EXCEPT ![w].at = at]
     /\ before = writes[w].before /\ existing = writes[w].existing
Moves(it, new, at, before, existing) ==
  /\ new = [f \in Fields |-> new[f]]
  /\ new.at = at /\ new.before = before /\ new.existing = existing
  /\ new.section = it.section /\ new.data = it.data /\ new.keys = it.keys
  /\ new.base = it.base

LEMMA WriterGoesOn ==
  ASSUME SettingsInv, NEW w \in Writer, writes[w].at # "off", NEW at, NEW before, NEW existing,
         GoesOn(w, at, before, existing)
  PROVE  \E new : /\ writes' = [writes EXCEPT ![w] = new]
                  /\ Moves(writes[w], new, at, before, existing)
<1> DEFINE it == writes[w]
<1>1. writes = [q \in Writer |-> writes[q]] /\ it = [f \in Fields |-> it[f]]
  BY Underway
<1>2. PICK new : new = writes'[w]
  OBVIOUS
<1>3. \/ new = [it EXCEPT !.at = at, !.existing = existing] /\ before = it.before
      \/ new = [it EXCEPT !.at = at, !.before = before] /\ existing = it.existing
      \/ new = [it EXCEPT !.at = at] /\ before = it.before /\ existing = it.existing
  BY <1>1, <1>2 DEF GoesOn
<1>4. writes' = [writes EXCEPT ![w] = new]
  BY <1>1, <1>2 DEF GoesOn
<1> HIDE DEF it
<1>5. Moves(it, new, at, before, existing)
  BY <1>1, <1>3 DEF Fields, Moves
<1> QED BY <1>4, <1>5 DEF it

LEMMA MovedWrite ==
  ASSUME NEW it, IsWrite(it), NEW new, NEW at, NEW before, NEW existing,
         Moves(it, new, at, before, existing),
         at \in {"readDevice", "writeDevice"} \cup Halfway,
         Of(it.section, before), Of(it.section, existing),
         at \in {"readDevice", "writeDevice", "restore"} => Split(it.section),
         at = "restore" => faults' > 0,
         arriving'[it.section] = None
  PROVE  IsWrite(new)'
<1>1. new.at # "capture"
  BY DEF Moves, Halfway
<1> QED BY <1>1 DEF IsWrite, Moves

-----------------------------------------------------------------------------
(* What a step of a write rests on is named once: its place, its section   *)
(* without a hold, and what it leaves alone.                               *)
LEMMA FileReading ==
  ASSUME SettingsInv, NEW w \in Writer, At(w, "capture") \/ At(w, "readDevice") \/ At(w, "readSynced"),
         UNCHANGED <<fileVars, crossed>>, Fault \/ UNCHANGED faults, FormsPart', RunPart',
         \/ writes' = [writes EXCEPT ![w] = NoWrite]
         \/ At(w, "capture") /\ writes' = [writes EXCEPT ![w].at = "readDevice",
                                             ![w].before = files[writes[w].section]["device"]]
         \/ At(w, "readDevice") /\ writes' = [writes EXCEPT ![w].at = "writeDevice",
                                             ![w].existing = files[writes[w].section]["device"]]
         \/ At(w, "readSynced") /\ writes' = [writes EXCEPT ![w].at = "writeSynced",
                                             ![w].existing = files[writes[w].section]["synced"]]
         \/ /\ At(w, "readSynced") /\ Split(writes[w].section) /\ Fault
            /\ writes' = [writes EXCEPT ![w].at = "restore"]
  PROVE  SettingsInv'
<1> DEFINE it == writes[w]
           s == it.section
<1>1. it.at # "off" /\ arriving[s] = None
  BY DEF At
<1>2. /\ IsWrite(it) /\ it # NoWrite /\ Contents(s, files[s]) /\ s \in Section
      /\ s \notin crossed => Undisturbed(it, files[s])
  BY <1>1, Underway
<1>3. /\ files' = [r \in Section |-> files'[r]] /\ Contents(s, files'[s])
      /\ \A r \in Section : r # s => files'[r] = files[r]
      /\ files' = files /\ arriving' = arriving /\ crossed' = crossed
  BY <1>2, FilesStay DEF fileVars
<1>4. CASE writes' = [writes EXCEPT ![w] = NoWrite]
  BY <1>1, <1>3, <1>4, WriterEnds
<1>5. faults \in Nat /\ faults' \in Nat /\ faults' >= faults /\ (Fault => faults' > 0)
  BY FaultIs DEF SettingsInv, FilesPart
<1>6. Of(s, files[s]["device"]) /\ Of(s, files[s]["synced"])
  BY <1>2 DEF Contents, FileName
<1>7. ASSUME NEW new, writes' = [writes EXCEPT ![w] = new], new.section = s,
             IsWrite(new)', s \notin crossed => Undisturbed(new, files[s])
      PROVE  SettingsInv'
  <2>1. FilesPart' /\ WritesPart' /\ ApartPart'
    BY <1>2, <1>3, <1>7, WriterMoves
  <2> QED BY <2>1 DEF SettingsInv
<1>8. CASE At(w, "capture") /\ writes' = [writes EXCEPT ![w].at = "readDevice",
                                           ![w].before = files[s]["device"]]
  <2>1. PICK new : /\ writes' = [writes EXCEPT ![w] = new]
                   /\ Moves(it, new, "readDevice", files[s]["device"], it.existing)
    <3>1. GoesOn(w, "readDevice", files[s]["device"], it.existing)
      BY <1>8 DEF GoesOn
    <3> QED BY <1>1, <3>1, WriterGoesOn
  <2> HIDE DEF it, s
  <2>2. IsWrite(new)'
    <3>1. /\ IsWrite(it) /\ Of(s, it.before) /\ Of(s, it.existing)
          /\ it.at \in {"capture", "readDevice"} => Split(s)
          /\ arriving'[it.section] = None
      BY <1>1, <1>2, <1>3 DEF IsWrite, s, it
    <3> QED BY <1>5, <1>6, <1>8, <2>1, <3>1, MovedWrite DEF At, Halfway, it, s
  <2>3. s \notin crossed => Undisturbed(new, files[s])
    BY <2>1 DEF Undisturbed, Halfway, Moves, s
  <2> QED BY <1>7, <2>1, <2>2, <2>3 DEF Moves, s
<1>9. CASE At(w, "readDevice") /\ writes' = [writes EXCEPT ![w].at = "writeDevice",
                                              ![w].existing = files[s]["device"]]
  <2>1. PICK new : /\ writes' = [writes EXCEPT ![w] = new]
                   /\ Moves(it, new, "writeDevice", it.before, files[s]["device"])
    <3>1. GoesOn(w, "writeDevice", it.before, files[s]["device"])
      BY <1>9 DEF GoesOn
    <3> QED BY <1>1, <3>1, WriterGoesOn
  <2> HIDE DEF it, s
  <2>2. IsWrite(new)'
    <3>1. /\ IsWrite(it) /\ Of(s, it.before) /\ Of(s, it.existing)
          /\ it.at \in {"capture", "readDevice"} => Split(s)
          /\ arriving'[it.section] = None
      BY <1>1, <1>2, <1>3 DEF IsWrite, s, it
    <3> QED BY <1>5, <1>6, <1>9, <2>1, <3>1, MovedWrite DEF At, Halfway, it, s
  <2>3. s \notin crossed => Undisturbed(new, files[s])
    BY <1>2, <1>9, <2>1 DEF Undisturbed, Halfway, At, Moves, it, s
  <2> QED BY <1>7, <2>1, <2>2, <2>3 DEF Moves, s
<1>10. CASE At(w, "readSynced") /\ writes' = [writes EXCEPT ![w].at = "writeSynced",
                                               ![w].existing = files[s]["synced"]]
  <2>1. PICK new : /\ writes' = [writes EXCEPT ![w] = new]
                   /\ Moves(it, new, "writeSynced", it.before, files[s]["synced"])
    <3>1. GoesOn(w, "writeSynced", it.before, files[s]["synced"])
      BY <1>10 DEF GoesOn
    <3> QED BY <1>1, <3>1, WriterGoesOn
  <2> HIDE DEF it, s
  <2>2. IsWrite(new)'
    <3>1. /\ IsWrite(it) /\ Of(s, it.before) /\ Of(s, it.existing)
          /\ it.at \in {"capture", "readDevice"} => Split(s)
          /\ arriving'[it.section] = None
      BY <1>1, <1>2, <1>3 DEF IsWrite, s, it
    <3> QED BY <1>5, <1>6, <1>10, <2>1, <3>1, MovedWrite DEF At, Halfway, it, s
  <2>3. s \notin crossed => Undisturbed(new, files[s])
    BY <1>2, <1>10, <2>1 DEF Undisturbed, Halfway, At, Moves, it, s
  <2> QED BY <1>7, <2>1, <2>2, <2>3 DEF Moves, s
<1>11. CASE /\ At(w, "readSynced") /\ Split(s) /\ Fault
            /\ writes' = [writes EXCEPT ![w].at = "restore"]
  <2>1. PICK new : /\ writes' = [writes EXCEPT ![w] = new]
                   /\ Moves(it, new, "restore", it.before, it.existing)
    <3>1. GoesOn(w, "restore", it.before, it.existing)
      BY <1>11 DEF GoesOn
    <3> QED BY <1>1, <3>1, WriterGoesOn
  <2> HIDE DEF it, s
  <2>2. IsWrite(new)'
    <3>1. /\ IsWrite(it) /\ Of(s, it.before) /\ Of(s, it.existing)
          /\ it.at \in {"capture", "readDevice"} => Split(s)
          /\ arriving'[it.section] = None
      BY <1>1, <1>2, <1>3 DEF IsWrite, s, it
    <3> QED BY <1>5, <1>6, <1>11, <2>1, <3>1, MovedWrite DEF At, Halfway, it, s
  <2>3. s \notin crossed => Undisturbed(new, files[s])
    BY <1>2, <1>11, <2>1 DEF Undisturbed, Halfway, At, Moves, it, s
  <2> QED BY <1>7, <2>1, <2>2, <2>3 DEF Moves, s
<1> QED BY <1>4, <1>8, <1>9, <1>10, <1>11

LEMMA CaptureKeeps ==
  ASSUME SettingsInv, NEW w \in Writer, capture(w)
  PROVE  SettingsInv'
<1>1. At(w, "capture") /\ UNCHANGED <<fileVars, crossed>>
  BY DEF capture
<1>2. CASE /\ writes' = [writes EXCEPT ![w].at = "readDevice",
                                      ![w].before = files[writes[w].section]["device"]]
           /\ UNCHANGED <<formVars, run, faults>>
  <2>1. FormsPart' /\ RunPart'
    BY <1>2, GoesOnQuietly
  <2> QED BY <1>1, <1>2, <2>1, FileReading
<1>3. CASE Fault /\ Throws(w)
  <2>1. FormsPart' /\ RunPart' /\ writes' = [writes EXCEPT ![w] = NoWrite]
    BY <1>1, <1>3, ThrowsIs DEF At
  <2> QED BY <1>1, <1>3, <2>1, FileReading
<1> QED BY <1>2, <1>3 DEF capture

LEMMA ReadKeeps ==
  ASSUME SettingsInv, NEW w \in Writer,
         NEW file, NEW from, NEW to, readExisting(w, file, from, to),
         \/ file = "device" /\ from = "readDevice" /\ to = "writeDevice"
         \/ file = "synced" /\ from = "readSynced" /\ to = "writeSynced"
  PROVE  SettingsInv'
<1>1. At(w, from) /\ UNCHANGED <<fileVars, crossed>>
  BY DEF readExisting
<1>2. CASE /\ writes' = [writes EXCEPT ![w].at = to,
                                      ![w].existing = files[writes[w].section][file]]
           /\ UNCHANGED <<formVars, run, faults>>
  <2>1. FormsPart' /\ RunPart'
    BY <1>2, GoesOnQuietly
  <2> QED BY <1>1, <1>2, <2>1, FileReading
<1>3. CASE Fault /\ Throws(w)
  <2>1. FormsPart' /\ RunPart' /\ writes' = [writes EXCEPT ![w] = NoWrite]
    BY <1>1, <1>3, ThrowsIs DEF At
  <2> QED BY <1>1, <1>3, <2>1, FileReading
<1>4. CASE /\ Fault /\ to = "writeSynced" /\ Split(writes[w].section)
           /\ To(w, "restore") /\ UNCHANGED <<formVars, run>>
  <2>1. FormsPart' /\ RunPart' /\ writes' = [writes EXCEPT ![w].at = "restore"]
    BY <1>4, GoesOnQuietly DEF To
  <2>2. At(w, "readSynced")
    BY <1>1, <1>4
  <2> QED BY <1>1, <1>4, <2>1, <2>2, FileReading
<1> QED BY <1>2, <1>3, <1>4 DEF readExisting, ReadFails

LEMMA WriteDeviceKeeps ==
  ASSUME SettingsInv, NEW w \in Writer, writeDevice(w)
  PROVE  SettingsInv'
<1> DEFINE it == writes[w]
           s == it.section
<1>1. /\ it.at = "writeDevice" /\ arriving[s] = None
      /\ arriving' = arriving /\ crossed' = crossed
  BY DEF writeDevice, At
<1>2. /\ IsWrite(it) /\ it # NoWrite /\ Contents(s, files[s]) /\ s \in Section
      /\ s \notin crossed => Undisturbed(it, files[s])
  BY <1>1, Underway
<1>3. CASE Fault /\ Throws(w) /\ UNCHANGED files
  <2>1. FormsPart' /\ RunPart' /\ writes' = [writes EXCEPT ![w] = NoWrite]
    BY <1>1, <1>3, ThrowsIs
  <2>2. /\ files' = [r \in Section |-> files'[r]] /\ Contents(s, files'[s])
        /\ \A r \in Section : r # s => files'[r] = files[r]
    BY <1>2, <1>3, FilesStay
  <2> QED BY <1>1, <1>3, <2>1, <2>2, WriterEnds
<1>4. CASE Lands(w, "device") /\ To(w, "readSynced") /\ UNCHANGED <<formVars, run, faults>>
  <2>1. FormsPart' /\ RunPart'
    BY <1>4, GoesOnQuietly
  <2>3. /\ files' = [r \in Section |-> files'[r]] /\ Contents(s, files'[s])
        /\ \A r \in Section : r # s => files'[r] = files[r]
        /\ files'[s]["device"] = Laid(Owned(s, "device"), it.existing, it.data)
    BY <1>1, <1>4, LandsIs DEF FileName
  <2>4. PICK new : /\ writes' = [writes EXCEPT ![w] = new]
                   /\ Moves(it, new, "readSynced", it.before, it.existing)
    <3>1. GoesOn(w, "readSynced", it.before, it.existing)
      BY <1>4 DEF GoesOn, To
    <3> QED BY <1>1, <3>1, WriterGoesOn
  <2> HIDE DEF it, s
  <2>5. IsWrite(new)'
    <3>1. /\ IsWrite(it) /\ Of(s, it.before) /\ Of(s, it.existing)
          /\ arriving'[it.section] = None
      BY <1>1, <1>2 DEF IsWrite, s
    <3> QED BY <2>4, <3>1, MovedWrite DEF Halfway, s
  <2>6. s \notin crossed => Undisturbed(new, files'[s])
    BY <1>1, <1>2, <2>3, <2>4 DEF Undisturbed, Halfway, Moves, s
  <2>7. FilesPart' /\ WritesPart' /\ ApartPart'
    BY <1>1, <1>2, <1>4, <2>3, <2>4, <2>5, <2>6, WriterMoves DEF Moves, it, s
  <2> QED BY <2>1, <2>7 DEF SettingsInv
<1> QED BY <1>3, <1>4 DEF writeDevice

(* The files a write to the synced one may leave, and what is on them.     *)
LEMMA SyncedLeaves ==
  ASSUME SettingsInv, NEW w \in Writer, At(w, "writeSynced"), Lands(w, "synced") \/ UNCHANGED files
  PROVE  LET it == writes[w]
             s == it.section IN
         /\ files' = [r \in Section |-> files'[r]] /\ Contents(s, files'[s])
         /\ \A r \in Section : r # s => files'[r] = files[r]
         /\ files'[s]["device"] = files[s]["device"]
         /\ Lands(w, "synced")
              => /\ files'[s]["synced"] = Laid(Owned(s, "synced"), it.existing, it.data)
                 /\ \A k \in Owned(s, "synced") : it.data[k] # Unset
                                                    => files'[s]["synced"][k] = it.data[k]
<1> DEFINE it == writes[w]
           s == it.section
<1>1. it.at = "writeSynced"
  BY DEF At
<1>2. IsWrite(it) /\ s \in Section
  BY <1>1, Underway
<1>3. CASE UNCHANGED files /\ ~ Lands(w, "synced")
  BY <1>2, <1>3, FilesStay DEF FileName
<1>4. CASE Lands(w, "synced")
  <2>2. /\ files' = [r \in Section |-> files'[r]] /\ Contents(s, files'[s])
        /\ \A r \in Section : r # s => files'[r] = files[r]
        /\ files'[s]["synced"] = Laid(Owned(s, "synced"), it.existing, it.data)
        /\ files'[s]["device"] = files[s]["device"]
    BY <1>1, <1>4, LandsIs DEF FileName
  <2>3. Of(s, it.existing) /\ it.data \in Says
    BY <1>2 DEF IsWrite, Of
  <2>4. \A k \in Owned(s, "synced") : it.data[k] # Unset => files'[s]["synced"][k] = it.data[k]
    BY <1>2, <2>2, <2>3, LaidIs DEF FileName
  <2> QED BY <2>2, <2>4
<1> QED BY <1>3, <1>4

LEMMA WriteSyncedKeeps ==
  ASSUME SettingsInv, NEW w \in Writer, writeSynced(w)
  PROVE  SettingsInv'
<1> DEFINE it == writes[w]
           s == it.section
<1>1. /\ At(w, "writeSynced") /\ it.at = "writeSynced" /\ arriving[s] = None
      /\ arriving' = arriving /\ crossed' = crossed
      /\ Lands(w, "synced") \/ UNCHANGED files
  BY DEF writeSynced, At
<1>2. /\ IsWrite(it) /\ it # NoWrite /\ s \in Section
      /\ s \notin crossed => Undisturbed(it, files[s])
  BY <1>1, Underway
<1>3. /\ files' = [r \in Section |-> files'[r]] /\ Contents(s, files'[s])
      /\ \A r \in Section : r # s => files'[r] = files[r]
      /\ files'[s]["device"] = files[s]["device"]
      /\ Lands(w, "synced") => \A k \in Owned(s, "synced") :
                                 it.data[k] # Unset => files'[s]["synced"][k] = it.data[k]
  BY <1>1, SyncedLeaves
<1>4. /\ IsWrite(it) /\ Of(s, it.before) /\ Of(s, it.existing)
      /\ arriving'[it.section] = None
  BY <1>1, <1>2 DEF IsWrite
<1>5. faults \in Nat /\ (Fault => faults' > 0)
  BY FaultIs DEF SettingsInv, FilesPart
<1>6. CASE Fault /\ Throws(w)
  <2>1. FormsPart' /\ RunPart' /\ writes' = [writes EXCEPT ![w] = NoWrite]
    BY <1>1, <1>6, ThrowsIs
  <2> QED BY <1>1, <1>3, <1>6, <2>1, WriterEnds
<1>7. ASSUME NEW new, NEW at, writes' = [writes EXCEPT ![w] = new],
             Moves(it, new, at, it.before, it.existing),
             Fault \/ UNCHANGED faults, UNCHANGED <<formVars, run>>,
             \/ at = "notify" /\ Lands(w, "synced")
             \/ at = "restore" /\ Fault /\ Split(s)
      PROVE  SettingsInv'
  <2>1. FormsPart' /\ RunPart'
    BY <1>7, GoesOnQuietly
  <2> HIDE DEF it, s
  <2>2. IsWrite(new)'
    BY <1>4, <1>5, <1>7, MovedWrite DEF Halfway, s
  <2>3. s \notin crossed => Undisturbed(new, files'[s])
    BY <1>1, <1>2, <1>3, <1>7 DEF Undisturbed, Halfway, Moves, s
  <2>4. FilesPart' /\ WritesPart' /\ ApartPart'
    BY <1>1, <1>2, <1>3, <1>7, <2>2, <2>3, WriterMoves DEF Moves, it, s
  <2> QED BY <2>1, <2>4 DEF SettingsInv
<1>8. CASE Lands(w, "synced") /\ To(w, "notify") /\ UNCHANGED <<formVars, run, faults>>
  <2>1. GoesOn(w, "notify", it.before, it.existing)
    BY <1>8 DEF GoesOn, To
  <2> QED BY <1>1, <1>7, <1>8, <2>1, WriterGoesOn
<1>9. CASE Fault /\ Split(s) /\ To(w, "restore") /\ UNCHANGED <<formVars, run>>
  <2>1. GoesOn(w, "restore", it.before, it.existing)
    BY <1>9 DEF GoesOn, To
  <2> QED BY <1>1, <1>7, <1>9, <2>1, WriterGoesOn
<1> QED BY <1>6, <1>8, <1>9 DEF writeSynced, WriteFails

(* The device's half is put back.                                          *)
LEMMA RestoreLeaves ==
  ASSUME SettingsInv, NEW w \in Writer, restore(w)
  PROVE  LET it == writes[w]
             s == it.section IN
         /\ files' = [r \in Section |-> files'[r]] /\ Contents(s, files'[s])
         /\ \A r \in Section : r # s => files'[r] = files[r]
         /\ files'[s]["synced"] = files[s]["synced"]
         /\ files'[s]["device"] \in {files[s]["device"], it.before}
         /\ ~ Fault => files'[s]["device"] = it.before
<1> DEFINE it == writes[w]
           s == it.section
<1>1. it.at # "off"
  BY DEF restore, At
<1>2. IsWrite(it) /\ s \in Section
  BY <1>1, Underway
<1>3. Of(s, it.before)
  BY <1>2 DEF IsWrite
<1>4. CASE Fault /\ UNCHANGED files
  BY <1>2, <1>4, FilesStay DEF FileName
<1>5. CASE files' = [files EXCEPT ![s]["device"] = it.before]
  <2>1. Replaced(s, "device", it.before)
    BY <1>5 DEF Replaced
  <2> HIDE DEF it, s
  <2>2. /\ files' = [r \in Section |-> files'[r]] /\ Contents(s, files'[s])
        /\ \A r \in Section : r # s => files'[r] = files[r]
        /\ files'[s]["synced"] = files[s]["synced"]
        /\ files'[s]["device"] = it.before
    BY <1>2, <1>3, <2>1, FileReplaced DEF FileName
  <2> QED BY <2>2 DEF it, s
<1> QED BY <1>4, <1>5 DEF restore

LEMMA RestoreKeeps ==
  ASSUME SettingsInv, NEW w \in Writer, restore(w)
  PROVE  SettingsInv'
<1>1. /\ writes[w].at # "off" /\ Throws(w) /\ arriving' = arriving /\ crossed' = crossed
      /\ Fault \/ UNCHANGED faults
  BY DEF restore, At
<1>2. FormsPart' /\ RunPart' /\ writes' = [writes EXCEPT ![w] = NoWrite]
  BY <1>1, ThrowsIs
<1> QED BY <1>1, <1>2, RestoreLeaves, WriterEnds

LEMMA CommittedMoves ==
  ASSUME SettingsInv, NEW w \in Writer, writes[w].at # "off", committed(w)
  PROVE  FormsPart'
<1> DEFINE s == writes[w].section
           p == load(page[s], writes[w].data)
<1>1. CASE w = "save"
  <2>1. s \in Section /\ Of(s, writes[w].data) /\ IsForm(s, page[s])
    BY Underway DEF IsWrite, SettingsInv, FormsPart
  <2>2. IsForm(s, p) /\ page' = [page EXCEPT ![s] = p] /\ staged' = [staged EXCEPT ![s] = None]
    BY <1>1, <2>1, LoadIs DEF committed
  <2> QED BY <2>1, <2>2, FormMoves
<1>2. CASE w # "save"
  BY <1>2, StillForms DEF committed, SettingsInv
<1> QED BY <1>1, <1>2

LEMMA NotifyKeeps ==
  ASSUME SettingsInv, NEW w \in Writer, notifyWritten(w)
  PROVE  SettingsInv'
<1>1. /\ writes[w].at # "off" /\ writes' = [writes EXCEPT ![w] = NoWrite] /\ committed(w)
      /\ arriving' = arriving /\ crossed' = crossed /\ UNCHANGED faults /\ files' = files /\ run' = run
  BY DEF notifyWritten, At, fileVars, bounds
<1>2. FormsPart' /\ RunPart'
  BY <1>1, CommittedMoves DEF SettingsInv, RunPart
<1> QED BY <1>1, <1>2, Underway, WriterEnds

LEMMA SettingsStep == SettingsInv /\ [Next]_vars => SettingsInv'
<1> SUFFICES ASSUME SettingsInv, [Next]_vars PROVE SettingsInv'
  OBVIOUS
<1>1. CASE UNCHANGED vars
  BY <1>1, QuietKeeps, GoesOnQuietly DEF vars, formVars, fileVars, bounds
<1>2. ASSUME NEW w \in Writer, write(w) PROVE SettingsInv'
  BY <1>2, CaptureKeeps, ReadKeeps, WriteDeviceKeeps, WriteSyncedKeeps, RestoreKeeps, NotifyKeeps
     DEF write
<1>3. CASE \/ saveAll \/ saved \/ revertAll
           \/ \E s \in Section : \/ Show(s) \/ Loaded(s)
                                 \/ \E k \in Key, v \in Value : Edit(s, k, v)
  BY <1>3, FormsKeep
<1>4. ASSUME NEW s \in Section, HoldEnds(s) \/ commit(s) PROVE SettingsInv'
  BY <1>4, HoldEndsKeeps, CommitKeeps
<1>5. ASSUME NEW s \in Section, NEW k \in Key, NEW v \in Value,
             PluginWrites(s, k, v) \/ RoundBrings(s, k, v)
      PROVE  SettingsInv'
  BY <1>5, PluginWritesKeeps, RoundBringsKeeps
<1> QED BY <1>1, <1>2, <1>3, <1>4, <1>5 DEF Next

LEMMA SettingsAlways == Spec => []SettingsInv
BY SettingsInit, SettingsStep, PTL DEF Spec

-----------------------------------------------------------------------------
(***************************************************************************)
(* What a step may do to the settings and to what is pending.              *)
(***************************************************************************)
LEMMA ReadIs ==
  ASSUME SettingsInv, SettingsInv', NEW s \in Section
  PROVE  /\ read(s) = Shown(s, files[s]) /\ Contents(s, files[s])
         /\ read(s)' = Shown(s, files'[s]) /\ Contents(s, files'[s])
BY DEF read, Shown, SettingsInv, FilesPart

(* Data laid over a file moves what it has a value for, to that value, and *)
(* a setting only the other file says, to the default.                     *)
LEMMA LaidMoves ==
  ASSUME NEW s \in Section, NEW fs, Contents(s, fs), NEW new, Contents(s, new),
         NEW file \in FileName, NEW data \in Says,
         new[file] = Laid(Owned(s, file), fs[file], data),
         \A f \in FileName : f # file => new[f] = fs[f],
         NEW k \in keysOf[s], Shown(s, fs)[k] # Shown(s, new)[k]
  PROVE  \/ data[k] # Unset /\ Shown(s, new)[k] = data[k]
         \/ /\ data[k] = Unset /\ Shown(s, new)[k] = Default
            /\ Split(s) /\ fs[File(k)][k] = Unset /\ fs[OtherFile(k)][k] # Unset
<1>1. /\ k \in Key /\ File(k) \in FileName /\ k \in Owned(s, File(k))
      /\ OtherFile(k) \in FileName /\ OtherFile(k) # File(k)
      /\ \A f \in FileName : f # File(k) => k \notin Owned(s, f)
  BY SettingsAssumption, OwnedIs
<1>2. /\ Shown(s, fs)[k] = IF Answer(s, fs, k) # Unset THEN Answer(s, fs, k) ELSE Default
      /\ Shown(s, new)[k] = IF Answer(s, new, k) # Unset THEN Answer(s, new, k) ELSE Default
  BY ShownIs
<1>3. Of(s, fs[file])
  BY DEF Contents
<1>4. \A f \in FileName : f # File(k) => new[f][k] = fs[f][k]
  BY <1>1, <1>3, LaidIs
<1>5. CASE file # File(k)
  <2>1. new[File(k)][k] = fs[File(k)][k] /\ new[OtherFile(k)][k] = fs[OtherFile(k)][k]
    BY <1>1, <1>4, <1>5
  <2> QED BY <1>2, <2>1 DEF Answer
<1>6. CASE file = File(k)
  <2>1. new[file][k] = IF data[k] # Unset THEN data[k]
                       ELSE IF fs[file][k] # Unset THEN fs[file][k] ELSE Default
    BY <1>1, <1>3, <1>6, LaidIs
  <2>2. Default # Unset
    BY SettingsAssumption
  <2>3. new[file][k] # Unset /\ Shown(s, new)[k] = new[file][k]
    BY <1>2, <1>6, <2>1, <2>2 DEF Answer
  <2> QED BY <1>2, <1>6, <2>1, <2>3 DEF Answer
<1> QED BY <1>5, <1>6

(* Which of a write's steps touch the files, while it has met nobody.      *)
LEMMA WriteTouches ==
  ASSUME SettingsInv, NEW w \in Writer, write(w)
  PROVE  LET it == writes[w]
             s == it.section IN
         /\ it.at # "off" /\ \A q \in Writer : q # w => writes'[q] = writes[q]
         /\ \A r \in Section : r # s => files'[r] = files[r]
         /\ s \notin crossed =>
              \/ files' = files
              \/ /\ it.at # "restore"
                 /\ \E file \in FileName :
                      /\ files'[s][file] = Laid(Owned(s, file), files[s][file], it.data)
                      /\ \A f \in FileName : f # file => files'[s][f] = files[s][f]
              \/ /\ it.at = "restore"
                 /\ files[s]["device"] = Laid(Owned(s, "device"), files'[s]["device"], it.data)
                 /\ \A f \in FileName : f # "device" => files'[s][f] = files[s][f]
<1> DEFINE it == writes[w]
           s == it.section
<1>1. CASE files' = files
  <2>1. it.at # "off" /\ \A q \in Writer : q # w => writes'[q] = writes[q]
    BY DEF write, capture, readExisting, writeDevice, writeSynced, restore, notifyWritten, At,
           ReadFails, WriteFails, To, Throws, SettingsInv, WritesPart
  <2> QED BY <1>1, <2>1
<1>2. CASE writeDevice(w) /\ files' # files
  <2>1. it.at = "writeDevice" /\ Lands(w, "device") /\ To(w, "readSynced")
    BY <1>2 DEF writeDevice, At
  <2>2. IsWrite(it) /\ (s \notin crossed => Undisturbed(it, files[s]))
    BY <2>1, Underway
  <2>4. /\ \A r \in Section : r # s => files'[r] = files[r]
        /\ files'[s]["device"] = Laid(Owned(s, "device"), it.existing, it.data)
        /\ \A f \in FileName : f # "device" => files'[s][f] = files[s][f]
    BY <2>1, LandsIs DEF FileName
  <2>5. s \notin crossed => it.existing = files[s]["device"]
    BY <2>1, <2>2 DEF Undisturbed
  <2>6. \A q \in Writer : q # w => writes'[q] = writes[q]
    BY <2>1 DEF To, SettingsInv, WritesPart
  <2> QED BY <2>1, <2>4, <2>5, <2>6 DEF FileName
<1>3. CASE writeSynced(w) /\ files' # files
  <2>1. it.at = "writeSynced" /\ At(w, "writeSynced") /\ Lands(w, "synced")
    BY <1>3 DEF writeSynced, At
  <2>2. s \notin crossed => Undisturbed(it, files[s])
    BY <2>1, Underway
  <2>3. /\ \A r \in Section : r # s => files'[r] = files[r]
        /\ files'[s]["synced"] = Laid(Owned(s, "synced"), it.existing, it.data)
        /\ files'[s]["device"] = files[s]["device"]
    BY <2>1, SyncedLeaves
  <2>4. s \notin crossed => it.existing = files[s]["synced"]
    BY <2>1, <2>2 DEF Undisturbed
  <2>5. \A q \in Writer : q # w => writes'[q] = writes[q]
    BY <1>3 DEF writeSynced, WriteFails, To, Throws, SettingsInv, WritesPart
  <2> QED BY <2>1, <2>3, <2>4, <2>5 DEF FileName
<1>4. CASE restore(w) /\ files' # files
  <2>1. it.at = "restore" /\ Throws(w)
    BY <1>4 DEF restore, At
  <2>2. IsWrite(it) /\ (s \notin crossed => Undisturbed(it, files[s]))
    BY <2>1, Underway
  <2>3. /\ files' = [r \in Section |-> files'[r]] /\ Contents(s, files'[s])
        /\ \A r \in Section : r # s => files'[r] = files[r]
        /\ files'[s]["synced"] = files[s]["synced"]
        /\ files'[s]["device"] \in {files[s]["device"], it.before}
    BY <1>4, RestoreLeaves
  <2>4. files'[s]["device"] = it.before
    <3>1. files = [r \in Section |-> files[r]] /\ Contents(s, files[s])
      BY <2>1, Underway
    <3>2. ASSUME files'[s]["device"] = files[s]["device"] PROVE FALSE
      <4>1. files'[s] = files[s]
        BY <2>3, <3>1, <3>2 DEF Contents, FileName
      <4> QED BY <1>4, <2>3, <3>1, <4>1
    <3> QED BY <2>3, <3>2
  <2>5. s \notin crossed => files[s]["device"] = Laid(Owned(s, "device"), it.before, it.data)
    BY <2>1, <2>2 DEF IsWrite, Undisturbed, Halfway
  <2>6. \A q \in Writer : q # w => writes'[q] = writes[q]
    BY <2>1 DEF Throws, SettingsInv, WritesPart
  <2> QED BY <2>1, <2>3, <2>4, <2>5, <2>6 DEF FileName
<1>5. files' # files => writeDevice(w) \/ writeSynced(w) \/ restore(w)
  BY DEF write, capture, readExisting, notifyWritten, fileVars
<1> QED BY <1>1, <1>2, <1>3, <1>4, <1>5

LEMMA WriteListed ==
  ASSUME SettingsInv, SettingsInv', NEW w \in Writer, write(w),
         NEW s \in Section \ crossed, NEW k \in keysOf[s], read(s)[k] # read(s)'[k]
  PROVE  /\ s = writes[w].section
         /\ \/ Forgets(w, s, k)
            \/ /\ writes[w].data[k] # Unset
               /\ \/ k \in writes[w].keys
                  \/ writes[w].base[k] #
                       (IF writes[w].at = "restore" THEN read(s)'[k] ELSE read(s)[k])
<1> DEFINE it == writes[w]
<1>1. /\ read(s) = Shown(s, files[s]) /\ Contents(s, files[s])
      /\ read(s)' = Shown(s, files'[s]) /\ Contents(s, files'[s])
  BY ReadIs
<1>2. files'[s] # files[s] /\ files' # files
  BY <1>1
<1>3. s = it.section
  BY <1>2, WriteTouches
<1>4. IsWrite(it)
  BY Underway, WriteTouches
<1>5. it.data \in Says /\ k \in Key /\ (k \notin it.keys => it.data[k] \in {Unset, it.base[k]})
  BY <1>4, SettingsAssumption DEF IsWrite, Of
<1>6. \/ /\ it.at # "restore"
         /\ \E file \in FileName :
              /\ files'[s][file] = Laid(Owned(s, file), files[s][file], it.data)
              /\ \A f \in FileName : f # file => files'[s][f] = files[s][f]
      \/ /\ it.at = "restore"
         /\ files[s]["device"] = Laid(Owned(s, "device"), files'[s]["device"], it.data)
         /\ \A f \in FileName : f # "device" => files'[s][f] = files[s][f]
  BY <1>2, <1>3, WriteTouches
<1> HIDE DEF it
<1>7. CASE it.at # "restore"
  <2>1. \/ it.data[k] # Unset /\ read(s)'[k] = it.data[k]
        \/ it.data[k] = Unset /\ Unmigrated(s, k) /\ read(s)'[k] = Default
    BY <1>1, <1>5, <1>6, <1>7, LaidMoves DEF Unmigrated
  <2> QED BY <1>3, <1>5, <1>7, <2>1 DEF it, Forgets
<1>8. CASE it.at = "restore"
  <2>1. \/ it.data[k] # Unset /\ read(s)[k] = it.data[k]
        \/ it.data[k] = Unset /\ Unmigrated(s, k)' /\ read(s)[k] = Default
    BY <1>1, <1>5, <1>6, <1>8, LaidMoves DEF FileName, Unmigrated
  <2> QED BY <1>3, <1>5, <1>8, <2>1 DEF it, Forgets
<1> QED BY <1>7, <1>8

(* A write moves no setting it was not told of, and a save none but those  *)
(* its list names, whatever failed on the way and whichever file says a    *)
(* setting: for any forms, writers and sections.  The one setting it may   *)
(* forget is one that only the other file says.                            *)
THEOREM WritesMoveWhatTheyList == Spec => MovesOnlyWhatItLists
<1>1. SettingsInv /\ SettingsInv' /\ [Next]_vars
        => [\A w \in Writer : Steps(w) =>
              \A s \in Section \ crossed : \A k \in Moved(s) :
                /\ s = writes[w].section
                /\ \/ Forgets(w, s, k)
                   \/ /\ writes[w].data[k] # Unset
                      /\ \/ k \in writes[w].keys
                         \/ writes[w].base[k] #
                              (IF writes[w].at = "restore" THEN read(s)'[k] ELSE read(s)[k])]_vars
  <2> SUFFICES ASSUME SettingsInv, SettingsInv', [Next]_vars,
                      NEW w \in Writer, Steps(w),
                      NEW s \in Section \ crossed, NEW k \in Moved(s)
               PROVE  /\ s = writes[w].section
                      /\ \/ Forgets(w, s, k)
                         \/ /\ writes[w].data[k] # Unset
                            /\ \/ k \in writes[w].keys
                               \/ writes[w].base[k] #
                                    (IF writes[w].at = "restore" THEN read(s)'[k] ELSE read(s)[k])
    OBVIOUS
  <2>1. k \in keysOf[s] /\ read(s)[k] # read(s)'[k]
    BY DEF Moved
  <2>2. files' # files
    BY <2>1, ReadIs
  <2>3. writes' # writes
    BY DEF Steps
  <2>4. PICK q \in Writer : write(q)
    <3>1. saveAll \/ saved \/ revertAll \/ UNCHANGED vars => writes' = writes
      BY DEF saveAll, saved, revertAll, vars
    <3>2. \A r \in Section : HoldEnds(r) \/ Show(r) \/ Loaded(r) => writes' = writes
      BY DEF HoldEnds, Show, Loaded
    <3>3. \A r \in Section : commit(r) => files' = files
      BY DEF commit, fileVars
    <3>4. \A r \in Section, n \in Key, v \in Value :
            /\ Edit(r, n, v) \/ RoundBrings(r, n, v) => writes' = writes
            /\ PluginWrites(r, n, v) => files' = files
      BY DEF Edit, RoundBrings, PluginWrites, fileVars
    <3> QED BY <2>2, <2>3, <3>1, <3>2, <3>3, <3>4 DEF Next
  <2>5. q = w
    BY <2>4, WriteTouches DEF Steps
  <2> QED BY <2>1, <2>4, <2>5, WriteListed
<1> QED BY <1>1, SettingsAlways, PTL DEF Spec, MovesOnlyWhatItLists

(* A change that is no longer pending has been taken back, or written.     *)
LEMMA ClearedIs ==
  ASSUME SettingsInv, [Next]_vars, NEW s \in Section, staged[s] # None, staged'[s] = None
  PROVE  LET w == writes["save"] IN
         \/ changedKeys(page'[s]) = {}
         \/ w.section = s /\ w.at = "notify" /\ page[s].local # w.data
<1> DEFINE w == writes["save"]
<1>1. CASE revertAll
  BY <1>1, RevertIs
<1>2. ASSUME NEW t \in Section, NEW p, IsForm(t, p), page' = [page EXCEPT ![t] = p],
             staged' = [staged EXCEPT ![t] = Stages(p)]
      PROVE  changedKeys(page'[s]) = {}
  <2>1. t = s /\ page'[s] = p /\ Stages(p) = None
    BY <1>2 DEF SettingsInv, FormsPart
  <2> QED BY <1>2, <2>1, StagesIs
<1>3. ASSUME NEW t \in Section,
             Loaded(t) \/ \E k \in Key, v \in Value : Edit(t, k, v)
      PROVE  changedKeys(page'[s]) = {}
  BY <1>2, <1>3, LoadedMoves, EditMoves
<1>4. ASSUME notifyWritten("save")
      PROVE  \/ changedKeys(page'[s]) = {}
             \/ w.section = s /\ w.at = "notify" /\ page[s].local # w.data
  <2>1. w.at = "notify" /\ committed("save")
    BY <1>4 DEF notifyWritten, At
  <2>2. IsWrite(w) /\ w.section \in Section
    BY <2>1, Underway DEF Writer
  <2> DEFINE t == w.section
             p == load(page[t], w.data)
  <2>3. page' = [page EXCEPT ![t] = p] /\ staged' = [staged EXCEPT ![t] = None]
    BY <2>1 DEF committed
  <2>4. t = s /\ page'[s] = p
    BY <2>2, <2>3 DEF SettingsInv, FormsPart
  <2>5. IsForm(t, page[t]) /\ Of(t, w.data)
    BY <2>2 DEF SettingsInv, FormsPart, IsWrite
  <2>6. page[t].local = w.data => changedKeys(p) = {}
    BY <2>2, <2>5, LoadIs
  <2> QED BY <2>1, <2>4, <2>6
<1>5. ASSUME NEW q \in Writer, write(q), ~ notifyWritten("save") PROVE staged' = staged
  BY <1>5 DEF write, capture, readExisting, writeDevice, writeSynced, restore, notifyWritten,
     committed, Throws, failed, ReadFails, WriteFails, formVars, Writer
<1>6. saveAll \/ saved \/ UNCHANGED vars => staged' = staged
  BY DEF saveAll, saved, vars, formVars
<1>7. \A t \in Section : HoldEnds(t) \/ Show(t) \/ commit(t) => staged' = staged
  BY DEF HoldEnds, Show, commit, formVars
<1>8. \A t \in Section, k \in Key, v \in Value :
        PluginWrites(t, k, v) \/ RoundBrings(t, k, v) => staged' = staged
  BY DEF PluginWrites, RoundBrings, formVars
<1> QED BY <1>1, <1>3, <1>4, <1>5, <1>6, <1>7, <1>8 DEF Next

(* What a save has written reads as its list said.                         *)
LEMMA WrittenReads ==
  ASSUME SettingsInv, SettingsInv', [Next]_vars, NEW s \in Section,
         writes["save"].section = s, writes["save"].at = "notify", Steps("save"), s \notin crossed,
         NEW k \in writes["save"].keys
  PROVE  read(s)'[k] = writes["save"].data[k]
<1> DEFINE it == writes["save"]
<1>1. /\ IsWrite(it) /\ Undisturbed(it, files[s])
  BY Underway DEF Writer
<1>2. files' = files
  <2>1. writes' # writes
    BY DEF Steps
  <2>2. ASSUME NEW q \in Writer, write(q) PROVE files' = files
    <3>1. q = "save"
      BY <2>2, WriteTouches DEF Steps, Writer
    <3> QED BY <2>2, <3>1 DEF write, capture, readExisting, writeDevice, writeSynced, restore,
               notifyWritten, At, fileVars
  <2>3. saveAll \/ saved \/ revertAll \/ UNCHANGED vars => writes' = writes
    BY DEF saveAll, saved, revertAll, vars
  <2>4. \A r \in Section : HoldEnds(r) \/ Show(r) \/ Loaded(r) => writes' = writes
    BY DEF HoldEnds, Show, Loaded
  <2>5. \A r \in Section : commit(r) => files' = files
    BY DEF commit, fileVars
  <2>6. \A r \in Section, n \in Key, v \in Value :
          /\ Edit(r, n, v) \/ RoundBrings(r, n, v) => writes' = writes
          /\ PluginWrites(r, n, v) => files' = files
    BY DEF Edit, RoundBrings, PluginWrites, fileVars
  <2> QED BY <2>1, <2>2, <2>3, <2>4, <2>5, <2>6 DEF Next
<1>3. /\ read(s)' = Shown(s, files[s]) /\ Contents(s, files[s])
  BY <1>2, ReadIs
<1>4. /\ it.data \in Says /\ Of(s, it.before) /\ k \in keysOf[s] /\ k \in Key /\ it.data[k] # Unset
  BY <1>1, SettingsAssumption DEF IsWrite, Of
<1>5. files[s][File(k)][k] # Unset => read(s)'[k] = files[s][File(k)][k]
  BY <1>3, <1>4, ShownIs DEF Answer
<1>6. k \in Owned(s, File(k)) /\ File(k) \in {"device", "synced"}
  BY <1>4, OwnedIs DEF FileName
<1>7. CASE File(k) = "device"
  <2>1. files[s]["device"] = Laid(Owned(s, "device"), it.before, it.data)
    <3>1. Split(s)
      BY <1>4, <1>6, <1>7, OwnedIs
    <3> QED BY <1>1, <3>1 DEF Undisturbed, Halfway
  <2>2. files[s]["device"][k] = it.data[k]
    BY <1>4, <1>6, <1>7, <2>1, LaidIs DEF FileName
  <2> QED BY <1>4, <1>5, <1>7, <2>2
<1>8. CASE File(k) = "synced"
  <2>1. files[s]["synced"][k] = it.data[k]
    BY <1>1, <1>4, <1>6, <1>8 DEF Undisturbed
  <2> QED BY <1>4, <1>5, <1>8, <2>1
<1> QED BY <1>6, <1>7, <1>8

(* A save that one request stops leaves its section pending, and the       *)
(* device's half of it as it was.                                          *)
LEMMA StoppedIs ==
  ASSUME SettingsInv, SettingsInv', [Next]_vars, NEW s \in Section, run.failed # s, run'.failed = s
  PROVE  LET w == writes["save"] IN
         /\ staged'[s] = staged[s]
         /\ Split(s) /\ w.at # "capture" /\ s \notin crossed /\ faults' = 1
              => files'[s]["device"] = w.before
<1> DEFINE it == writes["save"]
<1>1. PICK q \in Writer : write(q)
  <2>1. saveAll \/ saved \/ revertAll \/ UNCHANGED vars => run'.failed \in {run.failed, None}
    <3>1. saveAll => run'.failed = None
      BY DEF saveAll
    <3>2. saved => run'.failed = run.failed
      BY DEF saved, SettingsInv, RunPart
    <3>3. revertAll \/ UNCHANGED vars => run' = run
      BY DEF revertAll, vars
    <3> QED BY <3>1, <3>2, <3>3
  <2>2. \A r \in Section : HoldEnds(r) \/ Show(r) \/ Loaded(r) => run' = run
    BY DEF HoldEnds, Show, Loaded
  <2>3. \A r \in Section : commit(r) => run'.failed = run.failed
    BY DEF commit, SettingsInv, RunPart
  <2>4. \A r \in Section, n \in Key, v \in Value :
          Edit(r, n, v) \/ RoundBrings(r, n, v) \/ PluginWrites(r, n, v) => run' = run
    BY DEF Edit, RoundBrings, PluginWrites
  <2> QED BY <2>1, <2>2, <2>3, <2>4, SettingsAssumption DEF Next
<1>2. run' # run
  OBVIOUS
<1>3. Throws(q) /\ q = "save" /\ UNCHANGED formVars
  <2>1. Throws(q)
    BY <1>1, <1>2 DEF write, capture, readExisting, writeDevice, writeSynced, restore, notifyWritten,
       ReadFails, WriteFails
  <2> QED BY <1>2, <2>1 DEF Throws, failed, Writer
<1>4. it.at # "off"
  BY <1>1, <1>3, WriteTouches
<1>5. it.section = s
  BY <1>2, <1>3, <1>4, ThrowsIs
<1>6. /\ IsWrite(it) /\ (s \notin crossed => Undisturbed(it, files[s])) /\ Contents(s, files[s])
  BY <1>3, <1>4, <1>5, Underway
<1>7. staged'[s] = staged[s]
  BY <1>3 DEF formVars
<1> SUFFICES ASSUME Split(s), it.at # "capture", s \notin crossed, faults' = 1
             PROVE  files'[s]["device"] = it.before
  BY <1>7
<1>9. it.at \in {"readDevice", "writeDevice"} => files[s]["device"] = it.before
  BY <1>6 DEF Undisturbed
<1>10. CASE readExisting(q, "device", "readDevice", "writeDevice") \/ writeDevice(q)
  <2>1. it.at \in {"readDevice", "writeDevice"}
    BY <1>3, <1>10 DEF readExisting, writeDevice, At
  <2>2. files' = files
    <3>1. writes'["save"].at = "off"
      BY <1>3 DEF Throws, NoWrite, SettingsInv, WritesPart
    <3>2. ~ To(q, "readSynced")
      <4>1. writes = [r \in Writer |-> writes[r]] /\ it = [f \in Fields |-> it[f]]
        BY <1>3, <1>4, Underway
      <4>2. To(q, "readSynced") => writes'["save"] = [it EXCEPT !.at = "readSynced"]
        BY <1>3, <4>1 DEF To
      <4> HIDE DEF it
      <4>3. [it EXCEPT !.at = "readSynced"].at = "readSynced"
        BY <4>1 DEF Fields
      <4> QED BY <3>1, <4>2, <4>3
    <3> QED BY <1>10, <3>2 DEF readExisting, writeDevice, fileVars
  <2> QED BY <1>9, <2>1, <2>2
<1>11. CASE readExisting(q, "synced", "readSynced", "writeSynced") \/ writeSynced(q)
  <2>1. writes'["save"].at = "off"
    BY <1>3 DEF Throws, NoWrite, SettingsInv, WritesPart
  <2>2. \A at \in {"restore", "notify", "writeSynced"} : writes'["save"].at # at
    BY <2>1
  <2>3. ~ Split(s)
    BY <1>3, <1>5, <1>11, <2>2 DEF readExisting, writeSynced, ReadFails, WriteFails, To,
       SettingsInv, WritesPart
  <2> QED BY <2>3
<1>12. CASE restore(q)
  <2>1. it.at = "restore"
    BY <1>3, <1>12 DEF restore, At
  <2>2. faults > 0 /\ faults \in Nat
    BY <1>6, <2>1 DEF IsWrite, SettingsInv, FilesPart
  <2>3. ~ Fault
    BY <2>2 DEF Fault
  <2> QED BY <1>3, <1>5, <1>12, <2>3, RestoreLeaves
<1>13. ~ capture(q)
  BY <1>3 DEF capture, At
<1>14. ~ notifyWritten(q)
  BY <1>2 DEF notifyWritten
<1> QED BY <1>1, <1>10, <1>11, <1>12, <1>13, <1>14 DEF write

(* A change stays pending until it is on file, reverted or taken back, and *)
(* a save that is stopped leaves its section pending and unwritten, for    *)
(* any forms, writers and sections.                                        *)
THEOREM ChangesStayPending == Spec => PendingUntilWritten
<1>1. SettingsInv /\ SettingsInv' /\ [Next]_vars
        => [\A s \in Section :
              LET w == writes["save"] IN
              /\ staged[s] # None /\ staged'[s] = None
                   => \/ changedKeys(page'[s]) = {}
                      \/ w.section = s /\ w.at = "notify" /\ page[s].local # w.data
              /\ w.section = s /\ w.at = "notify" /\ Steps("save") /\ s \notin crossed
                   => \A k \in w.keys : read(s)'[k] = w.data[k]
              /\ run.failed # s /\ run'.failed = s
                   => /\ staged'[s] = staged[s]
                      /\ Split(s) /\ w.at # "capture" /\ s \notin crossed /\ faults' = 1
                           => files'[s]["device"] = w.before]_vars
  BY ClearedIs, WrittenReads, StoppedIs
<1> QED BY <1>1, SettingsAlways, PTL DEF Spec, PendingUntilWritten
=============================================================================
