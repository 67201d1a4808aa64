-------------------------- MODULE SyncContentProofs --------------------------
(***************************************************************************)
(* What is in the files a round publishes: every chunk a published file    *)
(* needs is at hand, a file that is no longer published was deleted by a   *)
(* user, and what is published is the three-way merge of both sides.       *)
(***************************************************************************)
EXTENDS SyncHistoryProofs

-----------------------------------------------------------------------------
(***************************************************************************)
(* Chunks.  A device need not hold what its snapshots list -- files it     *)
(* leaves in the cloud are listed too -- but then the remote holds it.     *)
(***************************************************************************)
ChunksHeld ==
  \A d \in Device : \A s \in snapshots[d] : ChunksOf(s) \subseteq chunks[d] \cup remoteChunks

ChunksInv == RemoteInv /\ ChunksHeld

(* Chunks are never dropped, so what is stored stays at hand.              *)
LEMMA ChunksUntouched ==
  ASSUME ChunksHeld, UNCHANGED snapshots, remoteChunks \subseteq remoteChunks',
         \A d \in Device : chunks[d] \subseteq chunks'[d]
  PROVE  ChunksHeld'
BY DEF ChunksHeld

(* A device may store snapshots whose chunks are at hand.                  *)
LEMMA ChunksStored ==
  ASSUME ChunksInv, remoteChunks \subseteq remoteChunks',
         \A e \in Device : chunks[e] \subseteq chunks'[e],
         \A e \in Device : \A s \in snapshots'[e] :
           s \in snapshots[e] \/ ChunksOf(s) \subseteq chunks'[e] \cup remoteChunks'
  PROVE  ChunksHeld'
BY DEF ChunksInv, ChunksHeld

(* The type of the stores.                                                 *)
LEMMA StoreType ==
  ASSUME ChunksInv
  PROVE  /\ snapshots \in [Device -> SUBSET Snapshot]
         /\ chunks \in [Device -> SUBSET Content]
BY DEF ChunksInv, RemoteInv, HistoryInv, LocalInv, TypeOK, DiskTypeOK

(* The empty snapshot needs no chunk.                                      *)
LEMMA RootChunks == ChunksOf(Root) = {}
BY DEF ChunksOf, Files, Listed, NoFiles

(* The files of a child are its manifest.                                  *)
LEMMA ChildFiles ==
  ASSUME NEW s \in Snapshot, NEW m \in Manifest
  PROVE  Files(Append(s, m)) = m
<1>1. Append(s, m) # Root /\ Append(s, m)[Len(Append(s, m))] = m
  BY DEF Snapshot, Root
<1> QED
  BY <1>1 DEF Files

(* Repo.snapshot needs the chunks of the head and those it cuts itself.    *)
LEMMA NextSnapshotChunks ==
  ASSUME TypeOK, NEW d \in Device, head[d] # NoHead
  PROVE  ChunksOf(nextSnapshot(d)) \subseteq ChunksOf(head[d]) \cup {tree[d][n] : n \in changed(d)}
<1> DEFINE m == buildSnapshot(HeadFiles(d), tree[d], gone(d), changed(d), d)
<1>1. head[d] \in Snapshot
  BY DEF TypeOK, DiskTypeOK, MaybeHead
<1>2. CASE nextSnapshot(d) = head[d]
  BY <1>2
<1>3. CASE nextSnapshot(d) # head[d]
  <2>1. nextSnapshot(d) = Append(head[d], m)
    BY <1>3 DEF nextSnapshot
  <2>2. m \in Manifest
    <3>1. tree[d] \in [Name -> Content \cup {Absent}] /\ HeadFiles(d) \in Manifest
      BY <1>1, FilesType DEF TypeOK, DiskTypeOK, HeadFiles
    <3>2. gone(d) \in SUBSET Listed(HeadFiles(d)) /\ \A n \in changed(d) : tree[d][n] # Absent
      BY DEF gone, changed, OnDisk
    <3> QED
      BY <3>1, <3>2, BuildSnapshotType, EngineAssumption
  <2>3. Files(nextSnapshot(d)) = m
    BY <1>1, <2>1, <2>2, ChildFiles
  <2>4. ASSUME NEW n \in Name
        PROVE  \/ m[n] = Absent
               \/ n \in changed(d) /\ m[n].hash = tree[d][n]
               \/ m[n] = Files(head[d])[n]
    BY DEF buildSnapshot, HeadFiles
  <2> HIDE DEF m
  <2> QED
    BY <2>3, <2>4 DEF ChunksOf, Listed
<1> QED
  BY <1>2, <1>3

(* snapshot stores what it has cut.                                        *)
LEMMA SnapshotChunks ==
  ASSUME ChunksInv, NEW d \in Device, head[d] # NoHead, snapshot(d), UNCHANGED remoteChunks
  PROVE  ChunksHeld'
<1> DEFINE new == {tree[d][n] : n \in changed(d)}
<1>1. /\ snapshots' = [snapshots EXCEPT ![d] = @ \cup {nextSnapshot(d)}]
      /\ chunks' = [chunks EXCEPT ![d] = @ \cup new]
  BY DEF snapshot
<1>2. ChunksOf(nextSnapshot(d)) \subseteq ChunksOf(head[d]) \cup new
  BY NextSnapshotChunks DEF ChunksInv, RemoteInv, HistoryInv, LocalInv
<1> HIDE DEF new
<1>3. /\ chunks'[d] = chunks[d] \cup new
      /\ \A e \in Device : chunks[e] \subseteq chunks'[e]
  BY <1>1 DEF ChunksInv, RemoteInv, HistoryInv, LocalInv, TypeOK, DiskTypeOK
<1>4. ChunksOf(head[d]) \subseteq chunks[d] \cup remoteChunks
  BY DEF ChunksInv, ChunksHeld, RemoteInv, HistoryInv, LocalInv, StoresWhole
<1>5. ChunksOf(nextSnapshot(d)) \subseteq chunks'[d] \cup remoteChunks'
  BY <1>2, <1>3, <1>4
<1>6. \A e \in Device : \A s \in snapshots'[e] :
        s \in snapshots[e] \/ (e = d /\ s = nextSnapshot(d))
  BY <1>1, StoreType
<1>7. remoteChunks \subseteq remoteChunks'
  OBVIOUS
<1> QED
  BY <1>3, <1>5, <1>6, <1>7, ChunksStored

(* A checkpoint changes one entry.                                         *)
LEMMA CheckpointFiles ==
  ASSUME NEW d \in Device, NEW s \in Snapshot, NEW n \in Name, NEW c \in Content
  PROVE  /\ \A k \in Name \ {n} :
               Files(recordCheckpoint(d, s, n, c))[k] = Files(s)[k]
         /\ HashOf(Files(recordCheckpoint(d, s, n, c))[n]) = c
<1> DEFINE id == IF Files(s)[n] = Absent THEN d ELSE Files(s)[n].fileId
           entry == [hash |-> c, fileId |-> id]
           m == [Files(s) EXCEPT ![n] = entry]
<1>1. Files(s) \in Manifest
  BY FilesType
<1>2. CASE HashOf(Files(s)[n]) = c
  BY <1>2 DEF recordCheckpoint
<1>3. CASE HashOf(Files(s)[n]) # c
  <2>1. recordCheckpoint(d, s, n, c) = Append(s, m)
    BY <1>3 DEF recordCheckpoint
  <2>2. id \in FileId
    BY <1>1, ListedEntry, EngineAssumption DEF Listed
  <2>3. entry \in Entry /\ entry.hash = c
    BY <2>2 DEF Entry
  <2> HIDE DEF entry
  <2>4. m \in Manifest
    BY <1>1, <2>3 DEF Manifest
  <2>5. m[n] = entry /\ \A k \in Name \ {n} : m[k] = Files(s)[k]
    BY <1>1 DEF Manifest
  <2> HIDE DEF m
  <2>6. Files(recordCheckpoint(d, s, n, c)) = m
    BY <2>1, <2>4, ChildFiles
  <2>7. entry # Absent
    BY <2>3, AbsentAssumption DEF Entry
  <2> QED
    BY <2>3, <2>5, <2>6, <2>7 DEF HashOf
<1> QED
  BY <1>2, <1>3

(* A checkpoint needs the chunks below it and its own.                     *)
LEMMA CheckpointChunks ==
  ASSUME NEW d \in Device, NEW s \in Snapshot, NEW n \in Name, NEW c \in Content
  PROVE  ChunksOf(recordCheckpoint(d, s, n, c)) \subseteq ChunksOf(s) \cup {c}
BY CheckpointFiles DEF ChunksOf, Listed, HashOf

(* save, which cuts both contents, stores checkpoints whose chunks are at  *)
(* hand.                                                                   *)
LEMMA SaveChunks ==
  ASSUME ChunksInv, NEW d \in Device, NEW n \in Path, NEW c \in Content, save(d, n, c)
  PROVE  ChunksHeld'
<1> DEFINE before == recordCheckpoint(d, Tip(head[d]), n, tree[d][n])
           after == recordCheckpoint(d, before, n, c)
<1>1. /\ snapshots' = [snapshots EXCEPT ![d] = @ \cup {Root, before, after}]
      /\ chunks' = [chunks EXCEPT ![d] = @ \cup {tree[d][n], c}]
      /\ UNCHANGED remoteChunks
  BY DEF save, MayEdit, remoteVars
<1>2. n \in Name /\ Tip(head[d]) \in Snapshot /\ tree[d][n] \in Content
  BY EngineAssumption, TipType
     DEF ChunksInv, RemoteInv, HistoryInv, LocalInv, TypeOK, DiskTypeOK, save
<1>3. before \in Snapshot /\ ChunksOf(before) \subseteq ChunksOf(Tip(head[d])) \cup {tree[d][n]}
  BY <1>2, RecordCheckpointFacts, CheckpointChunks
<1> HIDE DEF before
<1>4. ChunksOf(after) \subseteq ChunksOf(before) \cup {c}
  BY <1>2, <1>3, CheckpointChunks
<1> HIDE DEF after
<1>5. /\ chunks'[d] = chunks[d] \cup {tree[d][n], c}
      /\ \A e \in Device : chunks[e] \subseteq chunks'[e]
  BY <1>1 DEF ChunksInv, RemoteInv, HistoryInv, LocalInv, TypeOK, DiskTypeOK
<1>6. ChunksOf(Tip(head[d])) \subseteq chunks[d] \cup remoteChunks
  BY RootChunks DEF ChunksInv, ChunksHeld, RemoteInv, HistoryInv, LocalInv, StoresWhole, Tip
<1>7. \A s \in {Root, before, after} : ChunksOf(s) \subseteq chunks'[d] \cup remoteChunks'
  BY <1>1, <1>3, <1>4, <1>5, <1>6, RootChunks
<1>8. remoteChunks \subseteq remoteChunks'
  BY <1>1
<1>9. \A e \in Device : \A s \in snapshots'[e] :
        s \in snapshots[e] \/ (e = d /\ s \in {Root, before, after})
  BY <1>1, StoreType
<1> QED
  BY <1>5, <1>7, <1>8, <1>9, ChunksStored

(* A rebased snapshot has the contents of a local one or of the remote     *)
(* head, and both are stored.                                              *)
LEMMA RebasedFiles ==
  ASSUME LocalInv, NEW d \in Device, pc[d] = "rebase", NEW s \in Snapshot,
         IsPrefix(s, rebased(d)), Len(s) > Len(Tip(round[d].syncedHead))
  PROVE  \E q \in snapshots[d] :
           \A n \in Name :
             HashOf(Files(s)[n])
               \in {HashOf(Files(q)[n]), HashOf(Files(Tip(round[d].syncedHead))[n])}
<1> DEFINE remote == Tip(round[d].syncedHead)
<1>1. /\ Base(d) \in Snapshot /\ IsPrefix(Base(d), head[d])
      /\ head[d] \in Snapshot /\ round[d].local = head[d] /\ remote \in Snapshot
  BY BaseFacts, RoundFields DEF LocalInv
<1>2. Prefixes(head[d]) \subseteq snapshots[d]
  BY DEF LocalInv, StoresWhole, Whole, RoundStored, Underway
<1>3. CASE Base(d) = remote
  <2>1. s \in snapshots[d]
    BY <1>1, <1>2, <1>3, PrefixesAre DEF rebased
  <2> QED
    BY <2>1
<1>4. CASE Base(d) # remote
  <2> PICK l : l = Len(Base(d)) + (Len(s) - Len(remote))
    OBVIOUS
  <2> DEFINE q == SubSeq(head[d], 1, l)
  <2>1. IsPrefix(s, replay(head[d], remote, Base(d))) /\ Len(s) > Len(remote)
    BY <1>1, <1>4 DEF rebased
  <2>2. /\ q \in Snapshot /\ IsPrefix(q, head[d])
        /\ \A n \in Name :
             HashOf(Files(s)[n]) = HashOf(IF Touched(head[d], Len(Base(d)), l, n)
                                          THEN Files(q)[n]
                                          ELSE Files(remote)[n])
    <3> HIDE DEF remote
    <3> QED
      BY <1>1, <2>1, ReplayManifest
  <2>3. q \in snapshots[d]
    BY <1>1, <1>2, <2>2, PrefixesAre
  <2> HIDE DEF q
  <2> QED
    BY <2>2, <2>3
<1> QED
  BY <1>3, <1>4

(* rebase needs no chunk that is not at hand.                              *)
LEMMA RebaseChunks ==
  ASSUME ChunksInv, NEW d \in Device, rebase(d)
  PROVE  ChunksHeld'
<1> DEFINE remote == Tip(round[d].syncedHead)
           new == {s \in Prefixes(rebased(d)) : Len(s) > Len(remote)}
<1>1. /\ pc[d] = "rebase" /\ UNCHANGED <<chunks, remoteChunks>>
      /\ snapshots' = [snapshots EXCEPT ![d] = @ \cup new]
  BY DEF rebase, Goto, remoteVars
<1>2. rebased(d) \in Snapshot /\ remote \in snapshots[d]
  BY <1>1, RebasedFacts
     DEF ChunksInv, RemoteInv, HistoryInv, LocalInv, RoundStored, HasFetched
<1>3. ASSUME NEW s \in new
      PROVE  ChunksOf(s) \subseteq chunks[d] \cup remoteChunks
  <2>1. s \in Snapshot /\ IsPrefix(s, rebased(d)) /\ Len(s) > Len(remote)
    BY <1>2, PrefixesAre
  <2>2. PICK q \in snapshots[d] :
          \A n \in Name : HashOf(Files(s)[n]) \in {HashOf(Files(q)[n]), HashOf(Files(remote)[n])}
    BY <1>1, <2>1, RebasedFiles DEF ChunksInv, RemoteInv, HistoryInv
  <2>3. ChunksOf(s) \subseteq ChunksOf(q) \cup ChunksOf(remote)
    <3>1. q \in Snapshot /\ remote \in Snapshot
      BY <1>2, <2>2, StoreType
    <3> HIDE DEF remote
    <3> QED
      BY <2>1, <2>2, <3>1, HashChunks
  <2> QED
    BY <1>2, <2>2, <2>3 DEF ChunksInv, ChunksHeld
<1> HIDE DEF new
<1>4. remoteChunks \subseteq remoteChunks' /\ \A e \in Device : chunks[e] \subseteq chunks'[e]
  BY <1>1
<1>5. \A e \in Device : \A s \in snapshots'[e] : s \in snapshots[e] \/ (e = d /\ s \in new)
  BY <1>1, StoreType
<1> QED
  BY <1>1, <1>3, <1>4, <1>5, ChunksStored

(* What is fetched is published, with its chunks.                          *)
LEMMA FetchSnapshotChunks ==
  ASSUME ChunksInv, NEW d \in Device, fetchSnapshot(d)
  PROVE  ChunksHeld'
<1> DEFINE s == Shortest(Unfetched(d))
<1>1. /\ s \in remoteSnapshots /\ snapshots' = [snapshots EXCEPT ![d] = @ \cup {s}]
      /\ UNCHANGED <<chunks, remoteChunks>>
  BY DEF fetchSnapshot, remoteVars
<1> HIDE DEF s
<1>2. ChunksOf(s) \subseteq chunks'[d] \cup remoteChunks'
  BY <1>1 DEF ChunksInv, RemoteInv, RemoteStored
<1>3. remoteChunks \subseteq remoteChunks' /\ \A e \in Device : chunks[e] \subseteq chunks'[e]
  BY <1>1
<1>4. \A e \in Device : \A t \in snapshots'[e] : t \in snapshots[e] \/ (e = d /\ t = s)
  BY <1>1, StoreType
<1> QED
  BY <1>2, <1>3, <1>4, ChunksStored

(* The empty snapshot prepare seeds a store with needs none.               *)
LEMMA StartRoundChunks ==
  ASSUME ChunksInv, NEW d \in Device, startRound(d)
  PROVE  ChunksHeld'
<1>1. /\ snapshots' = [snapshots EXCEPT ![d] = @ \cup {Root}]
      /\ UNCHANGED <<chunks, remoteChunks>>
  BY DEF startRound, remoteVars
<1>2. remoteChunks \subseteq remoteChunks' /\ \A e \in Device : chunks[e] \subseteq chunks'[e]
  BY <1>1
<1>3. \A e \in Device : \A s \in snapshots'[e] : s \in snapshots[e] \/ s = Root
  BY <1>1, StoreType
<1> QED
  BY <1>2, <1>3, RootChunks, ChunksStored

(* Merging writes files from chunks and stores no snapshot.                *)
LEMMA MergeStepChunks ==
  ASSUME ChunksInv, NEW d \in Device, MergeStep(d)
  PROVE  UNCHANGED <<snapshots, chunks, remoteChunks>>
<1> PICK n \in Name :
      \/ mergeDelete(d, n) \/ mergeCreated(d, n) \/ mergeTake(d, n) \/ mergeKeep(d, n)
      \/ tryContentMerge(d, n) \/ writeConflictFile(d, n) \/ mergeThrows(d, n)
  BY DEF MergeStep
<1>1. Merging(d, n) \/ mergeThrows(d, n)
  BY DEF mergeDelete, mergeCreated, mergeTake, mergeKeep, tryContentMerge, writeConflictFile
<1> QED
  BY <1>1 DEF Merging, mergeThrows, repoVars, remoteVars

(* Every step keeps the chunks of what is stored at hand.                  *)
LEMMA ChunksInvStep ==
  ASSUME ChunksInv, [Next]_vars
  PROVE  ChunksInv'
<1>1. RemoteInv'
  BY RemoteInvStep DEF ChunksInv
<1>2. chunks \in [Device -> SUBSET Content]
  BY DEF ChunksInv, RemoteInv, HistoryInv, LocalInv, TypeOK, DiskTypeOK
<1>3. CASE rollBack \/ UNCHANGED vars
  <2>1. UNCHANGED <<snapshots, chunks, remoteChunks>>
    BY <1>3 DEF rollBack, vars, deviceVars, repoVars, remoteVars
  <2>2. remoteChunks \subseteq remoteChunks' /\ \A d \in Device : chunks[d] \subseteq chunks'[d]
    BY <2>1
  <2> QED
    BY <1>1, <2>1, <2>2, ChunksUntouched DEF ChunksInv
<1>4. ASSUME NEW d \in Device, User(d)
      PROVE  ChunksHeld'
  <2>1. ASSUME NEW n \in Path, NEW c \in Content, Write(d, n, c)
        PROVE  ChunksHeld'
    BY <2>1, ChunksUntouched DEF ChunksInv, Write, MayEdit, remoteVars
  <2>2. ASSUME NEW n \in Path, Delete(d, n)
        PROVE  ChunksHeld'
    BY <2>2, ChunksUntouched DEF ChunksInv, Delete, MayEdit, remoteVars
  <2> QED
    BY <1>4, <2>1, <2>2, SaveChunks DEF User
<1>5. ASSUME NEW d \in Device, Open(d)
      PROVE  ChunksHeld'
  <2>1. PICK n \in Name : materialize(d, n)
    BY <1>5 DEF Open
  <2>2. UNCHANGED <<snapshots, remoteChunks>> /\ \A e \in Device : chunks[e] \subseteq chunks'[e]
    BY <1>2, <2>1 DEF materialize, remoteVars
  <2> QED
    BY <2>2, ChunksUntouched DEF ChunksInv
<1>6. ASSUME NEW d \in Device, Failure(d)
      PROVE  ChunksHeld'
  BY <1>6, ChunksUntouched
     DEF ChunksInv, Failure, requestFails, answerLost, crash, repoVars, remoteVars
<1>7. ASSUME NEW d \in Device, Round(d)
      PROVE  ChunksHeld'
  <2>1. CASE fetched(d) \/ refuseRemote(d) \/ mergeDone(d) \/ setHead(d) \/ syncHeadMoved(d)
             \/ writeAnchor(d) \/ pushSnapshot(d)
    BY <2>1, ChunksUntouched
       DEF ChunksInv, fetched, refuseRemote, mergeDone, setHead, syncHeadMoved, writeAnchor,
           pushSnapshot, deviceVars, repoVars, remoteVars
  <2>2. CASE fetchChunk(d) \/ pushChunk(d)
    <3>1. /\ UNCHANGED snapshots /\ remoteChunks \subseteq remoteChunks'
          /\ \A e \in Device : chunks[e] \subseteq chunks'[e]
      BY <1>2, <2>2 DEF fetchChunk, pushChunk, deviceVars, repoVars, remoteVars
    <3> QED
      BY <3>1, ChunksUntouched DEF ChunksInv
  <2>3. CASE snapshotLocal(d) \/ snapshotMerged(d)
    <3>1. snapshot(d) /\ UNCHANGED remoteChunks /\ head[d] # NoHead
      BY <2>3
         DEF snapshotLocal, snapshotMerged, Goto, remoteVars, ChunksInv, RemoteInv, HistoryInv,
             LocalInv, RoundStored, Underway
    <3> QED
      BY <3>1, SnapshotChunks
  <2>4. CASE MergeStep(d)
    BY <2>4, MergeStepChunks, ChunksUntouched DEF ChunksInv
  <2> QED
    BY <1>7, <2>1, <2>2, <2>3, <2>4, StartRoundChunks, FetchSnapshotChunks, RebaseChunks DEF Round
<1> QED
  BY <1>1, <1>3, <1>4, <1>5, <1>6, <1>7 DEF ChunksInv, Next

(* Whatever a device leaves in the cloud, and wherever a fetch was cut     *)
(* off, push never owes the remote a chunk it does not have: OwedChunks    *)
(* skips what the remote holds, and the rest was cut from this device's    *)
(* own files.                                                              *)
THEOREM PushesWhatItHas == Spec => []Publishable
<1>1. Init => ChunksInv
  <2>1. Init => RemoteInv
    BY InitType
       DEF Init, RemoteInv, HistoryInv, OnTop, Anchored, RemoteStored, ReadFromRemote, NoRollback,
           Whole, Underway, OnRemoteChain
  <2> QED
    BY <2>1 DEF Init, ChunksInv, ChunksHeld
<1>2. ChunksInv /\ [Next]_vars => ChunksInv'
  BY ChunksInvStep
<1>3. ChunksInv => Publishable
  BY FreshFacts
     DEF ChunksInv, ChunksHeld, RemoteInv, HistoryInv, Publishable, OwedChunks
<1> QED
  BY <1>1, <1>2, <1>3, PTL DEF Spec

-----------------------------------------------------------------------------
(***************************************************************************)
(* Deletions.  A chain loses a name only when a user has deleted it: every *)
(* name an ancestor lists is still listed or was deleted.                  *)
(***************************************************************************)
LosesOnly(s, names) ==
  \A p \in Prefixes(s) : Listed(Files(p)) \ Listed(Files(s)) \subseteq names

LossesExplained ==
  /\ \A s \in remoteSnapshots : LosesOnly(s, deleted)
  /\ \A d \in Device : \A s \in snapshots[d] : LosesOnly(s, deleted)

(* A listed file is on disk, or a user deleted it, or the device left it in *)
(* the cloud and will still know so after a crash.                          *)
AccountedFor(d, n) ==
  \/ tree[d][n] # Absent
  \/ n \in deleted
  \/ n \in checkout[d].pending /\ n \in index[d].pending

Theirs(d) == Listed(Files(Tip(round[d].syncedHead)))

(* The files of the head are accounted for, and during a merge those of the *)
(* remote head that merge is through with.                                  *)
FilesKept(d) ==
  /\ \A n \in Listed(Files(Tip(head[d]))) : AccountedFor(d, n)
  /\ pc[d] = "merge" =>
       \A n \in Theirs(d) \ round[d].todo :
         tree[d][n] # Absent \/ n \in deleted \/ n \in checkout[d].pending
  /\ pc[d] = "rebase" => \A n \in Theirs(d) : AccountedFor(d, n)

DeletionInv == RemoteInv /\ LossesExplained /\ \A d \in Device : FilesKept(d)

(* What LosesOnly says of one ancestor.                                    *)
LEMMA LosesOnlyAt ==
  ASSUME NEW s \in Snapshot, NEW p \in Snapshot, IsPrefix(p, s), NEW names,
         LosesOnly(s, names), NEW n \in Listed(Files(p)), n \notin Listed(Files(s))
  PROVE  n \in names
BY PrefixesAre DEF LosesOnly

(* The empty snapshot loses nothing.                                       *)
LEMMA RootLoses ==
  ASSUME NEW names
  PROVE  LosesOnly(Root, names)
<1>1. \A p \in Prefixes(Root) : p = Root
  BY PrefixesAre, PrefixRoot, PrefixAntisymmetric, PrefixLength
<1> QED
  BY <1>1 DEF LosesOnly

(* A child loses what its chain has lost and what its parent still listed. *)
LEMMA ChildLoses ==
  ASSUME NEW s \in Snapshot, NEW m \in Manifest, NEW names, LosesOnly(s, names),
         Listed(Files(s)) \ Listed(m) \subseteq names
  PROVE  LosesOnly(Append(s, m), names)
<1>1. Files(Append(s, m)) = m
  BY ChildFiles
<1> SUFFICES ASSUME NEW p \in Prefixes(Append(s, m)), NEW n \in Listed(Files(p)), n \notin Listed(m)
             PROVE  n \in names
  BY <1>1 DEF LosesOnly
<1>2. p \in Snapshot /\ (p = Append(s, m) \/ IsPrefix(p, s))
  BY PrefixAppend, PrefixesAre
<1>3. IsPrefix(p, s)
  BY <1>1, <1>2
<1>4. n \notin Listed(Files(s)) => n \in names
  BY <1>2, <1>3, LosesOnlyAt
<1> QED
  BY <1>4

(* Replaying on top of the remote head loses nothing that neither side has *)
(* lost.                                                                   *)
LEMMA ReplayLoses ==
  ASSUME NEW local \in Snapshot, NEW remote \in Snapshot, NEW base \in Snapshot,
         IsPrefix(base, local), NEW names, LosesOnly(remote, names),
         \A q \in Snapshot : IsPrefix(q, local) => LosesOnly(q, names),
         NEW s \in Snapshot, IsPrefix(s, replay(local, remote, base)), Len(s) > Len(remote)
  PROVE  LosesOnly(s, names)
<1> SUFFICES ASSUME NEW p \in Prefixes(s), NEW n \in Listed(Files(p)), n \notin Listed(Files(s))
             PROVE  n \in names
  BY DEF LosesOnly
<1> PICK l : l = Len(base) + (Len(s) - Len(remote))
  OBVIOUS
<1> DEFINE q == SubSeq(local, 1, l)
           touched == Touched(local, Len(base), l, n)
<1>0. n \in Name
  BY DEF Listed
<1>1. /\ Len(base) \in Nat /\ Len(local) \in Nat /\ Len(remote) \in Nat /\ Len(s) \in Nat
      /\ replay(local, remote, base) \in Snapshot /\ IsPrefix(remote, replay(local, remote, base))
  <2>1. replay(local, remote, base) \in Snapshot /\ IsPrefix(remote, replay(local, remote, base))
    BY ReplayOnTop
  <2> QED
    BY <2>1 DEF Snapshot
<1>2. /\ l \in 1 .. Len(local) /\ q \in Snapshot /\ IsPrefix(q, local)
      /\ HashOf(Files(s)[n]) = HashOf(IF touched THEN Files(q)[n] ELSE Files(remote)[n])
      /\ HashOf(Files(s)[n]) = Absent
  BY <1>0, ReplayManifest, ListedHash
<1>3. p \in Snapshot /\ IsPrefix(p, s) /\ Len(p) <= Len(s) /\ Len(p) \in Nat
  <2>1. p \in Snapshot /\ IsPrefix(p, s)
    BY PrefixesAre
  <2> QED
    BY <2>1, PrefixLength DEF Snapshot
<1>4. IsPrefix(p, replay(local, remote, base))
  BY <1>1, <1>3, PrefixTransitive
<1> HIDE DEF touched
<1>5. ASSUME touched
      PROVE  n \in names
  <2>1. l \in 0 .. Len(local)
    BY <1>1, <1>2
  <2>2. PICK k \in 0 .. l : n \in Listed(Files(SubSeq(local, 1, k)))
    BY <1>0, <1>1, <1>5, <2>1, TouchedListed DEF touched
  <2>3. k \in 0 .. Len(local) /\ k <= l
    BY <1>1, <2>1, <2>2
  <2>4. /\ SubSeq(local, 1, k) \in Snapshot /\ IsPrefix(SubSeq(local, 1, k), local)
        /\ Len(SubSeq(local, 1, k)) = k /\ Len(q) = l
    BY <2>1, <2>3, SubSeqPrefix
  <2> HIDE DEF q
  <2>5. IsPrefix(SubSeq(local, 1, k), q)
    BY <1>2, <2>3, <2>4, PrefixTotal
  <2>6. n \notin Listed(Files(q))
    BY <1>0, <1>2, <1>5, ListedHash
  <2>7. LosesOnly(q, names)
    BY <1>2
  <2> QED
    BY <1>2, <2>2, <2>4, <2>5, <2>6, <2>7, LosesOnlyAt
<1>6. ASSUME ~ touched
      PROVE  n \in names
  <2>1. n \notin Listed(Files(remote))
    BY <1>0, <1>2, <1>6, ListedHash
  <2>2. CASE ~ (Len(p) > Len(remote))
    <3>1. IsPrefix(p, remote)
      BY <1>1, <1>3, <1>4, <2>2, PrefixTotal
    <3> QED
      BY <1>3, <2>1, <3>1, LosesOnlyAt
  <2>3. CASE Len(p) > Len(remote)
    <3> PICK k : k = Len(base) + (Len(p) - Len(remote))
      OBVIOUS
    <3>1. /\ k \in 1 .. Len(local)
          /\ HashOf(Files(p)[n]) = HashOf(IF Touched(local, Len(base), k, n)
                                         THEN Files(SubSeq(local, 1, k))[n]
                                         ELSE Files(remote)[n])
      BY <1>0, <1>3, <1>4, <2>3, ReplayManifest
    <3>2. Touched(local, Len(base), k, n)
      <4>1. HashOf(Files(p)[n]) # Absent /\ HashOf(Files(remote)[n]) = Absent
        BY <1>0, <1>3, <2>1, ListedHash
      <4> QED
        BY <3>1, <4>1
    <3>3. k <= l /\ k \in Nat /\ l \in Nat
      BY <1>1, <1>2, <1>3, <2>3, <3>1
    <3>4. touched
      BY <1>1, <3>2, <3>3 DEF touched, Touched
    <3> QED
      BY <1>6, <3>4
  <2> QED
    BY <2>2, <2>3
<1> QED
  BY <1>5, <1>6

-----------------------------------------------------------------------------
(* The types of the variables this part is about.                          *)
LEMMA DeletionTypes ==
  ASSUME DeletionInv
  PROVE  /\ LocalInv /\ RemoteInv
         /\ tree \in [Device -> [Name -> Content \cup {Absent}]]
         /\ head \in [Device -> MaybeHead] /\ snapshots \in [Device -> SUBSET Snapshot]
         /\ checkout \in [Device -> Checkout] /\ index \in [Device -> Checkout]
         /\ pc \in [Device -> PcType] /\ round \in [Device -> RoundType]
         /\ remoteSnapshots \in SUBSET Snapshot
BY DEF DeletionInv, RemoteInv, HistoryInv, LocalInv, TypeOK, DiskTypeOK, MemoryTypeOK, RemoteTypeOK

(* What a user has deleted stays deleted; a store may take in chains whose *)
(* losses are explained.                                                   *)
LEMMA LossesStored ==
  ASSUME LossesExplained, deleted \subseteq deleted',
         \A s \in remoteSnapshots' : s \in remoteSnapshots \/ LosesOnly(s, deleted),
         \A d \in Device : \A s \in snapshots'[d] : s \in snapshots[d] \/ LosesOnly(s, deleted)
  PROVE  LossesExplained'
BY DEF LossesExplained, LosesOnly

(* A device whose files, head, marks and merge stay as they are keeps its  *)
(* files accounted for.                                                    *)
LEMMA KeptUntouched ==
  ASSUME NEW d \in Device, FilesKept(d), deleted \subseteq deleted',
         tree'[d] = tree[d], Tip(head[d])' = Tip(head[d]),
         checkout'[d] = checkout[d], index'[d] = index[d],
         pc'[d] \in {"merge", "rebase"} =>
           /\ pc'[d] = pc[d]
           /\ round'[d].syncedHead = round[d].syncedHead /\ round'[d].todo = round[d].todo
  PROVE  FilesKept(d)'
BY DEF FilesKept, AccountedFor, Theirs

(* A step that stores no snapshot and touches no device's files, marks or  *)
(* merge keeps everything.                                                 *)
LEMMA DeletionUntouched ==
  ASSUME DeletionInv, UNCHANGED <<tree, head, snapshots, checkout, index, remoteSnapshots, deleted>>,
         \A d \in Device : pc'[d] \in {"merge", "rebase"} =>
           /\ pc'[d] = pc[d]
           /\ round'[d].syncedHead = round[d].syncedHead /\ round'[d].todo = round[d].todo
  PROVE  LossesExplained' /\ \A d \in Device : FilesKept(d)'
<1>1. LossesExplained'
  BY LossesStored DEF DeletionInv
<1>2. ASSUME NEW d \in Device
      PROVE  FilesKept(d)'
  BY KeptUntouched DEF DeletionInv
<1> QED
  BY <1>1, <1>2

(* So does ending a round.                                                 *)
LEMMA DeletionEndRound ==
  ASSUME DeletionInv, NEW d \in Device, EndRound(d),
         UNCHANGED <<tree, head, snapshots, checkout, index, remoteSnapshots, deleted>>
  PROVE  LossesExplained' /\ \A e \in Device : FilesKept(e)'
<1>1. pc'[d] = "idle" /\ \A e \in Device \ {d} : pc'[e] = pc[e] /\ round'[e] = round[e]
  BY DeletionTypes DEF EndRound
<1> QED
  BY <1>1, DeletionUntouched

-----------------------------------------------------------------------------
(* Writing and deleting on a device outside a merge: the file is on disk,  *)
(* or a user has deleted it.                                               *)
LEMMA WriteDeletion ==
  ASSUME DeletionInv, NEW d \in Device, NEW n \in Path, NEW c \in Content, Write(d, n, c)
  PROVE  LossesExplained' /\ \A e \in Device : FilesKept(e)'
<1>1. /\ tree' = [tree EXCEPT ![d][n] = c] /\ pc[d] \notin {"merge", "rebase"}
      /\ UNCHANGED <<head, snapshots, index, checkout, pc, round, remoteSnapshots, deleted>>
  BY DEF Write, MayEdit, InExclusive, remoteVars
<1>2. c # Absent
  BY AbsentAssumption
<1>3. \A e \in Device : \A m \in Name :
        /\ tree'[e][m] = Absent => tree[e][m] = Absent
        /\ e # d => tree'[e] = tree[e]
  BY <1>1, <1>2, DeletionTypes
<1>4. LossesExplained'
  BY <1>1, LossesStored DEF DeletionInv
<1>5. ASSUME NEW e \in Device
      PROVE  FilesKept(e)'
  <2>1. CASE e = d
    BY <1>1, <1>3, <2>1 DEF DeletionInv, FilesKept, AccountedFor, Listed
  <2>2. CASE e # d
    BY <1>1, <1>3, <2>2, KeptUntouched DEF DeletionInv
  <2> QED
    BY <2>1, <2>2
<1> QED
  BY <1>4, <1>5

(* What a user deletes is in `deleted' from then on.                       *)
LEMMA DeleteDeletion ==
  ASSUME DeletionInv, NEW d \in Device, NEW n \in Path, Delete(d, n)
  PROVE  LossesExplained' /\ \A e \in Device : FilesKept(e)'
<1>1. /\ tree' = [tree EXCEPT ![d][n] = Absent] /\ pc[d] \notin {"merge", "rebase"}
      /\ deleted' = deleted \cup {n}
      /\ UNCHANGED <<head, snapshots, index, checkout, pc, round, remoteSnapshots>>
  BY DEF Delete, MayEdit, InExclusive, remoteVars
<1>2. \A e \in Device : \A m \in Name :
        /\ tree'[e][m] = Absent => tree[e][m] = Absent \/ m = n
        /\ e # d => tree'[e] = tree[e]
  BY <1>1, DeletionTypes
<1>3. LossesExplained'
  BY <1>1, LossesStored DEF DeletionInv
<1>4. ASSUME NEW e \in Device
      PROVE  FilesKept(e)'
  <2>1. CASE e = d
    BY <1>1, <1>2, <2>1 DEF DeletionInv, FilesKept, AccountedFor, Listed
  <2>2. CASE e # d
    BY <1>1, <1>2, <2>2, KeptUntouched DEF DeletionInv
  <2> QED
    BY <2>1, <2>2
<1> QED
  BY <1>3, <1>4

(* A checkpoint drops no name.                                             *)
LEMMA CheckpointLoses ==
  ASSUME NEW d \in Device, NEW s \in Snapshot, NEW n \in Name, NEW c \in Content,
         NEW names, LosesOnly(s, names)
  PROVE  /\ LosesOnly(recordCheckpoint(d, s, n, c), names)
         /\ Listed(Files(recordCheckpoint(d, s, n, c))) \subseteq Listed(Files(s)) \cup {n}
<1> DEFINE t == recordCheckpoint(d, s, n, c)
<1>1. /\ \A k \in Name \ {n} : Files(t)[k] = Files(s)[k]
      /\ HashOf(Files(t)[n]) = c
  BY CheckpointFiles
<1>2. t \in Snapshot /\ (t = s \/ \E m \in Manifest : t = Append(s, m))
  BY RecordCheckpointFacts
<1> HIDE DEF t
<1>3. Files(t)[n] # Absent
  BY <1>1, AbsentAssumption DEF HashOf
<1>4. LosesOnly(t, names)
  <2>1. CASE t = s
    BY <2>1
  <2>2. ASSUME NEW m \in Manifest, t = Append(s, m)
        PROVE  LosesOnly(t, names)
    <3>1. Files(t) = m
      BY <2>2, ChildFiles
    <3>2. Listed(Files(s)) \ Listed(m) \subseteq names
      BY <1>1, <1>3, <3>1 DEF Listed
    <3> QED
      BY <2>2, <3>2, ChildLoses
  <2> QED
    BY <1>2, <2>1, <2>2
<1>5. Listed(Files(t)) \subseteq Listed(Files(s)) \cup {n}
  BY <1>1 DEF Listed
<1> QED
  BY <1>4, <1>5 DEF t

(* What save records is on disk when it is done.                           *)
LEMMA SaveDeletion ==
  ASSUME DeletionInv, NEW d \in Device, NEW n \in Path, NEW c \in Content, save(d, n, c)
  PROVE  LossesExplained' /\ \A e \in Device : FilesKept(e)'
<1> DEFINE before == recordCheckpoint(d, Tip(head[d]), n, tree[d][n])
           after == recordCheckpoint(d, before, n, c)
<1>1. /\ head' = [head EXCEPT ![d] = after]
      /\ snapshots' = [snapshots EXCEPT ![d] = @ \cup {Root, before, after}]
      /\ tree' = [tree EXCEPT ![d][n] = c] /\ pc[d] \notin {"merge", "rebase"}
      /\ UNCHANGED <<index, checkout, pc, round, remoteSnapshots, deleted>>
  BY DEF save, MayEdit, InExclusive, remoteVars
<1>2. n \in Name /\ Tip(head[d]) \in Snapshot /\ tree[d][n] \in Content /\ c # Absent
  BY EngineAssumption, AbsentAssumption, TipType, DeletionTypes DEF save
<1>3. LosesOnly(Tip(head[d]), deleted)
  BY RootLoses, DeletionTypes DEF DeletionInv, LossesExplained, LocalInv, StoresWhole, Tip
<1>4. /\ before \in Snapshot /\ LosesOnly(before, deleted)
      /\ Listed(Files(before)) \subseteq Listed(Files(Tip(head[d]))) \cup {n}
  BY <1>2, <1>3, RecordCheckpointFacts, CheckpointLoses
<1> HIDE DEF before
<1>5. /\ after \in Snapshot /\ LosesOnly(after, deleted)
      /\ Listed(Files(after)) \subseteq Listed(Files(before)) \cup {n}
  BY <1>2, <1>4, RecordCheckpointFacts, CheckpointLoses
<1> HIDE DEF after
<1>6. LossesExplained'
  <2>1. \A e \in Device : \A s \in snapshots'[e] : s \in snapshots[e] \/ s \in {Root, before, after}
    BY <1>1, DeletionTypes
  <2> QED
    BY <1>1, <1>4, <1>5, <2>1, RootLoses, LossesStored DEF DeletionInv
<1>7. /\ head'[d] = after /\ after # NoHead /\ tree'[d][n] = c
      /\ \A m \in Name \ {n} : tree'[d][m] = tree[d][m]
      /\ \A e \in Device \ {d} : head'[e] = head[e] /\ tree'[e] = tree[e]
  BY <1>1, <1>2, <1>5, EngineAssumption, DeletionTypes
<1>8. ASSUME NEW m \in Listed(Files(after))
      PROVE  AccountedFor(d, m)'
  <2>1. m \in Name
    BY DEF Listed
  <2>2. CASE m = n
    BY <1>2, <1>7, <2>2 DEF AccountedFor
  <2>3. CASE m # n
    BY <1>1, <1>4, <1>5, <1>7, <2>1, <2>3 DEF DeletionInv, FilesKept, AccountedFor
  <2> QED
    BY <2>2, <2>3
<1>9. ASSUME NEW e \in Device
      PROVE  FilesKept(e)'
  <2>1. CASE e = d
    BY <1>1, <1>7, <1>8, <2>1 DEF FilesKept, Tip
  <2>2. CASE e # d
    BY <1>1, <1>7, <2>2, KeptUntouched DEF DeletionInv, Tip
  <2> QED
    BY <2>1, <2>2
<1> QED
  BY <1>6, <1>9

-----------------------------------------------------------------------------
(* prepare and the fetch store nothing that loses a name.                  *)
LEMMA StartRoundDeletion ==
  ASSUME DeletionInv, NEW d \in Device, startRound(d)
  PROVE  LossesExplained' /\ \A e \in Device : FilesKept(e)'
<1>1. /\ head' = [head EXCEPT ![d] = Tip(head[d])]
      /\ snapshots' = [snapshots EXCEPT ![d] = @ \cup {Root}]
      /\ round' = [round EXCEPT ![d].syncedHead = remoteHead]
      /\ pc' = [pc EXCEPT ![d] = IF remoteHead = NoHead THEN "fetched" ELSE "fetch"]
      /\ UNCHANGED <<tree, index, checkout, remoteSnapshots, deleted>>
  BY DEF startRound, remoteVars, boundVars
<1>2. LossesExplained'
  <2>1. \A e \in Device : \A s \in snapshots'[e] : s \in snapshots[e] \/ s = Root
    BY <1>1, DeletionTypes
  <2> QED
    BY <1>1, <2>1, RootLoses, LossesStored DEF DeletionInv
<1>3. /\ pc'[d] \in {"fetch", "fetched"}
      /\ \A e \in Device \ {d} : pc'[e] = pc[e] /\ round'[e] = round[e] /\ head'[e] = head[e]
      /\ head'[d] = Tip(head[d])
  BY <1>1, DeletionTypes
<1>4. \A e \in Device : Tip(head[e])' = Tip(head[e])
  BY <1>3 DEF Tip
<1>5. ASSUME NEW e \in Device
      PROVE  FilesKept(e)'
  BY <1>1, <1>3, <1>4, KeptUntouched DEF DeletionInv
<1> QED
  BY <1>2, <1>5

(* What is fetched was in the remote's store, whose losses are explained.  *)
LEMMA FetchSnapshotDeletion ==
  ASSUME DeletionInv, NEW d \in Device, fetchSnapshot(d)
  PROVE  LossesExplained' /\ \A e \in Device : FilesKept(e)'
<1> DEFINE new == Shortest(Unfetched(d))
<1>1. /\ new \in remoteSnapshots /\ snapshots' = [snapshots EXCEPT ![d] = @ \cup {new}]
      /\ UNCHANGED <<tree, head, index, checkout, pc, round, remoteSnapshots, deleted>>
  BY DEF fetchSnapshot, remoteVars, boundVars
<1> HIDE DEF new
<1>2. \A e \in Device : \A s \in snapshots'[e] : s \in snapshots[e] \/ s = new
  BY <1>1, DeletionTypes
<1>3. LosesOnly(new, deleted)
  BY <1>1 DEF DeletionInv, LossesExplained
<1>4. LossesExplained'
  BY <1>1, <1>2, <1>3, LossesStored DEF DeletionInv
<1>5. ASSUME NEW e \in Device
      PROVE  FilesKept(e)'
  BY <1>1, KeptUntouched DEF DeletionInv
<1> QED
  BY <1>4, <1>5

(* Nor does push.                                                          *)
LEMMA PushSnapshotDeletion ==
  ASSUME DeletionInv, NEW d \in Device, pushSnapshot(d)
  PROVE  LossesExplained' /\ \A e \in Device : FilesKept(e)'
<1> DEFINE new == Shortest(Fresh(d))
<1>1. /\ Fresh(d) # {} /\ remoteSnapshots' = remoteSnapshots \cup {new}
      /\ UNCHANGED <<tree, head, snapshots, index, checkout, pc, round, deleted>>
  BY DEF pushSnapshot, deviceVars, repoVars, boundVars
<1>2. new \in snapshots[d]
  BY <1>1, FreshFacts, DeletionTypes
<1> HIDE DEF new
<1>3. LosesOnly(new, deleted)
  BY <1>2 DEF DeletionInv, LossesExplained
<1>4. LossesExplained'
  BY <1>1, <1>3, LossesStored DEF DeletionInv
<1>5. ASSUME NEW e \in Device
      PROVE  FilesKept(e)'
  BY <1>1, KeptUntouched DEF DeletionInv
<1> QED
  BY <1>4, <1>5

-----------------------------------------------------------------------------
(* Repo.snapshot drops the names whose files are gone: those a user has    *)
(* deleted, because what is left in the cloud is marked.                   *)
LEMMA NextSnapshotLoses ==
  ASSUME DeletionInv, NEW d \in Device, head[d] # NoHead
  PROVE  /\ gone(d) \subseteq deleted
         /\ LosesOnly(nextSnapshot(d), deleted)
         /\ Listed(Files(nextSnapshot(d))) \subseteq (Listed(HeadFiles(d)) \ gone(d)) \cup changed(d)
<1> DEFINE m == buildSnapshot(HeadFiles(d), tree[d], gone(d), changed(d), d)
<1>1. head[d] \in Snapshot /\ Tip(head[d]) = head[d] /\ LosesOnly(head[d], deleted)
  BY DeletionTypes DEF DeletionInv, LossesExplained, LocalInv, StoresWhole, MaybeHead, Tip
<1>2. gone(d) \subseteq deleted
  BY <1>1 DEF DeletionInv, FilesKept, AccountedFor, gone, isPending, HeadFiles
<1>3. CASE gone(d) \cup changed(d) = {}
  BY <1>1, <1>2, <1>3 DEF nextSnapshot, HeadFiles
<1>4. CASE gone(d) \cup changed(d) # {}
  <2>1. nextSnapshot(d) = Append(head[d], m)
    BY <1>4 DEF nextSnapshot
  <2>2. /\ m \in Manifest
        /\ \A n \in Name : n \in changed(d) /\ n \notin gone(d) => m[n] \in Entry
    <3>1. tree[d] \in [Name -> Content \cup {Absent}] /\ HeadFiles(d) \in Manifest
      BY <1>1, FilesType, DeletionTypes DEF HeadFiles
    <3>2. gone(d) \in SUBSET Listed(HeadFiles(d)) /\ \A n \in changed(d) : tree[d][n] # Absent
      BY DEF gone, changed, OnDisk
    <3> QED
      BY <3>1, <3>2, BuildSnapshotType, EngineAssumption
  <2>3. ASSUME NEW n \in Name
        PROVE  /\ n \in gone(d) => m[n] = Absent
               /\ n \notin gone(d) /\ n \notin changed(d) => m[n] = HeadFiles(d)[n]
    BY DEF buildSnapshot
  <2>4. \A n \in Name : n \in changed(d) /\ n \notin gone(d) => m[n] # Absent
    BY <2>2, AbsentAssumption DEF Entry
  <2>5. Listed(HeadFiles(d)) \ Listed(m) \subseteq deleted
    <3> HIDE DEF m
    <3> QED
      BY <1>2, <2>3, <2>4 DEF Listed
  <2>6. Listed(m) \subseteq (Listed(HeadFiles(d)) \ gone(d)) \cup changed(d)
    <3> HIDE DEF m
    <3> QED
      BY <2>3 DEF Listed
  <2>7. Files(nextSnapshot(d)) = m
    BY <1>1, <2>1, <2>2, ChildFiles
  <2>8. LosesOnly(nextSnapshot(d), deleted)
    BY <1>1, <2>1, <2>2, <2>5, ChildLoses DEF HeadFiles
  <2> QED
    BY <1>2, <2>6, <2>7, <2>8
<1> QED
  BY <1>3, <1>4

(* After a snapshot its files are still accounted for: a mark goes only    *)
(* when the file is on disk, and it is flushed with the others.            *)
LEMMA SnapshotDeletion ==
  ASSUME DeletionInv, NEW d \in Device, head[d] # NoHead, snapshot(d),
         UNCHANGED <<remoteSnapshots, deleted>>
  PROVE  /\ LossesExplained'
         /\ \A n \in Listed(Files(Tip(head'[d]))) : AccountedFor(d, n)'
         /\ \A e \in Device \ {d} : /\ tree'[e] = tree[e] /\ head'[e] = head[e]
                                    /\ checkout'[e] = checkout[e] /\ index'[e] = index[e]
<1> DEFINE next == nextSnapshot(d)
           after == CheckoutAfterStatus(d)
<1>1. /\ gone(d) \subseteq deleted /\ LosesOnly(next, deleted)
      /\ Listed(Files(next)) \subseteq (Listed(HeadFiles(d)) \ gone(d)) \cup changed(d)
  BY NextSnapshotLoses
<1>2. next \in Snapshot /\ next # NoHead
  BY NextSnapshotFacts, EngineAssumption, DeletionTypes DEF LocalInv
<1>3. /\ head' = [head EXCEPT ![d] = next]
      /\ snapshots' = [snapshots EXCEPT ![d] = @ \cup {next}]
      /\ checkout' = [checkout EXCEPT ![d] = after]
      /\ index' = [index EXCEPT ![d] = after]
      /\ UNCHANGED tree
  BY DEF snapshot
<1>4. after.pending = checkout[d].pending \ (Looked(d) \cap OnDisk(d))
  BY DEF CheckoutAfterStatus
<1> HIDE DEF next, after
<1>5. /\ head'[d] = next /\ checkout'[d] = after /\ index'[d] = after
      /\ \A e \in Device \ {d} : /\ head'[e] = head[e]
                                 /\ checkout'[e] = checkout[e] /\ index'[e] = index[e]
      /\ \A e \in Device : \A s \in snapshots'[e] : s \in snapshots[e] \/ s = next
  BY <1>3, DeletionTypes
<1>6. LossesExplained'
  BY <1>1, <1>5, LossesStored DEF DeletionInv, next
<1>7. ASSUME NEW n \in Listed(Files(next))
      PROVE  AccountedFor(d, n)'
  <2>1. n \in Name
    BY DEF Listed
  <2>2. CASE tree[d][n] # Absent
    BY <1>3, <2>2 DEF AccountedFor
  <2>3. CASE tree[d][n] = Absent
    <3>1. n \notin changed(d) /\ n \notin OnDisk(d)
      BY <2>3 DEF changed, OnDisk
    <3>2. n \in Listed(HeadFiles(d)) /\ n \notin gone(d)
      BY <1>1, <3>1 DEF next
    <3>3. n \in checkout[d].pending
      BY <2>1, <2>3, <3>2 DEF gone, isPending
    <3> QED
      BY <1>4, <1>5, <3>1, <3>3 DEF AccountedFor
  <2> QED
    BY <2>2, <2>3
<1> QED
  BY <1>2, <1>3, <1>5, <1>6, <1>7 DEF Tip

(* The snapshot before the merge: merge has all of the remote head's names *)
(* still to do.                                                            *)
LEMMA SnapshotLocalDeletion ==
  ASSUME DeletionInv, NEW d \in Device, snapshotLocal(d)
  PROVE  LossesExplained' /\ \A e \in Device : FilesKept(e)'
<1>1. /\ pc[d] = "fetched" /\ pc' = [pc EXCEPT ![d] = "merge"] /\ snapshot(d)
      /\ UNCHANGED <<remoteSnapshots, deleted>>
  BY DEF snapshotLocal, Goto, remoteVars, boundVars
<1>2. head[d] # NoHead
  BY <1>1, DeletionTypes DEF LocalInv, RoundStored, Underway
<1>3. /\ LossesExplained'
      /\ \A n \in Listed(Files(Tip(head'[d]))) : AccountedFor(d, n)'
      /\ \A e \in Device \ {d} : /\ tree'[e] = tree[e] /\ head'[e] = head[e]
                                 /\ checkout'[e] = checkout[e] /\ index'[e] = index[e]
  BY <1>1, <1>2, SnapshotDeletion
<1>4. /\ pc'[d] = "merge" /\ round'[d].syncedHead = round[d].syncedHead
      /\ Listed(Files(Tip(round[d].syncedHead))) \subseteq round'[d].todo
      /\ \A e \in Device \ {d} : pc'[e] = pc[e] /\ round'[e] = round[e]
  BY <1>1, DeletionTypes DEF snapshotLocal, RoundType
<1>5. ASSUME NEW e \in Device
      PROVE  FilesKept(e)'
  <2>1. CASE e = d
    BY <1>3, <1>4, <2>1 DEF FilesKept, Theirs
  <2>2. CASE e # d
    <3>1. Tip(head[e])' = Tip(head[e])
      BY <1>3, <2>2 DEF Tip
    <3> QED
      BY <1>1, <1>3, <1>4, <2>2, <3>1, KeptUntouched DEF DeletionInv
  <2> QED
    BY <2>1, <2>2
<1> QED
  BY <1>3, <1>5

(* The snapshot after the merge.                                           *)
LEMMA SnapshotMergedDeletion ==
  ASSUME DeletionInv, NEW d \in Device, snapshotMerged(d)
  PROVE  LossesExplained' /\ \A e \in Device : FilesKept(e)'
<1>1. /\ pc[d] = "rebased" /\ snapshot(d) /\ UNCHANGED <<remoteSnapshots, deleted>>
  BY DEF snapshotMerged, remoteVars, boundVars
<1>2. head[d] # NoHead
  BY <1>1, DeletionTypes DEF LocalInv, RoundStored, Underway
<1>3. /\ LossesExplained'
      /\ \A n \in Listed(Files(Tip(head'[d]))) : AccountedFor(d, n)'
      /\ \A e \in Device \ {d} : /\ tree'[e] = tree[e] /\ head'[e] = head[e]
                                 /\ checkout'[e] = checkout[e] /\ index'[e] = index[e]
  BY <1>1, <1>2, SnapshotDeletion
<1>4. /\ pc'[d] \in {"push", "anchor"}
      /\ \A e \in Device \ {d} : pc'[e] = pc[e] /\ round'[e] = round[e]
  BY <1>1, DeletionTypes DEF snapshotMerged
<1>5. ASSUME NEW e \in Device
      PROVE  FilesKept(e)'
  <2>1. CASE e = d
    BY <1>3, <1>4, <2>1 DEF FilesKept
  <2>2. CASE e # d
    <3>1. Tip(head[e])' = Tip(head[e])
      BY <1>3, <2>2 DEF Tip
    <3> QED
      BY <1>1, <1>3, <1>4, <2>2, <3>1, KeptUntouched DEF DeletionInv
  <2> QED
    BY <2>1, <2>2
<1> QED
  BY <1>3, <1>5

-----------------------------------------------------------------------------
(* A name one side has dropped and the other has left alone was deleted by *)
(* a user: the base that lists it is below both sides.                     *)
LEMMA DroppedIsDeleted ==
  ASSUME DeletionInv, NEW d \in Device, NEW n \in Name, pc[d] = "merge",
         \/ LocalOnly(d, n) /\ LocalUntouched(d, n)
         \/ RemoteOnly(d, n) /\ RemoteUntouched(d, n)
  PROVE  n \in deleted
<1> DEFINE remote == Tip(round[d].syncedHead)
<1>1. /\ Base(d) \in Snapshot /\ IsPrefix(Base(d), head[d]) /\ IsPrefix(Base(d), remote)
      /\ head[d] \in Snapshot /\ round[d].local = head[d] /\ remote \in Snapshot
  BY BaseFacts, RoundFields, DeletionTypes DEF LocalInv
<1>2. LosesOnly(head[d], deleted) /\ LosesOnly(remote, deleted)
  BY DeletionTypes
     DEF DeletionInv, LossesExplained, LocalInv, StoresWhole, RoundStored, Underway, HasFetched
<1>3. n \in Listed(Files(Base(d)))
  <2>1. HashOf(baseFile(d, n)) # Absent
    BY EntryTypes, DeletionTypes, AbsentAssumption
       DEF LocalOnly, RemoteOnly, LocalUntouched, RemoteUntouched, sameEntry, Exists, HashOf
  <2> QED
    BY <2>1 DEF baseFile, HashOf, Listed
<1>4. n \notin Listed(Files(head[d])) \/ n \notin Listed(Files(remote))
  BY <1>1 DEF LocalOnly, RemoteOnly, Exists, localFile, remoteFile, Listed
<1> QED
  BY <1>1, <1>2, <1>3, <1>4, LosesOnlyAt

(* What a branch of merge must not do, and what it must do for its name.   *)
LEMMA MergingKept ==
  ASSUME DeletionInv, NEW d \in Device, NEW n \in Name, Merging(d, n),
         \A e \in Device \ {d} : tree'[e] = tree[e] /\ checkout'[e] = checkout[e],
         \A m \in Name : tree'[d][m] = Absent => tree[d][m] = Absent \/ m \in deleted,
         \A m \in checkout[d].pending :
           m \in checkout'[d].pending \/ tree'[d][m] # Absent \/ m \in deleted,
         n \in Theirs(d) =>
           tree'[d][n] # Absent \/ n \in deleted \/ n \in checkout'[d].pending
  PROVE  LossesExplained' /\ \A e \in Device : FilesKept(e)'
<1>1. /\ pc[d] = "merge" /\ round' = [round EXCEPT ![d].todo = @ \ {n}]
      /\ UNCHANGED <<head, snapshots, index, pc, remoteSnapshots, deleted>>
  BY DEF Merging, remoteVars, boundVars
<1>2. /\ round'[d].todo = round[d].todo \ {n} /\ round'[d].syncedHead = round[d].syncedHead
      /\ \A e \in Device \ {d} : round'[e] = round[e]
  BY <1>1, DeletionTypes DEF RoundType
<1>3. LossesExplained'
  BY <1>1, LossesStored DEF DeletionInv
<1>4. \A m \in Name : AccountedFor(d, m) => AccountedFor(d, m)'
  BY <1>1 DEF AccountedFor
<1>5. \A m \in Listed(Files(Tip(head[d]))) : AccountedFor(d, m)'
  BY <1>4 DEF DeletionInv, FilesKept, Listed
<1>6. \A m \in Theirs(d) \ round'[d].todo :
        tree'[d][m] # Absent \/ m \in deleted \/ m \in checkout'[d].pending
  BY <1>1, <1>2 DEF DeletionInv, FilesKept, Theirs, Listed
<1>7. Theirs(d)' = Theirs(d)
  BY <1>2 DEF Theirs
<1>8. ASSUME NEW e \in Device
      PROVE  FilesKept(e)'
  <2>1. CASE e = d
    BY <1>1, <1>5, <1>6, <1>7, <2>1 DEF FilesKept, Tip
  <2>2. CASE e # d
    BY <1>1, <1>2, <2>2, KeptUntouched DEF DeletionInv, Tip
  <2> QED
    BY <2>1, <2>2
<1> QED
  BY <1>3, <1>8

(* A file that is written is on disk, and no other file is touched.        *)
LEMMA PutFileKeeps ==
  ASSUME DeletionInv, NEW d \in Device, NEW n \in Name, NEW c \in Content, PutFile(d, n, c)
  PROVE  /\ \A e \in Device \ {d} : tree'[e] = tree[e] /\ checkout'[e] = checkout[e]
         /\ \A m \in Name : tree'[d][m] = Absent => tree[d][m] = Absent
         /\ \A m \in checkout[d].pending : m \in checkout'[d].pending \/ m = n
         /\ tree'[d][n] # Absent
<1>1. c # Absent
  BY AbsentAssumption
<1>2. tree' = [tree EXCEPT ![d][n] = c]
  BY DEF PutFile
<1>3. checkout' = [checkout EXCEPT ![d].known = @ \cup {n}, ![d].pending = @ \ {n}]
  BY DEF PutFile
<1>4. /\ \A e \in Device \ {d} : tree'[e] = tree[e]
      /\ \A m \in Name : tree'[d][m] = Absent => tree[d][m] = Absent
      /\ tree'[d][n] # Absent
  BY <1>1, <1>2, DeletionTypes
<1>5. /\ \A e \in Device \ {d} : checkout'[e] = checkout[e]
      /\ checkout'[d].pending = checkout[d].pending \ {n}
  BY <1>3, DeletionTypes DEF Checkout
<1> QED
  BY <1>4, <1>5

(* A file that is taken is on disk or marked.                              *)
LEMMA TakeKeeps ==
  ASSUME DeletionInv, NEW d \in Device, NEW n \in Name, NEW entry, entry.hash \in Content,
         take(d, n, entry)
  PROVE  /\ \A e \in Device \ {d} : tree'[e] = tree[e] /\ checkout'[e] = checkout[e]
         /\ \A m \in Name : tree'[d][m] = Absent => tree[d][m] = Absent
         /\ \A m \in checkout[d].pending : m \in checkout'[d].pending \/ tree'[d][m] # Absent
         /\ tree'[d][n] # Absent \/ n \in checkout'[d].pending
<1>1. CASE hasChunks(d, entry)
  BY <1>1, PutFileKeeps DEF take
<1>2. CASE ~ hasChunks(d, entry)
  <2>1. UNCHANGED tree
    BY <1>2 DEF take, markPending
  <2>2. /\ \A e \in Device \ {d} : checkout'[e] = checkout[e]
        /\ checkout'[d].pending = checkout[d].pending \cup {n}
    BY <1>2, DeletionTypes DEF take, markPending, Checkout
  <2> QED
    BY <2>1, <2>2
<1> QED
  BY <1>1, <1>2

(* A name that is listed here is on disk, deleted by a user, or marked.    *)
LEMMA ListedHere ==
  ASSUME DeletionInv, NEW d \in Device, NEW n \in Name, pc[d] = "merge", Exists(localFile(d, n))
  PROVE  tree[d][n] # Absent \/ n \in deleted \/ n \in checkout[d].pending
<1>1. head[d] # NoHead /\ round[d].local = head[d]
  BY DeletionTypes DEF LocalInv, RoundStored, Underway
<1>2. n \in Listed(Files(Tip(head[d])))
  BY <1>1 DEF Tip, Exists, localFile, Listed
<1> QED
  BY <1>2 DEF DeletionInv, FilesKept, AccountedFor

(* Merge drops only names a user has deleted.                              *)
LEMMA MergeDeleteDeletion ==
  ASSUME DeletionInv, NEW d \in Device, NEW n \in Name, mergeDelete(d, n)
  PROVE  LossesExplained' /\ \A e \in Device : FilesKept(e)'
<1>1. Merging(d, n) /\ pc[d] = "merge"
  BY DEF mergeDelete, Merging
<1>2. n \in deleted
  BY <1>1, DroppedIsDeleted DEF mergeDelete
<1>3. /\ \A e \in Device \ {d} : tree'[e] = tree[e]
      /\ \A m \in Name : tree'[d][m] = Absent => tree[d][m] = Absent \/ m = n
  BY DeletionTypes DEF mergeDelete
<1>4. /\ \A e \in Device \ {d} : checkout'[e] = checkout[e]
      /\ checkout'[d].pending = checkout[d].pending \ {n}
  BY DeletionTypes DEF mergeDelete, Checkout
<1> QED
  BY <1>1, <1>2, <1>3, <1>4, MergingKept

(* A name that is taken is written, or marked when its chunks are missing. *)
LEMMA MergeTakeDeletion ==
  ASSUME DeletionInv, NEW d \in Device, NEW n \in Name, mergeCreated(d, n) \/ mergeTake(d, n)
  PROVE  LossesExplained' /\ \A e \in Device : FilesKept(e)'
<1>1. Merging(d, n)
  BY DEF mergeCreated, mergeTake
<1>2. PICK entry \in {localFile(d, n), remoteFile(d, n)} : Exists(entry) /\ take(d, n, entry)
  BY DEF mergeCreated, mergeTake, LocalOnly, RemoteOnly, OnBoth
<1>3. entry.hash \in Content
  BY <1>2, EntryTypes, DeletionTypes
<1>4. /\ \A e \in Device \ {d} : tree'[e] = tree[e] /\ checkout'[e] = checkout[e]
      /\ \A m \in Name : tree'[d][m] = Absent => tree[d][m] = Absent
      /\ \A m \in checkout[d].pending : m \in checkout'[d].pending \/ tree'[d][m] # Absent
      /\ tree'[d][n] # Absent \/ n \in checkout'[d].pending
  BY <1>2, <1>3, TakeKeeps
<1> QED
  BY <1>1, <1>4, MergingKept

(* A name that is kept is listed here.                                     *)
LEMMA MergeKeepDeletion ==
  ASSUME DeletionInv, NEW d \in Device, NEW n \in Name, mergeKeep(d, n)
  PROVE  LossesExplained' /\ \A e \in Device : FilesKept(e)'
<1>1. Merging(d, n) /\ pc[d] = "merge" /\ UNCHANGED <<tree, checkout>>
  BY DEF mergeKeep, Merging
<1>2. tree[d][n] # Absent \/ n \in deleted \/ n \in checkout[d].pending
  BY <1>1, ListedHere DEF mergeKeep, LocalOnly, OnBoth
<1> QED
  BY <1>1, <1>2, MergingKept

(* So is one in conflict; the copy adds a file.                            *)
LEMMA MergeConflictDeletion ==
  ASSUME DeletionInv, NEW d \in Device, NEW n \in Name,
         tryContentMerge(d, n) \/ writeConflictFile(d, n)
  PROVE  LossesExplained' /\ \A e \in Device : FilesKept(e)'
<1>1. Merging(d, n) /\ Conflict(d, n) /\ pc[d] = "merge"
  BY DEF tryContentMerge, writeConflictFile, Merging
<1>2. tree[d][n] # Absent \/ n \in deleted \/ n \in checkout[d].pending
  BY <1>1, ListedHere DEF Conflict, OnBoth
<1>3. remoteFile(d, n).hash \in Content
  BY <1>1, EntryTypes, DeletionTypes DEF Conflict, OnBoth
<1>4. \/ UNCHANGED tree /\ \E k \in Name : checkout' = [checkout EXCEPT ![d].known = @ \cup {k}]
      \/ \E k \in Name : \E c \in Content : PutFile(d, k, c)
  <2>1. CASE tryContentMerge(d, n)
    BY <2>1 DEF tryContentMerge
  <2>2. CASE writeConflictFile(d, n)
    <3>1. copyOf[n, remoteFile(d, n).hash] \in Name
      BY <1>3, EngineAssumption
    <3> QED
      BY <1>3, <2>2, <3>1 DEF writeConflictFile
  <2> QED
    BY <2>1, <2>2
<1>5. CASE UNCHANGED tree /\ \E k \in Name : checkout' = [checkout EXCEPT ![d].known = @ \cup {k}]
  <2>1. /\ \A e \in Device \ {d} : checkout'[e] = checkout[e]
        /\ checkout'[d].pending = checkout[d].pending
    BY <1>5, DeletionTypes DEF Checkout
  <2> QED
    BY <1>1, <1>2, <1>5, <2>1, MergingKept
<1>6. ASSUME NEW k \in Name, NEW c \in Content, PutFile(d, k, c)
      PROVE  LossesExplained' /\ \A e \in Device : FilesKept(e)'
  <2>1. /\ \A e \in Device \ {d} : tree'[e] = tree[e] /\ checkout'[e] = checkout[e]
        /\ \A m \in Name : tree'[d][m] = Absent => tree[d][m] = Absent
        /\ \A m \in checkout[d].pending : m \in checkout'[d].pending \/ m = k
        /\ tree'[d][k] # Absent
    BY <1>6, PutFileKeeps
  <2> QED
    BY <1>1, <1>2, <2>1, MergingKept
<1> QED
  BY <1>4, <1>5, <1>6

(* Merge as a whole.                                                       *)
LEMMA MergeStepDeletion ==
  ASSUME DeletionInv, NEW d \in Device, MergeStep(d)
  PROVE  LossesExplained' /\ \A e \in Device : FilesKept(e)'
<1>1. ASSUME NEW n \in Name, mergeThrows(d, n)
      PROVE  LossesExplained' /\ \A e \in Device : FilesKept(e)'
  BY <1>1, DeletionEndRound DEF mergeThrows, repoVars, remoteVars, boundVars
<1> QED
  BY <1>1, MergeDeleteDeletion, MergeTakeDeletion, MergeKeepDeletion, MergeConflictDeletion
     DEF MergeStep

-----------------------------------------------------------------------------
(* Merge flushes the marks it has made before the head moves.              *)
LEMMA MergeDoneDeletion ==
  ASSUME DeletionInv, NEW d \in Device, mergeDone(d)
  PROVE  LossesExplained' /\ \A e \in Device : FilesKept(e)'
<1>1. /\ pc[d] = "merge" /\ pc' = [pc EXCEPT ![d] = "rebase"] /\ round[d].todo = {}
      /\ index' = [index EXCEPT ![d] = checkout[d]]
      /\ UNCHANGED <<tree, head, snapshots, checkout, round, remoteSnapshots, deleted>>
  BY DEF mergeDone, Goto, remoteVars, boundVars
<1>2. /\ index'[d] = checkout[d] /\ pc'[d] = "rebase"
      /\ \A e \in Device \ {d} : index'[e] = index[e] /\ pc'[e] = pc[e]
  BY <1>1, DeletionTypes
<1>3. LossesExplained'
  BY <1>1, LossesStored DEF DeletionInv
<1>4. ASSUME NEW e \in Device
      PROVE  FilesKept(e)'
  <2>1. CASE e = d
    <3>1. \A n : tree[d][n] # Absent \/ n \in deleted \/ n \in checkout[d].pending
                  => AccountedFor(d, n)'
      BY <1>1, <1>2 DEF AccountedFor
    <3>2. FilesKept(d)
      BY DEF DeletionInv
    <3> QED
      BY <1>1, <1>2, <2>1, <3>1, <3>2 DEF FilesKept, AccountedFor, Theirs, Tip
  <2>2. CASE e # d
    BY <1>1, <1>2, <2>2, KeptUntouched DEF DeletionInv, Tip
  <2> QED
    BY <2>1, <2>2
<1> QED
  BY <1>3, <1>4

(* The rebased head lists nothing that neither side lists.                 *)
LEMMA RebaseDeletion ==
  ASSUME DeletionInv, NEW d \in Device, rebase(d)
  PROVE  LossesExplained' /\ \A e \in Device : FilesKept(e)'
<1> DEFINE remote == Tip(round[d].syncedHead)
           top == rebased(d)
<1>1. /\ pc[d] = "rebase" /\ pc' = [pc EXCEPT ![d] = "rebased"]
      /\ head' = [head EXCEPT ![d] = top]
      /\ snapshots' = [snapshots EXCEPT ![d] = @ \cup {s \in Prefixes(top) : Len(s) > Len(remote)}]
      /\ UNCHANGED <<tree, checkout, index, round, remoteSnapshots, deleted>>
  BY DEF rebase, Goto, remoteVars, boundVars
<1>2. /\ Base(d) \in Snapshot /\ IsPrefix(Base(d), head[d])
      /\ head[d] \in Snapshot /\ round[d].local = head[d] /\ remote \in Snapshot
  BY <1>1, BaseFacts, RoundFields, DeletionTypes DEF LocalInv
<1>3. top = head[d] \/ top = replay(head[d], remote, Base(d))
  BY <1>2 DEF rebased
<1>4. top \in Snapshot /\ top # NoHead
  BY <1>1, RebasedFacts, EngineAssumption, DeletionTypes
<1> HIDE DEF top
<1>5. /\ LosesOnly(remote, deleted)
      /\ \A q \in Snapshot : IsPrefix(q, head[d]) => LosesOnly(q, deleted)
  <2>1. remote \in snapshots[d] /\ head[d] \in snapshots[d]
    BY <1>1, <1>2, EngineAssumption, DeletionTypes
       DEF LocalInv, StoresWhole, RoundStored, HasFetched
  <2>2. \A q \in Snapshot : IsPrefix(q, head[d]) => q \in snapshots[d]
    BY <1>2, <2>1, PrefixesAre, DeletionTypes DEF LocalInv, StoresWhole, Whole
  <2> QED
    BY <2>1, <2>2 DEF DeletionInv, LossesExplained
<1> HIDE DEF remote
<1>6. ASSUME NEW s \in Prefixes(top), Len(s) > Len(remote)
      PROVE  LosesOnly(s, deleted)
  <2>1. s \in Snapshot /\ IsPrefix(s, top)
    BY <1>4, PrefixesAre
  <2> QED
    BY <1>2, <1>3, <1>5, <1>6, <2>1, ReplayLoses
<1>7. LossesExplained'
  <2>1. \A e \in Device : \A s \in snapshots'[e] :
          s \in snapshots[e] \/ (s \in Prefixes(top) /\ Len(s) > Len(remote))
    BY <1>1, DeletionTypes
  <2> QED
    BY <1>1, <1>6, <2>1, LossesStored DEF DeletionInv
<1>8. ASSUME NEW n \in Listed(Files(top))
      PROVE  AccountedFor(d, n)
  <2>1. n \in Name
    BY DEF Listed
  <2>2. HashOf(Files(top)[n]) \in {HashOf(Files(head[d])[n]), HashOf(Files(remote)[n])}
    BY <1>2, <1>3, <2>1, ReplayLast
  <2>3. n \in Listed(Files(head[d])) \/ n \in Listed(Files(remote))
    BY <1>2, <1>4, <2>1, <2>2, ListedHash
  <2>4. Tip(head[d]) = head[d]
    BY <1>2, EngineAssumption DEF Tip
  <2> QED
    BY <1>1, <2>3, <2>4 DEF DeletionInv, FilesKept, Theirs, remote
<1>9. /\ head'[d] = top /\ pc'[d] = "rebased"
      /\ \A e \in Device \ {d} : head'[e] = head[e] /\ pc'[e] = pc[e]
  BY <1>1, DeletionTypes
<1>10. ASSUME NEW e \in Device
       PROVE  FilesKept(e)'
  <2>1. CASE e = d
    BY <1>1, <1>4, <1>8, <1>9, <2>1 DEF FilesKept, AccountedFor, Tip
  <2>2. CASE e # d
    BY <1>1, <1>9, <2>2, KeptUntouched DEF DeletionInv, Tip
  <2> QED
    BY <2>1, <2>2
<1> QED
  BY <1>7, <1>10

-----------------------------------------------------------------------------
(* Opening a file that was left in the cloud puts it on disk.              *)
LEMMA MaterializeDeletion ==
  ASSUME DeletionInv, NEW d \in Device, NEW n \in Name, materialize(d, n)
  PROVE  LossesExplained' /\ \A e \in Device : FilesKept(e)'
<1>1. /\ pc[d] \in {"idle", "retry"}
      /\ HeadFiles(d)[n].hash \in chunks[d] \cup remoteChunks
      /\ PutFile(d, n, HeadFiles(d)[n].hash)
      /\ index' = [index EXCEPT ![d] = checkout'[d]]
      /\ UNCHANGED <<head, snapshots, pc, round, remoteSnapshots, deleted>>
  BY DEF materialize, remoteVars, boundVars
<1>2. HeadFiles(d)[n].hash \in Content
  BY <1>1, DeletionTypes DEF LocalInv, TypeOK, DiskTypeOK, RemoteTypeOK
<1>3. /\ \A e \in Device \ {d} : tree'[e] = tree[e] /\ checkout'[e] = checkout[e]
      /\ \A m \in Name : tree'[d][m] = Absent => tree[d][m] = Absent
      /\ \A m \in checkout[d].pending : m \in checkout'[d].pending \/ m = n
      /\ tree'[d][n] # Absent
  BY <1>1, <1>2, PutFileKeeps
<1>4. index'[d] = checkout'[d] /\ \A e \in Device \ {d} : index'[e] = index[e]
  BY <1>1, DeletionTypes
<1>5. LossesExplained'
  BY <1>1, LossesStored DEF DeletionInv
<1>6. ASSUME NEW e \in Device
      PROVE  FilesKept(e)'
  <2>1. CASE e = d
    <3>1. \A m \in Name : AccountedFor(d, m) => AccountedFor(d, m)'
      BY <1>1, <1>3, <1>4 DEF AccountedFor
    <3> QED
      BY <1>1, <2>1, <3>1 DEF DeletionInv, FilesKept, Listed, Tip
  <2>2. CASE e # d
    BY <1>1, <1>3, <1>4, <2>2, KeptUntouched DEF DeletionInv, Tip
  <2> QED
    BY <2>1, <2>2
<1> QED
  BY <1>5, <1>6

(* A crash forgets the marks that were not flushed; the files of the head  *)
(* do not depend on those.                                                 *)
LEMMA CrashDeletion ==
  ASSUME DeletionInv, NEW d \in Device, crash(d)
  PROVE  LossesExplained' /\ \A e \in Device : FilesKept(e)'
<1>1. /\ checkout' = [checkout EXCEPT ![d] = index[d]] /\ EndRound(d)
      /\ UNCHANGED <<tree, head, snapshots, index, remoteSnapshots, deleted>>
  BY DEF crash, remoteVars
<1>2. /\ checkout'[d] = index[d] /\ pc'[d] = "idle"
      /\ \A e \in Device \ {d} :
           checkout'[e] = checkout[e] /\ pc'[e] = pc[e] /\ round'[e] = round[e]
  BY <1>1, DeletionTypes DEF EndRound
<1>3. LossesExplained'
  BY <1>1, LossesStored DEF DeletionInv
<1>4. ASSUME NEW e \in Device
      PROVE  FilesKept(e)'
  <2>1. CASE e = d
    <3>1. \A m : AccountedFor(d, m) => AccountedFor(d, m)'
      BY <1>1, <1>2 DEF AccountedFor
    <3> QED
      BY <1>1, <1>2, <2>1, <3>1 DEF DeletionInv, FilesKept, Tip
  <2>2. CASE e # d
    BY <1>1, <1>2, <2>2, KeptUntouched DEF DeletionInv, Tip
  <2> QED
    BY <2>1, <2>2
<1> QED
  BY <1>3, <1>4

(* Any step of a round.                                                    *)
LEMMA RoundDeletion ==
  ASSUME DeletionInv, NEW d \in Device, Round(d)
  PROVE  LossesExplained' /\ \A e \in Device : FilesKept(e)'
<1>1. CASE refuseRemote(d)
  BY <1>1, DeletionEndRound DEF refuseRemote, repoVars, remoteVars, boundVars
<1>2. CASE fetchChunk(d)
  BY <1>2, DeletionUntouched DEF fetchChunk, remoteVars, boundVars
<1>3. CASE pushChunk(d)
  BY <1>3, DeletionUntouched DEF pushChunk, deviceVars, repoVars, boundVars
<1>4. CASE fetched(d)
  <2>1. \A e \in Device : pc'[e] \in {"merge", "rebase"} => pc'[e] = pc[e]
    BY <1>4, DeletionTypes DEF fetched, Goto
  <2> QED
    BY <1>4, <2>1, DeletionUntouched DEF fetched, repoVars, remoteVars, boundVars
<1>5. CASE setHead(d)
  <2>1. \A e \in Device : pc'[e] \in {"merge", "rebase"} => pc'[e] = pc[e]
    BY <1>5, DeletionTypes DEF setHead
  <2> QED
    BY <1>5, <2>1, DeletionUntouched DEF setHead, repoVars, boundVars
<1>6. CASE syncHeadMoved(d)
  <2>1. /\ pc'[d] \notin {"merge", "rebase"}
        /\ \A e \in Device \ {d} : pc'[e] = pc[e] /\ round'[e] = round[e]
    BY <1>6, DeletionTypes DEF syncHeadMoved, EndRound
  <2> QED
    BY <1>6, <2>1, DeletionUntouched DEF syncHeadMoved, repoVars, remoteVars, boundVars
<1>7. CASE writeAnchor(d)
  BY <1>7, DeletionEndRound DEF writeAnchor, repoVars, remoteVars, boundVars
<1> QED
  BY <1>1, <1>2, <1>3, <1>4, <1>5, <1>6, <1>7, StartRoundDeletion, FetchSnapshotDeletion,
     SnapshotLocalDeletion, MergeStepDeletion, MergeDoneDeletion, RebaseDeletion,
     SnapshotMergedDeletion, PushSnapshotDeletion
     DEF Round

(* Every step keeps the invariant.                                         *)
LEMMA DeletionInvStep ==
  ASSUME DeletionInv, [Next]_vars
  PROVE  DeletionInv'
<1>1. RemoteInv'
  BY RemoteInvStep DEF DeletionInv
<1>2. CASE rollBack
  BY <1>1, <1>2, DeletionUntouched DEF DeletionInv, rollBack, deviceVars, repoVars
<1>3. ASSUME NEW d \in Device, User(d) \/ Round(d) \/ Open(d) \/ Failure(d)
      PROVE  LossesExplained' /\ \A e \in Device : FilesKept(e)'
  <2>1. CASE User(d)
    BY <2>1, WriteDeletion, SaveDeletion, DeleteDeletion DEF User
  <2>2. CASE Open(d)
    BY <2>2, MaterializeDeletion DEF Open
  <2>3. CASE requestFails(d)
    BY <2>3, DeletionEndRound DEF requestFails, repoVars, remoteVars
  <2>4. CASE answerLost(d)
    BY <2>4, DeletionEndRound DEF answerLost, repoVars
  <2> QED
    BY <1>3, <2>1, <2>2, <2>3, <2>4, RoundDeletion, CrashDeletion DEF Failure
<1>4. CASE UNCHANGED vars
  BY <1>1, <1>4, DeletionUntouched
     DEF DeletionInv, vars, deviceVars, repoVars, remoteVars, boundVars
<1> QED
  BY <1>1, <1>2, <1>3, <1>4 DEF DeletionInv, Next

(* DeletionInv holds in every reachable state.                             *)
THEOREM DeletionInvariant == Spec => []DeletionInv
<1>1. Init => LossesExplained /\ \A d \in Device : FilesKept(d)
  <2> SUFFICES ASSUME Init
               PROVE  LossesExplained /\ \A d \in Device : FilesKept(d)
    OBVIOUS
  <2>1. Listed(Files(Root)) = {}
    BY DEF Listed, Files, NoFiles
  <2>2. \A d \in Device : Tip(head[d]) = Root /\ pc[d] = "idle" /\ snapshots[d] = {}
    BY DEF Init, Tip
  <2> QED
    BY <2>1, <2>2 DEF Init, LossesExplained, FilesKept
<1>2. DeletionInv /\ [Next]_vars => DeletionInv'
  BY DeletionInvStep
<1>3. RemoteInv /\ LossesExplained /\ (\A d \in Device : FilesKept(d)) => DeletionInv
  BY DEF DeletionInv
<1> QED
  BY <1>1, <1>2, <1>3, RemoteInvariant, PTL DEF Spec

(* OnlyUsersDelete: whatever was interrupted, declined or rolled back, a   *)
(* name the published vault has lost was deleted by a user.                *)
THEOREM OnlyUsersRemove == Spec => []OnlyUsersDelete
<1>1. DeletionInv => OnlyUsersDelete
  <2> SUFFICES ASSUME DeletionInv
               PROVE  LosesOnly(Tip(remoteHead), deleted)
    BY DEF OnlyUsersDelete, LosesOnly
  <2> QED
    BY RootLoses DEF DeletionInv, LossesExplained, RemoteInv, RemoteStored, Tip
<1> QED
  BY <1>1, DeletionInvariant, PTL

-----------------------------------------------------------------------------
(***************************************************************************)
(* The merge.  Where devices take every file, and users leave conflict     *)
(* copies alone, what a round publishes is the three-way merge.            *)
(***************************************************************************)
EverythingWanted == \A d \in Device : Declines[d] = {}

CopyName(n, c) == copyOf[n, c]

(* A copy has a name users do not give, which tells its content: the name  *)
(* writeConflictFile makes is of the hash of what it writes.               *)
CopiesApart ==
  \A n, m \in Path, c, e \in Content :
    CopyName(n, c) \notin Path /\ (CopyName(n, c) = CopyName(m, e) => c = e)

(* A file is a user's, or a copy that has the content it is named after.   *)
Fits(n, c) == n \in Path \/ \E m \in Path : n = CopyName(m, c)
FilesFit(s) == \A n \in Listed(Files(s)) : Fits(n, Files(s)[n].hash)

NamesFit ==
  /\ \A d \in Device : \A n \in Name : tree[d][n] # Absent => Fits(n, tree[d][n])
  /\ \A s \in remoteSnapshots : FilesFit(s)
  /\ \A d \in Device : \A s \in snapshots[d] : FilesFit(s)

InMerge(d) == pc[d] \in {"merge", "rebase", "rebased"}
Published(d) == pc[d] \in {"push", "anchor"}

(* Both sides of the merge are stored, and nothing is left in the cloud.   *)
SidesStored(d) == InMerge(d) \/ Published(d) => round[d].local \in snapshots[d]
Cloudless(d) == checkout[d].pending = {} /\ index[d].pending = {}
AtHand(d) ==
  /\ ChunksOf(Tip(head[d])) \subseteq chunks[d]
  /\ InMerge(d) \/ pc[d] = "fetched" => ChunksOf(Tip(round[d].syncedHead)) \subseteq chunks[d]

(* What is on disk the head says, or the journal names it.                 *)
Journaled(d) ==
  \A n \in Name : tree[d][n] # Absent /\ n \notin changes[d]
                    => tree[d][n] = HashOf(Files(Tip(head[d]))[n])

Promised(d, n) ==
  ThreeWay(HashOf(baseFile(d, n)), HashOf(localFile(d, n)), HashOf(remoteFile(d, n)))

CopyOf(d, n) == CopyName(n, remoteFile(d, n).hash)
CopyThere(d, n) == tree[d][CopyOf(d, n)] = remoteFile(d, n).hash

(* The names still to do are as in the local snapshot, the others are       *)
(* merged, with their copies.                                              *)
MergedSoFar(d) ==
  InMerge(d) =>
    /\ pc[d] # "merge" => round[d].todo = {}
    /\ \A n \in Path : n \in round[d].todo => tree[d][n] = HashOf(localFile(d, n))
    /\ \A n \in Path \ Mergeable : n \notin round[d].todo =>
         tree[d][n] = Promised(d, n) /\ (Conflict(d, n) => CopyThere(d, n))

(* A file merge has left as it was had been edited here, so that replay    *)
(* keeps it too.                                                           *)
EditsStay(d) ==
  pc[d] \in {"merge", "rebase"} =>
    \A n \in Name \ round[d].todo :
      tree[d][n] # Absent /\ n \notin changes[d] => ~ LocalUntouched(d, n)

AsPromised(d) ==
  Published(d) =>
    \A n \in Path \ Mergeable :
      /\ MergedName(d, n) = Promised(d, n)
      /\ Conflict(d, n) =>
           MergedName(d, CopyOf(d, n)) = remoteFile(d, n).hash

DeviceMerge(d) ==
  /\ SidesStored(d) /\ Cloudless(d) /\ AtHand(d) /\ Journaled(d)
  /\ MergedSoFar(d) /\ EditsStay(d) /\ AsPromised(d)

MergeInv == DeletionInv /\ NamesFit /\ \A d \in Device : DeviceMerge(d)

-----------------------------------------------------------------------------
(* The types, from the invariant.                                          *)
LEMMA MergeTypes ==
  ASSUME MergeInv
  PROVE  /\ DeletionInv /\ LocalInv /\ TypeOK
         /\ tree \in [Device -> [Name -> Content \cup {Absent}]]
         /\ head \in [Device -> MaybeHead] /\ snapshots \in [Device -> SUBSET Snapshot]
         /\ chunks \in [Device -> SUBSET Content] /\ changes \in [Device -> SUBSET Name]
         /\ checkout \in [Device -> Checkout] /\ index \in [Device -> Checkout]
         /\ pc \in [Device -> PcType] /\ round \in [Device -> RoundType]
         /\ remoteSnapshots \in SUBSET Snapshot /\ deleted \in SUBSET Path
BY DEF MergeInv, DeletionInv, RemoteInv, HistoryInv, LocalInv, TypeOK, DiskTypeOK, MemoryTypeOK,
       RemoteTypeOK, BoundTypeOK

(* A copy's name is a name.                                                *)
LEMMA CopyNamed ==
  ASSUME NEW n \in Name, NEW c \in Content
  PROVE  CopyName(n, c) \in Name
BY EngineAssumption, Zenon DEF CopyName

(* The base of a merge depends on its two sides alone.                     *)
LEMMA BaseStays ==
  ASSUME MergeInv, NEW d \in Device, InMerge(d) \/ Published(d),
         snapshots[d] \subseteq snapshots'[d],
         round'[d].local = round[d].local, round'[d].syncedHead = round[d].syncedHead
  PROVE  \A n : /\ localFile(d, n)' = localFile(d, n)
                /\ remoteFile(d, n)' = remoteFile(d, n)
                /\ baseFile(d, n)' = baseFile(d, n)
                /\ Promised(d, n)' = Promised(d, n)
                /\ Conflict(d, n)' = Conflict(d, n)
                /\ LocalUntouched(d, n)' = LocalUntouched(d, n)
<1> DEFINE local == round[d].local
           remote == Tip(round[d].syncedHead)
<1>1. local \in Snapshot /\ remote \in Snapshot
  BY RoundFields, MergeTypes
<1>2. local \in snapshots[d] /\ remote \in snapshots[d]
  BY MergeTypes
     DEF MergeInv, DeviceMerge, SidesStored, LocalInv, RoundStored, HasFetched, InMerge, Published
<1>3. Prefixes(local) \subseteq snapshots[d] /\ Prefixes(remote) \subseteq snapshots[d]
  BY <1>2, MergeTypes DEF LocalInv, StoresWhole, Whole
<1>4. Base(d)' = findBaseSnapshot(snapshots'[d], local, remote)
  BY DEF Base
<1>5. Base(d) = findBaseSnapshot(snapshots[d], local, remote)
  BY DEF Base
<1> HIDE DEF local, remote
<1>6. /\ ancestry(snapshots[d], local) = Prefixes(local)
      /\ ancestry(snapshots[d], remote) = Prefixes(remote)
      /\ ancestry(snapshots'[d], local) = Prefixes(local)
      /\ ancestry(snapshots'[d], remote) = Prefixes(remote)
  BY <1>1, <1>3, AncestryComplete
<1>7. Base(d)' = Base(d)
  BY <1>4, <1>5, <1>6 DEF findBaseSnapshot
<1>8. \A n : /\ localFile(d, n)' = localFile(d, n)
             /\ remoteFile(d, n)' = remoteFile(d, n)
             /\ baseFile(d, n)' = baseFile(d, n)
  BY <1>7 DEF localFile, remoteFile, baseFile
<1> QED
  BY <1>8 DEF Promised, Conflict, OnBoth, LocalUntouched

(* A device whose files, journal and merge a step leaves alone keeps what  *)
(* has been said of it.                                                    *)
LEMMA MergeUntouched ==
  ASSUME MergeInv, NEW d \in Device,
         tree'[d] = tree[d], Tip(head[d])' = Tip(head[d]), changes'[d] = changes[d],
         checkout'[d].pending = {}, index'[d].pending = {},
         chunks[d] \subseteq chunks'[d], snapshots[d] \subseteq snapshots'[d],
         \/ pc'[d] \in {"idle", "retry", "fetch"}
         \/ pc'[d] = pc[d] /\ round'[d] = round[d]
         \/ Published(d) /\ Published(d)' /\ round'[d] = round[d]
  PROVE  DeviceMerge(d)'
<1>1. DeviceMerge(d)
  BY DEF MergeInv
<1>2. Cloudless(d)' /\ Journaled(d)'
  BY <1>1 DEF DeviceMerge, Cloudless, Journaled
<1>3. CASE pc'[d] \in {"idle", "retry", "fetch"}
  <2>1. ~ InMerge(d)' /\ ~ Published(d)' /\ pc'[d] # "fetched"
    BY <1>3 DEF InMerge, Published
  <2> QED
    BY <1>1, <1>2, <2>1
       DEF DeviceMerge, SidesStored, AtHand, MergedSoFar, EditsStay, AsPromised, InMerge
<1>4. CASE round'[d] = round[d] /\ pc'[d] \in {"push", "anchor"} /\ pc[d] \in {"push", "anchor"}
  <2>1. Published(d) /\ Published(d)' /\ ~ InMerge(d)' /\ pc'[d] # "fetched"
    BY <1>4 DEF InMerge, Published
  <2>2. \A n : /\ Promised(d, n)' = Promised(d, n) /\ Conflict(d, n)' = Conflict(d, n)
               /\ remoteFile(d, n)' = remoteFile(d, n) /\ MergedName(d, n)' = MergedName(d, n)
    BY <1>4, <2>1, BaseStays DEF MergedName
  <2>3. AsPromised(d)'
    BY <1>1, <2>1, <2>2 DEF DeviceMerge, AsPromised, CopyOf
  <2> QED
    BY <1>1, <1>2, <1>4, <2>1, <2>3
       DEF DeviceMerge, SidesStored, AtHand, MergedSoFar, EditsStay, InMerge
<1>5. CASE round'[d] = round[d] /\ pc'[d] = pc[d] /\ InMerge(d)
  <2>1. \A n : /\ Promised(d, n)' = Promised(d, n) /\ Conflict(d, n)' = Conflict(d, n)
               /\ localFile(d, n)' = localFile(d, n) /\ remoteFile(d, n)' = remoteFile(d, n)
               /\ LocalUntouched(d, n)' = LocalUntouched(d, n)
    BY <1>5, BaseStays
  <2>2. MergedSoFar(d)' /\ EditsStay(d)'
    BY <1>1, <1>5, <2>1 DEF DeviceMerge, MergedSoFar, EditsStay, InMerge, CopyThere, CopyOf
  <2>3. ~ Published(d)'
    BY <1>5 DEF InMerge, Published
  <2> QED
    BY <1>1, <1>2, <1>5, <2>2, <2>3 DEF DeviceMerge, SidesStored, AtHand, AsPromised, InMerge
<1>6. CASE round'[d] = round[d] /\ pc'[d] = pc[d] /\ pc[d] = "fetched"
  <2>1. ~ InMerge(d)' /\ ~ Published(d)'
    BY <1>6 DEF InMerge, Published
  <2> QED
    BY <1>1, <1>2, <1>6, <2>1
       DEF DeviceMerge, SidesStored, AtHand, MergedSoFar, EditsStay, AsPromised, InMerge
<1>7. pc[d] \in PcType
  BY MergeTypes
<1> QED
  BY <1>3, <1>4, <1>5, <1>6, <1>7 DEF PcType, InMerge, Published

-----------------------------------------------------------------------------
(* What the next snapshot says of a name that is gone, changed or neither. *)
LEMMA NextFiles ==
  ASSUME TypeOK, NEW d \in Device, head[d] # NoHead, NEW n \in Name
  PROVE  /\ n \in gone(d) => Files(nextSnapshot(d))[n] = Absent
         /\ n \in changed(d) /\ n \notin gone(d) => HashOf(Files(nextSnapshot(d))[n]) = tree[d][n]
         /\ n \notin gone(d) \cup changed(d) => Files(nextSnapshot(d))[n] = Files(head[d])[n]
<1> DEFINE m == buildSnapshot(HeadFiles(d), tree[d], gone(d), changed(d), d)
<1>1. head[d] \in Snapshot
  BY DEF TypeOK, DiskTypeOK, MaybeHead
<1>2. CASE gone(d) \cup changed(d) = {}
  BY <1>2 DEF nextSnapshot
<1>3. CASE gone(d) \cup changed(d) # {}
  <2>1. nextSnapshot(d) = Append(head[d], m)
    BY <1>3 DEF nextSnapshot
  <2>2. /\ m \in Manifest
        /\ \A k \in Name : k \in changed(d) /\ k \notin gone(d) => m[k] \in Entry
    <3>1. tree[d] \in [Name -> Content \cup {Absent}] /\ HeadFiles(d) \in Manifest
      BY <1>1, FilesType DEF TypeOK, DiskTypeOK, HeadFiles
    <3>2. gone(d) \in SUBSET Listed(HeadFiles(d)) /\ \A k \in changed(d) : tree[d][k] # Absent
      BY DEF gone, changed, OnDisk
    <3> QED
      BY <3>1, <3>2, BuildSnapshotType, EngineAssumption
  <2>3. Files(nextSnapshot(d)) = m
    BY <1>1, <2>1, <2>2, ChildFiles
  <2>4. /\ n \in gone(d) => m[n] = Absent
        /\ n \in changed(d) /\ n \notin gone(d) => m[n].hash = tree[d][n]
        /\ n \notin gone(d) \cup changed(d) => m[n] = Files(head[d])[n]
    BY DEF buildSnapshot, HeadFiles
  <2> HIDE DEF m
  <2>5. n \in changed(d) /\ n \notin gone(d) => m[n] # Absent
    BY <2>2, AbsentAssumption DEF Entry
  <2> QED
    BY <2>3, <2>4, <2>5 DEF HashOf
<1> QED
  BY <1>2, <1>3

(* Where nothing is left in the cloud, a snapshot is exactly what is on    *)
(* disk.                                                                   *)
LEMMA SnapshotSaysTree ==
  ASSUME MergeInv, NEW d \in Device, head[d] # NoHead, NEW n \in Name
  PROVE  HashOf(Files(nextSnapshot(d))[n]) = tree[d][n]
<1>1. checkout[d].pending = {} /\ Journaled(d) /\ Tip(head[d]) = head[d]
  BY DEF MergeInv, DeviceMerge, Cloudless, Tip
<1>2. CASE tree[d][n] = Absent
  <2>1. n \notin changed(d) /\ (n \in gone(d) <=> Files(head[d])[n] # Absent)
    BY <1>1, <1>2 DEF changed, OnDisk, gone, isPending, HeadFiles, Listed
  <2>2. Files(nextSnapshot(d))[n] = Absent
    BY <2>1, NextFiles, MergeTypes
  <2> QED
    BY <1>2, <2>2 DEF HashOf
<1>3. CASE tree[d][n] # Absent
  <2>1. n \in OnDisk(d) /\ n \notin gone(d)
    BY <1>3 DEF OnDisk, gone
  <2>2. n \notin changes[d] => tree[d][n] = HashOf(Files(head[d])[n])
    BY <1>1, <1>3 DEF Journaled
  <2>3. n \notin changed(d) => tree[d][n] = HashOf(Files(head[d])[n])
    BY <2>1, <2>2 DEF changed, Looked, HeadFiles
  <2> QED
    BY <2>1, <2>3, NextFiles, MergeTypes
<1> QED
  BY <1>2, <1>3

(* A snapshot, of either kind, on the device that takes it.                *)
LEMMA SnapshotMerge ==
  ASSUME MergeInv, NEW d \in Device, head[d] # NoHead, snapshot(d)
  PROVE  /\ head'[d] = nextSnapshot(d) /\ head'[d] \in Snapshot /\ Tip(head'[d]) = head'[d]
         /\ head'[d] \in snapshots'[d] /\ snapshots[d] \subseteq snapshots'[d]
         /\ chunks[d] \subseteq chunks'[d] /\ ChunksOf(Tip(head'[d])) \subseteq chunks'[d]
         /\ \A n \in Name : HashOf(Files(head'[d])[n]) = tree[d][n]
         /\ tree' = tree /\ Cloudless(d)' /\ Journaled(d)'
         /\ \A n : n \notin changes[d] => n \notin changes'[d]
<1> DEFINE next == nextSnapshot(d)
           after == CheckoutAfterStatus(d)
           new == {tree[d][n] : n \in changed(d)}
           none == gone(d) \cup changed(d) = {}
<1>1. /\ head' = [head EXCEPT ![d] = next]
      /\ snapshots' = [snapshots EXCEPT ![d] = @ \cup {next}]
      /\ chunks' = [chunks EXCEPT ![d] = @ \cup new]
      /\ changes' = [changes EXCEPT ![d] = IF none THEN @ ELSE {}]
      /\ checkout' = [checkout EXCEPT ![d] = after]
      /\ index' = [index EXCEPT ![d] = after]
      /\ UNCHANGED tree
  BY DEF snapshot
<1>2. next \in Snapshot /\ next # NoHead
  BY NextSnapshotFacts, EngineAssumption, MergeTypes
<1>3. after.pending = {}
  BY DEF CheckoutAfterStatus, MergeInv, DeviceMerge, Cloudless
<1>4. ChunksOf(next) \subseteq ChunksOf(Tip(head[d])) \cup new
  BY NextSnapshotChunks, MergeTypes DEF Tip
<1>5. \A n \in Name : HashOf(Files(next)[n]) = tree[d][n]
  BY SnapshotSaysTree
<1> HIDE DEF next, after, new, none
<1>6. /\ head'[d] = next /\ snapshots'[d] = snapshots[d] \cup {next}
      /\ chunks'[d] = chunks[d] \cup new /\ changes'[d] \subseteq changes[d]
      /\ checkout'[d] = after /\ index'[d] = after
  BY <1>1, MergeTypes
<1>7. Tip(head'[d]) = next
  BY <1>2, <1>6 DEF Tip
<1>8. ChunksOf(Tip(head[d])) \subseteq chunks[d]
  BY DEF MergeInv, DeviceMerge, AtHand
<1>9. Cloudless(d)' /\ Journaled(d)'
  BY <1>1, <1>3, <1>5, <1>6, <1>7 DEF Cloudless, Journaled, Tip
<1> QED
  BY <1>1, <1>2, <1>4, <1>5, <1>6, <1>7, <1>8, <1>9 DEF next

-----------------------------------------------------------------------------
(* Names fit when what is put on disk fits, and what is stored.            *)
LEMMA NamesStored ==
  ASSUME MergeInv,
         \A e \in Device : \A n \in Name :
           tree'[e][n] # Absent => tree'[e][n] = tree[e][n] \/ Fits(n, tree'[e][n]),
         \A s \in remoteSnapshots' : s \in remoteSnapshots \/ FilesFit(s),
         \A e \in Device : \A s \in snapshots'[e] : s \in snapshots[e] \/ FilesFit(s)
  PROVE  NamesFit'
BY DEF MergeInv, NamesFit

(* The empty snapshot has no names.                                        *)
LEMMA RootFits == FilesFit(Root)
BY DEF FilesFit, Files, Listed, NoFiles

(* A snapshot whose files are all as another's, or as on a tree, fits.     *)
LEMMA FitsAs ==
  ASSUME NEW s \in Snapshot,
         \A n \in Name : Files(s)[n] # Absent => Fits(n, HashOf(Files(s)[n]))
  PROVE  FilesFit(s)
BY DEF FilesFit, Listed, HashOf

LEMMA FitsAt ==
  ASSUME NEW s, FilesFit(s), NEW n \in Name, Files(s)[n] # Absent
  PROVE  Fits(n, HashOf(Files(s)[n])) /\ Fits(n, Files(s)[n].hash)
BY DEF FilesFit, Listed, HashOf

(* What has a hash is an entry with that hash.                             *)
LEMMA HashIs ==
  ASSUME NEW s \in Snapshot, NEW n \in Name
  PROVE  /\ Files(s)[n] = Absent <=> HashOf(Files(s)[n]) = Absent
         /\ Files(s)[n] # Absent => /\ HashOf(Files(s)[n]) = Files(s)[n].hash
                                    /\ Files(s)[n].hash \in Content
         /\ HashOf(Files(s)[n]) \in Content \cup {Absent}
BY FilesType, ListedEntry, AbsentAssumption DEF HashOf, Listed

(* Repo.snapshot stores what is on disk.                                   *)
LEMMA SnapshotFits ==
  ASSUME MergeInv, NEW d \in Device, head[d] # NoHead, snapshot(d),
         UNCHANGED remoteSnapshots
  PROVE  NamesFit'
<1>1. nextSnapshot(d) \in Snapshot
  BY NextSnapshotFacts, MergeTypes
<1>2. \A n \in Name : HashOf(Files(nextSnapshot(d))[n]) = tree[d][n]
  BY SnapshotSaysTree
<1>3. FilesFit(nextSnapshot(d))
  BY <1>1, <1>2, HashIs, FitsAs DEF MergeInv, NamesFit
<1>4. \A e \in Device : \A s \in snapshots'[e] : s \in snapshots[e] \/ s = nextSnapshot(d)
  BY MergeTypes DEF snapshot
<1>5. tree' = tree
  BY DEF snapshot
<1> QED
  BY <1>3, <1>4, <1>5, NamesStored

(* The names the two sides and the base do not list are merged already, as *)
(* nothing.                                                                *)
LEMMA SnapshotLocalMerge ==
  ASSUME MergeInv, NEW d \in Device, snapshotLocal(d)
  PROVE  NamesFit' /\ DeviceMerge(d)'
<1>1. /\ pc[d] = "fetched" /\ snapshot(d)
      /\ UNCHANGED remoteSnapshots
  BY DEF snapshotLocal, Goto, remoteVars
<1>2. head[d] # NoHead
  BY <1>1, MergeTypes DEF LocalInv, RoundStored, Underway
<1>3. NamesFit'
  BY <1>1, <1>2, SnapshotFits
<1>4. /\ head'[d] \in Snapshot /\ head'[d] \in snapshots'[d]
      /\ snapshots[d] \subseteq snapshots'[d] /\ Tip(head'[d]) = head'[d]
      /\ chunks[d] \subseteq chunks'[d] /\ ChunksOf(Tip(head'[d])) \subseteq chunks'[d]
      /\ \A n \in Name : HashOf(Files(head'[d])[n]) = tree[d][n]
      /\ tree' = tree /\ Cloudless(d)' /\ Journaled(d)'
  BY <1>1, <1>2, SnapshotMerge
<1> DEFINE remote == Tip(round[d].syncedHead)
           base == findBaseSnapshot(snapshots'[d], head'[d], remote)
<1>5. /\ pc'[d] = "merge" /\ round'[d].syncedHead = round[d].syncedHead
      /\ round'[d].local = head'[d]
      /\ round'[d].todo = UNION {Listed(Files(s)) : s \in {base, head'[d], remote}}
  BY MergeTypes DEF snapshotLocal, Goto, RoundType
<1>6. /\ \A n : localFile(d, n)' = Files(head'[d])[n]
      /\ \A n : remoteFile(d, n)' = Files(remote)[n]
      /\ \A n : baseFile(d, n)' = Files(base)[n]
  BY <1>5 DEF localFile, remoteFile, baseFile, Base
<1> HIDE DEF base, remote
<1>7. \A n \in Name \ round'[d].todo :
        Files(base)[n] = Absent /\ Files(head'[d])[n] = Absent /\ Files(remote)[n] = Absent
  BY <1>5 DEF Listed
<1>8. InMerge(d)' /\ ~ Published(d)' /\ pc[d] = "fetched"
  BY <1>1, <1>5 DEF InMerge, Published
<1>9. AtHand(d)'
  <2>1. ChunksOf(Tip(round[d].syncedHead)) \subseteq chunks[d]
    BY <1>8 DEF MergeInv, DeviceMerge, AtHand
  <2> QED
    BY <1>4, <1>5, <2>1 DEF AtHand
<1>10. MergedSoFar(d)'
  <2>1. ASSUME NEW n \in Path
        PROVE  /\ tree'[d][n] = HashOf(localFile(d, n)')
               /\ n \notin round'[d].todo => tree'[d][n] = Promised(d, n)' /\ ~ Conflict(d, n)'
    <3>1. n \in Name
      BY EngineAssumption
    <3>2. tree'[d][n] = HashOf(Files(head'[d])[n])
      BY <1>4, <3>1
    <3>3. n \notin round'[d].todo =>
            localFile(d, n)' = Absent /\ remoteFile(d, n)' = Absent /\ baseFile(d, n)' = Absent
      BY <1>6, <1>7, <3>1
    <3> QED
      BY <1>6, <3>2, <3>3 DEF Promised, ThreeWay, Conflict, OnBoth, Exists, HashOf
  <2> QED
    BY <1>5, <2>1 DEF MergedSoFar
<1>11. EditsStay(d)'
  <2>1. \A n \in Name \ round'[d].todo : tree'[d][n] = Absent
    BY <1>4, <1>7 DEF HashOf
  <2> QED
    BY <2>1 DEF EditsStay
<1> QED
  BY <1>3, <1>4, <1>5, <1>8, <1>9, <1>10, <1>11 DEF DeviceMerge, SidesStored, AsPromised

(* The snapshot that is published is the merged tree.                      *)
LEMMA SnapshotMergedMerge ==
  ASSUME MergeInv, NEW d \in Device, snapshotMerged(d)
  PROVE  NamesFit' /\ DeviceMerge(d)'
<1>1. /\ pc[d] = "rebased" /\ snapshot(d)
      /\ UNCHANGED remoteSnapshots
  BY DEF snapshotMerged, remoteVars
<1>2. head[d] # NoHead
  BY <1>1, MergeTypes DEF LocalInv, RoundStored, Underway
<1>3. NamesFit'
  BY <1>1, <1>2, SnapshotFits
<1>4. /\ snapshots[d] \subseteq snapshots'[d]
      /\ chunks[d] \subseteq chunks'[d] /\ ChunksOf(Tip(head'[d])) \subseteq chunks'[d]
      /\ \A n \in Name : HashOf(Files(head'[d])[n]) = tree[d][n]
      /\ Cloudless(d)' /\ Journaled(d)'
  BY <1>1, <1>2, SnapshotMerge
<1>5. /\ pc'[d] \in {"push", "anchor"} /\ round'[d].latest = head'[d]
      /\ round'[d].local = round[d].local /\ round'[d].syncedHead = round[d].syncedHead
  BY MergeTypes DEF snapshotMerged, RoundType
<1>6. InMerge(d) /\ ~ InMerge(d)' /\ Published(d)'
  BY <1>1, <1>5 DEF InMerge, Published
<1>7. SidesStored(d) /\ MergedSoFar(d)
  BY DEF MergeInv, DeviceMerge
<1>8. AsPromised(d)'
  <2>1. \A n : /\ Promised(d, n)' = Promised(d, n) /\ Conflict(d, n)' = Conflict(d, n)
               /\ remoteFile(d, n)' = remoteFile(d, n)
    BY <1>4, <1>5, <1>6, BaseStays
  <2>2. \A n \in Name : MergedName(d, n)' = tree[d][n]
    BY <1>4, <1>5 DEF MergedName
  <2>3. ASSUME NEW n \in Path, Conflict(d, n)
        PROVE  CopyOf(d, n) \in Name
    <3>1. remoteFile(d, n).hash \in Content
      BY <2>3, EntryTypes, EngineAssumption, MergeTypes DEF Conflict, OnBoth
    <3> QED
      BY <3>1, CopyNamed, EngineAssumption DEF CopyOf
  <2>4. \A n \in Path \ Mergeable :
          tree[d][n] = Promised(d, n) /\ (Conflict(d, n) => CopyThere(d, n))
    BY <1>1, <1>6, <1>7 DEF MergedSoFar
  <2> QED
    BY <2>1, <2>2, <2>3, <2>4, EngineAssumption DEF AsPromised, CopyThere, CopyOf
<1>9. pc'[d] \notin {"merge", "rebase", "fetched"}
  BY <1>5
<1> QED
  BY <1>3, <1>4, <1>5, <1>6, <1>7, <1>8, <1>9
     DEF DeviceMerge, SidesStored, AtHand, MergedSoFar, EditsStay

-----------------------------------------------------------------------------
(* What is known of an entry of either side during the merge.              *)
LEMMA SideFacts ==
  ASSUME MergeInv, NEW d \in Device, pc[d] = "merge", NEW n \in Name,
         NEW entry \in {localFile(d, n), remoteFile(d, n)}, Exists(entry)
  PROVE  /\ entry.hash \in Content /\ HashOf(entry) = entry.hash
         /\ Fits(n, entry.hash) /\ hasChunks(d, entry)
<1>1. /\ round[d].local = head[d] /\ head[d] # NoHead
      /\ head[d] \in snapshots[d] /\ Tip(round[d].syncedHead) \in snapshots[d]
  BY MergeTypes DEF LocalInv, StoresWhole, RoundStored, Underway, HasFetched
<1>2. PICK s \in {head[d], Tip(round[d].syncedHead)} : entry = Files(s)[n]
  BY <1>1 DEF localFile, remoteFile
<1>3. s \in Snapshot /\ FilesFit(s) /\ ChunksOf(s) \subseteq chunks[d]
  BY <1>1, MergeTypes DEF MergeInv, NamesFit, DeviceMerge, AtHand, InMerge, Tip
<1>4. entry # Absent
  BY DEF Exists
<1>5. entry.hash \in Content /\ HashOf(entry) = entry.hash
  BY <1>2, <1>3, <1>4, HashIs
<1>6. Fits(n, entry.hash)
  BY <1>2, <1>3, <1>4, FitsAt
<1>7. entry.hash \in ChunksOf(s)
  BY <1>2, <1>4 DEF ChunksOf, Listed
<1> QED
  BY <1>3, <1>5, <1>6, <1>7 DEF hasChunks

(* A copy has the content it is named after.                               *)
LEMMA CopySays ==
  ASSUME CopiesApart, NEW m \in Path, NEW c \in Content, NEW e \in Content,
         Fits(CopyName(m, c), e)
  PROVE  e = c
BY DEF CopiesApart, Fits

(* So only users' files are in conflict.                                   *)
LEMMA ConflictsOnPath ==
  ASSUME MergeInv, CopiesApart, NEW d \in Device, pc[d] = "merge", NEW n \in Name, Conflict(d, n)
  PROVE  n \in Path
<1> DEFINE l == localFile(d, n).hash
           r == remoteFile(d, n).hash
<1>1. /\ l \in Content /\ HashOf(localFile(d, n)) = l /\ Fits(n, l)
      /\ r \in Content /\ HashOf(remoteFile(d, n)) = r /\ Fits(n, r)
  BY SideFacts DEF Conflict, OnBoth
<1>2. l # r
  BY <1>1 DEF Conflict, sameEntry
<1> HIDE DEF l, r
<1> QED
  BY <1>1, <1>2 DEF CopiesApart, Fits

(* The merge of one name: it does what was promised of its name, writes no *)
(* other but in a copy's place, and names in the journal what it writes.   *)
LEMMA MergingMerge ==
  ASSUME MergeInv, NEW d \in Device, NEW n \in Name, Merging(d, n), checkout'[d].pending = {},
         \A m \in Name :
           \/ tree'[d][m] = tree[d][m] /\ (m \notin changes'[d] => m \notin changes[d])
           \/ m \notin Path \ {n} /\ (tree'[d][m] = Absent \/ m \in changes'[d]),
         \A m \in Path, c \in Content :
           tree[d][CopyName(m, c)] = c => tree'[d][CopyName(m, c)] = c,
         n \in Path \ Mergeable =>
           tree'[d][n] = Promised(d, n) /\ (Conflict(d, n) => CopyThere(d, n)'),
         tree'[d][n] # Absent /\ n \notin changes'[d] => ~ LocalUntouched(d, n)
  PROVE  DeviceMerge(d)'
<1>1. /\ pc[d] = "merge" /\ n \in round[d].todo
      /\ UNCHANGED <<head, snapshots, chunks, index, pc, remoteSnapshots>>
      /\ round' = [round EXCEPT ![d].todo = @ \ {n}]
  BY DEF Merging, remoteVars
<1>2. /\ round'[d].todo = round[d].todo \ {n} /\ round'[d].local = round[d].local
      /\ round'[d].syncedHead = round[d].syncedHead
  BY <1>1, MergeTypes DEF RoundType
<1>3. DeviceMerge(d) /\ InMerge(d) /\ InMerge(d)' /\ ~ Published(d)'
  BY <1>1 DEF MergeInv, InMerge, Published
<1>4. \A m : /\ Promised(d, m)' = Promised(d, m) /\ Conflict(d, m)' = Conflict(d, m)
             /\ localFile(d, m)' = localFile(d, m) /\ remoteFile(d, m)' = remoteFile(d, m)
             /\ LocalUntouched(d, m)' = LocalUntouched(d, m)
  BY <1>1, <1>2, <1>3, BaseStays
<1>5. SidesStored(d)' /\ Cloudless(d)' /\ AtHand(d)'
  BY <1>1, <1>2, <1>3 DEF DeviceMerge, SidesStored, Cloudless, AtHand, InMerge
<1>6. Journaled(d)'
  <2>1. Tip(head[d])' = Tip(head[d])
    BY <1>1
  <2> QED
    BY <1>3, <2>1 DEF DeviceMerge, Journaled
<1>7. MergedSoFar(d)'
  <2>1. ASSUME NEW m \in Path, m \in round'[d].todo
        PROVE  tree'[d][m] = HashOf(localFile(d, m)')
    <3>1. m \in Name /\ m # n /\ m \in round[d].todo
      BY <1>2, <2>1, EngineAssumption
    <3> QED
      BY <1>3, <1>4, <3>1 DEF DeviceMerge, MergedSoFar
  <2>2. ASSUME NEW m \in Path \ Mergeable, m \notin round'[d].todo
        PROVE  tree'[d][m] = Promised(d, m)' /\ (Conflict(d, m)' => CopyThere(d, m)')
    <3>1. CASE m = n
      BY <1>4, <3>1
    <3>2. CASE m # n
      <4>1. m \in Name /\ m \notin round[d].todo
        BY <1>2, <2>2, <3>2, EngineAssumption
      <4>2. tree'[d][m] = tree[d][m]
        BY <3>2, <4>1
      <4>3. tree[d][m] = Promised(d, m) /\ (Conflict(d, m) => CopyThere(d, m))
        BY <1>3, <4>1 DEF DeviceMerge, MergedSoFar
      <4>4. Conflict(d, m) => remoteFile(d, m).hash \in Content
        BY <4>1, EntryTypes, MergeTypes DEF Conflict, OnBoth
      <4>5. Conflict(d, m) => CopyThere(d, m)'
        BY <1>4, <4>3, <4>4 DEF CopyThere, CopyOf
      <4> QED
        BY <1>4, <4>2, <4>3, <4>5
    <3> QED
      BY <3>1, <3>2
  <2>3. pc'[d] = "merge"
    BY <1>1
  <2> QED
    BY <2>1, <2>2, <2>3 DEF MergedSoFar
<1>8. EditsStay(d)'
  <2> SUFFICES ASSUME NEW m \in Name \ round'[d].todo, tree'[d][m] # Absent, m \notin changes'[d]
               PROVE  ~ LocalUntouched(d, m)
    BY <1>4 DEF EditsStay
  <2>1. CASE m = n
    BY <2>1
  <2>2. CASE m # n
    <3>1. m \notin round[d].todo /\ tree'[d][m] = tree[d][m] /\ m \notin changes[d]
      BY <1>2, <2>2
    <3> QED
      BY <1>1, <1>3, <3>1 DEF DeviceMerge, EditsStay
  <2> QED
    BY <2>1, <2>2
<1> QED
  BY <1>3, <1>5, <1>6, <1>7, <1>8 DEF DeviceMerge, AsPromised

-----------------------------------------------------------------------------
(* What PutFile does on its device.                                        *)
LEMMA PutFileDoes ==
  ASSUME MergeInv, NEW d \in Device, NEW k \in Name, NEW c \in Content, PutFile(d, k, c)
  PROVE  /\ tree'[d][k] = c /\ \A m \in Name \ {k} : tree'[d][m] = tree[d][m]
         /\ changes'[d] = changes[d] \cup {k} /\ checkout'[d].pending = {}
         /\ \A e \in Device \ {d} : tree'[e] = tree[e]
<1>1. /\ tree' = [tree EXCEPT ![d][k] = c]
      /\ changes' = [changes EXCEPT ![d] = @ \cup {k}]
      /\ checkout' = [checkout EXCEPT ![d].known = @ \cup {k}, ![d].pending = @ \ {k}]
  BY DEF PutFile
<1>2. checkout'[d].pending = checkout[d].pending \ {k}
  BY <1>1, MergeTypes DEF Checkout
<1> QED
  BY <1>1, <1>2, MergeTypes DEF MergeInv, DeviceMerge, Cloudless

(* A file that fits, put in its place.                                     *)
LEMMA PutFileFits ==
  ASSUME MergeInv, NEW d \in Device, NEW k \in Name, NEW c \in Content, PutFile(d, k, c),
         Fits(k, c), UNCHANGED <<snapshots, remoteSnapshots>>
  PROVE  NamesFit'
<1>1. \A e \in Device : \A n \in Name :
        tree'[e][n] # Absent => tree'[e][n] = tree[e][n] \/ Fits(n, tree'[e][n])
  BY PutFileDoes
<1> QED
  BY <1>1, NamesStored

(* The other side's copies, and every name but this one, stay as they are. *)
LEMMA PutFileSpares ==
  ASSUME MergeInv, CopiesApart, NEW d \in Device, NEW k \in Name, NEW c \in Content,
         PutFile(d, k, c), Fits(k, c)
  PROVE  /\ \A m \in Path, e \in Content :
              tree[d][CopyName(m, e)] = e => tree'[d][CopyName(m, e)] = e
         /\ \A m \in Name :
              \/ tree'[d][m] = tree[d][m] /\ (m \notin changes'[d] => m \notin changes[d])
              \/ m = k /\ m \in changes'[d]
<1>1. ASSUME NEW m \in Path, NEW e \in Content, tree[d][CopyName(m, e)] = e
      PROVE  tree'[d][CopyName(m, e)] = e
  <2>1. CopyName(m, e) \in Name
    BY CopyNamed, EngineAssumption
  <2>2. CASE CopyName(m, e) = k
    BY <2>2, CopySays, PutFileDoes
  <2>3. CASE CopyName(m, e) # k
    BY <1>1, <2>1, <2>3, PutFileDoes
  <2> QED
    BY <2>2, <2>3
<1> QED
  BY <1>1, PutFileDoes

(* One side deleted what the other left alone: only a user's file, for     *)
(* nobody deletes a copy.                                                  *)
LEMMA MergeDeleteMerge ==
  ASSUME MergeInv, CopiesApart, NEW d \in Device, NEW n \in Name, mergeDelete(d, n)
  PROVE  NamesFit' /\ DeviceMerge(d)'
<1>1. /\ Merging(d, n) /\ pc[d] = "merge" /\ UNCHANGED <<changes, snapshots, remoteSnapshots>>
      /\ \/ LocalOnly(d, n) /\ LocalUntouched(d, n)
         \/ RemoteOnly(d, n) /\ RemoteUntouched(d, n)
  BY DEF mergeDelete, Merging, remoteVars
<1>2. n \in Path
  BY <1>1, DroppedIsDeleted, MergeTypes
<1>3. /\ tree'[d][n] = Absent
      /\ \A m \in Name \ {n} : tree'[d][m] = tree[d][m]
      /\ \A e \in Device \ {d} : tree'[e] = tree[e]
  BY MergeTypes DEF mergeDelete
<1>4. checkout'[d].pending = checkout[d].pending \ {n}
  BY MergeTypes DEF mergeDelete, Checkout
<1>5. NamesFit'
  <2>1. \A e \in Device : \A m \in Name :
          tree'[e][m] # Absent => tree'[e][m] = tree[e][m] \/ Fits(m, tree'[e][m])
    BY <1>3
  <2> QED
    BY <1>1, <2>1, NamesStored
<1>6. \A m \in Path, c \in Content : tree[d][CopyName(m, c)] = c => tree'[d][CopyName(m, c)] = c
  <2> SUFFICES ASSUME NEW m \in Path, NEW c \in Content, tree[d][CopyName(m, c)] = c
               PROVE  tree'[d][CopyName(m, c)] = c
    OBVIOUS
  <2>1. CopyName(m, c) \in Name /\ CopyName(m, c) # n
    BY <1>2, CopyNamed, EngineAssumption DEF CopiesApart
  <2> QED
    BY <1>3, <2>1
<1>7. Promised(d, n) = Absent /\ ~ Conflict(d, n)
  <2>1. \/ /\ HashOf(localFile(d, n)) = HashOf(baseFile(d, n))
           /\ HashOf(remoteFile(d, n)) = Absent
        \/ /\ HashOf(remoteFile(d, n)) = HashOf(baseFile(d, n))
           /\ HashOf(localFile(d, n)) = Absent
    BY <1>1
       DEF LocalOnly, RemoteOnly, LocalUntouched, RemoteUntouched, Exists, sameEntry, HashOf
  <2>2. ~ Conflict(d, n)
    BY <1>1 DEF Conflict, OnBoth, LocalOnly, RemoteOnly
  <2> QED
    BY <2>1, <2>2 DEF Promised, ThreeWay
<1>8. DeviceMerge(d)'
  <2>1. checkout'[d].pending = {}
    BY <1>4 DEF MergeInv, DeviceMerge, Cloudless
  <2>2. \A m \in Name :
          \/ tree'[d][m] = tree[d][m] /\ (m \notin changes'[d] => m \notin changes[d])
          \/ m \notin Path \ {n} /\ (tree'[d][m] = Absent \/ m \in changes'[d])
    BY <1>1, <1>3
  <2> QED
    BY <1>1, <1>3, <1>6, <1>7, <2>1, <2>2, MergingMerge
<1> QED
  BY <1>5, <1>8

(* What is taken is what was promised.                                     *)
LEMMA MergeTakeMerge ==
  ASSUME MergeInv, CopiesApart, NEW d \in Device, NEW n \in Name,
         mergeCreated(d, n) \/ mergeTake(d, n)
  PROVE  NamesFit' /\ DeviceMerge(d)'
<1>1. Merging(d, n) /\ pc[d] = "merge" /\ UNCHANGED <<snapshots, remoteSnapshots>>
  BY DEF mergeCreated, mergeTake, Merging, remoteVars
<1>2. PICK entry \in {localFile(d, n), remoteFile(d, n)} :
        /\ Exists(entry) /\ take(d, n, entry)
        /\ HashOf(entry) = Promised(d, n) /\ ~ Conflict(d, n)
  <2>1. CASE mergeCreated(d, n)
    <3>1. /\ Exists(localFile(d, n)) /\ take(d, n, localFile(d, n))
          /\ HashOf(remoteFile(d, n)) = Absent /\ HashOf(baseFile(d, n)) = Absent
          /\ ~ Conflict(d, n)
      BY <2>1 DEF mergeCreated, LocalOnly, Exists, HashOf, Conflict, OnBoth
    <3>2. HashOf(localFile(d, n)) = Promised(d, n)
      BY <3>1 DEF Promised, ThreeWay
    <3> QED
      BY <3>1, <3>2
  <2>2. CASE mergeTake(d, n)
    <3>1. Exists(remoteFile(d, n)) /\ take(d, n, remoteFile(d, n)) /\ ~ Conflict(d, n)
      BY <2>2 DEF mergeTake, RemoteOnly, OnBoth, Conflict
    <3>2. \/ /\ HashOf(localFile(d, n)) = Absent
             /\ HashOf(remoteFile(d, n)) # HashOf(baseFile(d, n))
          \/ HashOf(localFile(d, n)) = HashOf(baseFile(d, n))
      BY <2>2
         DEF mergeTake, RemoteOnly, OnBoth, LocalUntouched, RemoteUntouched, sameEntry, Exists, HashOf
    <3>3. HashOf(remoteFile(d, n)) = Promised(d, n)
      BY <3>2 DEF Promised, ThreeWay
    <3> QED
      BY <3>1, <3>3
  <2> QED
    BY <2>1, <2>2
<1>3. /\ entry.hash \in Content /\ HashOf(entry) = entry.hash
      /\ Fits(n, entry.hash) /\ hasChunks(d, entry)
  BY <1>1, <1>2, SideFacts
<1>4. PutFile(d, n, entry.hash)
  BY <1>2, <1>3 DEF take
<1>5. NamesFit'
  BY <1>1, <1>3, <1>4, PutFileFits
<1>6. /\ tree'[d][n] = entry.hash /\ n \in changes'[d] /\ checkout'[d].pending = {}
      /\ \A m \in Path, e \in Content :
           tree[d][CopyName(m, e)] = e => tree'[d][CopyName(m, e)] = e
      /\ \A m \in Name :
           \/ tree'[d][m] = tree[d][m] /\ (m \notin changes'[d] => m \notin changes[d])
           \/ m = n /\ m \in changes'[d]
  BY <1>3, <1>4, PutFileDoes, PutFileSpares
<1> QED
  BY <1>1, <1>2, <1>3, <1>5, <1>6, MergingMerge

(* What is kept is as in the local snapshot, and was edited here.          *)
LEMMA MergeKeepMerge ==
  ASSUME MergeInv, NEW d \in Device, NEW n \in Name, mergeKeep(d, n)
  PROVE  NamesFit' /\ DeviceMerge(d)'
<1>1. /\ Merging(d, n) /\ pc[d] = "merge" /\ n \in round[d].todo
      /\ UNCHANGED <<tree, changes, checkout, snapshots, remoteSnapshots>>
  BY DEF mergeKeep, Merging, remoteVars
<1>2. NamesFit'
  BY <1>1, NamesStored
<1>3. ~ LocalUntouched(d, n) /\ ~ Conflict(d, n)
  BY DEF mergeKeep, LocalOnly, OnBoth, Conflict
<1>4. HashOf(localFile(d, n)) = Promised(d, n)
  <2>1. /\ HashOf(localFile(d, n)) # HashOf(baseFile(d, n))
        /\ \/ /\ HashOf(localFile(d, n)) # Absent
           \/ HashOf(localFile(d, n)) = HashOf(remoteFile(d, n))
    BY <1>1, <1>3, SideFacts, AbsentAssumption
       DEF mergeKeep, LocalOnly, OnBoth, LocalUntouched, sameEntry
  <2> QED
    BY <2>1 DEF Promised, ThreeWay
<1>5. n \in Path => tree[d][n] = HashOf(localFile(d, n))
  BY <1>1 DEF MergeInv, DeviceMerge, MergedSoFar, InMerge
<1>6. checkout'[d].pending = {}
  BY <1>1 DEF MergeInv, DeviceMerge, Cloudless
<1> QED
  BY <1>1, <1>2, <1>3, <1>4, <1>5, <1>6, MergingMerge

(* A content merger's result is a file of the user's.                      *)
LEMMA ContentMergeMerge ==
  ASSUME MergeInv, CopiesApart, NEW d \in Device, NEW n \in Name, tryContentMerge(d, n)
  PROVE  NamesFit' /\ DeviceMerge(d)'
<1>1. /\ Merging(d, n) /\ pc[d] = "merge" /\ Conflict(d, n) /\ n \in Mergeable
      /\ UNCHANGED <<snapshots, remoteSnapshots>>
  BY DEF tryContentMerge, Merging, remoteVars
<1>2. PICK c \in Content : PutFile(d, n, c)
  BY DEF tryContentMerge
<1>3. Fits(n, c)
  BY <1>1, ConflictsOnPath DEF Fits
<1>4. NamesFit'
  BY <1>1, <1>2, <1>3, PutFileFits
<1>5. /\ n \in changes'[d] /\ checkout'[d].pending = {}
      /\ \A m \in Path, e \in Content :
           tree[d][CopyName(m, e)] = e => tree'[d][CopyName(m, e)] = e
      /\ \A m \in Name :
           \/ tree'[d][m] = tree[d][m] /\ (m \notin changes'[d] => m \notin changes[d])
           \/ m = n /\ m \in changes'[d]
  BY <1>2, <1>3, PutFileDoes, PutFileSpares
<1> QED
  BY <1>1, <1>4, <1>5, MergingMerge

(* What is in conflict stays, and the other version goes to its copy.      *)
LEMMA ConflictFileMerge ==
  ASSUME MergeInv, CopiesApart, NEW d \in Device, NEW n \in Name, writeConflictFile(d, n)
  PROVE  NamesFit' /\ DeviceMerge(d)'
<1> DEFINE theirs == remoteFile(d, n).hash
           copy == CopyOf(d, n)
<1>1. /\ Merging(d, n) /\ pc[d] = "merge" /\ Conflict(d, n) /\ n \in round[d].todo
      /\ UNCHANGED <<snapshots, remoteSnapshots>>
  BY DEF writeConflictFile, Merging, remoteVars
<1>2. n \in Path /\ theirs \in Content
  BY <1>1, ConflictsOnPath, SideFacts DEF Conflict, OnBoth
<1>3. copy \in Name /\ Fits(copy, theirs) /\ copy \notin Path
  BY <1>2, CopyNamed, EngineAssumption DEF CopyOf, Fits, CopiesApart
<1>4. /\ ~ LocalUntouched(d, n)
      /\ HashOf(localFile(d, n)) = Promised(d, n)
  <2>1. /\ HashOf(localFile(d, n)) # HashOf(baseFile(d, n))
        /\ HashOf(localFile(d, n)) # Absent
    BY <1>1, SideFacts, AbsentAssumption DEF Conflict, OnBoth, LocalUntouched, sameEntry
  <2> QED
    BY <1>1, <2>1 DEF Promised, ThreeWay, Conflict
<1>5. tree[d][n] = HashOf(localFile(d, n))
  BY <1>1, <1>2 DEF MergeInv, DeviceMerge, MergedSoFar, InMerge
<1>6. \/ /\ UNCHANGED <<tree, changes>> /\ tree[d][copy] = theirs
         /\ checkout' = [checkout EXCEPT ![d].known = @ \cup {copy}]
      \/ PutFile(d, copy, theirs)
  BY Zenon DEF writeConflictFile, CopyOf, CopyName
<1>7. remoteFile(d, n)' = remoteFile(d, n)
  BY <1>1, MergeTypes DEF remoteFile, Merging, RoundType
<1>8. CASE /\ UNCHANGED <<tree, changes>> /\ tree[d][copy] = theirs
           /\ checkout' = [checkout EXCEPT ![d].known = @ \cup {copy}]
  <2>1. NamesFit'
    BY <1>1, <1>8, NamesStored
  <2>2. checkout'[d].pending = {}
    BY <1>8, MergeTypes DEF Checkout, MergeInv, DeviceMerge, Cloudless
  <2>3. CopyThere(d, n)'
    BY <1>7, <1>8 DEF CopyThere, CopyOf
  <2> QED
    BY <1>1, <1>4, <1>5, <1>8, <2>1, <2>2, <2>3, MergingMerge
<1>9. CASE PutFile(d, copy, theirs)
  <2>1. NamesFit'
    BY <1>1, <1>2, <1>3, <1>9, PutFileFits
  <2> HIDE DEF theirs, copy
  <2>2. /\ tree'[d][copy] = theirs /\ tree'[d][n] = tree[d][n] /\ checkout'[d].pending = {}
        /\ \A m \in Path, e \in Content :
             tree[d][CopyName(m, e)] = e => tree'[d][CopyName(m, e)] = e
        /\ \A m \in Name :
             \/ tree'[d][m] = tree[d][m] /\ (m \notin changes'[d] => m \notin changes[d])
             \/ m = copy /\ m \in changes'[d]
    BY <1>2, <1>3, <1>9, PutFileDoes, PutFileSpares
  <2>3. CopyThere(d, n)'
    BY <1>7, <2>2 DEF CopyThere, CopyOf, copy, theirs
  <2> QED
    BY <1>1, <1>3, <1>4, <1>5, <2>1, <2>2, <2>3, MergingMerge
<1> QED
  BY <1>6, <1>8, <1>9

(* Merge as a whole.                                                       *)
LEMMA MergeStepMerge ==
  ASSUME MergeInv, CopiesApart, NEW d \in Device, MergeStep(d)
  PROVE  NamesFit' /\ DeviceMerge(d)'
<1>1. ASSUME NEW n \in Name, mergeThrows(d, n)
      PROVE  NamesFit' /\ DeviceMerge(d)'
  <2>1. /\ UNCHANGED <<tree, head, snapshots, chunks, changes, index, checkout, remoteSnapshots>>
        /\ pc'[d] = "idle"
    BY <1>1, MergeTypes DEF mergeThrows, EndRound, repoVars, remoteVars
  <2>2. NamesFit'
    BY <2>1, NamesStored
  <2>3. checkout'[d].pending = {} /\ index'[d].pending = {}
    BY <2>1 DEF MergeInv, DeviceMerge, Cloudless
  <2>4. DeviceMerge(d)'
    BY <2>1, <2>3, MergeUntouched
  <2> QED
    BY <2>2, <2>4
<1> QED
  BY <1>1, MergeDeleteMerge, MergeTakeMerge, MergeKeepMerge, ContentMergeMerge, ConflictFileMerge
     DEF MergeStep

(* With nothing left to do, all is merged.                                 *)
LEMMA MergeDoneMerge ==
  ASSUME MergeInv, NEW d \in Device, mergeDone(d)
  PROVE  NamesFit' /\ DeviceMerge(d)'
<1>1. /\ pc[d] = "merge" /\ pc'[d] = "rebase" /\ round[d].todo = {} /\ round' = round
      /\ index'[d] = checkout[d]
      /\ UNCHANGED <<tree, head, snapshots, chunks, changes, checkout, remoteSnapshots>>
  BY MergeTypes DEF mergeDone, Goto, remoteVars
<1>2. NamesFit'
  BY <1>1, NamesStored
<1>3. DeviceMerge(d) /\ InMerge(d) /\ InMerge(d)' /\ ~ Published(d)'
  BY <1>1 DEF MergeInv, InMerge, Published
<1>4. \A n : /\ Promised(d, n)' = Promised(d, n) /\ Conflict(d, n)' = Conflict(d, n)
             /\ localFile(d, n)' = localFile(d, n) /\ remoteFile(d, n)' = remoteFile(d, n)
             /\ LocalUntouched(d, n)' = LocalUntouched(d, n)
  BY <1>1, <1>3, BaseStays
<1>5. MergedSoFar(d)' /\ EditsStay(d)'
  BY <1>1, <1>3, <1>4 DEF DeviceMerge, MergedSoFar, EditsStay, CopyThere, CopyOf
<1>6. SidesStored(d)' /\ Cloudless(d)' /\ AtHand(d)' /\ Journaled(d)'
  BY <1>1, <1>3 DEF DeviceMerge, SidesStored, Cloudless, AtHand, Journaled, Tip
<1> QED
  BY <1>2, <1>3, <1>5, <1>6 DEF DeviceMerge, AsPromised

-----------------------------------------------------------------------------
(* An ancestor is what the snapshot's first manifests make.                *)
LEMMA AncestorSubSeq ==
  ASSUME NEW s \in Snapshot, NEW p \in Snapshot, IsPrefix(p, s)
  PROVE  SubSeq(s, 1, Len(p)) = p
BY PrefixPointwise DEF Snapshot

(* A replay adds to the remote head as many snapshots as were local.       *)
LEMMA ReplayLength ==
  ASSUME NEW local \in Snapshot, NEW remote \in Snapshot, NEW base \in Snapshot,
         IsPrefix(base, local)
  PROVE  Len(replay(local, remote, base)) = Len(remote) + (Len(local) - Len(base))
<1>1. PICK more \in Seq(Manifest) :
        Len(more) = Len(local) - Len(base) /\ replay(local, remote, base) = remote \o more
  BY ReplayTop
<1>2. remote \in Seq(Manifest)
  BY DEF Snapshot
<1> QED
  BY <1>1, <1>2

(* What the rebased head says of a name: as the local snapshot or as the   *)
(* remote head, and as the local snapshot where that had an edit.          *)
LEMMA RebasedSays ==
  ASSUME MergeInv, NEW d \in Device, pc[d] = "rebase", NEW n \in Name
  PROVE  /\ HashOf(Files(rebased(d))[n])
              \in {HashOf(Files(head[d])[n]), HashOf(Files(Tip(round[d].syncedHead))[n])}
         /\ ~ LocalUntouched(d, n) => HashOf(Files(rebased(d))[n]) = HashOf(Files(head[d])[n])
<1> DEFINE remote == Tip(round[d].syncedHead)
           base == Base(d)
<1>1. /\ base \in Snapshot /\ IsPrefix(base, head[d])
      /\ head[d] \in Snapshot /\ round[d].local = head[d] /\ remote \in Snapshot
  BY BaseFacts, RoundFields, MergeTypes
<1>2. rebased(d) = IF base = remote THEN head[d] ELSE replay(head[d], remote, base)
  BY <1>1 DEF rebased
<1>3. LocalUntouched(d, n) <=> sameEntry(Files(base)[n], Files(head[d])[n])
  BY <1>1 DEF LocalUntouched, baseFile, localFile
<1> HIDE DEF remote, base
<1>4. HashOf(Files(replay(head[d], remote, base))[n])
        \in {HashOf(Files(head[d])[n]), HashOf(Files(remote)[n])}
  BY <1>1, ReplayLast
<1>5. ASSUME ~ sameEntry(Files(base)[n], Files(head[d])[n])
      PROVE  HashOf(Files(replay(head[d], remote, base))[n]) = HashOf(Files(head[d])[n])
  <2> DEFINE top == replay(head[d], remote, base)
             from == Len(base)
             upTo == Len(head[d])
  <2>1. from \in Nat /\ upTo \in Nat /\ from <= upTo
    BY <1>1, PrefixLength DEF Snapshot
  <2>2. SubSeq(head[d], 1, upTo) = head[d] /\ SubSeq(head[d], 1, from) = base
    BY <1>1, AncestorSubSeq, PrefixReflexive
  <2>3. top \in Snapshot /\ IsPrefix(top, top)
    BY <1>1, ReplayOnTop, PrefixReflexive
  <2>5. /\ from \in 0 .. Len(head[d]) /\ upTo \in 0 .. Len(head[d])
        /\ from \in Nat /\ upTo \in Nat /\ from <= upTo
    BY <2>1
  <2>6. Touched(head[d], from, upTo, n)
    <3> HIDE DEF from, upTo, top
    <3>1. Manifests(head[d])[from + 1] = Files(base)
      BY <1>1, <2>2, <2>5, ManifestAt
    <3>2. Manifests(head[d])[upTo + 1] = Files(head[d])
      BY <1>1, <2>2, <2>5, ManifestAt
    <3> QED
      BY <1>1, <1>5, <2>5, <3>1, <3>2, UntouchedSame
  <2>9. from < upTo
    <3>1. base # head[d]
      BY <1>5 DEF sameEntry
    <3> QED
      BY <1>1, <2>1, <3>1, PrefixAntisymmetric
  <2>10. Len(top) = Len(remote) + (upTo - from) /\ Len(remote) \in Nat
    <3>1. Len(remote) \in Nat
      BY <1>1 DEF Snapshot
    <3>2. Len(replay(head[d], remote, base)) = Len(remote) + (Len(head[d]) - Len(base))
      BY <1>1, ReplayLength
    <3> QED
      BY <3>1, <3>2
  <2> HIDE DEF top, from, upTo
  <2>7. upTo = from + (Len(top) - Len(remote)) /\ Len(top) > Len(remote)
    BY <2>5, <2>9, <2>10
  <2>8. HashOf(Files(top)[n]) = HashOf(IF Touched(head[d], Len(base), upTo, n)
                                       THEN Files(SubSeq(head[d], 1, upTo))[n]
                                       ELSE Files(remote)[n])
    <3>1. IsPrefix(top, replay(head[d], remote, base)) /\ upTo = Len(base) + (Len(top) - Len(remote))
      BY <2>3, <2>7 DEF top, from
    <3> QED
      BY <1>1, <2>3, <2>7, <3>1, ReplayManifest
  <2> QED
    BY <2>2, <2>6, <2>8 DEF top, from
<1> QED
  BY <1>2, <1>3, <1>4, <1>5 DEF remote

(* The tree that has been merged is the rebased head's, or in the journal. *)
LEMMA RebaseMerge ==
  ASSUME MergeInv, NEW d \in Device, rebase(d)
  PROVE  NamesFit' /\ DeviceMerge(d)'
<1> DEFINE remote == Tip(round[d].syncedHead)
<1>1. /\ pc[d] = "rebase" /\ pc'[d] = "rebased" /\ head'[d] = rebased(d)
      /\ \A e \in Device : \A s \in snapshots'[e] :
           s \in snapshots[e]
           \/ (e = d /\ s \in Prefixes(rebased(d)) /\ Len(s) > Len(remote))
      /\ snapshots[d] \subseteq snapshots'[d]
      /\ UNCHANGED <<tree, chunks, changes, index, checkout, round, remoteSnapshots>>
  BY MergeTypes DEF rebase, Goto, remoteVars
<1>2. /\ rebased(d) \in Snapshot /\ Tip(rebased(d)) = rebased(d)
      /\ round[d].local = head[d] /\ head[d] # NoHead /\ head[d] \in Snapshot
      /\ remote \in snapshots[d] /\ remote \in Snapshot
  BY <1>1, RebasedFacts, BaseFacts, RoundFields, EngineAssumption, MergeTypes
     DEF Tip, LocalInv, RoundStored, Underway, HasFetched
<1>3. DeviceMerge(d) /\ InMerge(d) /\ InMerge(d)' /\ ~ Published(d)'
  BY <1>1 DEF MergeInv, InMerge, Published
<1>4. NamesFit'
  <2>1. ASSUME NEW s \in Prefixes(rebased(d)), Len(s) > Len(remote)
        PROVE  FilesFit(s)
    <3>1. s \in Snapshot /\ IsPrefix(s, rebased(d))
      BY <1>2, PrefixesAre
    <3>2. PICK q \in snapshots[d] :
            \A n \in Name : HashOf(Files(s)[n]) \in {HashOf(Files(q)[n]), HashOf(Files(remote)[n])}
      BY <1>1, <2>1, <3>1, RebasedFiles, MergeTypes
    <3>3. FilesFit(q) /\ FilesFit(remote)
      BY <1>2, <3>2 DEF MergeInv, NamesFit
    <3>4. ASSUME NEW n \in Name, Files(s)[n] # Absent
          PROVE  Fits(n, HashOf(Files(s)[n]))
      <4>1. HashOf(Files(s)[n]) # Absent
        BY <3>1, <3>4, ListedHash DEF Listed
      <4>2. ASSUME NEW r \in {q, remote}, HashOf(Files(s)[n]) = HashOf(Files(r)[n])
            PROVE  Fits(n, HashOf(Files(s)[n]))
        BY <3>3, <4>1, <4>2, FitsAt DEF HashOf
      <4> QED
        BY <3>2, <4>2
    <3> QED
      BY <3>1, <3>4, FitsAs
  <2> HIDE DEF remote
  <2>2. \A e \in Device : \A s \in snapshots'[e] : s \in snapshots[e] \/ FilesFit(s)
    BY <1>1, <2>1
  <2> QED
    BY <1>1, <2>2, NamesStored
<1>5. AtHand(d)'
  <2>1. ChunksOf(head[d]) \subseteq chunks[d] /\ ChunksOf(remote) \subseteq chunks[d]
    BY <1>2, <1>3 DEF DeviceMerge, AtHand, Tip
  <2>2. \A n \in Name :
          HashOf(Files(rebased(d))[n]) \in {HashOf(Files(head[d])[n]), HashOf(Files(remote)[n])}
    BY <1>1, RebasedSays
  <2>3. ChunksOf(rebased(d)) \subseteq ChunksOf(head[d]) \cup ChunksOf(remote)
    <3> HIDE DEF remote
    <3> QED
      BY <1>2, <2>2, HashChunks
  <2>4. Tip(head'[d]) = rebased(d)
    BY <1>1, <1>2
  <2> QED
    BY <1>1, <2>1, <2>3, <2>4 DEF AtHand
<1>6. Journaled(d)'
  <2> SUFFICES ASSUME NEW n \in Name, tree[d][n] # Absent, n \notin changes[d]
               PROVE  tree[d][n] = HashOf(Files(rebased(d))[n])
    BY <1>1, <1>2 DEF Journaled
  <2>1. tree[d][n] = HashOf(Files(head[d])[n])
    BY <1>2, <1>3 DEF DeviceMerge, Journaled, Tip
  <2>2. ~ LocalUntouched(d, n)
    BY <1>1, <1>3 DEF DeviceMerge, EditsStay, MergedSoFar
  <2> QED
    BY <1>1, <2>1, <2>2, RebasedSays
<1>7. MergedSoFar(d)'
  <2>1. \A n : /\ Promised(d, n)' = Promised(d, n) /\ Conflict(d, n)' = Conflict(d, n)
               /\ localFile(d, n)' = localFile(d, n) /\ remoteFile(d, n)' = remoteFile(d, n)
    BY <1>1, <1>3, BaseStays
  <2> QED
    BY <1>1, <1>3, <2>1 DEF DeviceMerge, MergedSoFar, CopyThere, CopyOf
<1>8. SidesStored(d)' /\ Cloudless(d)'
  BY <1>1, <1>3 DEF DeviceMerge, SidesStored, Cloudless
<1> QED
  BY <1>1, <1>3, <1>4, <1>5, <1>6, <1>7, <1>8 DEF DeviceMerge, EditsStay, AsPromised

-----------------------------------------------------------------------------
(* The other steps.  Names and contents a step leaves alone still fit.     *)
LEMMA NamesUntouched ==
  ASSUME MergeInv, UNCHANGED <<tree, snapshots, remoteSnapshots>>
  PROVE  NamesFit'
BY NamesStored

(* Nor is a device outside a merge disturbed by what lands in its journal  *)
(* and in its stores.                                                      *)
LEMMA MergeOutside ==
  ASSUME MergeInv, NEW d \in Device, ~ InMerge(d), pc'[d] = pc[d], round'[d] = round[d],
         checkout'[d] = checkout[d], index'[d] = index[d],
         chunks[d] \subseteq chunks'[d], snapshots[d] \subseteq snapshots'[d],
         ChunksOf(Tip(head[d]))' \subseteq chunks'[d], Journaled(d)'
  PROVE  DeviceMerge(d)'
<1>1. DeviceMerge(d)
  BY DEF MergeInv
<1>2. ~ InMerge(d)' /\ Published(d)' = Published(d) /\ Cloudless(d)'
  BY <1>1 DEF InMerge, Published, DeviceMerge, Cloudless
<1>3. SidesStored(d)' /\ MergedSoFar(d)' /\ EditsStay(d)'
  BY <1>1, <1>2 DEF DeviceMerge, SidesStored, MergedSoFar, EditsStay, InMerge
<1>4. AtHand(d)'
  BY <1>1, <1>2 DEF DeviceMerge, AtHand
<1>5. AsPromised(d)'
  <2>1. CASE Published(d)
    <3>1. \A n : /\ Promised(d, n)' = Promised(d, n) /\ Conflict(d, n)' = Conflict(d, n)
                 /\ remoteFile(d, n)' = remoteFile(d, n) /\ MergedName(d, n)' = MergedName(d, n)
      BY <2>1, BaseStays DEF MergedName
    <3> QED
      BY <1>1, <2>1, <3>1 DEF DeviceMerge, AsPromised, CopyOf
  <2>2. CASE ~ Published(d)
    BY <1>2, <2>2 DEF AsPromised
  <2> QED
    BY <2>1, <2>2
<1> QED
  BY <1>2, <1>3, <1>4, <1>5 DEF DeviceMerge

(* A user writes or deletes a file: the journal has its name.              *)
LEMMA EditMerge ==
  ASSUME MergeInv, NEW d \in Device, NEW n \in Path,
         Delete(d, n) \/ \E c \in Content : Write(d, n, c)
  PROVE  NamesFit' /\ DeviceMerge(d)'
<1>1. PICK c \in Content \cup {Absent} :
        /\ tree' = [tree EXCEPT ![d][n] = c]
        /\ changes' = [changes EXCEPT ![d] = @ \cup {n}]
        /\ ~ InMerge(d)
        /\ UNCHANGED <<head, snapshots, chunks, index, checkout, pc, round, remoteSnapshots>>
  BY DEF Write, Delete, MayEdit, InExclusive, InMerge, remoteVars
<1>2. n \in Name
  BY EngineAssumption
<1>3. /\ changes'[d] = changes[d] \cup {n}
      /\ \A m \in Name \ {n} : tree'[d][m] = tree[d][m]
      /\ \A e \in Device : \A m \in Name : tree'[e][m] = tree[e][m] \/ m = n
  BY <1>1, <1>2, MergeTypes
<1>4. NamesFit'
  BY <1>1, <1>3, NamesStored DEF Fits
<1>5. DeviceMerge(d)
  BY DEF MergeInv
<1>6. Journaled(d)'
  BY <1>1, <1>3, <1>5 DEF DeviceMerge, Journaled
<1>7. ChunksOf(Tip(head[d]))' \subseteq chunks'[d]
  BY <1>1, <1>5 DEF DeviceMerge, AtHand
<1> QED
  BY <1>1, <1>4, <1>6, <1>7, MergeOutside

(* save: what it records of the file is what was, and what will be, there. *)
LEMMA SaveMerge ==
  ASSUME MergeInv, NEW d \in Device, NEW n \in Path, NEW c \in Content, save(d, n, c)
  PROVE  NamesFit' /\ DeviceMerge(d)'
<1> DEFINE before == recordCheckpoint(d, Tip(head[d]), n, tree[d][n])
           after == recordCheckpoint(d, before, n, c)
<1>1. /\ head' = [head EXCEPT ![d] = after]
      /\ snapshots' = [snapshots EXCEPT ![d] = @ \cup {Root, before, after}]
      /\ chunks' = [chunks EXCEPT ![d] = @ \cup {tree[d][n], c}]
      /\ tree' = [tree EXCEPT ![d][n] = c]
      /\ changes' = [changes EXCEPT ![d] = @ \cup {n}]
      /\ ~ InMerge(d)
      /\ UNCHANGED <<index, checkout, pc, round, remoteSnapshots>>
  BY DEF save, MayEdit, InExclusive, InMerge, remoteVars
<1>2. n \in Name /\ Tip(head[d]) \in Snapshot /\ tree[d][n] \in Content
  BY EngineAssumption, TipType, MergeTypes DEF save
<1>3. /\ before \in Snapshot
      /\ ChunksOf(before) \subseteq ChunksOf(Tip(head[d])) \cup {tree[d][n]}
      /\ \A m \in Name \ {n} : Files(before)[m] = Files(Tip(head[d]))[m]
  BY <1>2, RecordCheckpointFacts, CheckpointChunks, CheckpointFiles
<1> HIDE DEF before
<1>4. /\ after \in Snapshot /\ after # NoHead
      /\ ChunksOf(after) \subseteq ChunksOf(before) \cup {c}
      /\ \A m \in Name \ {n} : Files(after)[m] = Files(before)[m]
  BY <1>2, <1>3, RecordCheckpointFacts, CheckpointChunks, CheckpointFiles, EngineAssumption
<1> HIDE DEF after
<1>5. /\ head'[d] = after /\ snapshots'[d] = snapshots[d] \cup {Root, before, after}
      /\ chunks'[d] = chunks[d] \cup {tree[d][n], c} /\ changes'[d] = changes[d] \cup {n}
      /\ \A m \in Name \ {n} : tree'[d][m] = tree[d][m]
      /\ \A e \in Device : \A m \in Name : tree'[e][m] = tree[e][m] \/ m = n
      /\ \A e \in Device : \A s \in snapshots'[e] : s \in snapshots[e] \/ s \in {Root, before, after}
  BY <1>1, <1>2, MergeTypes
<1>6. Tip(head'[d]) = after
  BY <1>4, <1>5 DEF Tip
<1>7. DeviceMerge(d)
  BY DEF MergeInv
<1>8. FilesFit(Tip(head[d]))
  BY RootFits, MergeTypes DEF MergeInv, NamesFit, LocalInv, StoresWhole, Tip
<1>9. FilesFit(before) /\ FilesFit(after)
  <2>1. ASSUME NEW s \in {before, after}, NEW m \in Name, Files(s)[m] # Absent
        PROVE  Fits(m, HashOf(Files(s)[m]))
    <3>1. CASE m = n
      BY <3>1 DEF Fits
    <3>2. CASE m # n
      BY <1>3, <1>4, <1>8, <2>1, <3>2, FitsAt
    <3> QED
      BY <3>1, <3>2
  <2> QED
    BY <1>3, <1>4, <2>1, FitsAs
<1>10. NamesFit'
  <2>1. \A m : m = n => \A x : Fits(m, x)
    BY DEF Fits
  <2> QED
    BY <1>1, <1>5, <1>9, <2>1, RootFits, NamesStored
<1>11. Journaled(d)'
  <2> SUFFICES ASSUME NEW m \in Name, tree'[d][m] # Absent, m \notin changes'[d]
               PROVE  tree'[d][m] = HashOf(Files(after)[m])
    BY <1>6 DEF Journaled
  <2>1. m # n /\ m \notin changes[d] /\ tree'[d][m] = tree[d][m]
    BY <1>5
  <2> QED
    BY <1>3, <1>4, <1>7, <2>1 DEF DeviceMerge, Journaled
<1>12. ChunksOf(Tip(head[d]))' \subseteq chunks'[d]
  BY <1>3, <1>4, <1>5, <1>6, <1>7 DEF DeviceMerge, AtHand
<1> QED
  BY <1>1, <1>5, <1>10, <1>11, <1>12, MergeOutside

-----------------------------------------------------------------------------
(* prepare seeds the store with the empty snapshot; a remote without head  *)
(* has nothing to fetch.                                                   *)
LEMMA StartRoundMerge ==
  ASSUME MergeInv, NEW d \in Device, startRound(d)
  PROVE  NamesFit' /\ DeviceMerge(d)'
<1>1. /\ head'[d] = Tip(head[d]) /\ snapshots'[d] = snapshots[d] \cup {Root}
      /\ \A e \in Device : \A s \in snapshots'[e] : s \in snapshots[e] \/ s = Root
      /\ pc'[d] = (IF remoteHead = NoHead THEN "fetched" ELSE "fetch")
      /\ round'[d].syncedHead = remoteHead
      /\ UNCHANGED <<tree, chunks, changes, index, checkout, remoteSnapshots>>
  BY MergeTypes DEF startRound, remoteVars, RoundType
<1>2. Tip(head[d])' = Tip(head[d])
  BY <1>1 DEF Tip
<1>3. NamesFit'
  BY <1>1, RootFits, NamesStored
<1>4. DeviceMerge(d)
  BY DEF MergeInv
<1>5. CASE remoteHead = NoHead
  <2>1. ~ InMerge(d)' /\ ~ Published(d)' /\ Tip(round[d].syncedHead)' = Root
    BY <1>1, <1>5 DEF InMerge, Published, Tip
  <2>2. AtHand(d)'
    BY <1>1, <1>2, <1>4, <2>1, RootChunks DEF DeviceMerge, AtHand
  <2>3. Journaled(d)' /\ Cloudless(d)'
    BY <1>1, <1>2, <1>4 DEF DeviceMerge, Journaled, Cloudless
  <2>4. pc'[d] \notin {"merge", "rebase"}
    BY <2>1 DEF InMerge
  <2> QED
    BY <1>3, <2>1, <2>2, <2>3, <2>4 DEF DeviceMerge, SidesStored, MergedSoFar, EditsStay, AsPromised
<1>6. CASE remoteHead # NoHead
  BY <1>1, <1>2, <1>3, <1>4, <1>6, MergeUntouched DEF DeviceMerge, Cloudless
<1> QED
  BY <1>5, <1>6

(* What is fetched is published, and fits.                                 *)
LEMMA FetchSnapshotMerge ==
  ASSUME MergeInv, NEW d \in Device, fetchSnapshot(d)
  PROVE  NamesFit' /\ DeviceMerge(d)'
<1> DEFINE s == Shortest(Unfetched(d))
<1>1. /\ s \in remoteSnapshots /\ snapshots' = [snapshots EXCEPT ![d] = @ \cup {s}]
      /\ UNCHANGED <<tree, head, chunks, changes, index, checkout, pc, round, remoteSnapshots>>
  BY DEF fetchSnapshot, remoteVars
<1> HIDE DEF s
<1>2. /\ snapshots[d] \subseteq snapshots'[d]
      /\ \A e \in Device : \A t \in snapshots'[e] : t \in snapshots[e] \/ t = s
  BY <1>1, MergeTypes
<1>3. NamesFit'
  BY <1>1, <1>2, NamesStored DEF MergeInv, NamesFit
<1> QED
  BY <1>1, <1>2, <1>3, MergeUntouched DEF MergeInv, DeviceMerge, Cloudless

(* A device that takes every file has the remote's content when the fetch  *)
(* is over.                                                                *)
LEMMA FetchedMerge ==
  ASSUME MergeInv, EverythingWanted, NEW d \in Device, fetched(d)
  PROVE  NamesFit' /\ DeviceMerge(d)'
<1> DEFINE h == round[d].syncedHead
<1>1. /\ pc[d] = "fetch" /\ pc'[d] = "fetched" /\ MissingChunks(d) = {}
      /\ UNCHANGED <<tree, head, snapshots, chunks, changes, index, checkout, round,
                     remoteSnapshots>>
  BY MergeTypes DEF fetched, Goto, repoVars, remoteVars
<1>2. h \in Snapshot /\ Tip(h) = h
  BY <1>1, RoundFields, MergeTypes, EngineAssumption DEF LocalInv, RoundStored, MaybeHead, Tip
<1>3. \A n \in Listed(Files(h)) : wantsContent(d, n)
  BY DEF EverythingWanted, wantsContent
<1>4. ChunksOf(h) \subseteq chunks[d]
  BY <1>1, <1>3 DEF MissingChunks, ChunksOf
<1> HIDE DEF h
<1>5. DeviceMerge(d) /\ ~ InMerge(d)' /\ ~ Published(d)'
  BY <1>1 DEF MergeInv, InMerge, Published
<1>6. AtHand(d)'
  BY <1>1, <1>2, <1>4, <1>5 DEF DeviceMerge, AtHand, h
<1>7. Journaled(d)' /\ Cloudless(d)'
  BY <1>1, <1>5 DEF DeviceMerge, Journaled, Cloudless
<1>8. pc'[d] \notin {"merge", "rebase"}
  BY <1>1
<1>9. NamesFit'
  BY <1>1, NamesUntouched
<1> QED
  BY <1>5, <1>6, <1>7, <1>8, <1>9 DEF DeviceMerge, SidesStored, MergedSoFar, EditsStay, AsPromised

(* What is uploaded is stored here, and fits.                              *)
LEMMA PushSnapshotMerge ==
  ASSUME MergeInv, NEW d \in Device, pushSnapshot(d)
  PROVE  NamesFit' /\ DeviceMerge(d)'
<1> DEFINE s == Shortest(Fresh(d))
<1>1. /\ Fresh(d) # {} /\ remoteSnapshots' = remoteSnapshots \cup {s}
      /\ UNCHANGED <<tree, head, snapshots, chunks, changes, index, checkout, pc, round>>
  BY DEF pushSnapshot, deviceVars, repoVars
<1>2. s \in snapshots[d]
  BY <1>1, FreshFacts, MergeTypes
<1> HIDE DEF s
<1>3. NamesFit'
  BY <1>1, <1>2, NamesStored DEF MergeInv, NamesFit
<1> QED
  BY <1>1, <1>3, MergeUntouched DEF MergeInv, DeviceMerge, Cloudless

(* The rest neither touches a file nor stores a snapshot.                  *)
LEMMA QuietMerge ==
  ASSUME MergeInv, NEW d \in Device,
         \/ fetchChunk(d) \/ refuseRemote(d) \/ pushChunk(d) \/ setHead(d) \/ syncHeadMoved(d)
         \/ writeAnchor(d) \/ Failure(d)
  PROVE  NamesFit' /\ DeviceMerge(d)'
<1>1. DeviceMerge(d)
  BY DEF MergeInv
<1>2. /\ UNCHANGED <<tree, head, snapshots, changes, index, remoteSnapshots>>
      /\ chunks[d] \subseteq chunks'[d]
      /\ checkout'[d] \in {checkout[d], index[d]}
  BY MergeTypes
     DEF fetchChunk, refuseRemote, pushChunk, setHead, syncHeadMoved, writeAnchor, Failure,
         requestFails, answerLost, crash, deviceVars, repoVars, remoteVars
<1>3. NamesFit'
  BY <1>2, NamesUntouched
<1>5. \/ pc'[d] \in {"idle", "retry"}
      \/ pc'[d] = pc[d] /\ round'[d] = round[d]
      \/ Published(d) /\ Published(d)' /\ round'[d] = round[d]
  <2>1. CASE fetchChunk(d) \/ pushChunk(d)
    BY <2>1 DEF fetchChunk, pushChunk, deviceVars
  <2>2. CASE setHead(d)
    BY <2>2, MergeTypes DEF setHead, ReadyToCommit, Published
  <2>3. CASE refuseRemote(d) \/ writeAnchor(d) \/ Failure(d) \/ syncHeadMoved(d)
    BY <2>3, MergeTypes
       DEF refuseRemote, writeAnchor, syncHeadMoved, Failure, requestFails, answerLost, crash, EndRound
  <2> QED
    BY <2>1, <2>2, <2>3
<1> QED
  BY <1>1, <1>2, <1>3, <1>5, MergeUntouched DEF DeviceMerge, Cloudless

(* There is nothing to open in the cloud.                                  *)
LEMMA OpenMerge ==
  ASSUME MergeInv, NEW d \in Device
  PROVE  ~ Open(d)
BY DEF MergeInv, DeviceMerge, Cloudless, Open, materialize, isPending

-----------------------------------------------------------------------------
(* A device's steps leave the others' files, stores and rounds alone.      *)
Same(e) ==
  /\ tree'[e] = tree[e] /\ head'[e] = head[e] /\ snapshots'[e] = snapshots[e]
  /\ chunks'[e] = chunks[e] /\ changes'[e] = changes[e]
  /\ checkout'[e] = checkout[e] /\ index'[e] = index[e]
  /\ pc'[e] = pc[e] /\ round'[e] = round[e]

LEMMA OthersUser ==
  ASSUME MergeInv, NEW d \in Device, NEW e \in Device, e # d,
         User(d) \/ Open(d) \/ Failure(d)
  PROVE  Same(e)
<1>1. CASE User(d)
  BY <1>1, MergeTypes DEF User, Write, Delete, save, MayEdit, Same
<1>2. CASE Open(d)
  BY <1>2, OpenMerge
<1>3. CASE Failure(d)
  BY <1>3, MergeTypes DEF Failure, requestFails, answerLost, crash, EndRound, repoVars, Same
<1> QED
  BY <1>1, <1>2, <1>3

LEMMA OthersRound ==
  ASSUME MergeInv, NEW d \in Device, NEW e \in Device, e # d, Round(d)
  PROVE  Same(e)
<1>1. CASE startRound(d) \/ fetchSnapshot(d) \/ fetchChunk(d) \/ fetched(d) \/ refuseRemote(d)
  BY <1>1, MergeTypes
     DEF startRound, fetchSnapshot, fetchChunk, fetched, refuseRemote, Goto, EndRound, repoVars, Same
<1>2. CASE snapshotLocal(d) \/ snapshotMerged(d)
  BY <1>2, MergeTypes DEF snapshotLocal, snapshotMerged, snapshot, Goto, Same
<1>3. CASE mergeDone(d) \/ rebase(d)
  BY <1>3, MergeTypes DEF mergeDone, rebase, Goto, Same
<1>4. CASE pushChunk(d) \/ pushSnapshot(d) \/ setHead(d) \/ syncHeadMoved(d) \/ writeAnchor(d)
  BY <1>4, MergeTypes
     DEF pushChunk, pushSnapshot, setHead, syncHeadMoved, writeAnchor, EndRound, deviceVars,
         repoVars, Same
<1>5. CASE MergeStep(d)
  <2> PICK n \in Name :
        \/ mergeDelete(d, n) \/ mergeCreated(d, n) \/ mergeTake(d, n) \/ mergeKeep(d, n)
        \/ tryContentMerge(d, n) \/ writeConflictFile(d, n) \/ mergeThrows(d, n)
    BY <1>5 DEF MergeStep
  <2>1. CASE mergeThrows(d, n)
    BY <2>1, MergeTypes DEF mergeThrows, EndRound, repoVars, Same
  <2>2. CASE ~ mergeThrows(d, n)
    <3>1. Merging(d, n)
      BY <2>2
         DEF mergeDelete, mergeCreated, mergeTake, mergeKeep, tryContentMerge, writeConflictFile
    <3>2. /\ head' = head /\ snapshots' = snapshots /\ chunks' = chunks /\ index' = index
          /\ pc' = pc /\ round'[e] = round[e]
      BY <3>1, MergeTypes DEF Merging
    <3>3. ASSUME NEW k, NEW x, PutFile(d, k, x)
          PROVE  tree'[e] = tree[e] /\ changes'[e] = changes[e] /\ checkout'[e] = checkout[e]
      BY <3>3, MergeTypes DEF PutFile
    <3>4. ASSUME NEW entry, take(d, n, entry)
          PROVE  tree'[e] = tree[e] /\ changes'[e] = changes[e] /\ checkout'[e] = checkout[e]
      BY <3>3, <3>4, MergeTypes DEF take, markPending
    <3>5. tree'[e] = tree[e] /\ changes'[e] = changes[e] /\ checkout'[e] = checkout[e]
      <4>1. CASE mergeDelete(d, n)
        BY <4>1, MergeTypes DEF mergeDelete
      <4>2. CASE mergeCreated(d, n) \/ mergeTake(d, n)
        BY <3>4, <4>2 DEF mergeCreated, mergeTake
      <4>3. CASE mergeKeep(d, n)
        BY <4>3 DEF mergeKeep
      <4>4. CASE tryContentMerge(d, n)
        BY <3>3, <4>4 DEF tryContentMerge
      <4>5. CASE writeConflictFile(d, n)
        <5>1. \/ \E k : /\ checkout' = [checkout EXCEPT ![d].known = @ \cup {k}]
                        /\ UNCHANGED <<tree, changes>>
              \/ \E k : PutFile(d, k, remoteFile(d, n).hash)
          BY <4>5, Zenon DEF writeConflictFile
        <5> QED
          BY <3>3, <5>1, MergeTypes
      <4> QED
        BY <2>2, <4>1, <4>2, <4>3, <4>4, <4>5
    <3> QED
      BY <3>2, <3>5 DEF Same
  <2> QED
    BY <2>1, <2>2
<1> QED
  BY <1>1, <1>2, <1>3, <1>4, <1>5 DEF Round

(* Every step keeps the invariant.                                         *)
LEMMA MergeInvStep ==
  ASSUME MergeInv, EverythingWanted, CopiesApart, [Next]_vars
  PROVE  MergeInv'
<1>1. DeletionInv'
  BY DeletionInvStep DEF MergeInv
<1>2. ASSUME NEW e \in Device, Same(e)
      PROVE  DeviceMerge(e)'
  BY <1>2, MergeUntouched DEF Same, MergeInv, DeviceMerge, Cloudless
<1>3. ASSUME UNCHANGED <<deviceVars, remoteSnapshots>>
      PROVE  MergeInv'
  <2>1. \A e \in Device : Same(e)
    BY <1>3 DEF Same, deviceVars, repoVars
  <2>2. NamesFit'
    BY <1>3, NamesUntouched DEF deviceVars, repoVars
  <2> QED
    BY <1>1, <1>2, <2>1, <2>2 DEF MergeInv
<1>4. CASE rollBack
  BY <1>3, <1>4 DEF rollBack
<1>5. CASE UNCHANGED vars
  BY <1>3, <1>5 DEF vars, remoteVars
<1>6. ASSUME NEW d \in Device, User(d) \/ Round(d) \/ Open(d) \/ Failure(d)
      PROVE  MergeInv'
  <2>1. \A e \in Device \ {d} : Same(e)
    BY <1>6, OthersUser, OthersRound
  <2>2. NamesFit' /\ DeviceMerge(d)'
    <3>1. CASE User(d)
      BY <3>1, EditMerge, SaveMerge DEF User
    <3>2. CASE Open(d)
      BY <3>2, OpenMerge
    <3>3. CASE Round(d)
      BY <3>3, StartRoundMerge, FetchSnapshotMerge, FetchedMerge, SnapshotLocalMerge,
         MergeStepMerge, MergeDoneMerge, RebaseMerge, SnapshotMergedMerge, PushSnapshotMerge,
         QuietMerge
         DEF Round
    <3> QED
      BY <1>6, <3>1, <3>2, <3>3, QuietMerge
  <2> QED
    BY <1>1, <1>2, <2>1, <2>2 DEF MergeInv
<1> QED
  BY <1>4, <1>5, <1>6 DEF Next

(* MergeOutcome: where every device takes every file, and no user touches  *)
(* a conflict copy, what a round publishes is, name by name, the three-way *)
(* merge of the snapshot taken first and the remote head that was read,    *)
(* with a copy of the remote content where both had edited; whatever the   *)
(* journal, the replay and the second snapshot went through, and whatever  *)
(* was edited, saved or cut off around it.                                 *)
THEOREM MergesThreeWays ==
  ASSUME EverythingWanted, CopiesApart
  PROVE  Spec => []MergeOutcome
<1>1. Init => NamesFit /\ \A d \in Device : DeviceMerge(d)
  <2> SUFFICES ASSUME Init
               PROVE  NamesFit /\ \A d \in Device : DeviceMerge(d)
    OBVIOUS
  <2>1. NamesFit
    BY DEF Init, NamesFit
  <2> SUFFICES ASSUME NEW d \in Device
               PROVE  DeviceMerge(d)
    BY <2>1
  <2>2. /\ pc[d] = "idle" /\ Tip(head[d]) = Root /\ \A n \in Name : tree[d][n] = Absent
        /\ checkout[d].pending = {} /\ index[d].pending = {}
    BY DEF Init, Tip
  <2>3. ~ InMerge(d) /\ ~ Published(d) /\ pc[d] \notin {"fetched", "merge", "rebase"}
    BY <2>2 DEF InMerge, Published
  <2> QED
    BY <2>2, <2>3, RootChunks
       DEF DeviceMerge, SidesStored, Cloudless, AtHand, Journaled, MergedSoFar, EditsStay, AsPromised
<1>2. MergeInv /\ [Next]_vars => MergeInv'
  BY MergeInvStep
<1>3. DeletionInv /\ NamesFit /\ (\A d \in Device : DeviceMerge(d)) => MergeInv
  BY DEF MergeInv
<1>4. MergeInv => MergeOutcome
  <2> SUFFICES ASSUME MergeInv, NEW d \in Device, pc[d] \in {"push", "anchor"},
                      NEW n \in Path \ Mergeable
               PROVE  /\ MergedName(d, n) =
                           ThreeWay(HashOf(baseFile(d, n)), HashOf(localFile(d, n)),
                                    HashOf(remoteFile(d, n)))
                      /\ Conflict(d, n) /\ ~ RemoteUntouched(d, n) =>
                           MergedName(d, copyOf[n, remoteFile(d, n).hash]) = remoteFile(d, n).hash
    BY Zenon DEF MergeOutcome
  <2>1. /\ MergedName(d, n) = Promised(d, n)
        /\ Conflict(d, n) => MergedName(d, CopyOf(d, n)) = remoteFile(d, n).hash
    BY DEF MergeInv, DeviceMerge, AsPromised, Published
  <2> QED
    BY <2>1, Zenon DEF Promised, CopyOf, CopyName
<1>5. Spec => []DeletionInv
  BY DeletionInvariant
<1>6. Init /\ DeletionInv => MergeInv
  BY <1>1, <1>3
<1> QED
  BY <1>2, <1>4, <1>5, <1>6, PTL DEF Spec
=============================================================================
