-------------------------- MODULE SyncHistoryProofs --------------------------
(***************************************************************************)
(* How heads, anchors and what rounds publish are related: the snapshot a  *)
(* round publishes is on top of the remote head it read and below the      *)
(* device's own head, and the anchor stays below both.  Then what devices  *)
(* leave at the remote: as long as it was never rolled back, its chain     *)
(* only grows past every anchor and every head a round works with, so that *)
(* devices and remote implement the one growing history of SharedHistory.  *)
(***************************************************************************)
EXTENDS SyncEngineProofs

(* What is rebased and published is on top of the remote head that was read. *)
OnTop ==
  \A d \in Device :
    /\ pc[d] = "rebased" => IsPrefix(Tip(round[d].syncedHead), head[d])
    /\ pc[d] \in {"push", "anchor"} =>
         /\ IsPrefix(Tip(round[d].syncedHead), round[d].latest)
         /\ IsPrefix(round[d].latest, head[d])

(* The anchor is below the device's head, and below a remote head it accepted. *)
Anchored ==
  \A d \in Device :
    lastSynced[d] # NoHead =>
      /\ head[d] # NoHead /\ IsPrefix(lastSynced[d], head[d])
      /\ HasFetched(d) => IsPrefix(lastSynced[d], Tip(round[d].syncedHead))

HistoryInv == LocalInv /\ OnTop /\ Anchored

-----------------------------------------------------------------------------
(* The types of the variables this module is about.                        *)
LEMMA HistoryTypes ==
  ASSUME LocalInv
  PROVE  /\ head \in [Device -> MaybeHead] /\ lastSynced \in [Device -> MaybeHead]
         /\ pc \in [Device -> PcType] /\ round \in [Device -> RoundType]
BY DEF LocalInv, TypeOK, DiskTypeOK, MemoryTypeOK

(* A head or anchor that is set is a snapshot.                             *)
LEMMA HeadType ==
  ASSUME LocalInv, NEW d \in Device
  PROVE  /\ head[d] # NoHead => head[d] \in Snapshot
         /\ lastSynced[d] # NoHead => lastSynced[d] \in Snapshot
BY HistoryTypes DEF MaybeHead

(* A step that leaves heads, anchors and rounds alone keeps them related   *)
(* as they were; the rest of the state may change as it likes.             *)
LEMMA HistoryUntouched ==
  ASSUME OnTop, Anchored, UNCHANGED <<head, lastSynced, pc>>,
         \A d \in Device : /\ round'[d].syncedHead = round[d].syncedHead
                           /\ round'[d].latest = round[d].latest
  PROVE  OnTop' /\ Anchored'
BY DEF OnTop, Anchored, HasFetched

(* Ending a round early relates nothing anew.                              *)
LEMMA HistoryEndRound ==
  ASSUME HistoryInv, NEW d \in Device, UNCHANGED <<head, lastSynced>>, EndRound(d)
  PROVE  OnTop' /\ Anchored'
BY HistoryTypes DEF HistoryInv, OnTop, Anchored, HasFetched, EndRound

(* A device's head may move up its own chain whenever no merge is under    *)
(* way.                                                                    *)
LEMMA HistoryHeadGrows ==
  ASSUME HistoryInv, NEW d \in Device, NEW after \in Snapshot,
         IsPrefix(Tip(head[d]), after), pc[d] \notin {"merge", "rebase", "rebased"},
         head' = [head EXCEPT ![d] = after],
         UNCHANGED <<lastSynced, pc, round>>
  PROVE  OnTop' /\ Anchored'
<1>1. /\ head \in [Device -> MaybeHead] /\ lastSynced[d] \in MaybeHead
      /\ after # NoHead /\ round[d].latest \in Snapshot
  BY HistoryTypes, EngineAssumption, RoundFields DEF HistoryInv, LocalInv
<1>2. ASSUME NEW s \in Snapshot, head[d] # NoHead, IsPrefix(s, head[d])
      PROVE  IsPrefix(s, after)
  BY <1>1, <1>2, HeadType, PrefixTransitive DEF HistoryInv, Tip
<1>3. ASSUME NEW e \in Device
      PROVE  /\ e # d => head'[e] = head[e]
             /\ head'[d] = after
  BY <1>1
<1>4. OnTop'
  <2>1. pc[d] \in {"push", "anchor"} => head[d] # NoHead
    BY DEF HistoryInv, LocalInv, RoundStored, Underway
  <2> QED
    BY <1>1, <1>2, <1>3, <2>1 DEF HistoryInv, OnTop
<1>5. Anchored'
  <2>1. lastSynced[d] # NoHead =>
          lastSynced[d] \in Snapshot /\ head[d] # NoHead /\ IsPrefix(lastSynced[d], head[d])
    BY HeadType DEF HistoryInv, Anchored
  <2> QED
    BY <1>1, <1>2, <1>3, <2>1 DEF HistoryInv, Anchored, HasFetched
<1> QED
  BY <1>4, <1>5

(* A save during a fetch or a push keeps anchor and published snapshot     *)
(* below the head.                                                         *)
LEMMA SaveHistory ==
  ASSUME HistoryInv, NEW d \in Device, NEW n \in Path, NEW c \in Content, save(d, n, c)
  PROVE  OnTop' /\ Anchored'
<1> DEFINE before == recordCheckpoint(d, Tip(head[d]), n, tree[d][n])
           after == recordCheckpoint(d, before, n, c)
<1>1. n \in Name /\ Tip(head[d]) \in Snapshot /\ tree[d][n] \in Content
  BY EngineAssumption, TipType DEF HistoryInv, LocalInv, TypeOK, DiskTypeOK, save
<1>2. before \in Snapshot /\ IsPrefix(Tip(head[d]), before)
  BY <1>1, RecordCheckpointFacts
<1> HIDE DEF before
<1>3. after \in Snapshot /\ IsPrefix(before, after)
  BY <1>1, <1>2, RecordCheckpointFacts
<1>4. IsPrefix(Tip(head[d]), after)
  <2> HIDE DEF after
  <2> QED
    BY <1>1, <1>2, <1>3, PrefixTransitive
<1>5. /\ head' = [head EXCEPT ![d] = after]
      /\ UNCHANGED <<lastSynced, pc, round>> /\ pc[d] \notin {"merge", "rebase", "rebased"}
  BY DEF save, MayEdit, InExclusive, before
<1> HIDE DEF after
<1> QED
  BY <1>3, <1>4, <1>5, HistoryHeadGrows

(* A device with an anchor never begins a merge with a remote that has no  *)
(* head.                                                                   *)
LEMMA StartRoundHistory ==
  ASSUME HistoryInv, NEW d \in Device, startRound(d)
  PROVE  OnTop' /\ Anchored'
<1> DEFINE next == IF remoteHead = NoHead THEN "fetched" ELSE "fetch"
<1>1. /\ lastSynced[d] # NoHead => remoteHead # NoHead
      /\ head' = [head EXCEPT ![d] = Tip(head[d])]
      /\ round' = [round EXCEPT ![d].syncedHead = remoteHead]
      /\ pc' = [pc EXCEPT ![d] = next]
      /\ UNCHANGED lastSynced
  BY DEF startRound
<1>2. /\ head \in [Device -> MaybeHead] /\ pc \in [Device -> PcType]
      /\ round \in [Device -> RoundType]
  BY HistoryTypes DEF HistoryInv
<1>3. next \in {"fetch", "fetched"} /\ (lastSynced[d] # NoHead => next = "fetch")
  BY <1>1
<1> HIDE DEF next
<1>4. /\ head'[d] = Tip(head[d]) /\ pc'[d] = next
      /\ \A e \in Device \ {d} : head'[e] = head[e] /\ pc'[e] = pc[e] /\ round'[e] = round[e]
  BY <1>1, <1>2
<1>5. OnTop'
  BY <1>1, <1>3, <1>4 DEF HistoryInv, OnTop
<1>6. Anchored'
  BY <1>1, <1>3, <1>4 DEF HistoryInv, Anchored, HasFetched, Tip
<1> QED
  BY <1>5, <1>6

(* The anchor check lets a round go on only when the anchor is below the   *)
(* remote head.                                                            *)
LEMMA FetchedHistory ==
  ASSUME HistoryInv, NEW d \in Device, fetched(d)
  PROVE  OnTop' /\ Anchored'
<1>1. /\ pc[d] = "fetch" /\ pc' = [pc EXCEPT ![d] = "fetched"]
      /\ Descends(d) /\ UNCHANGED <<head, lastSynced, round>>
  BY DEF fetched, Goto, repoVars
<1>2. lastSynced[d] # NoHead => IsPrefix(lastSynced[d], Tip(round[d].syncedHead))
  <2> SUFFICES ASSUME lastSynced[d] # NoHead
               PROVE  IsPrefix(lastSynced[d], Tip(round[d].syncedHead))
    OBVIOUS
  <2>1. round[d].syncedHead \in Snapshot /\ Tip(round[d].syncedHead) = round[d].syncedHead
    BY <1>1, RoundFields DEF HistoryInv, LocalInv, RoundStored, MaybeHead, Tip
  <2>2. isAncestor(snapshots[d], lastSynced[d], round[d].syncedHead)
    BY <1>1 DEF Descends
  <2> QED
    BY <2>1, <2>2, HeadType, AncestorPrefix DEF HistoryInv
<1>3. pc \in [Device -> PcType]
  BY HistoryTypes DEF HistoryInv
<1> QED
  BY <1>1, <1>2, <1>3 DEF HistoryInv, OnTop, Anchored, HasFetched

(* The snapshots of a round put at most one more snapshot on the head.     *)
LEMMA SnapshotAnchored ==
  ASSUME HistoryInv, NEW d \in Device, head[d] # NoHead, head'[d] \in Snapshot,
         IsPrefix(head[d], head'[d]), \A e \in Device \ {d} : head'[e] = head[e],
         HasFetched(d), UNCHANGED lastSynced,
         \A e \in Device : round'[e].syncedHead = round[e].syncedHead,
         \A e \in Device \ {d} : pc'[e] = pc[e]
  PROVE  Anchored'
<1>1. head'[d] # NoHead
  BY EngineAssumption
<1>2. lastSynced[d] # NoHead => IsPrefix(lastSynced[d], head'[d])
  BY HeadType, PrefixTransitive DEF HistoryInv, Anchored
<1> QED
  BY <1>1, <1>2 DEF HistoryInv, Anchored, HasFetched

(* The snapshot before the merge keeps the anchor below the head.          *)
LEMMA SnapshotLocalHistory ==
  ASSUME HistoryInv, NEW d \in Device, snapshotLocal(d)
  PROVE  OnTop' /\ Anchored'
<1>1. /\ pc[d] = "fetched" /\ pc' = [pc EXCEPT ![d] = "merge"]
      /\ snapshot(d) /\ UNCHANGED lastSynced
  BY DEF snapshotLocal, Goto
<1>2. \A e \in Device : /\ round'[e].syncedHead = round[e].syncedHead
                        /\ round'[e].latest = round[e].latest
  BY HistoryTypes DEF HistoryInv, RoundType, snapshotLocal
<1>3. head[d] # NoHead
  BY <1>1 DEF HistoryInv, LocalInv, RoundStored, Underway
<1>4. /\ head'[d] \in Snapshot /\ IsPrefix(head[d], head'[d])
      /\ \A e \in Device \ {d} : head'[e] = head[e]
  BY <1>1, <1>3, SnapshotFacts DEF HistoryInv
<1>5. pc'[d] = "merge" /\ \A e \in Device \ {d} : pc'[e] = pc[e]
  BY <1>1, HistoryTypes DEF HistoryInv
<1>6. OnTop'
  BY <1>2, <1>4, <1>5 DEF HistoryInv, OnTop
<1>7. Anchored'
  BY <1>1, <1>2, <1>3, <1>4, <1>5, SnapshotAnchored DEF HasFetched
<1> QED
  BY <1>6, <1>7

(* The end of the merge moves no head.                                     *)
LEMMA MergeDoneHistory ==
  ASSUME HistoryInv, NEW d \in Device, mergeDone(d)
  PROVE  OnTop' /\ Anchored'
BY HistoryTypes DEF HistoryInv, OnTop, Anchored, HasFetched, mergeDone, Goto

(* rebase moves the head off its own chain, but not off the anchor: that   *)
(* is below the remote head.                                               *)
LEMMA RebaseHistory ==
  ASSUME HistoryInv, NEW d \in Device, rebase(d)
  PROVE  OnTop' /\ Anchored'
<1>1. /\ pc[d] = "rebase" /\ pc' = [pc EXCEPT ![d] = "rebased"]
      /\ head' = [head EXCEPT ![d] = rebased(d)]
      /\ UNCHANGED <<lastSynced, round>>
  BY DEF rebase, Goto
<1>2. /\ rebased(d) \in Snapshot /\ IsPrefix(Tip(round[d].syncedHead), rebased(d))
      /\ rebased(d) # NoHead /\ Tip(round[d].syncedHead) \in Snapshot
  BY <1>1, RebasedFacts, RoundFields, EngineAssumption DEF HistoryInv, LocalInv
<1>3. /\ pc'[d] = "rebased" /\ head'[d] = rebased(d)
      /\ \A e \in Device \ {d} : pc'[e] = pc[e] /\ head'[e] = head[e]
  BY <1>1, HistoryTypes DEF HistoryInv
<1>4. lastSynced[d] # NoHead => IsPrefix(lastSynced[d], Tip(round[d].syncedHead))
  BY <1>1 DEF HistoryInv, Anchored, HasFetched
<1>5. lastSynced[d] # NoHead => IsPrefix(lastSynced[d], rebased(d))
  BY <1>2, <1>4, HeadType, PrefixTransitive DEF HistoryInv
<1>6. OnTop'
  BY <1>1, <1>2, <1>3 DEF HistoryInv, OnTop
<1>7. Anchored'
  BY <1>1, <1>2, <1>3, <1>4, <1>5 DEF HistoryInv, Anchored, HasFetched
<1> QED
  BY <1>6, <1>7

(* The snapshot after the merge, which is what the round publishes, is on  *)
(* top of the remote head.                                                 *)
LEMMA SnapshotMergedHistory ==
  ASSUME HistoryInv, NEW d \in Device, snapshotMerged(d)
  PROVE  OnTop' /\ Anchored'
<1>1. pc[d] = "rebased" /\ snapshot(d) /\ UNCHANGED lastSynced
  BY DEF snapshotMerged
<1>2. head[d] # NoHead /\ head[d] \in Snapshot /\ Tip(round[d].syncedHead) \in Snapshot
  BY <1>1, HeadType, RoundFields DEF HistoryInv, LocalInv, RoundStored, Underway
<1>3. /\ head'[d] \in Snapshot /\ IsPrefix(head[d], head'[d])
      /\ \A e \in Device \ {d} : head'[e] = head[e]
  BY <1>1, <1>2, SnapshotFacts DEF HistoryInv
<1>4. /\ \A e \in Device : round'[e].syncedHead = round[e].syncedHead
      /\ \A e \in Device \ {d} : round'[e].latest = round[e].latest /\ pc'[e] = pc[e]
      /\ round'[d].latest = head'[d] /\ pc'[d] \in {"push", "anchor"}
  BY HistoryTypes DEF HistoryInv, RoundType, snapshotMerged
<1>5. IsPrefix(Tip(round[d].syncedHead), head'[d]) /\ IsPrefix(head'[d], head'[d])
  BY <1>1, <1>2, <1>3, PrefixTransitive, PrefixReflexive DEF HistoryInv, OnTop
<1>6. OnTop'
  BY <1>3, <1>4, <1>5 DEF HistoryInv, OnTop
<1>7. Anchored'
  BY <1>1, <1>2, <1>3, <1>4, SnapshotAnchored DEF HasFetched
<1> QED
  BY <1>6, <1>7

(* Publishing moves no local head.                                         *)
LEMMA SetHeadHistory ==
  ASSUME HistoryInv, NEW d \in Device, setHead(d)
  PROVE  OnTop' /\ Anchored'
BY HistoryTypes DEF HistoryInv, OnTop, Anchored, HasFetched, setHead, ReadyToCommit, repoVars

(* Running the round again relates nothing anew.                           *)
LEMMA SyncHeadMovedHistory ==
  ASSUME HistoryInv, NEW d \in Device, syncHeadMoved(d)
  PROVE  OnTop' /\ Anchored'
<1>1. CASE round[d].attempt < MaxRetries
  BY <1>1, HistoryTypes
     DEF HistoryInv, OnTop, Anchored, HasFetched, syncHeadMoved, repoVars
<1>2. CASE ~ (round[d].attempt < MaxRetries)
  BY <1>2, HistoryEndRound DEF syncHeadMoved, repoVars
<1> QED
  BY <1>1, <1>2

(* The anchor that a finished round writes is below the local head.        *)
LEMMA WriteAnchorHistory ==
  ASSUME HistoryInv, NEW d \in Device, writeAnchor(d)
  PROVE  OnTop' /\ Anchored'
<1>1. /\ pc[d] = "anchor" /\ lastSynced' = [lastSynced EXCEPT ![d] = round[d].latest]
      /\ EndRound(d) /\ UNCHANGED head
  BY DEF writeAnchor, repoVars
<1>2. head[d] # NoHead /\ IsPrefix(round[d].latest, head[d])
  BY <1>1 DEF HistoryInv, LocalInv, RoundStored, Underway, OnTop
<1>3. /\ lastSynced'[d] = round[d].latest /\ pc'[d] = "idle"
      /\ \A e \in Device \ {d} : /\ lastSynced'[e] = lastSynced[e] /\ pc'[e] = pc[e]
                                 /\ round'[e] = round[e]
  BY <1>1, HistoryTypes DEF HistoryInv, EndRound
<1> QED
  BY <1>1, <1>2, <1>3 DEF HistoryInv, OnTop, Anchored, HasFetched

(* No branch of merge moves a head.                                        *)
LEMMA MergeStepHistory ==
  ASSUME HistoryInv, NEW d \in Device, MergeStep(d)
  PROVE  OnTop' /\ Anchored'
<1> PICK n \in Name :
      \/ mergeDelete(d, n) \/ mergeCreated(d, n) \/ mergeTake(d, n) \/ mergeKeep(d, n)
      \/ tryContentMerge(d, n) \/ writeConflictFile(d, n) \/ mergeThrows(d, n)
  BY DEF MergeStep
<1>1. CASE Merging(d, n)
  BY <1>1, HistoryTypes, HistoryUntouched DEF HistoryInv, RoundType, Merging
<1>2. CASE mergeThrows(d, n)
  BY <1>2, HistoryEndRound DEF mergeThrows, repoVars
<1> QED
  BY <1>1, <1>2
     DEF mergeDelete, mergeCreated, mergeTake, mergeKeep, tryContentMerge, writeConflictFile

(* Every step of a round keeps heads, anchors and rounds related.          *)
LEMMA RoundHistory ==
  ASSUME HistoryInv, NEW d \in Device, Round(d)
  PROVE  OnTop' /\ Anchored'
<1>1. CASE fetchSnapshot(d) \/ fetchChunk(d)
  BY <1>1, HistoryUntouched DEF HistoryInv, fetchSnapshot, fetchChunk
<1>2. CASE pushChunk(d) \/ pushSnapshot(d)
  BY <1>2, HistoryUntouched DEF HistoryInv, pushChunk, pushSnapshot, deviceVars, repoVars
<1>3. CASE refuseRemote(d)
  BY <1>3, HistoryEndRound DEF refuseRemote, repoVars
<1> QED
  BY <1>1, <1>2, <1>3, StartRoundHistory, FetchedHistory, SnapshotLocalHistory, MergeStepHistory,
     MergeDoneHistory, RebaseHistory, SnapshotMergedHistory, SetHeadHistory,
     SyncHeadMovedHistory, WriteAnchorHistory DEF Round

(* Every step of the system keeps them related.                            *)
LEMMA HistoryInvStep ==
  ASSUME HistoryInv, [Next]_vars
  PROVE  HistoryInv'
<1>1. LocalInv'
  BY LocalInvStep DEF HistoryInv
<1>2. CASE rollBack \/ UNCHANGED vars
  BY <1>1, <1>2, HistoryUntouched DEF HistoryInv, rollBack, vars, deviceVars, repoVars
<1>3. ASSUME NEW d \in Device, User(d)
      PROVE  OnTop' /\ Anchored'
  <2>1. ASSUME NEW n \in Path, NEW c \in Content, Write(d, n, c)
        PROVE  OnTop' /\ Anchored'
    BY <2>1, HistoryUntouched DEF HistoryInv, Write, MayEdit
  <2>2. ASSUME NEW n \in Path, Delete(d, n)
        PROVE  OnTop' /\ Anchored'
    BY <2>2, HistoryUntouched DEF HistoryInv, Delete, MayEdit
  <2> QED
    BY <1>3, <2>1, <2>2, SaveHistory DEF User
<1>4. ASSUME NEW d \in Device, Open(d)
      PROVE  OnTop' /\ Anchored'
  BY <1>4, HistoryUntouched DEF HistoryInv, Open, materialize
<1>5. ASSUME NEW d \in Device, Failure(d)
      PROVE  OnTop' /\ Anchored'
  BY <1>5, HistoryEndRound DEF Failure, requestFails, answerLost, crash, repoVars
<1> QED
  BY <1>1, <1>2, <1>3, <1>4, <1>5, RoundHistory DEF HistoryInv, Next

-----------------------------------------------------------------------------
(* In every reachable state what a round is about to publish is on top of  *)
(* the remote head it read and below the device's own head, and every      *)
(* anchor is below the device's head.                                      *)
THEOREM HistoryInvariant == Spec => []HistoryInv
<1>1. Init => HistoryInv
  BY InitType DEF Init, HistoryInv, OnTop, Anchored
<1>2. HistoryInv /\ [Next]_vars => HistoryInv'
  BY HistoryInvStep
<1> QED
  BY <1>1, <1>2, PTL DEF Spec

(* Whatever users save while a round waits for the network, push publishes *)
(* a descendant of the remote head it read; this is what makes the         *)
(* compare-and-swap in setHead enough.                                     *)
THEOREM PushesOnTop == Spec => []PublishesOnTop
<1>1. HistoryInv => PublishesOnTop
  BY DEF HistoryInv, OnTop, PublishesOnTop
<1> QED
  BY <1>1, HistoryInvariant, PTL

(* Through merges, rebases, retries, crashes and rollbacks of the remote,  *)
(* the head a device last confirmed stays in its own history.              *)
THEOREM AnchorsKept == Spec => []AnchorKept
<1>1. HistoryInv => AnchorKept
  BY DEF HistoryInv, Anchored, AnchorKept
<1> QED
  BY <1>1, HistoryInvariant, PTL

-----------------------------------------------------------------------------
(* A version is what some snapshot of the chain lists for a name.          *)
LEMMA VersionAt ==
  ASSUME NEW s \in Snapshot, NEW v
  PROVE  v \in Versions(s) <=> \E i \in 1 .. Len(s) : \E n \in Listed(s[i]) : v = <<n, s[i][n].hash>>
<1>1. DOMAIN s = 1 .. Len(s)
  BY DEF Snapshot
<1> QED
  BY <1>1 DEF Versions

(* Putting snapshots on a chain takes no version out of it.                *)
LEMMA PrefixVersions ==
  ASSUME NEW s \in Snapshot, NEW p \in Snapshot, IsPrefix(p, s)
  PROVE  Versions(p) \subseteq Versions(s)
<1> SUFFICES ASSUME NEW v \in Versions(p)
             PROVE  v \in Versions(s)
  OBVIOUS
<1>1. PICK i \in 1 .. Len(p) : \E n \in Listed(p[i]) : v = <<n, p[i][n].hash>>
  BY VersionAt
<1>2. i \in 1 .. Len(s) /\ s[i] = p[i]
  BY PrefixLength, PrefixPointwise DEF Snapshot
<1> QED
  BY <1>1, <1>2, VersionAt

(* Nor does replaying it on top of another chain: a version since the base *)
(* is replayed where its name was touched, and is in the base otherwise.   *)
LEMMA ReplayVersions ==
  ASSUME NEW local \in Snapshot, NEW remote \in Snapshot, NEW base \in Snapshot,
         IsPrefix(base, local), IsPrefix(base, remote)
  PROVE  Versions(local) \subseteq Versions(replay(local, remote, base))
<1> DEFINE all == replay(local, remote, base)
<1>1. /\ all \in Snapshot /\ IsPrefix(remote, all) /\ IsPrefix(base, all)
      /\ Len(base) \in Nat /\ Len(local) \in Nat /\ Len(remote) \in Nat /\ Len(base) <= Len(local)
  <2>1. all \in Snapshot /\ IsPrefix(remote, all)
    BY ReplayOnTop
  <2> HIDE DEF all
  <2> QED
    BY <2>1, PrefixTransitive, PrefixLength DEF Snapshot
<1>2. PICK top \in Seq(Manifest) :
        /\ Len(top) = Len(local) - Len(base)
        /\ all = remote \o top
        /\ \A i \in 1 .. (Len(local) - Len(base)) : \A n \in Name :
             HashOf(top[i][n]) =
               HashOf(IF Touched(local, Len(base), Len(base) + i, n)
                      THEN local[Len(base) + i][n]
                      ELSE Files(remote)[n])
  BY ReplayTop
<1> HIDE DEF all
<1>3. /\ Len(all) = Len(remote) + (Len(local) - Len(base))
      /\ \A i \in 1 .. (Len(local) - Len(base)) : all[Len(remote) + i] = top[i]
  <2>1. remote \in Seq(Manifest)
    BY DEF Snapshot
  <2>2. /\ Len(remote \o top) = Len(remote) + Len(top)
        /\ \A i \in 1 .. Len(top) : (remote \o top)[Len(remote) + i] = top[i]
    BY <2>1
  <2> QED
    BY <1>2, <2>2
<1>4. ASSUME NEW i \in 1 .. Len(local), NEW n \in Listed(local[i]), i <= Len(base)
      PROVE  <<n, local[i][n].hash>> \in Versions(all)
  <2>1. i \in 1 .. Len(base) /\ base[i] = local[i]
    BY <1>1, <1>4, PrefixPointwise
  <2>2. <<n, local[i][n].hash>> \in Versions(base)
    BY <2>1, VersionAt
  <2> QED
    BY <1>1, <2>2, PrefixVersions
<1>5. ASSUME NEW i \in 1 .. Len(local), NEW n \in Listed(local[i]), i > Len(base),
             Touched(local, Len(base), i, n)
      PROVE  <<n, local[i][n].hash>> \in Versions(all)
  <2>1. PICK k \in 1 .. (Len(local) - Len(base)) : i = Len(base) + k
    <3>1. i - Len(base) \in 1 .. (Len(local) - Len(base)) /\ i = Len(base) + (i - Len(base))
      BY <1>1, <1>5
    <3> QED
      BY <3>1
  <2>2. n \in Name
    BY DEF Listed
  <2>3. HashOf(top[k][n]) = HashOf(local[i][n])
    BY <1>2, <1>5, <2>1, <2>2
  <2>4. Len(remote) + k \in 1 .. Len(all) /\ all[Len(remote) + k] = top[k]
    BY <1>1, <1>3
  <2>5. local[i] \in Manifest /\ top[k] \in Manifest
    BY <1>2 DEF Snapshot
  <2>6. local[i][n] # Absent /\ local[i][n].hash \in Content
    BY <2>5, ListedEntry DEF Listed
  <2>7. HashOf(top[k][n]) # Absent
    BY <2>3, <2>6, AbsentAssumption DEF HashOf
  <2>8. n \in Listed(top[k]) /\ top[k][n].hash = local[i][n].hash
    BY <2>2, <2>3, <2>6, <2>7 DEF HashOf, Listed
  <2> QED
    BY <1>1, <2>4, <2>8, VersionAt
<1>6. ASSUME NEW i \in 1 .. Len(local), NEW n \in Listed(local[i]), i > Len(base),
             ~ Touched(local, Len(base), i, n)
      PROVE  <<n, local[i][n].hash>> \in Versions(all)
  <2> DEFINE b == Len(base)
  <2>1. n \in Name /\ local[i] \in Manifest /\ local[i][n] # Absent
    BY DEF Listed, Snapshot
  <2>2. local[i][n].hash \in Content
    BY <2>1, ListedEntry
  <2>3. sameEntry(Manifests(local)[b + 1][n], Manifests(local)[i + 1][n])
    BY <1>1, <1>6, <2>1, UntouchedSame
  <2>4. \A j \in 1 .. Len(local) : Manifests(local)[j + 1] = local[j]
    <3>1. local \in Seq(Manifest) /\ <<NoFiles>> \in Seq({NoFiles}) /\ Len(<<NoFiles>>) = 1
      BY DEF Snapshot
    <3> QED
      BY <3>1 DEF Manifests
  <2>5. Manifests(local)[1] = NoFiles
    BY DEF Manifests, Snapshot
  <2>6. HashOf(local[i][n]) = local[i][n].hash /\ HashOf(local[i][n]) # Absent
    BY <2>1, <2>2, AbsentAssumption DEF HashOf
  <2>7. HashOf(Manifests(local)[b + 1][n]) = local[i][n].hash
        /\ HashOf(Manifests(local)[b + 1][n]) # Absent
    BY <2>3, <2>4, <2>6 DEF sameEntry
  <2>8. b # 0
    BY <2>1, <2>5, <2>7 DEF NoFiles, HashOf
  <2>9. b \in 1 .. Len(local)
    BY <1>1, <2>8
  <2>10. HashOf(local[b][n]) = local[i][n].hash /\ HashOf(local[b][n]) # Absent
    BY <2>4, <2>7, <2>9
  <2>11. n \in Listed(local[b]) /\ local[b][n].hash = local[i][n].hash
    BY <2>1, <2>10 DEF HashOf, Listed
  <2>12. <<n, local[b][n].hash>> \in Versions(all)
    BY <1>1, <1>4, <2>9, <2>11
  <2> QED
    BY <2>11, <2>12
<1>7. ASSUME NEW v \in Versions(local)
      PROVE  v \in Versions(all)
  <2>1. PICK i \in 1 .. Len(local) : \E n \in Listed(local[i]) : v = <<n, local[i][n].hash>>
    BY VersionAt
  <2>2. i <= Len(base) \/ i > Len(base)
    BY <1>1
  <2> QED
    BY <1>4, <1>5, <1>6, <2>1, <2>2
<1> QED
  BY <1>7 DEF all

(* rebase keeps the versions of both chains.                               *)
LEMMA RebaseVersions ==
  ASSUME LocalInv, NEW d \in Device, rebase(d)
  PROVE  Versions(Tip(head[d])) \subseteq Versions(Tip(head'[d]))
<1> DEFINE remote == Tip(round[d].syncedHead)
<1>1. pc[d] = "rebase" /\ head' = [head EXCEPT ![d] = rebased(d)]
  BY DEF rebase, Goto
<1>2. /\ Base(d) \in Snapshot /\ IsPrefix(Base(d), head[d]) /\ IsPrefix(Base(d), remote)
      /\ head[d] \in Snapshot /\ round[d].local = head[d] /\ remote \in Snapshot
  BY <1>1, BaseFacts, RoundFields DEF LocalInv
<1>3. head'[d] = rebased(d) /\ rebased(d) \in Snapshot
  BY <1>1, RebasedFacts, HistoryTypes
<1>4. Tip(head[d]) = head[d] /\ Tip(head'[d]) = rebased(d)
  BY <1>2, <1>3, EngineAssumption DEF Tip
<1>5. rebased(d) = head[d] \/ rebased(d) = replay(head[d], remote, Base(d))
  BY <1>2 DEF rebased
<1> HIDE DEF remote
<1>6. Versions(head[d]) \subseteq Versions(replay(head[d], remote, Base(d)))
  BY <1>2, ReplayVersions
<1> QED
  BY <1>4, <1>5, <1>6

(* Every other step leaves a head alone or puts snapshots on it.           *)
LEMMA HeadMoves ==
  ASSUME LocalInv, [Next]_vars, NEW d \in Device
  PROVE  \/ rebase(d)
         \/ Tip(head'[d]) = Tip(head[d])
         \/ head'[d] \in Snapshot /\ IsPrefix(Tip(head[d]), Tip(head'[d]))
<1>1. CASE rollBack \/ UNCHANGED vars
  BY <1>1 DEF rollBack, vars, deviceVars, repoVars
<1>2. ASSUME NEW e \in Device, User(e) \/ Round(e) \/ Open(e) \/ Failure(e)
      PROVE  \/ rebase(d)
             \/ Tip(head'[d]) = Tip(head[d])
             \/ head'[d] \in Snapshot /\ IsPrefix(Tip(head[d]), Tip(head'[d]))
  <2>1. ASSUME NEW n \in Path, NEW c \in Content, save(e, n, c)
        PROVE  Tip(head'[d]) = Tip(head[d])
               \/ (head'[d] \in Snapshot /\ IsPrefix(Tip(head[d]), Tip(head'[d])))
    <3> DEFINE before == recordCheckpoint(e, Tip(head[e]), n, tree[e][n])
               after == recordCheckpoint(e, before, n, c)
    <3>1. head' = [head EXCEPT ![e] = after] /\ tree[e][n] # Absent
      BY <2>1 DEF save
    <3>2. n \in Name /\ Tip(head[e]) \in Snapshot /\ tree[e][n] \in Content
      BY <3>1, EngineAssumption, TipType, HistoryTypes DEF LocalInv, TypeOK, DiskTypeOK
    <3>3. before \in Snapshot /\ IsPrefix(Tip(head[e]), before)
      BY <3>2, RecordCheckpointFacts
    <3> HIDE DEF before
    <3>4. after \in Snapshot /\ IsPrefix(before, after)
      BY <3>2, <3>3, RecordCheckpointFacts
    <3> HIDE DEF after
    <3>5. IsPrefix(Tip(head[e]), after)
      BY <3>2, <3>3, <3>4, PrefixTransitive
    <3> QED
      BY <3>1, <3>4, <3>5, EngineAssumption, HistoryTypes DEF Tip
  <2>2. CASE startRound(e)
    <3>1. head' = [head EXCEPT ![e] = Tip(head[e])]
      BY <2>2 DEF startRound
    <3>2. head'[d] = head[d] \/ head'[d] = Tip(head[d])
      BY <3>1, HistoryTypes
    <3> QED
      BY <3>2 DEF Tip
  <2>3. CASE snapshotLocal(e) \/ snapshotMerged(e)
    <3>1. snapshot(e) /\ UNCHANGED lastSynced /\ head[e] # NoHead
      BY <2>3 DEF snapshotLocal, snapshotMerged, Goto, LocalInv, RoundStored, Underway
    <3>2. /\ head'[e] \in Snapshot /\ IsPrefix(head[e], head'[e])
          /\ \A f \in Device \ {e} : head'[f] = head[f]
      BY <3>1, SnapshotFacts
    <3>3. CASE d = e
      <4>1. Tip(head[d]) = head[d] /\ Tip(head'[d]) = head'[d]
        BY <3>1, <3>2, <3>3, EngineAssumption DEF Tip
      <4> QED
        BY <3>2, <3>3, <4>1
    <3>4. CASE d # e
      BY <3>2, <3>4
    <3> QED
      BY <3>3, <3>4
  <2>4. CASE rebase(e)
    <3>1. d # e => head'[d] = head[d]
      BY <2>4, HistoryTypes DEF rebase
    <3> QED
      BY <2>4, <3>1
  <2>5. ASSUME UNCHANGED head
        PROVE  Tip(head'[d]) = Tip(head[d])
    BY <2>5
  <2>6. CASE User(e)
    BY <2>1, <2>5, <2>6 DEF User, Write, Delete
  <2>7. CASE Open(e)
    BY <2>5, <2>7 DEF Open, materialize
  <2>8. CASE Failure(e)
    BY <2>5, <2>8 DEF Failure, requestFails, answerLost, crash, repoVars
  <2>9. CASE MergeStep(e)
    BY <2>5, <2>9 DEF MergeStep, mergeDelete, mergeCreated, mergeTake, mergeKeep, tryContentMerge,
                      writeConflictFile, mergeThrows, Merging, repoVars
  <2>10. CASE \/ fetchSnapshot(e) \/ fetchChunk(e) \/ fetched(e) \/ refuseRemote(e) \/ mergeDone(e)
              \/ pushChunk(e) \/ pushSnapshot(e) \/ setHead(e) \/ syncHeadMoved(e) \/ writeAnchor(e)
    BY <2>5, <2>10 DEF fetchSnapshot, fetchChunk, fetched, refuseRemote, mergeDone, pushChunk,
                       pushSnapshot, setHead, syncHeadMoved, writeAnchor, deviceVars, repoVars
  <2> QED
    BY <1>2, <2>2, <2>3, <2>4, <2>6, <2>7, <2>8, <2>9, <2>10 DEF Round
<1> QED
  BY <1>1, <1>2 DEF Next

(* VersionsKept: no operation takes a recorded version of a file out of a  *)
(* device's history, not even the rebase that moves the head off its chain.*)
THEOREM NoVersionLost == Spec => VersionsKept
<1>1. ASSUME LocalInv, [Next]_vars
      PROVE  [\A d \in Device : Versions(Tip(head[d])) \subseteq Versions(Tip(head'[d]))]_vars
  <2>1. ASSUME NEW d \in Device
        PROVE  Versions(Tip(head[d])) \subseteq Versions(Tip(head'[d]))
    <3>1. CASE head'[d] \in Snapshot /\ IsPrefix(Tip(head[d]), Tip(head'[d]))
      <4>1. Tip(head[d]) \in Snapshot /\ Tip(head'[d]) \in Snapshot
        BY <1>1, <3>1, TipType, HistoryTypes DEF MaybeHead
      <4> QED
        BY <3>1, <4>1, PrefixVersions
    <3> QED
      BY <1>1, <3>1, HeadMoves, RebaseVersions
  <2> QED
    BY <2>1
<1> QED
  BY <1>1, LocalInvariant, PTL DEF Spec, VersionsKept

-----------------------------------------------------------------------------
(***************************************************************************)
(* The remote: chunks before snapshots, parents before children, the head  *)
(* last.                                                                   *)
(***************************************************************************)

(* The remote's store has no holes and all chunks. *)
RemoteStored ==
  /\ Whole(remoteSnapshots)
  /\ \A s \in remoteSnapshots : ChunksOf(s) \subseteq remoteChunks
  /\ remoteHead # NoHead => remoteHead \in remoteSnapshots

(* A head that was read stays stored there; what is pushed is stored here. *)
ReadFromRemote ==
  \A d \in Device :
    /\ Underway(d) /\ round[d].syncedHead # NoHead => round[d].syncedHead \in remoteSnapshots
    /\ pc[d] = "push" => round[d].latest \in snapshots[d]

(* The remote's chain goes through s, if s is set. *)
OnRemoteChain(s) == s # NoHead => remoteHead # NoHead /\ IsPrefix(s, remoteHead)

(* Without a rollback it goes through every anchor and everything read. *)
NoRollback ==
  rollbacks = 0 =>
    \A d \in Device :
      /\ OnRemoteChain(lastSynced[d])
      /\ Underway(d) => OnRemoteChain(round[d].syncedHead)
      /\ pc[d] = "anchor" => OnRemoteChain(round[d].latest)

RemoteInv == HistoryInv /\ RemoteStored /\ ReadFromRemote /\ NoRollback

-----------------------------------------------------------------------------
(* The types of the variables this module is about.                        *)
LEMMA RemoteTypes ==
  ASSUME LocalInv
  PROVE  /\ remoteHead \in MaybeHead /\ remoteSnapshots \in SUBSET Snapshot
         /\ snapshots \in [Device -> SUBSET Snapshot]
BY DEF LocalInv, TypeOK, DiskTypeOK, RemoteTypeOK

(* What a device does on its own disk does not reach the remote.           *)
LEMMA RemoteUntouchedByDisk ==
  ASSUME RemoteInv, UNCHANGED <<lastSynced, pc, remoteVars, rollbacks>>,
         \A d \in Device : /\ round'[d].syncedHead = round[d].syncedHead
                           /\ round'[d].latest = round[d].latest
                           /\ snapshots[d] \subseteq snapshots'[d]
  PROVE  RemoteStored' /\ ReadFromRemote' /\ NoRollback'
BY DEF RemoteInv, RemoteStored, ReadFromRemote, NoRollback, Underway, OnRemoteChain, remoteVars,
       Whole

(* A step that leaves the remote alone leaves it whole.                    *)
LEMMA RemoteStoredUntouched ==
  ASSUME RemoteStored, UNCHANGED remoteVars
  PROVE  RemoteStored'
BY DEF RemoteStored, remoteVars, Whole

(* Ending a round early leaves no reading of the remote behind.            *)
LEMMA RemoteEndRound ==
  ASSUME RemoteInv, NEW d \in Device, UNCHANGED <<snapshots, lastSynced, remoteVars, rollbacks>>,
         EndRound(d)
  PROVE  RemoteStored' /\ ReadFromRemote' /\ NoRollback'
<1>1. pc'[d] = "idle" /\ \A e \in Device \ {d} : pc'[e] = pc[e] /\ round'[e] = round[e]
  BY HistoryTypes DEF RemoteInv, HistoryInv, EndRound
<1>2. RemoteStored'
  BY RemoteStoredUntouched DEF RemoteInv
<1>3. ReadFromRemote'
  BY <1>1 DEF RemoteInv, ReadFromRemote, Underway, remoteVars
<1>4. NoRollback'
  BY <1>1 DEF RemoteInv, NoRollback, Underway, OnRemoteChain, remoteVars
<1> QED
  BY <1>2, <1>3, <1>4

(* A step of a round that changes neither anchor nor remote keeps what the *)
(* round read on the remote's chain.                                       *)
LEMMA RemoteRoundGoesOn ==
  ASSUME RemoteInv, NEW d \in Device, Underway(d), pc'[d] \notin {"push", "anchor"},
         UNCHANGED <<lastSynced, remoteVars, rollbacks>>,
         \A e \in Device : round'[e].syncedHead = round[e].syncedHead,
         \A e \in Device \ {d} : pc'[e] = pc[e] /\ round'[e].latest = round[e].latest
                                 /\ snapshots'[e] = snapshots[e]
  PROVE  RemoteStored' /\ ReadFromRemote' /\ NoRollback'
<1>1. RemoteStored'
  BY RemoteStoredUntouched DEF RemoteInv
<1>2. ReadFromRemote'
  BY DEF RemoteInv, ReadFromRemote, Underway, remoteVars
<1>3. NoRollback'
  BY DEF RemoteInv, NoRollback, Underway, OnRemoteChain, remoteVars
<1> QED
  BY <1>1, <1>2, <1>3

(* The head a round reads is stored at the remote.                         *)
LEMMA StartRoundRemote ==
  ASSUME RemoteInv, NEW d \in Device, startRound(d)
  PROVE  RemoteStored' /\ ReadFromRemote' /\ NoRollback'
<1>1. /\ \A e \in Device \ {d} : /\ pc'[e] = pc[e] /\ round'[e] = round[e]
                                 /\ snapshots'[e] = snapshots[e]
      /\ pc'[d] \in {"fetch", "fetched"} /\ round'[d].syncedHead = remoteHead
  BY HistoryTypes, RemoteTypes DEF RemoteInv, HistoryInv, startRound, RoundType
<1>2. UNCHANGED <<lastSynced, remoteVars, rollbacks>>
  BY DEF startRound, boundVars
<1>3. remoteHead # NoHead => remoteHead \in Snapshot /\ IsPrefix(remoteHead, remoteHead)
  BY RemoteTypes, PrefixReflexive DEF RemoteInv, HistoryInv, MaybeHead
<1>4. RemoteStored'
  BY <1>2, RemoteStoredUntouched DEF RemoteInv
<1>5. ReadFromRemote'
  BY <1>1, <1>2 DEF RemoteInv, RemoteStored, ReadFromRemote, Underway, remoteVars
<1>6. NoRollback'
  BY <1>1, <1>2, <1>3 DEF RemoteInv, NoRollback, Underway, OnRemoteChain, remoteVars
<1> QED
  BY <1>4, <1>5, <1>6

(* What a round is about to publish is in the local store, and when it is  *)
(* the remote head itself it is already published.                         *)
LEMMA SnapshotMergedRemote ==
  ASSUME RemoteInv, NEW d \in Device, snapshotMerged(d)
  PROVE  RemoteStored' /\ ReadFromRemote' /\ NoRollback'
<1>1. /\ pc[d] = "rebased" /\ snapshot(d) /\ head[d] # NoHead
      /\ UNCHANGED <<lastSynced, remoteVars, rollbacks>>
  BY DEF snapshotMerged, boundVars, RemoteInv, HistoryInv, LocalInv, RoundStored, Underway
<1>2. /\ head'[d] \in Snapshot /\ head'[d] # NoHead /\ StoresWhole'
      /\ \A e \in Device \ {d} : head'[e] = head[e] /\ snapshots'[e] = snapshots[e]
  BY <1>1, SnapshotFacts, EngineAssumption DEF RemoteInv, HistoryInv
<1>3. /\ \A e \in Device : round'[e].syncedHead = round[e].syncedHead
      /\ \A e \in Device \ {d} : round'[e].latest = round[e].latest /\ pc'[e] = pc[e]
      /\ round'[d].latest = head'[d]
      /\ pc'[d] = (IF head'[d] = round[d].syncedHead THEN "anchor" ELSE "push")
  BY HistoryTypes DEF RemoteInv, HistoryInv, RoundType, snapshotMerged
<1>4. RemoteStored'
  BY <1>1, RemoteStoredUntouched DEF RemoteInv
<1>5. head'[d] \in snapshots'[d]
  BY <1>2 DEF StoresWhole
<1>6. ReadFromRemote'
  BY <1>1, <1>2, <1>3, <1>5 DEF RemoteInv, ReadFromRemote, Underway, remoteVars
<1>7. NoRollback'
  BY <1>1, <1>3 DEF RemoteInv, NoRollback, Underway, OnRemoteChain, remoteVars
<1> QED
  BY <1>4, <1>6, <1>7

(* push's list is complete: an ancestor of the published snapshot that the *)
(* remote lacks is on it.                                                  *)
LEMMA PushChainHolds ==
  ASSUME RemoteInv, NEW d \in Device, pc[d] = "push", NEW p \in Snapshot,
         IsPrefix(p, round[d].latest), p \notin remoteSnapshots
  PROVE  p \in Fresh(d)
<1> DEFINE s == round[d].syncedHead
<1>1. /\ round[d].latest \in Snapshot /\ round[d].latest \in snapshots[d]
      /\ s \in MaybeHead
  BY RoundFields DEF RemoteInv, HistoryInv, LocalInv, ReadFromRemote
<1>2. ancestry(snapshots[d], round[d].latest) = Prefixes(round[d].latest)
  BY <1>1, AncestryComplete DEF RemoteInv, HistoryInv, LocalInv, StoresWhole, Whole
<1>3. p \in Prefixes(round[d].latest)
  BY <1>1, PrefixesAre
<1>4. ASSUME s \in Prefixes(round[d].latest)
      PROVE  Len(s) < Len(p)
  <2>1. s \in Snapshot /\ IsPrefix(s, round[d].latest) /\ Len(s) \in Nat /\ Len(p) \in Nat
    BY <1>1, <1>4, PrefixesAre DEF Snapshot
  <2>2. s \in remoteSnapshots
    BY <2>1, EngineAssumption DEF RemoteInv, ReadFromRemote, Underway
  <2>3. ASSUME Len(p) <= Len(s)
        PROVE  FALSE
    <3>1. IsPrefix(p, s)
      BY <1>1, <2>1, <2>3, PrefixTotal
    <3> QED
      BY <2>2, <3>1, RemoteTypes, WholePrefix DEF RemoteInv, HistoryInv, RemoteStored
  <2> QED
    BY <2>1, <2>3
<1> QED
  BY <1>2, <1>3, <1>4 DEF Fresh, PushChain

(* Uploading the shortest missing snapshot, when the remote has all        *)
(* chunks, leaves no hole at the remote.                                   *)
LEMMA PushSnapshotRemote ==
  ASSUME RemoteInv, NEW d \in Device, pushSnapshot(d)
  PROVE  RemoteStored' /\ ReadFromRemote' /\ NoRollback'
<1> DEFINE s == Shortest(Fresh(d))
<1>1. /\ pc[d] = "push" /\ OwedChunks(d) = {} /\ Fresh(d) # {}
      /\ remoteSnapshots' = remoteSnapshots \cup {s}
      /\ UNCHANGED <<deviceVars, remoteHead, remoteChunks, boundVars>>
  BY DEF pushSnapshot
<1>2. /\ s \in Fresh(d) /\ s \in Snapshot /\ IsPrefix(s, round[d].latest)
      /\ \A t \in Fresh(d) : Len(s) <= Len(t)
  BY <1>1, FreshFacts DEF RemoteInv, HistoryInv
<1> HIDE DEF s
<1>3. ChunksOf(s) \subseteq remoteChunks
  <2>1. ASSUME NEW c \in ChunksOf(s), c \notin remoteChunks
        PROVE  c \in OwedChunks(d)
    BY <1>2, <2>1 DEF OwedChunks
  <2> QED
    BY <1>1, <2>1
<1>4. ASSUME NEW p \in Prefixes(s)
      PROVE  p \in remoteSnapshots \cup {s}
  <2>1. p \in Snapshot /\ IsPrefix(p, s) /\ Len(p) <= Len(s) /\ Len(p) \in Nat /\ Len(s) \in Nat
    BY <1>2, PrefixesAre, PrefixLength DEF Snapshot
  <2>2. IsPrefix(p, round[d].latest)
    BY <1>2, <2>1, PrefixTransitive, RoundFields DEF RemoteInv, HistoryInv, LocalInv
  <2>3. CASE p \in Fresh(d)
    BY <1>2, <2>1, <2>3, PrefixAntisymmetric
  <2>4. CASE p \notin Fresh(d)
    BY <1>1, <2>1, <2>2, <2>4, PushChainHolds
  <2> QED
    BY <2>3, <2>4
<1>5. RemoteStored'
  BY <1>1, <1>3, <1>4 DEF RemoteInv, RemoteStored, Whole
<1>6. ReadFromRemote'
  BY <1>1 DEF RemoteInv, ReadFromRemote, Underway, deviceVars, repoVars
<1>7. NoRollback'
  BY <1>1 DEF RemoteInv, NoRollback, Underway, OnRemoteChain, deviceVars, boundVars
<1> QED
  BY <1>5, <1>6, <1>7

(* Uploading a chunk leaves no hole at the remote.                         *)
LEMMA PushChunkRemote ==
  ASSUME RemoteInv, NEW d \in Device, pushChunk(d)
  PROVE  RemoteStored' /\ ReadFromRemote' /\ NoRollback'
<1>1. /\ remoteChunks \subseteq remoteChunks'
      /\ UNCHANGED <<deviceVars, remoteHead, remoteSnapshots, boundVars>>
  BY DEF pushChunk
<1>2. RemoteStored'
  BY <1>1 DEF RemoteInv, RemoteStored, Whole
<1>3. ReadFromRemote'
  BY <1>1 DEF RemoteInv, ReadFromRemote, Underway, deviceVars, repoVars
<1>4. NoRollback'
  BY <1>1 DEF RemoteInv, NoRollback, Underway, OnRemoteChain, deviceVars, boundVars
<1> QED
  BY <1>2, <1>3, <1>4

(* When nothing is left to upload and the remote head is still the one     *)
(* that was read, moving it to the published snapshot loses nothing.       *)
LEMMA CommitRemote ==
  ASSUME RemoteInv, NEW d \in Device, ReadyToCommit(d), remoteHead = round[d].syncedHead,
         remoteHead' = round[d].latest
  PROVE  /\ remoteHead' \in Snapshot /\ remoteHead' # NoHead /\ remoteHead' \in remoteSnapshots
         /\ IsPrefix(Tip(remoteHead), remoteHead')
         /\ \A s \in MaybeHead : OnRemoteChain(s) => IsPrefix(Tip(s), remoteHead')
<1>1. round[d].latest \in Snapshot /\ pc[d] = "push" /\ Fresh(d) = {}
  BY RoundFields DEF RemoteInv, HistoryInv, LocalInv, ReadyToCommit
<1>2. round[d].latest # NoHead
  BY <1>1, EngineAssumption
<1>3. round[d].latest \in remoteSnapshots
  BY <1>1, PushChainHolds, PrefixReflexive
<1>4. IsPrefix(Tip(remoteHead), round[d].latest)
  BY <1>1 DEF RemoteInv, HistoryInv, OnTop
<1>5. ASSUME NEW s \in MaybeHead, OnRemoteChain(s)
      PROVE  IsPrefix(Tip(s), round[d].latest)
  <2>1. CASE s = NoHead
    BY <1>1, <2>1, PrefixRoot DEF Tip
  <2>2. CASE s # NoHead
    <3>1. /\ s \in Snapshot /\ remoteHead \in Snapshot /\ IsPrefix(s, remoteHead)
          /\ IsPrefix(remoteHead, round[d].latest)
      BY <1>4, <1>5, <2>2, RemoteTypes DEF OnRemoteChain, RemoteInv, HistoryInv, MaybeHead, Tip
    <3> QED
      BY <1>1, <2>2, <3>1, PrefixTransitive DEF Tip
  <2> QED
    BY <2>1, <2>2
<1> QED
  BY <1>1, <1>2, <1>3, <1>4, <1>5

(* The compare-and-swap keeps every anchor and every reading on the        *)
(* remote's chain.                                                         *)
LEMMA SetHeadRemote ==
  ASSUME RemoteInv, NEW d \in Device, setHead(d)
  PROVE  RemoteStored' /\ ReadFromRemote' /\ NoRollback'
<1>1. /\ ReadyToCommit(d) /\ remoteHead = round[d].syncedHead /\ remoteHead' = round[d].latest
      /\ pc' = [pc EXCEPT ![d] = "anchor"] /\ pc[d] = "push"
      /\ UNCHANGED <<snapshots, lastSynced, round, remoteSnapshots, remoteChunks, rollbacks>>
  BY DEF setHead, ReadyToCommit, repoVars, boundVars
<1>2. /\ remoteHead' \in Snapshot /\ remoteHead' # NoHead /\ remoteHead' \in remoteSnapshots
      /\ \A s \in MaybeHead : OnRemoteChain(s) => IsPrefix(Tip(s), remoteHead')
  BY <1>1, CommitRemote
<1>3. pc'[d] = "anchor" /\ \A e \in Device \ {d} : pc'[e] = pc[e]
  BY <1>1, HistoryTypes DEF RemoteInv, HistoryInv
<1>4. RemoteStored'
  BY <1>1, <1>2 DEF RemoteInv, RemoteStored, Whole
<1>5. ReadFromRemote'
  BY <1>1, <1>3 DEF RemoteInv, ReadFromRemote, Underway
<1>6. NoRollback'
  <2>1. \A e \in Device : lastSynced[e] \in MaybeHead /\ round[e].syncedHead \in MaybeHead
                          /\ round[e].latest \in MaybeHead
    BY RoundFields, HistoryTypes DEF RemoteInv, HistoryInv, LocalInv, MaybeHead
  <2>2. IsPrefix(round[d].latest, remoteHead')
    BY <1>1, <1>2, PrefixReflexive
  <2> QED
    BY <1>1, <1>2, <1>3, <2>1, <2>2 DEF RemoteInv, NoRollback, Underway, OnRemoteChain, Tip
<1> QED
  BY <1>4, <1>5, <1>6

(* So does a compare-and-swap whose answer is lost.                        *)
LEMMA AnswerLostRemote ==
  ASSUME RemoteInv, NEW d \in Device, answerLost(d)
  PROVE  RemoteStored' /\ ReadFromRemote' /\ NoRollback'
<1>1. /\ ReadyToCommit(d) /\ remoteHead = round[d].syncedHead /\ remoteHead' = round[d].latest
      /\ UNCHANGED <<snapshots, lastSynced, remoteSnapshots, remoteChunks, rollbacks>>
  BY DEF answerLost, repoVars
<1>2. /\ remoteHead' \in Snapshot /\ remoteHead' # NoHead /\ remoteHead' \in remoteSnapshots
      /\ \A s \in MaybeHead : OnRemoteChain(s) => IsPrefix(Tip(s), remoteHead')
  BY <1>1, CommitRemote
<1>3. pc'[d] = "idle" /\ \A e \in Device \ {d} : pc'[e] = pc[e] /\ round'[e] = round[e]
  BY HistoryTypes DEF RemoteInv, HistoryInv, answerLost, EndRound
<1>4. RemoteStored'
  BY <1>1, <1>2 DEF RemoteInv, RemoteStored, Whole
<1>5. ReadFromRemote'
  BY <1>1, <1>3 DEF RemoteInv, ReadFromRemote, Underway
<1>6. NoRollback'
  <2>1. \A e \in Device : lastSynced[e] \in MaybeHead /\ round[e].syncedHead \in MaybeHead
                          /\ round[e].latest \in MaybeHead
    BY RoundFields, HistoryTypes DEF RemoteInv, HistoryInv, LocalInv, MaybeHead
  <2> QED
    BY <1>1, <1>2, <1>3, <2>1 DEF RemoteInv, NoRollback, Underway, OnRemoteChain, Tip
<1> QED
  BY <1>4, <1>5, <1>6

(* Running the round again leaves the remote as it was.                    *)
LEMMA SyncHeadMovedRemote ==
  ASSUME RemoteInv, NEW d \in Device, syncHeadMoved(d)
  PROVE  RemoteStored' /\ ReadFromRemote' /\ NoRollback'
<1>1. CASE round[d].attempt < MaxRetries
  <2>1. UNCHANGED <<snapshots, lastSynced, remoteVars, rollbacks>>
    BY DEF syncHeadMoved, repoVars, boundVars
  <2>2. pc'[d] = "retry" /\ \A e \in Device \ {d} : pc'[e] = pc[e] /\ round'[e] = round[e]
    BY <1>1, HistoryTypes DEF RemoteInv, HistoryInv, syncHeadMoved
  <2>3. RemoteStored'
    BY <2>1, RemoteStoredUntouched DEF RemoteInv
  <2>4. ReadFromRemote'
    BY <2>1, <2>2 DEF RemoteInv, ReadFromRemote, Underway, remoteVars
  <2>5. NoRollback'
    BY <2>1, <2>2 DEF RemoteInv, NoRollback, Underway, OnRemoteChain, remoteVars
  <2> QED
    BY <2>3, <2>4, <2>5
<1>2. CASE ~ (round[d].attempt < MaxRetries)
  BY <1>2, RemoteEndRound DEF syncHeadMoved, repoVars, boundVars
<1> QED
  BY <1>1, <1>2

(* The anchor a finished round writes is on the remote's chain.            *)
LEMMA WriteAnchorRemote ==
  ASSUME RemoteInv, NEW d \in Device, writeAnchor(d)
  PROVE  RemoteStored' /\ ReadFromRemote' /\ NoRollback'
<1>1. /\ pc[d] = "anchor" /\ UNCHANGED <<snapshots, remoteVars, rollbacks>>
      /\ lastSynced' = [lastSynced EXCEPT ![d] = round[d].latest]
  BY DEF writeAnchor, repoVars, boundVars
<1>2. /\ pc'[d] = "idle" /\ lastSynced'[d] = round[d].latest
      /\ \A e \in Device \ {d} : /\ pc'[e] = pc[e] /\ round'[e] = round[e]
                                 /\ lastSynced'[e] = lastSynced[e]
  BY <1>1, HistoryTypes DEF RemoteInv, HistoryInv, writeAnchor, EndRound
<1>3. RemoteStored'
  BY <1>1, RemoteStoredUntouched DEF RemoteInv
<1>4. ReadFromRemote'
  BY <1>1, <1>2 DEF RemoteInv, ReadFromRemote, Underway, remoteVars
<1>5. NoRollback'
  BY <1>1, <1>2 DEF RemoteInv, NoRollback, Underway, OnRemoteChain, remoteVars
<1> QED
  BY <1>3, <1>4, <1>5

(* A remote that serves an older head still has everything that head       *)
(* needs.                                                                  *)
LEMMA RollBackRemote ==
  ASSUME RemoteInv, rollBack
  PROVE  RemoteStored' /\ ReadFromRemote' /\ NoRollback'
<1>1. /\ rollbacks' = rollbacks + 1 /\ rollbacks \in Nat
      /\ UNCHANGED <<deviceVars, remoteSnapshots, remoteChunks>>
  BY DEF rollBack, RemoteInv, HistoryInv, LocalInv, TypeOK, BoundTypeOK
<1>2. remoteHead' # NoHead => remoteHead' \in remoteSnapshots
  BY DEF RemoteInv, RemoteStored, Whole, rollBack
<1>3. RemoteStored'
  BY <1>1, <1>2 DEF RemoteInv, RemoteStored, Whole
<1>4. ReadFromRemote'
  BY <1>1 DEF RemoteInv, ReadFromRemote, Underway, deviceVars, repoVars
<1>5. NoRollback'
  BY <1>1 DEF NoRollback
<1> QED
  BY <1>3, <1>4, <1>5

-----------------------------------------------------------------------------
(* No branch of merge reaches the remote.                                  *)
LEMMA MergeStepRemote ==
  ASSUME RemoteInv, NEW d \in Device, MergeStep(d)
  PROVE  RemoteStored' /\ ReadFromRemote' /\ NoRollback'
<1> PICK n \in Name :
      \/ mergeDelete(d, n) \/ mergeCreated(d, n) \/ mergeTake(d, n) \/ mergeKeep(d, n)
      \/ tryContentMerge(d, n) \/ writeConflictFile(d, n) \/ mergeThrows(d, n)
  BY DEF MergeStep
<1>1. CASE Merging(d, n)
  <2>1. UNCHANGED <<snapshots, lastSynced, pc, remoteVars, rollbacks>>
    BY <1>1 DEF Merging, boundVars
  <2>2. \A e \in Device : /\ round'[e].syncedHead = round[e].syncedHead
                          /\ round'[e].latest = round[e].latest
    BY <1>1, HistoryTypes DEF RemoteInv, HistoryInv, Merging, RoundType
  <2> QED
    BY <2>1, <2>2, RemoteUntouchedByDisk
<1>2. CASE mergeThrows(d, n)
  BY <1>2, RemoteEndRound DEF mergeThrows, repoVars, boundVars
<1> QED
  BY <1>1, <1>2
     DEF mergeDelete, mergeCreated, mergeTake, mergeKeep, tryContentMerge, writeConflictFile

(* The steps between fetch and push leave the remote alone.                *)
LEMMA StepOnRound ==
  ASSUME RemoteInv, NEW d \in Device,
         fetched(d) \/ snapshotLocal(d) \/ mergeDone(d) \/ rebase(d)
  PROVE  RemoteStored' /\ ReadFromRemote' /\ NoRollback'
<1>1. Underway(d) /\ pc'[d] \in {"fetched", "merge", "rebase", "rebased"}
      /\ \A e \in Device \ {d} : pc'[e] = pc[e]
  BY HistoryTypes
     DEF RemoteInv, HistoryInv, Underway, fetched, snapshotLocal, mergeDone, rebase, Goto
<1>2. UNCHANGED <<lastSynced, remoteVars, rollbacks>>
  BY DEF fetched, snapshotLocal, mergeDone, rebase, boundVars
<1>3. /\ \A e \in Device : round'[e].syncedHead = round[e].syncedHead
      /\ \A e \in Device \ {d} : round'[e].latest = round[e].latest
  <2>1. CASE snapshotLocal(d)
    BY <2>1, HistoryTypes DEF RemoteInv, HistoryInv, RoundType, snapshotLocal
  <2>2. CASE fetched(d) \/ mergeDone(d) \/ rebase(d)
    BY <2>2 DEF fetched, mergeDone, rebase
  <2> QED
    BY <2>1, <2>2
<1>4. \A e \in Device \ {d} : snapshots'[e] = snapshots[e]
  BY RemoteTypes
     DEF RemoteInv, HistoryInv, fetched, snapshotLocal, snapshot, mergeDone, rebase, repoVars
<1> QED
  BY <1>1, <1>2, <1>3, <1>4, RemoteRoundGoesOn

(* Every step of a round keeps the remote whole and what was read of it    *)
(* related to its head.                                                    *)
LEMMA RoundRemote ==
  ASSUME RemoteInv, NEW d \in Device, Round(d)
  PROVE  RemoteStored' /\ ReadFromRemote' /\ NoRollback'
<1>1. CASE fetchSnapshot(d) \/ fetchChunk(d)
  <2>1. /\ UNCHANGED <<lastSynced, pc, round, remoteVars, rollbacks>>
        /\ \A e \in Device : snapshots[e] \subseteq snapshots'[e]
    BY <1>1, RemoteTypes DEF RemoteInv, HistoryInv, fetchSnapshot, fetchChunk, boundVars
  <2> QED
    BY <2>1, RemoteUntouchedByDisk
<1>2. CASE refuseRemote(d)
  BY <1>2, RemoteEndRound DEF refuseRemote, repoVars, boundVars
<1> QED
  BY <1>1, <1>2, StartRoundRemote, StepOnRound, MergeStepRemote, SnapshotMergedRemote,
     PushChunkRemote, PushSnapshotRemote, SetHeadRemote, SyncHeadMovedRemote, WriteAnchorRemote
     DEF Round

(* Every step of the system does.                                          *)
LEMMA RemoteInvStep ==
  ASSUME RemoteInv, [Next]_vars
  PROVE  RemoteInv'
<1>1. HistoryInv'
  BY HistoryInvStep DEF RemoteInv
<1>2. CASE UNCHANGED vars
  BY <1>1, <1>2, RemoteUntouchedByDisk
     DEF RemoteInv, vars, deviceVars, repoVars, boundVars
<1>3. ASSUME NEW d \in Device, User(d) \/ Open(d)
      PROVE  RemoteStored' /\ ReadFromRemote' /\ NoRollback'
  <2>1. /\ UNCHANGED <<lastSynced, pc, round, remoteVars, rollbacks>>
        /\ \A e \in Device : snapshots[e] \subseteq snapshots'[e]
    BY <1>3, RemoteTypes
       DEF RemoteInv, HistoryInv, User, Open, Write, Delete, save, MayEdit, materialize, boundVars
  <2> QED
    BY <2>1, RemoteUntouchedByDisk
<1>4. ASSUME NEW d \in Device, Failure(d)
      PROVE  RemoteStored' /\ ReadFromRemote' /\ NoRollback'
  BY <1>4, RemoteEndRound, AnswerLostRemote DEF Failure, requestFails, crash, repoVars
<1> QED
  BY <1>1, <1>2, <1>3, <1>4, RoundRemote, RollBackRemote DEF RemoteInv, Next

(* In every reachable state the remote is whole and, as long as it was     *)
(* never rolled back, every anchor and every head a round works with is on *)
(* its chain.                                                              *)
THEOREM RemoteInvariant == Spec => []RemoteInv
<1>1. Init => RemoteInv
  <2> SUFFICES ASSUME Init
               PROVE  RemoteInv
    OBVIOUS
  <2>1. HistoryInv
    BY InitType DEF Init, HistoryInv, OnTop, Anchored
  <2>2. RemoteStored /\ ReadFromRemote /\ NoRollback
    BY DEF Init, RemoteStored, ReadFromRemote, NoRollback, Whole, Underway, OnRemoteChain
  <2> QED
    BY <2>1, <2>2 DEF RemoteInv
<1>2. RemoteInv /\ [Next]_vars => RemoteInv'
  BY RemoteInvStep
<1> QED
  BY <1>1, <1>2, PTL DEF Spec

(* Whatever failed or crashed while devices pushed, the remote never holds *)
(* a snapshot without its parent or chunks, nor a head without its         *)
(* snapshot: push's order -- chunks, snapshots oldest first, head -- is    *)
(* enough.                                                                 *)
THEOREM RemoteNeverTorn == Spec => []RemoteClosed
<1>1. RemoteInv => RemoteClosed
  <2> SUFFICES ASSUME RemoteInv, NEW s \in remoteSnapshots, s # Root
               PROVE  Front(s) \in remoteSnapshots
    BY DEF RemoteInv, RemoteStored, RemoteClosed
  <2> QED
    BY RemoteTypes, FrontPrefix, WholePrefix DEF RemoteInv, HistoryInv, RemoteStored
<1> QED
  BY <1>1, RemoteInvariant, PTL

(* The anchor check never refuses a remote that was not rolled back: an    *)
(* anchor is only written after the head it names was published, and a     *)
(* lost answer writes none.                                                *)
THEOREM AlarmsAreReal == Spec => []NoFalseAlarm
<1>1. RemoteInv => NoFalseAlarm
  BY DEF RemoteInv, NoRollback, NoFalseAlarm, OnRemoteChain
<1> QED
  BY <1>1, RemoteInvariant, PTL

-----------------------------------------------------------------------------
(***************************************************************************)
(* The remote head only ever moves up its own chain, and the devices with  *)
(* their remote implement the one growing history of SharedHistory.        *)
(***************************************************************************)

(* A remote head that stays is on top of itself.                           *)
LEMMA TipGrows ==
  ASSUME RemoteInv, remoteHead' = remoteHead
  PROVE  IsPrefix(Tip(remoteHead), Tip(remoteHead'))
BY RemoteTypes, TipType, PrefixReflexive DEF RemoteInv, HistoryInv

(* Only a commit and a rollback move the remote head, and only a finished  *)
(* round moves an anchor.                                                  *)
LEMMA WhoMoves ==
  ASSUME RemoteInv, [Next]_vars
  PROVE  \/ UNCHANGED <<remoteHead, lastSynced>>
         \/ rollBack
         \/ \E d \in Device :
              /\ ReadyToCommit(d) /\ remoteHead = round[d].syncedHead
              /\ remoteHead' = round[d].latest
              /\ UNCHANGED lastSynced
         \/ \E d \in Device : writeAnchor(d)
<1>1. ASSUME NEW d \in Device, setHead(d) \/ answerLost(d)
      PROVE  /\ ReadyToCommit(d) /\ remoteHead = round[d].syncedHead
             /\ remoteHead' = round[d].latest
             /\ UNCHANGED lastSynced
  BY <1>1 DEF setHead, answerLost
<1>2. ASSUME NEW d \in Device, NEW n \in Name, Merging(d, n) \/ mergeThrows(d, n)
      PROVE  UNCHANGED <<remoteHead, lastSynced>>
  BY <1>2 DEF Merging, mergeThrows, remoteVars
<1>3. ASSUME NEW d \in Device, MergeStep(d)
      PROVE  UNCHANGED <<remoteHead, lastSynced>>
  BY <1>2, <1>3
     DEF MergeStep, mergeDelete, mergeCreated, mergeTake, mergeKeep, tryContentMerge,
         writeConflictFile
<1>4. ASSUME NEW d \in Device,
             \/ startRound(d) \/ fetchSnapshot(d) \/ fetchChunk(d) \/ fetched(d) \/ refuseRemote(d)
             \/ snapshotLocal(d) \/ mergeDone(d) \/ rebase(d) \/ snapshotMerged(d)
             \/ pushChunk(d) \/ pushSnapshot(d) \/ syncHeadMoved(d)
      PROVE  UNCHANGED <<remoteHead, lastSynced>>
  BY <1>4
     DEF startRound, fetchSnapshot, fetchChunk, fetched, refuseRemote, snapshotLocal, mergeDone,
         rebase, snapshotMerged, pushChunk, pushSnapshot, syncHeadMoved, remoteVars, deviceVars
<1>5. ASSUME NEW d \in Device, User(d) \/ Open(d) \/ requestFails(d) \/ crash(d)
      PROVE  UNCHANGED <<remoteHead, lastSynced>>
  BY <1>5 DEF User, Open, Write, Delete, save, MayEdit, materialize, requestFails, crash, remoteVars
<1>6. CASE UNCHANGED vars
  BY <1>6 DEF vars, deviceVars, remoteVars
<1> QED
  BY <1>1, <1>3, <1>4, <1>5, <1>6 DEF Next, Round, Failure

(* A step that is no rollback moves the remote head up its own chain or    *)
(* not at all.                                                             *)
LEMMA RemoteHeadStep ==
  ASSUME RemoteInv, [Next]_vars, rollbacks' = rollbacks
  PROVE  IsPrefix(Tip(remoteHead), Tip(remoteHead'))
<1>1. CASE rollBack
  BY <1>1 DEF rollBack, RemoteInv, HistoryInv, LocalInv, TypeOK, BoundTypeOK
<1>2. ASSUME NEW d \in Device, ReadyToCommit(d), remoteHead = round[d].syncedHead,
             remoteHead' = round[d].latest
      PROVE  IsPrefix(Tip(remoteHead), Tip(remoteHead'))
  BY <1>2, CommitRemote DEF Tip
<1>3. ASSUME NEW d \in Device, writeAnchor(d)
      PROVE  remoteHead' = remoteHead
  BY <1>3 DEF writeAnchor, remoteVars
<1> QED
  BY <1>1, <1>2, <1>3, WhoMoves, TipGrows

(* However rounds interleave, and also when a head that was rolled back is *)
(* built upon, devices only put their work on top of what is published: no *)
(* interleaving of rounds loses another device's snapshots.                *)
THEOREM RemoteGrows == Spec => RemoteOnlyGrows
<1>1. RemoteInv /\ [Next]_vars
        => [rollbacks' = rollbacks => IsPrefix(Tip(remoteHead), Tip(remoteHead'))]_vars
  BY RemoteHeadStep
<1> QED
  BY <1>1, RemoteInvariant, PTL DEF Spec, RemoteOnlyGrows

-----------------------------------------------------------------------------
(* The abstract specification's operators on sequences are the ones used   *)
(* here.                                                                   *)
LEMMA HistoryOperators ==
  ASSUME NEW s, NEW t
  PROVE  /\ History!IsPrefix(s, t) <=> IsPrefix(s, t)
         /\ History!IsStrictPrefix(s, t) <=> IsPrefix(s, t) /\ s # t
         /\ History!Prefixes(s) = Prefixes(s)
<1>1. History!IsPrefix(s, t) <=> IsPrefix(s, t)
  BY DEF IsPrefix, History!IsPrefix
<1> QED
  BY <1>1 DEF History!IsStrictPrefix, Prefixes, History!Prefixes

(* Initial states map to initial states.                                   *)
LEMMA HistoryStarts == Init => History!Init
<1>1. IsPrefix(Root, Root) /\ Root \in Snapshot
  BY DEF IsPrefix, Root, Snapshot
<1>2. Root \in Prefixes(Root)
  BY <1>1, PrefixesAre
<1>3. Root \in History!Prefixes(Root)
  BY <1>2, HistoryOperators
<1> QED
  BY <1>3 DEF Init, History!Init, Tip, Root

(* Writing the anchor is confirming a longer part of the published         *)
(* history.                                                                *)
LEMMA ConfirmStep ==
  ASSUME RemoteInv, rollbacks = 0, NEW d \in Device, writeAnchor(d)
  PROVE  History!Confirm(d)
<1>1. /\ pc[d] = "anchor" /\ lastSynced' = [lastSynced EXCEPT ![d] = round[d].latest]
      /\ remoteHead' = remoteHead
  BY DEF writeAnchor, remoteVars
<1>2. /\ round[d].latest \in Snapshot /\ round[d].latest # NoHead
      /\ Tip(round[d].syncedHead) \in Snapshot
  BY RoundFields, EngineAssumption DEF RemoteInv, HistoryInv, LocalInv
<1>3. remoteHead # NoHead /\ remoteHead \in Snapshot /\ IsPrefix(round[d].latest, remoteHead)
  BY <1>1, <1>2, RemoteTypes DEF RemoteInv, HistoryInv, NoRollback, OnRemoteChain, MaybeHead
<1>4. round[d].latest \in Prefixes(Tip(remoteHead))
  BY <1>2, <1>3, PrefixesAre DEF Tip
<1>5. IsPrefix(Tip(lastSynced[d]), round[d].latest)
  <2>1. CASE lastSynced[d] = NoHead
    BY <1>2, <2>1, PrefixRoot DEF Tip
  <2>2. CASE lastSynced[d] # NoHead
    <3>1. /\ IsPrefix(lastSynced[d], Tip(round[d].syncedHead))
          /\ IsPrefix(Tip(round[d].syncedHead), round[d].latest)
      BY <1>1, <2>2 DEF RemoteInv, HistoryInv, Anchored, OnTop, HasFetched
    <3> QED
      BY <1>2, <2>2, <3>1, HeadType, PrefixTransitive DEF RemoteInv, HistoryInv, Tip
  <2> QED
    BY <2>1, <2>2
<1>6. [e \in Device |-> Tip(lastSynced'[e])]
        = [[e \in Device |-> Tip(lastSynced[e])] EXCEPT ![d] = round[d].latest]
  BY <1>1, <1>2, HistoryTypes DEF RemoteInv, HistoryInv, Tip
<1>7. UNCHANGED Tip(remoteHead)
  BY <1>1
<1>8. [e \in Device |-> Tip(lastSynced[e])][d] = Tip(lastSynced[d])
  OBVIOUS
<1>9. \E s \in Prefixes(Tip(remoteHead)) :
        /\ IsPrefix([e \in Device |-> Tip(lastSynced[e])][d], s)
        /\ [e \in Device |-> Tip(lastSynced[e])]'
             = [[e \in Device |-> Tip(lastSynced[e])] EXCEPT ![d] = s]
  BY <1>4, <1>5, <1>6, <1>8
<1> QED
  BY <1>7, <1>9, HistoryOperators DEF History!Confirm

(* Every step publishes, confirms or is invisible.                         *)
LEMMA HistoryMoves ==
  ASSUME RemoteInv, rollbacks = 0, rollbacks' = 0, [Next]_vars
  PROVE  [History!Next]_<<Tip(remoteHead), [d \in Device |-> Tip(lastSynced[d])]>>
<1>1. CASE UNCHANGED <<remoteHead, lastSynced>>
  BY <1>1
<1>2. CASE rollBack
  BY <1>2 DEF rollBack
<1>3. ASSUME NEW d \in Device, ReadyToCommit(d), remoteHead = round[d].syncedHead,
             remoteHead' = round[d].latest, UNCHANGED lastSynced
      PROVE  [History!Next]_<<Tip(remoteHead), [e \in Device |-> Tip(lastSynced[e])]>>
  <2>1. IsPrefix(Tip(remoteHead), Tip(remoteHead'))
    BY <1>3, CommitRemote DEF Tip
  <2>2. CASE Tip(remoteHead') = Tip(remoteHead)
    BY <1>3, <2>2
  <2>3. CASE Tip(remoteHead') # Tip(remoteHead)
    <3>1. History!IsStrictPrefix(Tip(remoteHead), Tip(remoteHead'))
      BY <2>1, <2>3, HistoryOperators
    <3>2. UNCHANGED [e \in Device |-> Tip(lastSynced[e])]
      BY <1>3
    <3>3. History!Publish
      BY <3>1, <3>2 DEF History!Publish
    <3> QED
      BY <3>3 DEF History!Next
  <2> QED
    BY <2>2, <2>3
<1>4. ASSUME NEW d \in Device, writeAnchor(d)
      PROVE  History!Next
  BY <1>4, ConfirmStep DEF History!Next
<1> QED
  BY <1>1, <1>2, <1>3, <1>4, WhoMoves

(* On a remote that is never rolled back, any number of devices with       *)
(* rounds of many interruptible steps, failures, crashes and retries       *)
(* implement one shared history that only grows at its end and that every  *)
(* device confirms from the beginning.                                     *)
THEOREM SyncImplementsHistory ==
  ASSUME MaxRollbacks = 0
  PROVE  Spec => ImplementsSharedHistory
<1>1. RemoteInv => rollbacks = 0
  BY DEF RemoteInv, HistoryInv, LocalInv, TypeOK, BoundTypeOK
<1>2. RemoteInv /\ RemoteInv' /\ [Next]_vars
        => [History!Next]_<<Tip(remoteHead), [d \in Device |-> Tip(lastSynced[d])]>>
  <2>1. RemoteInv' => rollbacks' = 0
    BY DEF RemoteInv, HistoryInv, LocalInv, TypeOK, BoundTypeOK
  <2> QED
    BY <1>1, <2>1, HistoryMoves
<1> QED
  BY <1>2, HistoryStarts, RemoteInvariant, PTL
     DEF Spec, ImplementsSharedHistory, History!Spec
=============================================================================
