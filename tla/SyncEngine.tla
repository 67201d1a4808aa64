----------------------------- MODULE SyncEngine -----------------------------
(***************************************************************************)
(* Devices that keep one vault in step through a remote (packages/sync):   *)
(* each device has a Repo -- working tree, snapshots, chunks, journal,     *)
(* checkout index -- and a SyncEngine that runs rounds of                  *)
(*                                                                         *)
(*   getHead; fetch; exclusive { snapshot; merge; rebase; snapshot }; push *)
(*                                                                         *)
(* against a remote that stores objects and a head moved by compare-and-   *)
(* swap.  Every await that another device, a user, a failure or a crash    *)
(* can get in between is a step of its own.                                *)
(*                                                                         *)
(* Each device has one Repo instance here.  Writers of the tree take       *)
(* Repo.exclusive, as FileHistory.save and RepositoryExtension's storage   *)
(* mutations do; the model therefore lets nobody write between the two     *)
(* snapshots of a round.                                                   *)
(***************************************************************************)
EXTENDS Snapshots, FiniteSets

CONSTANTS
  Device,       \* the devices; a device also names the file ids it mints
  Path,         \* the names users write, rename and delete
  copyOf,       \* copyOf[n, c]: the name of the conflict copy of n with content c
  Declines,     \* Declines[d]: the names d's materialize policy turns down
  Deleters,     \* the devices whose users delete files
  Mergeable,    \* the names whose format a content merger is registered for
  NoHead,       \* a head that has not been set
  MaxRetries,   \* MAX_HEAD_MOVED_RETRIES
  MaxEdits,     \* bound: what all users together write and delete
  MaxFaults,    \* bound: crashes, failed requests and lost answers
  MaxRollbacks  \* bound: times the remote serves an older head again

ASSUME EngineAssumption ==
  /\ Path \subseteq Name
  /\ copyOf \in [Name \X Content -> Name]
  /\ Declines \in [Device -> SUBSET Name]
  /\ Deleters \subseteq Device /\ Mergeable \subseteq Name
  /\ FileId = Device
  /\ NoHead \notin Snapshot
  /\ MaxRetries \in Nat \ {0}
  /\ MaxEdits \in Nat /\ MaxFaults \in Nat /\ MaxRollbacks \in Nat

VARIABLES
  (* On the device's disk. *)
  tree,         \* tree[d]: content of every name of the working tree
  head,         \* head[d]: /repo/head
  snapshots,    \* snapshots[d]: /repo/snapshots
  chunks,       \* chunks[d]: /repo/chunks
  changes,      \* changes[d]: /repo/changes, the journal of names to look at
  index,        \* index[d]: /repo/index, the checkout as last flushed
  lastSynced,   \* lastSynced[d]: /repo/last-synced, the rollback anchor
  (* In the device's memory. *)
  checkout,     \* checkout[d]: the names with a known stat, the pending names
  pc, round,    \* where d's sync round is, and its locals
  (* At the remote. *)
  remoteHead, remoteSnapshots, remoteChunks,
  (* Bounds, and which names some user has deleted (properties only). *)
  edits, faults, rollbacks, deleted

repoVars == <<tree, head, snapshots, chunks, changes, index, checkout>>
deviceVars == <<repoVars, lastSynced, pc, round>>
remoteVars == <<remoteHead, remoteSnapshots, remoteChunks>>
boundVars == <<edits, faults, rollbacks, deleted>>
vars == <<deviceVars, remoteVars, boundVars>>

Checkout == [known : SUBSET Name, pending : SUBSET Name]
MaybeHead == Snapshot \cup {NoHead}
Tip(h) == IF h = NoHead THEN Root ELSE h

NoRound == [syncedHead |-> NoHead, local |-> Root, latest |-> Root, todo |-> {}, attempt |-> 1]

Init ==
  /\ tree = [d \in Device |-> [n \in Name |-> Absent]]
  /\ head = [d \in Device |-> NoHead]
  /\ snapshots = [d \in Device |-> {}]
  /\ chunks = [d \in Device |-> {}]
  /\ changes = [d \in Device |-> {}]
  /\ index = [d \in Device |-> [known |-> {}, pending |-> {}]]
  /\ checkout = index
  /\ lastSynced = [d \in Device |-> NoHead]
  /\ pc = [d \in Device |-> "idle"]
  /\ round = [d \in Device |-> NoRound]
  /\ remoteHead = NoHead
  /\ remoteSnapshots = {}
  /\ remoteChunks = {}
  /\ edits = 0 /\ faults = 0 /\ rollbacks = 0
  /\ deleted = {}

Goto(d, from, to) == pc[d] = from /\ pc' = [pc EXCEPT ![d] = to]

EndRound(d) ==
  /\ pc' = [pc EXCEPT ![d] = "idle"]
  /\ round' = [round EXCEPT ![d] = NoRound]

-----------------------------------------------------------------------------
(***************************************************************************)
(* Repo.status and Repo.snapshot.  status looks at the names the head      *)
(* lists and at the journal's; a listed file that is not on disk is        *)
(* deleted unless this device left it in the cloud.                        *)
(***************************************************************************)
OnDisk(d) == {n \in Name : tree[d][n] # Absent}
HeadFiles(d) == Files(head[d])
Looked(d) == Listed(HeadFiles(d)) \cup changes[d]

isPending(d, n) == n \in checkout[d].pending
(* A form that would take a file left in the cloud for a deleted one. *)
gone_cloud(d) == {n \in Listed(HeadFiles(d)) : tree[d][n] = Absent}

gone(d) == {n \in Listed(HeadFiles(d)) : tree[d][n] = Absent /\ ~ isPending(d, n)}
changed(d) == {n \in Looked(d) \cap OnDisk(d) : HashOf(HeadFiles(d)[n]) # tree[d][n]}

CheckoutAfterStatus(d) ==
  [known |-> (checkout[d].known \cup (Looked(d) \cap OnDisk(d))) \ gone(d),
   pending |-> checkout[d].pending \ (Looked(d) \cap OnDisk(d))]

nextSnapshot(d) ==
  IF gone(d) \cup changed(d) = {} THEN head[d]
  ELSE Append(head[d], buildSnapshot(HeadFiles(d), tree[d], gone(d), changed(d), d))

snapshot(d) ==
  /\ head' = [head EXCEPT ![d] = nextSnapshot(d)]
  /\ snapshots' = [snapshots EXCEPT ![d] = @ \cup {nextSnapshot(d)}]
  /\ chunks' = [chunks EXCEPT ![d] = @ \cup {tree[d][n] : n \in changed(d)}]
  /\ changes' = [changes EXCEPT ![d] = IF gone(d) \cup changed(d) = {} THEN @ ELSE {}]
  /\ checkout' = [checkout EXCEPT ![d] = CheckoutAfterStatus(d)]
  /\ index' = [index EXCEPT ![d] = CheckoutAfterStatus(d)]
  /\ UNCHANGED tree

-----------------------------------------------------------------------------
(***************************************************************************)
(* What users and programs do to a device's tree.                          *)
(***************************************************************************)
InExclusive(d) == pc[d] \in {"merge", "rebase", "rebased"}

MayEdit(d) ==
  /\ edits < MaxEdits
  /\ ~ InExclusive(d)
  /\ edits' = edits + 1
  /\ UNCHANGED <<lastSynced, pc, round, remoteVars, faults, rollbacks>>

(* A form that would leave it to the next full scan to find the write. *)
Write_unjournaled(d, n, c) ==
  /\ MayEdit(d)
  /\ tree[d][n] # c
  /\ tree' = [tree EXCEPT ![d][n] = c]
  /\ UNCHANGED <<head, snapshots, chunks, changes, index, checkout, deleted>>

(* A write the journal records. *)
Write(d, n, c) ==
  /\ MayEdit(d)
  /\ tree[d][n] # c
  /\ tree' = [tree EXCEPT ![d][n] = c]
  /\ changes' = [changes EXCEPT ![d] = @ \cup {n}]
  /\ UNCHANGED <<head, snapshots, chunks, index, checkout, deleted>>

Delete(d, n) ==
  /\ MayEdit(d)
  /\ d \in Deleters
  /\ tree[d][n] # Absent
  /\ tree' = [tree EXCEPT ![d][n] = Absent]
  /\ changes' = [changes EXCEPT ![d] = @ \cup {n}]
  /\ deleted' = deleted \cup {n}
  /\ UNCHANGED <<head, snapshots, chunks, index, checkout>>

(***************************************************************************)
(* FileHistory.recordCheckpoint: the head after content c of name n has    *)
(* been recorded on top of s, which is s itself when s already has it.     *)
(***************************************************************************)
recordCheckpoint(d, s, n, c) ==
  IF HashOf(Files(s)[n]) = c THEN s
  ELSE Append(s, [Files(s) EXCEPT ![n] =
         [hash |-> c, fileId |-> IF Files(s)[n] = Absent THEN d ELSE Files(s)[n].fileId]])

(* A form that would keep no chunks for the first checkpoint. *)
save_halfStored(d, n, c) ==
  /\ MayEdit(d)
  /\ tree[d][n] \notin {c, Absent}
  /\ LET before == recordCheckpoint(d, Tip(head[d]), n, tree[d][n])
         after == recordCheckpoint(d, before, n, c)
     IN /\ head' = [head EXCEPT ![d] = after]
        /\ snapshots' = [snapshots EXCEPT ![d] = @ \cup {Root, before, after}]
  /\ chunks' = [chunks EXCEPT ![d] = @ \cup {c}]
  /\ tree' = [tree EXCEPT ![d][n] = c]
  /\ changes' = [changes EXCEPT ![d] = @ \cup {n}]
  /\ UNCHANGED <<index, checkout, deleted>>

(* FileHistory.save: a checkpoint of what is on disk, the write, a second one. *)
save(d, n, c) ==
  /\ MayEdit(d)
  /\ tree[d][n] \notin {c, Absent}
  /\ LET before == recordCheckpoint(d, Tip(head[d]), n, tree[d][n])
         after == recordCheckpoint(d, before, n, c)
     IN /\ head' = [head EXCEPT ![d] = after]
        /\ snapshots' = [snapshots EXCEPT ![d] = @ \cup {Root, before, after}]
  /\ chunks' = [chunks EXCEPT ![d] = @ \cup {tree[d][n], c}]
  /\ tree' = [tree EXCEPT ![d][n] = c]
  /\ changes' = [changes EXCEPT ![d] = @ \cup {n}]
  /\ UNCHANGED <<index, checkout, deleted>>

-----------------------------------------------------------------------------
(***************************************************************************)
(* A round up to the lock: prepare, read the remote head and the anchor,   *)
(* fetch.  A device that has synced before refuses a remote without head.  *)
(***************************************************************************)
startRound(d) ==
  /\ pc[d] \in {"idle", "retry"}
  /\ lastSynced[d] # NoHead => remoteHead # NoHead
  /\ head' = [head EXCEPT ![d] = Tip(@)]
  /\ snapshots' = [snapshots EXCEPT ![d] = @ \cup {Root}]
  /\ round' = [round EXCEPT ![d].syncedHead = remoteHead]
  /\ pc' = [pc EXCEPT ![d] = IF remoteHead = NoHead THEN "fetched" ELSE "fetch"]
  /\ UNCHANGED <<tree, chunks, changes, index, checkout, lastSynced, remoteVars, boundVars>>

(***************************************************************************)
(* The remote snapshots above the first one this device already has,       *)
(* stored parents before children.                                         *)
(***************************************************************************)
Unfetched(d) ==
  {s \in Prefixes(round[d].syncedHead) :
    \A t \in Prefixes(round[d].syncedHead) : Len(s) <= Len(t) => t \notin snapshots[d]}

Shortest(S) == CHOOSE s \in S : \A t \in S : Len(s) <= Len(t)

(* A form that would store children before their parents. *)
fetchSnapshot_childFirst(d) ==
  /\ pc[d] = "fetch"
  /\ Unfetched(d) # {}
  /\ \E s \in Unfetched(d) :
       /\ \A t \in Unfetched(d) : Len(t) <= Len(s)
       /\ snapshots' = [snapshots EXCEPT ![d] = @ \cup {s}]
  /\ UNCHANGED <<tree, head, chunks, changes, index, checkout, lastSynced, pc, round,
                 remoteVars, boundVars>>

fetchSnapshot(d) ==
  /\ pc[d] = "fetch"
  /\ Unfetched(d) # {}
  /\ Shortest(Unfetched(d)) \in remoteSnapshots
  /\ snapshots' = [snapshots EXCEPT ![d] = @ \cup {Shortest(Unfetched(d))}]
  /\ UNCHANGED <<tree, head, chunks, changes, index, checkout, lastSynced, pc, round,
                 remoteVars, boundVars>>

wantsContent(d, n) == n \notin Declines[d] \/ n \in checkout[d].known

MissingChunks(d) ==
  LET files == Files(round[d].syncedHead)
  IN {files[n].hash : n \in {m \in Listed(files) : wantsContent(d, m)}} \ chunks[d]

fetchChunk(d) ==
  /\ pc[d] = "fetch"
  /\ Unfetched(d) = {}
  /\ \E c \in MissingChunks(d) \cap remoteChunks :
       chunks' = [chunks EXCEPT ![d] = @ \cup {c}]
  /\ UNCHANGED <<tree, head, snapshots, changes, index, checkout, lastSynced, pc, round,
                 remoteVars, boundVars>>

(* A form that would check no anchor. *)
Descends_unchecked(d) == d \in Device

Descends(d) ==
  lastSynced[d] # NoHead => isAncestor(snapshots[d], lastSynced[d], round[d].syncedHead)

fetched(d) ==
  /\ Goto(d, "fetch", "fetched")
  /\ Unfetched(d) = {} /\ MissingChunks(d) = {}
  /\ Descends(d)
  /\ UNCHANGED <<repoVars, lastSynced, round, remoteVars, boundVars>>

(* The anchor is not an ancestor of the remote head: a rollback or a fork. *)
refuseRemote(d) ==
  /\ pc[d] = "fetch"
  /\ Unfetched(d) = {} /\ MissingChunks(d) = {}
  /\ ~ Descends(d)
  /\ EndRound(d)
  /\ UNCHANGED <<repoVars, lastSynced, remoteVars, boundVars>>

-----------------------------------------------------------------------------
(***************************************************************************)
(* Under Repo.exclusive: snapshot, merge name by name, rebase, snapshot.   *)
(***************************************************************************)
Base(d) == findBaseSnapshot(snapshots[d], round[d].local, Tip(round[d].syncedHead))
baseFile(d, n) == Files(Base(d))[n]
localFile(d, n) == Files(round[d].local)[n]
remoteFile(d, n) == Files(Tip(round[d].syncedHead))[n]

snapshotLocal(d) ==
  /\ Goto(d, "fetched", "merge")
  /\ snapshot(d)
  /\ round' = [round EXCEPT
       ![d].local = head'[d],
       ![d].todo = LET remote == Tip(round[d].syncedHead)
                       base == findBaseSnapshot(snapshots'[d], head'[d], remote)
                   IN UNION {Listed(Files(s)) : s \in {base, head'[d], remote}}]
  /\ UNCHANGED <<lastSynced, remoteVars, boundVars>>

(* Merge turns to n; what it does with n is up to the action that says so. *)
Merging(d, n) ==
  /\ pc[d] = "merge"
  /\ n \in round[d].todo
  /\ round' = [round EXCEPT ![d].todo = @ \ {n}]
  /\ UNCHANGED <<head, snapshots, chunks, index, lastSynced, pc, remoteVars, boundVars>>

Exists(entry) == entry # Absent

LocalOnly(d, n) == Exists(localFile(d, n)) /\ ~ Exists(remoteFile(d, n))
RemoteOnly(d, n) == ~ Exists(localFile(d, n)) /\ Exists(remoteFile(d, n))
OnBoth(d, n) == Exists(localFile(d, n)) /\ Exists(remoteFile(d, n))
Neither(d, n) == ~ Exists(localFile(d, n)) /\ ~ Exists(remoteFile(d, n))
LocalUntouched(d, n) == sameEntry(baseFile(d, n), localFile(d, n))
RemoteUntouched(d, n) == sameEntry(baseFile(d, n), remoteFile(d, n))

hasChunks(d, entry) == entry.hash \in chunks[d]

(* A form that would not tell the journal. *)
PutFile_unjournaled(d, n, c) ==
  /\ tree' = [tree EXCEPT ![d][n] = c]
  /\ checkout' = [checkout EXCEPT ![d].known = @ \cup {n}, ![d].pending = @ \ {n}]
  /\ UNCHANGED changes

(* writeFile, writeMergedContent, writeConflictFile: content c lands at n. *)
PutFile(d, n, c) ==
  /\ tree' = [tree EXCEPT ![d][n] = c]
  /\ changes' = [changes EXCEPT ![d] = @ \cup {n}]
  /\ checkout' = [checkout EXCEPT ![d].known = @ \cup {n}, ![d].pending = @ \ {n}]

markPending(d, n) ==
  /\ checkout' = [checkout EXCEPT ![d].pending = @ \cup {n},
                                  ![d].known = IF isPending(d, n) THEN @ ELSE @ \ {n}]
  /\ UNCHANGED <<tree, changes>>

take(d, n, entry) ==
  IF hasChunks(d, entry) THEN PutFile(d, n, entry.hash) ELSE markPending(d, n)

(* One side deleted what the other left alone. *)
mergeDelete(d, n) ==
  /\ Merging(d, n)
  /\ \/ LocalOnly(d, n) /\ LocalUntouched(d, n)
     \/ RemoteOnly(d, n) /\ RemoteUntouched(d, n)
  /\ tree' = [tree EXCEPT ![d][n] = Absent]
  /\ checkout' = [checkout EXCEPT ![d].known = @ \ {n}, ![d].pending = @ \ {n}]
  /\ UNCHANGED changes

(* Created here: written again from its chunks. *)
mergeCreated(d, n) ==
  /\ Merging(d, n)
  /\ LocalOnly(d, n) /\ ~ Exists(baseFile(d, n))
  /\ take(d, n, localFile(d, n))

(* Created there, edited there and deleted here, or untouched here. *)
mergeTake(d, n) ==
  /\ Merging(d, n)
  /\ \/ RemoteOnly(d, n) /\ ~ RemoteUntouched(d, n)
     \/ OnBoth(d, n) /\ LocalUntouched(d, n)
  /\ take(d, n, remoteFile(d, n))

(* Edited here and deleted there, or the same edit on both sides. *)
mergeKeep(d, n) ==
  /\ Merging(d, n)
  /\ \/ LocalOnly(d, n) /\ Exists(baseFile(d, n)) /\ ~ LocalUntouched(d, n)
     \/ /\ OnBoth(d, n) /\ ~ LocalUntouched(d, n)
        /\ sameEntry(localFile(d, n), remoteFile(d, n))
  /\ UNCHANGED <<tree, changes, checkout>>

Conflict(d, n) ==
  /\ OnBoth(d, n)
  /\ ~ LocalUntouched(d, n)
  /\ ~ sameEntry(localFile(d, n), remoteFile(d, n))

(* A content merger's result may be any content. *)
tryContentMerge(d, n) ==
  /\ Merging(d, n)
  /\ Conflict(d, n)
  /\ n \in Mergeable /\ hasChunks(d, remoteFile(d, n))
  /\ \E c \in Content : PutFile(d, n, c)

(* The copy may be there already, from an earlier round that did not finish. *)
writeConflictFile(d, n) ==
  /\ Merging(d, n)
  /\ Conflict(d, n)
  /\ ~ (n \in Mergeable /\ hasChunks(d, remoteFile(d, n)))
  /\ LET theirs == remoteFile(d, n).hash
         copy == copyOf[n, theirs]
     IN /\ tree[d][copy] \in {Absent, theirs}
        /\ IF tree[d][copy] = theirs
           THEN /\ checkout' = [checkout EXCEPT ![d].known = @ \cup {copy}]
                /\ UNCHANGED <<tree, changes>>
           ELSE hasChunks(d, remoteFile(d, n)) /\ PutFile(d, copy, theirs)

(***************************************************************************)
(* merge throws: at a name only the base lists, where it reads the hash of *)
(* a local entry there is none of, and at a conflict whose remote content  *)
(* this device's policy kept it from fetching.                             *)
(***************************************************************************)
mergeThrows(d, n) ==
  /\ pc[d] = "merge"
  /\ n \in round[d].todo
  /\ \/ Neither(d, n)
     \/ /\ Conflict(d, n)
        /\ ~ hasChunks(d, remoteFile(d, n))
        /\ tree[d][copyOf[n, remoteFile(d, n).hash]] = Absent
  /\ EndRound(d)
  /\ UNCHANGED <<repoVars, lastSynced, remoteVars, boundVars>>

mergeDone(d) ==
  /\ Goto(d, "merge", "rebase")
  /\ round[d].todo = {}
  /\ index' = [index EXCEPT ![d] = checkout[d]]
  /\ UNCHANGED <<tree, head, snapshots, chunks, changes, checkout, lastSynced, round,
                 remoteVars, boundVars>>

(* A form that would leave the local chain where it forked. *)
rebased_not(d) == head[d]

rebased(d) ==
  LET remote == Tip(round[d].syncedHead)
  IN IF Base(d) = remote THEN head[d] ELSE replay(round[d].local, remote, Base(d))

rebase(d) ==
  /\ Goto(d, "rebase", "rebased")
  /\ head' = [head EXCEPT ![d] = rebased(d)]
  /\ snapshots' = [snapshots EXCEPT ![d] = @ \cup
       {s \in Prefixes(rebased(d)) : Len(s) > Len(Tip(round[d].syncedHead))}]
  /\ UNCHANGED <<tree, chunks, changes, index, checkout, lastSynced, round, remoteVars, boundVars>>

(* A form that would move the anchor before the push. *)
snapshotMerged_anchored(d) ==
  /\ pc[d] = "rebased"
  /\ snapshot(d)
  /\ round' = [round EXCEPT ![d].latest = head'[d]]
  /\ pc' = [pc EXCEPT ![d] = IF head'[d] = round[d].syncedHead THEN "anchor" ELSE "push"]
  /\ lastSynced' = [lastSynced EXCEPT ![d] = head'[d]]
  /\ UNCHANGED <<remoteVars, boundVars>>

snapshotMerged(d) ==
  /\ pc[d] = "rebased"
  /\ snapshot(d)
  /\ round' = [round EXCEPT ![d].latest = head'[d]]
  /\ pc' = [pc EXCEPT ![d] = IF head'[d] = round[d].syncedHead THEN "anchor" ELSE "push"]
  /\ UNCHANGED <<lastSynced, remoteVars, boundVars>>

-----------------------------------------------------------------------------
(***************************************************************************)
(* push: the chunks the remote lacks, then the snapshots, parents first,   *)
(* then the head; after that the anchor.                                   *)
(***************************************************************************)
PushChain(d) ==
  LET s == round[d].syncedHead
      walk == ancestry(snapshots[d], round[d].latest)
      met == s \in Prefixes(round[d].latest)
  IN {t \in walk : met => Len(s) < Len(t)}

Fresh(d) == PushChain(d) \ remoteSnapshots
OwedChunks(d) == (UNION {ChunksOf(s) : s \in Fresh(d)}) \ remoteChunks

pushChunk(d) ==
  /\ pc[d] = "push"
  /\ \E c \in OwedChunks(d) \cap chunks[d] : remoteChunks' = remoteChunks \cup {c}
  /\ UNCHANGED <<deviceVars, remoteHead, remoteSnapshots, boundVars>>

(* A form that would upload snapshots without waiting for their chunks. *)
pushSnapshot_early(d) ==
  /\ pc[d] = "push"
  /\ Fresh(d) # {}
  /\ remoteSnapshots' = remoteSnapshots \cup {Shortest(Fresh(d))}
  /\ UNCHANGED <<deviceVars, remoteHead, remoteChunks, boundVars>>

pushSnapshot(d) ==
  /\ pc[d] = "push"
  /\ OwedChunks(d) = {}
  /\ Fresh(d) # {}
  /\ remoteSnapshots' = remoteSnapshots \cup {Shortest(Fresh(d))}
  /\ UNCHANGED <<deviceVars, remoteHead, remoteChunks, boundVars>>

ReadyToCommit(d) == pc[d] = "push" /\ Fresh(d) = {}

setHead(d) ==
  /\ ReadyToCommit(d)
  /\ remoteHead = round[d].syncedHead
  /\ remoteHead' = round[d].latest
  /\ pc' = [pc EXCEPT ![d] = "anchor"]
  /\ UNCHANGED <<repoVars, lastSynced, round, remoteSnapshots, remoteChunks, boundVars>>

(* A form that would retry once too often. *)
syncHeadMoved_again(d) ==
  /\ ReadyToCommit(d)
  /\ remoteHead # round[d].syncedHead
  /\ IF round[d].attempt <= MaxRetries
     THEN /\ pc' = [pc EXCEPT ![d] = "retry"]
          /\ round' = [round EXCEPT ![d] = [NoRound EXCEPT !.attempt = round[d].attempt + 1]]
     ELSE EndRound(d)
  /\ UNCHANGED <<repoVars, lastSynced, remoteVars, boundVars>>

(* SyncHeadMoved: the whole round is run again, a bounded number of times. *)
syncHeadMoved(d) ==
  /\ ReadyToCommit(d)
  /\ remoteHead # round[d].syncedHead
  /\ IF round[d].attempt < MaxRetries
     THEN /\ pc' = [pc EXCEPT ![d] = "retry"]
          /\ round' = [round EXCEPT ![d] = [NoRound EXCEPT !.attempt = round[d].attempt + 1]]
     ELSE EndRound(d)
  /\ UNCHANGED <<repoVars, lastSynced, remoteVars, boundVars>>

(* A form that would anchor the snapshot taken before the merge. *)
writeAnchor_local(d) ==
  /\ pc[d] = "anchor"
  /\ lastSynced' = [lastSynced EXCEPT ![d] = round[d].local]
  /\ EndRound(d)
  /\ UNCHANGED <<repoVars, remoteVars, boundVars>>

writeAnchor(d) ==
  /\ pc[d] = "anchor"
  /\ lastSynced' = [lastSynced EXCEPT ![d] = round[d].latest]
  /\ EndRound(d)
  /\ UNCHANGED <<repoVars, remoteVars, boundVars>>

(***************************************************************************)
(* SyncEngine.materialize: opening a file this device left in the cloud.   *)
(***************************************************************************)
materialize(d, n) ==
  /\ pc[d] \in {"idle", "retry"}
  /\ isPending(d, n)
  /\ Exists(HeadFiles(d)[n]) /\ HeadFiles(d)[n].hash \in chunks[d] \cup remoteChunks
  /\ PutFile(d, n, HeadFiles(d)[n].hash)
  /\ chunks' = [chunks EXCEPT ![d] = @ \cup {HeadFiles(d)[n].hash}]
  /\ index' = [index EXCEPT ![d] = checkout'[d]]
  /\ UNCHANGED <<head, snapshots, lastSynced, pc, round, remoteVars, boundVars>>

-----------------------------------------------------------------------------
(***************************************************************************)
(* What can go wrong around a round.                                       *)
(***************************************************************************)
Fault == faults < MaxFaults /\ faults' = faults + 1

(* A request fails: the round is over, the device keeps running. *)
requestFails(d) ==
  /\ Fault
  /\ pc[d] \in {"fetch", "push"}
  /\ EndRound(d)
  /\ UNCHANGED <<repoVars, lastSynced, remoteVars, edits, rollbacks, deleted>>

(* setHead is applied and its answer lost. *)
answerLost(d) ==
  /\ Fault
  /\ ReadyToCommit(d)
  /\ remoteHead = round[d].syncedHead
  /\ remoteHead' = round[d].latest
  /\ EndRound(d)
  /\ UNCHANGED <<repoVars, lastSynced, remoteSnapshots, remoteChunks, edits, rollbacks, deleted>>

(* The process ends; what was not flushed is gone. *)
crash(d) ==
  /\ Fault
  /\ pc[d] # "idle"
  /\ checkout' = [checkout EXCEPT ![d] = index[d]]
  /\ EndRound(d)
  /\ UNCHANGED <<tree, head, snapshots, chunks, changes, index, lastSynced, remoteVars,
                 edits, rollbacks, deleted>>

(* The remote serves an older head, as after a restore from a backup. *)
rollBack ==
  /\ rollbacks < MaxRollbacks
  /\ rollbacks' = rollbacks + 1
  /\ remoteHead # NoHead
  /\ \E h \in (Prefixes(remoteHead) \cup {NoHead}) \ {remoteHead} : remoteHead' = h
  /\ UNCHANGED <<deviceVars, remoteSnapshots, remoteChunks, edits, faults, deleted>>

-----------------------------------------------------------------------------
User(d) ==
  \E n \in Path :
    \/ \E c \in Content : Write(d, n, c) \/ save(d, n, c)
    \/ Delete(d, n)

MergeStep(d) ==
  \E n \in Name :
    \/ mergeDelete(d, n) \/ mergeCreated(d, n) \/ mergeTake(d, n) \/ mergeKeep(d, n)
    \/ tryContentMerge(d, n) \/ writeConflictFile(d, n) \/ mergeThrows(d, n)

Round(d) ==
  \/ startRound(d)
  \/ fetchSnapshot(d) \/ fetchChunk(d) \/ fetched(d) \/ refuseRemote(d)
  \/ snapshotLocal(d) \/ MergeStep(d) \/ mergeDone(d) \/ rebase(d) \/ snapshotMerged(d)
  \/ pushChunk(d) \/ pushSnapshot(d) \/ setHead(d) \/ syncHeadMoved(d) \/ writeAnchor(d)

Open(d) == \E n \in Name : materialize(d, n)

Failure(d) == requestFails(d) \/ answerLost(d) \/ crash(d)

Next == rollBack \/ \E d \in Device : User(d) \/ Round(d) \/ Open(d) \/ Failure(d)

Spec == Init /\ [][Next]_vars

(***************************************************************************)
(* SyncExtension runs rounds from a timer for as long as the program runs, *)
(* and a round that has started goes on unless something fails.            *)
(***************************************************************************)
Fairness == \A d \in Device : WF_vars(Round(d))
FairSpec == Spec /\ Fairness

-----------------------------------------------------------------------------
(***************************************************************************)
(* Type invariant.                                                         *)
(***************************************************************************)
RoundType ==
  [syncedHead : MaybeHead, local : Snapshot, latest : Snapshot, todo : SUBSET Name,
   attempt : 1 .. MaxRetries]

PcType == {"idle", "fetch", "fetched", "merge", "rebase", "rebased", "push", "anchor", "retry"}

DiskTypeOK ==
  /\ tree \in [Device -> [Name -> Content \cup {Absent}]]
  /\ head \in [Device -> MaybeHead]
  /\ snapshots \in [Device -> SUBSET Snapshot]
  /\ chunks \in [Device -> SUBSET Content]
  /\ changes \in [Device -> SUBSET Name]
  /\ index \in [Device -> Checkout]
  /\ lastSynced \in [Device -> MaybeHead]

MemoryTypeOK ==
  /\ checkout \in [Device -> Checkout]
  /\ pc \in [Device -> PcType]
  /\ round \in [Device -> RoundType]

RemoteTypeOK ==
  /\ remoteHead \in MaybeHead
  /\ remoteSnapshots \in SUBSET Snapshot
  /\ remoteChunks \in SUBSET Content

BoundTypeOK ==
  /\ edits \in 0 .. MaxEdits
  /\ faults \in 0 .. MaxFaults
  /\ rollbacks \in 0 .. MaxRollbacks
  /\ deleted \in SUBSET Path

TypeOK == DiskTypeOK /\ MemoryTypeOK /\ RemoteTypeOK /\ BoundTypeOK

-----------------------------------------------------------------------------
(***************************************************************************)
(* Safety.                                                                 *)
(***************************************************************************)

(* Whatever was interrupted, the remote never holds a snapshot whose parent *)
(* or content it lacks, nor a head without a snapshot: chunks first,        *)
(* parents before children, the head last.                                  *)
RemoteClosed ==
  /\ \A s \in remoteSnapshots :
       (s # Root => Front(s) \in remoteSnapshots) /\ ChunksOf(s) \subseteq remoteChunks
  /\ remoteHead # NoHead => remoteHead \in remoteSnapshots

(* The local chain has no holes either: an interrupted fetch leaves no     *)
(* child above a missing parent, and the head names a stored snapshot.     *)
LocalClosed ==
  \A d \in Device :
    /\ \A s \in snapshots[d] : s # Root => Front(s) \in snapshots[d]
    /\ head[d] # NoHead => head[d] \in snapshots[d]

(* What a round publishes descends from the remote head it read, so that   *)
(* the compare-and-swap cannot drop another device's snapshots.            *)
PublishesOnTop ==
  \A d \in Device : pc[d] = "push" => IsPrefix(Tip(round[d].syncedHead), round[d].latest)

(* A push can always be finished: every chunk the remote still lacks is in *)
(* the local store, also for files this device itself left in the cloud.   *)
Publishable ==
  \A d \in Device : pc[d] = "push" => OwedChunks(d) \subseteq chunks[d]

(* The head of the last successful round stays in the device's own         *)
(* history, even when the remote is rolled back and other devices go on    *)
(* from there.                                                             *)
AnchorKept ==
  \A d \in Device :
    lastSynced[d] # NoHead => head[d] # NoHead /\ IsPrefix(lastSynced[d], head[d])

(* A remote that was never rolled back is never accused of it: the anchor  *)
(* is always on the remote's chain, whatever crashed or lost its answer.   *)
NoFalseAlarm ==
  rollbacks = 0 =>
    \A d \in Device :
      lastSynced[d] # NoHead => remoteHead # NoHead /\ IsPrefix(lastSynced[d], remoteHead)

(* A name disappears from the published vault only if a user deleted it:   *)
(* a file a device left in the cloud, a half-merged tree or a lost index   *)
(* are never taken for deletions.                                          *)
OnlyUsersDelete ==
  \A s \in Prefixes(Tip(remoteHead)) :
    Listed(Files(s)) \ Listed(Files(Tip(remoteHead))) \subseteq deleted

(***************************************************************************)
(* The three-way merge the round promises, per name: the side that changed *)
(* wins over the one that did not, an edit over a deletion, and of two     *)
(* edits the local one stays at the name while the remote one is kept in a *)
(* conflict copy.  A file that only this device edited owes no copy: the   *)
(* code makes one (CopiesBothModified), which this neither asks for nor    *)
(* forbids.                                                                *)
(***************************************************************************)
ThreeWay(b, l, r) == IF l = b THEN r ELSE IF r = b \/ l # Absent THEN l ELSE r

MergedName(d, n) == HashOf(Files(round[d].latest)[n])

(* Tree, journal, replay and second snapshot together publish exactly that. *)
MergeOutcome ==
  \A d \in Device : pc[d] \in {"push", "anchor"} =>
    \A n \in Path \ Mergeable :
      /\ MergedName(d, n) =
           ThreeWay(HashOf(baseFile(d, n)), HashOf(localFile(d, n)), HashOf(remoteFile(d, n)))
      /\ Conflict(d, n) /\ ~ RemoteUntouched(d, n) =>
           MergedName(d, copyOf[n, remoteFile(d, n).hash]) = remoteFile(d, n).hash

(* "The edit wins": what was edited on the remote and deleted here is      *)
(* still in what this round publishes.                                     *)
EditSurvivesDeletion ==
  \A d \in Device : pc[d] \in {"push", "anchor"} =>
    \A n \in Path :
      RemoteOnly(d, n) /\ ~ RemoteUntouched(d, n) =>
        MergedName(d, n) = remoteFile(d, n).hash

(* A conflict copy is for what both sides modified: where the remote left  *)
(* a file alone, there will be none beside what this device made of it     *)
(* that was not there, with the local snapshot, before the merge.          *)
CopiesBothModified ==
  \A d \in Device : pc[d] = "rebase" =>
    \A n \in Path : OnBoth(d, n) /\ RemoteUntouched(d, n) =>
      LET copy == copyOf[n, remoteFile(d, n).hash]
      IN tree[d][copy] = HashOf(localFile(d, copy))

(* A file that is on disk is kept up to date whatever the policy says: if  *)
(* this device left it alone, it holds the remote's content after a merge. *)
KeptUpToDate ==
  \A d \in Device : pc[d] = "rebase" =>
    \A n \in Path \ Mergeable :
      OnBoth(d, n) /\ LocalUntouched(d, n) /\ tree[d][n] # Absent =>
        tree[d][n] = remoteFile(d, n).hash

(* merge copes with every way two sides can differ, also with a file that  *)
(* both of them deleted.                                                   *)
DeletionsConverge ==
  \A d \in Device : pc[d] = "merge" => \A n \in round[d].todo : ~ Neither(d, n)

-----------------------------------------------------------------------------
(***************************************************************************)
(* Action properties.                                                      *)
(***************************************************************************)

(* Devices only ever put their work on top of the published history. *)
RemoteOnlyGrows ==
  [][rollbacks' = rollbacks => IsPrefix(Tip(remoteHead), Tip(remoteHead'))]_vars

Versions(s) == UNION {{<<n, s[i][n].hash>> : n \in Listed(s[i])} : i \in DOMAIN s}

(* No operation takes a recorded version of a file out of a device's       *)
(* history: rebase re-addresses offline checkpoints, it does not orphan    *)
(* them.                                                                   *)
VersionsKept ==
  [][\A d \in Device : Versions(Tip(head[d])) \subseteq Versions(Tip(head'[d]))]_vars

-----------------------------------------------------------------------------
(***************************************************************************)
(* The devices and the remote together implement the abstract history.     *)
(***************************************************************************)
History == INSTANCE SharedHistory WITH
  log <- Tip(remoteHead),
  confirmed <- [d \in Device |-> Tip(lastSynced[d])]

(* Remote heads are the history, anchors are what devices have confirmed.  *)
ImplementsSharedHistory == History!Spec

-----------------------------------------------------------------------------
(***************************************************************************)
(* Liveness.                                                               *)
(***************************************************************************)
InStep(d) ==
  /\ head[d] = remoteHead
  /\ \A n \in Name :
       \/ tree[d][n] = HashOf(Files(remoteHead)[n])
       \/ tree[d][n] = Absent /\ isPending(d, n)

AllInStep == remoteHead # NoHead /\ \A d \in Device : InStep(d)

(* Once the users have stopped, every device ends up with the remote head  *)
(* and with its files, those it leaves in the cloud excepted, unless a     *)
(* deletion has met a fault: one that a crash cuts off is merge's undoing, *)
(* as the run sync_both_delete shows.                                      *)
SettlesInStep == <>[](AllInStep \/ (faults > 0 /\ deleted # {}))
=============================================================================
