------------------------------ MODULE Snapshots ------------------------------
(***************************************************************************)
(* The data a Repo works on (packages/sync): manifests and snapshots.      *)
(*                                                                         *)
(* A snapshot's address is the hash of its manifest AND of its parent's    *)
(* address (snapshotHash), so two snapshots have one address exactly when  *)
(* their manifests agree all the way down to the empty root.  A snapshot   *)
(* is therefore represented by that history: the sequence of manifests     *)
(* from the root's first child to the snapshot itself.  The empty sequence *)
(* is the root every store is seeded with (EMPTY_SNAPSHOT_HASH), the       *)
(* parent of a snapshot is its front, and "is an ancestor of" is "is a     *)
(* prefix of", as far as the store still holds the links in between.       *)
(***************************************************************************)
EXTENDS Naturals, Sequences, SequencesExt

CONSTANTS
  Name,     \* path names of the working tree, conflict copies included
  Content,  \* file contents; a content is its own hash and its one chunk
  FileId,   \* storage identities of files
  Absent    \* stands for "no entry for this name"

ASSUME AbsentAssumption == Absent \notin Content /\ Absent \notin [hash : Content, fileId : FileId]

Entry == [hash : Content, fileId : FileId]
Manifest == [Name -> Entry \cup {Absent}]
Snapshot == Seq(Manifest)

Root == <<>>
NoFiles == [n \in Name |-> Absent]
Files(s) == IF s = Root THEN NoFiles ELSE s[Len(s)]

Listed(files) == {n \in Name : files[n] # Absent}
HashOf(entry) == IF entry = Absent THEN Absent ELSE entry.hash
ChunksOf(s) == {Files(s)[n].hash : n \in Listed(Files(s))}

(***************************************************************************)
(* What a checkpoint changed about a file is its content, never its file   *)
(* id.                                                                     *)
(***************************************************************************)
sameEntry(a, b) == HashOf(a) = HashOf(b)

(***************************************************************************)
(* The walk down a snapshot's parent chain through a store: it ends at the *)
(* root or at the first snapshot the store does not hold.                  *)
(***************************************************************************)
ancestry(store, s) ==
  LET chain == Prefixes(s)
      holes == chain \ store
  IN {a \in chain : \A hole \in holes : Len(hole) < Len(a)}

isAncestor(store, a, s) ==
  a = s \/ \E b \in ancestry(store, s) : a = b \/ (b # Root /\ a = Front(b))

(***************************************************************************)
(* The lowest common ancestor of two snapshots.  Every walk meets the root *)
(* as long as no store has a hole, which is what SyncEngine!LocalClosed    *)
(* says; the code's null base is the case of a hole.                       *)
(***************************************************************************)
(* A form that would go back to the first common one. *)
findBaseSnapshot_first(store, local, remote) ==
  LET common == ancestry(store, local) \cap ancestry(store, remote)
  IN CHOOSE s \in common : \A other \in common : Len(s) <= Len(other)

(* The lowest one. *)
findBaseSnapshot(store, local, remote) ==
  LET common == ancestry(store, local) \cap ancestry(store, remote)
  IN CHOOSE s \in common : \A other \in common : Len(other) <= Len(s)

(***************************************************************************)
(* Writing every local snapshot since `base' again on top of `remote'.     *)
(* The code folds over the snapshots oldest first, carrying the manifest   *)
(* along; said in one go, the k-th replayed manifest has, for a name some  *)
(* replayed snapshot up to the k-th changed, the entry of the last one     *)
(* that did, and the remote head's entry for all others.                   *)
(***************************************************************************)
Manifests(s) == <<NoFiles>> \o s

Touched(local, from, upTo, n) ==
  \E j \in (from + 1) .. upTo :
    ~ sameEntry(Manifests(local)[j][n], Manifests(local)[j + 1][n])

LastTouch(local, from, upTo, n) ==
  CHOOSE j \in (from + 1) .. upTo :
    /\ ~ sameEntry(Manifests(local)[j][n], Manifests(local)[j + 1][n])
    /\ ~ Touched(local, j, upTo, n)

(* A form that would squash the replayed snapshots into one. *)
replay_squashed(local, remote, base) ==
  Append(remote,
    [n \in Name |->
      IF Touched(local, Len(base), Len(local), n) THEN Files(local)[n] ELSE Files(remote)[n]])

(* Len(local) - Len(base) new snapshots, whatever they change. *)
replay(local, remote, base) ==
  remote \o [k \in 1 .. (Len(local) - Len(base)) |->
    [n \in Name |->
      IF Touched(local, Len(base), Len(base) + k, n)
      THEN local[LastTouch(local, Len(base), Len(base) + k, n)][n]
      ELSE Files(remote)[n]]]

(***************************************************************************)
(* The manifest a snapshot of the working tree gets: `gone' are the names  *)
(* whose files were deleted, `changed' those created or modified; an       *)
(* unlisted name takes over the id of a file that vanished in the same     *)
(* round with the same content (a rename), or gets the new id.             *)
(***************************************************************************)
buildSnapshot(files, tree, gone, changed, newId) ==
  LET renamed(n) == {m \in gone : files[m].hash = tree[n]}
      idOf(n) == IF files[n] # Absent THEN files[n].fileId
                 ELSE IF renamed(n) # {} THEN files[CHOOSE m \in renamed(n) : TRUE].fileId
                 ELSE newId
  IN [n \in Name |->
       IF n \in gone THEN Absent
       ELSE IF n \in changed THEN [hash |-> tree[n], fileId |-> idOf(n)]
       ELSE files[n]]
=============================================================================
