---------------------------- MODULE MCSyncEngine ----------------------------
(***************************************************************************)
(* Small instances of SyncEngine for TLC.  A name is a pair of what a user *)
(* called a file and, for a conflict copy, the content the copy is named   *)
(* after; a copy of a copy would be itself, but no run gets that far.      *)
(***************************************************************************)
EXTENDS SyncEngine, TLC

CONSTANTS a, b, c1, c2, f, none

Devices == {a, b}
TwoContents == {c1, c2}
F == <<f, none>>
OneFile == {F}
Names == Path \cup {<<n[1], c>> : n \in Path, c \in Content}
CopyOf == [nc \in Names \X Content |-> IF nc[1] \in Path THEN <<nc[1][1], nc[2]>> ELSE nc[1]]

KeepAll == [d \in Devices |-> {}]
BDeclines == [d \in Devices |-> IF d = b THEN Path ELSE {}]

(***************************************************************************)
(* Behaviours that begin after device a has published f with content c1    *)
(* and both devices have finished a round: what Init leads to after one    *)
(* write and two rounds, with b holding f unless its policy declines it.   *)
(***************************************************************************)
First == <<[NoFiles EXCEPT ![F] = [hash |-> c1, fileId |-> a]]>>

Holds(d) == F \notin Declines[d]

SyncedAfter(written, rolledBack) ==
  /\ tree = [d \in Device |-> [n \in Name |-> IF n = F /\ Holds(d) THEN c1 ELSE Absent]]
  /\ head = [d \in Device |-> First]
  /\ snapshots = [d \in Device |-> {Root, First}]
  /\ chunks = [d \in Device |-> IF Holds(d) THEN {c1} ELSE {}]
  /\ changes = [d \in Device |-> IF Holds(d) THEN {F} ELSE {}]
  /\ index = [d \in Device |-> [known |-> IF Holds(d) THEN {F} ELSE {},
                                pending |-> IF Holds(d) THEN {} ELSE {F}]]
  /\ checkout = index
  /\ lastSynced = [d \in Device |-> First]
  /\ pc = [d \in Device |-> "idle"]
  /\ round = [d \in Device |-> NoRound]
  /\ remoteHead = First
  /\ remoteSnapshots = {Root, First}
  /\ remoteChunks = {c1}
  /\ edits = written /\ faults = 0 /\ rollbacks = rolledBack
  /\ deleted = {}

SyncedInit == SyncedAfter(0, 0)

(* A bound: all the edits and no rollback of the remote, or the rollbacks and
   one edit less, the other being counted as spent from the start.         *)
EditsOrRollbacks == SyncedAfter(0, MaxRollbacks) \/ SyncedAfter(1, 0)

SyncedSpec == EditsOrRollbacks /\ [][Next]_vars

(***************************************************************************)
(* Repo.replay as it is written: one pending snapshot after another, the   *)
(* names it changed against its own parent laid over the manifest so far.  *)
(***************************************************************************)
Overlay(files, before, after) ==
  [n \in Name |-> IF sameEntry(before[n], after[n]) THEN files[n] ELSE after[n]]

ReplayOneByOne(local, remote, base) ==
  LET step(top, k) ==
        Append(top, Overlay(Files(top), Manifests(local)[k], Manifests(local)[k + 1]))
  IN FoldLeft(step, remote, [i \in 1 .. (Len(local) - Len(base)) |-> Len(base) + i])

(* Whenever a round is about to rebase: the base is the point where the    *)
(* two histories part, though they may have gone through the same          *)
(* manifests in a different order, and the closed form of replay that the  *)
(* proofs work with is the loop of the code.                               *)
ClosedFormsAgree ==
  \A d \in Device : pc[d] = "rebase" =>
    LET local == round[d].local
        remote == Tip(round[d].syncedHead)
        fork == LongestCommonPrefix({local, remote})
    IN /\ Base(d) = fork
       /\ replay(local, remote, fork) = ReplayOneByOne(local, remote, fork)

(***************************************************************************)
(* Behaviours that begin before anybody has synchronised: what Init leads  *)
(* to after a has written f with content c1 and b perhaps another f.       *)
(***************************************************************************)
NewInit ==
  /\ \E other \in Content \cup {Absent} :
       tree = [d \in Device |-> [n \in Name |->
         IF n # F THEN Absent ELSE IF d = a THEN c1 ELSE other]]
  /\ changes = [d \in Device |-> {n \in Name : tree[d][n] # Absent}]
  /\ edits = 2
  /\ head = [d \in Device |-> NoHead]
  /\ snapshots = [d \in Device |-> {}]
  /\ chunks = [d \in Device |-> {}]
  /\ index = [d \in Device |-> [known |-> {}, pending |-> {}]]
  /\ checkout = index
  /\ lastSynced = [d \in Device |-> NoHead]
  /\ pc = [d \in Device |-> "idle"]
  /\ round = [d \in Device |-> NoRound]
  /\ remoteHead = NoHead /\ remoteSnapshots = {} /\ remoteChunks = {}
  /\ faults = 0 /\ rollbacks = 0
  /\ deleted = {}

(***************************************************************************)
(* The states in which d's round can take a step, spelled out: this is     *)
(* ENABLED <<Round(d)>>_vars, which TLC is slow to evaluate, so that the   *)
(* fairness below is that of SyncEngine.                                   *)
(***************************************************************************)
CanMerge(d, n) ==
  \/ ~ Conflict(d, n)
  \/ n \in Mergeable /\ hasChunks(d, remoteFile(d, n))
  \/ LET theirs == remoteFile(d, n).hash
     IN tree[d][copyOf[n, theirs]] \in {Absent, theirs}

CanGoOn(d) ==
  /\ pc[d] \in {"idle", "retry"} /\ lastSynced[d] # NoHead => remoteHead # NoHead
  /\ pc[d] = "fetch" =>
       IF Unfetched(d) # {} THEN Shortest(Unfetched(d)) \in remoteSnapshots
       ELSE MissingChunks(d) = {} \/ MissingChunks(d) \cap remoteChunks # {}
  /\ pc[d] = "merge" => round[d].todo = {} \/ \E n \in round[d].todo : CanMerge(d, n)
  /\ pc[d] = "push" => OwedChunks(d) = {} \/ OwedChunks(d) \cap chunks[d] # {}

RoundsGoOn == \A d \in Device : []<> ~ CanGoOn(d) \/ []<> <<Round(d)>>_vars

(* From there, or from a first file that everybody has; every device's rounds
   go on. *)
LiveSpec == (NewInit \/ SyncedInit) /\ [][Next]_vars /\ RoundsGoOn
=============================================================================
