-------------------------- MODULE SyncEngineProofs --------------------------
(***************************************************************************)
(* What the operators of Snapshots return, preserve and bound, for every   *)
(* set of names, contents and file ids; then type correctness of           *)
(* SyncEngine, and that no device's snapshot store ever has a hole.        *)
(*                                                                         *)
(* The invariant that carries the last two also says what a round relies   *)
(* on from one step to the next: prepare has set the head, a fetch that is *)
(* over has left the remote head in the store, and the head a merge        *)
(* started from is still the head when it is rebased, because nobody       *)
(* writes under Repo.exclusive.                                            *)
(***************************************************************************)
EXTENDS SyncEngine, WellFoundedInduction, TLAPS

-----------------------------------------------------------------------------
(***************************************************************************)
(* A set of sequences has a shortest one, and a longest one if their       *)
(* lengths are bounded: what gives the CHOOSEs over chains a value.        *)
(***************************************************************************)

(* A set of naturals has a minimal element by a well-founded relation.     *)
LEMMA MinimalByRelation ==
  ASSUME NEW R, IsWellFoundedOn(R, Nat), NEW T, T \subseteq Nat, T # {}
  PROVE  \E m \in T : \A k \in T : <<k, m>> \notin R
BY WFMin, Zenon

(* It has a least element if that relation contains <.                     *)
LEMMA LeastByRelation ==
  ASSUME NEW R, IsWellFoundedOn(R, Nat),
         \A k, m \in Nat : k < m => <<k, m>> \in R,
         NEW T, T \subseteq Nat, T # {}
  PROVE  \E m \in T : \A k \in T : m <= k
<1>1. PICK m \in T : \A k \in T : <<k, m>> \notin R
  BY MinimalByRelation, Zenon
<1>2. \A k \in T : ~ (k < m)
  BY <1>1
<1> QED
  BY <1>2

(* A non-empty set of naturals has a least element.                        *)
LEMMA LeastNatural ==
  ASSUME NEW T, T \subseteq Nat, T # {}
  PROVE  \E m \in T : \A k \in T : m <= k
<1>1. \A k, m \in Nat : k < m => <<k, m>> \in OpToRel(<, Nat)
  BY DEF OpToRel
<1> QED
  BY <1>1, NatLessThanWellFounded, LeastByRelation

(* A non-empty set of snapshots has a shortest one: what fetch and push    *)
(* store first, parents before children.                                   *)
LEMMA ShortestExists ==
  ASSUME NEW C, C \subseteq Snapshot, C # {}
  PROVE  \E s \in C : \A t \in C : Len(s) <= Len(t)
<1> DEFINE T == {Len(s) : s \in C}
<1>1. \A s \in C : Len(s) \in Nat
  BY DEF Snapshot
<1>2. T \subseteq Nat /\ T # {}
  BY <1>1
<1>3. PICK m \in T : \A k \in T : m <= k
  BY <1>2, LeastNatural
<1> QED
  BY <1>3

(* A non-empty set of snapshots of bounded length has a longest one: the   *)
(* lowest common ancestor findBaseSnapshot looks for.                      *)
LEMMA LongestExists ==
  ASSUME NEW C, C \subseteq Snapshot, C # {}, NEW bound \in Nat, \A s \in C : Len(s) <= bound
  PROVE  \E s \in C : \A t \in C : Len(t) <= Len(s)
<1> DEFINE T == {bound - Len(s) : s \in C}
<1>1. T \subseteq Nat /\ T # {}
  BY DEF Snapshot
<1>2. PICK m \in T : \A k \in T : m <= k
  BY <1>1, LeastNatural
<1>3. PICK s \in C : m = bound - Len(s)
  BY <1>2
<1>4. \A t \in C : bound - Len(s) <= bound - Len(t)
  BY <1>2, <1>3
<1>5. \A t \in C : Len(t) \in Nat
  BY DEF Snapshot
<1> QED
  BY <1>4, <1>5

-----------------------------------------------------------------------------
(***************************************************************************)
(* "Is an ancestor of" is a partial order, total below any one snapshot.   *)
(* Ancestry, position by position: an ancestor has the same manifests from *)
(* the root up.                                                            *)
LEMMA PrefixPointwise ==
  ASSUME NEW s \in Snapshot, NEW p \in Snapshot
  PROVE  IsPrefix(p, s) <=> Len(p) <= Len(s) /\ \A i \in 1 .. Len(p) : p[i] = s[i]
BY DEF IsPrefix, Snapshot

(* The ancestors of a snapshot are exactly its prefixes.                   *)
LEMMA PrefixesAre ==
  ASSUME NEW s \in Snapshot, NEW p
  PROVE  p \in Prefixes(s) <=> p \in Snapshot /\ IsPrefix(p, s)
<1>1. ASSUME p \in Prefixes(s)
      PROVE  p \in Snapshot /\ IsPrefix(p, s)
  BY <1>1 DEF Prefixes, IsPrefix, Snapshot
<1>2. ASSUME p \in Snapshot, IsPrefix(p, s)
      PROVE  p \in Prefixes(s)
  <2>1. SubSeq(s, 1, Len(p)) = p
    BY <1>2, PrefixPointwise DEF Snapshot
  <2>2. Len(p) \in 0 .. Len(s)
    BY <1>2 DEF IsPrefix, Snapshot
  <2> QED
    BY <2>1, <2>2 DEF Prefixes
<1> QED
  BY <1>1, <1>2

(* A snapshot is its own ancestor.                                         *)
LEMMA PrefixReflexive ==
  ASSUME NEW s \in Snapshot
  PROVE  IsPrefix(s, s)
BY PrefixPointwise DEF Snapshot

(* An ancestor's ancestors are ancestors.                                  *)
LEMMA PrefixTransitive ==
  ASSUME NEW p \in Snapshot, NEW q \in Snapshot, NEW s \in Snapshot,
         IsPrefix(p, q), IsPrefix(q, s)
  PROVE  IsPrefix(p, s)
<1>1. Len(p) \in Nat /\ Len(q) \in Nat /\ Len(s) \in Nat
  BY DEF Snapshot
<1>2. Len(p) <= Len(q) /\ Len(q) <= Len(s)
  BY PrefixPointwise
<1>3. \A i \in 1 .. Len(p) : i \in 1 .. Len(q) /\ p[i] = q[i] /\ q[i] = s[i]
  BY <1>1, <1>2, PrefixPointwise
<1> QED
  BY <1>1, <1>2, <1>3, PrefixPointwise

(* An ancestor as long as the snapshot is the snapshot.                    *)
LEMMA PrefixAntisymmetric ==
  ASSUME NEW p \in Snapshot, NEW s \in Snapshot, IsPrefix(p, s), Len(s) <= Len(p)
  PROVE  p = s
<1>1. Len(p) = Len(s) /\ \A i \in 1 .. Len(p) : p[i] = s[i]
  BY PrefixPointwise DEF Snapshot
<1> QED
  BY <1>1 DEF Snapshot

(* Of two ancestors of one snapshot, the shorter is an ancestor of the     *)
(* longer.                                                                 *)
LEMMA PrefixTotal ==
  ASSUME NEW s \in Snapshot, NEW p \in Snapshot, NEW q \in Snapshot,
         IsPrefix(p, s), IsPrefix(q, s), Len(p) <= Len(q)
  PROVE  IsPrefix(p, q)
<1>1. Len(p) \in Nat /\ Len(q) \in Nat
  BY DEF Snapshot
<1>2. \A i \in 1 .. Len(p) : i \in 1 .. Len(q) /\ p[i] = s[i] /\ q[i] = s[i]
  BY <1>1, PrefixPointwise
<1> QED
  BY <1>2, PrefixPointwise

(* The empty snapshot every store is seeded with is everyone's ancestor.   *)
LEMMA PrefixRoot ==
  /\ Root \in Snapshot
  /\ \A s \in Snapshot : IsPrefix(Root, s)
BY DEF Root, Snapshot, IsPrefix

(* An ancestor is no longer than its descendant.                           *)
LEMMA PrefixLength ==
  ASSUME NEW s \in Snapshot, NEW p \in Snapshot, IsPrefix(p, s)
  PROVE  Len(p) <= Len(s)
BY DEF IsPrefix

(* A child's ancestors are the child and its parent's ancestors.           *)
LEMMA PrefixAppend ==
  ASSUME NEW s \in Snapshot, NEW m \in Manifest
  PROVE  /\ Append(s, m) \in Snapshot
         /\ IsPrefix(s, Append(s, m))
         /\ s # Append(s, m)
         /\ \A p \in Snapshot : IsPrefix(p, Append(s, m)) => p = Append(s, m) \/ IsPrefix(p, s)
<1>1. /\ Append(s, m) \in Snapshot
      /\ Len(Append(s, m)) = Len(s) + 1
      /\ \A i \in 1 .. Len(s) : Append(s, m)[i] = s[i]
      /\ Len(s) \in Nat
  BY DEF Snapshot
<1>2. IsPrefix(s, Append(s, m)) /\ s # Append(s, m)
  <2>1. Len(s) <= Len(Append(s, m)) /\ Len(s) # Len(Append(s, m))
    BY <1>1
  <2>2. \A i \in 1 .. Len(s) : s[i] = Append(s, m)[i]
    BY <1>1
  <2> QED
    BY <1>1, <2>1, <2>2, PrefixPointwise
<1>3. ASSUME NEW p \in Snapshot, IsPrefix(p, Append(s, m)), p # Append(s, m)
      PROVE  IsPrefix(p, s)
  <2>1. Len(p) \in Nat
    BY DEF Snapshot
  <2>2. Len(p) <= Len(s)
    <3>1. Len(p) <= Len(Append(s, m))
      BY <1>1, <1>3, PrefixLength
    <3>2. ~ (Len(Append(s, m)) <= Len(p))
      BY <1>1, <1>3, PrefixAntisymmetric
    <3> QED
      BY <1>1, <2>1, <3>1, <3>2
  <2> QED
    BY <1>1, <1>2, <1>3, <2>2, PrefixTotal
<1> QED
  BY <1>1, <1>2, <1>3

(* Cutting a chain off anywhere gives an ancestor.                         *)
LEMMA SubSeqPrefix ==
  ASSUME NEW s \in Snapshot, NEW l \in 0 .. Len(s)
  PROVE  /\ SubSeq(s, 1, l) \in Snapshot
         /\ Len(SubSeq(s, 1, l)) = l
         /\ IsPrefix(SubSeq(s, 1, l), s)
<1>1. SubSeq(s, 1, l) \in Snapshot
  BY DEF Snapshot
<1>2. Len(SubSeq(s, 1, l)) = l
  BY DEF Snapshot
<1> QED
  BY <1>1, <1>2 DEF IsPrefix, Snapshot

(* The parent is the ancestor one step down.                               *)
LEMMA FrontPrefix ==
  ASSUME NEW s \in Snapshot, s # Root
  PROVE  /\ Front(s) \in Snapshot
         /\ IsPrefix(Front(s), s)
         /\ Len(Front(s)) = Len(s) - 1
<1>1. Len(s) \in Nat \ {0}
  BY DEF Snapshot, Root
<1>2. Len(s) - 1 \in 0 .. Len(s)
  BY <1>1
<1> QED
  BY <1>2, SubSeqPrefix DEF Front

-----------------------------------------------------------------------------
(***************************************************************************)
(* Walks through a store that holds whole chains.                          *)
(* In a store without holes the walk down the parent chain meets every     *)
(* ancestor.                                                               *)
LEMMA AncestryComplete ==
  ASSUME NEW s \in Snapshot, NEW store, Prefixes(s) \subseteq store
  PROVE  ancestry(store, s) = Prefixes(s)
BY DEF ancestry

(* Whatever the store holds, the walk meets only stored ancestors.         *)
LEMMA AncestryPrefix ==
  ASSUME NEW s \in Snapshot, NEW store, NEW p \in ancestry(store, s)
  PROVE  p \in Snapshot /\ IsPrefix(p, s) /\ p \in store
<1>1. p \in Prefixes(s) /\ p \in store
  <2>1. p \in Prefixes(s)
    BY DEF ancestry
  <2>2. Len(p) <= Len(p)
    BY <2>1, PrefixesAre DEF Snapshot
  <2> QED
    BY <2>1, <2>2 DEF ancestry
<1> QED
  BY <1>1, PrefixesAre

(* isAncestor never calls a snapshot an ancestor that is none, whatever    *)
(* the store holds: the anchor check cannot be fooled.                     *)
LEMMA AncestorPrefix ==
  ASSUME NEW s \in Snapshot, NEW a \in Snapshot, NEW store, isAncestor(store, a, s)
  PROVE  IsPrefix(a, s)
<1>1. CASE a = s
  BY <1>1, PrefixReflexive
<1>2. CASE a # s
  <2>1. PICK b \in ancestry(store, s) : a = b \/ (b # Root /\ a = Front(b))
    BY <1>2 DEF isAncestor
  <2>2. b \in Snapshot /\ IsPrefix(b, s)
    BY <2>1, AncestryPrefix
  <2> QED
    BY <2>1, <2>2, FrontPrefix, PrefixTransitive
<1> QED
  BY <1>1, <1>2

(* With both chains in the store, findBaseSnapshot returns an ancestor of  *)
(* both sides.                                                             *)
LEMMA BaseIsCommon ==
  ASSUME NEW local \in Snapshot, NEW remote \in Snapshot, NEW store,
         Prefixes(local) \subseteq store, Prefixes(remote) \subseteq store
  PROVE  /\ findBaseSnapshot(store, local, remote) \in Snapshot
         /\ IsPrefix(findBaseSnapshot(store, local, remote), local)
         /\ IsPrefix(findBaseSnapshot(store, local, remote), remote)
<1> DEFINE common == Prefixes(local) \cap Prefixes(remote)
<1>1. common \subseteq Snapshot /\ Root \in common
  BY PrefixesAre, PrefixRoot
<1>2. \A s \in common : Len(s) <= Len(local)
  BY PrefixesAre, PrefixLength
<1>3. \E s \in common : \A other \in common : Len(other) <= Len(s)
  <2>1. Len(local) \in Nat
    BY DEF Snapshot
  <2> HIDE DEF common
  <2> QED
    BY <1>1, <1>2, <2>1, LongestExists
<1>4. findBaseSnapshot(store, local, remote) \in common
  BY <1>3, AncestryComplete DEF findBaseSnapshot
<1> QED
  BY <1>4, PrefixesAre

-----------------------------------------------------------------------------
(***************************************************************************)
(* Manifests in, manifests out.                                            *)
(* A snapshot's files are a manifest.                                      *)
LEMMA FilesType ==
  ASSUME NEW s \in Snapshot
  PROVE  Files(s) \in Manifest
<1>1. NoFiles \in Manifest
  BY DEF NoFiles, Manifest
<1>2. s # Root => s[Len(s)] \in Manifest
  BY DEF Snapshot, Root
<1> QED
  BY <1>1, <1>2 DEF Files

(* A listed name has an entry.                                             *)
LEMMA ListedEntry ==
  ASSUME NEW m \in Manifest, NEW n \in Listed(m)
  PROVE  n \in Name /\ m[n] \in Entry /\ m[n].hash \in Content /\ m[n].fileId \in FileId
<1>1. n \in Name /\ m[n] \in Entry
  BY DEF Listed, Manifest
<1> QED
  BY <1>1 DEF Entry

(* The manifest at a position is that of the ancestor ending there.        *)
LEMMA PrefixFiles ==
  ASSUME NEW s \in Snapshot, NEW p \in Snapshot, IsPrefix(p, s), p # Root
  PROVE  Files(p) = s[Len(p)] /\ Len(p) \in 1 .. Len(s)
<1>1. Len(p) \in 1 .. Len(s)
  BY PrefixLength DEF Snapshot, Root
<1>2. p[Len(p)] = s[Len(p)]
  BY <1>1, PrefixPointwise DEF Snapshot
<1> QED
  BY <1>1, <1>2 DEF Files

(* Read from the root's empty manifest on, the manifests of a chain are    *)
(* those of its ancestors.                                                 *)
LEMMA ManifestAt ==
  ASSUME NEW s \in Snapshot, NEW l \in 0 .. Len(s)
  PROVE  Manifests(s)[l + 1] = Files(SubSeq(s, 1, l))
<1> DEFINE p == SubSeq(s, 1, l)
<1>1. p \in Snapshot /\ Len(p) = l /\ IsPrefix(p, s)
  BY SubSeqPrefix
<1> HIDE DEF p
<1>2. CASE l = 0
  <2>1. p = Root
    BY <1>1, <1>2 DEF Root, Snapshot
  <2>2. Manifests(s)[1] = NoFiles
    BY DEF Manifests, Snapshot
  <2> QED
    BY <1>2, <2>1, <2>2 DEF Files, p
<1>3. CASE l # 0
  <2>1. p # Root
    BY <1>1, <1>3 DEF Root
  <2>2. Files(p) = s[l]
    BY <1>1, <2>1, PrefixFiles
  <2>3. Manifests(s)[l + 1] = s[l]
    <3>1. s \in Seq(Manifest) /\ <<NoFiles>> \in Seq({NoFiles}) /\ Len(<<NoFiles>>) = 1
      BY DEF Snapshot
    <3>2. l \in 1 .. Len(s)
      BY <1>3
    <3> QED
      BY <3>1, <3>2 DEF Manifests
  <2> QED
    BY <2>2, <2>3 DEF p
<1> QED
  BY <1>2, <1>3

(* A name that was touched on the way to s was listed on the way.          *)
LEMMA TouchedListed ==
  ASSUME NEW s \in Snapshot, NEW from \in Nat, NEW upTo \in 0 .. Len(s), NEW n \in Name,
         Touched(s, from, upTo, n)
  PROVE  \E l \in 0 .. upTo : n \in Listed(Files(SubSeq(s, 1, l)))
<1>1. Len(s) \in Nat
  BY DEF Snapshot
<1>2. PICK j \in (from + 1) .. upTo :
        ~ sameEntry(Manifests(s)[j][n], Manifests(s)[j + 1][n])
  BY DEF Touched
<1>3. j - 1 \in 0 .. Len(s) /\ j \in 0 .. Len(s) /\ (j - 1) + 1 = j /\ j - 1 \in 0 .. upTo
      /\ j \in 0 .. upTo
  BY <1>1, <1>2
<1>4. /\ Manifests(s)[j] = Files(SubSeq(s, 1, j - 1))
      /\ Manifests(s)[j + 1] = Files(SubSeq(s, 1, j))
  BY <1>3, ManifestAt
<1>5. Manifests(s)[j][n] # Absent \/ Manifests(s)[j + 1][n] # Absent
  BY <1>2 DEF sameEntry
<1> QED
  BY <1>3, <1>4, <1>5 DEF Listed

(* A name no snapshot has touched has the content it had.                  *)
LEMMA UntouchedSame ==
  ASSUME NEW s \in Snapshot, NEW from \in Nat, NEW upTo \in Nat, from <= upTo, NEW n \in Name,
         ~ Touched(s, from, upTo, n)
  PROVE  sameEntry(Manifests(s)[from + 1][n], Manifests(s)[upTo + 1][n])
<1> DEFINE hash(k) == HashOf(Manifests(s)[k + 1][n])
           T == {k \in from .. upTo : hash(k) # hash(from)}
<1>1. \A j \in (from + 1) .. upTo : HashOf(Manifests(s)[j][n]) = HashOf(Manifests(s)[j + 1][n])
  BY DEF Touched, sameEntry
<1>2. \A j \in (from + 1) .. upTo : hash(j - 1) = hash(j)
  <2> SUFFICES ASSUME NEW j \in (from + 1) .. upTo
               PROVE  hash(j - 1) = hash(j)
    OBVIOUS
  <2>1. (j - 1) + 1 = j
    OBVIOUS
  <2> QED
    BY <1>1, <2>1
<1> HIDE DEF hash
<1>3. ASSUME T # {}
      PROVE  FALSE
  <2>1. T \subseteq Nat
    OBVIOUS
  <2>2. PICK m \in T : \A k \in T : m <= k
    BY <1>3, <2>1, LeastNatural
  <2>3. m \in (from + 1) .. upTo /\ m - 1 \in from .. upTo
    OBVIOUS
  <2>4. m - 1 \in T
    BY <1>2, <2>3
  <2>5. ~ (m <= m - 1)
    BY <2>3
  <2> QED
    BY <2>2, <2>4, <2>5
<1>4. hash(upTo) = hash(from)
  BY <1>3
<1> QED
  BY <1>4 DEF hash, sameEntry

(* Above the root's, the manifest at a position is the snapshot's own.     *)
LEMMA ManifestAfter ==
  ASSUME NEW s \in Snapshot, NEW j \in 1 .. Len(s)
  PROVE  Manifests(s)[j + 1] = s[j] /\ s[j] \in Manifest
<1>1. s \in Seq(Manifest) /\ <<NoFiles>> \in Seq({NoFiles}) /\ Len(<<NoFiles>>) = 1
  BY DEF Snapshot
<1> QED
  BY <1>1 DEF Manifests

(* The last snapshot that touched a name has given it the content it has.  *)
LEMMA LastTouchIs ==
  ASSUME NEW s \in Snapshot, NEW from \in Nat, NEW upTo \in 0 .. Len(s), NEW n \in Name,
         Touched(s, from, upTo, n)
  PROVE  /\ LastTouch(s, from, upTo, n) \in (from + 1) .. upTo
         /\ s[LastTouch(s, from, upTo, n)] \in Manifest
         /\ HashOf(s[LastTouch(s, from, upTo, n)][n]) = HashOf(s[upTo][n])
<1> DEFINE moves(j) == ~ sameEntry(Manifests(s)[j][n], Manifests(s)[j + 1][n])
           T == {k \in 0 .. upTo : upTo - k >= from + 1 /\ moves(upTo - k)}
           last == LastTouch(s, from, upTo, n)
<1>1. Len(s) \in Nat /\ upTo \in Nat
  BY DEF Snapshot
<1>2. PICK i \in (from + 1) .. upTo : moves(i)
  BY DEF Touched
<1> HIDE DEF moves
<1>3. T \subseteq Nat /\ T # {}
  <2>1. upTo - i \in 0 .. upTo /\ upTo - (upTo - i) = i /\ i >= from + 1
    BY <1>1, <1>2
  <2>2. moves(upTo - (upTo - i))
    BY <1>2, <2>1
  <2>3. upTo - i \in T
    BY <2>1, <2>2
  <2>4. T \subseteq Nat
    BY <1>1
  <2> HIDE DEF T
  <2> QED
    BY <2>3, <2>4
<1>4. PICK m \in T : \A k \in T : m <= k
  BY <1>3, LeastNatural
<1>5. upTo - m \in (from + 1) .. upTo /\ moves(upTo - m)
  BY <1>1, <1>4
<1>6. ~ Touched(s, upTo - m, upTo, n)
  <2> SUFFICES ASSUME NEW k \in ((upTo - m) + 1) .. upTo, moves(k)
               PROVE  FALSE
    BY DEF Touched, moves
  <2>1. upTo - k \in 0 .. upTo /\ upTo - (upTo - k) = k /\ k >= from + 1 /\ upTo - k < m
    BY <1>1, <1>4
  <2>2. moves(upTo - (upTo - k))
    BY <2>1
  <2>3. upTo - k \in T
    BY <2>1, <2>2
  <2>4. m <= upTo - k
    BY <1>4, <2>3
  <2> QED
    BY <1>1, <1>4, <2>1, <2>4
<1>7. last \in (from + 1) .. upTo /\ ~ Touched(s, last, upTo, n)
  <2>1. \E j \in (from + 1) .. upTo : moves(j) /\ ~ Touched(s, j, upTo, n)
    BY <1>5, <1>6
  <2> QED
    BY <2>1 DEF LastTouch, moves
<1> HIDE DEF last
<1>8. last \in Nat /\ last <= upTo /\ last \in 1 .. Len(s) /\ upTo \in 1 .. Len(s)
  BY <1>1, <1>7
<1>9. sameEntry(Manifests(s)[last + 1][n], Manifests(s)[upTo + 1][n])
  BY <1>1, <1>7, <1>8, UntouchedSame
<1>10. Manifests(s)[last + 1] = s[last] /\ s[last] \in Manifest /\ Manifests(s)[upTo + 1] = s[upTo]
  BY <1>8, ManifestAfter
<1> QED
  BY <1>7, <1>9, <1>10 DEF sameEntry, last

(* A name is listed when it has a content, and the chunks of a snapshot    *)
(* are its contents.                                                       *)
LEMMA ListedHash ==
  ASSUME NEW s \in Snapshot, NEW n \in Name
  PROVE  /\ n \in Listed(Files(s)) <=> HashOf(Files(s)[n]) # Absent
         /\ Files(s)[n] # Absent => HashOf(Files(s)[n]) = Files(s)[n].hash
<1>1. n \in Listed(Files(s)) => Files(s)[n].hash \in Content
  BY FilesType, ListedEntry
<1> QED
  BY <1>1, AbsentAssumption DEF Listed, HashOf

LEMMA HashChunks ==
  ASSUME NEW s \in Snapshot
  PROVE  ChunksOf(s) = {HashOf(Files(s)[n]) : n \in Name} \ {Absent}
<1>1. \A n \in Name : n \in Listed(Files(s)) =>
        HashOf(Files(s)[n]) = Files(s)[n].hash /\ HashOf(Files(s)[n]) # Absent
  BY ListedHash DEF Listed
<1>2. \A n \in Name : HashOf(Files(s)[n]) # Absent => n \in Listed(Files(s))
  BY ListedHash
<1> QED
  BY <1>1, <1>2 DEF ChunksOf, Listed

(* What replay puts on the remote head: one manifest for each local        *)
(* snapshot since the base, with its contents for the names touched since. *)
LEMMA ReplayTop ==
  ASSUME NEW local \in Snapshot, NEW remote \in Snapshot, NEW base \in Snapshot,
         IsPrefix(base, local)
  PROVE  \E top \in Seq(Manifest) :
           /\ Len(top) = Len(local) - Len(base)
           /\ replay(local, remote, base) = remote \o top
           /\ \A i \in 1 .. (Len(local) - Len(base)) : \A n \in Name :
                HashOf(top[i][n]) =
                  HashOf(IF Touched(local, Len(base), Len(base) + i, n)
                         THEN local[Len(base) + i][n]
                         ELSE Files(remote)[n])
<1> DEFINE more == Len(local) - Len(base)
           entry(i, n) == IF Touched(local, Len(base), Len(base) + i, n)
                          THEN local[LastTouch(local, Len(base), Len(base) + i, n)][n]
                          ELSE Files(remote)[n]
           top == [i \in 1 .. more |-> [n \in Name |-> entry(i, n)]]
<1>1. more \in Nat /\ Len(base) \in Nat /\ Len(local) \in Nat
  BY PrefixLength DEF Snapshot
<1>2. ASSUME NEW i \in 1 .. more, NEW n \in Name
      PROVE  /\ entry(i, n) \in Entry \cup {Absent}
             /\ HashOf(entry(i, n)) = HashOf(IF Touched(local, Len(base), Len(base) + i, n)
                                            THEN local[Len(base) + i][n]
                                            ELSE Files(remote)[n])
  <2>1. Len(base) + i \in 0 .. Len(local)
    BY <1>1
  <2>2. CASE Touched(local, Len(base), Len(base) + i, n)
    <3>1. /\ local[LastTouch(local, Len(base), Len(base) + i, n)] \in Manifest
          /\ HashOf(local[LastTouch(local, Len(base), Len(base) + i, n)][n])
               = HashOf(local[Len(base) + i][n])
      BY <1>1, <2>1, <2>2, LastTouchIs
    <3> QED
      BY <2>2, <3>1 DEF Manifest
  <2>3. CASE ~ Touched(local, Len(base), Len(base) + i, n)
    BY <2>3, FilesType DEF Manifest
  <2> QED
    BY <2>2, <2>3
<1>3. ASSUME NEW i \in 1 .. more
      PROVE  [n \in Name |-> entry(i, n)] \in Manifest
  BY <1>2 DEF Manifest
<1>4. top \in Seq(Manifest) /\ Len(top) = more
  <2> HIDE DEF more, entry
  <2> QED
    BY <1>1, <1>3
<1>5. replay(local, remote, base) = remote \o top
  BY DEF replay
<1>6. \A i \in 1 .. more : \A n \in Name : top[i][n] = entry(i, n)
  <2> HIDE DEF entry
  <2> QED
    OBVIOUS
<1> HIDE DEF top, entry
<1> QED
  BY <1>2, <1>4, <1>5, <1>6

(* replay returns a snapshot on top of the remote head, whatever the local *)
(* chain and the base are.                                                 *)
LEMMA ReplayOnTop ==
  ASSUME NEW local \in Snapshot, NEW remote \in Snapshot, NEW base \in Snapshot,
         IsPrefix(base, local)
  PROVE  /\ replay(local, remote, base) \in Snapshot
         /\ IsPrefix(remote, replay(local, remote, base))
<1>1. PICK top \in Seq(Manifest) : replay(local, remote, base) = remote \o top
  BY ReplayTop
<1>2. remote \o top \in Seq(Manifest) /\ Len(remote \o top) >= Len(remote)
  BY DEF Snapshot
<1>3. \A i \in 1 .. Len(remote) : (remote \o top)[i] = remote[i]
  BY DEF Snapshot
<1> QED
  BY <1>1, <1>2, <1>3, PrefixPointwise DEF Snapshot

(* Every snapshot replay puts on the remote head stands for one of the     *)
(* local snapshots since the base: it has that one's contents for the      *)
(* names touched since the base and the remote head's for the others.      *)
LEMMA ReplayManifest ==
  ASSUME NEW local \in Snapshot, NEW remote \in Snapshot, NEW base \in Snapshot,
         IsPrefix(base, local), NEW p \in Snapshot,
         IsPrefix(p, replay(local, remote, base)), Len(p) > Len(remote),
         NEW l, l = Len(base) + (Len(p) - Len(remote))
  PROVE  /\ l \in 1 .. Len(local)
         /\ SubSeq(local, 1, l) \in Snapshot /\ IsPrefix(SubSeq(local, 1, l), local)
         /\ \A n \in Name :
              HashOf(Files(p)[n]) = HashOf(IF Touched(local, Len(base), l, n)
                                           THEN Files(SubSeq(local, 1, l))[n]
                                           ELSE Files(remote)[n])
<1>1. PICK top \in Seq(Manifest) :
        /\ Len(top) = Len(local) - Len(base)
        /\ replay(local, remote, base) = remote \o top
        /\ \A i \in 1 .. (Len(local) - Len(base)) : \A n \in Name :
             HashOf(top[i][n]) =
               HashOf(IF Touched(local, Len(base), Len(base) + i, n)
                      THEN local[Len(base) + i][n]
                      ELSE Files(remote)[n])
  BY ReplayTop, Zenon
<1>2. /\ Len(base) \in Nat /\ Len(local) \in Nat /\ Len(remote) \in Nat /\ Len(p) \in Nat
      /\ Len(base) <= Len(local) /\ replay(local, remote, base) \in Snapshot
  <2>1. Len(base) <= Len(local)
    BY PrefixLength
  <2>2. replay(local, remote, base) \in Snapshot
    BY ReplayOnTop
  <2> QED
    BY <2>1, <2>2 DEF Snapshot
<1>3. /\ Len(remote \o top) = Len(remote) + (Len(local) - Len(base))
      /\ \A i \in 1 .. (Len(local) - Len(base)) : (remote \o top)[Len(remote) + i] = top[i]
  <2>1. remote \in Seq(Manifest)
    BY DEF Snapshot
  <2>2. /\ Len(remote \o top) = Len(remote) + Len(top)
        /\ \A i \in 1 .. Len(top) : (remote \o top)[Len(remote) + i] = top[i]
    BY <2>1
  <2> QED
    BY <1>1, <2>2
<1>4. PICK i \in 1 .. (Len(local) - Len(base)) : Len(p) = Len(remote) + i
  <2>1. Len(p) <= Len(remote) + (Len(local) - Len(base))
    BY <1>1, <1>2, <1>3, PrefixLength
  <2>2. Len(p) - Len(remote) \in 1 .. (Len(local) - Len(base))
    BY <1>2, <2>1
  <2>3. Len(p) = Len(remote) + (Len(p) - Len(remote))
    BY <1>2
  <2> QED
    BY <2>2, <2>3
<1>5. l = Len(base) + i /\ l \in 1 .. Len(local) /\ l \in 0 .. Len(local) /\ l # 0 /\ p # Root
  BY <1>2, <1>4 DEF Root
<1>6. Files(p) = top[i]
  <2>1. Files(p) = (remote \o top)[Len(p)]
    BY <1>1, <1>2, <1>5, PrefixFiles
  <2> QED
    BY <1>1, <1>3, <1>4, <2>1
<1>7. Files(SubSeq(local, 1, l)) = local[l]
  <2> DEFINE q == SubSeq(local, 1, l)
  <2>1. q \in Snapshot /\ IsPrefix(q, local) /\ Len(q) = l
    BY <1>5, SubSeqPrefix
  <2> HIDE DEF q
  <2>2. q # Root
    BY <1>5, <2>1 DEF Root
  <2>3. Files(q) = local[l]
    BY <2>1, <2>2, PrefixFiles
  <2> QED
    BY <2>3 DEF q
<1>8. SubSeq(local, 1, l) \in Snapshot /\ IsPrefix(SubSeq(local, 1, l), local)
  BY <1>5, SubSeqPrefix
<1> QED
  BY <1>1, <1>5, <1>6, <1>7, <1>8

(* The last of them, or the remote head itself when there is none, has for *)
(* every name the content it has in one of the two heads.                  *)
LEMMA ReplayLast ==
  ASSUME NEW local \in Snapshot, NEW remote \in Snapshot, NEW base \in Snapshot,
         IsPrefix(base, local), NEW n \in Name
  PROVE  HashOf(Files(replay(local, remote, base))[n])
           \in {HashOf(Files(local)[n]), HashOf(Files(remote)[n])}
<1> DEFINE top == replay(local, remote, base)
<1>1. /\ top \in Snapshot /\ IsPrefix(remote, top) /\ IsPrefix(top, top)
      /\ Len(top) = Len(remote) + (Len(local) - Len(base))
  <2>1. top \in Snapshot /\ IsPrefix(remote, top)
    BY ReplayOnTop
  <2>2. PICK more \in Seq(Manifest) :
          Len(more) = Len(local) - Len(base) /\ top = remote \o more
    BY ReplayTop
  <2> HIDE DEF top
  <2>3. remote \in Seq(Manifest)
    BY DEF Snapshot
  <2>4. Len(top) = Len(remote) + Len(more)
    BY <2>2, <2>3
  <2> QED
    BY <2>1, <2>2, <2>4, PrefixReflexive
<1>2. Len(base) \in Nat /\ Len(local) \in Nat /\ Len(remote) \in Nat
  BY DEF Snapshot
<1>3. CASE Len(top) > Len(remote)
  <2> PICK l : l = Len(base) + (Len(top) - Len(remote))
    OBVIOUS
  <2>1. /\ SubSeq(local, 1, l) \in Snapshot /\ IsPrefix(SubSeq(local, 1, l), local)
        /\ HashOf(Files(top)[n])
             \in {HashOf(Files(SubSeq(local, 1, l))[n]), HashOf(Files(remote)[n])}
        /\ l \in 1 .. Len(local)
    <3> HIDE DEF top
    <3>1. IsPrefix(top, replay(local, remote, base))
      BY <1>1 DEF top
    <3>2. /\ SubSeq(local, 1, l) \in Snapshot /\ IsPrefix(SubSeq(local, 1, l), local)
          /\ HashOf(Files(top)[n]) = HashOf(IF Touched(local, Len(base), l, n)
                                           THEN Files(SubSeq(local, 1, l))[n]
                                           ELSE Files(remote)[n])
          /\ l \in 1 .. Len(local)
      BY <1>1, <1>3, <3>1, ReplayManifest
    <3> QED
      BY <3>2
  <2>2. l = Len(local)
    <3> HIDE DEF top
    <3> QED
      BY <1>1, <1>2
  <2> DEFINE q == SubSeq(local, 1, l)
  <2>3. q \in Snapshot /\ IsPrefix(q, local) /\ Len(q) = l
    <3>1. l \in 0 .. Len(local)
      BY <1>2, <2>2
    <3> QED
      BY <3>1, SubSeqPrefix
  <2> HIDE DEF q
  <2>4. q = local
    <3>1. Len(local) <= Len(q)
      BY <1>2, <2>2, <2>3
    <3> QED
      BY <2>3, <3>1, PrefixAntisymmetric
  <2> QED
    BY <2>1, <2>4 DEF q
<1>4. CASE ~ (Len(top) > Len(remote))
  <2>1. Len(top) \in Nat
    BY <1>1 DEF Snapshot
  <2>2. top = remote
    <3> HIDE DEF top
    <3> QED
      BY <1>1, <1>2, <1>4, <2>1, PrefixAntisymmetric
  <2> QED
    BY <2>2
<1> QED
  BY <1>3, <1>4

(* The manifest buildSnapshot makes of a tree lists every file with a      *)
(* content and a file id.                                                  *)
LEMMA BuildSnapshotType ==
  ASSUME NEW files \in Manifest, NEW told \in [Name -> Content \cup {Absent}],
         NEW away \in SUBSET Listed(files), NEW looked,
         \A n \in looked : told[n] # Absent, NEW newId \in FileId
  PROVE  /\ buildSnapshot(files, told, away, looked, newId) \in Manifest
         /\ \A n \in Name :
              n \in looked /\ n \notin away =>
                buildSnapshot(files, told, away, looked, newId)[n] \in Entry
<1> DEFINE renamed(n) == {m \in away : files[m].hash = told[n]}
           idOf(n) == IF files[n] # Absent THEN files[n].fileId
                      ELSE IF renamed(n) # {} THEN files[CHOOSE m \in renamed(n) : TRUE].fileId
                      ELSE newId
<1>1. ASSUME NEW n \in Name
      PROVE  idOf(n) \in FileId
  <2>1. files[n] # Absent => n \in Listed(files)
    BY DEF Listed
  <2>2. renamed(n) # {} => (CHOOSE m \in renamed(n) : TRUE) \in Listed(files)
    BY Zenon
  <2> QED
    BY <2>1, <2>2, ListedEntry
<1>2. ASSUME NEW n \in Name, n \in looked
      PROVE  [hash |-> told[n], fileId |-> idOf(n)] \in Entry
  BY <1>1, <1>2 DEF Entry
<1>3. \A n \in Name : files[n] \in Entry \cup {Absent}
  BY DEF Manifest
<1> HIDE DEF idOf
<1> DEFINE m == [n \in Name |->
             IF n \in away THEN Absent
             ELSE IF n \in looked THEN [hash |-> told[n], fileId |-> idOf(n)]
             ELSE files[n]]
<1>4. m \in Manifest
  BY <1>2, <1>3 DEF Manifest
<1>5. \A n \in Name : n \in looked /\ n \notin away => m[n] \in Entry
  BY <1>2
<1>6. buildSnapshot(files, told, away, looked, newId) = m
  BY DEF buildSnapshot, idOf
<1> QED
  BY <1>4, <1>5, <1>6

-----------------------------------------------------------------------------
(***************************************************************************)
(* The devices' rounds.                                                    *)
(***************************************************************************)

(* A round of d is under way; it is past its fetch. *)
Underway(d) == pc[d] \notin {"idle", "retry"}
HasFetched(d) == pc[d] \in {"fetched", "merge", "rebase", "rebased", "push", "anchor"}

(* A store without holes. *)
Whole(store) == \A s \in store : Prefixes(s) \subseteq store

(* Every device's store, which holds the device's head. *)
StoresWhole ==
  \A d \in Device : Whole(snapshots[d]) /\ (head[d] # NoHead => head[d] \in snapshots[d])

(* What a round's next steps rely on. *)
RoundStored ==
  \A d \in Device :
    /\ Underway(d) => head[d] # NoHead
    /\ pc[d] = "fetch" => round[d].syncedHead # NoHead
    /\ HasFetched(d) => Tip(round[d].syncedHead) \in snapshots[d]
    /\ pc[d] \in {"merge", "rebase"} => round[d].local = head[d]

LocalInv == TypeOK /\ StoresWhole /\ RoundStored

-----------------------------------------------------------------------------
(* The locals of a round that has not begun are of the right type.         *)
LEMMA NoRoundType == NoRound \in RoundType
BY EngineAssumption, PrefixRoot DEF NoRound, RoundType, MaybeHead

(* A head that is not set stands for the empty snapshot.                   *)
LEMMA TipType ==
  ASSUME NEW h \in MaybeHead
  PROVE  Tip(h) \in Snapshot
BY PrefixRoot DEF Tip, MaybeHead

(* The types of a round's locals.                                          *)
LEMMA RoundFields ==
  ASSUME TypeOK, NEW d \in Device
  PROVE  /\ round[d].syncedHead \in MaybeHead /\ Tip(round[d].syncedHead) \in Snapshot
         /\ round[d].local \in Snapshot /\ round[d].latest \in Snapshot
         /\ round[d].todo \in SUBSET Name
         /\ round[d].attempt \in 1 .. MaxRetries
BY TipType DEF TypeOK, MemoryTypeOK, RoundType

(* A whole store holds the ancestors of all it holds.                      *)
LEMMA WholePrefix ==
  ASSUME NEW store \in SUBSET Snapshot, Whole(store), NEW s \in store,
         NEW p \in Snapshot, IsPrefix(p, s)
  PROVE  p \in store
BY PrefixesAre DEF Whole

(* Storing a child of a stored snapshot keeps a store whole.               *)
LEMMA WholeAppend ==
  ASSUME NEW store \in SUBSET Snapshot, Whole(store), NEW s \in store, NEW m \in Manifest
  PROVE  Whole(store \cup {Append(s, m)}) /\ store \cup {Append(s, m)} \in SUBSET Snapshot
<1>1. \A p \in Prefixes(Append(s, m)) : p = Append(s, m) \/ p \in store
  BY PrefixAppend, PrefixesAre, WholePrefix
<1> QED
  BY <1>1, PrefixAppend DEF Whole

(* Seeding a store with the empty snapshot (Repo.prepare) keeps it whole.  *)
LEMMA RootWhole ==
  ASSUME NEW store \in SUBSET Snapshot, Whole(store)
  PROVE  Whole(store \cup {Root}) /\ store \cup {Root} \in SUBSET Snapshot
<1>1. \A p \in Prefixes(Root) : p = Root
  BY PrefixesAre, PrefixRoot, PrefixAntisymmetric, PrefixLength
<1> QED
  BY <1>1, PrefixRoot DEF Whole

-----------------------------------------------------------------------------
(* Repo.snapshot leaves the head alone or puts one child on it.            *)
LEMMA NextSnapshotFacts ==
  ASSUME TypeOK, NEW d \in Device, head[d] # NoHead
  PROVE  /\ nextSnapshot(d) \in Snapshot
         /\ IsPrefix(head[d], nextSnapshot(d))
         /\ nextSnapshot(d) = head[d] \/ \E m \in Manifest : nextSnapshot(d) = Append(head[d], m)
         /\ CheckoutAfterStatus(d) \in Checkout
         /\ {tree[d][n] : n \in changed(d)} \in SUBSET Content
<1>1. head[d] \in Snapshot
  BY DEF TypeOK, DiskTypeOK, MaybeHead
<1>2. tree[d] \in [Name -> Content \cup {Absent}] /\ changes[d] \in SUBSET Name
  BY DEF TypeOK, DiskTypeOK
<1>3. HeadFiles(d) \in Manifest
  BY <1>1, FilesType DEF HeadFiles
<1>4. gone(d) \in SUBSET Listed(HeadFiles(d)) /\ \A n \in changed(d) : tree[d][n] # Absent /\ n \in Name
  BY <1>2 DEF gone, changed, OnDisk
<1>5. buildSnapshot(HeadFiles(d), tree[d], gone(d), changed(d), d) \in Manifest
  BY <1>2, <1>3, <1>4, BuildSnapshotType, EngineAssumption
<1>6. \/ nextSnapshot(d) = head[d]
      \/ \E m \in Manifest : nextSnapshot(d) = Append(head[d], m)
  BY <1>5 DEF nextSnapshot
<1>7. CheckoutAfterStatus(d) \in Checkout
  <2>1. checkout[d] \in Checkout
    BY DEF TypeOK, MemoryTypeOK
  <2>2. OnDisk(d) \subseteq Name
    BY DEF OnDisk
  <2> QED
    BY <2>1, <2>2 DEF CheckoutAfterStatus, Checkout
<1>8. {tree[d][n] : n \in changed(d)} \in SUBSET Content
  BY <1>2, <1>4
<1>9. nextSnapshot(d) \in Snapshot /\ IsPrefix(head[d], nextSnapshot(d))
  <2>1. CASE nextSnapshot(d) = head[d]
    BY <1>1, <2>1, PrefixReflexive
  <2>2. CASE nextSnapshot(d) # head[d]
    BY <1>1, <1>6, <2>2, PrefixAppend
  <2> QED
    BY <2>1, <2>2
<1> QED
  BY <1>6, <1>7, <1>8, <1>9

(* recordCheckpoint leaves the head alone or puts one child on it.         *)
LEMMA RecordCheckpointFacts ==
  ASSUME NEW d \in Device, NEW s \in Snapshot, NEW n \in Name, NEW c \in Content
  PROVE  /\ recordCheckpoint(d, s, n, c) \in Snapshot
         /\ IsPrefix(s, recordCheckpoint(d, s, n, c))
         /\ \/ recordCheckpoint(d, s, n, c) = s
            \/ \E m \in Manifest : recordCheckpoint(d, s, n, c) = Append(s, m)
<1> DEFINE id == IF Files(s)[n] = Absent THEN d ELSE Files(s)[n].fileId
           m == [Files(s) EXCEPT ![n] = [hash |-> c, fileId |-> id]]
<1>1. Files(s) \in Manifest
  BY FilesType
<1>2. id \in FileId
  BY <1>1, ListedEntry, EngineAssumption DEF Listed
<1>3. [hash |-> c, fileId |-> id] \in Entry
  BY <1>2 DEF Entry
<1>4. m \in Manifest
  <2> HIDE DEF id
  <2> QED
    BY <1>1, <1>3 DEF Manifest
<1>5. recordCheckpoint(d, s, n, c) = s \/ recordCheckpoint(d, s, n, c) = Append(s, m)
  BY DEF recordCheckpoint
<1> HIDE DEF m
<1> QED
  BY <1>4, <1>5, PrefixAppend, PrefixReflexive

-----------------------------------------------------------------------------
(* New devices and a new remote satisfy the invariant.                     *)
LEMMA InitType == Init => LocalInv
<1> SUFFICES ASSUME Init
             PROVE  LocalInv
  OBVIOUS
<1>1. TypeOK
  <2>1. [known |-> {}, pending |-> {}] \in Checkout
    BY DEF Checkout
  <2>2. NoRound \in RoundType
    BY NoRoundType
  <2>3. DiskTypeOK
    BY <2>1 DEF Init, DiskTypeOK, MaybeHead
  <2>4. MemoryTypeOK
    BY <2>1, <2>2 DEF Init, MemoryTypeOK, PcType
  <2>5. RemoteTypeOK /\ BoundTypeOK
    BY EngineAssumption DEF Init, RemoteTypeOK, BoundTypeOK, MaybeHead
  <2> QED
    BY <2>3, <2>4, <2>5 DEF TypeOK
<1>2. StoresWhole
  BY DEF Init, StoresWhole, Whole
<1>3. RoundStored
  BY DEF Init, RoundStored, Underway, HasFetched
<1> QED
  BY <1>1, <1>2, <1>3 DEF LocalInv

-----------------------------------------------------------------------------
(* A step that leaves heads and stores alone keeps the stores whole.       *)
LEMMA StoresUntouched ==
  ASSUME StoresWhole, UNCHANGED <<head, snapshots>>
  PROVE  StoresWhole'
BY DEF StoresWhole, Whole

(* A user's write keeps the invariant.                                     *)
LEMMA WriteStep ==
  ASSUME LocalInv, NEW d \in Device, NEW n \in Path, NEW c \in Content, Write(d, n, c)
  PROVE  LocalInv'
<1>1. n \in Name
  BY EngineAssumption
<1>2. DiskTypeOK'
  BY <1>1 DEF LocalInv, TypeOK, DiskTypeOK, Write, MayEdit
<1>3. MemoryTypeOK' /\ RemoteTypeOK'
  BY DEF LocalInv, TypeOK, MemoryTypeOK, RemoteTypeOK, Write, MayEdit, remoteVars
<1>4. BoundTypeOK'
  BY EngineAssumption DEF LocalInv, TypeOK, BoundTypeOK, Write, MayEdit
<1>5. StoresWhole' /\ RoundStored'
  BY StoresUntouched DEF LocalInv, RoundStored, Underway, HasFetched, Write, MayEdit
<1> QED
  BY <1>2, <1>3, <1>4, <1>5 DEF LocalInv, TypeOK

(* A user's deletion keeps the invariant.                                  *)
LEMMA DeleteStep ==
  ASSUME LocalInv, NEW d \in Device, NEW n \in Path, Delete(d, n)
  PROVE  LocalInv'
<1>1. n \in Name
  BY EngineAssumption
<1>2. DiskTypeOK'
  BY <1>1 DEF LocalInv, TypeOK, DiskTypeOK, Delete, MayEdit
<1>3. MemoryTypeOK' /\ RemoteTypeOK'
  BY DEF LocalInv, TypeOK, MemoryTypeOK, RemoteTypeOK, Delete, MayEdit, remoteVars
<1>4. BoundTypeOK'
  BY EngineAssumption DEF LocalInv, TypeOK, BoundTypeOK, Delete, MayEdit
<1>5. StoresWhole' /\ RoundStored'
  BY StoresUntouched DEF LocalInv, RoundStored, Underway, HasFetched, Delete, MayEdit
<1> QED
  BY <1>2, <1>3, <1>4, <1>5 DEF LocalInv, TypeOK

(* FileHistory.save keeps the invariant: its one or two checkpoints go on  *)
(* top of a stored snapshot.                                               *)
LEMMA SaveStep ==
  ASSUME LocalInv, NEW d \in Device, NEW n \in Path, NEW c \in Content, save(d, n, c)
  PROVE  LocalInv'
<1> DEFINE before == recordCheckpoint(d, Tip(head[d]), n, tree[d][n])
           after == recordCheckpoint(d, before, n, c)
<1>1. n \in Name
  BY EngineAssumption
<1>2. head[d] \in MaybeHead /\ Tip(head[d]) \in Snapshot
  BY TipType DEF LocalInv, TypeOK, DiskTypeOK
<1>3. tree[d][n] \in Content
  BY <1>1 DEF LocalInv, TypeOK, DiskTypeOK, save
<1>4. before \in Snapshot
      /\ (before = Tip(head[d]) \/ \E m \in Manifest : before = Append(Tip(head[d]), m))
  BY <1>1, <1>2, <1>3, RecordCheckpointFacts
<1> HIDE DEF before
<1>5. after \in Snapshot /\ (after = before \/ \E m \in Manifest : after = Append(before, m))
  BY <1>1, <1>4, RecordCheckpointFacts
<1> HIDE DEF after
<1>6. /\ head' = [head EXCEPT ![d] = after]
      /\ snapshots' = [snapshots EXCEPT ![d] = @ \cup {Root, before, after}]
  BY DEF save, before, after
<1>7. snapshots \in [Device -> SUBSET Snapshot] /\ head \in [Device -> MaybeHead]
  BY DEF LocalInv, TypeOK, DiskTypeOK
<1>8. Whole(snapshots[d] \cup {Root, before, after})
  <2> DEFINE one == snapshots[d] \cup {Root}
             two == one \cup {before}
  <2>1. one \in SUBSET Snapshot /\ Whole(one) /\ Tip(head[d]) \in one
    BY <1>7, RootWhole DEF LocalInv, StoresWhole, Tip
  <2> HIDE DEF one
  <2>2. two \in SUBSET Snapshot /\ Whole(two) /\ before \in two
    <3>1. CASE before = Tip(head[d])
      <4>1. two = one
        BY <2>1, <3>1
      <4> QED
        BY <2>1, <3>1, <4>1
    <3>2. CASE before # Tip(head[d])
      BY <2>1, <3>2, <1>2, <1>4, WholeAppend
    <3> QED
      BY <3>1, <3>2
  <2> HIDE DEF two
  <2>3. Whole(two \cup {after})
    <3>1. CASE after = before
      <4>1. two \cup {after} = two
        BY <2>2, <3>1
      <4> QED
        BY <2>2, <4>1
    <3>2. CASE after # before
      BY <2>2, <3>2, <1>4, <1>5, WholeAppend
    <3> QED
      BY <3>1, <3>2
  <2>4. snapshots[d] \cup {Root, before, after} = two \cup {after}
    BY DEF one, two
  <2> QED
    BY <2>3, <2>4
<1>9. StoresWhole'
  BY <1>6, <1>7, <1>8, <1>5, EngineAssumption DEF LocalInv, StoresWhole
<1>10. RoundStored'
  BY <1>5, <1>6, <1>7, EngineAssumption
     DEF LocalInv, RoundStored, Underway, HasFetched, save, MayEdit, InExclusive
<1>11. DiskTypeOK'
  <2>1. head' \in [Device -> MaybeHead] /\ snapshots' \in [Device -> SUBSET Snapshot]
    BY <1>4, <1>5, <1>6, <1>7, PrefixRoot DEF MaybeHead
  <2> QED
    BY <1>1, <1>3, <2>1 DEF LocalInv, TypeOK, DiskTypeOK, save, MayEdit
<1>12. MemoryTypeOK' /\ RemoteTypeOK'
  BY DEF LocalInv, TypeOK, MemoryTypeOK, RemoteTypeOK, save, MayEdit, remoteVars
<1>13. BoundTypeOK'
  BY EngineAssumption DEF LocalInv, TypeOK, BoundTypeOK, save, MayEdit
<1> QED
  BY <1>9, <1>10, <1>11, <1>12, <1>13 DEF LocalInv, TypeOK

-----------------------------------------------------------------------------
(* Beginning a round keeps the invariant: prepare has set the head before  *)
(* anything relies on it.                                                  *)
LEMMA StartRoundStep ==
  ASSUME LocalInv, NEW d \in Device, startRound(d)
  PROVE  LocalInv'
<1>1. /\ head \in [Device -> MaybeHead] /\ snapshots \in [Device -> SUBSET Snapshot]
      /\ pc \in [Device -> PcType] /\ round \in [Device -> RoundType]
      /\ remoteHead \in MaybeHead
  BY DEF LocalInv, TypeOK, DiskTypeOK, MemoryTypeOK, RemoteTypeOK
<1>2. Tip(head[d]) \in Snapshot
  BY <1>1, TipType
<1>3. /\ head' = [head EXCEPT ![d] = Tip(head[d])]
      /\ snapshots' = [snapshots EXCEPT ![d] = @ \cup {Root}]
      /\ round' = [round EXCEPT ![d].syncedHead = remoteHead]
      /\ pc' = [pc EXCEPT ![d] = IF remoteHead = NoHead THEN "fetched" ELSE "fetch"]
  BY DEF startRound
<1>4. DiskTypeOK'
  BY <1>1, <1>2, <1>3, PrefixRoot DEF LocalInv, TypeOK, DiskTypeOK, startRound, MaybeHead
<1>5. MemoryTypeOK'
  <2>1. pc' \in [Device -> PcType]
    BY <1>1, <1>3 DEF PcType
  <2>2. round' \in [Device -> RoundType]
    BY <1>1, <1>3 DEF RoundType
  <2>3. checkout' \in [Device -> Checkout]
    BY DEF LocalInv, TypeOK, MemoryTypeOK, startRound
  <2> QED
    BY <2>1, <2>2, <2>3 DEF MemoryTypeOK
<1>6. RemoteTypeOK' /\ BoundTypeOK'
  BY DEF LocalInv, TypeOK, RemoteTypeOK, BoundTypeOK, startRound, remoteVars, boundVars
<1>7. StoresWhole'
  <2>1. Whole(snapshots[d] \cup {Root}) /\ Tip(head[d]) \in snapshots[d] \cup {Root}
    BY <1>1, RootWhole DEF LocalInv, StoresWhole, Tip
  <2> QED
    BY <1>1, <1>3, <2>1 DEF LocalInv, StoresWhole
<1>8. RoundStored'
  <2>1. Tip(head[d]) # NoHead
    BY <1>2, EngineAssumption
  <2>2. ASSUME NEW e \in Device, e # d
        PROVE  head'[e] = head[e] /\ snapshots'[e] = snapshots[e] /\ pc'[e] = pc[e] /\ round'[e] = round[e]
    BY <1>1, <1>3, <2>2
  <2>3. /\ head'[d] # NoHead /\ round'[d].syncedHead = remoteHead
        /\ pc'[d] = (IF remoteHead = NoHead THEN "fetched" ELSE "fetch")
        /\ Root \in snapshots'[d]
    BY <1>1, <1>3, <2>1 DEF RoundType
  <2> QED
    BY <2>2, <2>3 DEF LocalInv, RoundStored, Underway, HasFetched, Tip
<1> QED
  BY <1>4, <1>5, <1>6, <1>7, <1>8 DEF LocalInv, TypeOK

(* fetch ends with the remote head in the store, and what it stores in     *)
(* between always has its parent there.                                    *)
LEMMA UnfetchedFacts ==
  ASSUME NEW d \in Device, NEW h \in Snapshot, round[d].syncedHead = h,
         snapshots[d] \in SUBSET Snapshot, Whole(snapshots[d])
  PROVE  /\ Unfetched(d) = {} => h \in snapshots[d]
         /\ Unfetched(d) # {} =>
              /\ Shortest(Unfetched(d)) \in Unfetched(d)
              /\ Shortest(Unfetched(d)) \in Snapshot
              /\ Whole(snapshots[d] \cup {Shortest(Unfetched(d))})
<1>1. Unfetched(d) \subseteq Snapshot /\ \A s \in Unfetched(d) : IsPrefix(s, h)
  BY PrefixesAre DEF Unfetched
<1>2. ASSUME Unfetched(d) = {}
      PROVE  h \in snapshots[d]
  <2>1. h \in Prefixes(h)
    BY PrefixesAre, PrefixReflexive
  <2>2. PICK t \in Prefixes(h) : Len(h) <= Len(t) /\ t \in snapshots[d]
    BY <1>2, <2>1 DEF Unfetched
  <2> QED
    BY <2>2, PrefixesAre, PrefixAntisymmetric
<1>3. ASSUME Unfetched(d) # {}
      PROVE  /\ Shortest(Unfetched(d)) \in Unfetched(d)
             /\ \A t \in Unfetched(d) : Len(Shortest(Unfetched(d))) <= Len(t)
  BY <1>1, <1>3, ShortestExists DEF Shortest
<1>4. ASSUME Unfetched(d) # {}
      PROVE  Whole(snapshots[d] \cup {Shortest(Unfetched(d))})
  <2> DEFINE s == Shortest(Unfetched(d))
  <2>1. /\ s \in Unfetched(d) /\ s \in Snapshot /\ IsPrefix(s, h)
        /\ \A t \in Unfetched(d) : Len(s) <= Len(t)
    BY <1>1, <1>3, <1>4
  <2> HIDE DEF s
  <2>2. ASSUME NEW p \in Snapshot, IsPrefix(p, s), p # s
        PROVE  p \in snapshots[d]
    <3>1. Len(p) \in Nat /\ Len(s) \in Nat /\ Len(p) <= Len(s) /\ ~ (Len(s) <= Len(p))
      BY <2>1, <2>2, PrefixLength, PrefixAntisymmetric DEF Snapshot
    <3>2. p \notin Unfetched(d)
      BY <2>1, <3>1
    <3>3. p \in Prefixes(h)
      BY <2>1, <2>2, PrefixTransitive, PrefixesAre
    <3>4. PICK t \in Prefixes(h) : Len(p) <= Len(t) /\ t \in snapshots[d]
      BY <3>2, <3>3 DEF Unfetched
    <3>5. t \in Snapshot /\ IsPrefix(t, h) /\ IsPrefix(p, h)
      BY <3>3, <3>4, PrefixesAre
    <3>6. IsPrefix(p, t)
      BY <3>4, <3>5, PrefixTotal
    <3> QED
      BY <3>4, <3>5, <3>6, WholePrefix
  <2>3. ASSUME NEW p \in Prefixes(s)
        PROVE  p \in snapshots[d] \cup {s}
    BY <2>1, <2>2, <2>3, PrefixesAre
  <2> QED
    BY <2>3 DEF Whole, s
<1> QED
  BY <1>1, <1>2, <1>3, <1>4

(* Storing one fetched snapshot keeps the invariant, so that a fetch may   *)
(* be interrupted anywhere.                                                *)
LEMMA FetchSnapshotStep ==
  ASSUME LocalInv, NEW d \in Device, fetchSnapshot(d)
  PROVE  LocalInv'
<1> DEFINE s == Shortest(Unfetched(d))
<1>1. /\ head \in [Device -> MaybeHead] /\ snapshots \in [Device -> SUBSET Snapshot]
      /\ remoteSnapshots \in SUBSET Snapshot
  BY DEF LocalInv, TypeOK, DiskTypeOK, RemoteTypeOK
<1>2. round[d].syncedHead \in Snapshot
  BY RoundFields DEF LocalInv, RoundStored, fetchSnapshot, MaybeHead
<1>3. Whole(snapshots[d] \cup {s}) /\ s \in Snapshot
  BY <1>1, <1>2, UnfetchedFacts DEF LocalInv, StoresWhole, fetchSnapshot
<1> HIDE DEF s
<1>4. /\ snapshots' = [snapshots EXCEPT ![d] = @ \cup {s}]
      /\ UNCHANGED <<tree, head, chunks, changes, index, checkout, lastSynced, pc, round,
                     remoteHead, remoteSnapshots, remoteChunks, edits, faults, rollbacks, deleted>>
  BY DEF fetchSnapshot, remoteVars, boundVars, s
<1>5. DiskTypeOK'
  BY <1>1, <1>3, <1>4 DEF LocalInv, TypeOK, DiskTypeOK
<1>6. MemoryTypeOK' /\ RemoteTypeOK' /\ BoundTypeOK'
  BY <1>4 DEF LocalInv, TypeOK, MemoryTypeOK, RemoteTypeOK, BoundTypeOK
<1>7. StoresWhole'
  BY <1>1, <1>3, <1>4 DEF LocalInv, StoresWhole
<1>8. RoundStored'
  BY <1>1, <1>4 DEF LocalInv, RoundStored, Underway, HasFetched
<1> QED
  BY <1>5, <1>6, <1>7, <1>8 DEF LocalInv, TypeOK

(* Storing one fetched chunk keeps the invariant.                          *)
LEMMA FetchChunkStep ==
  ASSUME LocalInv, NEW d \in Device, fetchChunk(d)
  PROVE  LocalInv'
<1>1. DiskTypeOK'
  BY DEF LocalInv, TypeOK, DiskTypeOK, RemoteTypeOK, fetchChunk
<1>2. MemoryTypeOK' /\ RemoteTypeOK' /\ BoundTypeOK'
  BY DEF LocalInv, TypeOK, MemoryTypeOK, RemoteTypeOK, BoundTypeOK, fetchChunk, remoteVars,
         boundVars
<1>3. StoresWhole' /\ RoundStored'
  BY StoresUntouched DEF LocalInv, RoundStored, Underway, HasFetched, fetchChunk
<1> QED
  BY <1>1, <1>2, <1>3 DEF LocalInv, TypeOK

(* A finished fetch keeps the invariant: the remote head is now in the     *)
(* store.                                                                  *)
LEMMA FetchedStep ==
  ASSUME LocalInv, NEW d \in Device, fetched(d)
  PROVE  LocalInv'
<1>1. /\ pc[d] = "fetch" /\ Unfetched(d) = {}
      /\ pc' = [pc EXCEPT ![d] = "fetched"]
      /\ UNCHANGED <<repoVars, lastSynced, round, remoteVars, boundVars>>
  BY DEF fetched, Goto
<1>2. TypeOK'
  BY <1>1 DEF LocalInv, TypeOK, DiskTypeOK, MemoryTypeOK, RemoteTypeOK, BoundTypeOK, PcType,
              repoVars, remoteVars, boundVars
<1>3. StoresWhole'
  BY <1>1, StoresUntouched DEF LocalInv, repoVars
<1>4. round[d].syncedHead \in snapshots[d] /\ Tip(round[d].syncedHead) = round[d].syncedHead
  <2>1. round[d].syncedHead # NoHead /\ round[d].syncedHead \in Snapshot
    BY <1>1, RoundFields DEF LocalInv, RoundStored, MaybeHead
  <2> QED
    BY <1>1, <2>1, UnfetchedFacts DEF LocalInv, StoresWhole, TypeOK, DiskTypeOK, Tip
<1>5. pc \in [Device -> PcType]
  BY DEF LocalInv, TypeOK, MemoryTypeOK
<1>6. RoundStored'
  BY <1>1, <1>4, <1>5 DEF LocalInv, RoundStored, Underway, HasFetched, repoVars
<1> QED
  BY <1>2, <1>3, <1>6 DEF LocalInv

(* Whatever ends a round keeps the invariant, as long as it leaves the     *)
(* disk alone.                                                             *)
LEMMA EndRoundStep ==
  ASSUME LocalInv, NEW d \in Device, EndRound(d),
         UNCHANGED <<tree, head, snapshots, chunks, changes, index>>,
         checkout' \in [Device -> Checkout], lastSynced' \in [Device -> MaybeHead],
         RemoteTypeOK', BoundTypeOK'
  PROVE  LocalInv'
<1>1. DiskTypeOK'
  BY DEF LocalInv, TypeOK, DiskTypeOK
<1>2. MemoryTypeOK'
  BY NoRoundType DEF LocalInv, TypeOK, MemoryTypeOK, EndRound, PcType
<1>3. StoresWhole'
  BY StoresUntouched DEF LocalInv
<1>4. pc \in [Device -> PcType] /\ round \in [Device -> RoundType]
  BY DEF LocalInv, TypeOK, MemoryTypeOK
<1>5. RoundStored'
  BY <1>4 DEF LocalInv, RoundStored, Underway, HasFetched, EndRound
<1> QED
  BY <1>1, <1>2, <1>3, <1>5 DEF LocalInv, TypeOK

(* Refusing a rolled-back remote keeps the invariant.                      *)
LEMMA RefuseRemoteStep ==
  ASSUME LocalInv, NEW d \in Device, refuseRemote(d)
  PROVE  LocalInv'
<1>1. /\ checkout' \in [Device -> Checkout] /\ lastSynced' \in [Device -> MaybeHead]
      /\ RemoteTypeOK' /\ BoundTypeOK'
  BY DEF LocalInv, TypeOK, DiskTypeOK, MemoryTypeOK, RemoteTypeOK, BoundTypeOK, refuseRemote,
         repoVars, remoteVars, boundVars
<1> QED
  BY <1>1, EndRoundStep DEF refuseRemote, repoVars

-----------------------------------------------------------------------------
(* What Repo.snapshot does to a device: the head moves up its own chain by *)
(* at most one stored snapshot.                                            *)
LEMMA SnapshotFacts ==
  ASSUME LocalInv, NEW d \in Device, head[d] # NoHead, snapshot(d),
         UNCHANGED lastSynced
  PROVE  /\ DiskTypeOK' /\ checkout' \in [Device -> Checkout] /\ StoresWhole'
         /\ head'[d] = nextSnapshot(d) /\ head'[d] \in Snapshot /\ IsPrefix(head[d], head'[d])
         /\ snapshots[d] \subseteq snapshots'[d]
         /\ \A e \in Device \ {d} : head'[e] = head[e] /\ snapshots'[e] = snapshots[e]
<1> DEFINE next == nextSnapshot(d)
           new == {tree[d][n] : n \in changed(d)}
           after == CheckoutAfterStatus(d)
<1>1. /\ next \in Snapshot /\ IsPrefix(head[d], next)
      /\ next = head[d] \/ \E m \in Manifest : next = Append(head[d], m)
      /\ after \in Checkout /\ new \in SUBSET Content
  BY NextSnapshotFacts DEF LocalInv
<1>2. /\ head' = [head EXCEPT ![d] = next]
      /\ snapshots' = [snapshots EXCEPT ![d] = @ \cup {next}]
      /\ chunks' = [chunks EXCEPT ![d] = @ \cup new]
      /\ changes' = [changes EXCEPT ![d] = IF gone(d) \cup changed(d) = {} THEN @ ELSE {}]
      /\ checkout' = [checkout EXCEPT ![d] = after]
      /\ index' = [index EXCEPT ![d] = after]
      /\ UNCHANGED tree
  BY DEF snapshot
<1> HIDE DEF next, new, after
<1>3. /\ head \in [Device -> MaybeHead] /\ snapshots \in [Device -> SUBSET Snapshot]
      /\ checkout \in [Device -> Checkout] /\ head[d] \in Snapshot
  BY DEF LocalInv, TypeOK, DiskTypeOK, MemoryTypeOK, MaybeHead
<1>4. DiskTypeOK'
  BY <1>1, <1>2 DEF LocalInv, TypeOK, DiskTypeOK, MaybeHead
<1>5. Whole(snapshots[d] \cup {next})
  <2>1. head[d] \in snapshots[d] /\ Whole(snapshots[d])
    BY DEF LocalInv, StoresWhole
  <2>2. CASE next = head[d]
    <3>1. snapshots[d] \cup {next} = snapshots[d]
      BY <2>1, <2>2
    <3> QED
      BY <2>1, <3>1
  <2>3. CASE next # head[d]
    BY <1>1, <1>3, <2>1, <2>3, WholeAppend
  <2> QED
    BY <2>2, <2>3
<1>6. StoresWhole'
  BY <1>2, <1>3, <1>5 DEF LocalInv, StoresWhole
<1>7. /\ head'[d] = next /\ snapshots'[d] = snapshots[d] \cup {next}
      /\ \A e \in Device \ {d} : head'[e] = head[e] /\ snapshots'[e] = snapshots[e]
  BY <1>2, <1>3
<1> QED
  BY <1>1, <1>2, <1>3, <1>4, <1>6, <1>7 DEF next

(* The snapshot before the merge keeps the invariant.                      *)
LEMMA SnapshotLocalStep ==
  ASSUME LocalInv, NEW d \in Device, snapshotLocal(d)
  PROVE  LocalInv'
<1> DEFINE remote == Tip(round[d].syncedHead)
           base == findBaseSnapshot(snapshots'[d], head'[d], remote)
           names == UNION {Listed(Files(s)) : s \in {base, head'[d], remote}}
<1>1. /\ pc[d] = "fetched" /\ pc' = [pc EXCEPT ![d] = "merge"]
      /\ snapshot(d)
      /\ round' = [round EXCEPT ![d].local = head'[d], ![d].todo = names]
      /\ UNCHANGED <<lastSynced, remoteVars, boundVars>>
  BY DEF snapshotLocal, Goto
<1>2. head[d] # NoHead
  BY <1>1 DEF LocalInv, RoundStored, Underway
<1>3. /\ DiskTypeOK' /\ checkout' \in [Device -> Checkout] /\ StoresWhole'
      /\ head'[d] \in Snapshot /\ snapshots[d] \subseteq snapshots'[d]
      /\ \A e \in Device \ {d} : head'[e] = head[e] /\ snapshots'[e] = snapshots[e]
  BY <1>1, <1>2, SnapshotFacts
<1>4. names \in SUBSET Name
  BY DEF Listed
<1> HIDE DEF names
<1>5. /\ pc \in [Device -> PcType] /\ round \in [Device -> RoundType]
  BY DEF LocalInv, TypeOK, MemoryTypeOK
<1>6. MemoryTypeOK'
  <2>1. pc' \in [Device -> PcType]
    BY <1>1, <1>5 DEF PcType
  <2>2. head'[d] \in Snapshot /\ checkout' \in [Device -> Checkout]
    BY <1>3
  <2>3. round' \in [Device -> RoundType]
    BY <1>1, <1>4, <1>5, <2>2 DEF RoundType
  <2> QED
    BY <2>1, <2>2, <2>3 DEF MemoryTypeOK
<1>7. RemoteTypeOK' /\ BoundTypeOK'
  BY <1>1 DEF LocalInv, TypeOK, RemoteTypeOK, BoundTypeOK, remoteVars, boundVars
<1>8. RoundStored'
  <2>1. /\ pc'[d] = "merge" /\ round'[d].syncedHead = round[d].syncedHead
        /\ round'[d].local = head'[d]
    BY <1>1, <1>5 DEF RoundType
  <2>2. \A e \in Device \ {d} : pc'[e] = pc[e] /\ round'[e] = round[e]
    BY <1>1, <1>5
  <2>3. Tip(round[d].syncedHead) \in snapshots'[d]
    BY <1>1, <1>3 DEF LocalInv, RoundStored, HasFetched
  <2>4. head'[d] # NoHead
    BY <1>3, EngineAssumption
  <2> QED
    BY <1>3, <2>1, <2>2, <2>3, <2>4 DEF LocalInv, RoundStored, Underway, HasFetched
<1> QED
  BY <1>3, <1>6, <1>7, <1>8 DEF LocalInv, TypeOK

-----------------------------------------------------------------------------
(* Writing a file keeps tree, journal and checkout well typed.             *)
LEMMA PutFileType ==
  ASSUME LocalInv, NEW d \in Device, NEW n \in Name, NEW c \in Content, PutFile(d, n, c)
  PROVE  /\ tree' \in [Device -> [Name -> Content \cup {Absent}]]
         /\ changes' \in [Device -> SUBSET Name]
         /\ checkout' \in [Device -> Checkout]
BY DEF LocalInv, TypeOK, DiskTypeOK, MemoryTypeOK, PutFile, Checkout

(* take, with the chunks at hand or without, keeps tree, journal and       *)
(* checkout well typed.                                                    *)
LEMMA TakeType ==
  ASSUME LocalInv, NEW d \in Device, NEW n \in Name, NEW entry, entry.hash \in Content,
         take(d, n, entry)
  PROVE  /\ tree' \in [Device -> [Name -> Content \cup {Absent}]]
         /\ changes' \in [Device -> SUBSET Name]
         /\ checkout' \in [Device -> Checkout]
<1>1. CASE hasChunks(d, entry)
  BY <1>1, PutFileType DEF take
<1>2. CASE ~ hasChunks(d, entry)
  <2>1. checkout \in [Device -> Checkout]
    BY DEF LocalInv, TypeOK, MemoryTypeOK
  <2>2. PICK known \in SUBSET Name :
          checkout' = [checkout EXCEPT ![d].pending = @ \cup {n}, ![d].known = known]
    <3>1. CASE isPending(d, n)
      BY <1>2, <2>1, <3>1 DEF take, markPending, Checkout
    <3>2. CASE ~ isPending(d, n)
      BY <1>2, <2>1, <3>2 DEF take, markPending, Checkout
    <3> QED
      BY <3>1, <3>2
  <2>3. checkout' \in [Device -> Checkout]
    BY <2>1, <2>2 DEF Checkout
  <2> QED
    BY <1>2, <2>3 DEF take, markPending, LocalInv, TypeOK, DiskTypeOK
<1> QED
  BY <1>1, <1>2

(* A merge step that only writes tree, journal and checkout keeps the      *)
(* invariant.                                                              *)
LEMMA MergingStep ==
  ASSUME LocalInv, NEW d \in Device, NEW n, Merging(d, n),
         tree' \in [Device -> [Name -> Content \cup {Absent}]],
         changes' \in [Device -> SUBSET Name],
         checkout' \in [Device -> Checkout]
  PROVE  LocalInv'
<1>1. /\ round' = [round EXCEPT ![d].todo = @ \ {n}]
      /\ UNCHANGED <<head, snapshots, chunks, index, lastSynced, pc, remoteVars, boundVars>>
  BY DEF Merging
<1>2. round \in [Device -> RoundType]
  BY DEF LocalInv, TypeOK, MemoryTypeOK
<1>3. DiskTypeOK'
  BY <1>1 DEF LocalInv, TypeOK, DiskTypeOK
<1>4. MemoryTypeOK'
  BY <1>1, <1>2 DEF LocalInv, TypeOK, MemoryTypeOK, RoundType
<1>5. RemoteTypeOK' /\ BoundTypeOK'
  BY <1>1 DEF LocalInv, TypeOK, RemoteTypeOK, BoundTypeOK, remoteVars, boundVars
<1>6. StoresWhole'
  BY <1>1, StoresUntouched DEF LocalInv
<1>7. \A e \in Device : /\ round'[e].syncedHead = round[e].syncedHead
                        /\ round'[e].local = round[e].local
  BY <1>1, <1>2 DEF RoundType
<1>8. RoundStored'
  BY <1>1, <1>7 DEF LocalInv, RoundStored, Underway, HasFetched
<1> QED
  BY <1>3, <1>4, <1>5, <1>6, <1>8 DEF LocalInv, TypeOK

(* An entry that exists on a side has a content.                           *)
LEMMA EntryTypes ==
  ASSUME LocalInv, NEW d \in Device, NEW n \in Name
  PROVE  /\ Exists(localFile(d, n)) => localFile(d, n).hash \in Content
         /\ Exists(remoteFile(d, n)) => remoteFile(d, n).hash \in Content
<1>1. Files(round[d].local) \in Manifest /\ Files(Tip(round[d].syncedHead)) \in Manifest
  BY RoundFields, FilesType DEF LocalInv
<1> QED
  BY <1>1, ListedEntry DEF localFile, remoteFile, Exists, Listed

(* Every branch of merge keeps the invariant.                              *)
LEMMA MergeStepStep ==
  ASSUME LocalInv, NEW d \in Device, MergeStep(d)
  PROVE  LocalInv'
<1> PICK n \in Name :
      \/ mergeDelete(d, n) \/ mergeCreated(d, n) \/ mergeTake(d, n) \/ mergeKeep(d, n)
      \/ tryContentMerge(d, n) \/ writeConflictFile(d, n) \/ mergeThrows(d, n)
  BY DEF MergeStep
<1> DEFINE WorkTyped ==
      /\ tree' \in [Device -> [Name -> Content \cup {Absent}]]
      /\ changes' \in [Device -> SUBSET Name]
      /\ checkout' \in [Device -> Checkout]
<1>1. CASE mergeDelete(d, n)
  <2>1. WorkTyped
    BY <1>1 DEF mergeDelete, LocalInv, TypeOK, DiskTypeOK, MemoryTypeOK, Checkout
  <2> QED
    BY <1>1, <2>1, MergingStep DEF mergeDelete
<1>2. CASE mergeCreated(d, n)
  <2>1. WorkTyped
    BY <1>2, EntryTypes, TakeType DEF mergeCreated, LocalOnly
  <2> QED
    BY <1>2, <2>1, MergingStep DEF mergeCreated
<1>3. CASE mergeTake(d, n)
  <2>1. WorkTyped
    BY <1>3, EntryTypes, TakeType DEF mergeTake, RemoteOnly, OnBoth
  <2> QED
    BY <1>3, <2>1, MergingStep DEF mergeTake
<1>4. CASE mergeKeep(d, n)
  <2>1. WorkTyped
    BY <1>4 DEF mergeKeep, LocalInv, TypeOK, DiskTypeOK, MemoryTypeOK
  <2> QED
    BY <1>4, <2>1, MergingStep DEF mergeKeep
<1>5. CASE tryContentMerge(d, n)
  <2>1. WorkTyped
    BY <1>5, PutFileType DEF tryContentMerge
  <2> QED
    BY <1>5, <2>1, MergingStep DEF tryContentMerge
<1>6. CASE writeConflictFile(d, n)
  <2> DEFINE theirs == remoteFile(d, n).hash
             copy == copyOf[n, theirs]
  <2>1. theirs \in Content
    BY <1>6, EntryTypes DEF writeConflictFile, Conflict, OnBoth
  <2>2. copy \in Name
    BY <2>1, EngineAssumption
  <2>3. CASE tree[d][copy] = theirs
    <3>1. /\ checkout' = [checkout EXCEPT ![d].known = @ \cup {copy}]
          /\ UNCHANGED <<tree, changes>>
      BY <1>6, <2>3 DEF writeConflictFile
    <3> HIDE DEF copy
    <3>2. WorkTyped
      BY <2>2, <3>1 DEF LocalInv, TypeOK, DiskTypeOK, MemoryTypeOK, Checkout
    <3> QED
      BY <1>6, <3>2, MergingStep DEF writeConflictFile
  <2>4. CASE tree[d][copy] # theirs
    <3>1. PutFile(d, copy, theirs)
      BY <1>6, <2>4 DEF writeConflictFile
    <3>2. WorkTyped
      <4> HIDE DEF copy, theirs
      <4> QED
        BY <2>1, <2>2, <3>1, PutFileType
    <3> QED
      BY <1>6, <3>2, MergingStep DEF writeConflictFile
  <2> QED
    BY <2>3, <2>4
<1>7. CASE mergeThrows(d, n)
  <2>1. /\ checkout' \in [Device -> Checkout] /\ lastSynced' \in [Device -> MaybeHead]
        /\ RemoteTypeOK' /\ BoundTypeOK'
    BY <1>7 DEF LocalInv, TypeOK, DiskTypeOK, MemoryTypeOK, RemoteTypeOK, BoundTypeOK,
                mergeThrows, repoVars, remoteVars, boundVars
  <2> QED
    BY <1>7, <2>1, EndRoundStep DEF mergeThrows, repoVars
<1> QED
  BY <1>1, <1>2, <1>3, <1>4, <1>5, <1>6, <1>7

-----------------------------------------------------------------------------
(* Flushing the checkout after the merge keeps the invariant.              *)
LEMMA MergeDoneStep ==
  ASSUME LocalInv, NEW d \in Device, mergeDone(d)
  PROVE  LocalInv'
<1>1. /\ pc[d] = "merge" /\ pc' = [pc EXCEPT ![d] = "rebase"]
      /\ index' = [index EXCEPT ![d] = checkout[d]]
      /\ UNCHANGED <<tree, head, snapshots, chunks, changes, checkout, lastSynced, round,
                     remoteVars, boundVars>>
  BY DEF mergeDone, Goto
<1>2. pc \in [Device -> PcType]
  BY DEF LocalInv, TypeOK, MemoryTypeOK
<1>3. DiskTypeOK' /\ MemoryTypeOK'
  BY <1>1 DEF LocalInv, TypeOK, DiskTypeOK, MemoryTypeOK, PcType
<1>4. RemoteTypeOK' /\ BoundTypeOK'
  BY <1>1 DEF LocalInv, TypeOK, RemoteTypeOK, BoundTypeOK, remoteVars, boundVars
<1>5. StoresWhole' /\ RoundStored'
  BY <1>1, <1>2, StoresUntouched DEF LocalInv, RoundStored, Underway, HasFetched
<1> QED
  BY <1>3, <1>4, <1>5 DEF LocalInv, TypeOK

(* Between snapshot and rebase the merge base is an ancestor of the local  *)
(* and of the remote head.                                                 *)
LEMMA BaseFacts ==
  ASSUME LocalInv, NEW d \in Device, pc[d] \in {"merge", "rebase"}
  PROVE  /\ Base(d) \in Snapshot
         /\ IsPrefix(Base(d), head[d]) /\ IsPrefix(Base(d), Tip(round[d].syncedHead))
         /\ head[d] \in Snapshot /\ round[d].local = head[d]
<1>1. /\ round[d].local = head[d] /\ head[d] # NoHead
      /\ Tip(round[d].syncedHead) \in snapshots[d]
  BY DEF LocalInv, RoundStored, Underway, HasFetched
<1>2. /\ Prefixes(head[d]) \subseteq snapshots[d]
      /\ Prefixes(Tip(round[d].syncedHead)) \subseteq snapshots[d]
  BY <1>1 DEF LocalInv, StoresWhole, Whole
<1>3. head[d] \in Snapshot /\ Tip(round[d].syncedHead) \in Snapshot
  BY <1>1, RoundFields DEF LocalInv
<1> QED
  BY <1>1, <1>2, <1>3, BaseIsCommon DEF Base

(* rebase's new head is on top of the remote head, also when there is      *)
(* nothing to replay.                                                      *)
LEMMA RebasedFacts ==
  ASSUME LocalInv, NEW d \in Device, pc[d] = "rebase"
  PROVE  /\ rebased(d) \in Snapshot
         /\ IsPrefix(Tip(round[d].syncedHead), rebased(d))
         /\ IsPrefix(Base(d), rebased(d))
<1> DEFINE remote == Tip(round[d].syncedHead)
<1>1. /\ Base(d) \in Snapshot /\ IsPrefix(Base(d), head[d]) /\ IsPrefix(Base(d), remote)
      /\ head[d] \in Snapshot /\ round[d].local = head[d] /\ remote \in Snapshot
  BY BaseFacts, RoundFields DEF LocalInv
<1>2. CASE Base(d) = remote
  BY <1>1, <1>2 DEF rebased
<1>3. CASE Base(d) # remote
  <2>1. rebased(d) = replay(head[d], remote, Base(d))
    BY <1>1, <1>3 DEF rebased
  <2>2. rebased(d) \in Snapshot /\ IsPrefix(remote, rebased(d))
    BY <1>1, <2>1, ReplayOnTop
  <2> QED
    BY <1>1, <2>2, PrefixTransitive
<1> QED
  BY <1>2, <1>3

(* rebase keeps the invariant: what it stores has all its parents in the   *)
(* store.                                                                  *)
LEMMA RebaseStep ==
  ASSUME LocalInv, NEW d \in Device, rebase(d)
  PROVE  LocalInv'
<1> DEFINE remote == Tip(round[d].syncedHead)
           top == rebased(d)
           new == {s \in Prefixes(top) : Len(s) > Len(remote)}
<1>1. /\ pc[d] = "rebase" /\ pc' = [pc EXCEPT ![d] = "rebased"]
      /\ head' = [head EXCEPT ![d] = top]
      /\ snapshots' = [snapshots EXCEPT ![d] = @ \cup new]
      /\ UNCHANGED <<tree, chunks, changes, index, checkout, lastSynced, round, remoteVars,
                     boundVars>>
  BY DEF rebase, Goto
<1>2. top \in Snapshot /\ IsPrefix(remote, top) /\ remote \in Snapshot
  BY <1>1, RebasedFacts, RoundFields DEF LocalInv
<1>3. remote \in snapshots[d] /\ Whole(snapshots[d])
  BY <1>1 DEF LocalInv, StoresWhole, RoundStored, HasFetched
<1> HIDE DEF top, remote
<1>4. /\ pc \in [Device -> PcType] /\ head \in [Device -> MaybeHead]
      /\ snapshots \in [Device -> SUBSET Snapshot]
  BY DEF LocalInv, TypeOK, DiskTypeOK, MemoryTypeOK
<1>5. new \in SUBSET Snapshot
  BY <1>2, PrefixesAre
<1>6. ASSUME NEW p \in Prefixes(top)
      PROVE  p \in snapshots[d] \cup new
  <2>1. p \in Snapshot /\ IsPrefix(p, top) /\ Len(p) \in Nat /\ Len(remote) \in Nat
    BY <1>2, <1>6, PrefixesAre DEF Snapshot
  <2>2. CASE Len(p) > Len(remote)
    BY <1>6, <2>2
  <2>3. CASE ~ (Len(p) > Len(remote))
    <3>1. IsPrefix(p, remote)
      BY <1>2, <2>1, <2>3, PrefixTotal
    <3> QED
      BY <1>2, <1>3, <1>4, <2>1, <3>1, WholePrefix
  <2> QED
    BY <2>2, <2>3
<1>7. Whole(snapshots[d] \cup new)
  <2>1. ASSUME NEW s \in new, NEW p \in Prefixes(s)
        PROVE  p \in snapshots[d] \cup new
    BY <1>2, <1>6, <2>1, PrefixesAre, PrefixTransitive
  <2> QED
    BY <1>3, <2>1 DEF Whole
<1>8. top \in snapshots[d] \cup new
  BY <1>2, <1>6, PrefixesAre, PrefixReflexive
<1> HIDE DEF new
<1>9. DiskTypeOK'
  BY <1>1, <1>2, <1>5 DEF LocalInv, TypeOK, DiskTypeOK, MaybeHead
<1>10. MemoryTypeOK' /\ RemoteTypeOK' /\ BoundTypeOK'
  BY <1>1, <1>4
     DEF LocalInv, TypeOK, MemoryTypeOK, RemoteTypeOK, BoundTypeOK, PcType, remoteVars, boundVars
<1>11. StoresWhole'
  BY <1>1, <1>4, <1>7, <1>8 DEF LocalInv, StoresWhole
<1>12. RoundStored'
  <2>1. top # NoHead
    BY <1>2, EngineAssumption
  <2>2. pc'[d] = "rebased" /\ head'[d] = top /\ snapshots'[d] = snapshots[d] \cup new
    BY <1>1, <1>4
  <2>3. \A e \in Device \ {d} : pc'[e] = pc[e] /\ head'[e] = head[e] /\ snapshots'[e] = snapshots[e]
    BY <1>1, <1>4
  <2> QED
    BY <1>1, <1>3, <2>1, <2>2, <2>3 DEF LocalInv, RoundStored, Underway, HasFetched, remote
<1> QED
  BY <1>9, <1>10, <1>11, <1>12 DEF LocalInv, TypeOK

(* The snapshot after the merge keeps the invariant.                       *)
LEMMA SnapshotMergedStep ==
  ASSUME LocalInv, NEW d \in Device, snapshotMerged(d)
  PROVE  LocalInv'
<1> DEFINE next == IF head'[d] = round[d].syncedHead THEN "anchor" ELSE "push"
<1>1. /\ pc[d] = "rebased" /\ pc' = [pc EXCEPT ![d] = next] /\ next \in {"anchor", "push"}
      /\ snapshot(d)
      /\ round' = [round EXCEPT ![d].latest = head'[d]]
      /\ UNCHANGED <<lastSynced, remoteVars, boundVars>>
  BY DEF snapshotMerged
<1> HIDE DEF next
<1>2. head[d] # NoHead
  BY <1>1 DEF LocalInv, RoundStored, Underway
<1>3. /\ DiskTypeOK' /\ checkout' \in [Device -> Checkout] /\ StoresWhole'
      /\ head'[d] \in Snapshot /\ snapshots[d] \subseteq snapshots'[d]
      /\ \A e \in Device \ {d} : head'[e] = head[e] /\ snapshots'[e] = snapshots[e]
  BY <1>1, <1>2, SnapshotFacts
<1>4. /\ pc \in [Device -> PcType] /\ round \in [Device -> RoundType]
  BY DEF LocalInv, TypeOK, MemoryTypeOK
<1>5. MemoryTypeOK'
  BY <1>1, <1>3, <1>4 DEF MemoryTypeOK, RoundType, PcType
<1>6. RemoteTypeOK' /\ BoundTypeOK'
  BY <1>1 DEF LocalInv, TypeOK, RemoteTypeOK, BoundTypeOK, remoteVars, boundVars
<1>7. RoundStored'
  <2>1. pc'[d] \in {"anchor", "push"} /\ round'[d].syncedHead = round[d].syncedHead
    BY <1>1, <1>4 DEF RoundType
  <2>2. \A e \in Device \ {d} : pc'[e] = pc[e] /\ round'[e] = round[e]
    BY <1>1, <1>4
  <2>3. Tip(round[d].syncedHead) \in snapshots'[d]
    BY <1>1, <1>3 DEF LocalInv, RoundStored, HasFetched
  <2>4. head'[d] # NoHead
    BY <1>3, EngineAssumption
  <2> QED
    BY <1>3, <2>1, <2>2, <2>3, <2>4 DEF LocalInv, RoundStored, Underway, HasFetched
<1> QED
  BY <1>3, <1>5, <1>6, <1>7 DEF LocalInv, TypeOK

-----------------------------------------------------------------------------
(* What push uploads are stored ancestors of the snapshot it publishes,    *)
(* and there is a shortest one to begin with.                              *)
LEMMA FreshFacts ==
  ASSUME LocalInv, NEW d \in Device
  PROVE  /\ Fresh(d) \subseteq Snapshot
         /\ \A s \in Fresh(d) : IsPrefix(s, round[d].latest) /\ s \in snapshots[d]
         /\ Fresh(d) # {} =>
              /\ Shortest(Fresh(d)) \in Fresh(d)
              /\ \A t \in Fresh(d) : Len(Shortest(Fresh(d))) <= Len(t)
<1>1. round[d].latest \in Snapshot
  BY RoundFields DEF LocalInv
<1>2. \A s \in Fresh(d) : s \in Snapshot /\ IsPrefix(s, round[d].latest) /\ s \in snapshots[d]
  BY <1>1, AncestryPrefix DEF Fresh, PushChain
<1> QED
  BY <1>2, ShortestExists DEF Shortest

(* Uploading a chunk keeps the invariant.                                  *)
LEMMA PushChunkStep ==
  ASSUME LocalInv, NEW d \in Device, pushChunk(d)
  PROVE  LocalInv'
<1>1. RemoteTypeOK'
  BY DEF LocalInv, TypeOK, DiskTypeOK, RemoteTypeOK, pushChunk
<1>2. DiskTypeOK' /\ MemoryTypeOK' /\ BoundTypeOK'
  BY DEF LocalInv, TypeOK, DiskTypeOK, MemoryTypeOK, BoundTypeOK, pushChunk, deviceVars, repoVars,
         boundVars
<1>3. StoresWhole' /\ RoundStored'
  BY StoresUntouched
     DEF LocalInv, RoundStored, Underway, HasFetched, pushChunk, deviceVars, repoVars
<1> QED
  BY <1>1, <1>2, <1>3 DEF LocalInv, TypeOK

(* Uploading a snapshot keeps the invariant.                               *)
LEMMA PushSnapshotStep ==
  ASSUME LocalInv, NEW d \in Device, pushSnapshot(d)
  PROVE  LocalInv'
<1>1. Shortest(Fresh(d)) \in Snapshot
  BY FreshFacts DEF pushSnapshot
<1>2. RemoteTypeOK'
  BY <1>1 DEF LocalInv, TypeOK, RemoteTypeOK, pushSnapshot
<1>3. DiskTypeOK' /\ MemoryTypeOK' /\ BoundTypeOK'
  BY DEF LocalInv, TypeOK, DiskTypeOK, MemoryTypeOK, BoundTypeOK, pushSnapshot, deviceVars,
         repoVars, boundVars
<1>4. StoresWhole' /\ RoundStored'
  BY StoresUntouched
     DEF LocalInv, RoundStored, Underway, HasFetched, pushSnapshot, deviceVars, repoVars
<1> QED
  BY <1>2, <1>3, <1>4 DEF LocalInv, TypeOK

(* The compare-and-swap of the remote head keeps the invariant.            *)
LEMMA SetHeadStep ==
  ASSUME LocalInv, NEW d \in Device, setHead(d)
  PROVE  LocalInv'
<1>1. pc[d] = "push" /\ pc' = [pc EXCEPT ![d] = "anchor"] /\ remoteHead' = round[d].latest
      /\ UNCHANGED <<repoVars, lastSynced, round, remoteSnapshots, remoteChunks, boundVars>>
  BY DEF setHead, ReadyToCommit
<1>2. pc \in [Device -> PcType]
  BY DEF LocalInv, TypeOK, MemoryTypeOK
<1>3. DiskTypeOK' /\ MemoryTypeOK' /\ BoundTypeOK'
  BY <1>1, <1>2 DEF LocalInv, TypeOK, DiskTypeOK, MemoryTypeOK, BoundTypeOK, PcType, repoVars,
         boundVars
<1>4. RemoteTypeOK'
  BY <1>1, RoundFields DEF LocalInv, TypeOK, RemoteTypeOK, MaybeHead
<1>5. StoresWhole' /\ RoundStored'
  BY <1>1, <1>2, StoresUntouched DEF LocalInv, RoundStored, Underway, HasFetched, repoVars
<1> QED
  BY <1>3, <1>4, <1>5 DEF LocalInv, TypeOK

(* A round that ends without leaving a trace keeps the invariant.          *)
LEMMA RoundOverStep ==
  ASSUME LocalInv, NEW d \in Device, UNCHANGED <<repoVars, lastSynced, remoteVars, boundVars>>,
         EndRound(d)
  PROVE  LocalInv'
<1>1. /\ checkout' \in [Device -> Checkout] /\ lastSynced' \in [Device -> MaybeHead]
      /\ RemoteTypeOK' /\ BoundTypeOK'
  BY DEF LocalInv, TypeOK, DiskTypeOK, MemoryTypeOK, RemoteTypeOK, BoundTypeOK,
         repoVars, remoteVars, boundVars
<1> QED
  BY <1>1, EndRoundStep DEF repoVars

(* A lost compare-and-swap keeps the invariant: attempts stay within       *)
(* MAX_HEAD_MOVED_RETRIES.                                                 *)
LEMMA SyncHeadMovedStep ==
  ASSUME LocalInv, NEW d \in Device, syncHeadMoved(d)
  PROVE  LocalInv'
<1>1. CASE round[d].attempt < MaxRetries
  <2> DEFINE again == [NoRound EXCEPT !.attempt = round[d].attempt + 1]
  <2>1. /\ pc' = [pc EXCEPT ![d] = "retry"] /\ round' = [round EXCEPT ![d] = again]
        /\ UNCHANGED <<repoVars, lastSynced, remoteVars, boundVars>>
    BY <1>1 DEF syncHeadMoved
  <2>2. again \in RoundType
    <3>1. round[d].attempt + 1 \in 1 .. MaxRetries
      BY <1>1, RoundFields, EngineAssumption DEF LocalInv
    <3> QED
      BY <3>1, NoRoundType DEF RoundType
  <2> HIDE DEF again
  <2>3. pc \in [Device -> PcType] /\ round \in [Device -> RoundType]
    BY DEF LocalInv, TypeOK, MemoryTypeOK
  <2>4. TypeOK'
    BY <2>1, <2>2, <2>3 DEF LocalInv, TypeOK, DiskTypeOK, MemoryTypeOK, RemoteTypeOK, BoundTypeOK,
                            PcType, repoVars, remoteVars, boundVars
  <2>5. StoresWhole' /\ RoundStored'
    BY <2>1, <2>3, StoresUntouched DEF LocalInv, RoundStored, Underway, HasFetched, repoVars
  <2> QED
    BY <2>4, <2>5 DEF LocalInv
<1>2. CASE ~ (round[d].attempt < MaxRetries)
  BY <1>2, RoundOverStep DEF syncHeadMoved
<1> QED
  BY <1>1, <1>2

(* Writing the anchor keeps the invariant.                                 *)
LEMMA WriteAnchorStep ==
  ASSUME LocalInv, NEW d \in Device, writeAnchor(d)
  PROVE  LocalInv'
<1>1. lastSynced' \in [Device -> MaybeHead]
  BY RoundFields DEF LocalInv, TypeOK, DiskTypeOK, writeAnchor, MaybeHead
<1>2. checkout' \in [Device -> Checkout] /\ RemoteTypeOK' /\ BoundTypeOK'
  BY DEF LocalInv, TypeOK, MemoryTypeOK, RemoteTypeOK, BoundTypeOK, writeAnchor,
         repoVars, remoteVars, boundVars
<1> QED
  BY <1>1, <1>2, EndRoundStep DEF writeAnchor, repoVars

(* Opening a file left in the cloud keeps the invariant.                   *)
LEMMA MaterializeStep ==
  ASSUME LocalInv, NEW d \in Device, NEW n \in Name, materialize(d, n)
  PROVE  LocalInv'
<1> DEFINE c == HeadFiles(d)[n].hash
<1>1. /\ PutFile(d, n, c) /\ c \in chunks[d] \cup remoteChunks
      /\ chunks' = [chunks EXCEPT ![d] = @ \cup {c}]
      /\ index' = [index EXCEPT ![d] = checkout'[d]]
      /\ UNCHANGED <<head, snapshots, lastSynced, pc, round, remoteVars, boundVars>>
  BY DEF materialize
<1> HIDE DEF c
<1>2. c \in Content
  BY <1>1 DEF LocalInv, TypeOK, DiskTypeOK, RemoteTypeOK
<1>3. /\ tree' \in [Device -> [Name -> Content \cup {Absent}]]
      /\ changes' \in [Device -> SUBSET Name]
      /\ checkout' \in [Device -> Checkout]
  BY <1>1, <1>2, PutFileType
<1>4. DiskTypeOK'
  BY <1>1, <1>2, <1>3 DEF LocalInv, TypeOK, DiskTypeOK
<1>5. MemoryTypeOK' /\ RemoteTypeOK' /\ BoundTypeOK'
  BY <1>1, <1>3 DEF LocalInv, TypeOK, MemoryTypeOK, RemoteTypeOK, BoundTypeOK, remoteVars,
                    boundVars
<1>6. StoresWhole' /\ RoundStored'
  BY <1>1, StoresUntouched DEF LocalInv, RoundStored, Underway, HasFetched
<1> QED
  BY <1>4, <1>5, <1>6 DEF LocalInv, TypeOK

-----------------------------------------------------------------------------
(* A failed request, a lost answer and a crash keep the invariant.         *)
LEMMA FailureStep ==
  ASSUME LocalInv, NEW d \in Device, Failure(d)
  PROVE  LocalInv'
<1>1. lastSynced \in [Device -> MaybeHead] /\ checkout \in [Device -> Checkout]
      /\ index \in [Device -> Checkout]
  BY DEF LocalInv, TypeOK, DiskTypeOK, MemoryTypeOK
<1>2. Fault /\ UNCHANGED <<edits, rollbacks, deleted>> => BoundTypeOK'
  BY EngineAssumption DEF LocalInv, TypeOK, BoundTypeOK, Fault
<1>3. CASE requestFails(d)
  <2>1. RemoteTypeOK' /\ BoundTypeOK'
    BY <1>2, <1>3 DEF LocalInv, TypeOK, RemoteTypeOK, requestFails, remoteVars
  <2> QED
    BY <1>1, <1>3, <2>1, EndRoundStep DEF requestFails, repoVars
<1>4. CASE answerLost(d)
  <2>1. RemoteTypeOK' /\ BoundTypeOK'
    BY <1>2, <1>4, RoundFields DEF LocalInv, TypeOK, RemoteTypeOK, answerLost, MaybeHead
  <2> QED
    BY <1>1, <1>4, <2>1, EndRoundStep DEF answerLost, repoVars
<1>5. CASE crash(d)
  <2>1. RemoteTypeOK' /\ BoundTypeOK' /\ checkout' \in [Device -> Checkout]
    BY <1>1, <1>2, <1>5 DEF LocalInv, TypeOK, RemoteTypeOK, crash, remoteVars
  <2> QED
    BY <1>1, <1>5, <2>1, EndRoundStep DEF crash
<1> QED
  BY <1>3, <1>4, <1>5 DEF Failure

(* A remote that serves an older head keeps the invariant.                 *)
LEMMA RollBackStep ==
  ASSUME LocalInv, rollBack
  PROVE  LocalInv'
<1>1. remoteHead' \in MaybeHead
  <2>1. remoteHead \in Snapshot
    BY DEF LocalInv, TypeOK, RemoteTypeOK, rollBack, MaybeHead
  <2> QED
    BY <2>1, PrefixesAre DEF rollBack, MaybeHead
<1>2. TypeOK'
  <2>1. DiskTypeOK' /\ MemoryTypeOK' /\ RemoteTypeOK'
    BY <1>1 DEF LocalInv, TypeOK, DiskTypeOK, MemoryTypeOK, RemoteTypeOK, rollBack,
                deviceVars, repoVars
  <2>2. BoundTypeOK'
    BY EngineAssumption DEF LocalInv, TypeOK, BoundTypeOK, rollBack
  <2> QED
    BY <2>1, <2>2 DEF TypeOK
<1>3. StoresWhole' /\ RoundStored'
  BY StoresUntouched
     DEF LocalInv, RoundStored, Underway, HasFetched, rollBack, deviceVars, repoVars
<1> QED
  BY <1>2, <1>3 DEF LocalInv

(* Every step of a round keeps the invariant.                              *)
LEMMA RoundStep ==
  ASSUME LocalInv, NEW d \in Device, Round(d)
  PROVE  LocalInv'
BY StartRoundStep, FetchSnapshotStep, FetchChunkStep, FetchedStep, RefuseRemoteStep,
   SnapshotLocalStep, MergeStepStep, MergeDoneStep, RebaseStep, SnapshotMergedStep,
   PushChunkStep, PushSnapshotStep, SetHeadStep, SyncHeadMovedStep, WriteAnchorStep
   DEF Round

(* Every step of a user keeps the invariant.                               *)
LEMMA UserStep ==
  ASSUME LocalInv, NEW d \in Device, User(d)
  PROVE  LocalInv'
BY WriteStep, SaveStep, DeleteStep DEF User

(* Every step keeps the invariant.                                         *)
LEMMA LocalInvStep ==
  ASSUME LocalInv, [Next]_vars
  PROVE  LocalInv'
<1>1. CASE rollBack
  BY <1>1, RollBackStep
<1>2. CASE \E d \in Device : User(d) \/ Round(d) \/ Open(d) \/ Failure(d)
  BY <1>2, UserStep, RoundStep, MaterializeStep, FailureStep DEF Open
<1>3. CASE UNCHANGED vars
  <2>1. TypeOK'
    BY <1>3 DEF LocalInv, TypeOK, DiskTypeOK, MemoryTypeOK, RemoteTypeOK, BoundTypeOK,
                vars, deviceVars, repoVars, remoteVars, boundVars
  <2>2. StoresWhole' /\ RoundStored'
    BY <1>3, StoresUntouched
       DEF LocalInv, RoundStored, Underway, HasFetched, vars, deviceVars, repoVars
  <2> QED
    BY <2>1, <2>2 DEF LocalInv
<1> QED
  BY <1>1, <1>2, <1>3 DEF Next

(* In every reachable state the types are right, no local store has a      *)
(* hole, and a round has what its next steps rely on.                      *)
THEOREM LocalInvariant == Spec => []LocalInv
<1>1. Init => LocalInv
  BY InitType
<1>2. LocalInv /\ [Next]_vars => LocalInv'
  BY LocalInvStep
<1> QED
  BY <1>1, <1>2, PTL DEF Spec

(* Type correctness, for any number of devices, names, contents, edits,    *)
(* faults and rollbacks: among other things the attempts of a round never  *)
(* exceed MAX_HEAD_MOVED_RETRIES and a merge never writes what is no       *)
(* content.                                                                *)
THEOREM TypeCorrect == Spec => []TypeOK
<1>1. LocalInv => TypeOK
  BY DEF LocalInv
<1> QED
  BY <1>1, LocalInvariant, PTL

(* A whole store holds every parent.                                       *)
LEMMA WholeClosed ==
  ASSUME LocalInv
  PROVE  LocalClosed
<1> SUFFICES ASSUME NEW d \in Device, NEW s \in snapshots[d], s # Root
             PROVE  Front(s) \in snapshots[d]
  BY DEF LocalInv, StoresWhole, LocalClosed
<1>1. snapshots[d] \in SUBSET Snapshot /\ Whole(snapshots[d])
  BY DEF LocalInv, StoresWhole, TypeOK, DiskTypeOK
<1> QED
  BY <1>1, FrontPrefix, WholePrefix

(* However often a fetch, a rebase or a save is interrupted, no snapshot a *)
(* device stores lacks its parent and its head is stored: engine.fetch's   *)
(* oldest-first order and Repo's write-before-head order are enough.       *)
THEOREM StoresClosed == Spec => []LocalClosed
<1>1. LocalInv => LocalClosed
  BY WholeClosed
<1> QED
  BY <1>1, LocalInvariant, PTL

=============================================================================
